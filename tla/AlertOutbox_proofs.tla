------------------------- MODULE AlertOutbox_proofs -------------------------
(***************************************************************************)
(* What every client of the outbox relies on: the operations keep the      *)
(* types of the tables, rows are numbered in the order of their insertion, *)
(* and a flush has reached one row at a time.                              *)
(***************************************************************************)
EXTENDS AlertOutbox, FiniteSetTheorems, TLAPS

(* The number of rows is a natural number, because the events are finitely many. *)
LEMMA RowidType ==
  ASSUME OutboxTypeOK
  PROVE Cardinality(Recorded) \in Nat
<1>1. IsFiniteSet(Recorded)
  BY FS_Subset, OutboxAssumption DEF Recorded
<1>2. QED
  BY <1>1, FS_CardinalityType

(* add_event gives the new row the next row id. *)
LEMMA NewRow ==
  ASSUME OutboxTypeOK, NEW e \in Events, NEW s, AddEvent(e, s)
  PROVE /\ Recorded' = Recorded \cup {e}
        /\ e \notin Recorded
        /\ Cardinality(Recorded') = Cardinality(Recorded) + 1
        /\ rowid'[e] = Cardinality(Recorded) + 1
        /\ \A f \in Events \ {e} : rowid'[f] = rowid[f] /\ score'[f] = score[f]
<1>1. Cardinality(Recorded) \in Nat
  BY RowidType
<1>2. Recorded' = Recorded \cup {e}
  <2>1. rowid'[e] > 0
    BY <1>1 DEF OutboxTypeOK, AddEvent
  <2>2. \A f \in Events \ {e} : rowid'[f] = rowid[f]
    BY DEF OutboxTypeOK, AddEvent
  <2>3. QED
    BY <2>1, <2>2 DEF Recorded
<1>3. e \notin Recorded
  BY DEF AddEvent, Recorded
<1>4. IsFiniteSet(Recorded)
  BY FS_Subset, OutboxAssumption DEF Recorded
<1>5. Cardinality(Recorded') = Cardinality(Recorded) + 1
  BY <1>2, <1>3, <1>4, FS_AddElement
<1>6. QED
  BY <1>2, <1>3, <1>5 DEF OutboxTypeOK, AddEvent

-----------------------------------------------------------------------------
(* The steps of _flush_alerts. *)
FlushStep(c) == \/ LoadOutbox(c)
                \/ \E e \in Events : \/ SkipAlert(c, e) \/ SendAlert(c, e)
                                     \/ SendFails(c, e) \/ MarkAlerted(c, e)

(* A flush keeps the types, and touches neither the rows nor the incidents. *)
LEMMA FlushTypes ==
  ASSUME OutboxTypeOK, NEW c \in Clients, FlushStep(c)
  PROVE  OutboxTypeOK' /\ Recorded' = Recorded /\ UNCHANGED <<rowid, score, incidents>>
<1>1. CASE LoadOutbox(c)
  BY <1>1 DEF LoadOutbox, OutboxTypeOK, PendingAlerts, Unalerted, Recorded
<1>2. ASSUME NEW e \in Events, \/ SkipAlert(c, e) \/ SendAlert(c, e)
                               \/ SendFails(c, e) \/ MarkAlerted(c, e)
      PROVE  OutboxTypeOK' /\ Recorded' = Recorded /\ UNCHANGED <<rowid, score, incidents>>
  BY <1>2 DEF SkipAlert, SendAlert, SendFails, MarkAlerted, Drop, OutboxTypeOK,
              Recorded
<1> QED BY <1>1, <1>2 DEF FlushStep

(* A new row keeps the types. *)
LEMMA AddTypes ==
  ASSUME OutboxTypeOK, NEW e \in Events, NEW s \in Nat, AddEvent(e, s),
         UNCHANGED <<incidents, alerted, delivered, batch>>
  PROVE  OutboxTypeOK'
<1>1. Cardinality(Recorded) + 1 \in Nat
  BY RowidType
<1> QED BY <1>1 DEF OutboxTypeOK, AddEvent

-----------------------------------------------------------------------------
(* Row ids are given out in order, and a batch holds rows. *)
Numbered == /\ \A e \in Events : rowid[e] <= Cardinality(Recorded)
            /\ \A e, f \in Recorded : rowid[e] = rowid[f] => e = f
            /\ \A c \in Clients : batch[c] \subseteq Recorded

(* The outbox starts empty. *)
LEMMA NumberedInit == OutboxInit => Numbered
<1>1. Cardinality({}) = 0
  BY FS_EmptySet
<1>2. QED
  BY <1>1 DEF OutboxInit, Numbered, Recorded

(* A new row gets a number of its own. *)
LEMMA NumberedAdd ==
  ASSUME OutboxTypeOK, Numbered, NEW e \in Events, NEW s, AddEvent(e, s), UNCHANGED batch
  PROVE  Numbered'
<1>1. /\ Recorded' = Recorded \cup {e} /\ e \notin Recorded
      /\ Cardinality(Recorded') = Cardinality(Recorded) + 1
      /\ rowid'[e] = Cardinality(Recorded) + 1
      /\ \A f \in Events \ {e} : rowid'[f] = rowid[f]
  BY NewRow
<1>2. Cardinality(Recorded) \in Nat /\ rowid \in [Events -> Nat] /\ Recorded \subseteq Events
  BY RowidType DEF OutboxTypeOK, Recorded
<1>3. \A f \in Events : rowid'[f] <= Cardinality(Recorded')
  BY <1>1, <1>2 DEF Numbered
<1>4. \A f, g \in Recorded' : rowid'[f] = rowid'[g] => f = g
  BY <1>1, <1>2 DEF Numbered
<1>5. \A c \in Clients : batch'[c] \subseteq Recorded'
  BY <1>1 DEF Numbered
<1> QED BY <1>3, <1>4, <1>5 DEF Numbered

(* A flush keeps the numbers, takes rows only, and takes them for itself. *)
LEMMA NumberedFlush ==
  ASSUME OutboxTypeOK, Numbered, NEW c \in Clients, FlushStep(c)
  PROVE  /\ Numbered' /\ delivered \subseteq delivered'
         /\ \A d \in Clients \ {c} : batch'[d] = batch[d]
<1> DEFINE Goal == /\ delivered \subseteq delivered'
                   /\ batch' \in [Clients -> SUBSET Events]
                   /\ \A d \in Clients : batch'[d] \subseteq batch[d] \cup Recorded
                   /\ \A d \in Clients \ {c} : batch'[d] = batch[d]
<1>1. Recorded' = Recorded /\ rowid' = rowid
  BY FlushTypes
<1>2. ASSUME LoadOutbox(c) PROVE Goal
  <2>1. /\ batch \in [Clients -> SUBSET Events] /\ Recorded \subseteq Events
        /\ delivered' = delivered /\ batch' = [batch EXCEPT ![c] = PendingAlerts]
    BY <1>2 DEF LoadOutbox, OutboxTypeOK, Recorded
  <2>2. PendingAlerts \subseteq Recorded
    BY DEF PendingAlerts, Unalerted
  <2> QED BY <2>1, <2>2
<1>3. ASSUME NEW e \in Events, \/ SkipAlert(c, e) \/ SendAlert(c, e)
                               \/ SendFails(c, e) \/ MarkAlerted(c, e)
      PROVE  Goal
  <2>1. batch \in [Clients -> SUBSET Events]
    BY DEF OutboxTypeOK
  <2>2. CASE SkipAlert(c, e)
    BY <2>1, <2>2 DEF SkipAlert, Drop
  <2>3. CASE SendAlert(c, e)
    BY <2>1, <2>3 DEF SendAlert
  <2>4. CASE SendFails(c, e)
    BY <2>1, <2>4 DEF SendFails, Drop
  <2>5. CASE MarkAlerted(c, e)
    BY <2>1, <2>5 DEF MarkAlerted, Drop
  <2> QED BY <1>3, <2>2, <2>3, <2>4, <2>5
<1>4. Goal
  BY <1>2, <1>3 DEF FlushStep
<1> QED BY <1>1, <1>4 DEF Numbered

(* A flush has reached one row. *)
LEMMA OneReached ==
  ASSUME OutboxTypeOK, Numbered, NEW c \in Clients, NEW e, NEW f, Reached(c, e), Reached(c, f)
  PROVE  e = f /\ e \in Recorded /\ e \in Events
<1>1. e \in Recorded /\ f \in Recorded /\ e \in Events /\ f \in Events
  BY DEF Reached, Numbered, OutboxTypeOK
<1>2. rowid[e] = rowid[f]
  BY <1>1 DEF Reached, OutboxTypeOK
<1> QED BY <1>1, <1>2 DEF Numbered
=============================================================================
