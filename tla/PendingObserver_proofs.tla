----------------------- MODULE PendingObserver_proofs -----------------------
(***************************************************************************)
(* Theorems about PendingObserver and their proofs: the heartbeat row of a *)
(* broken connection, the completeness of the cases, and the refinement of *)
(* the case ledger by the observer and the scanners that flush with it.    *)
(***************************************************************************)
EXTENDS PendingObserver, AlertOutbox_proofs

(* A transaction is in process, and is one with evidence. *)
Casing == {"analyse", "event", "incident", "graph", "notify", "notified"}
Streaming == Casing \cup {"stream", "lookup", "triage"}

(* The heartbeat task lives only while the stream is open; a message is      *)
(* counted once; a case in process is an event, and has its row from         *)
(* add_event on.                                                             *)
FrameOK ==
  /\ beat # "off" => phase \in Streaming
  /\ telemetry <= messages
  /\ phase \in {"lookup", "triage"} => telemetry < messages
  /\ phase \in Casing => tx \in Events
  /\ phase \in {"incident", "graph"} => tx \in Recorded
  /\ phase \in Phases \ (Streaming \ {"stream"}) => tx = None

Typed == TypeOK /\ FrameOK

(* The next endpoint is one of the endpoints. *)
LEMMA RotateType ==
  ASSUME NEW i \in 0..(Sockets - 1) PROVE Rotate(i) \in 0..(Sockets - 1)
BY ObserverAssumption DEF Rotate

(* The delay stays within its bounds. *)
LEMMA LongerType ==
  ASSUME NEW b \in 1..MaxBackoff PROVE Longer(b) \in 1..MaxBackoff
BY ObserverAssumption DEF Longer

(* An empty database and an observer that is about to connect. *)
LEMMA TypedInit == Init => Typed
BY ObserverAssumption
   DEF Init, Typed, TypeOK, FrameOK, OutboxInit, OutboxTypeOK, Phases, Streaming, Casing

(* A frame left behind keeps the types and the rows. *)
LEMMA ForgetTypes ==
  ASSUME TypeOK, Forget
  PROVE  OutboxTypeOK' /\ Recorded' = Recorded /\ tx' = None
BY ObserverAssumption DEF TypeOK, OutboxTypeOK, Forget, Reached, Recorded

(* Every step keeps the types and what the observer holds. *)
LEMMA TypedStep == Typed /\ [Next]_vars => Typed'
<1> SUFFICES ASSUME Typed, [Next]_vars PROVE Typed'
  OBVIOUS
<1>0. /\ TypeOK /\ FrameOK /\ OutboxTypeOK /\ Watcher \in Clients
      /\ None \notin Events \cup Routine \cup Foreign
      /\ Sockets \in Nat \ {0} /\ MaxBackoff \in Nat \ {0}
      /\ MaxMessages \in Nat /\ MaxFailures \in Nat
      /\ Flushers \subseteq Clients
  BY ObserverAssumption DEF Typed, TypeOK, Flushers
<1> USE DEF Typed, connection, endpoints, case, rows, bounds
<1>1. ASSUME NEW i \in 0..(Sockets - 1), Flip(i) PROVE Typed'
  BY <1>0, <1>1 DEF Flip, TypeOK, FrameOK, outboxVars, OutboxTypeOK, Recorded
<1>2. CASE Connect \/ Greet \/ Beat \/ BeatDies
  <2>1. TypeOK'
    <3>1. CASE Connect \/ Greet
      BY <1>0, <3>1 DEF Connect, Greet, TypeOK, outboxVars, OutboxTypeOK, Phases
    <3>2. CASE Beat
      BY <1>0, <3>2 DEF Beat, TypeOK, outboxVars, OutboxTypeOK
    <3>3. CASE BeatDies
      BY <1>0, <3>3 DEF BeatDies, TypeOK, outboxVars, OutboxTypeOK
    <3> QED BY <1>2, <3>1, <3>2, <3>3
  <2>2. FrameOK'
    BY <1>0, <1>2 DEF Connect, Greet, Beat, BeatDies, TypeOK, FrameOK, outboxVars, Recorded,
                      Phases, Streaming, Casing
  <2> QED BY <2>1, <2>2
<1>3. CASE Refused \/ Wake
  <2>1. TypeOK'
    BY <1>0, <1>3, RotateType, LongerType
       DEF Refused, Retry, Wake, TypeOK, outboxVars, OutboxTypeOK, Phases
  <2>2. FrameOK'
    BY <1>0, <1>3 DEF Refused, Retry, Wake, TypeOK, FrameOK, outboxVars, Recorded, Phases,
                      Streaming, Casing
  <2> QED BY <2>1, <2>2
<1>4. CASE ReadOutbox
  <2>1. OutboxTypeOK' /\ Recorded' = Recorded
    BY <1>0, <1>4, FlushTypes DEF ReadOutbox, FlushStep
  <2> QED BY <1>0, <1>4, <2>1 DEF ReadOutbox, TypeOK, FrameOK, Phases, Streaming, Casing
<1>5. ASSUME NEW e \in Events, Skip(e) \/ Deliver(e) \/ DeliveryFails(e) \/ Mark(e)
      PROVE  Typed'
  <2>1. OutboxTypeOK' /\ Recorded' = Recorded
    BY <1>0, <1>5, FlushTypes DEF Skip, Deliver, DeliveryFails, Mark, FlushStep
  <2>2. TypeOK'
    BY <1>0, <1>5, <2>1 DEF Skip, Deliver, DeliveryFails, Mark, TypeOK, Phases
  <2>3. FrameOK'
    BY <1>0, <1>5, <2>1 DEF Skip, Deliver, DeliveryFails, Mark, TypeOK, FrameOK, Phases,
                            Streaming, Casing
  <2> QED BY <2>2, <2>3
<1>6. CASE OpenStream
  BY <1>0, <1>6 DEF OpenStream, TypeOK, FrameOK, outboxVars, OutboxTypeOK, Recorded, Phases,
                    Streaming, Casing
<1>7. ASSUME NEW t \in Events \cup Routine \cup Foreign, Receive(t) PROVE Typed'
  BY <1>0, <1>7 DEF Receive, TypeOK, FrameOK, outboxVars, OutboxTypeOK, Recorded, Phases,
                    Streaming, Casing
<1>8. CASE Lookup \/ LookupNothing \/ Ignore \/ Count \/ TakeUp \/ Analyse
  <2>1. TypeOK'
    <3>1. CASE Lookup \/ TakeUp \/ Analyse
      BY <1>0, <3>1 DEF Lookup, TakeUp, Analyse, TypeOK, outboxVars, OutboxTypeOK, Phases
    <3>2. CASE LookupNothing \/ Ignore
      BY <1>0, <3>2 DEF LookupNothing, Ignore, Done, TypeOK, outboxVars, OutboxTypeOK, Phases
    <3>3. CASE Count
      BY <1>0, <3>3 DEF Count, Done, TypeOK, FrameOK, outboxVars, OutboxTypeOK, Phases
    <3> QED BY <1>8, <3>1, <3>2, <3>3
  <2>2. FrameOK'
    BY <1>0, <1>8 DEF Lookup, LookupNothing, Ignore, Count, TakeUp, Analyse, Done, TypeOK,
                      FrameOK, outboxVars, Recorded, Phases, Streaming, Casing
  <2> QED BY <2>1, <2>2
<1>9. ASSUME NEW s \in Scores, RecordEvent(s) PROVE Typed'
  <2>1. tx \in Events /\ s \in Nat
    BY <1>0, <1>9, OutboxAssumption DEF RecordEvent, FrameOK, Casing
  <2>2. OutboxTypeOK' /\ Recorded' = Recorded \cup {tx}
    BY <1>0, <1>9, <2>1, AddTypes, NewRow DEF RecordEvent
  <2> QED BY <1>0, <1>9, <2>1, <2>2 DEF RecordEvent, TypeOK, FrameOK, Phases, Streaming, Casing
<1>10. CASE KnownEvent \/ Promote \/ Relate \/ Return
  <2>1. TypeOK'
    BY <1>0, <1>10 DEF KnownEvent, Promote, OpenIncident, Relate, Return, Done, TypeOK,
                       FrameOK, outboxVars, OutboxTypeOK, Phases, Casing
  <2>2. FrameOK'
    BY <1>0, <1>10 DEF KnownEvent, Promote, Relate, Return, Done, TypeOK, FrameOK, outboxVars,
                       Recorded, Phases, Streaming, Casing
  <2> QED BY <2>1, <2>2
<1>11. CASE Notify
  <2>1. OutboxTypeOK' /\ Recorded' = Recorded
    BY <1>0, <1>11 DEF Notify, OutboxTypeOK, Recorded, FrameOK, Casing
  <2> QED BY <1>0, <1>11, <2>1 DEF Notify, TypeOK, FrameOK, Phases, Streaming, Casing
<1>12. CASE Break \/ Stop \/ Crash
  <2>1. Forget
    BY <1>12 DEF Break, Stop, Crash
  <2>2. OutboxTypeOK' /\ Recorded' = Recorded /\ tx' = None
    BY <1>0, <2>1, ForgetTypes
  <2>3. TypeOK'
    <3>1. CASE Break
      BY <1>0, <2>2, <3>1, RotateType DEF Break, Retry, Fail, TypeOK, Phases
    <3>2. CASE Stop
      BY <1>0, <2>2, <3>2, RotateType DEF Stop, Retry, Fail, TypeOK, Phases
    <3>3. CASE Crash
      BY <1>0, <2>2, <3>3 DEF Crash, Fail, TypeOK, Phases
    <3> QED BY <1>12, <3>1, <3>2, <3>3
  <2>4. FrameOK'
    BY <1>0, <1>12, <2>2 DEF Break, Stop, Crash, Retry, TypeOK, FrameOK, Phases, Streaming,
                             Casing
  <2> QED BY <2>3, <2>4
<1>13. CASE Close \/ Start \/ StartFails
  <2>1. TypeOK'
    <3>1. CASE Close
      BY <1>0, <3>1, RotateType DEF Close, Retry, TypeOK, outboxVars, OutboxTypeOK, Phases
    <3>2. CASE Start
      BY <1>0, <3>2 DEF Start, TypeOK, outboxVars, OutboxTypeOK, Phases
    <3>3. CASE StartFails
      BY <1>0, <3>3 DEF StartFails, Fail, TypeOK, outboxVars, OutboxTypeOK, Phases
    <3> QED BY <1>13, <3>1, <3>2, <3>3
  <2>2. FrameOK'
    BY <1>0, <1>13 DEF Close, Start, StartFails, Retry, TypeOK, FrameOK, outboxVars, Recorded, Phases,
                       Streaming, Casing
  <2> QED BY <2>1, <2>2
<1>14. ASSUME NEW c \in Flushers, Flushes(c) PROVE Typed'
  <2>1. OutboxTypeOK' /\ Recorded' = Recorded /\ flush' \in [Flushers -> {"idle", "send", "mark"}]
    <3>1. CASE FlusherReads(c)
      <4>1. OutboxTypeOK' /\ Recorded' = Recorded
        BY <1>0, <3>1, FlushTypes DEF FlusherReads, FlushStep
      <4> QED BY <1>0, <3>1, <4>1 DEF FlusherReads, TypeOK
    <3>2. ASSUME NEW e \in Events, \/ FlusherSkips(c, e) \/ FlusherSends(c, e)
                                   \/ FlusherFails(c, e) \/ FlusherMarks(c, e)
          PROVE  /\ OutboxTypeOK' /\ Recorded' = Recorded
                 /\ flush' \in [Flushers -> {"idle", "send", "mark"}]
      <4>1. OutboxTypeOK' /\ Recorded' = Recorded
        BY <1>0, <3>2, FlushTypes DEF FlusherSkips, FlusherSends, FlusherFails, FlusherMarks,
                                      FlushStep
      <4> QED BY <1>0, <3>2, <4>1 DEF FlusherSkips, FlusherSends, FlusherFails, FlusherMarks,
                                      TypeOK
    <3>3. CASE FlusherEnds(c)
      BY <1>0, <3>3 DEF FlusherEnds, TypeOK, outboxVars, OutboxTypeOK, Recorded
    <3> QED BY <1>14, <3>1, <3>2, <3>3 DEF Flushes
  <2> QED BY <1>0, <1>14, <2>1 DEF Flushes, TypeOK, FrameOK
<1>15. CASE UNCHANGED vars
  BY <1>0, <1>15 DEF vars, TypeOK, FrameOK, outboxVars, OutboxTypeOK, Recorded
<1> QED
  BY <1>1, <1>2, <1>3, <1>4, <1>5, <1>6, <1>7, <1>8, <1>9, <1>10, <1>11, <1>12, <1>13,
     <1>14, <1>15 DEF Next, Step

-----------------------------------------------------------------------------
(* Every step keeps the outage visible: the heartbeat task is over before    *)
(* the degraded row is written.                                              *)
LEMMA OutageStep == Typed /\ OutageVisible /\ [Next]_vars => OutageVisible'
<1> SUFFICES ASSUME Typed, OutageVisible, [Next]_vars, phase' = "sleep"
             PROVE  heartbeat' = "degraded"
  BY DEF OutageVisible
<1> USE DEF outboxVars, connection, endpoints, case, rows, bounds, Typed, FrameOK, OutageVisible,
            Streaming, Casing
<1>1. CASE Connect \/ Refused \/ Greet \/ Wake \/ ReadOutbox \/ OpenStream
  BY <1>1 DEF Connect, Refused, Retry, Greet, Wake, ReadOutbox, OpenStream
<1>2. ASSUME NEW e \in Events, Skip(e) \/ Deliver(e) \/ DeliveryFails(e) \/ Mark(e)
      PROVE  heartbeat' = "degraded"
  BY <1>2 DEF Skip, Deliver, DeliveryFails, Mark
<1>3. CASE Lookup \/ LookupNothing \/ Ignore \/ Count \/ TakeUp \/ Analyse
  BY <1>3 DEF Lookup, LookupNothing, Ignore, Count, TakeUp, Analyse, Done
<1>4. CASE (\E s \in Scores : RecordEvent(s)) \/ KnownEvent \/ Promote \/ Relate \/ Notify
           \/ Return \/ Start \/ StartFails
  BY <1>4 DEF RecordEvent, KnownEvent, Promote, Relate, Notify, Return, Start, StartFails, Done
<1>5. CASE Beat \/ BeatDies
  BY <1>5 DEF Beat, BeatDies
<1>6. CASE \/ \E t \in Events \cup Routine \cup Foreign : Receive(t)
           \/ \E i \in 0..(Sockets - 1) : Flip(i)
           \/ \E c \in Flushers : Flushes(c)
  BY <1>6 DEF Receive, Flip, Flushes
<1>7. CASE Break \/ Close \/ Stop \/ Crash
  BY <1>7 DEF Break, Close, Stop, Crash, Retry
<1>8. CASE UNCHANGED vars
  BY <1>8 DEF vars
<1> QED BY <1>1, <1>2, <1>3, <1>4, <1>5, <1>6, <1>7, <1>8 DEF Next, Step

-----------------------------------------------------------------------------
(* The case of an event is complete: its relations and its incident. *)
Complete(e) == /\ Range(Context(e)) \subseteq graph
               /\ score[e] >= IncidentMin => e \in incidents

(* Every case is complete but the one whose rows are being written, and what *)
(* that one lacks is still to be written.                                    *)
CasesInv ==
  failures = 0 =>
    /\ \A e \in Recorded : Complete(e) \/ (e = tx /\ phase \in {"incident", "graph"})
    /\ phase = "graph" =>
         /\ score[tx] >= IncidentMin => tx \in incidents
         /\ todo \in Seq(Range(Context(tx)))
         /\ Range(Context(tx)) \subseteq graph \cup Range(todo)

(* Short sequences. *)
LEMMA TripleType ==
  ASSUME NEW S, NEW a \in S, NEW b \in S, NEW c \in S
  PROVE  <<a, b, c>> \in Seq(S) /\ <<a, b>> \in Seq(S) /\ <<>> \in Seq(S)
OBVIOUS

(* The relations of a case are a sequence. *)
LEMMA ContextType ==
  ASSUME NEW e \in Events PROVE Context(e) \in Seq(Range(Context(e)))
<1> DEFINE S == {<<Protocol[e]>>, <<Contract[e]>>, <<Protocol[e], Contract[e]>>,
                 <<Sender[e]>>, <<Sender[e], Contract[e]>>}
           first == << <<Protocol[e]>>, <<Contract[e]>>, <<Protocol[e], Contract[e]>> >>
           second == IF Sender[e] = None THEN <<>>
                     ELSE << <<Sender[e]>>, <<Sender[e], Contract[e]>> >>
<1>1. <<Protocol[e]>> \in S /\ <<Contract[e]>> \in S /\ <<Protocol[e], Contract[e]>> \in S
      /\ <<Sender[e]>> \in S /\ <<Sender[e], Contract[e]>> \in S
  OBVIOUS
<1> HIDE DEF S
<1>2. first \in Seq(S)
  BY <1>1, TripleType, Zenon
<1>3. second \in Seq(S)
  BY <1>1, TripleType, Zenon
<1>4. Context(e) = first \o second
  BY DEF Context
<1> HIDE DEF first, second
<1>5. Context(e) \in Seq(S)
  BY <1>2, <1>3, <1>4
<1> HIDE DEF S
<1> QED BY <1>5 DEF Range

(* What is left of a sequence after its head. *)
LEMMA HeadAndTail ==
  ASSUME NEW S, NEW s \in Seq(S), s # <<>>
  PROVE  Tail(s) \in Seq(S) /\ Range(s) \subseteq {Head(s)} \cup Range(Tail(s))
<1>1. Tail(s) \in Seq(S) /\ Len(s) > 0 /\ Len(Tail(s)) = Len(s) - 1
      /\ \A i \in 1..(Len(s) - 1) : Tail(s)[i] = s[i + 1]
  OBVIOUS
<1>2. ASSUME NEW i \in 1..Len(s), i # 1 PROVE s[i] \in Range(Tail(s))
  <2>1. i - 1 \in 1..Len(Tail(s)) /\ Tail(s)[i - 1] = s[i]
    BY <1>1, <1>2
  <2>2. DOMAIN Tail(s) = 1..Len(Tail(s))
    BY <1>1
  <2> QED BY ONLY <2>1, <2>2, Zenon DEF Range
<1>3. \A i \in DOMAIN s : s[i] \in {Head(s)} \cup Range(Tail(s))
  <2>1. DOMAIN s = 1..Len(s) /\ Head(s) = s[1]
    BY <1>1
  <2> QED BY <1>2, <2>1
<1> QED BY <1>1, <1>3 DEF Range

(* A step that writes no row and neither starts nor ends a case. *)
LEMMA QuietStep ==
  ASSUME CasesInv, UNCHANGED <<rowid, score, incidents, graph, failures>>,
         \/ phase \notin {"incident", "graph"} /\ phase' \notin {"incident", "graph"}
         \/ UNCHANGED <<phase, tx, todo>>
  PROVE  CasesInv'
BY DEF CasesInv, Complete, Recorded

(* Every step that cuts nothing short keeps the cases complete. *)
LEMMA CasesStep == Typed /\ CasesInv /\ [Next]_vars => CasesInv'
<1> SUFFICES ASSUME Typed, CasesInv, [Next]_vars, failures' = 0 PROVE CasesInv'
  BY DEF CasesInv
<1>0. /\ OutboxTypeOK /\ failures \in Nat
      /\ phase \in {"event", "incident", "graph"} => tx \in Events
      /\ phase \in {"incident", "graph"} => tx \in Recorded
  BY ObserverAssumption DEF Typed, TypeOK, FrameOK, Casing
<1> USE DEF outboxVars, connection, endpoints, case, rows, bounds
<1>1. CASE Connect \/ Refused \/ Greet \/ Wake \/ ReadOutbox \/ OpenStream
  BY <1>1, QuietStep DEF Connect, Refused, Retry, Greet, Wake, ReadOutbox, LoadOutbox,
                         OpenStream
<1>2. ASSUME NEW e \in Events, Skip(e) \/ Deliver(e) \/ DeliveryFails(e) \/ Mark(e)
      PROVE  CasesInv'
  BY <1>2, QuietStep DEF Skip, Deliver, DeliveryFails, Mark, SkipAlert, SendAlert, SendFails,
                         MarkAlerted
<1>3. CASE Lookup \/ LookupNothing \/ Ignore \/ Count \/ TakeUp \/ Analyse \/ KnownEvent
           \/ Return \/ Start \/ Close
  BY <1>3, QuietStep DEF Lookup, LookupNothing, Ignore, Count, TakeUp, Analyse, KnownEvent,
                         Return, Start, Done, Close, Retry
<1>4. ASSUME NEW s \in Scores, RecordEvent(s) PROVE CasesInv'
  <2>1. tx \in Events /\ AddEvent(tx, s)
    BY <1>0, <1>4 DEF RecordEvent
  <2>2. /\ Recorded' = Recorded \cup {tx} /\ tx \notin Recorded
        /\ \A f \in Events \ {tx} : score'[f] = score[f]
    BY <1>0, <2>1, NewRow
  <2>3. phase = "event" /\ phase' = "incident" /\ UNCHANGED <<incidents, graph, tx, failures>>
    BY <1>4 DEF RecordEvent
  <2>4. \A e \in Recorded : e \in Events /\ e # tx /\ Complete(e)
    BY <2>2, <2>3 DEF CasesInv, Recorded
  <2>5. \A e \in Recorded : Complete(e)'
    BY <2>2, <2>3, <2>4 DEF Complete
  <2> QED BY <2>2, <2>3, <2>5 DEF CasesInv
<1>5. CASE Promote
  <2>1. /\ phase = "incident" /\ phase' = "graph" /\ todo' = Context(tx)
        /\ incidents \subseteq incidents' /\ (score[tx] >= IncidentMin => tx \in incidents')
        /\ UNCHANGED <<rowid, score, graph, tx, failures>>
    BY <1>5 DEF Promote, OpenIncident
  <2>2. Recorded' = Recorded /\ \A e \in Recorded : Complete(e) => Complete(e)'
    BY <2>1 DEF Recorded, Complete
  <2>3. Context(tx) \in Seq(Range(Context(tx)))
    BY <1>0, <2>1, ContextType
  <2> QED BY <2>1, <2>2, <2>3 DEF CasesInv
<1>6. CASE Relate
  <2>1. /\ phase = "graph" /\ todo # <<>> /\ todo' = Tail(todo)
        /\ graph' = graph \cup {Head(todo)}
        /\ UNCHANGED <<rowid, score, incidents, phase, tx, failures>>
    BY <1>6 DEF Relate
  <2>2. Recorded' = Recorded /\ \A e \in Recorded : Complete(e) => Complete(e)'
    BY <2>1 DEF Recorded, Complete
  <2>3. /\ todo \in Seq(Range(Context(tx)))
        /\ Range(Context(tx)) \subseteq graph \cup Range(todo)
    BY <2>1 DEF CasesInv
  <2>4. /\ Tail(todo) \in Seq(Range(Context(tx)))
        /\ Range(todo) \subseteq {Head(todo)} \cup Range(Tail(todo))
    BY <2>1, <2>3, HeadAndTail
  <2> QED BY <2>1, <2>2, <2>3, <2>4 DEF CasesInv
<1>7. CASE Notify
  <2>1. /\ phase = "graph" /\ todo = <<>> /\ phase' = "notify"
        /\ UNCHANGED <<rowid, score, incidents, graph, tx, failures>>
    BY <1>7 DEF Notify
  <2>2. Recorded' = Recorded /\ \A e \in Recorded : Complete(e) => Complete(e)'
    BY <2>1 DEF Recorded, Complete
  <2>3. Range(todo) = {}
    BY <2>1 DEF Range
  <2>4. Complete(tx)
    BY <2>1, <2>3 DEF CasesInv, Complete
  <2> QED BY <2>1, <2>2, <2>4 DEF CasesInv
<1>8. CASE Beat \/ BeatDies
  BY <1>0, <1>8, QuietStep DEF Beat, BeatDies
<1>9. CASE \/ \E t \in Events \cup Routine \cup Foreign : Receive(t)
           \/ \E i \in 0..(Sockets - 1) : Flip(i)
  BY <1>9, QuietStep DEF Receive, Flip
<1>10. ASSUME NEW c \in Flushers, Flushes(c) PROVE CasesInv'
  BY <1>10, QuietStep DEF Flushes, FlusherReads, FlusherSkips, FlusherSends, FlusherFails,
                          FlusherMarks, FlusherEnds, LoadOutbox, SkipAlert, SendAlert,
                          SendFails, MarkAlerted
<1>11. CASE Break \/ Stop \/ Crash \/ StartFails
  BY <1>0, <1>11 DEF Break, Stop, Crash, StartFails, Fail
<1>12. CASE UNCHANGED vars
  BY <1>12, QuietStep DEF vars
<1> QED BY <1>1, <1>2, <1>3, <1>4, <1>5, <1>6, <1>7, <1>8, <1>9, <1>10, <1>11, <1>12
        DEF Next, Step

-----------------------------------------------------------------------------
(* Rows are numbered, and who is about to mark a row has delivered it. *)
RowsOK ==
  /\ Numbered
  /\ phase \in {"mark", "notified"} =>
       \A e \in Events : Reached(Watcher, e) => e \in delivered
  /\ \A c \in Flushers : flush[c] = "mark" =>
       \A e \in Events : Reached(c, e) => e \in delivered

(* A client's batch and the numbers of its rows decide which row it reached. *)
LEMMA ReachedSame ==
  ASSUME OutboxTypeOK, Numbered, NEW c \in Clients, NEW e \in Events,
         batch'[c] = batch[c], \A f \in Recorded : rowid'[f] = rowid[f], Reached(c, e)'
  PROVE  Reached(c, e)
<1>1. batch[c] \subseteq Recorded
  BY DEF Numbered
<1> QED BY <1>1 DEF Reached

(* A step without a write to the outbox, and without a delivery to mark. *)
LEMMA RowsQuiet ==
  ASSUME RowsOK, UNCHANGED <<rowid, delivered, batch>>,
         phase' \in {"mark", "notified"} => phase' = phase,
         \A c \in Flushers : flush'[c] = "mark" => flush'[c] = flush[c]
  PROVE  RowsOK'
BY DEF RowsOK, Numbered, Recorded, Reached

(* Every step keeps the rows numbered and the marks behind the deliveries. *)
LEMMA RowsStep == Typed /\ RowsOK /\ [Next]_vars => RowsOK'
<1> SUFFICES ASSUME Typed, RowsOK, [Next]_vars PROVE RowsOK'
  OBVIOUS
<1>0. /\ OutboxTypeOK /\ Watcher \in Clients /\ Numbered
      /\ flush \in [Flushers -> {"idle", "send", "mark"}]
      /\ Watcher \notin Flushers /\ Flushers \subseteq Clients
      /\ phase \in {"event", "incident", "graph"} => tx \in Events
      /\ phase \in {"incident", "graph"} => tx \in Recorded
  BY ObserverAssumption DEF Typed, TypeOK, FrameOK, Casing, RowsOK, Flushers
<1> USE DEF outboxVars, connection, endpoints, case, rows, bounds
<1>1. CASE Connect \/ Refused \/ Greet \/ Wake \/ OpenStream
  BY <1>1, RowsQuiet DEF Connect, Refused, Retry, Greet, Wake, OpenStream
<1>2. CASE ReadOutbox
  <2>1. Numbered' /\ \A c \in Flushers : batch'[c] = batch[c]
    BY <1>0, <1>2, NumberedFlush DEF ReadOutbox, FlushStep
  <2>2. phase' = "send" /\ UNCHANGED <<flush, rowid, delivered>>
    BY <1>2 DEF ReadOutbox, LoadOutbox
  <2> QED BY <1>0, <2>1, <2>2, ReachedSame DEF RowsOK
<1>3. ASSUME NEW e \in Events, Skip(e) \/ Deliver(e) \/ DeliveryFails(e) \/ Mark(e)
      PROVE  RowsOK'
  <2>1. /\ Numbered' /\ delivered \subseteq delivered' /\ UNCHANGED <<rowid, flush>>
        /\ \A c \in Flushers : batch'[c] = batch[c]
    BY <1>0, <1>3, NumberedFlush DEF Skip, Deliver, DeliveryFails, Mark, FlushStep, SkipAlert,
                                     SendAlert, SendFails, MarkAlerted
  <2>2. \A c \in Flushers : flush'[c] = "mark" =>
          \A f \in Events : Reached(c, f)' => f \in delivered'
    BY <1>0, <2>1, ReachedSame DEF RowsOK
  <2>3. ASSUME phase' \in {"mark", "notified"}, NEW f \in Events, Reached(Watcher, f)'
        PROVE  f \in delivered'
    <3>1. Deliver(e)
      BY <1>3, <2>3 DEF Skip, Deliver, DeliveryFails, Mark
    <3>2. Reached(Watcher, f) /\ Reached(Watcher, e) /\ e \in delivered'
      BY <1>0, <2>1, <2>3, <3>1, ReachedSame DEF Deliver, SendAlert
    <3> QED BY <1>0, <3>2, OneReached
  <2> QED BY <2>1, <2>2, <2>3 DEF RowsOK
<1>4. CASE Lookup \/ LookupNothing \/ Ignore \/ Count \/ TakeUp \/ Analyse \/ KnownEvent
           \/ Return \/ Start \/ StartFails \/ Promote \/ Relate \/ Beat \/ BeatDies \/ Close
  BY <1>4, RowsQuiet DEF Lookup, LookupNothing, Ignore, Count, TakeUp, Analyse, KnownEvent,
                         Return, Start, StartFails, Done, Promote, Relate, Beat, BeatDies, Close, Retry
<1>5. ASSUME NEW s \in Scores, RecordEvent(s) PROVE RowsOK'
  <2>1. tx \in Events /\ AddEvent(tx, s) /\ phase' = "incident"
        /\ UNCHANGED <<batch, delivered, flush>>
    BY <1>0, <1>5 DEF RecordEvent
  <2>2. Numbered' /\ \A f \in Recorded : rowid'[f] = rowid[f]
    BY <1>0, <2>1, NumberedAdd, NewRow DEF Recorded
  <2> QED BY <1>0, <2>1, <2>2, ReachedSame DEF RowsOK
<1>6. CASE Notify
  <2>1. phase = "graph" /\ phase' = "notify" /\ UNCHANGED <<rowid, delivered, flush>>
        /\ batch' = [batch EXCEPT ![Watcher] = {tx}]
    BY <1>6 DEF Notify
  <2>2. /\ batch'[Watcher] = {tx} /\ tx \in Recorded /\ Recorded' = Recorded
        /\ \A c \in Clients \ {Watcher} : batch'[c] = batch[c]
    BY <1>0, <2>1 DEF OutboxTypeOK, Recorded
  <2>3. Numbered'
    BY <1>0, <2>1, <2>2 DEF Numbered
  <2> QED BY <1>0, <2>1, <2>2, <2>3, ReachedSame DEF RowsOK
<1>7. CASE \/ \E t \in Events \cup Routine \cup Foreign : Receive(t)
           \/ \E i \in 0..(Sockets - 1) : Flip(i)
  BY <1>7, RowsQuiet DEF Receive, Flip
<1>8. CASE Break \/ Stop \/ Crash
  <2>1. Forget /\ phase' \notin {"mark", "notified"} /\ flush' = flush
    BY <1>8 DEF Break, Stop, Crash, Retry
  <2>2. /\ batch'[Watcher] = {} /\ delivered \subseteq delivered' /\ rowid' = rowid
        /\ \A c \in Clients \ {Watcher} : batch'[c] = batch[c]
    BY <1>0, <2>1 DEF Forget, OutboxTypeOK
  <2>3. Numbered'
    BY <1>0, <2>2 DEF Numbered, Recorded
  <2> QED BY <1>0, <2>1, <2>2, <2>3, ReachedSame DEF RowsOK
<1>9. ASSUME NEW c \in Flushers, Flushes(c) PROVE RowsOK'
  <2>0. c \in Clients /\ c # Watcher
    BY <1>0
  <2>1. CASE FlusherEnds(c)
    BY <1>0, <1>9, <2>1, RowsQuiet DEF Flushes, FlusherEnds
  <2>2. ASSUME FlushStep(c), \A d \in Flushers \ {c} : flush'[d] = flush[d],
               flush'[c] = "mark" => \E e \in Events : SendAlert(c, e)
        PROVE  RowsOK'
    <3>1. /\ Numbered' /\ delivered \subseteq delivered' /\ rowid' = rowid /\ phase' = phase
          /\ \A d \in Clients \ {c} : batch'[d] = batch[d]
      BY <1>0, <1>9, <2>0, <2>2, NumberedFlush, FlushTypes DEF Flushes
    <3>2. phase' \in {"mark", "notified"} =>
            \A f \in Events : Reached(Watcher, f)' => f \in delivered'
      BY <1>0, <2>0, <3>1, ReachedSame DEF RowsOK
    <3>3. ASSUME NEW d \in Flushers, d # c, flush'[d] = "mark",
                 NEW f \in Events, Reached(d, f)'
          PROVE  f \in delivered'
      BY <1>0, <2>2, <3>1, <3>3, ReachedSame DEF RowsOK
    <3>4. ASSUME flush'[c] = "mark", NEW f \in Events, Reached(c, f)' PROVE f \in delivered'
      <4>1. PICK e \in Events : SendAlert(c, e)
        BY <2>2, <3>4
      <4>2. Reached(c, e) /\ Reached(c, f) /\ e \in delivered'
        BY <1>0, <2>0, <3>1, <3>4, <4>1, ReachedSame DEF SendAlert
      <4> QED BY <1>0, <2>0, <4>2, OneReached
    <3> QED BY <3>1, <3>2, <3>3, <3>4 DEF RowsOK
  <2>3. CASE FlusherReads(c)
    BY <1>0, <2>2, <2>3 DEF FlusherReads, FlushStep
  <2>4. ASSUME NEW e \in Events, \/ FlusherSkips(c, e) \/ FlusherSends(c, e)
                                 \/ FlusherFails(c, e) \/ FlusherMarks(c, e)
        PROVE  RowsOK'
    BY <1>0, <2>2, <2>4 DEF FlusherSkips, FlusherSends, FlusherFails, FlusherMarks, FlushStep
  <2> QED BY <1>9, <2>1, <2>3, <2>4 DEF Flushes
<1>10. CASE UNCHANGED vars
  BY <1>10, RowsQuiet DEF vars
<1> QED BY <1>1, <1>2, <1>3, <1>4, <1>5, <1>6, <1>7, <1>8, <1>9, <1>10 DEF Next, Step

-----------------------------------------------------------------------------
(* The ledger starts empty. *)
LEMMA LedgerInit == Init => Ledger!Init
BY DEF Init, OutboxInit, Ledger!Init, Recorded

(* A flush, of the observer or of a scanner, delivers a due row, marks a row *)
(* that was delivered, or changes nothing of the ledger.                     *)
LEMMA LedgerFlush ==
  ASSUME OutboxTypeOK, Numbered, NEW c \in Clients,
         \/ LoadOutbox(c)
         \/ \E e \in Events : \/ SkipAlert(c, e) \/ SendAlert(c, e) \/ SendFails(c, e)
                              \/ MarkAlerted(c, e) /\ e \in delivered
  PROVE  Ledger!Next \/ UNCHANGED Ledger!vars
<1> USE DEF Ledger!vars
<1>1. CASE LoadOutbox(c)
  BY <1>1 DEF LoadOutbox, Recorded
<1>2. ASSUME NEW e \in Events, SkipAlert(c, e) PROVE UNCHANGED Ledger!vars
  BY <1>2 DEF SkipAlert, Recorded
<1>3. ASSUME NEW e \in Events, SendAlert(c, e) \/ SendFails(c, e)
      PROVE  Ledger!Deliver(e) \/ UNCHANGED Ledger!vars
  <2>1. e \in Recorded /\ score[e] >= AlertMin
    BY <1>3 DEF SendAlert, SendFails, Reached, Numbered, Sendable
  <2> QED BY <1>3, <2>1 DEF SendAlert, SendFails, Recorded, Ledger!Deliver
<1>4. ASSUME NEW e \in Events, MarkAlerted(c, e), e \in delivered PROVE Ledger!Mark(e)
  BY <1>4 DEF MarkAlerted, Recorded, Ledger!Mark
<1> QED BY <1>1, <1>2, <1>3, <1>4 DEF Ledger!Next

(* Every step of the observer and of a flushing scanner is a step of the     *)
(* ledger, or changes nothing of it.                                         *)
LEMMA LedgerStep == Typed /\ RowsOK /\ [Next]_vars => [Ledger!Next]_(Ledger!vars)
<1> SUFFICES ASSUME Typed, RowsOK, [Next]_vars
             PROVE Ledger!Next \/ UNCHANGED Ledger!vars
  OBVIOUS
<1> DEFINE Goal == Ledger!Next \/ UNCHANGED Ledger!vars
<1>0. /\ OutboxTypeOK /\ Watcher \in Clients /\ Numbered /\ Flushers \subseteq Clients
      /\ phase \in {"event", "incident", "graph"} => tx \in Events
      /\ phase \in {"incident", "graph"} => tx \in Recorded
  BY ObserverAssumption DEF Typed, TypeOK, FrameOK, Casing, RowsOK, Flushers
<1> USE DEF Ledger!vars, outboxVars, connection, endpoints, case, rows, bounds
<1>1. CASE Connect \/ Refused \/ Greet \/ Wake \/ OpenStream
  BY <1>1 DEF Connect, Refused, Retry, Greet, Wake, OpenStream, Recorded
<1>2. CASE ReadOutbox
  BY <1>0, <1>2, LedgerFlush DEF ReadOutbox
<1>3. ASSUME NEW e \in Events, Skip(e) \/ Deliver(e) \/ DeliveryFails(e) PROVE Goal
  BY <1>0, <1>3, LedgerFlush DEF Skip, Deliver, DeliveryFails
<1>4. ASSUME NEW e \in Events, Mark(e) PROVE Goal
  <2>1. MarkAlerted(Watcher, e) /\ e \in delivered
    BY <1>4 DEF Mark, MarkAlerted, RowsOK
  <2> QED BY <1>0, <2>1, LedgerFlush
<1>5. CASE Lookup \/ LookupNothing \/ Ignore \/ Count \/ TakeUp \/ Analyse \/ KnownEvent
           \/ Return \/ Start \/ StartFails \/ Relate \/ Beat \/ BeatDies \/ Close \/ Notify
  BY <1>5 DEF Lookup, LookupNothing, Ignore, Count, TakeUp, Analyse, KnownEvent, Return,
              Start, StartFails, Done, Relate, Beat, BeatDies, Close, Notify, Recorded
<1>6. ASSUME NEW s \in Scores, RecordEvent(s) PROVE Goal
  <2>1. tx \in Events /\ AddEvent(tx, s)
    BY <1>0, <1>6 DEF RecordEvent
  <2>2. Recorded' = Recorded \cup {tx} /\ tx \notin Recorded
    BY <1>0, <2>1, NewRow
  <2>3. Ledger!Record(tx)
    BY <1>6, <2>2 DEF RecordEvent, AddEvent, Ledger!Record
  <2> QED BY <2>1, <2>3 DEF Ledger!Next
<1>7. CASE Promote
  <2>1. tx \in Events /\ tx \in Recorded
    BY <1>0, <1>7 DEF Promote
  <2>2. Ledger!Open(tx) \/ UNCHANGED Ledger!vars
    BY <1>7, <2>1 DEF Recorded, Promote, OpenIncident, Ledger!Open
  <2> QED BY <2>1, <2>2 DEF Ledger!Next
<1>8. CASE \/ \E t \in Events \cup Routine \cup Foreign : Receive(t)
           \/ \E i \in 0..(Sockets - 1) : Flip(i)
  BY <1>8 DEF Receive, Flip, Recorded
<1>9. CASE Break \/ Stop \/ Crash
  <2>1. Forget
    BY <1>9 DEF Break, Stop, Crash
  <2>2. CASE UNCHANGED delivered
    BY <2>1, <2>2 DEF Forget, Recorded
  <2>3. ASSUME NEW e \in Events, Reached(Watcher, e), Sendable(e),
               delivered' = delivered \cup {e}
        PROVE  Goal
    <3>1. e \in Recorded /\ score[e] >= AlertMin
      BY <1>0, <2>3 DEF Reached, Numbered, Sendable
    <3>2. Ledger!Deliver(e)
      BY <2>1, <2>3, <3>1 DEF Forget, Recorded, Ledger!Deliver
    <3> QED BY <3>2 DEF Ledger!Next
  <2> QED BY <2>1, <2>2, <2>3 DEF Forget
<1>10. ASSUME NEW c \in Flushers, Flushes(c) PROVE Goal
  <2>1. CASE FlusherReads(c)
    BY <1>0, <2>1, LedgerFlush DEF FlusherReads
  <2>2. ASSUME NEW e \in Events, FlusherSkips(c, e) \/ FlusherSends(c, e) \/ FlusherFails(c, e)
        PROVE  Goal
    BY <1>0, <2>2, LedgerFlush DEF FlusherSkips, FlusherSends, FlusherFails
  <2>3. ASSUME NEW e \in Events, FlusherMarks(c, e) PROVE Goal
    <3>1. MarkAlerted(c, e) /\ e \in delivered
      BY <2>3 DEF FlusherMarks, MarkAlerted, RowsOK
    <3> QED BY <1>0, <3>1, LedgerFlush
  <2>4. CASE FlusherEnds(c)
    BY <2>4 DEF FlusherEnds, Recorded
  <2> QED BY <1>10, <2>1, <2>2, <2>3, <2>4 DEF Flushes
<1>11. CASE UNCHANGED vars
  BY <1>11 DEF vars, Recorded
<1> QED BY <1>1, <1>2, <1>3, <1>4, <1>5, <1>6, <1>7, <1>8, <1>9, <1>10, <1>11
        DEF Next, Step

-----------------------------------------------------------------------------
IndInv == Typed /\ OutageVisible /\ CasesInv /\ RowsOK

(* The inductive invariant holds in every reachable state. *)
LEMMA Invariance == Spec => []IndInv
<1>1. Init => IndInv
  <2>1. ASSUME Init PROVE OutageVisible /\ CasesInv
    BY <2>1 DEF Init, OutboxInit, OutageVisible, CasesInv, Recorded
  <2>2. ASSUME Init PROVE RowsOK
    BY <2>2, NumberedInit DEF Init, RowsOK
  <2> QED BY <2>1, <2>2, TypedInit DEF IndInv
<1>2. IndInv /\ [Next]_vars => IndInv'
  BY TypedStep, OutageStep, CasesStep, RowsStep DEF IndInv
<1> QED BY <1>1, <1>2, PTL DEF Spec

(* The observer's rows and counters keep their types: the endpoint index     *)
(* stays below the number of endpoints, the backoff within its bounds and    *)
(* the telemetry at one count per message (watch_pending_transactions).      *)
THEOREM ObserverTypeCorrect == Spec => []TypeOK
<1>1. IndInv => TypeOK
  BY DEF IndInv, Typed
<1> QED BY <1>1, Invariance, PTL

(* While the observer waits to reconnect its heartbeat row says degraded,    *)
(* whatever broke the connection (watch_pending_transactions,                *)
(* _heartbeat_loop).                                                         *)
THEOREM OutageIsVisible == Spec => []OutageVisible
<1>1. IndInv => OutageVisible
  BY DEF IndInv
<1> QED BY <1>1, Invariance, PTL

(* Until something is cut short, a recorded case that is not in process has  *)
(* its relations and its incident, for any messages in any order             *)
(* (_handle_message).                                                        *)
THEOREM CasesAreComplete == Spec => []CasesCompleteUnlessCut
<1>1. IndInv => CasesCompleteUnlessCut
  BY DEF IndInv, CasesInv, CasesCompleteUnlessCut, Complete
<1> QED BY <1>1, Invariance, PTL

(* The observer and any number of flushing scanners implement the case       *)
(* ledger (add_event, open_incident, mark_alerted).                          *)
THEOREM ObserverImplementsLedger == Spec => LedgerSpec
<1>1. Init => Ledger!Init
  BY LedgerInit
<1>2. IndInv /\ [Next]_vars => [Ledger!Next]_(Ledger!vars)
  BY LedgerStep DEF IndInv
<1> QED BY <1>1, <1>2, Invariance, PTL DEF Spec, LedgerSpec, Ledger!Spec
=============================================================================
