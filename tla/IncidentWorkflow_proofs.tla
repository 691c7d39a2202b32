----------------------- MODULE IncidentWorkflow_proofs -----------------------
(* Theorems about IncidentWorkflow and their proofs. *)
EXTENDS IncidentWorkflow, TLAPS

(* INCIDENT_TRANSITIONS maps statuses to statuses, and only to statuses      *)
(* other than new; resolved is reached from active states only.              *)
LEMMA TransitionFacts ==
  ASSUME NEW s \in Statuses
  PROVE /\ Transitions(s) \subseteq Statuses \ {"new"}
        /\ s \in Terminal => Transitions(s) = {}
        /\ "resolved" \in Transitions(s) => s \in Active
BY DEF Statuses, Active, Terminal, Transitions

(* The moves that are under way have been validated against the row read. *)
MovesOK ==
  \A o \in Operators : move[o] # Null =>
    /\ row[move[o].incident] # Null
    /\ move[o].to \in Transitions(move[o].row.status)
    /\ move[o].row.status \in Active \cup {"resolved"} => move[o].row.acknowledged

(* A row and the first history entry appear together. *)
OpeningOK == \A i \in Incidents : row[i] = Null => history[i] = <<>>

RaceInv == /\ TypeOK
           /\ MovesOK
           /\ OpeningOK
           /\ HistoryMatchesStatus
           /\ HistoryLegal
           /\ ResolvedWasAcknowledged
           /\ HistoryChains

(* Before the first incident there is nothing to get wrong. *)
LEMMA RaceInit == Init => RaceInv
BY DEF Init, RaceInv, TypeOK, MovesOK, OpeningOK, HistoryMatchesStatus, HistoryLegal,
       ResolvedWasAcknowledged, HistoryChains, Opened

(* open_incident writes a row. *)
LEMMA NewRowType == NewRow \in Row
BY DEF NewRow, Row, Statuses

(* transition_incident writes a row. *)
LEMMA MovedRowType ==
  ASSUME NEW o \in Operators, NEW m \in Move
  PROVE MovedRow(o, m) \in Row
<1>1. /\ m.row.owner \in Operators \cup {Null}
      /\ m.row.acknowledged \in BOOLEAN
      /\ m.row.disposition \in Notes \cup {Null}
      /\ m.to \in Statuses
      /\ m.note \in Notes \cup {Null}
  BY DEF Move, Row
<1>2. QED
  BY <1>1 DEF MovedRow, Row

(* Every step keeps the invariant, however stale the row a move has read. *)
LEMMA RaceStep == RaceInv /\ [Next]_vars => RaceInv'
<1> SUFFICES ASSUME RaceInv, [Next]_vars PROVE RaceInv'
  OBVIOUS
<1>0. Null \notin Row /\ Null \notin Move /\ Null \notin Statuses
  BY NullAssumption
<1>1. ASSUME NEW i \in Incidents, OpenIncident(i) PROVE RaceInv'
  <2>1. TypeOK'
    <3>1. [from |-> Null, to |-> "new", actor |-> Null] \in Entry
      BY DEF Entry, Statuses
    <3>2. QED
      BY <1>1, <3>1, NewRowType DEF RaceInv, TypeOK, OpenIncident
  <2>2. history[i] = <<>>
    BY <1>1 DEF RaceInv, OpeningOK, OpenIncident
  <2>3. history'[i] = <<[from |-> Null, to |-> "new", actor |-> Null]>>
    BY <1>1, <2>2 DEF RaceInv, TypeOK, OpenIncident
  <2>4. row'[i] = NewRow /\ NewRow # Null
    BY <1>0, <1>1, NewRowType DEF RaceInv, TypeOK, OpenIncident
  <2>5. \A j \in Incidents \ {i} : row'[j] = row[j] /\ history'[j] = history[j]
    BY <1>1 DEF RaceInv, TypeOK, OpenIncident
  <2>6. MovesOK'
    BY <1>1, <2>4, <2>5 DEF RaceInv, TypeOK, MovesOK, OpenIncident, Move
  <2>7. OpeningOK' /\ HistoryMatchesStatus'
    BY <2>3, <2>4, <2>5 DEF RaceInv, OpeningOK, HistoryMatchesStatus, Opened, NewRow
  <2>8. HistoryLegal'
    BY <2>3, <2>5 DEF RaceInv, HistoryLegal
  <2>9. ResolvedWasAcknowledged'
    BY <2>4, <2>5 DEF RaceInv, ResolvedWasAcknowledged, Opened, NewRow, Active
  <2>10. HistoryChains'
    BY <1>1, <2>3, <2>5 DEF RaceInv, HistoryChains, OpenIncident
  <2>11. QED
    BY <2>1, <2>6, <2>7, <2>8, <2>9, <2>10 DEF RaceInv
<1>2. ASSUME NEW o \in Operators, NEW i \in Incidents, NEW to \in Statuses,
             NEW note \in Notes \cup {Null}, ReadRow(o, i, to, note)
      PROVE RaceInv'
  <2>1. row[i] \in Row
    BY <1>2 DEF RaceInv, TypeOK, ReadRow
  <2>2. [incident |-> i, row |-> row[i], to |-> to, note |-> note] \in Move
    BY <2>1 DEF Move
  <2>3. TypeOK'
    BY <1>2, <2>2 DEF RaceInv, TypeOK, ReadRow
  <2>4. row[i].status \in Active \cup {"resolved"} => row[i].acknowledged
    BY <1>2 DEF RaceInv, ResolvedWasAcknowledged, Opened, ReadRow
  <2>5. MovesOK'
    BY <1>2, <2>4 DEF RaceInv, TypeOK, MovesOK, ReadRow
  <2>6. QED
    BY <1>2, <2>3, <2>5 DEF RaceInv, OpeningOK, HistoryMatchesStatus, HistoryLegal,
       ResolvedWasAcknowledged, HistoryChains, Opened, ReadRow
<1>3. ASSUME NEW o \in Operators, WriteRow(o) PROVE RaceInv'
  <2> DEFINE m == move[o]
             i == m.incident
             new == [from |-> m.row.status, to |-> m.to, actor |-> o]
  <2>1. /\ m \in Move
        /\ i \in Incidents
        /\ m.row \in Row
        /\ m.row.status \in Statuses
        /\ m.to \in Statuses
        /\ row[i] # Null
        /\ m.to \in Transitions(m.row.status)
        /\ m.row.status \in Active \cup {"resolved"} => m.row.acknowledged
    BY <1>3 DEF RaceInv, TypeOK, MovesOK, WriteRow, Move, Row
  <2>2. new \in Entry
    BY <2>1 DEF Entry
  <2>3. MovedRow(o, m) \in Row /\ MovedRow(o, m) # Null
    BY <1>0, <2>1, MovedRowType
  <2>4. /\ row' = [row EXCEPT ![i] = MovedRow(o, m)]
        /\ history' = [history EXCEPT ![i] = Append(@, new)]
        /\ move' = [move EXCEPT ![o] = Null]
        /\ overwritten' = IF row[i] # m.row THEN overwritten \cup {i} ELSE overwritten
    BY <1>3 DEF WriteRow, Overwrite, Stale
  <2>5. TypeOK'
    BY <2>1, <2>2, <2>3, <2>4 DEF RaceInv, TypeOK
  <2>6. /\ row'[i] = MovedRow(o, m)
        /\ history'[i] = Append(history[i], new)
        /\ \A j \in Incidents \ {i} : row'[j] = row[j] /\ history'[j] = history[j]
    BY <2>1, <2>4 DEF RaceInv, TypeOK
  <2>7. MovesOK'
    BY <2>1, <2>3, <2>4, <2>6 DEF RaceInv, TypeOK, MovesOK, Move
  <2>8. history[i] \in Seq(Entry) /\ Len(history[i]) > 0
    BY <2>1 DEF RaceInv, TypeOK, HistoryMatchesStatus, Opened
  <2>9. OpeningOK'
    BY <2>3, <2>6 DEF RaceInv, OpeningOK
  <2>10. HistoryMatchesStatus'
    <3>1. /\ Len(history'[i]) = Len(history[i]) + 1
          /\ history'[i][Len(history[i]) + 1] = new
      BY <2>2, <2>6, <2>8
    <3>2. row'[i].status = m.to
      BY <2>6 DEF MovedRow
    <3>3. QED
      BY <2>6, <2>8, <3>1, <3>2 DEF RaceInv, HistoryMatchesStatus, Opened
  <2>11. HistoryLegal'
    <3>1. /\ Len(history'[i]) = Len(history[i]) + 1
          /\ history'[i][Len(history[i]) + 1] = new
          /\ \A k \in 1..Len(history[i]) : history'[i][k] = history[i][k]
      BY <2>2, <2>6, <2>8
    <3>2. \A k \in 1..Len(history'[i]) :
            IF k = 1 THEN history'[i][k].from = Null /\ history'[i][k].to = "new"
            ELSE /\ history'[i][k].from \in Statuses
                 /\ history'[i][k].to \in Transitions(history'[i][k].from)
      <4>1. SUFFICES ASSUME NEW k \in 1..Len(history'[i])
                     PROVE IF k = 1 THEN history'[i][k].from = Null /\ history'[i][k].to = "new"
                           ELSE /\ history'[i][k].from \in Statuses
                                /\ history'[i][k].to \in Transitions(history'[i][k].from)
        OBVIOUS
      <4>2. CASE k \in 1..Len(history[i])
        <5>1. IF k = 1 THEN history[i][k].from = Null /\ history[i][k].to = "new"
              ELSE /\ history[i][k].from \in Statuses
                   /\ history[i][k].to \in Transitions(history[i][k].from)
          BY <2>1, <4>2 DEF RaceInv, HistoryLegal
        <5>2. history'[i][k] = history[i][k]
          BY <3>1, <4>2
        <5>3. QED
          BY <5>1, <5>2
      <4>3. CASE k = Len(history[i]) + 1
        <5>1. k # 1 /\ history'[i][k] = new
          BY <2>8, <3>1, <4>3
        <5>2. new.from = m.row.status /\ new.to = m.to
          OBVIOUS
        <5>3. QED
          BY <2>1, <5>1, <5>2
      <4>4. QED
        BY <2>8, <3>1, <4>1, <4>2, <4>3
    <3>3. QED
      BY <2>6, <3>2 DEF RaceInv, HistoryLegal
  <2>12. HistoryChains'
    <3> SUFFICES ASSUME NEW j \in Incidents, j \notin overwritten',
                        NEW k \in 1..(Len(history'[j]) - 1)
                 PROVE history'[j][k + 1].from = history'[j][k].to
      BY DEF HistoryChains
    <3>1. j \notin overwritten /\ (j = i => row[i] = m.row)
      BY <2>4
    <3>2. CASE j # i
      BY <2>6, <3>1, <3>2 DEF RaceInv, HistoryChains
    <3>3. CASE j = i
      <4>1. /\ Len(history'[i]) = Len(history[i]) + 1
            /\ history'[i][Len(history[i]) + 1] = new
            /\ \A n \in 1..Len(history[i]) : history'[i][n] = history[i][n]
        BY <2>2, <2>6, <2>8
      <4>2. CASE k = Len(history[i])
        <5>1. history'[i][k + 1] = new /\ history'[i][k] = history[i][k]
          BY <2>8, <4>1, <4>2
        <5>2. history[i][k].to = row[i].status
          BY <2>1, <4>2 DEF RaceInv, HistoryMatchesStatus, Opened
        <5>3. QED
          BY <3>1, <3>3, <5>1, <5>2
      <4>3. CASE k \in 1..(Len(history[i]) - 1)
        <5>1. history'[i][k + 1] = history[i][k + 1] /\ history'[i][k] = history[i][k]
          BY <2>8, <4>1, <4>3
        <5>2. history[i][k + 1].from = history[i][k].to
          BY <2>1, <3>1, <3>3, <4>3 DEF RaceInv, HistoryChains
        <5>3. QED
          BY <3>3, <5>1, <5>2
      <4>4. QED
        BY <2>8, <3>3, <4>1, <4>2, <4>3
    <3>4. QED
      BY <3>2, <3>3
  <2>13. ResolvedWasAcknowledged'
    <3>1. m.to \in Active \cup {"resolved"} => m.row.acknowledged \/ m.to \in Active
      BY <2>1, TransitionFacts
    <3>2. row'[i].status = m.to
      BY <2>6 DEF MovedRow
    <3>3. row'[i].acknowledged = (m.row.acknowledged \/ m.to \in Active)
      BY <2>6 DEF MovedRow
    <3>4. QED
      BY <2>6, <3>1, <3>2, <3>3 DEF RaceInv, ResolvedWasAcknowledged, Opened
  <2>14. QED
    BY <2>5, <2>7, <2>9, <2>10, <2>11, <2>12, <2>13 DEF RaceInv
<1>4. ASSUME NEW o \in Operators, Abandon(o) PROVE RaceInv'
  BY <1>4 DEF RaceInv, TypeOK, MovesOK, OpeningOK, HistoryMatchesStatus, HistoryLegal,
     ResolvedWasAcknowledged, HistoryChains, Opened, Abandon
<1>5. CASE UNCHANGED vars
  BY <1>5 DEF vars, RaceInv, TypeOK, MovesOK, OpeningOK, HistoryMatchesStatus, HistoryLegal,
     ResolvedWasAcknowledged, HistoryChains, Opened
<1>6. QED
  BY <1>1, <1>2, <1>3, <1>4, <1>5 DEF Next

(* The invariant holds in every reachable state. *)
LEMMA RaceInvariance == Spec => []RaceInv
BY RaceInit, RaceStep, PTL DEF Spec

(* Whatever the operators race on, the rows, the history and the moves under *)
(* way keep their types.                                                     *)
THEOREM WorkflowTypeCorrect == Spec => []TypeOK
<1>1. RaceInv => TypeOK
  BY DEF RaceInv
<1>2. QED
  BY <1>1, RaceInvariance, PTL

(* The history ends in the status of the row for any number of racing        *)
(* operators, because transition_incident writes both in one transaction.    *)
THEOREM HistoryEndsInStatus == Spec => []HistoryMatchesStatus
<1>1. RaceInv => HistoryMatchesStatus
  BY DEF RaceInv
<1>2. QED
  BY <1>1, RaceInvariance, PTL

(* Every history entry is a move of INCIDENT_TRANSITIONS, races or not. *)
THEOREM HistoryIsLegal == Spec => []HistoryLegal
<1>1. RaceInv => HistoryLegal
  BY DEF RaceInv
<1>2. QED
  BY <1>1, RaceInvariance, PTL

(* No race makes an incident resolved that nobody acknowledged. *)
THEOREM ResolvedIsAcknowledged == Spec => []ResolvedWasAcknowledged
<1>1. RaceInv => ResolvedWasAcknowledged
  BY DEF RaceInv
<1>2. QED
  BY <1>1, RaceInvariance, PTL

(* As long as no stale move was written to an incident, its history replays  *)
(* to its row, whatever else the operators race on.                          *)
THEOREM HistoryReplays == Spec => []HistoryChains
<1>1. RaceInv => HistoryChains
  BY DEF RaceInv
<1>2. QED
  BY <1>1, RaceInvariance, PTL

(* A resolved or false_positive incident is changed by a stale move only: a  *)
(* move that transition_incident validated against the row it overwrites     *)
(* does not start from a terminal status.                                    *)
THEOREM TerminalIsFinal == Spec => TerminalFinal
<1>1. RaceInv /\ [Next]_vars =>
        [\A i \in Opened :
           row[i].status \in Terminal /\ row'[i] # row[i] =>
             \E o \in Operators : Stale(o) /\ move[o].incident = i /\ move'[o] = Null]_vars
  <2> SUFFICES ASSUME RaceInv, Next, NEW i \in Opened, row[i].status \in Terminal,
                      row'[i] # row[i]
               PROVE \E o \in Operators : Stale(o) /\ move[o].incident = i /\ move'[o] = Null
    BY DEF vars
  <2>1. i \in Incidents /\ row[i] # Null /\ row[i] \in Row /\ row[i].status \in Statuses
    BY DEF RaceInv, TypeOK, Opened, Row
  <2>2. PICK o \in Operators : WriteRow(o)
    BY <2>1 DEF RaceInv, TypeOK, Next, OpenIncident, ReadRow, Abandon
  <2>3. move[o] # Null /\ move[o].incident = i /\ move'[o] = Null
    BY <2>1, <2>2 DEF RaceInv, TypeOK, WriteRow
  <2>4. Transitions(row[i].status) = {} /\ move[o].to \in Transitions(move[o].row.status)
    BY <2>1, <2>3, TransitionFacts DEF RaceInv, MovesOK
  <2>5. row[i] # move[o].row
    BY <2>4
  <2>6. QED
    BY <2>3, <2>5 DEF Stale
<1>2. QED
  BY <1>1, RaceInvariance, PTL DEF Spec, TerminalFinal
-----------------------------------------------------------------------------
(* Every entry after the first names the operator who moved. *)
ActorsNamed == \A i \in Incidents : \A k \in 2..Len(history[i]) :
                 history[i][k].actor \in Operators

OwnerInv == ActorsNamed /\ OwnerIsFirstMover

(* A move keeps the owner it has read, or takes an incident nobody owns. *)
LEMMA OwnerStep == RaceInv /\ OwnerInv /\ [Next]_vars => OwnerInv'
<1> SUFFICES ASSUME RaceInv, OwnerInv, [Next]_vars PROVE OwnerInv'
  OBVIOUS
<1>0. /\ history \in [Incidents -> Seq(Entry)] /\ row \in [Incidents -> Row \cup {Null}]
      /\ Null \notin Row /\ Null \notin Operators
  BY NullAssumption, WorkflowAssumption DEF RaceInv, TypeOK
<1>1. ASSUME NEW i \in Incidents, OpenIncident(i) PROVE OwnerInv'
  <2>1. /\ history'[i] = <<[from |-> Null, to |-> "new", actor |-> Null]>>
        /\ row'[i] = NewRow
        /\ \A j \in Incidents \ {i} : row'[j] = row[j] /\ history'[j] = history[j]
        /\ overwritten' = overwritten
    <3>1. history[i] = <<>>
      BY <1>1 DEF RaceInv, OpeningOK, OpenIncident
    <3> QED BY <1>0, <1>1, <3>1 DEF OpenIncident
  <2>2. Len(history'[i]) = 1 /\ row'[i].owner = Null
    BY <2>1 DEF NewRow
  <2>3. ActorsNamed'
    BY <2>1, <2>2 DEF OwnerInv, ActorsNamed
  <2>4. OwnerIsFirstMover'
    BY <2>1, <2>2 DEF OwnerInv, OwnerIsFirstMover, Opened
  <2> QED BY <2>3, <2>4 DEF OwnerInv
<1>2. ASSUME NEW o \in Operators, WriteRow(o) PROVE OwnerInv'
  <2> DEFINE m == move[o]
             i == m.incident
             new == [from |-> m.row.status, to |-> m.to, actor |-> o]
  <2>1. i \in Incidents /\ m.row \in Row /\ m.row.status \in Statuses /\ m.to \in Statuses
        /\ row[i] # Null
    BY <1>2 DEF RaceInv, TypeOK, MovesOK, WriteRow, Move, Row
  <2>2. history[i] \in Seq(Entry) /\ Len(history[i]) > 0 /\ new \in Entry
    BY <2>1 DEF RaceInv, TypeOK, HistoryMatchesStatus, Opened, Entry
  <2>3. /\ row'[i] = MovedRow(o, m) /\ history'[i] = Append(history[i], new)
        /\ \A j \in Incidents \ {i} : row'[j] = row[j] /\ history'[j] = history[j]
        /\ overwritten' = IF row[i] # m.row THEN overwritten \cup {i} ELSE overwritten
    BY <1>0, <1>2, <2>1 DEF WriteRow, Overwrite, Stale
  <2>4. /\ Len(history'[i]) = Len(history[i]) + 1
        /\ history'[i][Len(history[i]) + 1] = new
        /\ \A k \in 1..Len(history[i]) : history'[i][k] = history[i][k]
    BY <2>2, <2>3
  <2>5. new.actor = o
    OBVIOUS
  <2> HIDE DEF new
  <2>6. ASSUME NEW k \in 2..Len(history'[i]) PROVE history'[i][k].actor \in Operators
    <3>1. Len(history[i]) \in Nat /\ k \in 2..(Len(history[i]) + 1) BY <2>2, <2>4
    <3>2. CASE k = Len(history[i]) + 1 BY <2>4, <2>5, <3>2
    <3>3. CASE k # Len(history[i]) + 1
      <4>1. k \in 2..Len(history[i]) /\ k \in 1..Len(history[i]) BY <3>1, <3>3
      <4>2. history'[i][k] = history[i][k] BY <2>4, <4>1
      <4>3. history[i][k].actor \in Operators BY <2>1, <4>1 DEF OwnerInv, ActorsNamed
      <4>4. QED BY <4>2, <4>3
    <3>4. QED BY <3>2, <3>3
  <2>7. ActorsNamed'
    BY <2>3, <2>6 DEF OwnerInv, ActorsNamed
  <2>8. ASSUME i \notin overwritten'
        PROVE  row'[i].owner = history'[i][2].actor
    <3>1. i \notin overwritten /\ row[i] = m.row
      BY <2>3, <2>8
    <3>2. row'[i].owner = IF row[i].owner = Null THEN o ELSE row[i].owner
      BY <2>3, <3>1 DEF MovedRow
    <3>3. row[i].owner = IF Len(history[i]) > 1 THEN history[i][2].actor ELSE Null
      BY <2>1, <3>1 DEF OwnerInv, OwnerIsFirstMover, Opened
    <3>4. CASE Len(history[i]) = 1
      BY <2>4, <2>5, <3>2, <3>3, <3>4
    <3>5. CASE Len(history[i]) > 1
      <4>1. history[i][2].actor \in Operators /\ history'[i][2] = history[i][2]
        BY <2>1, <2>2, <2>4, <3>5 DEF OwnerInv, ActorsNamed
      <4> QED BY <1>0, <3>2, <3>3, <3>5, <4>1
    <3>6. Len(history[i]) = 1 \/ Len(history[i]) > 1
      <4>1. Len(history[i]) \in Nat /\ Len(history[i]) > 0
        BY <2>2
      <4>2. \A n \in Nat : n > 0 => n = 1 \/ n > 1
        OBVIOUS
      <4> QED BY <4>1, <4>2, Zenon
    <3> QED BY <3>4, <3>5, <3>6, Zenon
  <2>9. OwnerIsFirstMover'
    <3> SUFFICES ASSUME NEW j \in Opened', j \notin overwritten'
                 PROVE row'[j].owner = IF Len(history'[j]) > 1 THEN history'[j][2].actor ELSE Null
      BY DEF OwnerIsFirstMover
    <3>1. CASE j = i
      BY <2>2, <2>4, <2>8, <3>1
    <3>2. CASE j # i
      <4>1. j \in Opened /\ j \notin overwritten /\ j \in Incidents
        BY <2>3, <3>2 DEF Opened
      <4> QED BY <2>3, <3>2, <4>1 DEF OwnerInv, OwnerIsFirstMover
    <3> QED BY <3>1, <3>2
  <2> QED BY <2>7, <2>9 DEF OwnerInv
<1>3. CASE UNCHANGED <<row, history, overwritten>>
  BY <1>3 DEF OwnerInv, ActorsNamed, OwnerIsFirstMover, Opened
<1> QED BY <1>1, <1>2, <1>3 DEF Next, ReadRow, Abandon, vars

(* The first operator to move an incident owns it, however many race for it, *)
(* until a stale move is written over another.                               *)
THEOREM FirstMoverOwns == Spec => []OwnerIsFirstMover
<1>1. Init => OwnerInv
  BY DEF Init, OwnerInv, ActorsNamed, OwnerIsFirstMover, Opened
<1>2. RaceInv /\ OwnerInv /\ [Next]_vars => OwnerInv'
  BY OwnerStep
<1>3. OwnerInv => OwnerIsFirstMover
  BY DEF OwnerInv
<1> QED BY <1>1, <1>2, <1>3, RaceInvariance, PTL DEF Spec
=============================================================================
