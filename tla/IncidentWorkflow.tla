-------------------------- MODULE IncidentWorkflow --------------------------
(***************************************************************************)
(* The incident rows and their append-only history (storage.py).            *)
(* open_incident inserts a row and its first history entry in one           *)
(* transaction.  transition_incident reads the row outside a transaction    *)
(* (a SELECT does not open one), validates the move against what it read,   *)
(* and then updates the row and appends to the history in one transaction,  *)
(* so the read and the write are two steps here.  Operators are the         *)
(* processes that run incident-transition on the same file.                 *)
(***************************************************************************)
EXTENDS Integers, Sequences

CONSTANTS Incidents,   \* incident ids, derived from event ids
          Operators,   \* concurrent invocations, named by their actor
          Notes,       \* non-empty notes
          Null,        \* SQL NULL, and an empty note
          MaxMoves     \* bound: moves after the opening of an incident

ASSUME WorkflowAssumption == /\ Null \notin Operators
                             /\ Null \notin Notes
                             /\ MaxMoves \in Nat

Statuses == {"new", "acknowledged", "investigating", "monitoring",
             "resolved", "false_positive"}
Active == {"acknowledged", "investigating", "monitoring"}
Terminal == {"resolved", "false_positive"}

(* Mutant: a resolved incident can be taken up again. *)
ReopeningTransitions(s) ==
  CASE s = "new" -> {"acknowledged", "investigating", "false_positive"}
    [] s = "acknowledged" -> {"investigating", "monitoring"} \cup Terminal
    [] s = "investigating" -> {"monitoring"} \cup Terminal
    [] s = "monitoring" -> {"investigating"} \cup Terminal
    [] s = "resolved" -> {"investigating"}
    [] OTHER -> {}

(* Mutant: a new incident can be resolved at once. *)
DirectTransitions(s) ==
  CASE s = "new" -> {"acknowledged", "investigating"} \cup Terminal
    [] s = "acknowledged" -> {"investigating", "monitoring"} \cup Terminal
    [] s = "investigating" -> {"monitoring"} \cup Terminal
    [] s = "monitoring" -> {"investigating"} \cup Terminal
    [] OTHER -> {}

(* INCIDENT_TRANSITIONS *)
Transitions(s) ==
  CASE s = "new" -> {"acknowledged", "investigating", "false_positive"}
    [] s = "acknowledged" -> {"investigating", "monitoring"} \cup Terminal
    [] s = "investigating" -> {"monitoring"} \cup Terminal
    [] s = "monitoring" -> {"investigating"} \cup Terminal
    [] OTHER -> {}

Row == [status : Statuses, owner : Operators \cup {Null}, acknowledged : BOOLEAN,
        closed : BOOLEAN, disposition : Notes \cup {Null}]
Entry == [from : Statuses \cup {Null}, to : Statuses, actor : Operators \cup {Null}]
Move == [incident : Incidents, row : Row, to : Statuses, note : Notes \cup {Null}]

(* NULL is neither a status nor a row. *)
ASSUME NullAssumption == /\ Null \notin Statuses
                         /\ Null \notin Row
                         /\ Null \notin Move

VARIABLES row,         \* incident -> its row, Null before it is opened
          history,     \* incident -> its incident_history entries
          move,        \* operator -> the validated move it is about to write
          overwritten  \* history: incidents to which a stale move was written

vars == <<row, history, move, overwritten>>

Opened == {i \in Incidents : row[i] # Null}

Init == /\ row = [i \in Incidents |-> Null]
        /\ history = [i \in Incidents |-> <<>>]
        /\ move = [o \in Operators |-> Null]
        /\ overwritten = {}

NewRow == [status |-> "new", owner |-> Null, acknowledged |-> FALSE,
           closed |-> FALSE, disposition |-> Null]

(* Mutant: INSERT OR REPLACE, so that a repeated promotion starts afresh. *)
ReplaceIncident(i) ==
  /\ Len(history[i]) <= MaxMoves
  /\ row' = [row EXCEPT ![i] = NewRow]
  /\ history' = [history EXCEPT ![i] =
                   Append(@, [from |-> Null, to |-> "new", actor |-> Null])]
  /\ UNCHANGED <<move, overwritten>>

(* open_incident: INSERT OR IGNORE; for a row that exists nothing changes. *)
OpenIncident(i) ==
  /\ row[i] = Null
  /\ row' = [row EXCEPT ![i] = NewRow]
  /\ history' = [history EXCEPT ![i] =
                   Append(@, [from |-> Null, to |-> "new", actor |-> Null])]
  /\ UNCHANGED <<move, overwritten>>

(* transition_incident up to the validation: an unknown incident or a move  *)
(* that is not allowed raises and changes nothing.                          *)
ReadRow(o, i, to, note) ==
  /\ move[o] = Null
  /\ row[i] # Null
  /\ to \in Transitions(row[i].status)
  /\ Len(history[i]) <= MaxMoves
  /\ move' = [move EXCEPT ![o] = [incident |-> i, row |-> row[i], to |-> to, note |-> note]]
  /\ UNCHANGED <<row, history, overwritten>>

(* Mutants: the owner replaced by whoever moves; the status taken for a     *)
(* missing note.                                                            *)
TakeoverRow(o, m) ==
  [status |-> m.to,
   owner |-> o,
   acknowledged |-> m.row.acknowledged \/ m.to \in Active,
   closed |-> m.to \in Terminal,
   disposition |-> IF m.to \in Terminal /\ m.note # Null THEN m.note ELSE m.row.disposition]

(* The row transition_incident writes, computed from the row it read. *)
MovedRow(o, m) ==
  [status |-> m.to,
   owner |-> IF m.row.owner = Null THEN o ELSE m.row.owner,
   acknowledged |-> m.row.acknowledged \/ m.to \in Active,
   closed |-> m.to \in Terminal,
   disposition |-> IF m.to \in Terminal /\ m.note # Null THEN m.note ELSE m.row.disposition]

(* Another move has replaced the row since the operator read it. *)
Stale(o) == move[o] # Null /\ row[move[o].incident] # move[o].row

Overwrite(o) == overwritten' = IF Stale(o) THEN overwritten \cup {move[o].incident}
                               ELSE overwritten

(* The UPDATE and the INSERT into the history, in one transaction. *)
WriteRow(o) ==
  /\ move[o] # Null
  /\ row' = [row EXCEPT ![move[o].incident] = MovedRow(o, move[o])]
  /\ history' = [history EXCEPT ![move[o].incident] =
                   Append(@, [from |-> move[o].row.status, to |-> move[o].to, actor |-> o])]
  /\ move' = [move EXCEPT ![o] = Null]
  /\ Overwrite(o)

(* The process ends between the read and the write. *)
Abandon(o) == /\ move[o] # Null
              /\ move' = [move EXCEPT ![o] = Null]
              /\ UNCHANGED <<row, history, overwritten>>

Next == \/ \E i \in Incidents : OpenIncident(i)
        \/ \E o \in Operators :
             \/ \E i \in Incidents, to \in Statuses, note \in Notes \cup {Null} :
                  ReadRow(o, i, to, note)
             \/ WriteRow(o)
             \/ Abandon(o)

Spec == Init /\ [][Next]_vars

-----------------------------------------------------------------------------
TypeOK == /\ row \in [Incidents -> Row \cup {Null}]
          /\ history \in [Incidents -> Seq(Entry)]
          /\ move \in [Operators -> Move \cup {Null}]
          /\ overwritten \subseteq Incidents

(* What holds however many operators race. *)

(* The newest history entry is the status of the row: the two tables are     *)
(* written together (open_incident, transition_incident).                    *)
HistoryMatchesStatus ==
  \A i \in Opened : /\ Len(history[i]) > 0
                    /\ history[i][Len(history[i])].to = row[i].status

(* An incident is opened once, by its first entry, and every other entry is  *)
(* a move of INCIDENT_TRANSITIONS.                                           *)
HistoryLegal ==
  \A i \in Incidents : \A k \in 1..Len(history[i]) :
    IF k = 1 THEN history[i][k].from = Null /\ history[i][k].to = "new"
    ELSE /\ history[i][k].from \in Statuses
         /\ history[i][k].to \in Transitions(history[i][k].from)

(* An incident can be resolved only after somebody took it up, so that the   *)
(* time to acknowledge is known for every resolved incident.                 *)
ResolvedWasAcknowledged ==
  \A i \in Opened : row[i].status \in Active \cup {"resolved"} => row[i].acknowledged

(* A terminal incident is never changed by a move that was validated against *)
(* the row it overwrites (INCIDENT_TRANSITIONS): only a stale one gets       *)
(* through.                                                                  *)
TerminalFinal ==
  [][\A i \in Opened :
       row[i].status \in Terminal /\ row'[i] # row[i] =>
         \E o \in Operators : Stale(o) /\ move[o].incident = i /\ move'[o] = Null]_vars

(* Until a stale move is written each entry starts from the status the entry *)
(* before it left, so that the history replays to the row                    *)
(* (transition_incident).                                                    *)
HistoryChains ==
  \A i \in Incidents \ overwritten : \A k \in 1..(Len(history[i]) - 1) :
    history[i][k + 1].from = history[i][k].to

(* Until a stale move is written the first operator to move an incident owns *)
(* it (transition_incident).                                                 *)
OwnerIsFirstMover ==
  \A i \in Opened \ overwritten :
    row[i].owner = IF Len(history[i]) > 1 THEN history[i][2].actor ELSE Null

=============================================================================
