-------------------------- MODULE InvariantMonitor --------------------------
(***************************************************************************)
(* Protocol invariants (monitor.py, _scan_invariants): every checker, the   *)
(* daemon's cycle and the check-invariants command alike, evaluates the     *)
(* invariants of the chain at its safe head, replaces the row of            *)
(* invariant_states and records an event when the row that was there        *)
(* differs.  The read and the write of the row, the event and the incident  *)
(* are four steps.  What a contract returns at a block is fixed; the call   *)
(* itself may fail.                                                         *)
(***************************************************************************)
EXTENDS Integers

CONSTANTS Checkers,      \* processes that check the invariants of the chain
          Invariants,    \* the policies' invariants
          Values,        \* texts of the values a call can return
          Good,          \* the values for which compare_values holds
          Null,          \* SQL NULL and Python None
          Score,         \* invariant -> its configured score
          Flaky,         \* whether a call or its decoding can fail
          IncidentMin,   \* app.incident_minimum_score
          MaxBlock,      \* bound: the last safe head
          MaxLag,        \* bound: how far an endpoint trails the safe head
          MaxCrashes     \* bound: checks that end between two steps

ASSUME MonitorAssumption == /\ Good \subseteq Values
                            /\ Null \notin Values \cup Invariants
                            /\ "None" \notin Values
                            /\ Score \in [Invariants -> 0..100]
                            /\ Flaky \in BOOLEAN
                            /\ MaxBlock \in Nat /\ MaxLag \in Nat /\ MaxCrashes \in Nat

VARIABLES alertOnError, \* invariants with alert_on_error
          truth,     \* invariant -> block -> the value the contract returns
          head,      \* the safe head
          state,     \* invariant -> its row of invariant_states
          events,    \* recorded events, each named by what its id is made of
          incidents, \* events with an incident
          pc,        \* checker -> what it does next
          block,     \* checker -> the block its calls are pinned to
          result,    \* checker -> invariant -> what it evaluated
          todo,      \* checker -> invariants not recorded yet
          current,   \* checker -> the invariant it is recording
          previous,  \* checker -> the row it read for it
          crashes    \* checks cut short so far

database == <<state, events, incidents>>
frame == <<block, result, todo, current, previous>>
world == <<alertOnError, truth>>
vars == <<world, head, database, pc, frame, crashes>>

Nothing == [status |-> "none", value |-> Null, block |-> 0]

Init == /\ alertOnError \in SUBSET Invariants
        /\ truth \in [Invariants -> [0..MaxBlock -> Values]]
        /\ head = 0
        /\ state = [i \in Invariants |-> Nothing]
        /\ events = {}
        /\ incidents = {}
        /\ pc = [c \in Checkers |-> "idle"]
        /\ block = [c \in Checkers |-> 0]
        /\ result = [c \in Checkers |-> [i \in Invariants |-> Nothing]]
        /\ todo = [c \in Checkers |-> {}]
        /\ current = [c \in Checkers |-> Null]
        /\ previous = [c \in Checkers |-> Nothing]
        /\ crashes = 0

Goto(c, stage) == pc' = [pc EXCEPT ![c] = stage]

(* Mutant: the call made at the newest block and not at the pinned one. *)
EvaluatedAtHead(i, b) == [status |-> IF truth[i][head] \in Good THEN "ok" ELSE "violated",
                          value |-> truth[i][head],
                          block |-> b]

(* check_invariant: the value compared with the policy, or the failed call. *)
Evaluated(i, b) == [status |-> IF truth[i][b] \in Good THEN "ok" ELSE "violated",
                    value |-> truth[i][b],
                    block |-> b]
Failed(i, b) == [status |-> IF i \in alertOnError THEN "error" ELSE "unavailable",
                 value |-> Null,
                 block |-> b]
Outcomes(i, b) == {Evaluated(i, b)} \cup (IF Flaky THEN {Failed(i, b)} ELSE {})

(* str(previous.get("observed_value")): a NULL becomes the text "None". *)
Text(v) == IF v = Null THEN "None" ELSE v

(* previous_status and previous_value against the new check. *)
Changed(old, new) ==
  \/ old.status # new.status
  \/ (IF old = Nothing THEN Null ELSE Text(old.value)) # new.value

Recovery(old, new) == new.status = "ok" /\ old.status \in {"violated", "error"}

(* Mutant: the first observation of an invariant taken for its baseline. *)
MaterialAfterBaseline(old, new) ==
  /\ old # Nothing
  /\ Changed(old, new)
  /\ new.status \in {"violated", "error"} \/ Recovery(old, new)

(* Mutant: every change back to ok reported as a recovery. *)
MaterialAlways(old, new) == Changed(old, new) /\ new.status # "unavailable"

(* The early returns of _record_invariant_transition. *)
Material(old, new) ==
  /\ Changed(old, new)
  /\ new.status \in {"violated", "error"} \/ Recovery(old, new)

(* The parts of the event id and the score. *)
EventFor(i, old, new) ==
  [kind |-> IF new.status = "ok" THEN "recovered" ELSE "violation",
   invariant |-> i, block |-> new.block, status |-> new.status, value |-> new.value]

ErrorScore(i) == IF Score[i] - 15 > 50 THEN Score[i] - 15 ELSE 50
EventScore(e) == CASE e.kind = "recovered" -> 20
                   [] e.status = "error" -> ErrorScore(e.invariant)
                   [] OTHER -> Score[e.invariant]

-----------------------------------------------------------------------------
NewBlock == /\ head < MaxBlock
            /\ head' = head + 1
            /\ UNCHANGED <<world, database, pc, frame, crashes>>

(* The safe head, then every call of the policies at that block. *)
Begin(c) ==
  /\ pc[c] = "idle"
  /\ \E b \in 0..head :
       /\ head - b <= MaxLag
       /\ block' = [block EXCEPT ![c] = b]
       /\ \E r \in [Invariants -> UNION {Outcomes(i, b) : i \in Invariants}] :
            /\ \A i \in Invariants : r[i] \in Outcomes(i, b)
            /\ result' = [result EXCEPT ![c] = r]
  /\ todo' = [todo EXCEPT ![c] = Invariants]
  /\ Goto(c, "read")
  /\ UNCHANGED <<world, head, database, current, previous, crashes>>

(* record_invariant_state: the SELECT ... *)
ReadState(c, i) ==
  /\ pc[c] = "read"
  /\ i \in todo[c]
  /\ current' = [current EXCEPT ![c] = i]
  /\ previous' = [previous EXCEPT ![c] = state[i]]
  /\ Goto(c, "upsert")
  /\ UNCHANGED <<world, head, database, block, result, todo, crashes>>

NextInvariant(c) == /\ todo' = [todo EXCEPT ![c] = @ \ {current[c]}]
                    /\ current' = [current EXCEPT ![c] = Null]
                    /\ previous' = [previous EXCEPT ![c] = Nothing]
                    /\ Goto(c, "read")

(* ... and the upsert, after which only a material change goes on. *)
UpsertState(c) ==
  /\ pc[c] = "upsert"
  /\ state' = [state EXCEPT ![current[c]] = result[c][current[c]]]
  /\ IF Material(previous[c], result[c][current[c]])
     THEN Goto(c, "event") /\ UNCHANGED <<todo, current, previous>>
     ELSE NextInvariant(c)
  /\ UNCHANGED <<world, head, events, incidents, block, result, crashes>>

EventOf(c) == EventFor(current[c], previous[c], result[c][current[c]])

(* Mutant: the event recorded and never promoted. *)
RecordOnly(c) ==
  /\ pc[c] = "event"
  /\ EventOf(c) \notin events
  /\ events' = events \cup {EventOf(c)}
  /\ NextInvariant(c)
  /\ UNCHANGED <<world, head, state, incidents, block, result, crashes>>

(* add_event: a known id ends the processing. *)
RecordEvent(c) ==
  /\ pc[c] = "event"
  /\ EventOf(c) \notin events
  /\ events' = events \cup {EventOf(c)}
  /\ Goto(c, "incident")
  /\ UNCHANGED <<world, head, state, incidents, frame, crashes>>

KnownEvent(c) ==
  /\ pc[c] = "event"
  /\ EventOf(c) \in events
  /\ NextInvariant(c)
  /\ UNCHANGED <<world, head, database, block, result, crashes>>

Promote(c) ==
  /\ pc[c] = "incident"
  /\ incidents' = IF EventScore(EventOf(c)) >= IncidentMin
                  THEN incidents \cup {EventOf(c)} ELSE incidents
  /\ NextInvariant(c)
  /\ UNCHANGED <<world, head, state, events, block, result, crashes>>

Return(c) == /\ block' = [block EXCEPT ![c] = 0]
             /\ result' = [result EXCEPT ![c] = [i \in Invariants |-> Nothing]]
             /\ todo' = [todo EXCEPT ![c] = {}]
             /\ current' = [current EXCEPT ![c] = Null]
             /\ previous' = [previous EXCEPT ![c] = Nothing]
             /\ Goto(c, "idle")

Finish(c) == /\ pc[c] = "read"
             /\ todo[c] = {}
             /\ Return(c)
             /\ UNCHANGED <<world, head, database, crashes>>

(* A call whose connection breaks off (check_invariant catches an RpcError    *)
(* or a ValueError only), a database error or the end of the process.         *)
Crash(c) == /\ pc[c] # "idle"
            /\ crashes < MaxCrashes
            /\ crashes' = crashes + 1
            /\ Return(c)
            /\ UNCHANGED <<world, head, database>>

Next == \/ NewBlock
        \/ \E c \in Checkers :
             \/ Begin(c)
             \/ \E i \in Invariants : ReadState(c, i)
             \/ UpsertState(c)
             \/ RecordEvent(c)
             \/ KnownEvent(c)
             \/ Promote(c)
             \/ Finish(c)
             \/ Crash(c)

Spec == Init /\ [][Next]_vars

-----------------------------------------------------------------------------
Check == [status : {"none", "ok", "violated", "error", "unavailable"},
          value : Values \cup {Null}, block : 0..MaxBlock]
Event == [kind : {"violation", "recovered"}, invariant : Invariants, block : 0..MaxBlock,
          status : {"ok", "violated", "error"}, value : Values \cup {Null}]

TypeOK == /\ alertOnError \subseteq Invariants
          /\ truth \in [Invariants -> [0..MaxBlock -> Values]]
          /\ head \in 0..MaxBlock
          /\ state \in [Invariants -> Check]
          /\ events \subseteq Event
          /\ incidents \subseteq events
          /\ pc \in [Checkers -> {"idle", "read", "upsert", "event", "incident"}]
          /\ block \in [Checkers -> 0..MaxBlock]
          /\ result \in [Checkers -> [Invariants -> Check]]
          /\ todo \in [Checkers -> SUBSET Invariants]
          /\ current \in [Checkers -> Invariants \cup {Null}]
          /\ previous \in [Checkers -> Check]
          /\ crashes \in 0..MaxCrashes

(* Until a check is cut short, a stored violation that no checker is working *)
(* on has an event with the stored value, also when two checkers replaced    *)
(* the row between each other's read and write                               *)
(* (_record_invariant_transition).                                           *)
ViolationReported ==
  \A i \in Invariants :
    state[i].status = "violated" /\ crashes = 0 =>
      \/ \E e \in events : /\ e.invariant = i
                           /\ e.status = "violated"
                           /\ e.value = state[i].value
      \/ \E c \in Checkers : current[c] = i

(* A violation event quotes the value the contract had at the block the      *)
(* event names, and the policy rejects that value (check_invariant pins its  *)
(* call to the block).                                                       *)
AlarmsAreTrue ==
  \A e \in events :
    e.status = "violated" => e.value = truth[e.invariant][e.block] /\ e.value \notin Good

(* Until a check is cut short, an alarm that reaches the incident threshold  *)
(* has its incident, unless the checker that recorded it is about to open    *)
(* it; a second checker that finds the event known does not open it          *)
(* (_record_and_alert).                                                      *)
AlarmsPromoted ==
  \A e \in events :
    EventScore(e) >= IncidentMin /\ crashes = 0 =>
      e \in incidents \/ \E c \in Checkers : pc[c] = "incident" /\ EventOf(c) = e

(* Until a check is cut short, a recovery is reported only for an invariant  *)
(* that was reported as violated or failing, or whose alarm another checker  *)
(* is about to record (_record_invariant_transition).                        *)
RecoveryAfterAlarm ==
  \A r \in events :
    r.kind = "recovered" /\ crashes = 0 =>
      \/ \E e \in events : e.invariant = r.invariant /\ e.kind = "violation"
      \/ \E c \in Checkers : /\ pc[c] = "event"
                              /\ EventOf(c).kind = "violation"
                              /\ EventOf(c).invariant = r.invariant

(* An unchanged condition does not generate another event: what is recorded  *)
(* differs from the row it replaced in status or value.                      *)
UnchangedIsSilent ==
  [][\A c \in Checkers :
       pc[c] = "event" /\ events' # events /\ pc'[c] = "incident" =>
         \/ previous[c].status # result[c][current[c]].status
         \/ previous[c].value # result[c][current[c]].value]_vars
=============================================================================
