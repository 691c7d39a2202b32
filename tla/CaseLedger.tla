----------------------------- MODULE CaseLedger -----------------------------
(***************************************************************************)
(* What the radar promises about one chain's cases, whichever process      *)
(* finds them and however often the work is repeated: an event is recorded *)
(* once and keeps its score, an incident is opened only for a recorded     *)
(* event that reaches the incident threshold, an alert goes out only for a *)
(* recorded event that reaches the alert threshold, an event is marked as  *)
(* alerted only after the delivery, and nothing is ever taken back.        *)
(***************************************************************************)
EXTENDS Integers

CONSTANTS Events,       \* event ids
          Scores,       \* priority scores an event can get
          IncidentMin,  \* app.incident_minimum_score
          AlertMin      \* telegram.minimum_score

VARIABLES recorded,     \* the events of the ledger
          score,        \* the score each was recorded with
          incidents,    \* events promoted to an incident
          delivered,    \* events whose alert reached the chat
          alerted       \* events marked as alerted

vars == <<recorded, score, incidents, delivered, alerted>>

Init == /\ recorded = {}
        /\ score \in [Events -> {0}]
        /\ incidents = {}
        /\ delivered = {}
        /\ alerted = {}

Record(e) == /\ e \notin recorded
             /\ recorded' = recorded \cup {e}
             /\ \E s \in Scores : score' = [score EXCEPT ![e] = s]
             /\ UNCHANGED <<incidents, delivered, alerted>>

Open(e) == /\ e \in recorded \ incidents
           /\ score[e] >= IncidentMin
           /\ incidents' = incidents \cup {e}
           /\ UNCHANGED <<recorded, score, delivered, alerted>>

Deliver(e) == /\ e \in recorded
              /\ score[e] >= AlertMin
              /\ delivered' = delivered \cup {e}
              /\ UNCHANGED <<recorded, score, incidents, alerted>>

Mark(e) == /\ e \in delivered
           /\ alerted' = alerted \cup {e}
           /\ UNCHANGED <<recorded, score, incidents, delivered>>

Next == \E e \in Events : Record(e) \/ Open(e) \/ Deliver(e) \/ Mark(e)

Spec == Init /\ [][Next]_vars
=============================================================================
