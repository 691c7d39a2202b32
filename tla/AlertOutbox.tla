----------------------------- MODULE AlertOutbox -----------------------------
(***************************************************************************)
(* The events and incidents tables of the radar's SQLite file, and the     *)
(* alert outbox that every client of the file flushes (the confirmed       *)
(* scanner and the pending observer run the same loop).  Each operator is  *)
(* one SQLite transaction, or one call to Telegram, and primes only the    *)
(* tables it writes.                                                       *)
(***************************************************************************)
EXTENDS Integers, FiniteSets

CONSTANTS Clients,      \* processes that flush the outbox of the chain
          Events,       \* event ids
          Scores,       \* scores the scoring functions can return
          IncidentMin,  \* app.incident_minimum_score
          AlertMin,     \* telegram.minimum_score
          BatchLimit,   \* rows one pending_alerts query returns (100 in the code)
          DryRun        \* app.dry_run

ASSUME OutboxAssumption == /\ IsFiniteSet(Events)
                           /\ Scores \subseteq Nat
                           /\ IncidentMin \in Nat
                           /\ AlertMin \in Nat
                           /\ BatchLimit \in Nat \ {0}
                           /\ DryRun \in BOOLEAN

VARIABLES rowid,        \* position of the event's row, 0 when there is none
          score,        \* the score in the row
          incidents,    \* events with an incident row
          alerted,      \* events whose alerted_at is set
          delivered,    \* messages Telegram has accepted
          batch         \* client -> rows it read and has not handled yet

outboxVars == <<rowid, score, incidents, alerted, delivered, batch>>

Recorded == {e \in Events : rowid[e] > 0}

OutboxInit == /\ rowid = [e \in Events |-> 0]
              /\ score = [e \in Events |-> 0]
              /\ incidents = {}
              /\ alerted = {}
              /\ delivered = {}
              /\ batch = [c \in Clients |-> {}]

-----------------------------------------------------------------------------
(* add_event: INSERT OR IGNORE; the caller goes on only if a row was added. *)
AddEvent(e, s) ==
  /\ rowid[e] = 0
  /\ rowid' = [rowid EXCEPT ![e] = Cardinality(Recorded) + 1]
  /\ score' = [score EXCEPT ![e] = s]

(* open_incident: below the threshold it returns without a write, else it   *)
(* inserts or ignores the incident row together with its history row.       *)
OpenIncident(e) ==
  incidents' = IF score[e] >= IncidentMin THEN incidents \cup {e} ELSE incidents

(* pending_alerts: the oldest unalerted rows, at most BatchLimit of them.    *)
Unalerted == Recorded \ alerted

PendingAlerts ==
  {e \in Unalerted :
     Cardinality({f \in Unalerted : rowid[f] < rowid[e]}) < BatchLimit}

(* should_send, and the dry run in which send returns False. *)
Sendable(e) == score[e] >= AlertMin /\ ~DryRun

(* The row the loop of _flush_alerts has reached. *)
Reached(c, e) == /\ e \in batch[c]
                 /\ \A f \in batch[c] : rowid[e] <= rowid[f]

LoadOutbox(c) == /\ batch' = [batch EXCEPT ![c] = PendingAlerts]
                 /\ UNCHANGED <<rowid, score, incidents, alerted, delivered>>

Drop(c, e) == batch' = [batch EXCEPT ![c] = @ \ {e}]

SkipAlert(c, e) == /\ Reached(c, e)
                   /\ ~Sendable(e)
                   /\ Drop(c, e)
                   /\ UNCHANGED <<rowid, score, incidents, alerted, delivered>>

(* Mutant: the row marked before the message is sent. *)
MarkThenSend(c, e) == /\ Reached(c, e)
                      /\ Sendable(e)
                      /\ alerted' = alerted \cup {e}
                      /\ UNCHANGED <<rowid, score, incidents, delivered, batch>>

(* send succeeds: the message is in the chat and its row is still unmarked. *)
SendAlert(c, e) == /\ Reached(c, e)
                   /\ Sendable(e)
                   /\ delivered' = delivered \cup {e}
                   /\ UNCHANGED <<rowid, score, incidents, alerted, batch>>

(* send raises: the exception is logged and the loop goes on.  Telegram may *)
(* have accepted the message before the connection failed.                  *)
SendFails(c, e) == /\ Reached(c, e)
                   /\ Sendable(e)
                   /\ delivered' \in {delivered, delivered \cup {e}}
                   /\ Drop(c, e)
                   /\ UNCHANGED <<rowid, score, incidents, alerted>>

(* Mutant: mark_alerted left out. *)
ForgetAlert(c, e) == /\ Reached(c, e)
                     /\ Drop(c, e)
                     /\ UNCHANGED <<rowid, score, incidents, alerted, delivered>>

(* mark_alerted, in a transaction of its own after send has returned. *)
MarkAlerted(c, e) == /\ Reached(c, e)
                     /\ alerted' = alerted \cup {e}
                     /\ Drop(c, e)
                     /\ UNCHANGED <<rowid, score, incidents, delivered>>

OutboxTypeOK == /\ rowid \in [Events -> Nat]
                /\ score \in [Events -> Nat]
                /\ incidents \subseteq Events
                /\ alerted \subseteq Events
                /\ delivered \subseteq Events
                /\ batch \in [Clients -> SUBSET Events]
=============================================================================
