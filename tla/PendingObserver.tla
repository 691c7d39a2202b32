--------------------------- MODULE PendingObserver ---------------------------
(***************************************************************************)
(* The pending observer of one chain (mempool.py) beside the scanners that  *)
(* flush the same outbox.  The observer is one asyncio task: it connects to *)
(* a websocket endpoint, subscribes, flushes the outbox and handles one     *)
(* message after the other, until the connection or a step of its own       *)
(* fails.  A second task writes heartbeats, and runs only while the first   *)
(* one awaits.  Every action is one await or one SQLite transaction.        *)
(*                                                                          *)
(* Events are the transactions that evidence promotes to a case.            *)
(***************************************************************************)
EXTENDS AlertOutbox, Sequences, Functions

CONSTANTS Watcher,      \* the observer; the other Clients flush the outbox
          Routine,      \* watched transactions without evidence
          Foreign,      \* transactions to other destinations
          None,         \* no transaction, no sender
          Protocol,     \* event -> the protocol of its destination
          Contract,     \* event -> its destination
          Sender,       \* event -> its sender or None
          HashesOnly,   \* whether the subscription yields hashes only
          Sockets,      \* number of websocket endpoints
          MaxBackoff,   \* the longest delay, 30 seconds in the code
          MaxMessages,  \* bound: messages the provider sends
          MaxFailures   \* bound: broken streams, failed steps, kills and stops

Flushers == Clients \ {Watcher}

ASSUME ObserverAssumption ==
  /\ Watcher \in Clients
  /\ None \notin Events \cup Routine \cup Foreign
  /\ DOMAIN Protocol = Events /\ DOMAIN Contract = Events /\ DOMAIN Sender = Events
  /\ HashesOnly \in BOOLEAN
  /\ Sockets \in Nat \ {0}
  /\ MaxBackoff \in Nat \ {0}
  /\ MaxMessages \in Nat
  /\ MaxFailures \in Nat

VARIABLES
  phase,      \* what the observer does next
  index,      \* websocket_index
  backoff,    \* the delay before the next attempt
  beat,       \* the heartbeat task: off, on, or dead of an error nobody saw
  heartbeat,  \* service_heartbeats row of pending_observer
  up,         \* endpoints that accept a subscription
  mute,       \* endpoints that connect and answer pings, and acknowledge nothing
  tx,         \* the transaction in process
  todo,       \* graph writes left for it
  graph,      \* identity nodes <<n>> and edges <<m, n>>
  telemetry,  \* pending_telemetry: observations counted
  flush,      \* flusher -> where its flush is
  messages,   \* messages received so far
  failures    \* failures so far

endpoints == <<up, mute>>
connection == <<index, backoff, endpoints>>
case == <<tx, todo>>
rows == <<graph, telemetry>>
bounds == <<messages, failures>>
vars == <<outboxVars, phase, connection, beat, heartbeat, case, rows, flush, bounds>>

Phases == {"down", "stopped", "connect", "greet", "outbox", "send", "mark", "stream",
           "lookup", "triage", "analyse", "event", "incident", "graph", "notify",
           "notified", "sleep"}

(* Where another task can run, and where an error ends the connection:      *)
(* failures of a delivery are handled on the spot.                          *)
Awaiting == {"connect", "send", "stream", "lookup", "analyse", "notify", "sleep"}
Raising == {"greet", "outbox", "stream", "lookup", "triage", "analyse", "event",
            "incident", "graph"}

Init == /\ OutboxInit
        /\ phase = "down"
        /\ index = 0
        /\ backoff = 1
        /\ beat = "off"
        /\ heartbeat = "none"
        /\ up \in SUBSET (0..(Sockets - 1))
        /\ mute \in SUBSET ((0..(Sockets - 1)) \ up)
        /\ tx = None
        /\ todo = <<>>
        /\ graph = {}
        /\ telemetry = 0
        /\ flush = [c \in Flushers |-> "idle"]
        /\ messages = 0
        /\ failures = 0

(* The nodes and edges _handle_message registers for a case, in its order.  *)
Context(e) ==
  << <<Protocol[e]>>, <<Contract[e]>>, <<Protocol[e], Contract[e]>> >>
  \o IF Sender[e] = None THEN <<>> ELSE << <<Sender[e]>>, <<Sender[e], Contract[e]>> >>

(* Mutants: no rotation, and a rotation past the last endpoint. *)
RotateNever(i) == i
RotatePast(i) == i + 1

Rotate(i) == (i + 1) % Sockets

(* min(30, backoff * 2) *)
Longer(b) == IF 2 * b < MaxBackoff THEN 2 * b ELSE MaxBackoff

-----------------------------------------------------------------------------
(* An endpoint comes to accept subscriptions, to refuse them or to leave     *)
(* them unanswered.                                                          *)
Flip(i) == /\ \/ up' = up \cup {i} /\ mute' = mute \ {i}
              \/ up' = up \ {i} /\ mute' = mute \ {i}
              \/ up' = up \ {i} /\ mute' = mute \cup {i}
           /\ UNCHANGED <<outboxVars, phase, index, backoff, beat, heartbeat, case, rows,
                          flush, bounds>>

(* connect, the subscription and its acknowledgement ... *)
Connect == /\ phase = "connect"
           /\ index \in up
           /\ phase' = "greet"
           /\ UNCHANGED <<outboxVars, connection, beat, heartbeat, case, rows, flush, bounds>>

(* ... or an error of one of them.  The clause that handles every error of   *)
(* the connection rotates, records and sleeps.  The acknowledgement is       *)
(* awaited without a timeout: an endpoint that stays mute raises no error.   *)
Retry == /\ index' = Rotate(index)
         /\ heartbeat' = "degraded"
         /\ phase' = "sleep"

Refused == /\ phase = "connect"
           /\ index \notin up \cup mute
           /\ Retry
           /\ UNCHANGED <<outboxVars, backoff, endpoints, beat, case, rows, flush, bounds>>

Greet == /\ phase = "greet"
         /\ heartbeat' = "ok"
         /\ phase' = "outbox"
         /\ UNCHANGED <<outboxVars, connection, beat, case, rows, flush, bounds>>

Wake == /\ phase = "sleep"
        /\ backoff' = Longer(backoff)
        /\ phase' = "connect"
        /\ UNCHANGED <<outboxVars, index, endpoints, beat, heartbeat, case, rows, flush, bounds>>

(* _heartbeat_loop, while it lives.  A database error ends the task; the     *)
(* error is raised where the task is awaited, when the stream is over.       *)
Beat == /\ beat = "on"
        /\ phase \in Awaiting
        /\ heartbeat' = "ok"
        /\ UNCHANGED <<outboxVars, phase, connection, beat, case, rows, flush, bounds>>

BeatDies == /\ beat = "on"
            /\ phase \in Awaiting
            /\ failures < MaxFailures
            /\ failures' = failures + 1
            /\ beat' = "dead"
            /\ UNCHANGED <<outboxVars, phase, connection, heartbeat, case, rows, flush, messages>>

-----------------------------------------------------------------------------
(* _flush_alerts after the subscription, then the heartbeat task and the     *)
(* stream.                                                                   *)
ReadOutbox == /\ phase = "outbox"
              /\ LoadOutbox(Watcher)
              /\ phase' = "send"
              /\ UNCHANGED <<connection, beat, heartbeat, case, rows, flush, bounds>>

Skip(e) == /\ phase \in {"send", "notify"}
           /\ SkipAlert(Watcher, e)
           /\ UNCHANGED <<phase, connection, beat, heartbeat, case, rows, flush, bounds>>

Deliver(e) == /\ phase \in {"send", "notify"}
              /\ SendAlert(Watcher, e)
              /\ phase' = IF phase = "send" THEN "mark" ELSE "notified"
              /\ UNCHANGED <<connection, beat, heartbeat, case, rows, flush, bounds>>

(* Mutant: a delivery that failed goes on to mark_alerted. *)
MarkAnyway(e) == /\ phase \in {"send", "notify"}
                 /\ Reached(Watcher, e)
                 /\ Sendable(e)
                 /\ phase' = IF phase = "send" THEN "mark" ELSE "notified"
                 /\ UNCHANGED <<outboxVars, connection, beat, heartbeat, case, rows, flush, bounds>>

DeliveryFails(e) ==
  /\ phase \in {"send", "notify"}
  /\ SendFails(Watcher, e)
  /\ UNCHANGED <<phase, connection, beat, heartbeat, case, rows, flush, bounds>>

Mark(e) == /\ phase \in {"mark", "notified"}
           /\ MarkAlerted(Watcher, e)
           /\ phase' = IF phase = "mark" THEN "send" ELSE "notify"
           /\ UNCHANGED <<connection, beat, heartbeat, case, rows, flush, bounds>>

OpenStream == /\ phase = "send"
              /\ batch[Watcher] = {}
              /\ backoff' = 1
              /\ beat' = "on"
              /\ phase' = "stream"
              /\ UNCHANGED <<outboxVars, index, endpoints, heartbeat, case, rows, flush, bounds>>

-----------------------------------------------------------------------------
(* _handle_message: a message of the stream, sent once, again or never. *)
Receive(t) == /\ phase = "stream"
              /\ messages < MaxMessages
              /\ messages' = messages + 1
              /\ tx' = t
              /\ phase' = IF HashesOnly THEN "lookup" ELSE "triage"
              /\ UNCHANGED <<outboxVars, connection, beat, heartbeat, todo, rows, flush, failures>>

Done == tx' = None /\ phase' = "stream"

(* The lookup of a hash finds the transaction, or nothing. *)
Lookup == /\ phase = "lookup"
          /\ phase' = "triage"
          /\ UNCHANGED <<outboxVars, connection, beat, heartbeat, case, rows, flush, bounds>>

LookupNothing == /\ phase = "lookup"
                 /\ Done
                 /\ UNCHANGED <<outboxVars, connection, beat, heartbeat, todo, rows, flush, bounds>>

(* A destination that is not watched is ignored, a routine call counted. *)
Ignore == /\ phase = "triage"
          /\ tx \in Foreign
          /\ Done
          /\ UNCHANGED <<outboxVars, connection, beat, heartbeat, todo, rows, flush, bounds>>

Count == /\ phase = "triage"
         /\ tx \in Routine
         /\ telemetry' = telemetry + 1
         /\ Done
         /\ UNCHANGED <<outboxVars, connection, beat, heartbeat, todo, graph, flush, bounds>>

(* A transaction with evidence goes to the ABI resolver and the simulation,  *)
(* which do not write here and give the score.                               *)
TakeUp == /\ phase = "triage"
          /\ tx \in Events
          /\ phase' = "analyse"
          /\ UNCHANGED <<outboxVars, connection, beat, heartbeat, case, rows, flush, bounds>>

Analyse == /\ phase = "analyse"
           /\ phase' = "event"
           /\ UNCHANGED <<outboxVars, connection, beat, heartbeat, case, rows, flush, bounds>>

RecordEvent(s) ==
  /\ phase = "event"
  /\ AddEvent(tx, s)
  /\ phase' = "incident"
  /\ UNCHANGED <<incidents, alerted, delivered, batch, connection, beat, heartbeat, case,
                 rows, flush, bounds>>

KnownEvent == /\ phase = "event"
              /\ rowid[tx] > 0
              /\ Done
              /\ UNCHANGED <<outboxVars, connection, beat, heartbeat, todo, rows, flush, bounds>>

(* Mutant: a case below the threshold left without its relations. *)
PromoteOrLeave ==
  /\ phase = "incident"
  /\ OpenIncident(tx)
  /\ IF score[tx] >= IncidentMin THEN phase' = "graph" /\ todo' = Context(tx) /\ UNCHANGED tx
     ELSE Done /\ UNCHANGED todo
  /\ UNCHANGED <<rowid, score, alerted, delivered, batch, connection, beat, heartbeat,
                 rows, flush, bounds>>

Promote == /\ phase = "incident"
           /\ OpenIncident(tx)
           /\ todo' = Context(tx)
           /\ phase' = "graph"
           /\ UNCHANGED <<rowid, score, alerted, delivered, batch, connection, beat,
                          heartbeat, tx, rows, flush, bounds>>

Relate == /\ phase = "graph"
          /\ todo # <<>>
          /\ graph' = graph \cup {Head(todo)}
          /\ todo' = Tail(todo)
          /\ UNCHANGED <<outboxVars, phase, connection, beat, heartbeat, tx, telemetry,
                         flush, bounds>>

(* The case is sent at once; the outbox keeps it for others if that fails.   *)
Notify == /\ phase = "graph"
          /\ todo = <<>>
          /\ batch' = [batch EXCEPT ![Watcher] = {tx}]
          /\ phase' = "notify"
          /\ UNCHANGED <<rowid, score, incidents, alerted, delivered, connection, beat,
                         heartbeat, case, rows, flush, bounds>>

Return == /\ phase = "notify"
          /\ batch[Watcher] = {}
          /\ Done
          /\ UNCHANGED <<outboxVars, connection, beat, heartbeat, todo, rows, flush, bounds>>

-----------------------------------------------------------------------------
(* A frame that is left behind: a send whose answer is not awaited any more  *)
(* may still reach the chat, because its thread goes on.                     *)
Forget == /\ tx' = None
          /\ todo' = <<>>
          /\ batch' = [batch EXCEPT ![Watcher] = {}]
          /\ \/ UNCHANGED delivered
             \/ /\ phase \in {"send", "notify"}
                /\ \E e \in Events : /\ Reached(Watcher, e) /\ Sendable(e)
                                     /\ delivered' = delivered \cup {e}
          /\ UNCHANGED <<rowid, score, incidents, alerted>>

Fail == failures < MaxFailures /\ failures' = failures + 1

(* Mutant: the heartbeat task not cancelled when the stream breaks. *)
LeaveBeating == /\ phase \in Raising
                /\ Fail
                /\ Retry
                /\ Forget
                /\ UNCHANGED <<backoff, endpoints, beat, rows, flush, messages>>

(* The connection breaks or a step raises: the heartbeat task is cancelled   *)
(* and awaited before the error is recorded.                                 *)
Break == /\ phase \in Raising
         /\ Fail
         /\ Retry
         /\ beat' = "off"
         /\ Forget
         /\ UNCHANGED <<backoff, endpoints, rows, flush, messages>>

(* The provider closes the stream properly: the loop over the messages ends  *)
(* without an error and the same endpoint is tried again at once, unless the *)
(* heartbeat task has an error to raise.                                     *)
Close == /\ phase = "stream"
         /\ beat' = "off"
         /\ IF beat = "dead" THEN Retry ELSE phase' = "connect" /\ UNCHANGED <<index, heartbeat>>
         /\ UNCHANGED <<outboxVars, backoff, endpoints, case, rows, flush, bounds>>

(* The task is cancelled where it awaits.  While it sleeps the handler of    *)
(* the cancellation is not in force; an error of the heartbeat task takes    *)
(* the place of the cancellation and the observer goes on.                   *)
Stop == /\ phase \in Awaiting
        /\ Fail
        /\ beat' = "off"
        /\ IF beat = "dead" THEN Retry
           ELSE /\ phase' = "stopped"
                /\ heartbeat' = IF phase = "sleep" THEN heartbeat ELSE "stopped"
                /\ UNCHANGED index
        /\ Forget
        /\ UNCHANGED <<backoff, endpoints, rows, flush, messages>>

Crash == /\ phase \notin {"down", "stopped"}
         /\ Fail
         /\ phase' = "down"
         /\ beat' = "off"
         /\ Forget
         /\ UNCHANGED <<connection, heartbeat, rows, flush, messages>>

(* The process starts and finds its chain behind the HTTP endpoints ... *)
Start == /\ phase \in {"down", "stopped"}
         /\ phase' = "connect"
         /\ index' = 0
         /\ backoff' = 1
         /\ UNCHANGED <<outboxVars, endpoints, beat, heartbeat, case, rows, flush, bounds>>

(* ... or ends, because they do not answer or serve another chain. *)
StartFails == /\ phase \in {"down", "stopped"}
              /\ Fail
              /\ phase' = "down"
              /\ UNCHANGED <<outboxVars, connection, beat, heartbeat, case, rows, flush, messages>>

-----------------------------------------------------------------------------
(* The scanners' flushes of the same outbox, as in ChainScanner. *)
FlusherReads(c) == /\ flush[c] = "idle"
                   /\ LoadOutbox(c)
                   /\ flush' = [flush EXCEPT ![c] = "send"]

FlusherSkips(c, e) == flush[c] = "send" /\ SkipAlert(c, e) /\ UNCHANGED flush

FlusherSends(c, e) == /\ flush[c] = "send"
                      /\ SendAlert(c, e)
                      /\ flush' = [flush EXCEPT ![c] = "mark"]

FlusherFails(c, e) == flush[c] = "send" /\ SendFails(c, e) /\ UNCHANGED flush

FlusherMarks(c, e) == /\ flush[c] = "mark"
                      /\ MarkAlerted(c, e)
                      /\ flush' = [flush EXCEPT ![c] = "send"]

FlusherEnds(c) == /\ flush[c] = "send"
                  /\ batch[c] = {}
                  /\ flush' = [flush EXCEPT ![c] = "idle"]
                  /\ UNCHANGED outboxVars

Flushes(c) == /\ \/ FlusherReads(c)
                 \/ \E e \in Events : \/ FlusherSkips(c, e)
                                      \/ FlusherSends(c, e)
                                      \/ FlusherFails(c, e)
                                      \/ FlusherMarks(c, e)
                 \/ FlusherEnds(c)
              /\ UNCHANGED <<phase, connection, beat, heartbeat, case, rows, bounds>>

-----------------------------------------------------------------------------
(* The steps the observer takes by itself. *)
Step == \/ Connect \/ Refused \/ Greet \/ Wake \/ ReadOutbox \/ OpenStream
        \/ \E e \in Events : Skip(e) \/ Deliver(e) \/ DeliveryFails(e) \/ Mark(e)
        \/ Lookup \/ LookupNothing \/ Ignore \/ Count \/ TakeUp \/ Analyse
        \/ \E s \in Scores : RecordEvent(s)
        \/ KnownEvent \/ Promote \/ Relate \/ Notify \/ Return
        \/ (phase = "down" /\ Start)

Next == \/ Step
        \/ Beat \/ BeatDies
        \/ \E t \in Events \cup Routine \cup Foreign : Receive(t)
        \/ \E i \in 0..(Sockets - 1) : Flip(i)
        \/ Break \/ Close \/ Stop \/ Crash \/ Start \/ StartFails
        \/ \E c \in Flushers : Flushes(c)

Spec == Init /\ [][Next]_vars

(* The observer takes its steps and the scanners keep flushing. *)
FairSpec == Spec /\ WF_vars(Step) /\ \A c \in Flushers : WF_vars(Flushes(c))

-----------------------------------------------------------------------------
TypeOK == /\ OutboxTypeOK
          /\ phase \in Phases
          /\ index \in 0..(Sockets - 1)
          /\ backoff \in 1..MaxBackoff
          /\ beat \in {"off", "on", "dead"}
          /\ heartbeat \in {"none", "ok", "degraded", "stopped"}
          /\ up \subseteq 0..(Sockets - 1)
          /\ mute \subseteq (0..(Sockets - 1)) \ up
          /\ tx \in Events \cup Routine \cup Foreign \cup {None}
          /\ flush \in [Flushers -> {"idle", "send", "mark"}]
          /\ telemetry \in 0..MaxMessages
          /\ messages \in 0..MaxMessages
          /\ failures \in 0..MaxFailures

(* While the observer waits to reconnect its row says so: no heartbeat of    *)
(* the stream that broke is written over the degraded one                    *)
(* (watch_pending_transactions, _heartbeat_loop).                            *)
OutageVisible == phase = "sleep" => heartbeat = "degraded"

(* Until something is cut short, a recorded case that is not in process has  *)
(* its relations and, if it is urgent, its incident, however often the       *)
(* provider repeats the transaction (_handle_message).                       *)
CasesCompleteUnlessCut ==
  failures = 0 =>
    \A e \in Recorded \ {tx} : /\ Range(Context(e)) \subseteq graph
                               /\ score[e] >= IncidentMin => e \in incidents

(* The observer and the flushing scanners together behave like the ledger of *)
(* cases (add_event, open_incident, mark_alerted).                           *)
Ledger == INSTANCE CaseLedger WITH recorded <- Recorded
LedgerSpec == Ledger!Spec

(* If from some time on one endpoint accepts subscriptions and none is mute, *)
(* the observer is streaming again and again, unless it is stopped: a broken *)
(* endpoint is left for the next one, and one that closes its streams is     *)
(* tried again (watch_pending_transactions).                                 *)
Reconnects ==
  /\ \E i \in 0..(Sockets - 1) : <>[](i \in up)
  /\ <>[](mute = {})
  => []<>(phase \in {"stream", "stopped"})

(* A case whose first delivery failed is alerted by a scanner's flush, even  *)
(* when the observer never reconnects, if Telegram does not refuse it for    *)
(* ever (_handle_message, _flush_alerts).                                    *)
EligibleAlerted ==
  (\A c \in Flushers, e \in Events : SF_vars(FlusherSends(c, e) /\ Flushes(c))) =>
     \A e \in Events : (rowid[e] > 0 /\ Sendable(e)) ~> (e \in alerted)
=============================================================================
