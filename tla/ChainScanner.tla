---------------------------- MODULE ChainScanner ----------------------------
(***************************************************************************)
(* The confirmed-block scanner of one chain (monitor.py, ChainScanner.scan, *)
(* driven by _scan_once in cli.py) over the shared SQLite file.  Scanners   *)
(* is the set of processes that scan the same chain: the daemon, and a      *)
(* run-once that an operator starts beside it.  Every action of a scanner   *)
(* is one RPC answer or one SQLite transaction; whatever else runs can act  *)
(* between two of them.                                                     *)
(*                                                                          *)
(* The chain is a fixed assignment of items (contract deployments, proxy    *)
(* control logs) to blocks, of which the node shows a growing prefix.       *)
(* Invariant policies are the subject of InvariantMonitor; the scanner is   *)
(* modelled for a chain without one, where _scan_invariants returns at once.*)
(***************************************************************************)
EXTENDS AlertOutbox

CONSTANTS Deployments,    \* the events that report a contract creation; the
                          \* others report a proxy control log
          Nodes,          \* accounts, contracts and protocols of the graph
          None,           \* no item, no node
          BlockOf,        \* event -> the block that holds it
          Subject,        \* event -> the contract it is about
          Links,          \* event -> what its evidence ties the subject to
          Similar,        \* deployment -> contracts with similar bytecode
          RowLimit,       \* profiles similar_contracts reads (2000 in the code)
          SimilarLimit,   \* matches it returns (8 in the code)
          Unanswered,     \* deployments whose receipt or trace may be missing
          Confirmations,  \* chain.confirmations
          Lookback,       \* chain.initial_lookback_blocks
          MaxBlocks,      \* chain.max_blocks_per_cycle
          MaxHead,        \* bound: the last block the chain produces
          MaxLag,         \* bound: how far an endpoint trails the head
          MaxFailures     \* bound: aborted cycles and crashes

Scanners == Clients
Upgrades == Events \ Deployments

ASSUME ChainAssumption ==
  /\ Deployments \subseteq Events
  /\ Unanswered \subseteq Deployments
  /\ None \notin Events
  /\ None \notin Nodes
  /\ IsFiniteSet(Nodes)
  /\ BlockOf \in [Events -> Nat]
  /\ Subject \in [Events -> Nodes]
  /\ Links \in [Events -> SUBSET Nodes]
  /\ Similar \in [Deployments -> SUBSET Nodes]

ASSUME SettingsAssumption ==
  /\ Confirmations \in Nat
  /\ Lookback \in Nat \ {0}
  /\ MaxBlocks \in Nat \ {0}
  /\ MaxHead \in Nat
  /\ MaxLag \in Nat
  /\ MaxFailures \in Nat
  /\ RowLimit \in Nat
  /\ SimilarLimit \in Nat

VARIABLES
  head,        \* the node's newest block
  cursor,      \* chain_state.last_confirmed_block, NoCursor before the first
  deployments, \* addresses of the deployments table
  profiles,    \* addresses of the contract_profiles table
  nodes,       \* identity_nodes
  edges,       \* identity_edges
  heartbeat,   \* service_heartbeats row of confirmed_scanner
  pc,          \* scanner -> what it does next
  tail,        \* scanner -> whether it flushes after the blocks
  next,        \* scanner -> the block it is at
  last,        \* scanner -> the safe head, then the last block of the window
  work,        \* scanner -> items of the window or block still to process
  item,        \* scanner -> the item in process
  links,       \* scanner -> nodes still to be tied to its subject
  other,       \* scanner -> the node being tied
  base,        \* history: the highest first block a fresh start has chosen
  lost,        \* history: deployments skipped for want of an answer
  failures     \* aborted cycles and crashes so far

tables == <<deployments, profiles, nodes, edges>>
window == <<tail, next, last>>
local == <<work, item, links, other>>
history == <<base, lost, failures>>
vars == <<outboxVars, head, cursor, tables, heartbeat, pc, window, local, history>>

NoCursor == -1

Stages == {"idle", "outbox", "send", "mark", "window", "upgrade", "block", "tx",
           "deploy", "similar", "profile", "node", "link", "edge", "incident",
           "done"}

Init == /\ OutboxInit
        /\ head \in 0..MaxHead
        /\ cursor = NoCursor
        /\ deployments = {} /\ profiles = {} /\ nodes = {} /\ edges = {}
        /\ heartbeat = "none"
        /\ pc = [p \in Scanners |-> "idle"]
        /\ tail = [p \in Scanners |-> FALSE]
        /\ next = [p \in Scanners |-> 0]
        /\ last = [p \in Scanners |-> 0]
        /\ work = [p \in Scanners |-> {}]
        /\ item = [p \in Scanners |-> None]
        /\ links = [p \in Scanners |-> {}]
        /\ other = [p \in Scanners |-> None]
        /\ base = 0
        /\ lost = {}
        /\ failures = 0

Goto(p, stage) == pc' = [pc EXCEPT ![p] = stage]

(* The frame of one cycle is dropped when scan() returns or raises. *)
Reset(p) == /\ tail' = [tail EXCEPT ![p] = FALSE]
            /\ next' = [next EXCEPT ![p] = 0]
            /\ last' = [last EXCEPT ![p] = 0]
            /\ work' = [work EXCEPT ![p] = {}]
            /\ item' = [item EXCEPT ![p] = None]
            /\ links' = [links EXCEPT ![p] = {}]
            /\ other' = [other EXCEPT ![p] = None]

(* Mutants: the newest head taken for the safe head, and one confirmation    *)
(* too many.                                                                 *)
UnsafeHead(h) == h
LateHead(h) == IF h > Confirmations THEN h - Confirmations - 1 ELSE 0

(* safe_head = max(0, head - confirmations) *)
SafeHead(h) == IF h > Confirmations THEN h - Confirmations ELSE 0

(* Mutants: the lookback without max(0, ...), and the stored cursor ignored. *)
UnclampedStart(safe) == IF cursor # NoCursor THEN cursor + 1 ELSE safe - Lookback + 1
LookbackStart(safe) == IF safe + 1 > Lookback THEN safe - Lookback + 1 ELSE 0

(* The first block of the cycle: a bounded lookback, or after the cursor. *)
StartBlock(safe) ==
  IF cursor # NoCursor THEN cursor + 1
  ELSE IF safe + 1 > Lookback THEN safe - Lookback + 1 ELSE 0

(* end = min(safe_head, start + max_blocks_per_cycle - 1) *)
EndBlock(start, safe) ==
  IF start + MaxBlocks - 1 < safe THEN start + MaxBlocks - 1 ELSE safe

-----------------------------------------------------------------------------
(* The chain grows. *)
NewBlock == /\ head < MaxHead
            /\ head' = head + 1
            /\ UNCHANGED <<outboxVars, cursor, tables, heartbeat, pc, window, local, history>>

(* scan: block_number, the safe head, get_cursor and the first block.  The   *)
(* endpoint that answers may trail the newest head by up to MaxLag blocks.   *)
BeginCycle(p, h) ==
  /\ pc[p] = "idle"
  /\ h \in Nat
  /\ h <= head
  /\ head - h <= MaxLag
  /\ next' = [next EXCEPT ![p] = StartBlock(SafeHead(h))]
  /\ last' = [last EXCEPT ![p] = SafeHead(h)]
  /\ base' = IF cursor = NoCursor /\ StartBlock(SafeHead(h)) > base
             THEN StartBlock(SafeHead(h)) ELSE base
  /\ Goto(p, "outbox")
  /\ UNCHANGED <<outboxVars, head, cursor, tables, heartbeat, tail, local, lost, failures>>

-----------------------------------------------------------------------------
(* _flush_alerts: one read of the outbox, then row by row. *)
ReadOutbox(p) == /\ pc[p] = "outbox"
                 /\ LoadOutbox(p)
                 /\ Goto(p, "send")
                 /\ UNCHANGED <<head, cursor, tables, heartbeat, window, local, history>>

Skip(p, e) == /\ pc[p] = "send"
              /\ SkipAlert(p, e)
              /\ UNCHANGED <<head, cursor, tables, heartbeat, pc, window, local, history>>

Deliver(p, e) == /\ pc[p] = "send"
                 /\ SendAlert(p, e)
                 /\ Goto(p, "mark")
                 /\ UNCHANGED <<head, cursor, tables, heartbeat, window, local, history>>

DeliveryFails(p, e) ==
  /\ pc[p] = "send"
  /\ SendFails(p, e)
  /\ UNCHANGED <<head, cursor, tables, heartbeat, pc, window, local, history>>

Mark(p, e) == /\ pc[p] = "mark"
              /\ MarkAlerted(p, e)
              /\ Goto(p, "send")
              /\ UNCHANGED <<head, cursor, tables, heartbeat, window, local, history>>

FlushDone(p) ==
  /\ pc[p] = "send"
  /\ batch[p] = {}
  /\ Goto(p, IF tail[p] THEN "done" ELSE "window")
  /\ UNCHANGED <<outboxVars, head, cursor, tables, heartbeat, window, local, history>>

-----------------------------------------------------------------------------
(* scan: nothing confirmed is left, or the window is cut and the logs of the *)
(* whole window are fetched.                                                 *)
NothingNew(p) ==
  /\ pc[p] = "window"
  /\ next[p] > last[p]
  /\ Goto(p, "done")
  /\ UNCHANGED <<outboxVars, head, cursor, tables, heartbeat, window, local, history>>

(* Mutant: the first block of the window left out of the log filter. *)
UpgradesAfter(first, final) == {u \in Upgrades : first < BlockOf[u] /\ BlockOf[u] <= final}

UpgradesIn(first, final) == {u \in Upgrades : first <= BlockOf[u] /\ BlockOf[u] <= final}

CutWindow(p) ==
  /\ pc[p] = "window"
  /\ next[p] <= last[p]
  /\ last' = [last EXCEPT ![p] = EndBlock(next[p], last[p])]
  /\ work' = [work EXCEPT ![p] = UpgradesIn(next[p], EndBlock(next[p], last[p]))]
  /\ Goto(p, "upgrade")
  /\ UNCHANGED <<outboxVars, head, cursor, tables, heartbeat, tail, next,
                 item, links, other, history>>

(* Mutant: the event of a log recorded without its relations. *)
BareUpgrade(p, u) ==
  /\ pc[p] = "upgrade"
  /\ u \in work[p]
  /\ item' = [item EXCEPT ![p] = u]
  /\ Goto(p, "node")
  /\ UNCHANGED <<outboxVars, head, cursor, tables, heartbeat, window, work, links, other, history>>

(* _scan_upgrades: the next log entry.  A proxy snapshot that fails is       *)
(* swallowed and only changes the score.                                     *)
TakeUpgrade(p, u) ==
  /\ pc[p] = "upgrade"
  /\ u \in work[p]
  /\ item' = [item EXCEPT ![p] = u]
  /\ links' = [links EXCEPT ![p] = Links[u]]
  /\ Goto(p, "node")
  /\ UNCHANGED <<outboxVars, head, cursor, tables, heartbeat, window, work, other, history>>

-----------------------------------------------------------------------------
(* _scan_block: the block with its transactions. *)
FetchBlock(p) ==
  /\ pc[p] = "block" \/ (pc[p] = "upgrade" /\ work[p] = {})
  /\ work' = [work EXCEPT ![p] = {d \in Deployments : BlockOf[d] = next[p]}]
  /\ Goto(p, "tx")
  /\ UNCHANGED <<outboxVars, head, cursor, tables, heartbeat, window,
                 item, links, other, history>>

TakeDeployment(p, d) ==
  /\ pc[p] = "tx"
  /\ d \in work[p]
  /\ item' = [item EXCEPT ![p] = d]
  /\ Goto(p, "deploy")
  /\ UNCHANGED <<outboxVars, head, cursor, tables, heartbeat, window,
                 work, links, other, history>>

(* A null receipt, a trace that fails and a null trace are passed over. *)
NoAnswer(p, d) ==
  /\ pc[p] = "tx"
  /\ d \in work[p] \cap Unanswered
  /\ work' = [work EXCEPT ![p] = @ \ {d}]
  /\ lost' = lost \cup {d}
  /\ UNCHANGED <<outboxVars, head, cursor, tables, heartbeat, pc, window,
                 item, links, other, base, failures>>

(* Mutant: the cursor set to the end of the window after its first block. *)
EagerCursor(p) ==
  /\ pc[p] = "tx"
  /\ work[p] = {}
  /\ cursor' = last[p]
  /\ next' = [next EXCEPT ![p] = @ + 1]
  /\ tail' = [tail EXCEPT ![p] = (next[p] = last[p])]
  /\ Goto(p, IF next[p] = last[p] THEN "outbox" ELSE "block")
  /\ UNCHANGED <<outboxVars, head, tables, heartbeat, last, local, history>>

(* set_cursor after every transaction of the block. *)
AdvanceCursor(p) ==
  /\ pc[p] = "tx"
  /\ work[p] = {}
  /\ cursor' = next[p]
  /\ next' = [next EXCEPT ![p] = @ + 1]
  /\ tail' = [tail EXCEPT ![p] = (next[p] = last[p])]
  /\ Goto(p, IF next[p] = last[p] THEN "outbox" ELSE "block")
  /\ UNCHANGED <<outboxVars, head, tables, heartbeat, last, local, history>>

-----------------------------------------------------------------------------
(* Back to the loop over log entries or transactions. *)
NextItem(p) == /\ work' = [work EXCEPT ![p] = @ \ {item[p]}]
               /\ item' = [item EXCEPT ![p] = None]
               /\ Goto(p, IF item[p] \in Deployments THEN "tx" ELSE "upgrade")

(* Mutant: the test of add_deployment's result inverted. *)
StopAfterInsert(p) ==
  /\ pc[p] = "deploy"
  /\ Subject[item[p]] \notin deployments
  /\ deployments' = deployments \cup {Subject[item[p]]}
  /\ NextItem(p)
  /\ UNCHANGED <<outboxVars, head, cursor, profiles, nodes, edges, heartbeat,
                 window, links, other, history>>

(* _process_deployment: code and enrichment are read, then add_deployment    *)
(* inserts or ignores the row; a row that is there ends the processing.      *)
AddDeployment(p) ==
  /\ pc[p] = "deploy"
  /\ Subject[item[p]] \notin deployments
  /\ deployments' = deployments \cup {Subject[item[p]]}
  /\ Goto(p, "similar")
  /\ UNCHANGED <<outboxVars, head, cursor, profiles, nodes, edges, heartbeat,
                 window, local, history>>

KnownDeployment(p) ==
  /\ pc[p] = "deploy"
  /\ Subject[item[p]] \in deployments
  /\ NextItem(p)
  /\ UNCHANGED <<outboxVars, head, cursor, tables, heartbeat, window, links, other, history>>

(* Mutant: the similar contracts left out of the graph. *)
IgnoreSimilar(p) ==
  /\ pc[p] = "similar"
  /\ links' = [links EXCEPT ![p] = Links[item[p]]]
  /\ Goto(p, "profile")
  /\ UNCHANGED <<outboxVars, head, cursor, tables, heartbeat, window,
                 work, item, other, history>>

(* What is left of rows after a cut at limit.  Which rows come first depends *)
(* on refresh times and degrees of similarity, and is left open.             *)
CutAt(rows, limit) ==
  {S \in SUBSET rows :
     IF Cardinality(rows) <= limit THEN S = rows ELSE Cardinality(S) = limit}

(* similar_contracts reads at most RowLimit profiles of other addresses and  *)
(* returns at most SimilarLimit of the similar ones.  The size window of the *)
(* query is left out: it only makes the limit on the rows harder to meet.    *)
ReadSimilar(p) ==
  /\ pc[p] = "similar"
  /\ \E rows \in CutAt(profiles \ {Subject[item[p]]}, RowLimit) :
     \E matches \in CutAt(rows \cap Similar[item[p]], SimilarLimit) :
       links' = [links EXCEPT ![p] = Links[item[p]] \cup matches]
  /\ Goto(p, "profile")
  /\ UNCHANGED <<outboxVars, head, cursor, tables, heartbeat, window,
                 work, item, other, history>>

UpsertProfile(p) ==
  /\ pc[p] = "profile"
  /\ profiles' = profiles \cup {Subject[item[p]]}
  /\ Goto(p, "node")
  /\ UNCHANGED <<outboxVars, head, cursor, deployments, nodes, edges, heartbeat,
                 window, local, history>>

-----------------------------------------------------------------------------
(* _register_identity, and the same sequence in _scan_upgrades: the node of  *)
(* the subject, then for each related node the node and the edge to it.  The *)
(* order of the related nodes is left open.                                  *)
SubjectNode(p) ==
  /\ pc[p] = "node"
  /\ nodes' = nodes \cup {Subject[item[p]]}
  /\ Goto(p, "link")
  /\ UNCHANGED <<outboxVars, head, cursor, deployments, profiles, edges, heartbeat,
                 window, local, history>>

(* Mutant: the edge drawn without the node at its other end. *)
AssumeNode(p, n) ==
  /\ pc[p] = "link"
  /\ n \in links[p]
  /\ other' = [other EXCEPT ![p] = n]
  /\ Goto(p, "edge")
  /\ UNCHANGED <<outboxVars, head, cursor, tables, heartbeat,
                 window, work, item, links, history>>

LinkNode(p, n) ==
  /\ pc[p] = "link"
  /\ n \in links[p]
  /\ nodes' = nodes \cup {n}
  /\ other' = [other EXCEPT ![p] = n]
  /\ Goto(p, "edge")
  /\ UNCHANGED <<outboxVars, head, cursor, deployments, profiles, edges, heartbeat,
                 window, work, item, links, history>>

LinkEdge(p) ==
  /\ pc[p] = "edge"
  /\ edges' = edges \cup {<<Subject[item[p]], other[p]>>}
  /\ links' = [links EXCEPT ![p] = @ \ {other[p]}]
  /\ other' = [other EXCEPT ![p] = None]
  /\ Goto(p, "link")
  /\ UNCHANGED <<outboxVars, head, cursor, deployments, profiles, nodes, heartbeat,
                 window, work, item, history>>

-----------------------------------------------------------------------------
(* _record_and_alert: add_event, and only for a new row open_incident. *)
RecordEvent(p, s) ==
  /\ pc[p] = "link"
  /\ links[p] = {}
  /\ AddEvent(item[p], s)
  /\ Goto(p, "incident")
  /\ UNCHANGED <<incidents, alerted, delivered, batch, head, cursor, tables, heartbeat,
                 window, local, history>>

KnownEvent(p) ==
  /\ pc[p] = "link"
  /\ links[p] = {}
  /\ rowid[item[p]] > 0
  /\ NextItem(p)
  /\ UNCHANGED <<outboxVars, head, cursor, tables, heartbeat, window, links, other, history>>

Promote(p) ==
  /\ pc[p] = "incident"
  /\ OpenIncident(item[p])
  /\ NextItem(p)
  /\ UNCHANGED <<rowid, score, alerted, delivered, batch, head, cursor, tables,
                 heartbeat, window, links, other, history>>

-----------------------------------------------------------------------------
(* Mutant: a cycle that succeeds leaves the heartbeat as it was. *)
SilentFinish(p) ==
  /\ pc[p] = "done"
  /\ heartbeat' = IF heartbeat = "none" THEN "ok" ELSE heartbeat
  /\ Reset(p)
  /\ Goto(p, "idle")
  /\ UNCHANGED <<outboxVars, head, cursor, tables, history>>

(* _scan_once: the heartbeat after scan() has returned or raised. *)
Finish(p) ==
  /\ pc[p] = "done"
  /\ heartbeat' = "ok"
  /\ Reset(p)
  /\ Goto(p, "idle")
  /\ UNCHANGED <<outboxVars, head, cursor, tables, history>>

(* An RPC error, a block that is not returned or a database error ends the   *)
(* cycle with a degraded heartbeat.  Errors of one delivery are handled in   *)
(* the flush.                                                                *)
Abort(p) ==
  /\ pc[p] \notin {"idle", "send", "mark"}
  /\ failures < MaxFailures
  /\ failures' = failures + 1
  /\ heartbeat' = "degraded"
  /\ Reset(p)
  /\ Goto(p, "idle")
  /\ UNCHANGED <<outboxVars, head, cursor, tables, base, lost>>

(* The process dies and the service manager starts it again. *)
Crash(p) ==
  /\ pc[p] # "idle"
  /\ failures < MaxFailures
  /\ failures' = failures + 1
  /\ batch' = [batch EXCEPT ![p] = {}]
  /\ Reset(p)
  /\ Goto(p, "idle")
  /\ UNCHANGED <<rowid, score, incidents, alerted, delivered, head, cursor, tables,
                 heartbeat, base, lost>>

-----------------------------------------------------------------------------
(* The steps a running scanner takes by itself. *)
Step(p) ==
  \/ \E h \in 0..MaxHead : BeginCycle(p, h)
  \/ ReadOutbox(p)
  \/ \E e \in Events : Skip(p, e) \/ Deliver(p, e) \/ DeliveryFails(p, e) \/ Mark(p, e)
  \/ FlushDone(p)
  \/ NothingNew(p)
  \/ CutWindow(p)
  \/ \E u \in Upgrades : TakeUpgrade(p, u)
  \/ FetchBlock(p)
  \/ \E d \in Deployments : TakeDeployment(p, d) \/ NoAnswer(p, d)
  \/ AdvanceCursor(p)
  \/ AddDeployment(p)
  \/ KnownDeployment(p)
  \/ ReadSimilar(p)
  \/ UpsertProfile(p)
  \/ SubjectNode(p)
  \/ \E n \in Nodes : LinkNode(p, n)
  \/ LinkEdge(p)
  \/ \E s \in Scores : RecordEvent(p, s)
  \/ KnownEvent(p)
  \/ Promote(p)
  \/ Finish(p)

Next == \/ NewBlock
        \/ \E p \in Scanners : Step(p) \/ Abort(p) \/ Crash(p)

Spec == Init /\ [][Next]_vars

(* The daemon keeps polling and finishes what it starts. *)
FairSpec == Spec /\ \A p \in Scanners : WF_vars(Step(p))

(* Telegram does not refuse one message for ever. *)
Delivering == \A p \in Scanners, e \in Events : SF_vars(Deliver(p, e))

-----------------------------------------------------------------------------
TypeOK == /\ OutboxTypeOK
          /\ head \in Nat
          /\ cursor \in Nat \cup {NoCursor}
          /\ deployments \subseteq Nodes
          /\ profiles \subseteq Nodes
          /\ nodes \subseteq Nodes
          /\ edges \subseteq Nodes \X Nodes
          /\ heartbeat \in {"none", "ok", "degraded"}
          /\ pc \in [Scanners -> Stages]
          /\ tail \in [Scanners -> BOOLEAN]
          /\ next \in [Scanners -> Nat]
          /\ last \in [Scanners -> Nat]
          /\ work \in [Scanners -> SUBSET Events]
          /\ item \in [Scanners -> Events \cup {None}]
          /\ links \in [Scanners -> SUBSET Nodes]
          /\ other \in [Scanners -> Nodes \cup {None}]
          /\ base \in Nat
          /\ lost \subseteq Deployments
          /\ failures \in Nat

(* The cursor never names a block without its confirmations, whichever       *)
(* lagging endpoint answered and whichever scanner moved it last (scan).     *)
(* While the chain is shorter than the confirmations max(0, ...) lets block  *)
(* 0 through.                                                                *)
CursorConfirmed == cursor <= 0 \/ cursor + Confirmations <= head

(* Every deployment between the first block a fresh start chose and the      *)
(* cursor has its row, whatever cycles were aborted or killed on the way,    *)
(* unless the node did not answer for it (scan, _scan_block, set_cursor).    *)
NoBlockSkipped ==
  \A d \in Deployments :
    base <= BlockOf[d] /\ BlockOf[d] <= cursor => Subject[d] \in deployments \/ d \in lost

(* Every proxy control log in that range has its event (_scan_upgrades runs  *)
(* over the window before the cursor moves into it).                         *)
UpgradesReported ==
  \A u \in Upgrades : base <= BlockOf[u] /\ BlockOf[u] <= cursor => rowid[u] > 0

(* An event is visible only when the evidence it refers to is stored: the    *)
(* node of its subject, an edge to every related node and, for a deployment, *)
(* its row and its profile (_process_deployment, _scan_upgrades).            *)
EvidenceBeforeEvent ==
  \A e \in Recorded :
    /\ Subject[e] \in nodes
    /\ \A n \in Links[e] : <<Subject[e], n>> \in edges
    /\ e \in Deployments => Subject[e] \in deployments \cap profiles

(* Foreign keys are not enforced on the connections that write the graph, so *)
(* the order of the upserts alone keeps the ends of an edge in place.        *)
NoDanglingEdge == \A g \in edges : g[1] \in nodes /\ g[2] \in nodes

(* The similar contracts that a deployment is tied to. *)
SimilarTies(d) == {n \in Similar[d] : <<Subject[d], n>> \in edges}

(* With one scanner, two reported contracts with similar bytecode are tied   *)
(* by an edge: whichever came second saw the profile of the first            *)
(* (similar_contracts before upsert_contract_profile).  Only the limits of   *)
(* similar_contracts can leave the two apart: one of them has all the ties   *)
(* to similar contracts that it may have, or there are more profiles than    *)
(* one query reads.                                                          *)
SimilarLinked ==
  \A d1, d2 \in Recorded \cap Deployments :
    /\ Subject[d1] # Subject[d2]
    /\ Subject[d1] \in Similar[d2]
    /\ Subject[d2] \in Similar[d1]
    => \/ <<Subject[d1], Subject[d2]>> \in edges
       \/ <<Subject[d2], Subject[d1]>> \in edges
       \/ Cardinality(SimilarTies(d1)) >= SimilarLimit
       \/ Cardinality(SimilarTies(d2)) >= SimilarLimit
       \/ Cardinality(profiles) > RowLimit

(* With one scanner the cursor never goes back, even when an endpoint shows  *)
(* an older head than the cycle before (scan).                               *)
CursorMonotone == [][cursor' >= cursor]_vars

Working(e) == \E p \in Scanners : item[p] = e

(* A stored deployment of a block the cursor has passed has been reported,   *)
(* unless a scanner is still working on it (_process_deployment).            *)
DeploymentsReported ==
  \A d \in Deployments :
    Subject[d] \in deployments /\ BlockOf[d] <= cursor =>
      \E e \in Deployments : Subject[e] = Subject[d] /\ (e \in Recorded \/ Working(e))

(* An event at or above the incident threshold, of a block the cursor has    *)
(* passed, has an incident unless a scanner is still working on it           *)
(* (_record_and_alert).                                                      *)
UrgentPromoted ==
  \A e \in Recorded :
    score[e] >= IncidentMin /\ BlockOf[e] <= cursor => e \in incidents \/ Working(e)

(* Until a cycle is cut short, two scanners leave nothing behind: whichever  *)
(* of them lost the race for a row, the other one reports and promotes it    *)
(* (_process_deployment, _record_and_alert).                                 *)
CompleteUnlessCut == failures = 0 => DeploymentsReported /\ UrgentPromoted

(* Whatever the retries, crashes and concurrent scanners do, the tables      *)
(* behave like the ledger of cases (add_event, open_incident, mark_alerted). *)
Ledger == INSTANCE CaseLedger WITH recorded <- Recorded
LedgerSpec == Ledger!Spec

(* Confirmed blocks are processed however long Telegram is down: delivery    *)
(* does not control the cursor (scan, _flush_alerts).                        *)
CatchesUp ==
  \A n \in 0..MaxHead : (head - MaxLag >= n + Confirmations) ~> (cursor >= n)

(* After the failures are over the service reports itself healthy again      *)
(* (_scan_once).                                                             *)
Recovers == <>[](heartbeat = "ok")

(* Every eligible event is alerted in the end, if Telegram does not refuse   *)
(* it for ever: a failed delivery is retried by a later cycle.               *)
EligibleAlerted ==
  Delivering => \A e \in Events : (rowid[e] > 0 /\ Sendable(e)) ~> (e \in alerted)
=============================================================================
