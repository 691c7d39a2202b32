--------------------------- MODULE Investigation ---------------------------
(***************************************************************************)
(* `white-radar investigate --single-transaction`: investigate_transaction *)
(* gathers the evidence about one confirmed transaction through the RPC    *)
(* client, and write_case_bundle stores the case.                          *)
(*                                                                         *)
(* The reads are separate calls, and every call may be answered by another *)
(* endpoint or after a reorganisation.  An endpoint's view is a branch of  *)
(* the chain that contains the transaction (a block, an execution with its *)
(* own status, frames and logs), or Pending, or Unknown.  The code         *)
(* compares the block hashes of the first three reads; the evidence read   *)
(* after them is taken from whichever branch the endpoint follows then.    *)
(*                                                                         *)
(* A frame of a call trace is named by its path: <<0>> is the root,        *)
(* <<0, 2>> its third child.                                               *)
(***************************************************************************)
EXTENDS RpcFailover, CaseBundle, SequencesExt

CONSTANTS Branches, Pending, Unknown,
          Number,           \* the block number of the transaction on a branch
          Status,           \* "succeeded", "reverted" or "unknown"
          Frames,           \* Frames[b]: path -> frame of the call trace
          Logs,             \* Logs[b]: the receipt's logs
          Slots,            \* Slots[b]: changed slots of each changed account
          Addresses,
          Options,          \* settings of --no-trace, --no-state-diff, ...
          MaxFrames, MaxLogs, MaxTransfers, MaxEntities, MaxAccounts, MaxSlots,
          MaxReorgs         \* bound: changes of an endpoint's view

Root == <<0>>
Views == Branches \cup {Pending, Unknown}
CallTypes == {"CALL", "CREATE", "DELEGATECALL", "STATICCALL", "SELFDESTRUCT"}
Frame == [from : Addresses, to : Addresses, type : CallTypes,
          value : BOOLEAN, fails : BOOLEAN]

(* A log with the transfers it records; an absent operator is the sender.   *)
(* The decoder reads it, tells that it cannot (ERC-1155 data that does not  *)
(* decode, arrays of unequal length), or passes over it without a word (a   *)
(* Transfer with missing or unindexed ends or short data, an ERC-1155 log   *)
(* without its topics).                                                     *)
Fates == {"read", "told", "passed"}
LogEntry == [address : Addresses, from : Addresses, to : Addresses, operator : Addresses,
             items : Nat, fate : Fates]

(* q is p or an ancestor of p. *)
Above(q, p) == Len(q) <= Len(p) /\ \A i \in 1 .. Len(q) : q[i] = p[i]
Children(b, p) == {c \in DOMAIN Frames[b] : Len(c) = Len(p) + 1 /\ Above(p, c)}

(* A trace is a tree: every frame hangs on the root, and the children of a  *)
(* frame are numbered from 0.                                               *)
ASSUME TraceAssumption ==
  \A b \in Branches :
    /\ DOMAIN Frames[b] \subseteq Seq(Nat) /\ IsFiniteSet(DOMAIN Frames[b])
    /\ \A p \in DOMAIN Frames[b] : Frames[b][p] \in Frame
    /\ Root \in DOMAIN Frames[b]
    /\ \A p \in DOMAIN Frames[b] :
         /\ Len(p) > 0 /\ Above(Root, p)
         /\ Len(p) > 1 => SubSeq(p, 1, Len(p) - 1) \in DOMAIN Frames[b]
         /\ Children(b, p) = {Append(p, i - 1) : i \in 1 .. Cardinality(Children(b, p))}

(* The transaction is the same on every branch, and calls a contract. *)
ASSUME TransactionAssumption ==
  \A b, c \in Branches :
    /\ Frames[b][Root].type = "CALL"
    /\ Status[b] # "unknown" => Frames[b][Root].fails = (Status[b] = "reverted")
    /\ \A field \in {"from", "to", "value"} : Frames[b][Root][field] = Frames[c][Root][field]

ASSUME InvestigationAssumption ==
  /\ Pending \notin Branches /\ Unknown \notin Branches /\ Pending # Unknown
  /\ Number \in [Branches -> Nat]
  /\ Status \in [Branches -> {"succeeded", "reverted", "unknown"}]
  /\ Methods = {"chain_id", "transaction", "receipt", "block", "proxy", "trace",
                "state_diff", "code", "parent", "replay", "metadata"}
  /\ Options \subseteq [trace : BOOLEAN, diff : BOOLEAN, replay : BOOLEAN, overwrite : BOOLEAN]
  /\ MaxFrames \in Nat \ {0} /\ MaxReorgs \in Nat
  /\ Logs \in [Branches -> Seq(LogEntry)] /\ Slots \in [Branches -> Seq(Nat)]
  /\ {MaxLogs, MaxTransfers, MaxAccounts, MaxSlots} \subseteq Nat

VARIABLES step,        \* where the command is
          run,         \* the number of this run of the command
          opts,        \* its options
          ev,          \* the view each piece of evidence was read from
          stack,       \* _flatten_trace: paths to visit, the next one first
          kept,        \* _flatten_trace: frames, in order
          truncated,   \* _flatten_trace: whether frames were left out
          entities,    \* addresses of the entity inventory
          warnings,
          view,        \* environment: the view of each endpoint
          reorgs       \* environment: changes of views so far

caseVars == <<ev, stack, kept, truncated, entities, warnings>>
vars == <<rpcVars, bundleVars, step, run, opts, caseVars, view, reorgs>>

Gaps == {"logs", "proxy", "trace", "frames", "state_diff", "diff_cut", "transfers",
         "decode", "inconsistent", "entities", "replay", "mismatch"}
Ended == {"done", "raised", "died"}
Steps == Methods \cup {"flatten", "entities", "write"} \cup Ended

NoEvidence == [tx |-> Unknown, receipt |-> Unknown, trace |-> Unknown,
               diff |-> Unknown, replay |-> "none"]

TypeOK ==
  /\ RpcTypeOK /\ BundleTypeOK
  /\ step \in Steps /\ run \in 1 .. MaxRuns /\ opts \in Options
  /\ ev \in [tx : Views, receipt : Branches \cup {Unknown},
             trace : Branches \cup {Unknown}, diff : Branches \cup {Unknown},
             replay : {"none", "succeeded", "reverted"}]
  /\ kept \in Seq(Seq(Nat)) /\ Len(kept) <= MaxFrames
  /\ stack \in Seq(Seq(Nat))
  /\ truncated \in BOOLEAN /\ entities \subseteq Addresses /\ warnings \subseteq Gaps
  /\ view \in [Endpoints -> Views] /\ reorgs \in 0 .. MaxReorgs
-----------------------------------------------------------------------------
(* What the case says, from the evidence read so far.                      *)

Kept == {kept[i] : i \in 1 .. Len(kept)}
TxStatus == IF ev.receipt \in Branches THEN Status[ev.receipt] ELSE "unknown"

(* Mutant: a frame judged by its own error alone. *)
EffectOfFrameAlone(p) ==
  CASE TxStatus = "reverted" \/ Frames[ev.trace][p].fails -> "attempted_reverted"
    [] TxStatus = "succeeded" /\ ~Frames[ev.trace][p].fails -> "committed"
    [] OTHER -> "unknown"

(* _classify_call_effects: a failed frame takes its whole subtree back. *)
Effect(p) ==
  LET failedAbove == \E q \in Kept : Frames[ev.trace][q].fails /\ Above(q, p)
  IN CASE TxStatus = "reverted" \/ failedAbove -> "attempted_reverted"
       [] TxStatus = "succeeded" /\ ~failedAbove -> "committed"
       [] OTHER -> "unknown"

ValueTypes == {"CALL", "CREATE", "SELFDESTRUCT"}
Pays(f) == f.value /\ f.type \in ValueTypes

(* _native_transfers: from the frames, or from the transaction itself when *)
(* there is no trace.                                                      *)
NativeTransfers ==
  IF kept # <<>>
  THEN {[path |-> p, effect |-> Effect(p)] :
          p \in {q \in Kept : Pays(Frames[ev.trace][q])}}
  ELSE {[path |-> p, effect |-> CASE TxStatus = "succeeded" -> "committed"
                                  [] TxStatus = "reverted" -> "attempted_reverted"
                                  [] OTHER -> "unknown"] :
          p \in {q \in {Root} : Frames[ev.receipt][q].value}}

Take(s, n) == SubSeq(s, 1, Min({n, Len(s)}))

KeptLogs == Take(Logs[ev.receipt], MaxLogs)

(* _transfers_from_logs, one log: it yields its items, a batch is cut at the  *)
(* limit, and the first log found at the limit ends the loop.                 *)
ReadLog(acc, l) ==
  LET room == MaxTransfers - acc.count
  IN CASE acc.over -> acc
       [] ~acc.over /\ room = 0 ->
            [acc EXCEPT !.notes = @ \cup {"transfers"}, !.over = TRUE]
       [] ~acc.over /\ room > 0 /\ l.fate = "told" ->
            [acc EXCEPT !.notes = @ \cup {"decode"}]
       [] ~acc.over /\ room > 0 /\ l.fate = "passed" -> acc
       [] OTHER ->
            [count |-> acc.count + Min({l.items, room}),
             logs  |-> IF l.items > 0 THEN Append(acc.logs, l) ELSE acc.logs,
             notes |-> acc.notes \cup (IF l.items > room THEN {"transfers"} ELSE {}),
             over  |-> l.items > room]

NoTransfers == [count |-> 0, logs |-> <<>>, notes |-> {}, over |-> FALSE]

Transferred == FoldLeft(ReadLog, NoTransfers, KeptLogs)

LogEffect == IF TxStatus = "succeeded" THEN "committed" ELSE "unknown"

(* parse_state_diff: accounts in order up to their limit, and of each the *)
(* changed slots that still fit.                                          *)
ReadAccount(acc, slots) ==
  LET room == MaxSlots - acc.count
  IN [acc EXCEPT !.count = @ + Min({slots, room}), !.cut = @ \/ slots > room]

StateDiff(b) == FoldLeft(ReadAccount, [count |-> 0, cut |-> Len(Slots[b]) > MaxAccounts],
                         Take(Slots[b], MaxAccounts))

(* _build_entities: the addresses in the order they are added. *)
Mentioned ==
  LET transaction == Frames[ev.receipt][Root]
      call_ends == [i \in 1 .. Len(kept) |-> <<Frames[ev.trace][kept[i]].from,
                                               Frames[ev.trace][kept[i]].to>>]
      emitters == [i \in 1 .. Len(KeptLogs) |-> KeptLogs[i].address]
      parties == [i \in 1 .. Len(Transferred.logs) |->
                    LET l == Transferred.logs[i] IN <<l.from, l.to, l.address, l.operator>>]
  IN <<transaction.from, transaction.to>> \o FlattenSeq(call_ends) \o emitters
       \o FlattenSeq(parties)

Admit(have, a) ==
  IF a \in have \/ Cardinality(have) < MaxEntities THEN have \cup {a} ELSE have

Inventory == FoldLeft(Admit, {}, Mentioned)

(* _build_relationships: the two ends of every frame and every transfer. *)
RelationEnds ==
  (UNION {{Frames[ev.trace][p].from, Frames[ev.trace][p].to} : p \in Kept})
    \cup (UNION {{Transferred.logs[i].from, Transferred.logs[i].to} :
                   i \in 1 .. Len(Transferred.logs)})

(* _build_findings, for the findings about execution and asset flow. *)
Findings ==
  {f \in {"transaction_reverted", "reverted_internal_calls", "delegated_execution",
          "contract_creation", "token_asset_flow", "native_asset_flow",
          "attempted_reverted_asset_flow", "state_changes_observed"} :
     CASE f = "transaction_reverted" -> TxStatus = "reverted"
       [] f = "reverted_internal_calls" -> \E p \in Kept : Frames[ev.trace][p].fails
       [] f = "delegated_execution" -> \E p \in Kept : Frames[ev.trace][p].type = "DELEGATECALL"
       [] f = "contract_creation" -> \E p \in Kept : Frames[ev.trace][p].type = "CREATE"
       [] f = "token_asset_flow" -> Transferred.count > 0 /\ LogEffect = "committed"
       [] f = "native_asset_flow" -> \E t \in NativeTransfers : t.effect = "committed"
       [] f = "attempted_reverted_asset_flow" ->
            \E t \in NativeTransfers : t.effect = "attempted_reverted"
       [] OTHER -> ev.diff \in Branches /\ Take(Slots[ev.diff], MaxAccounts) # <<>>}
-----------------------------------------------------------------------------
(* Control.                                                                 *)

(* The next call of the command. *)
Ask(m) == step' = m /\ Start(m) /\ UNCHANGED <<active, faults>>

(* The next step, when it is not a call. *)
Turn(s) == step' = s /\ UNCHANGED rpcVars

Warn(gaps) == warnings' = warnings \cup gaps

Init == /\ RpcInit /\ call.method = "chain_id"
        /\ BundleInit
        /\ step = "chain_id" /\ run = 1 /\ opts \in Options
        /\ ev = NoEvidence /\ stack = <<>> /\ kept = <<>> /\ truncated = FALSE
        /\ entities = {} /\ warnings = {}
        /\ view \in [Endpoints -> Views] /\ reorgs = 0

(* An attempt of the client; the command waits. *)
Wait == step \notin Ended /\ Attempt /\ UNCHANGED <<bundleVars, step, run, opts, caseVars, view, reorgs>>

(* The reads whose handler takes a ValueError for a refusal.  A body that is *)
(* not UTF-8 raises one; an answer that is cut raises what none handles.     *)
Lenient == {"proxy", "state_diff", "parent", "replay", "metadata"}

Answered(s) == step = s /\ call.outcome = "answered"
Denied(s) == step = s /\ (Refused \/ (call.outcome = "dropped" /\ s \in Lenient))
Seen == view[active]

(* _rpc_for_chain *)
TakeChainId == /\ Answered("chain_id")
               /\ Ask("transaction")
               /\ UNCHANGED caseVars

(* A mined receipt, at the height the transaction gave if it gave one. *)
SameHeight == /\ Seen \in Branches
              /\ ev.tx \in Branches => Number[ev.tx] = Number[Seen]

(* Mutant: heights compared instead of hashes. *)
SameBlockNumber == Seen \in Branches /\ Number[Seen] = Number[ev.receipt]

(* The block hashes agree: the block at the receipt's height has the        *)
(* receipt's hash only on the receipt's branch, and a pending transaction   *)
(* has none.                                                                *)
SameBlock == Seen = ev.receipt /\ ev.tx \in {Pending, ev.receipt}

(* An RpcError of the first calls, an answer that is dropped at any call, or *)
(* evidence that is missing or does not agree, ends the command.             *)
GiveUp == /\ \/ \E s \in {"chain_id", "transaction", "receipt", "block"} : Denied(s)
             \/ step \in Methods /\ call.outcome = "dropped"
             \/ Answered("transaction") /\ Seen = Unknown
             \/ Answered("receipt") /\ ~SameHeight
             \/ Answered("block") /\ ~SameBlock
          /\ Turn("raised")
          /\ UNCHANGED caseVars

TakeTransaction == /\ Answered("transaction") /\ Seen # Unknown
                   /\ ev' = [ev EXCEPT !.tx = Seen]
                   /\ Ask("receipt")
                   /\ UNCHANGED <<stack, kept, truncated, entities, warnings>>

TakeReceipt == /\ Answered("receipt") /\ SameHeight
               /\ ev' = [ev EXCEPT !.receipt = Seen]
               /\ Ask("block")
               /\ UNCHANGED <<stack, kept, truncated, entities, warnings>>

CapLogs == Warn(IF Len(Logs[ev.receipt]) > MaxLogs THEN {"logs"} ELSE {})

TakeBlock == /\ Answered("block") /\ SameBlock
             /\ CapLogs
             /\ Ask("proxy")
             /\ UNCHANGED <<ev, stack, kept, truncated, entities>>

AfterTrace == IF opts.diff THEN Ask("state_diff") ELSE Turn("entities")
AfterProxy == IF opts.trace THEN Ask("trace") ELSE AfterTrace

(* inspect_proxy at the block of the receipt; its calls are taken as one. *)
TakeProxy == /\ \/ Answered("proxy") /\ UNCHANGED warnings
                \/ Denied("proxy") /\ Warn({"proxy"})
             /\ AfterProxy
             /\ UNCHANGED <<ev, stack, kept, truncated, entities>>

TakeTrace == /\ Answered("trace") /\ Seen \in Branches
             /\ ev' = [ev EXCEPT !.trace = Seen]
             /\ stack' = <<Root>>
             /\ Turn("flatten")
             /\ UNCHANGED <<kept, truncated, entities, warnings>>

NoTrace == /\ Denied("trace") \/ (Answered("trace") /\ Seen \notin Branches)
           /\ Warn({"trace"})
           /\ AfterTrace
           /\ UNCHANGED <<ev, stack, kept, truncated, entities>>

ChildPaths(p) == [i \in 1 .. Cardinality(Children(ev.trace, p)) |-> Append(p, i - 1)]

(* Mutant: the children queued behind the frames that wait. *)
VisitBreadthFirst ==
  /\ step = "flatten" /\ stack # <<>>
  /\ IF Len(kept) >= MaxFrames
     THEN truncated' = TRUE /\ stack' = <<>> /\ UNCHANGED kept
     ELSE /\ kept' = Append(kept, Head(stack))
          /\ stack' = Tail(stack) \o ChildPaths(Head(stack))
          /\ UNCHANGED truncated
  /\ UNCHANGED <<rpcVars, step, ev, entities, warnings>>

(* One turn of the loop of _flatten_trace; the first child is on top. *)
Visit ==
  /\ step = "flatten" /\ stack # <<>>
  /\ IF Len(kept) >= MaxFrames
     THEN truncated' = TRUE /\ stack' = <<>> /\ UNCHANGED kept
     ELSE /\ kept' = Append(kept, Head(stack))
          /\ stack' = ChildPaths(Head(stack)) \o Tail(stack)
          /\ UNCHANGED truncated
  /\ UNCHANGED <<rpcVars, step, ev, entities, warnings>>

Flattened == /\ step = "flatten" /\ stack = <<>>
             /\ Warn(IF truncated THEN {"frames"} ELSE {})
             /\ AfterTrace
             /\ UNCHANGED <<ev, stack, kept, truncated, entities>>

TakeStateDiff == /\ Answered("state_diff") /\ Seen \in Branches
                 /\ ev' = [ev EXCEPT !.diff = Seen]
                 /\ Warn(IF StateDiff(Seen).cut THEN {"diff_cut"} ELSE {})
                 /\ Turn("entities")
                 /\ UNCHANGED <<stack, kept, truncated, entities>>

NoStateDiff == /\ Denied("state_diff") \/ (Answered("state_diff") /\ Seen \notin Branches)
               /\ Warn({"state_diff"})
               /\ Turn("entities")
               /\ UNCHANGED <<ev, stack, kept, truncated, entities>>

Inconsistent == IF Logs[ev.receipt] # <<>> /\ TxStatus = "reverted"
                THEN {"inconsistent"} ELSE {}

(* Mutant: the entity limit reached without a warning. *)
QuietEntities == /\ step = "entities"
                 /\ entities' = Inventory
                 /\ Warn(Transferred.notes \cup Inconsistent)
                 /\ Ask("code")
                 /\ UNCHANGED <<ev, stack, kept, truncated>>

(* Transfers, then entities; relationships and findings follow from them. *)
BuildEntities ==
  /\ step = "entities"
  /\ entities' = Inventory
  /\ Warn(Transferred.notes \cup Inconsistent
            \cup (IF \E i \in 1 .. Len(Mentioned) : Mentioned[i] \notin Inventory
                  THEN {"entities"} ELSE {}))
  /\ Ask("code")
  /\ UNCHANGED <<ev, stack, kept, truncated>>

(* The code lookups of _build_entities, taken as one: a failed one leaves the *)
(* entity's kind unknown.                                                     *)
TakeCode == /\ Answered("code") \/ Denied("code")
            /\ Ask(IF opts.replay /\ Number[ev.receipt] > 0 THEN "parent" ELSE "metadata")
            /\ UNCHANGED caseVars

(* simulate_transaction at the block before: its block, then eth_call. *)
TakeParent == /\ Answered("parent")
              /\ Ask("replay")
              /\ UNCHANGED caseVars

NoParent == /\ Denied("parent")
            /\ Warn({"replay"})
            /\ Ask("metadata")
            /\ UNCHANGED <<ev, stack, kept, truncated, entities>>

(* Every RpcError or ValueError of eth_call counts as a revert. *)
TakeReplay ==
  /\ Answered("replay") \/ Denied("replay")
  /\ ev' = [ev EXCEPT !.replay = IF Denied("replay") THEN "reverted" ELSE "succeeded"]
  /\ Warn(IF Denied("replay") /\ TxStatus = "succeeded" THEN {"mismatch"} ELSE {})
  /\ Ask("metadata")
  /\ UNCHANGED <<stack, kept, truncated, entities>>

(* TokenMetadataResolver.enrich_case: failures leave symbols and decimals out. *)
TakeMetadata == /\ Answered("metadata") \/ Denied("metadata")
                /\ Turn("write")
                /\ UNCHANGED caseVars
-----------------------------------------------------------------------------
(* The bundle.                                                              *)

(* Files of an earlier bundle are kept unless --overwrite was given. *)
RefuseOverwrite == /\ step = "write" /\ written = 0
                   /\ Existing /\ ~opts.overwrite
                   /\ Turn("raised")
                   /\ UNCHANGED <<bundleVars, caseVars>>

Write == /\ step = "write"
         /\ written = 0 => ~Existing \/ opts.overwrite
         /\ \/ WriteFile(run) /\ UNCHANGED step
            \/ WriteManifest(run) /\ step' = "done"
         /\ UNCHANGED <<rpcVars, caseVars>>

(* A process starts with nothing in memory. *)
Forget == /\ NewClient("chain_id")
          /\ ev' = NoEvidence /\ stack' = <<>> /\ kept' = <<>> /\ truncated' = FALSE
          /\ entities' = {} /\ warnings' = {}

(* The process is killed, in the middle of a write too. *)
Die == /\ step \notin Ended
       /\ \/ UNCHANGED bundleVars
          \/ step = "write" /\ (written = 0 => ~Existing \/ opts.overwrite) /\ TearWrite
       /\ step' = "died"
       /\ Forget
       /\ UNCHANGED <<run, opts, view, reorgs>>

(* The operator runs the command again, into the same directory. *)
RunAgain == /\ step \in Ended /\ run < MaxRuns
            /\ run' = run + 1 /\ opts' \in Options
            /\ step' = "chain_id" /\ written' = 0
            /\ Forget
            /\ UNCHANGED <<files, manifest, view, reorgs>>

(* An endpoint learns of the transaction, sees it mined, or follows another *)
(* branch.  Nothing is read between two calls, so it is enough that this    *)
(* happens while a call is open.                                            *)
Reorg == /\ Open /\ step \notin Ended /\ reorgs < MaxReorgs
         /\ \E e \in Endpoints, v \in Views \ {Unknown} :
              v # view[e] /\ view' = [view EXCEPT ![e] = v]
         /\ reorgs' = reorgs + 1
         /\ UNCHANGED <<rpcVars, bundleVars, step, run, opts, caseVars>>

Gather == /\ \/ TakeChainId \/ GiveUp \/ TakeTransaction \/ TakeReceipt \/ TakeBlock
             \/ TakeProxy \/ TakeTrace \/ NoTrace \/ Visit \/ Flattened
             \/ TakeStateDiff \/ NoStateDiff \/ BuildEntities
             \/ TakeCode \/ TakeParent \/ NoParent \/ TakeReplay \/ TakeMetadata
          /\ UNCHANGED <<bundleVars, run, opts, view, reorgs>>

Store == (RefuseOverwrite \/ Write) /\ UNCHANGED <<run, opts, view, reorgs>>

Proceed == Wait \/ Gather \/ Store

Next == Proceed \/ Die \/ RunAgain \/ Reorg

Spec == Init /\ [][Next]_vars
-----------------------------------------------------------------------------
(* What the case must get right.                                            *)

Assembled == step \in {"code", "parent", "replay", "metadata", "write", "done"}

(* On branch b the value of frame p really changed hands. *)
Moved(b, p) == /\ Pays(Frames[b][p]) /\ Status[b] # "reverted"
               /\ \A q \in DOMAIN Frames[b] : Above(q, p) => ~Frames[b][q].fails

(* The frames in the order execution entered them: a parent before its       *)
(* children, a child and all below it before the next child.                 *)
Before(p, q) == \/ Above(p, q) /\ p # q
                \/ \E i \in 1 .. Min({Len(p), Len(q)}) :
                     p[i] < q[i] /\ \A j \in 1 .. i - 1 : p[j] = q[j]

(* _classify_call_effects never presents as committed a native transfer that *)
(* was rolled back, although it only knows the frames that _flatten_trace    *)
(* kept and takes the status from another call than the frames; and when     *)
(* both come from one branch, no kept transfer that moved value is missed.   *)
(* No case reports a reverted transaction and a committed asset flow.        *)
EffectsTrue ==
  Assembled =>
    LET source == IF kept # <<>> THEN ev.trace ELSE ev.receipt
    IN /\ \A t \in NativeTransfers : t.effect = "committed" => Moved(source, t.path)
       /\ ev.trace = ev.receipt /\ TxStatus # "unknown" =>
            \A p \in Kept : Moved(source, p) =>
                            [path |-> p, effect |-> "committed"] \in NativeTransfers
       /\ "transaction_reverted" \in Findings =>
            {"token_asset_flow", "native_asset_flow"} \cap Findings = {}

(* _flatten_trace cuts the trace where execution stood, not somewhere else:  *)
(* nothing it left out was entered before a frame it kept, each frame is     *)
(* kept once, and the cut is reported exactly when something was left out.   *)
KeptIsPreorder ==
  Assembled /\ ev.trace \in Branches =>
    LET dropped == DOMAIN Frames[ev.trace] \ Kept
    IN /\ \A i, j \in 1 .. Len(kept) : i < j => Before(kept[i], kept[j])
       /\ \A p \in Kept, q \in dropped : Before(p, q)
       /\ dropped # {} <=> "frames" \in warnings

(* The number of transfers the receipt's logs record, without the logs that *)
(* the decoder passes over.                                                 *)
AddItems(n, l) == n + IF l.fate = "passed" THEN 0 ELSE l.items
Recorded == FoldLeft(AddItems, 0, Logs[ev.receipt])

(* The number of slots that changed on branch b. *)
AddSlots(n, slots) == n + slots
ChangedSlots(b) == FoldLeft(AddSlots, 0, Slots[b])

(* "Never silently converts missing evidence": whatever a finished case       *)
(* lacks of the trace, the state diff, the receipt's transfers, the entities  *)
(* or the replay that was asked for, one of its warnings tells.  Transfer     *)
(* logs of a shape that _transfers_from_logs passes over do not count.        *)
GapsTold ==
  step \in {"write", "done"} =>
    /\ opts.trace /\ ev.trace = Unknown => "trace" \in warnings
    /\ opts.diff => \/ {"state_diff", "diff_cut"} \cap warnings # {}
                    \/ /\ ev.diff \in Branches /\ Len(Slots[ev.diff]) <= MaxAccounts
                       /\ StateDiff(ev.diff).count = ChangedSlots(ev.diff)
    /\ \/ Transferred.count = Recorded
       \/ {"logs", "transfers", "decode"} \cap warnings # {}
    /\ "entities" \notin warnings =>
         RelationEnds \cup {KeptLogs[i].address : i \in 1 .. Len(KeptLogs)} \subseteq entities
    /\ opts.replay /\ Number[ev.receipt] > 0 /\ ev.replay = "none" => "replay" \in warnings

(* The transaction, the receipt and the block of a case are of one branch,   *)
(* although three calls read them and any endpoint may answer each, before   *)
(* or after a reorganisation.                                                *)
OneView == step \notin {"chain_id", "transaction", "receipt", "block", "raised", "died"} =>
             ev.receipt \in Branches /\ ev.tx \in {Pending, ev.receipt}
=============================================================================
