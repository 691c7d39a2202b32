----------------------- MODULE Investigation_proofs -----------------------
(* Proofs about Investigation, for any trace, any number of endpoints, any *)
(* limits and any list of files.                                           *)
EXTENDS Investigation, FiniteSetTheorems, SequenceTheorems, WellFoundedInduction, TLAPS

-----------------------------------------------------------------------------
(* The JSON-RPC client: RpcFailover by itself, for any number of endpoints *)
(* and retries.                                                            *)

(* The endpoints a call has given up: the first n from the active one on. *)
Tried(n) == {(active + i) % EndpointCount : i \in 0 .. n - 1}

RpcInv == /\ RpcTypeOK
          /\ Open => failed = Tried(call.offset) /\ Cardinality(failed) = call.offset
          /\ call.outcome = "failed" => failed = Endpoints

(* Arithmetic of one turn around the endpoints. *)
LEMMA WithinTurn == ASSUME NEW N \in Nat, N > 0, NEW k \in Nat, k < N PROVE k % N = k
  OBVIOUS

LEMMA SecondTurn ==
  ASSUME NEW N \in Nat, N > 0, NEW k \in Nat, k >= N, k < N + N PROVE k % N = k - N
  OBVIOUS

LEMMA OneTurn ==
  ASSUME NEW N \in Nat, N > 0, NEW x \in Nat, x < N, NEW i \in Nat, i < N
  PROVE  (x + i) % N = IF x + i < N THEN x + i ELSE x + i - N
<1>1. x + i \in Nat /\ x + i < N + N OBVIOUS
<1>2. CASE x + i < N BY <1>1, <1>2, WithinTurn
<1>3. CASE x + i >= N BY <1>1, <1>3, SecondTurn
<1>4. QED BY <1>1, <1>2, <1>3

LEMMA EndpointNumbers ==
  /\ EndpointCount \in Nat /\ EndpointCount > 0
  /\ \A x \in Endpoints : x \in Nat /\ x < EndpointCount
  BY EndpointsAssumption DEF Endpoints

(* An offset leads to an endpoint, and two offsets to two endpoints. *)
LEMMA OffsetLeads ==
  ASSUME NEW x \in Endpoints, NEW i \in Endpoints
  PROVE  (x + i) % EndpointCount \in Endpoints
<1> DEFINE N == EndpointCount
<1>1. /\ N \in Nat /\ N > 0 /\ x \in Nat /\ x < N /\ i \in Nat /\ i < N
  BY EndpointNumbers
<1>2. (x + i) % N = IF x + i < N THEN x + i ELSE x + i - N BY <1>1, OneTurn
<1>3. (x + i) % N \in 0 .. N - 1 BY <1>1, <1>2
<1>4. QED BY <1>3 DEF Endpoints

LEMMA OffsetsDiffer ==
  ASSUME NEW x \in Endpoints, NEW i \in Endpoints, NEW j \in Endpoints, i # j
  PROVE  (x + i) % EndpointCount # (x + j) % EndpointCount
<1> DEFINE N == EndpointCount
<1>1. /\ N \in Nat /\ N > 0 /\ x \in Nat /\ x < N
      /\ i \in Nat /\ i < N /\ j \in Nat /\ j < N
  BY EndpointNumbers
<1>2. (x + i) % N = IF x + i < N THEN x + i ELSE x + i - N BY <1>1, OneTurn
<1>3. (x + j) % N = IF x + j < N THEN x + j ELSE x + j - N BY <1>1, OneTurn
<1>4. (x + i) % N # (x + j) % N BY <1>1, <1>2, <1>3
<1>5. QED BY <1>4

(* Every endpoint is at some offset from the active one. *)
LEMMA TurnCoversAll ==
  ASSUME NEW x \in Endpoints
  PROVE  {(x + i) % EndpointCount : i \in 0 .. EndpointCount - 1} = Endpoints
<1> DEFINE N == EndpointCount
<1>1. N \in Nat /\ N > 0 /\ x \in Nat /\ x < N BY EndpointNumbers
<1>2. ASSUME NEW e \in Endpoints PROVE \E i \in 0 .. N - 1 : (x + i) % N = e
  <2>1. e \in Nat /\ e < N BY EndpointNumbers
  <2>2. CASE e >= x
    <3>1. e - x \in Nat /\ e - x < N BY <1>1, <2>1, <2>2
    <3>2. (x + (e - x)) % N = e BY <1>1, <2>1, <2>2, <3>1, OneTurn
    <3>3. e - x \in 0 .. N - 1 BY <1>1, <3>1
    <3>4. QED BY <3>2, <3>3
  <2>3. CASE e < x
    <3>1. e + N - x \in Nat /\ e + N - x < N BY <1>1, <2>1, <2>3
    <3>2. (x + (e + N - x)) % N = IF x + (e + N - x) < N THEN x + (e + N - x)
                                  ELSE x + (e + N - x) - N
      BY <1>1, <3>1, OneTurn
    <3>3. (x + (e + N - x)) % N = e BY <1>1, <2>1, <2>3, <3>2
    <3>4. e + N - x \in 0 .. N - 1 BY <1>1, <3>1
    <3>5. QED BY <3>3, <3>4
  <2>4. QED BY <1>1, <2>1, <2>2, <2>3
<1>3. ASSUME NEW i \in 0 .. N - 1 PROVE (x + i) % N \in Endpoints
  BY <1>1, OffsetLeads DEF Endpoints
<1>4. QED BY <1>2, <1>3

(* While a call is open its endpoint is one it has not given up. *)
LEMMA EndpointIsFresh ==
  ASSUME RpcInv, Open
  PROVE  Endpoint \in Endpoints \ failed
<1>1. active \in Endpoints /\ call.offset \in Endpoints BY DEF RpcInv, RpcTypeOK
<1>2. Endpoint \in Endpoints BY <1>1, OffsetLeads DEF Endpoint
<1>3. ASSUME NEW i \in 0 .. call.offset - 1
      PROVE  (active + i) % EndpointCount # Endpoint
  <2>1. i \in Endpoints /\ i # call.offset BY <1>1, EndpointNumbers DEF Endpoints
  <2>2. QED BY <1>1, <2>1, OffsetsDiffer DEF Endpoint
<1>4. Endpoint \notin Tried(call.offset) BY <1>3 DEF Tried
<1>5. QED BY <1>2, <1>4 DEF RpcInv

(* Giving an endpoint up: one more is tried, and all are when none is left. *)
LEMMA NextUrlKeeps ==
  ASSUME RpcInv, Open, NextUrl, faults' \in 0 .. MaxFaults
  PROVE  RpcInv'
<1> DEFINE N == EndpointCount
           x == active
           n == call.offset
<1>1. /\ N \in Nat /\ N > 0 /\ x \in Endpoints /\ n \in Endpoints
      /\ n \in Nat /\ n < N
  BY EndpointNumbers DEF RpcInv, RpcTypeOK
<1>2. Endpoint \in Endpoints \ failed BY EndpointIsFresh
<1>3. active' = active BY DEF NextUrl
<1>4. failed' = {(x + i) % N : i \in 0 .. n}
  <2>1. failed' = {(x + i) % N : i \in 0 .. n - 1} \cup {(x + n) % N}
    BY DEF NextUrl, RpcInv, Tried, Endpoint
  <2>2. 0 .. n = (0 .. n - 1) \cup {n} BY <1>1
  <2>3. QED BY <2>1, <2>2
<1>5. failed' \subseteq Endpoints BY <1>2 DEF NextUrl, RpcInv, RpcTypeOK
<1>6. Cardinality(failed') = n + 1
  <2>1. IsFiniteSet(Endpoints) BY <1>1, FS_Interval DEF Endpoints
  <2>2. IsFiniteSet(failed) BY <2>1, FS_Subset DEF RpcInv, RpcTypeOK
  <2>3. Cardinality(failed \cup {Endpoint}) = Cardinality(failed) + 1
    BY <1>2, <2>2, FS_AddElement
  <2>4. QED BY <2>3 DEF NextUrl, RpcInv
<1>7. CASE n + 1 < N
  <2>1. call' = [call EXCEPT !.offset = n + 1, !.attempt = 0] BY <1>7 DEF NextUrl
  <2>2. n + 1 \in Endpoints BY <1>1, <1>7 DEF Endpoints
  <2>3. /\ call' \in [method : Methods, offset : Endpoints, attempt : 0 .. Retries - 1,
                     outcome : Outcomes]
        /\ call'.offset = n + 1 /\ call'.outcome = "open"
    <3>1. 0 \in 0 .. Retries - 1 BY RetriesAssumption
    <3>2. call \in [method : Methods, offset : Endpoints, attempt : 0 .. Retries - 1,
                   outcome : Outcomes]
      BY DEF RpcInv, RpcTypeOK
    <3>3. call.outcome = "open" BY DEF Open
    <3>4. QED BY <2>1, <2>2, <3>1, <3>2, <3>3
  <2>4. failed' = Tried(call.offset)'
    <3>1. 0 .. n = 0 .. (n + 1) - 1 BY <1>1
    <3>2. QED BY <1>3, <1>4, <2>3, <3>1 DEF Tried
  <2>5. QED BY <1>1, <1>3, <1>5, <1>6, <2>3, <2>4 DEF RpcInv, RpcTypeOK, Open
<1>8. CASE ~(n + 1 < N)
  <2>1. call' = [call EXCEPT !.outcome = "failed"] BY <1>8 DEF NextUrl
  <2>2. /\ call' \in [method : Methods, offset : Endpoints, attempt : 0 .. Retries - 1,
                     outcome : Outcomes]
        /\ call'.outcome = "failed"
    BY <2>1 DEF RpcInv, RpcTypeOK, Outcomes
  <2>3. n = N - 1 BY <1>1, <1>8
  <2>4. failed' = Endpoints BY <1>1, <1>4, <2>3, TurnCoversAll
  <2>5. QED BY <1>1, <1>3, <1>5, <2>2, <2>4 DEF RpcInv, RpcTypeOK, Open
<1>9. QED BY <1>7, <1>8

(* A call raised, dropped or tried once more gives nothing up. *)
LEMMA RaiseKeeps ==
  ASSUME RpcInv, Raise \/ Drop, faults' \in 0 .. MaxFaults
  PROVE  RpcInv'
<1>1. /\ call' \in [method : Methods, offset : Endpoints, attempt : 0 .. Retries - 1,
                   outcome : Outcomes]
      /\ call'.outcome \in {"error", "dropped"}
  BY DEF Raise, Drop, RpcInv, RpcTypeOK, Outcomes
<1>2. QED BY <1>1 DEF Raise, Drop, RpcInv, RpcTypeOK, Open

LEMMA BrokenKeeps ==
  ASSUME RpcInv, Open, Broken, faults' \in 0 .. MaxFaults
  PROVE  RpcInv'
<1>1. CASE call.attempt + 1 < Retries
  <2>1. /\ call' = [call EXCEPT !.attempt = call.attempt + 1]
        /\ UNCHANGED <<active, failed>>
    BY <1>1 DEF Broken
  <2>2. call.attempt + 1 \in 0 .. Retries - 1
    BY <1>1, RetriesAssumption DEF RpcInv, RpcTypeOK
  <2>3. /\ call' \in [method : Methods, offset : Endpoints, attempt : 0 .. Retries - 1,
                     outcome : Outcomes]
        /\ call'.offset = call.offset /\ call'.outcome = call.outcome
    BY <2>1, <2>2 DEF RpcInv, RpcTypeOK
  <2>4. Tried(call.offset)' = Tried(call.offset) BY <2>1, <2>3 DEF Tried
  <2>5. QED BY <2>1, <2>3, <2>4 DEF RpcInv, RpcTypeOK, Open
<1>2. CASE ~(call.attempt + 1 < Retries) BY <1>2, NextUrlKeeps DEF Broken
<1>3. QED BY <1>1, <1>2

(* Every attempt keeps the invariant. *)
LEMMA AttemptKeeps ==
  ASSUME RpcInv, Attempt
  PROVE  RpcInv'
<1>1. faults \in 0 .. MaxFaults BY DEF RpcInv, RpcTypeOK
<1>2. CASE Answer
  <2>1. Endpoint \in Endpoints BY <1>2, EndpointIsFresh DEF Answer
  <2>2. /\ call' \in [method : Methods, offset : Endpoints, attempt : 0 .. Retries - 1,
                     outcome : Outcomes]
        /\ call'.outcome = "answered"
    BY <1>2 DEF Answer, RpcInv, RpcTypeOK, Outcomes
  <2>3. QED BY <1>2, <2>1, <2>2 DEF Answer, RpcInv, RpcTypeOK, Open
<1>3. CASE NoMethod
  <2>1. Open /\ faults' \in 0 .. MaxFaults BY <1>1, <1>3 DEF NoMethod
  <2>2. NextUrl \/ Raise BY <1>3 DEF NoMethod
  <2>3. QED BY <2>1, <2>2, NextUrlKeeps, RaiseKeeps
<1>4. CASE Revert
  <2>1. Raise /\ faults' \in 0 .. MaxFaults BY <1>1, <1>4 DEF Revert
  <2>2. QED BY <2>1, RaiseKeeps
<1>5. CASE Fault
  <2>1. Open /\ faults' \in 0 .. MaxFaults
    BY <1>1, <1>5, FaultsAssumption DEF Fault
  <2>2. Broken \/ NextUrl \/ Raise \/ Drop BY <1>5 DEF Fault
  <2>3. QED BY <2>1, <2>2, BrokenKeeps, NextUrlKeeps, RaiseKeeps
<1>6. QED BY <1>2, <1>3, <1>4, <1>5 DEF Attempt

(* A call that starts has given nothing up. *)
LEMMA StartKeeps ==
  ASSUME RpcInv, NEW m \in Methods, Start(m), active' \in Endpoints, UNCHANGED faults
  PROVE  RpcInv'
<1>1. 0 \in Endpoints /\ 0 \in 0 .. Retries - 1
  BY EndpointNumbers, RetriesAssumption DEF Endpoints
<1>2. /\ call' = [method |-> m, offset |-> 0, attempt |-> 0, outcome |-> "open"]
      /\ failed' = {}
  BY DEF Start
<1>3. call' \in [method : Methods, offset : Endpoints, attempt : 0 .. Retries - 1,
                outcome : Outcomes]
  BY <1>1, <1>2 DEF Outcomes
<1>4. call'.offset = 0 /\ call'.outcome = "open" BY <1>2
<1>5. Tried(call.offset)' = {} BY <1>4 DEF Tried
<1>6. Cardinality(failed') = 0 BY <1>2, FS_EmptySet
<1>7. QED BY <1>2, <1>3, <1>4, <1>5, <1>6 DEF RpcInv, RpcTypeOK, Open

LEMMA RpcInvInit == RpcInit => RpcInv
<1> SUFFICES ASSUME RpcInit PROVE RpcInv OBVIOUS
<1>1. 0 \in Endpoints /\ 0 \in 0 .. Retries - 1 /\ 0 \in 0 .. MaxFaults
  BY EndpointNumbers, RetriesAssumption, FaultsAssumption DEF Endpoints
<1>2. PICK m \in Methods :
        call = [method |-> m, offset |-> 0, attempt |-> 0, outcome |-> "open"]
  BY DEF RpcInit
<1>3. call \in [method : Methods, offset : Endpoints, attempt : 0 .. Retries - 1,
               outcome : Outcomes]
  BY <1>1, <1>2 DEF Outcomes
<1>4. call.offset = 0 /\ call.outcome = "open" BY <1>2
<1>5. failed = {} /\ Tried(call.offset) = {} BY <1>4 DEF Tried, RpcInit
<1>6. Cardinality(failed) = 0 BY <1>5, FS_EmptySet
<1>7. QED BY <1>1, <1>3, <1>4, <1>5, <1>6 DEF RpcInit, RpcInv, RpcTypeOK, Open

LEMMA RpcInvNext == RpcInv /\ [RpcNext]_rpcVars => RpcInv'
<1> SUFFICES ASSUME RpcInv, [RpcNext]_rpcVars PROVE RpcInv' OBVIOUS
<1>1. CASE Attempt BY <1>1, AttemptKeeps
<1>2. CASE UNCHANGED <<active, faults>> /\ \E m \in Methods : Start(m)
  <2>1. active' \in Endpoints BY <1>2 DEF RpcInv, RpcTypeOK
  <2>2. QED BY <1>2, <2>1, StartKeeps
<1>3. CASE \E m \in Methods : NewClient(m)
  <2>1. PICK m \in Methods : NewClient(m) BY <1>3
  <2>2. 0 \in Endpoints BY EndpointNumbers DEF Endpoints
  <2>3. QED BY <2>1, <2>2, StartKeeps DEF NewClient
<1>4. CASE UNCHANGED rpcVars
  BY <1>4 DEF rpcVars, RpcInv, RpcTypeOK, Open, Tried
<1>5. QED BY <1>1, <1>2, <1>3, <1>4 DEF RpcNext

LEMMA RpcInvImplies == RpcInv => FailoverCovers
<1> SUFFICES ASSUME RpcInv PROVE FailoverCovers OBVIOUS
<1>1. ASSUME Open PROVE Endpoint \notin failed /\ Cardinality(failed) = call.offset
  BY <1>1, EndpointIsFresh DEF RpcInv
<1>2. QED BY <1>1 DEF RpcInv, FailoverCovers

(* For any number of endpoints and retries, JsonRpcClient.call gives up only *)
(* after it has used every endpoint, and uses none twice in one call.  An    *)
(* answer that breaks off on its way is not a failure it handles: that call  *)
(* ends at once, with the endpoints after this one unused.                   *)
THEOREM FailoverCoversAll == RpcSpec => []FailoverCovers
<1>1. RpcSpec => []RpcInv BY RpcInvInit, RpcInvNext, PTL DEF RpcSpec
<1>2. QED BY <1>1, RpcInvImplies, PTL

-----------------------------------------------------------------------------
(* The command that calls it. *)

(* The steps between two calls: the last call has come back. *)
Between == {"flatten", "entities", "write"}

ClientInv == step \in Between => ~Open

(* Every action of the command, by what it does to the client. *)
LEMMA ClientSteps ==
  ASSUME ClientInv, [Next]_vars
  PROVE  \/ UNCHANGED rpcVars /\ (step' \in Between => step \in Between \/ ~Open)
         \/ Attempt /\ UNCHANGED step /\ step \notin Between
         \/ ~Open /\ UNCHANGED <<active, faults>> /\ step' \in Methods /\ Start(step')
         \/ step' \notin Between /\ NewClient("chain_id")
<1> USE DEF Answered, Denied, Refused, Open, Turn, Ask, Between, Ended
<1>m. {"transaction", "receipt", "block", "proxy", "trace", "state_diff", "code", "parent",
       "replay", "metadata"} \subseteq Methods
  BY InvestigationAssumption
<1>1. CASE Wait BY <1>1 DEF Wait, Attempt, Answer, NoMethod, Revert, Fault, ClientInv
<1>2. CASE Gather
  <2>1. CASE TakeChainId BY <2>1, <1>m DEF TakeChainId
  <2>2. CASE GiveUp BY <2>2 DEF GiveUp
  <2>3. CASE TakeTransaction BY <2>3, <1>m DEF TakeTransaction
  <2>4. CASE TakeReceipt BY <2>4, <1>m DEF TakeReceipt
  <2>5. CASE TakeBlock BY <2>5, <1>m DEF TakeBlock
  <2>6. CASE TakeProxy BY <2>6, <1>m DEF TakeProxy, AfterProxy, AfterTrace
  <2>7. CASE TakeTrace BY <2>7 DEF TakeTrace
  <2>8. CASE NoTrace BY <2>8, <1>m DEF NoTrace, AfterTrace
  <2>9. CASE Visit BY <2>9 DEF Visit
  <2>10. CASE Flattened BY <2>10, <1>m DEF Flattened, AfterTrace, ClientInv
  <2>11. CASE TakeStateDiff BY <2>11 DEF TakeStateDiff
  <2>12. CASE NoStateDiff BY <2>12 DEF NoStateDiff
  <2>13. CASE BuildEntities BY <2>13, <1>m DEF BuildEntities, ClientInv
  <2>14. CASE TakeCode BY <2>14, <1>m DEF TakeCode
  <2>15. CASE TakeParent BY <2>15, <1>m DEF TakeParent
  <2>16. CASE NoParent BY <2>16, <1>m DEF NoParent
  <2>17. CASE TakeReplay BY <2>17, <1>m DEF TakeReplay
  <2>18. CASE TakeMetadata BY <2>18 DEF TakeMetadata
  <2>19. QED
    BY <1>2, <2>1, <2>2, <2>3, <2>4, <2>5, <2>6, <2>7, <2>8, <2>9, <2>10, <2>11, <2>12,
       <2>13, <2>14, <2>15, <2>16, <2>17, <2>18 DEF Gather
<1>3. CASE Store BY <1>3 DEF Store, RefuseOverwrite, Write
<1>4. CASE Die BY <1>4 DEF Die, Forget
<1>5. CASE RunAgain BY <1>5 DEF RunAgain, Forget
<1>6. CASE Reorg BY <1>6 DEF Reorg
<1>7. CASE UNCHANGED vars BY <1>7 DEF vars
<1>8. QED BY <1>1, <1>2, <1>3, <1>4, <1>5, <1>6, <1>7 DEF Next, Proceed

LEMMA ClientInvInit == Init => ClientInv
  BY DEF Init, ClientInv, Between

LEMMA ClientInvNext == ClientInv /\ [Next]_vars => ClientInv'
<1> SUFFICES ASSUME ClientInv, [Next]_vars PROVE ClientInv' OBVIOUS
<1>1. CASE UNCHANGED rpcVars /\ (step' \in Between => step \in Between \/ ~Open)
  BY <1>1 DEF ClientInv, rpcVars, Open
<1>2. CASE UNCHANGED step /\ step \notin Between BY <1>2 DEF ClientInv
<1>3. CASE step' \in Methods BY <1>3, InvestigationAssumption DEF ClientInv, Between
<1>4. CASE step' \notin Between BY <1>4 DEF ClientInv
<1>5. QED BY <1>1, <1>2, <1>3, <1>4, ClientSteps

(* The command is a caller of the client: it starts a call only when the     *)
(* last one has come back, and leaves endpoint rotation and retries to it.   *)
THEOREM CommandUsesClient == Spec => RpcSpec
<1>1. Init => RpcInit BY DEF Init
<1>2. ASSUME ClientInv, [Next]_vars PROVE [RpcNext]_rpcVars
  <2>1. "chain_id" \in Methods BY InvestigationAssumption
  <2>2. CASE UNCHANGED rpcVars BY <2>2
  <2>3. CASE Attempt BY <2>3 DEF RpcNext
  <2>4. CASE ~Open /\ UNCHANGED <<active, faults>> /\ step' \in Methods /\ Start(step')
    BY <2>4 DEF RpcNext
  <2>5. CASE NewClient("chain_id") BY <2>1, <2>5 DEF RpcNext
  <2>6. QED BY <1>2, <2>2, <2>3, <2>4, <2>5, ClientSteps
<1>3. QED BY <1>1, <1>2, ClientInvInit, ClientInvNext, PTL DEF Spec, RpcSpec

(* In every run of the command, a call that gives up has used every endpoint *)
(* (JsonRpcClient.call); a dropped answer raises instead, see Drop.          *)
THEOREM CommandFailsOver == Spec => []FailoverCovers
  BY CommandUsesClient, FailoverCoversAll, PTL
-----------------------------------------------------------------------------
(* One view of the transaction. *)

Evidence == [tx : Views, receipt : Branches \cup {Unknown}, trace : Branches \cup {Unknown},
             diff : Branches \cup {Unknown}, replay : {"none", "succeeded", "reverted"}]

ViewInv == /\ view \in [Endpoints -> Views]
           /\ ev \in Evidence
           /\ step = "block" => ev.receipt \in Branches
           /\ OneView

LEMMA ViewInvInit == Init => ViewInv
<1>1. NoEvidence \in Evidence BY DEF NoEvidence, Evidence, Views
<1>2. QED BY <1>1 DEF Init, ViewInv, OneView

LEMMA SeenIsView ==
  ASSUME ViewInv, active \in Endpoints
  PROVE  Seen \in Views
  BY DEF ViewInv, Seen

(* After the three first reads only the trace, the state diff and the replay *)
(* are added to the evidence.                                                *)
LEMMA ViewInvNext == ViewInv /\ RpcTypeOK /\ [Next]_vars => ViewInv'
<1> SUFFICES ASSUME ViewInv, RpcTypeOK, [Next]_vars PROVE ViewInv' OBVIOUS
<1> USE DEF ViewInv, OneView, Turn, Ask, Evidence
<1>1. Seen \in Views BY SeenIsView DEF RpcTypeOK
<1>2. CASE Wait BY <1>2 DEF Wait, caseVars
<1>3. CASE Gather
  <2>1. view' = view BY <1>3 DEF Gather
  <2>2. CASE TakeChainId BY <2>1, <2>2 DEF TakeChainId, caseVars
  <2>3. CASE GiveUp BY <2>1, <2>3 DEF GiveUp, caseVars
  <2>4. CASE TakeTransaction BY <1>1, <2>1, <2>4 DEF TakeTransaction
  <2>5. CASE TakeReceipt BY <2>1, <2>5 DEF TakeReceipt, SameHeight
  <2>6. CASE TakeBlock BY <2>1, <2>6 DEF TakeBlock, SameBlock, Answered
  <2>7. CASE TakeProxy
    BY <2>1, <2>7 DEF TakeProxy, AfterProxy, AfterTrace, Answered, Denied
  <2>8. CASE TakeTrace BY <2>1, <2>8 DEF TakeTrace, Answered
  <2>9. CASE NoTrace BY <2>1, <2>9 DEF NoTrace, AfterTrace, Answered, Denied
  <2>10. CASE Visit BY <2>1, <2>10 DEF Visit
  <2>11. CASE Flattened BY <2>1, <2>11 DEF Flattened, AfterTrace
  <2>12. CASE TakeStateDiff BY <2>1, <2>12 DEF TakeStateDiff, Answered
  <2>13. CASE NoStateDiff BY <2>1, <2>13 DEF NoStateDiff, Answered, Denied
  <2>14. CASE BuildEntities BY <2>1, <2>14 DEF BuildEntities
  <2>15. CASE TakeCode BY <2>1, <2>15 DEF TakeCode, Answered, Denied, caseVars
  <2>16. CASE TakeParent BY <2>1, <2>16 DEF TakeParent, Answered, caseVars
  <2>17. CASE NoParent BY <2>1, <2>17 DEF NoParent, Denied
  <2>18. CASE TakeReplay BY <2>1, <2>18 DEF TakeReplay, Answered, Denied
  <2>19. CASE TakeMetadata BY <2>1, <2>19 DEF TakeMetadata, Answered, Denied, caseVars
  <2>20. QED
    BY <1>3, <2>2, <2>3, <2>4, <2>5, <2>6, <2>7, <2>8, <2>9, <2>10, <2>11, <2>12, <2>13,
       <2>14, <2>15, <2>16, <2>17, <2>18, <2>19 DEF Gather
<1>4. CASE Store BY <1>4 DEF Store, RefuseOverwrite, Write, caseVars
<1>5. CASE Die
  <2>1. NoEvidence \in Evidence BY DEF NoEvidence, Views
  <2>2. QED BY <1>5, <2>1 DEF Die, Forget
<1>6. CASE RunAgain
  <2>1. NoEvidence \in Evidence BY DEF NoEvidence, Views
  <2>2. QED BY <1>6, <2>1 DEF RunAgain, Forget
<1>7. CASE Reorg
  <2>1. view' \in [Endpoints -> Views] BY <1>7 DEF Reorg
  <2>2. QED BY <1>7, <2>1 DEF Reorg, caseVars
<1>8. CASE UNCHANGED vars BY <1>8 DEF vars, caseVars
<1>9. QED BY <1>2, <1>3, <1>4, <1>5, <1>6, <1>7, <1>8 DEF Next, Proceed

LEMMA ClientTyped == Spec => []RpcTypeOK
<1>1. RpcSpec => []RpcInv BY RpcInvInit, RpcInvNext, PTL DEF RpcSpec
<1>2. RpcInv => RpcTypeOK BY DEF RpcInv
<1>3. QED BY <1>1, <1>2, CommandUsesClient, PTL

LEMMA ViewsHold == Spec => []ViewInv
  BY ClientTyped, ViewInvInit, ViewInvNext, PTL DEF Spec

(* Whatever the endpoints do between the reads, a case's transaction,        *)
(* receipt and block are of one branch.                                      *)
THEOREM CaseHasOneView == Spec => []OneView
<1>1. ViewInv => OneView BY DEF ViewInv
<1>2. QED BY <1>1, ViewsHold, PTL
-----------------------------------------------------------------------------
(* The bundle. *)

(* The files a run has written are its own, and so are the hashes of a whole *)
(* manifest.                                                                 *)
BundleInv ==
  /\ DOMAIN files = Names
  /\ written \in 0 .. Len(BundleFiles)
  /\ step = "write" => \A i \in 1 .. written : files[BundleFiles[i]] = run
  /\ step \notin Ended \cup {"write"} => written = 0
  /\ manifest \in {Absent, Torn} \/ \A n \in Names : manifest.sha256[n] = manifest.id

LEMMA FileNames ==
  /\ Len(BundleFiles) \in Nat
  /\ \A i \in 1 .. Len(BundleFiles) : BundleFiles[i] \in Names
  /\ \A n \in Names : \E i \in 1 .. Len(BundleFiles) : BundleFiles[i] = n
<1>1. Len(BundleFiles) \in Nat BY BundleAssumption
<1>2. QED BY <1>1 DEF Names

LEMMA BundleInvInit == Init => BundleInv
<1> SUFFICES ASSUME Init PROVE BundleInv OBVIOUS
<1>1. /\ files = [n \in Names |-> Absent] /\ manifest = Absent /\ written = 0
      /\ step = "chain_id"
  BY DEF Init, BundleInit
<1>2. QED BY <1>1, FileNames DEF BundleInv

LEMMA BundleInvNext == BundleInv /\ [Next]_vars => BundleInv'
<1> SUFFICES ASSUME BundleInv, [Next]_vars PROVE BundleInv' OBVIOUS
<1>1. CASE UNCHANGED <<bundleVars, run>> /\ (step' = step \/ step' \in Ended)
  BY <1>1 DEF BundleInv, bundleVars, Ended
<1>2. CASE UNCHANGED <<bundleVars, run>> /\ step \notin Ended \cup {"write"}
  BY <1>2, FileNames DEF BundleInv, bundleVars
<1>3. CASE Write /\ WriteFile(run) /\ UNCHANGED <<step, run>>
  <2>1. /\ step = "write" /\ written < Len(BundleFiles) /\ written' = written + 1
        /\ files' = [files EXCEPT ![BundleFiles[written + 1]] = run]
        /\ UNCHANGED <<manifest, step, run>>
    BY <1>3 DEF Write, WriteFile, NextFile
  <2>2. written \in Nat /\ written' \in 0 .. Len(BundleFiles) BY <2>1, FileNames DEF BundleInv
  <2>3. ASSUME NEW i \in 1 .. written' PROVE files'[BundleFiles[i]] = run
    <3>1. i \in 1 .. Len(BundleFiles) BY <2>2, FileNames
    <3>2. BundleFiles[i] \in Names BY <3>1, FileNames
    <3>3. CASE i = written + 1 BY <2>1, <3>2, <3>3 DEF BundleInv
    <3>4. CASE i # written + 1
      <4>1. i \in 1 .. written BY <2>1, <2>2, <3>4
      <4>2. QED BY <2>1, <3>2, <4>1 DEF BundleInv
    <3>5. QED BY <3>3, <3>4
  <2>4. DOMAIN files' = Names BY <2>1 DEF BundleInv
  <2>5. QED BY <2>1, <2>2, <2>3, <2>4 DEF BundleInv
<1>4. CASE Write /\ WriteManifest(run) /\ step' = "done" /\ UNCHANGED run
  <2>1. /\ step = "write" /\ written = Len(BundleFiles)
        /\ manifest' = [id |-> run, sha256 |-> files] /\ UNCHANGED <<files, written>>
    BY <1>4 DEF Write, WriteManifest
  <2>2. ASSUME NEW n \in Names PROVE files[n] = run
    <3>1. PICK i \in 1 .. Len(BundleFiles) : BundleFiles[i] = n BY FileNames
    <3>2. QED BY <2>1, <3>1 DEF BundleInv
  <2>3. QED BY <1>4, <2>1, <2>2 DEF BundleInv, Ended
<1>5. CASE Die /\ TearWrite
  <2>1. step' = "died" BY <1>5 DEF Die
  <2>2. CASE written < Len(BundleFiles)
    BY <1>5, <2>1, <2>2 DEF TearWrite, BundleInv, Ended
  <2>3. CASE ~(written < Len(BundleFiles))
    BY <1>5, <2>1, <2>3 DEF TearWrite, BundleInv, Ended
  <2>4. QED BY <2>2, <2>3
<1>6. CASE RunAgain
  BY <1>6, FileNames DEF RunAgain, BundleInv
<1>7. Wait \/ Gather \/ Store \/ Die \/ RunAgain \/ Reorg \/ UNCHANGED vars
  BY DEF Next, Proceed
<1>8. CASE Wait BY <1>1, <1>8 DEF Wait
<1>9. CASE Gather
  <2>1. UNCHANGED <<bundleVars, run>> BY <1>9 DEF Gather
  <2>2. step \notin Ended \cup {"write"}
    BY <1>9, InvestigationAssumption DEF Gather, TakeChainId, GiveUp, TakeTransaction, TakeReceipt, TakeBlock, TakeProxy,
                TakeTrace, NoTrace, Visit, Flattened, TakeStateDiff, NoStateDiff, BuildEntities,
                TakeCode, TakeParent, NoParent, TakeReplay, TakeMetadata, Answered, Denied, Ended
  <2>3. QED BY <1>2, <2>1, <2>2
<1>10. CASE Store
  <2>1. CASE RefuseOverwrite BY <1>1, <1>10, <2>1 DEF Store, RefuseOverwrite, Turn, Ended
  <2>2. CASE Write BY <1>3, <1>4, <1>10, <2>2 DEF Store, Write
  <2>3. QED BY <1>10, <2>1, <2>2 DEF Store
<1>11. CASE Die BY <1>1, <1>5, <1>11 DEF Die, Ended
<1>12. CASE Reorg BY <1>1, <1>12 DEF Reorg
<1>13. CASE UNCHANGED vars BY <1>1, <1>13 DEF vars
<1>14. QED BY <1>6, <1>7, <1>8, <1>9, <1>10, <1>11, <1>12, <1>13

(* However many runs write into a directory one after another, and wherever  *)
(* they are killed, files that match the manifest are of one run.            *)
THEOREM BundleIsOneCase == Spec => []VerifiedIsOneCase
<1>1. BundleInv => VerifiedIsOneCase BY DEF BundleInv, VerifiedIsOneCase, Verifies
<1>2. QED BY <1>1, BundleInvInit, BundleInvNext, PTL DEF Spec
-----------------------------------------------------------------------------
(* Effects. *)

Paths == DOMAIN Frames[ev.trace]
Elements(s) == {s[i] : i \in 1 .. Len(s)}
Waiting == Elements(stack)

(* q is a proper ancestor of p. *)
ProperlyAbove(q, p) == Above(q, p) /\ q # p

(* _flatten_trace keeps a frame only after every frame above it: what is kept *)
(* or waiting has its whole chain of callers among the kept frames, so a cut  *)
(* never hides the failure that takes a kept frame back.                      *)
TraceInv ==
  /\ kept \in Seq(Seq(Nat)) /\ stack \in Seq(Seq(Nat))
  /\ kept # <<>> \/ stack # <<>> => ev.trace \in Branches
  /\ Kept \cup Waiting # {} => Kept \cup Waiting \subseteq Paths
  /\ \A p \in Kept \cup Waiting : \A q \in Paths : ProperlyAbove(q, p) => q \in Kept

(* Nothing is kept or waiting before the trace has been read. *)
Untraced == {"chain_id", "transaction", "receipt", "block", "proxy", "trace"}
EmptyInv == step \in Untraced => kept = <<>> /\ stack = <<>>

LEMMA ChildAncestors ==
  ASSUME NEW p \in Seq(Nat), NEW n \in Nat, NEW q \in Seq(Nat),
         ProperlyAbove(q, Append(p, n))
  PROVE  q = p \/ ProperlyAbove(q, p)
<1> DEFINE c == Append(p, n)
<1>1. Len(c) = Len(p) + 1 /\ \A i \in 1 .. Len(p) : c[i] = p[i] OBVIOUS
<1>2. Len(q) <= Len(c) /\ \A i \in 1 .. Len(q) : q[i] = c[i] BY DEF ProperlyAbove, Above
<1>3. Len(q) # Len(c)
  <2>1. SUFFICES ASSUME Len(q) = Len(c) PROVE q = c BY DEF ProperlyAbove
  <2>2. c \in Seq(Nat) OBVIOUS
  <2>3. QED BY <1>2, <2>1, <2>2
<1>4. Len(q) <= Len(p) /\ \A i \in 1 .. Len(q) : q[i] = p[i]
  BY <1>1, <1>2, <1>3
<1>5. Above(q, p) BY <1>4 DEF Above
<1>6. QED BY <1>5 DEF ProperlyAbove

(* The elements of a sequence after one turn of the loop. *)
LEMMA AppendElements ==
  ASSUME NEW S, NEW s \in Seq(S), NEW e \in S
  PROVE  Append(s, e) \in Seq(S) /\ Elements(Append(s, e)) = Elements(s) \cup {e}
<1>1. Len(Append(s, e)) = Len(s) + 1 /\ Len(s) \in Nat OBVIOUS
<1>2. \A i \in 1 .. Len(s) : Append(s, e)[i] = s[i] OBVIOUS
<1>3. Append(s, e)[Len(s) + 1] = e OBVIOUS
<1>4. 1 .. Len(s) + 1 = (1 .. Len(s)) \cup {Len(s) + 1} BY <1>1
<1>5. QED BY <1>1, <1>2, <1>3, <1>4 DEF Elements

(* The sequence t pushed in place of the first element of s. *)
LEMMA PushElement ==
  ASSUME NEW S, NEW s \in Seq(S), NEW t \in Seq(S), s # <<>>, NEW i \in 1 .. Len(t \o Tail(s))
  PROVE  IF i <= Len(t) THEN (t \o Tail(s))[i] = t[i]
                        ELSE /\ i - Len(t) + 1 \in 2 .. Len(s)
                             /\ (t \o Tail(s))[i] = s[i - Len(t) + 1]
<1>1. Len(s) \in Nat /\ Len(s) > 0 /\ Len(t) \in Nat OBVIOUS
<1>2. Tail(s) \in Seq(S) /\ Len(Tail(s)) = Len(s) - 1 OBVIOUS
<1>3. Len(t \o Tail(s)) = Len(t) + Len(s) - 1 BY <1>1, <1>2
<1>4. CASE i <= Len(t)
  <2>1. (t \o Tail(s))[i] = t[i] BY <1>1, <1>2, <1>4
  <2>2. QED BY <1>4, <2>1
<1>5. CASE ~(i <= Len(t))
  <2>1. i - Len(t) \in 1 .. Len(s) - 1 BY <1>1, <1>3, <1>5
  <2>2. (t \o Tail(s))[i] = Tail(s)[i - Len(t)] BY <1>1, <1>2, <1>3, <1>5
  <2>3. Tail(s)[i - Len(t)] = s[i - Len(t) + 1] BY <1>1, <2>1
  <2>4. i - Len(t) + 1 \in 2 .. Len(s) BY <1>1, <2>1
  <2>5. QED BY <1>5, <2>2, <2>3, <2>4
<1>6. QED BY <1>4, <1>5

LEMMA PushElements ==
  ASSUME NEW S, NEW s \in Seq(S), NEW t \in Seq(S), s # <<>>
  PROVE  /\ t \o Tail(s) \in Seq(S)
         /\ Head(s) = s[1] /\ Head(s) \in Elements(s) /\ Head(s) \in S
         /\ \A e \in Elements(t \o Tail(s)) : e \in Elements(t) \/ \E i \in 2 .. Len(s) : e = s[i]
         /\ \A i \in 1 .. Len(t) : t[i] \in Elements(t \o Tail(s))
         /\ \A i \in 2 .. Len(s) : s[i] \in Elements(t \o Tail(s))
<1>1. Len(s) \in Nat /\ Len(s) > 0 /\ Len(t) \in Nat OBVIOUS
<1>2. Head(s) = s[1] /\ 1 \in 1 .. Len(s) BY <1>1
<1>3. s[1] \in S BY <1>1
<1>4. Tail(s) \in Seq(S) /\ Len(Tail(s)) = Len(s) - 1 OBVIOUS
<1>5. t \o Tail(s) \in Seq(S) /\ Len(t \o Tail(s)) = Len(t) + Len(s) - 1 BY <1>1, <1>4
<1>6. ASSUME NEW i \in 1 .. Len(t \o Tail(s))
      PROVE  (t \o Tail(s))[i] \in Elements(t) \/ \E j \in 2 .. Len(s) : (t \o Tail(s))[i] = s[j]
  <2>1. CASE i <= Len(t)
    <3>1. (t \o Tail(s))[i] = t[i] /\ i \in 1 .. Len(t) BY <1>1, <1>5, <2>1, PushElement
    <3>2. QED BY <3>1 DEF Elements
  <2>2. CASE ~(i <= Len(t)) BY <2>2, PushElement
  <2>3. QED BY <2>1, <2>2
<1>7. ASSUME NEW i \in 1 .. Len(t) PROVE t[i] \in Elements(t \o Tail(s))
  <2>1. i \in 1 .. Len(t \o Tail(s)) /\ i <= Len(t) BY <1>1, <1>5
  <2>2. (t \o Tail(s))[i] = t[i] BY <2>1, PushElement
  <2>3. QED BY <2>1, <2>2 DEF Elements
<1>8. ASSUME NEW i \in 2 .. Len(s) PROVE s[i] \in Elements(t \o Tail(s))
  <2>1. i + Len(t) - 1 \in 1 .. Len(t \o Tail(s)) BY <1>1, <1>5
  <2>2. ~(i + Len(t) - 1 <= Len(t)) /\ (i + Len(t) - 1) - Len(t) + 1 = i BY <1>1
  <2>3. (t \o Tail(s))[i + Len(t) - 1] = s[i] BY <2>1, <2>2, PushElement
  <2>4. QED BY <2>1, <2>3 DEF Elements
<1>9. Head(s) \in Elements(s) /\ Head(s) \in S BY <1>2, <1>3 DEF Elements
<1>10. \A e \in Elements(t \o Tail(s)) : e \in Elements(t) \/ \E i \in 2 .. Len(s) : e = s[i]
  BY <1>6 DEF Elements
<1>11. QED BY <1>2, <1>5, <1>7, <1>8, <1>9, <1>10

LEMMA FunctionIsSeq ==
  ASSUME NEW S, NEW n \in Nat, NEW f \in [1 .. n -> S]
  PROVE  f \in Seq(S) /\ Len(f) = n
  OBVIOUS

(* The children of a frame are frames right below it. *)
LEMMA ChildrenBelow ==
  ASSUME ev.trace \in Branches, NEW p \in Paths
  PROVE  /\ p \in Seq(Nat) /\ ChildPaths(p) \in Seq(Seq(Nat))
         /\ \A i \in 1 .. Len(ChildPaths(p)) :
              /\ ChildPaths(p)[i] \in Paths
              /\ \E n \in Nat : ChildPaths(p)[i] = Append(p, n)
<1> DEFINE N == Cardinality(Children(ev.trace, p))
<1>1. p \in Seq(Nat) BY TraceAssumption DEF Paths
<1>2. N \in Nat
  <2>1. IsFiniteSet(Paths) /\ Children(ev.trace, p) \subseteq Paths
    BY TraceAssumption DEF Paths, Children
  <2>2. QED BY <2>1, FS_Subset, FS_CardinalityType
<1>3. Children(ev.trace, p) = {Append(p, i - 1) : i \in 1 .. N} BY TraceAssumption DEF Paths
<1>4. ChildPaths(p) = [i \in 1 .. N |-> Append(p, i - 1)] BY DEF ChildPaths
<1> HIDE DEF N
<1>5. \A i \in 1 .. N : i - 1 \in Nat /\ Append(p, i - 1) \in Seq(Nat) BY <1>1, <1>2
<1>6. ChildPaths(p) \in Seq(Seq(Nat)) /\ Len(ChildPaths(p)) = N
  <2>1. ChildPaths(p) \in [1 .. N -> Seq(Nat)] BY <1>4, <1>5
  <2>2. QED BY <1>2, <2>1, FunctionIsSeq
<1>7. ASSUME NEW i \in 1 .. N PROVE ChildPaths(p)[i] \in Paths
  <2>1. ChildPaths(p)[i] \in Children(ev.trace, p) BY <1>3, <1>4
  <2>2. QED BY <2>1 DEF Children, Paths
<1>8. QED BY <1>1, <1>4, <1>5, <1>6, <1>7

LEMMA VisitKeeps ==
  ASSUME TraceInv, Visit
  PROVE  TraceInv'
<1>1. stack # <<>> /\ ev' = ev BY DEF Visit
<1>2. ev.trace \in Branches /\ Paths' = Paths BY <1>1 DEF TraceInv, Paths
<1>3. CASE Len(kept) >= MaxFrames
  <2>1. kept' = kept /\ stack' = <<>> BY <1>3 DEF Visit
  <2>2. Kept' = Kept /\ Waiting' = {} BY <2>1 DEF Kept, Waiting, Elements
  <2>3. QED BY <1>1, <1>2, <2>1, <2>2 DEF TraceInv
<1>4. CASE ~(Len(kept) >= MaxFrames)
  <2> DEFINE p == Head(stack)
  <2>1. kept' = Append(kept, p) /\ stack' = ChildPaths(p) \o Tail(stack) BY <1>4 DEF Visit
  <2>2. stack \in Seq(Seq(Nat)) /\ kept \in Seq(Seq(Nat)) BY DEF TraceInv
  <2>3. p \in Waiting /\ p \in Seq(Nat)
    <3>1. p = stack[1] /\ 1 \in 1 .. Len(stack) BY <1>1, <2>2
    <3>2. p \in Waiting BY <3>1 DEF Waiting, Elements
    <3>3. QED BY <2>2, <3>1, <3>2
  <2>4. p \in Paths BY <2>3 DEF TraceInv
  <2>5. /\ ChildPaths(p) \in Seq(Seq(Nat))
        /\ \A i \in 1 .. Len(ChildPaths(p)) :
             /\ ChildPaths(p)[i] \in Paths
             /\ \E n \in Nat : ChildPaths(p)[i] = Append(p, n)
    BY <1>2, <2>4, ChildrenBelow
  <2> HIDE DEF p
  <2>6. kept' \in Seq(Seq(Nat)) /\ Kept' = Kept \cup {p}
    <3>1. Append(kept, p) \in Seq(Seq(Nat)) /\ Elements(Append(kept, p)) = Elements(kept) \cup {p}
      BY <2>2, <2>3, AppendElements
    <3>2. Kept' = Elements(kept') /\ Kept = Elements(kept) BY DEF Kept, Elements
    <3>3. QED BY <2>1, <3>1, <3>2
  <2>7. /\ stack' \in Seq(Seq(Nat))
        /\ \A e \in Waiting' : e \in Elements(ChildPaths(p)) \/ e \in Waiting
    <3> DEFINE t == ChildPaths(p)
    <3>1. t \in Seq(Seq(Nat)) BY <2>5
    <3> HIDE DEF t
    <3>2. /\ t \o Tail(stack) \in Seq(Seq(Nat))
          /\ \A e \in Elements(t \o Tail(stack)) :
               e \in Elements(t) \/ \E i \in 2 .. Len(stack) : e = stack[i]
      BY <1>1, <2>2, <3>1, PushElements
    <3>3. \A i \in 2 .. Len(stack) : stack[i] \in Waiting BY <2>2 DEF Waiting, Elements
    <3>4. Waiting' = Elements(t \o Tail(stack)) BY <2>1 DEF Waiting, t
    <3>5. QED BY <2>1, <3>2, <3>3, <3>4 DEF t
  <2>8. ASSUME NEW e \in Kept' \cup Waiting'
        PROVE  e \in Paths /\ \A q \in Paths : ProperlyAbove(q, e) => q \in Kept'
    <3>1. CASE e \in Kept \cup Waiting BY <2>6, <3>1 DEF TraceInv
    <3>2. CASE e \in Elements(ChildPaths(p))
      <4>1. PICK i \in 1 .. Len(ChildPaths(p)) : e = ChildPaths(p)[i] BY <3>2 DEF Elements
      <4>2. e \in Paths BY <2>5, <4>1
      <4>3. PICK n \in Nat : e = Append(p, n) BY <2>5, <4>1
      <4>4. ASSUME NEW q \in Paths, ProperlyAbove(q, e) PROVE q \in Kept'
        <5>1. q \in Seq(Nat) BY <1>2, TraceAssumption DEF Paths
        <5>2. q = p \/ ProperlyAbove(q, p) BY <2>3, <4>3, <4>4, <5>1, ChildAncestors
        <5>3. QED BY <2>3, <2>6, <5>2 DEF TraceInv
      <4>5. QED BY <4>2, <4>4
    <3>3. QED BY <2>3, <2>6, <2>7, <3>1, <3>2
  <2>9. QED BY <1>1, <1>2, <2>6, <2>8, <2>7 DEF TraceInv
<1>5. QED BY <1>3, <1>4

(* The first frame has no caller. *)
LEMMA RootFirst ==
  ASSUME NEW b \in Branches, NEW q \in DOMAIN Frames[b], Above(q, Root)
  PROVE  q = Root
<1>1. q \in Seq(Nat) /\ Len(q) > 0 /\ Above(Root, q) BY TraceAssumption
<1>2. Len(Root) = 1 /\ Root \in Seq(Nat) BY DEF Root
<1>3. Len(q) = 1 BY <1>1, <1>2 DEF Above
<1>4. q[1] = Root[1] BY <1>1, <1>2, <1>3 DEF Above
<1>5. QED BY <1>1, <1>2, <1>3, <1>4, SeqEqual

LEMMA TraceInvInit == Init => TraceInv /\ EmptyInv
<1> SUFFICES ASSUME Init PROVE TraceInv /\ EmptyInv OBVIOUS
<1>1. kept = <<>> /\ stack = <<>> BY DEF Init
<1>2. Kept = {} /\ Waiting = {} BY <1>1 DEF Kept, Waiting, Elements
<1>3. QED BY <1>1, <1>2 DEF TraceInv, EmptyInv

LEMMA TraceTaken ==
  ASSUME EmptyInv, ViewInv, TakeTrace
  PROVE  TraceInv'
<1>1. kept' = <<>> /\ stack' = <<Root>> BY DEF TakeTrace, Answered, EmptyInv, Untraced
<1>2. ev'.trace \in Branches BY DEF TakeTrace, ViewInv, Evidence
<1>3. Kept' = {} BY <1>1 DEF Kept
<1>4. Waiting' = {Root} BY <1>1 DEF Waiting, Elements
<1>5. Root \in Paths' BY <1>2, TraceAssumption DEF Paths
<1>6. Root \in Seq(Nat) BY DEF Root
<1>7. \A q \in Paths' : ~ProperlyAbove(q, Root) BY <1>2, RootFirst DEF ProperlyAbove, Paths
<1>8. kept' \in Seq(Seq(Nat)) /\ stack' \in Seq(Seq(Nat)) BY <1>1, <1>6
<1>9. QED BY <1>2, <1>3, <1>4, <1>5, <1>7, <1>8 DEF TraceInv

LEMMA TraceKept ==
  ASSUME TraceInv, UNCHANGED <<kept, stack>>, ev'.trace = ev.trace
  PROVE  TraceInv'
<1>1. Kept' = Kept /\ Waiting' = Waiting BY DEF Kept, Waiting, Elements
<1>2. Paths' = Paths BY DEF Paths
<1>3. QED BY <1>1, <1>2 DEF TraceInv

LEMMA TraceForgotten ==
  ASSUME kept' = <<>>, stack' = <<>>
  PROVE  TraceInv'
<1>1. Kept' = {} /\ Waiting' = {} BY DEF Kept, Waiting, Elements
<1>2. QED BY <1>1 DEF TraceInv

LEMMA TraceInvNext == TraceInv /\ EmptyInv /\ ViewInv /\ [Next]_vars => TraceInv' /\ EmptyInv'
<1> SUFFICES ASSUME TraceInv, EmptyInv, ViewInv, [Next]_vars PROVE TraceInv' /\ EmptyInv'
  OBVIOUS
<1>1. CASE /\ UNCHANGED <<kept, stack>> /\ ev'.trace = ev.trace
           /\ step' \in Untraced => step \in Untraced
  BY <1>1, TraceKept DEF EmptyInv
<1>2. CASE Wait BY <1>1, <1>2 DEF Wait, caseVars
<1>3. CASE Gather
  <2> USE DEF Untraced, Answered, Denied, Turn, Ask
  <2>1. CASE TakeChainId BY <1>1, <2>1 DEF TakeChainId, caseVars
  <2>2. CASE GiveUp BY <1>1, <2>2 DEF GiveUp, caseVars
  <2>3. CASE TakeTransaction BY <1>1, <2>3 DEF TakeTransaction, ViewInv, Evidence
  <2>4. CASE TakeReceipt BY <1>1, <2>4 DEF TakeReceipt, ViewInv, Evidence
  <2>5. CASE TakeBlock BY <1>1, <2>5 DEF TakeBlock
  <2>6. CASE TakeProxy BY <1>1, <2>6 DEF TakeProxy
  <2>7. CASE TakeTrace BY <2>7, TraceTaken DEF TakeTrace, EmptyInv
  <2>8. CASE NoTrace BY <1>1, <2>8 DEF NoTrace
  <2>9. CASE Visit BY <2>9, VisitKeeps DEF Visit, EmptyInv
  <2>10. CASE Flattened BY <1>1, <2>10 DEF Flattened, AfterTrace
  <2>11. CASE TakeStateDiff BY <1>1, <2>11 DEF TakeStateDiff, ViewInv, Evidence
  <2>12. CASE NoStateDiff BY <1>1, <2>12 DEF NoStateDiff
  <2>13. CASE BuildEntities BY <1>1, <2>13 DEF BuildEntities
  <2>14. CASE TakeCode BY <1>1, <2>14 DEF TakeCode, caseVars
  <2>15. CASE TakeParent BY <1>1, <2>15 DEF TakeParent, caseVars
  <2>16. CASE NoParent BY <1>1, <2>16 DEF NoParent
  <2>17. CASE TakeReplay BY <1>1, <2>17 DEF TakeReplay, ViewInv, Evidence
  <2>18. CASE TakeMetadata BY <1>1, <2>18 DEF TakeMetadata, caseVars
  <2>19. QED
    BY <1>3, <2>1, <2>2, <2>3, <2>4, <2>5, <2>6, <2>7, <2>8, <2>9, <2>10, <2>11, <2>12,
       <2>13, <2>14, <2>15, <2>16, <2>17, <2>18 DEF Gather
<1>4. CASE Store BY <1>1, <1>4 DEF Store, RefuseOverwrite, Write, caseVars, Turn, Untraced
<1>5. CASE Die BY <1>5, TraceForgotten DEF Die, Forget, EmptyInv
<1>6. CASE RunAgain BY <1>6, TraceForgotten DEF RunAgain, Forget, EmptyInv
<1>7. CASE Reorg BY <1>1, <1>7 DEF Reorg, caseVars
<1>8. CASE UNCHANGED vars BY <1>1, <1>8 DEF vars, caseVars
<1>9. QED BY <1>2, <1>3, <1>4, <1>5, <1>6, <1>7, <1>8 DEF Next, Proceed

(* A kept frame has every frame above it among the kept ones. *)
LEMMA CallersKept ==
  ASSUME TraceInv, NEW p \in Kept
  PROVE  /\ ev.trace \in Branches /\ p \in Paths
         /\ \A q \in Paths : Above(q, p) => q \in Kept
<1>1. kept # <<>> BY DEF Kept
<1>2. QED BY <1>1 DEF TraceInv, ProperlyAbove

(* A frame reported as committed, and all frames above it, did not fail. *)
LEMMA CommittedMoved ==
  ASSUME TraceInv, NEW p \in Kept, Pays(Frames[ev.trace][p]), Effect(p) = "committed"
  PROVE  Moved(ev.trace, p)
<1>1. ~ \E q \in Kept : Frames[ev.trace][q].fails /\ Above(q, p) BY DEF Effect
<1>2. \A q \in Paths : Above(q, p) => ~Frames[ev.trace][q].fails BY <1>1, CallersKept
<1>3. Root \in Paths /\ Above(Root, p) BY CallersKept, TraceAssumption DEF Paths
<1>4. ~Frames[ev.trace][Root].fails BY <1>2, <1>3
<1>5. Status[ev.trace] # "reverted" BY <1>4, CallersKept, TransactionAssumption
<1>6. QED BY <1>2, <1>5 DEF Moved, Paths

LEMMA EffectsFromTrace == TraceInv /\ OneView => EffectsTrue
<1> SUFFICES ASSUME TraceInv, OneView, Assembled PROVE EffectsTrue BY DEF EffectsTrue
<1>1. ev.receipt \in Branches BY DEF OneView, Assembled
<1>2. TxStatus = Status[ev.receipt] /\ TxStatus \in {"succeeded", "reverted", "unknown"}
  BY <1>1, InvestigationAssumption DEF TxStatus
<1>3. kept = <<>> => Kept = {} BY DEF Kept
<1> DEFINE source == IF kept # <<>> THEN ev.trace ELSE ev.receipt
<1>4. ASSUME NEW t \in NativeTransfers, t.effect = "committed" PROVE Moved(source, t.path)
  <2>1. CASE kept # <<>>
    <3>1. PICK p \in Kept : t = [path |-> p, effect |-> Effect(p)] /\ Pays(Frames[ev.trace][p])
      BY <2>1 DEF NativeTransfers
    <3>2. QED BY <1>4, <2>1, <3>1, CommittedMoved
  <2>2. CASE kept = <<>>
    <3>1. t.path = Root /\ Frames[ev.receipt][Root].value /\ TxStatus = "succeeded"
      BY <1>2, <1>4, <2>2 DEF NativeTransfers
    <3>2. Frames[ev.receipt][Root].type = "CALL" BY <1>1, TransactionAssumption
    <3>3. ~Frames[ev.receipt][Root].fails BY <1>1, <1>2, <3>1, TransactionAssumption
    <3>4. \A q \in DOMAIN Frames[ev.receipt] : Above(q, Root) => q = Root BY <1>1, RootFirst
    <3>5. QED BY <1>2, <2>2, <3>1, <3>2, <3>3, <3>4 DEF Moved, Pays, ValueTypes
  <2>3. QED BY <2>1, <2>2
<1>5. ASSUME ev.trace = ev.receipt, TxStatus # "unknown", NEW p \in Kept, Moved(source, p)
      PROVE  [path |-> p, effect |-> "committed"] \in NativeTransfers
  <2>1. kept # <<>> BY <1>3
  <2>2. Moved(ev.trace, p) BY <1>5, <2>1
  <2>3. TxStatus = "succeeded" BY <1>2, <1>5, <2>2 DEF Moved
  <2>4. ~ \E q \in Kept : Frames[ev.trace][q].fails /\ Above(q, p)
    BY <2>2, CallersKept DEF Moved, Paths
  <2>5. Effect(p) = "committed" BY <2>3, <2>4 DEF Effect
  <2>6. QED BY <2>1, <2>2, <2>5 DEF NativeTransfers, Moved
<1>6. ASSUME "transaction_reverted" \in Findings
      PROVE  {"token_asset_flow", "native_asset_flow"} \cap Findings = {}
  <2>1. TxStatus = "reverted" BY <1>6 DEF Findings
  <2>2. "token_asset_flow" \notin Findings BY <2>1 DEF Findings, LogEffect
  <2>3. \A t \in NativeTransfers : t.effect = "attempted_reverted"
    BY <2>1 DEF NativeTransfers, Effect
  <2>4. "native_asset_flow" \notin Findings BY <2>3 DEF Findings
  <2>5. QED BY <2>2, <2>4
<1>7. QED BY <1>4, <1>5, <1>6 DEF EffectsTrue

(* Whatever the trace and wherever it is cut, and whatever the endpoints     *)
(* answer, no rolled back native transfer of a case is called committed.     *)
THEOREM CommittedIsTrue == Spec => []EffectsTrue
<1>1. Spec => [](TraceInv /\ EmptyInv)
  BY TraceInvInit, TraceInvNext, ViewsHold, PTL DEF Spec
<1>2. ViewInv => OneView BY DEF ViewInv
<1>3. QED BY <1>1, <1>2, EffectsFromTrace, ViewsHold, PTL

-----------------------------------------------------------------------------
(* Induction over sets of numbers. *)

LEMMA LeastNumber ==
  ASSUME NEW T \in SUBSET Nat, T # {}
  PROVE  \E x \in T : \A y \in T : x <= y
<1>1. PICK x \in T : \A y \in T : ~(<<y, x>> \in OpToRel(<, Nat))
  BY NatLessThanWellFounded, WFMin
<1>2. \A y \in T : ~(y < x) BY <1>1 DEF OpToRel
<1>3. x \in Nat /\ \A y \in T : y \in Nat OBVIOUS
<1>4. \A y \in T : x <= y BY <1>2, <1>3
<1>5. QED BY <1>4

LEMMA SetInduction ==
  ASSUME NEW T, 0 \in T, \A n \in Nat : n \in T => n + 1 \in T
  PROVE  \A n \in Nat : n \in T
<1> SUFFICES ASSUME Nat \ T # {} PROVE FALSE OBVIOUS
<1>1. PICK x \in Nat \ T : \A y \in Nat \ T : x <= y BY LeastNumber
<1>2. x # 0 /\ x - 1 \in Nat BY <1>1
<1>3. x - 1 \in T BY <1>1, <1>2
<1>4. QED BY <1>1, <1>2, <1>3
-----------------------------------------------------------------------------
(* The order of the frames. *)

(* p and q part, and p turns to the earlier child. *)
Left(p, q) == \E i \in Nat \ {0} : /\ i <= Len(p) /\ i <= Len(q) /\ p[i] < q[i]
                                   /\ \A j \in 1 .. i - 1 : p[j] = q[j]

LEMMA SmallerOf ==
  ASSUME NEW m \in Nat, NEW n \in Nat
  PROVE  Min({m, n}) = IF m <= n THEN m ELSE n
<1>1. \E x \in {m, n} : \A y \in {m, n} : x <= y OBVIOUS
<1>2. Min({m, n}) \in {m, n} /\ \A y \in {m, n} : Min({m, n}) <= y BY <1>1 DEF Min
<1> HIDE DEF Min
<1>3. QED BY <1>2

LEMMA BeforeIs ==
  ASSUME NEW p \in Seq(Nat), NEW q \in Seq(Nat)
  PROVE  Before(p, q) <=> ProperlyAbove(p, q) \/ Left(p, q)
<1>1. Len(p) \in Nat /\ Len(q) \in Nat OBVIOUS
<1>2. Min({Len(p), Len(q)}) = IF Len(p) <= Len(q) THEN Len(p) ELSE Len(q) BY <1>1, SmallerOf
<1>3. 1 .. Min({Len(p), Len(q)}) = {i \in Nat \ {0} : i <= Len(p) /\ i <= Len(q)} BY <1>1, <1>2
<1>4. QED BY <1>3 DEF Before, ProperlyAbove, Left

LEMMA AboveLength ==
  ASSUME NEW p \in Seq(Nat), NEW q \in Seq(Nat), ProperlyAbove(p, q)
  PROVE  Len(p) < Len(q)
<1>1. Len(p) <= Len(q) /\ \A i \in 1 .. Len(p) : p[i] = q[i] BY DEF ProperlyAbove, Above
<1>2. SUFFICES ASSUME Len(p) = Len(q) PROVE p = q BY <1>1 DEF ProperlyAbove
<1>3. QED BY <1>1, <1>2, SeqEqual

LEMMA AboveAgain ==
  ASSUME NEW p \in Seq(Nat), NEW q \in Seq(Nat), NEW r \in Seq(Nat), Above(p, q), Above(q, r)
  PROVE  Above(p, r)
<1>1. Len(p) \in Nat /\ Len(q) \in Nat /\ Len(r) \in Nat OBVIOUS
<1>2. Len(p) <= Len(r) BY <1>1 DEF Above
<1>3. ASSUME NEW i \in 1 .. Len(p) PROVE p[i] = r[i]
  <2>1. i \in 1 .. Len(q) BY <1>1 DEF Above
  <2>2. p[i] = q[i] /\ q[i] = r[i] BY <2>1 DEF Above
  <2>3. QED BY <2>2
<1>4. QED BY <1>2, <1>3 DEF Above

(* What comes before a frame comes before everything below it. *)
LEMMA BeforeBelow ==
  ASSUME NEW p \in Seq(Nat), NEW q \in Seq(Nat), NEW r \in Seq(Nat), Before(p, q), Above(q, r)
  PROVE  Before(p, r)
<1>1. Len(p) \in Nat /\ Len(q) \in Nat /\ Len(r) \in Nat OBVIOUS
<1>2. CASE ProperlyAbove(p, q)
  <2>1. Len(p) < Len(q) BY <1>2, AboveLength
  <2>2. Above(p, r) BY <1>2, AboveAgain DEF ProperlyAbove
  <2>3. p # r BY <1>1, <2>1 DEF Above
  <2>4. QED BY <2>2, <2>3, BeforeIs DEF ProperlyAbove
<1>3. CASE Left(p, q)
  <2>1. Left(p, r) BY <1>1, <1>3 DEF Left, Above
  <2>2. QED BY <2>1, BeforeIs
<1>4. QED BY <1>2, <1>3, BeforeIs

LEMMA LeftBelow ==
  ASSUME NEW p \in Seq(Nat), NEW q \in Seq(Nat), NEW r \in Seq(Nat), Left(p, q), Above(p, r)
  PROVE  Left(r, q)
<1>1. Len(p) \in Nat /\ Len(q) \in Nat /\ Len(r) \in Nat OBVIOUS
<1>2. PICK i \in Nat \ {0} : /\ i <= Len(p) /\ i <= Len(q) /\ p[i] < q[i]
                             /\ \A j \in 1 .. i - 1 : p[j] = q[j]
  BY DEF Left
<1>3. i <= Len(r) /\ \A j \in 1 .. i : r[j] = p[j] BY <1>1, <1>2 DEF Above
<1>4. r[i] < q[i] /\ \A j \in 1 .. i - 1 : r[j] = q[j] BY <1>2, <1>3
<1>5. QED BY <1>2, <1>3, <1>4 DEF Left

LEMMA NotBeforeItself ==
  ASSUME NEW p \in Seq(Nat)
  PROVE  ~Before(p, p)
<1>1. \A i \in Nat \ {0} : i <= Len(p) => ~(p[i] < p[i]) OBVIOUS
<1>2. QED BY <1>1, BeforeIs DEF ProperlyAbove, Left

LEMMA BelowParent ==
  ASSUME NEW p \in Seq(Nat), NEW n \in Nat
  PROVE  Append(p, n) \in Seq(Nat) /\ Above(p, Append(p, n)) /\ p # Append(p, n)
<1>1. Len(Append(p, n)) = Len(p) + 1 /\ Len(p) \in Nat OBVIOUS
<1>2. \A i \in 1 .. Len(p) : Append(p, n)[i] = p[i] OBVIOUS
<1>3. QED BY <1>1, <1>2 DEF Above

LEMMA SiblingsInOrder ==
  ASSUME NEW p \in Seq(Nat), NEW m \in Nat, NEW n \in Nat, m < n
  PROVE  Left(Append(p, m), Append(p, n))
<1>1. /\ Len(Append(p, m)) = Len(p) + 1 /\ Len(Append(p, n)) = Len(p) + 1 /\ Len(p) \in Nat
      /\ Append(p, m)[Len(p) + 1] = m /\ Append(p, n)[Len(p) + 1] = n
      /\ \A i \in 1 .. Len(p) : Append(p, m)[i] = p[i] /\ Append(p, n)[i] = p[i]
  OBVIOUS
<1>2. (Len(p) + 1) - 1 = Len(p) /\ Len(p) + 1 \in Nat \ {0} BY <1>1
<1>3. \A j \in 1 .. (Len(p) + 1) - 1 : Append(p, m)[j] = Append(p, n)[j] BY <1>1, <1>2
<1>4. QED BY <1>1, <1>2, <1>3 DEF Left

(* A frame below p is below a child of p. *)
LEMMA BelowAChild ==
  ASSUME NEW b \in Branches, NEW p \in DOMAIN Frames[b], NEW q \in DOMAIN Frames[b],
         ProperlyAbove(p, q)
  PROVE  \E c \in Children(b, p) : Above(c, q)
<1> DEFINE D == DOMAIN Frames[b]
           N == Len(q)
           T == {n \in Nat : n < N => SubSeq(q, 1, N - n) \in D}
<1>1. p \in Seq(Nat) /\ q \in Seq(Nat) BY TraceAssumption
<1>2. N \in Nat /\ Len(p) \in Nat /\ Len(p) < N BY <1>1, AboveLength
<1>3. 0 \in T
  <2>1. SubSeq(q, 1, N) \in Seq(Nat) /\ Len(SubSeq(q, 1, N)) = N
    BY <1>1, <1>2
  <2>2. \A i \in 1 .. N : SubSeq(q, 1, N)[i] = q[i] BY <1>1, <1>2
  <2>3. SubSeq(q, 1, N) = q BY <1>1, <2>1, <2>2, SeqEqual
  <2>4. N - 0 = N BY <1>2
  <2>6. q \in D OBVIOUS
  <2>5. QED BY <2>3, <2>4, <2>6
<1>4. ASSUME NEW n \in Nat, n \in T PROVE n + 1 \in T
  <2> SUFFICES ASSUME n + 1 < N PROVE SubSeq(q, 1, N - (n + 1)) \in D OBVIOUS
  <2>1. SubSeq(q, 1, N - n) \in D BY <1>2, <1>4
  <2>2. /\ SubSeq(q, 1, N - n) \in Seq(Nat) /\ Len(SubSeq(q, 1, N - n)) = N - n
        /\ \A i \in 1 .. N - n : SubSeq(q, 1, N - n)[i] = q[i]
    BY <1>1, <1>2
  <2>3. SubSeq(SubSeq(q, 1, N - n), 1, (N - n) - 1) \in D
    <3>1. Len(SubSeq(q, 1, N - n)) > 1 BY <1>2, <2>2
    <3>2. SubSeq(SubSeq(q, 1, N - n), 1, Len(SubSeq(q, 1, N - n)) - 1) \in D
      BY <2>1, <3>1, TraceAssumption
    <3>3. QED BY <2>2, <3>2
  <2>4. SubSeq(SubSeq(q, 1, N - n), 1, (N - n) - 1) = SubSeq(q, 1, N - (n + 1))
    BY <1>1, <1>2, <2>2
  <2>5. QED BY <2>3, <2>4
<1>5. \A n \in Nat : n \in T
  <2> HIDE DEF T
  <2> QED BY <1>3, <1>4, SetInduction
<1> DEFINE c == SubSeq(q, 1, Len(p) + 1)
<1>6. c \in D
  <2>1. N - (Len(p) + 1) \in Nat /\ N - (Len(p) + 1) < N BY <1>2
  <2>2. N - (N - (Len(p) + 1)) = Len(p) + 1 BY <1>2
  <2>3. QED BY <1>5, <2>1, <2>2
<1>7. /\ c \in Seq(Nat) /\ Len(c) = Len(p) + 1
      /\ \A i \in 1 .. Len(p) + 1 : c[i] = q[i]
  BY <1>1, <1>2
<1> HIDE DEF c, D, T
<1>8. Above(c, q) BY <1>2, <1>7 DEF Above
<1>9. Above(p, c) BY <1>2, <1>7 DEF Above, ProperlyAbove
<1>10. QED BY <1>6, <1>7, <1>8, <1>9 DEF Children, D

-----------------------------------------------------------------------------
(* The loop of _flatten_trace walks the trace in the order of execution: what *)
(* is kept lies before what waits, and the frames that wait part from each    *)
(* other, the next one to the left.                                           *)
Ordered == /\ \A i, j \in 1 .. Len(kept) : i < j => Before(kept[i], kept[j])
           /\ \A p \in Kept, w \in Waiting : Before(p, w)
           /\ \A i, j \in 1 .. Len(stack) : i < j => Left(stack[i], stack[j])

(* Until the loop is cut every frame is kept or lies below one that waits. *)
Reached == ev.trace \in Branches /\ ~truncated =>
             \A q \in Paths : q \in Kept \/ \E w \in Waiting : Above(w, q)

(* Where it is cut nothing waits, and what is missing comes later. *)
CutLate == truncated => /\ stack = <<>> /\ Paths \ Kept # {}
                        /\ \A p \in Kept, q \in Paths \ Kept : Before(p, q)

(* The warning is given once, when the loop has ended. *)
Derived == {"state_diff", "entities", "code", "parent", "replay", "metadata", "write", "done"}
CutTold == /\ truncated \in BOOLEAN
           /\ step \in Untraced => ~truncated /\ ev.trace \notin Branches
           /\ step \in Untraced \cup {"flatten"} => "frames" \notin warnings
           /\ step \in Derived => stack = <<>> /\ ("frames" \in warnings <=> truncated)

OrderInv == Ordered /\ Reached /\ CutLate /\ CutTold

(* The children of a frame are queued in their order, all of them. *)
LEMMA ChildrenQueued ==
  ASSUME ev.trace \in Branches, NEW p \in Paths
  PROVE  /\ \A i \in 1 .. Len(ChildPaths(p)) : ChildPaths(p)[i] = Append(p, i - 1)
         /\ \A c \in Children(ev.trace, p) : \E i \in 1 .. Len(ChildPaths(p)) : ChildPaths(p)[i] = c
<1> DEFINE N == Cardinality(Children(ev.trace, p))
<1>1. p \in Seq(Nat) BY TraceAssumption DEF Paths
<1>2. N \in Nat
  <2>1. IsFiniteSet(Paths) /\ Children(ev.trace, p) \subseteq Paths
    BY TraceAssumption DEF Paths, Children
  <2>2. QED BY <2>1, FS_Subset, FS_CardinalityType
<1>3. Children(ev.trace, p) = {Append(p, i - 1) : i \in 1 .. N} BY TraceAssumption DEF Paths
<1>4. ChildPaths(p) = [i \in 1 .. N |-> Append(p, i - 1)] BY DEF ChildPaths
<1> HIDE DEF N
<1>5. Len(ChildPaths(p)) = N BY <1>2, <1>4
<1>6. \A i \in 1 .. N : ChildPaths(p)[i] = Append(p, i - 1) BY <1>4
<1>7. QED BY <1>3, <1>5, <1>6

LEMMA VisitInOrder ==
  ASSUME TraceInv, OrderInv, Visit
  PROVE  OrderInv'
<1>1. stack # <<>> /\ ev' = ev /\ step' = step /\ warnings' = warnings /\ step = "flatten"
  BY DEF Visit
<1>2. ev.trace \in Branches /\ Paths' = Paths BY <1>1 DEF TraceInv, Paths
<1>3. ~truncated BY <1>1 DEF OrderInv, CutLate
<1>4. kept \in Seq(Seq(Nat)) /\ stack \in Seq(Seq(Nat)) BY DEF TraceInv
<1>5. Paths \subseteq Seq(Nat) BY <1>2, TraceAssumption DEF Paths
<1>6. Waiting \subseteq Paths /\ Kept \subseteq Paths BY DEF TraceInv
<1> DEFINE p == Head(stack)
<1>7. p = stack[1] /\ 1 \in 1 .. Len(stack) BY <1>1, <1>4
<1>8. p \in Waiting BY <1>7 DEF Waiting, Elements
<1>9. p \in Paths /\ p \in Seq(Nat) BY <1>5, <1>6, <1>8
<1>10. CASE Len(kept) >= MaxFrames
  <2>1. kept' = kept /\ stack' = <<>> /\ truncated' = TRUE BY <1>10 DEF Visit
  <2>2. Kept' = Kept /\ Waiting' = {} BY <2>1 DEF Kept, Waiting, Elements
  <2>3. p \notin Kept
    <3>1. p \in Kept => Before(p, p) BY <1>8 DEF OrderInv, Ordered
    <3>2. QED BY <1>9, <3>1, NotBeforeItself
  <2>4. ASSUME NEW k \in Kept, NEW q \in Paths \ Kept PROVE Before(k, q)
    <3>1. PICK w \in Waiting : Above(w, q) BY <1>2, <1>3 DEF OrderInv, Reached
    <3>2. Before(k, w) BY DEF OrderInv, Ordered
    <3>3. QED BY <1>5, <1>6, <3>1, <3>2, BeforeBelow
  <2>5. Ordered' BY <2>1, <2>2 DEF OrderInv, Ordered
  <2>6. CutLate' BY <1>2, <1>9, <2>1, <2>2, <2>3, <2>4 DEF CutLate
  <2>7. Reached' /\ CutTold' BY <1>1, <2>1 DEF OrderInv, Reached, CutTold, Untraced, Derived
  <2>8. QED BY <2>5, <2>6, <2>7 DEF OrderInv
<1>11. CASE ~(Len(kept) >= MaxFrames)
  <2> DEFINE t == ChildPaths(p)
  <2>1. kept' = Append(kept, p) /\ stack' = t \o Tail(stack) /\ truncated' = truncated
    BY <1>11 DEF Visit
  <2>2. t \in Seq(Seq(Nat)) BY <1>2, <1>9, ChildrenBelow
  <2>3. \A i \in 1 .. Len(t) : t[i] = Append(p, i - 1) BY <1>2, <1>9, ChildrenQueued
  <2>4. \A c \in Children(ev.trace, p) : \E i \in 1 .. Len(t) : t[i] = c
    BY <1>2, <1>9, ChildrenQueued
  <2> HIDE DEF t, p
  <2>5. Len(t) \in Nat /\ Len(stack) \in Nat /\ Len(kept) \in Nat BY <1>4, <2>2
  <2>6. Kept' = Kept \cup {p}
    <3>1. p \in Seq(Nat) /\ kept \in Seq(Seq(Nat)) BY <1>4, <1>9
    <3>2. Elements(Append(kept, p)) = Elements(kept) \cup {p} BY <3>1, AppendElements
    <3>3. Kept' = Elements(kept') /\ Kept = Elements(kept) BY DEF Kept, Elements
    <3>4. QED BY <2>1, <3>2, <3>3
  <2>7. ASSUME NEW i \in 1 .. Len(t)
        PROVE  /\ i - 1 \in Nat /\ t[i] \in Seq(Nat)
               /\ Above(p, t[i]) /\ p # t[i]
    <3>1. i - 1 \in Nat /\ t[i] = Append(p, i - 1) BY <2>3, <2>5
    <3>2. QED BY <1>9, <3>1, BelowParent
  <2>8. \A i \in 2 .. Len(stack) : Left(p, stack[i])
    BY <1>7, <2>5 DEF OrderInv, Ordered
  <2>9. ASSUME NEW i \in 1 .. Len(stack')
        PROVE  IF i <= Len(t) THEN stack'[i] = t[i]
               ELSE i - Len(t) + 1 \in 2 .. Len(stack) /\ stack'[i] = stack[i - Len(t) + 1]
    BY <1>1, <1>4, <2>1, <2>2, PushElement
  <2>10. /\ \A w \in Waiting' : w \in Elements(t) \/ \E i \in 2 .. Len(stack) : w = stack[i]
         /\ \A i \in 1 .. Len(t) : t[i] \in Waiting'
         /\ \A i \in 2 .. Len(stack) : stack[i] \in Waiting'
    <3>1. Waiting' = Elements(t \o Tail(stack)) BY <2>1 DEF Waiting
    <3>2. stack \in Seq(Seq(Nat)) /\ stack # <<>> BY <1>1, <1>4
    <3>3. /\ \A w \in Elements(t \o Tail(stack)) :
               w \in Elements(t) \/ \E i \in 2 .. Len(stack) : w = stack[i]
          /\ \A i \in 1 .. Len(t) : t[i] \in Elements(t \o Tail(stack))
          /\ \A i \in 2 .. Len(stack) : stack[i] \in Elements(t \o Tail(stack))
      BY <2>2, <3>2, PushElements
    <3>4. QED BY <3>1, <3>3
  <2>11. \A w \in Waiting' : (\E i \in 1 .. Len(t) : w = t[i]) \/ (\E i \in 2 .. Len(stack) : w = stack[i])
    BY <2>10 DEF Elements
  <2>12. \A i \in 1 .. Len(stack) : stack[i] \in Waiting /\ stack[i] \in Seq(Nat)
    BY <1>5, <1>6 DEF Waiting, Elements
  <2>13. ASSUME NEW i \in 1 .. Len(kept'), NEW j \in 1 .. Len(kept'), i < j
         PROVE  Before(kept'[i], kept'[j])
    <3>1. Len(kept') = Len(kept) + 1 BY <1>4, <1>9, <2>1
    <3>2. i \in 1 .. Len(kept) /\ kept'[i] = kept[i] BY <1>4, <1>9, <2>1, <2>5, <2>13, <3>1
    <3>3. CASE j = Len(kept) + 1
      <4>1. kept'[j] = p BY <1>4, <1>9, <2>1, <3>3
      <4>2. kept[i] \in Kept BY <3>2 DEF Kept
      <4>3. QED BY <1>8, <3>2, <4>1, <4>2 DEF OrderInv, Ordered
    <3>4. CASE j # Len(kept) + 1
      <4>1. j \in 1 .. Len(kept) BY <2>5, <3>1, <3>4
      <4>2. kept'[j] = kept[j] BY <1>4, <1>9, <2>1, <4>1
      <4>3. QED BY <2>13, <3>2, <4>1, <4>2 DEF OrderInv, Ordered
    <3>5. QED BY <3>3, <3>4
  <2>14. ASSUME NEW k \in Kept', NEW w \in Waiting' PROVE Before(k, w)
    <3>1. CASE k \in Kept /\ \E i \in 1 .. Len(t) : w = t[i]
      <4>1. Before(k, p) BY <1>8, <3>1 DEF OrderInv, Ordered
      <4>2. QED BY <1>5, <1>6, <1>9, <2>7, <3>1, <4>1, BeforeBelow
    <3>2. CASE k \in Kept /\ \E i \in 2 .. Len(stack) : w = stack[i]
      <4>1. w \in Waiting BY <2>5, <2>12, <3>2
      <4>2. QED BY <3>2, <4>1 DEF OrderInv, Ordered
    <3>3. CASE k = p /\ \E i \in 1 .. Len(t) : w = t[i]
      BY <1>9, <2>7, <3>3, BeforeIs DEF ProperlyAbove
    <3>4. CASE k = p /\ \E i \in 2 .. Len(stack) : w = stack[i]
      <4>1. w \in Seq(Nat) /\ Left(p, w) BY <2>5, <2>8, <2>12, <3>4
      <4>2. QED BY <1>9, <3>4, <4>1, BeforeIs
    <3>5. QED BY <2>6, <2>11, <3>1, <3>2, <3>3, <3>4
  <2>15. ASSUME NEW i \in 1 .. Len(stack'), NEW j \in 1 .. Len(stack'), i < j
         PROVE  Left(stack'[i], stack'[j])
    <3>1. CASE j <= Len(t)
      <4>1. i \in 1 .. Len(t) /\ j \in 1 .. Len(t) BY <2>5, <2>15, <3>1
      <4>2. stack'[i] = t[i] /\ stack'[j] = t[j] BY <2>9, <4>1
      <4>3. stack'[i] = Append(p, i - 1) /\ stack'[j] = Append(p, j - 1) BY <2>3, <4>1, <4>2
      <4>4. i - 1 \in Nat /\ j - 1 \in Nat /\ i - 1 < j - 1 BY <2>5, <2>15, <4>1
      <4>5. QED BY <1>9, <4>3, <4>4, SiblingsInOrder
    <3>2. CASE i <= Len(t) /\ ~(j <= Len(t))
      <4>1. i \in 1 .. Len(t) BY <2>5, <3>2
      <4>2. stack'[i] = t[i] BY <2>9, <4>1
      <4>3. PICK n \in 2 .. Len(stack) : stack'[j] = stack[n] BY <2>9, <3>2
      <4>4. Left(p, stack[n]) /\ stack[n] \in Seq(Nat) BY <2>5, <2>8, <2>12
      <4>5. QED BY <1>9, <2>7, <4>1, <4>2, <4>3, <4>4, LeftBelow
    <3>3. CASE ~(i <= Len(t))
      <4>1. ~(j <= Len(t)) BY <2>5, <2>15, <3>3
      <4>2. i - Len(t) + 1 \in 1 .. Len(stack) /\ stack'[i] = stack[i - Len(t) + 1]
        BY <2>5, <2>9, <3>3
      <4>3. j - Len(t) + 1 \in 1 .. Len(stack) /\ stack'[j] = stack[j - Len(t) + 1]
        BY <2>5, <2>9, <4>1
      <4>4. i - Len(t) + 1 < j - Len(t) + 1 BY <2>5, <2>15
      <4>5. QED BY <4>2, <4>3, <4>4 DEF OrderInv, Ordered
    <3>4. QED BY <3>1, <3>2, <3>3
  <2>16. Ordered' BY <2>13, <2>14, <2>15 DEF Ordered
  <2>17. ASSUME NEW q \in Paths PROVE q \in Kept' \/ \E w \in Waiting' : Above(w, q)
    <3>1. CASE q \in Kept BY <2>6, <3>1
    <3>2. CASE q \notin Kept
      <4>1. PICK w \in Waiting : Above(w, q) BY <1>2, <1>3, <3>2 DEF OrderInv, Reached
      <4>2. PICK i \in 1 .. Len(stack) : w = stack[i] BY DEF Waiting, Elements
      <4>3. CASE i = 1
        <5>1. w = p BY <1>7, <4>2, <4>3
        <5>2. CASE q = p BY <2>6, <5>2
        <5>3. CASE q # p
          <6>1. ProperlyAbove(p, q) BY <4>1, <5>1, <5>3 DEF ProperlyAbove
          <6>2. PICK c \in Children(ev.trace, p) : Above(c, q)
            BY <1>2, <1>9, <6>1, BelowAChild DEF Paths
          <6>3. c \in Waiting' BY <2>4, <2>10
          <6>4. QED BY <6>2, <6>3
        <5>4. QED BY <5>2, <5>3
      <4>4. CASE i # 1
        <5>1. i \in 2 .. Len(stack) BY <2>5, <4>4
        <5>2. QED BY <2>10, <4>1, <4>2, <5>1
      <4>5. QED BY <4>3, <4>4
    <3>3. QED BY <3>1, <3>2
  <2>18. Reached' BY <1>2, <2>17 DEF Reached
  <2>19. CutLate' BY <1>3, <2>1 DEF CutLate
  <2>20. CutTold' BY <1>1, <1>3, <2>1 DEF OrderInv, CutTold, Untraced, Derived
  <2>21. QED BY <2>16, <2>18, <2>19, <2>20 DEF OrderInv
<1>12. QED BY <1>10, <1>11

-----------------------------------------------------------------------------
(* Folds. A fold over s is the value at 1 .. Len(s) of a function on sets of *)
(* positions, which exists if the step f keeps the accumulators in a set A.  *)

LEMMA LargestOf ==
  ASSUME NEW n \in Nat, NEW p \in SUBSET (1 .. n), p # {}
  PROVE  Max(p) \in p
<1> DEFINE U == {k \in Nat : \A x \in p : x <= k}
<1>1. n \in U OBVIOUS
<1>2. PICK k \in U : \A y \in U : k <= y
  <2>1. U \in SUBSET Nat /\ U # {} BY <1>1
  <2> HIDE DEF U
  <2>2. QED BY <2>1, LeastNumber
<1>3. k \in p
  <2>1. SUFFICES ASSUME k \notin p PROVE FALSE OBVIOUS
  <2>2. \A x \in p : x \in Nat /\ x >= 1 /\ x <= k /\ x # k BY <1>2, <2>1
  <2>3. k \in Nat /\ k - 1 \in Nat
    <3>1. PICK x \in p : TRUE OBVIOUS
    <3>2. x \in Nat /\ x >= 1 /\ x <= k BY <2>2
    <3>3. QED BY <1>2, <3>2
  <2>4. \A x \in p : x <= k - 1 BY <2>2, <2>3
  <2>5. k <= k - 1 BY <1>2, <2>3, <2>4
  <2>6. QED BY <2>3, <2>5
<1>4. \A y \in p : k >= y BY <1>2
<1>5. QED BY <1>3, <1>4 DEF Max

LEMMA TopOf ==
  ASSUME NEW n \in Nat, NEW p \in SUBSET (1 .. n + 1), n + 1 \in p
  PROVE  Max(p) = n + 1
<1>1. \A x \in p : x \in Nat /\ x <= n + 1 OBVIOUS
<1>2. \E x \in p : \A y \in p : x >= y BY <1>1
<1>3. Max(p) \in p /\ \A y \in p : Max(p) >= y BY <1>2 DEF Max
<1>4. Max(p) \in Nat /\ Max(p) <= n + 1 BY <1>1, <1>3
<1>5. Max(p) >= n + 1 BY <1>3
<1> HIDE DEF Max
<1>6. QED BY <1>4, <1>5

Folding(g, f, base, s, n) ==
  \A p \in SUBSET (1 .. n) :
    g[p] = IF p = {} THEN base ELSE f[<<g[p \ {Max(p)}], s[Max(p)]>>]

LEMMA FoldExists ==
  ASSUME NEW A, NEW X, NEW f \in [A \X X -> A], NEW base \in A, NEW s \in Seq(X)
  PROVE  \E g \in [SUBSET (1 .. Len(s)) -> A] : Folding(g, f, base, s, Len(s))
<1> DEFINE Exists(n) == \E g \in [SUBSET (1 .. n) -> A] : Folding(g, f, base, s, n)
           T == {n \in Nat : n <= Len(s) => Exists(n)}
<1>0. Len(s) \in Nat OBVIOUS
<1>1. 0 \in T
  <2> DEFINE g == [p \in SUBSET (1 .. 0) |-> base]
  <2>1. \A p \in SUBSET (1 .. 0) : p = {} OBVIOUS
  <2>2. g \in [SUBSET (1 .. 0) -> A] OBVIOUS
  <2>3. Folding(g, f, base, s, 0) BY <2>1 DEF Folding
  <2> HIDE DEF g
  <2>4. Exists(0) BY <2>2, <2>3
  <2> HIDE DEF Exists
  <2>5. QED BY <2>4
<1>2. ASSUME NEW n \in Nat, n \in T PROVE n + 1 \in T
  <2>0. SUFFICES ASSUME n + 1 <= Len(s) PROVE Exists(n + 1)
    <3> HIDE DEF Exists
    <3> QED OBVIOUS
  <2>1. PICK g \in [SUBSET (1 .. n) -> A] : Folding(g, f, base, s, n)
    <3>1. Exists(n)
      <4> HIDE DEF Exists
      <4> QED BY <1>0, <1>2, <2>0
    <3>2. QED BY <3>1
  <2>2. s[n + 1] \in X BY <1>0, <2>0
  <2> DEFINE h == [p \in SUBSET (1 .. n + 1) |->
                     IF n + 1 \in p THEN f[<<g[p \ {n + 1}], s[n + 1]>>] ELSE g[p]]
  <2>3. ASSUME NEW p \in SUBSET (1 .. n + 1), n + 1 \in p
        PROVE  /\ p \ {n + 1} \in SUBSET (1 .. n) /\ h[p] = f[<<g[p \ {n + 1}], s[n + 1]>>]
               /\ h[p] \in A
    <3>1. p \ {n + 1} \in SUBSET (1 .. n) BY <2>3
    <3>2. g[p \ {n + 1}] \in A BY <3>1
    <3>3. f[<<g[p \ {n + 1}], s[n + 1]>>] \in A BY <2>2, <3>2
    <3>4. QED BY <2>3, <3>1, <3>3
  <2>4. ASSUME NEW p \in SUBSET (1 .. n + 1), n + 1 \notin p
        PROVE  p \in SUBSET (1 .. n) /\ h[p] = g[p] /\ h[p] \in A
    <3>1. p \in SUBSET (1 .. n) BY <2>4
    <3>2. QED BY <2>4, <3>1
  <2>5. h \in [SUBSET (1 .. n + 1) -> A]
    <3>1. \A p \in SUBSET (1 .. n + 1) : h[p] \in A BY <2>3, <2>4
    <3>2. QED BY <3>1
  <2> HIDE DEF h
  <2>6. ASSUME NEW p \in SUBSET (1 .. n + 1)
        PROVE  h[p] = IF p = {} THEN base ELSE f[<<h[p \ {Max(p)}], s[Max(p)]>>]
    <3>1. CASE n + 1 \in p
      <4>1. Max(p) = n + 1 BY <3>1, TopOf
      <4>2. p \ {n + 1} \in SUBSET (1 .. n + 1) /\ n + 1 \notin p \ {n + 1} OBVIOUS
      <4>3. h[p \ {n + 1}] = g[p \ {n + 1}] BY <2>4, <4>2
      <4>4. QED BY <2>3, <3>1, <4>1, <4>3
    <3>2. CASE n + 1 \notin p
      <4>1. p \in SUBSET (1 .. n) /\ h[p] = g[p] BY <2>4, <3>2
      <4>2. p \ {Max(p)} \in SUBSET (1 .. n + 1) /\ n + 1 \notin p \ {Max(p)} BY <3>2
      <4>3. h[p \ {Max(p)}] = g[p \ {Max(p)}] BY <2>4, <4>2
      <4>4. g[p] = IF p = {} THEN base ELSE f[<<g[p \ {Max(p)}], s[Max(p)]>>]
        BY <2>1, <4>1 DEF Folding
      <4>5. QED BY <4>1, <4>3, <4>4
    <3>3. QED BY <3>1, <3>2
  <2>7. Folding(h, f, base, s, n + 1) BY <2>6 DEF Folding
  <2>8. QED BY <2>5, <2>7
<1>3. \A n \in Nat : n \in T
  <2> HIDE DEF T
  <2> QED BY <1>1, <1>2, SetInduction
<1>4. Exists(Len(s))
  <2> HIDE DEF Exists
  <2> QED BY <1>0, <1>3
<1>5. QED BY <1>4

(* From one prefix to the next. *)
LEMMA NextPrefix ==
  ASSUME NEW N \in Nat, NEW n \in 0 .. N - 1
  PROVE  /\ n \in Nat /\ n + 1 \in 1 .. N /\ 1 .. n + 1 \in SUBSET (1 .. N) /\ 1 .. n + 1 # {}
         /\ Max(1 .. n + 1) = n + 1 /\ (1 .. n + 1) \ {n + 1} = 1 .. n
<1>1. n \in Nat /\ n + 1 \in 1 .. N /\ 1 .. n + 1 \in SUBSET (1 .. N) /\ n + 1 \in 1 .. n + 1
  OBVIOUS
<1>2. Max(1 .. n + 1) = n + 1 BY <1>1, TopOf
<1>3. QED BY <1>1, <1>2

-----------------------------------------------------------------------------
(* The transfers of a case, log by log. *)

Transfers == [count : 0 .. MaxTransfers, logs : Seq(LogEntry),
              notes : SUBSET {"transfers", "decode"}, over : BOOLEAN]

LEMMA ReadLogType ==
  ASSUME NEW acc \in Transfers, NEW l \in LogEntry
  PROVE  ReadLog(acc, l) \in Transfers
<1> DEFINE room == MaxTransfers - acc.count
<1>1. MaxTransfers \in Nat /\ acc.count \in 0 .. MaxTransfers /\ l.items \in Nat
  BY InvestigationAssumption DEF Transfers, LogEntry
<1>2. room \in Nat BY <1>1
<1>3. Min({l.items, room}) = IF l.items <= room THEN l.items ELSE room BY <1>1, <1>2, SmallerOf
<1>4. acc.count + Min({l.items, room}) \in 0 .. MaxTransfers BY <1>1, <1>2, <1>3
<1>5. acc.logs \in Seq(LogEntry) /\ Append(acc.logs, l) \in Seq(LogEntry) BY DEF Transfers
<1>6. (l.items > room) \in BOOLEAN BY <1>1, <1>2
<1> HIDE DEF room
<1>7. CASE acc.over BY <1>7 DEF ReadLog
<1>8. CASE ~acc.over /\ room = 0 BY <1>8 DEF ReadLog, Transfers, room
<1>9. CASE ~acc.over /\ room > 0 /\ l.fate = "told" BY <1>9 DEF ReadLog, Transfers, room
<1>9a. CASE ~acc.over /\ room > 0 /\ l.fate = "passed" BY <1>2, <1>9a DEF ReadLog, room
<1>10. CASE ~acc.over /\ room > 0 /\ l.fate = "read"
  <2> DEFINE new == [count |-> acc.count + Min({l.items, room}),
                     logs  |-> IF l.items > 0 THEN Append(acc.logs, l) ELSE acc.logs,
                     notes |-> acc.notes \cup (IF l.items > room THEN {"transfers"} ELSE {}),
                     over  |-> l.items > room]
  <2>1. ReadLog(acc, l) = new BY <1>2, <1>10 DEF ReadLog, room
  <2>2. new \in Transfers BY <1>4, <1>5, <1>6 DEF Transfers
  <2>3. QED BY <2>1, <2>2
<1>11. l.fate \in Fates BY DEF LogEntry
<1>12. QED BY <1>2, <1>7, <1>8, <1>9, <1>9a, <1>10, <1>11 DEF Fates, Transfers

(* The transfers of a list of logs. *)
TransfersOf(s) == FoldLeft(ReadLog, NoTransfers, s)

LEMMA TransferUnfold ==
  ASSUME NEW s \in Seq(LogEntry)
  PROVE  TransfersOf(s) = (CHOOSE g : g = [p \in SUBSET (1 .. Len(s)) |->
                       IF p = {} THEN NoTransfers
                       ELSE ReadLog(g[p \ {Max(p)}], s[Max(p)])])[1 .. Len(s)]
<1>1. DOMAIN s = 1 .. Len(s) OBVIOUS
<1>2. QED BY <1>1, Zenon DEF TransfersOf, FoldLeft, MapThenFoldSet

LEMMA TransferSteps ==
  ASSUME NEW s \in Seq(LogEntry)
  PROVE  \E a \in [0 .. Len(s) -> Transfers] :
           /\ a[0] = NoTransfers /\ TransfersOf(s) = a[Len(s)]
           /\ \A n \in 0 .. Len(s) - 1 : a[n + 1] = ReadLog(a[n], s[n + 1])
<1> DEFINE N == Len(s)
           f == [x \in Transfers \X LogEntry |-> ReadLog(x[1], x[2])]
           Step(g) == [p \in SUBSET (1 .. N) |->
                         IF p = {} THEN NoTransfers ELSE ReadLog(g[p \ {Max(p)}], s[Max(p)])]
           g == CHOOSE h : h = Step(h)
<1>1. N \in Nat OBVIOUS
<1>2. f \in [Transfers \X LogEntry -> Transfers] BY ReadLogType
<1>3. NoTransfers \in Transfers BY InvestigationAssumption DEF NoTransfers, Transfers
<1>4. \E h : h = Step(h)
  <2>1. PICK h \in [SUBSET (1 .. N) -> Transfers] : Folding(h, f, NoTransfers, s, N)
    BY <1>2, <1>3, FoldExists
  <2>2. ASSUME NEW p \in SUBSET (1 .. N) PROVE h[p] = Step(h)[p]
    <3>1. CASE p = {} BY <2>1, <3>1 DEF Folding
    <3>2. CASE p # {}
      <4>1. Max(p) \in 1 .. N /\ p \ {Max(p)} \in SUBSET (1 .. N) BY <1>1, <3>2, LargestOf
      <4>2. s[Max(p)] \in LogEntry /\ h[p \ {Max(p)}] \in Transfers BY <4>1
      <4>3. h[p] = f[<<h[p \ {Max(p)}], s[Max(p)]>>] BY <2>1, <3>2 DEF Folding
      <4>4. QED BY <3>2, <4>2, <4>3
    <3>3. QED BY <3>1, <3>2
  <2>3. h = Step(h) BY <2>2
  <2>4. QED BY <2>3
<1>5. g = Step(g) BY <1>4, Zenon
<1>6. TransfersOf(s) = g[1 .. N] BY TransferUnfold
<1> HIDE DEF g
<1> DEFINE a == [n \in 0 .. N |-> g[1 .. n]]
<1>7. g[{}] = NoTransfers BY <1>5
<1>8. ASSUME NEW n \in 0 .. N - 1 PROVE g[1 .. n + 1] = ReadLog(g[1 .. n], s[n + 1])
  <2>1. /\ 1 .. n + 1 \in SUBSET (1 .. N) /\ 1 .. n + 1 # {}
        /\ Max(1 .. n + 1) = n + 1 /\ (1 .. n + 1) \ {n + 1} = 1 .. n
    BY <1>1, NextPrefix
  <2>2. QED BY <1>5, <2>1
<1>9. a[0] = NoTransfers /\ TransfersOf(s) = a[N]
  <2>1. 1 .. 0 = {} /\ 0 \in 0 .. N /\ N \in 0 .. N BY <1>1
  <2>2. QED BY <1>6, <1>7, <2>1
<1>10. ASSUME NEW n \in 0 .. N - 1 PROVE a[n + 1] = ReadLog(a[n], s[n + 1])
  <2>1. n \in 0 .. N /\ n + 1 \in 0 .. N BY <1>1
  <2>2. QED BY <1>8, <2>1
<1>11. a \in [0 .. N -> Transfers]
  <2> DEFINE T == {n \in Nat : n <= N => a[n] \in Transfers}
  <2>1. 0 \in T BY <1>3, <1>9
  <2>2. ASSUME NEW n \in Nat, n \in T PROVE n + 1 \in T
    <3> SUFFICES ASSUME n + 1 <= N PROVE a[n + 1] \in Transfers OBVIOUS
    <3>1. n \in 0 .. N - 1 /\ n + 1 \in 1 .. N /\ a[n] \in Transfers BY <1>1, <2>2
    <3>2. s[n + 1] \in LogEntry BY <3>1
    <3>3. a[n + 1] = ReadLog(a[n], s[n + 1]) BY <1>10, <3>1
    <3> HIDE DEF a
    <3>4. QED BY <3>1, <3>2, <3>3, ReadLogType
  <2>3. \A n \in Nat : n \in T
    <3> HIDE DEF T
    <3> QED BY <2>1, <2>2, SetInduction
  <2>4. ASSUME NEW n \in 0 .. N PROVE a[n] \in Transfers
    <3> HIDE DEF a
    <3>1. n \in Nat /\ n <= N BY <1>1
    <3>2. QED BY <2>3, <3>1
  <2>5. QED BY <2>4
<1>12. QED BY <1>9, <1>10, <1>11

LEMMA AddItemsType == \A n \in Nat, l \in LogEntry : AddItems(n, l) \in Nat
  BY DEF AddItems, LogEntry

(* The number of transfers a list of logs records. *)
ItemsOf(s) == FoldLeft(AddItems, 0, s)

LEMMA ItemUnfold ==
  ASSUME NEW s \in Seq(LogEntry)
  PROVE  ItemsOf(s) = (CHOOSE g : g = [p \in SUBSET (1 .. Len(s)) |->
                       IF p = {} THEN 0
                       ELSE AddItems(g[p \ {Max(p)}], s[Max(p)])])[1 .. Len(s)]
<1>1. DOMAIN s = 1 .. Len(s) OBVIOUS
<1>2. QED BY <1>1, Zenon DEF ItemsOf, FoldLeft, MapThenFoldSet

LEMMA ItemSteps ==
  ASSUME NEW s \in Seq(LogEntry)
  PROVE  \E a \in [0 .. Len(s) -> Nat] :
           /\ a[0] = 0 /\ ItemsOf(s) = a[Len(s)]
           /\ \A n \in 0 .. Len(s) - 1 : a[n + 1] = AddItems(a[n], s[n + 1])
<1> DEFINE N == Len(s)
           f == [x \in Nat \X LogEntry |-> AddItems(x[1], x[2])]
           Step(g) == [p \in SUBSET (1 .. N) |->
                         IF p = {} THEN 0 ELSE AddItems(g[p \ {Max(p)}], s[Max(p)])]
           g == CHOOSE h : h = Step(h)
<1>1. N \in Nat OBVIOUS
<1>2. f \in [Nat \X LogEntry -> Nat] BY AddItemsType
<1>3. 0 \in Nat OBVIOUS
<1>4. \E h : h = Step(h)
  <2>1. PICK h \in [SUBSET (1 .. N) -> Nat] : Folding(h, f, 0, s, N)
    BY <1>2, <1>3, FoldExists
  <2>2. ASSUME NEW p \in SUBSET (1 .. N) PROVE h[p] = Step(h)[p]
    <3>1. CASE p = {} BY <2>1, <3>1 DEF Folding
    <3>2. CASE p # {}
      <4>1. Max(p) \in 1 .. N /\ p \ {Max(p)} \in SUBSET (1 .. N) BY <1>1, <3>2, LargestOf
      <4>2. s[Max(p)] \in LogEntry /\ h[p \ {Max(p)}] \in Nat BY <4>1
      <4>3. h[p] = f[<<h[p \ {Max(p)}], s[Max(p)]>>] BY <2>1, <3>2 DEF Folding
      <4>4. QED BY <3>2, <4>2, <4>3
    <3>3. QED BY <3>1, <3>2
  <2>3. h = Step(h) BY <2>2
  <2>4. QED BY <2>3
<1>5. g = Step(g) BY <1>4, Zenon
<1>6. ItemsOf(s) = g[1 .. N] BY ItemUnfold
<1> HIDE DEF g
<1> DEFINE a == [n \in 0 .. N |-> g[1 .. n]]
<1>7. g[{}] = 0 BY <1>5
<1>8. ASSUME NEW n \in 0 .. N - 1 PROVE g[1 .. n + 1] = AddItems(g[1 .. n], s[n + 1])
  <2>1. /\ 1 .. n + 1 \in SUBSET (1 .. N) /\ 1 .. n + 1 # {}
        /\ Max(1 .. n + 1) = n + 1 /\ (1 .. n + 1) \ {n + 1} = 1 .. n
    BY <1>1, NextPrefix
  <2>2. QED BY <1>5, <2>1
<1>9. a[0] = 0 /\ ItemsOf(s) = a[N]
  <2>1. 1 .. 0 = {} /\ 0 \in 0 .. N /\ N \in 0 .. N BY <1>1
  <2>2. QED BY <1>6, <1>7, <2>1
<1>10. ASSUME NEW n \in 0 .. N - 1 PROVE a[n + 1] = AddItems(a[n], s[n + 1])
  <2>1. n \in 0 .. N /\ n + 1 \in 0 .. N BY <1>1
  <2>2. QED BY <1>8, <2>1
<1>11. a \in [0 .. N -> Nat]
  <2> DEFINE T == {n \in Nat : n <= N => a[n] \in Nat}
  <2>1. 0 \in T BY <1>3, <1>9
  <2>2. ASSUME NEW n \in Nat, n \in T PROVE n + 1 \in T
    <3> SUFFICES ASSUME n + 1 <= N PROVE a[n + 1] \in Nat OBVIOUS
    <3>1. n \in 0 .. N - 1 /\ n + 1 \in 1 .. N /\ a[n] \in Nat BY <1>1, <2>2
    <3>2. s[n + 1] \in LogEntry BY <3>1
    <3>3. a[n + 1] = AddItems(a[n], s[n + 1]) BY <1>10, <3>1
    <3> HIDE DEF a
    <3>4. QED BY <3>1, <3>2, <3>3, AddItemsType
  <2>3. \A n \in Nat : n \in T
    <3> HIDE DEF T
    <3> QED BY <2>1, <2>2, SetInduction
  <2>4. ASSUME NEW n \in 0 .. N PROVE a[n] \in Nat
    <3> HIDE DEF a
    <3>1. n \in Nat /\ n <= N BY <1>1
    <3>2. QED BY <2>3, <3>1
  <2>5. QED BY <2>4
<1>12. QED BY <1>9, <1>10, <1>11

-----------------------------------------------------------------------------
(* The state diff, account by account. *)

Diffs == [count : 0 .. MaxSlots, cut : BOOLEAN]

LEMMA ReadAccountType ==
  ASSUME NEW acc \in Diffs, NEW slots \in Nat
  PROVE  ReadAccount(acc, slots) \in Diffs
<1> DEFINE room == MaxSlots - acc.count
<1>1. MaxSlots \in Nat /\ acc.count \in 0 .. MaxSlots /\ acc.cut \in BOOLEAN
  BY InvestigationAssumption DEF Diffs
<1>2. room \in Nat BY <1>1
<1>3. Min({slots, room}) = IF slots <= room THEN slots ELSE room BY <1>2, SmallerOf
<1>4. acc.count + Min({slots, room}) \in 0 .. MaxSlots BY <1>1, <1>2, <1>3
<1>5. (acc.cut \/ slots > room) \in BOOLEAN OBVIOUS
<1>6. QED BY <1>4, <1>5 DEF ReadAccount, Diffs

(* The state diff of a list of accounts. *)
DiffOf(start, s) == FoldLeft(ReadAccount, start, s)

LEMMA DiffUnfold ==
  ASSUME NEW start \in Diffs, NEW s \in Seq(Nat)
  PROVE  DiffOf(start, s) = (CHOOSE g : g = [p \in SUBSET (1 .. Len(s)) |->
                       IF p = {} THEN start
                       ELSE ReadAccount(g[p \ {Max(p)}], s[Max(p)])])[1 .. Len(s)]
<1>1. DOMAIN s = 1 .. Len(s) OBVIOUS
<1>2. QED BY <1>1, Zenon DEF DiffOf, FoldLeft, MapThenFoldSet

LEMMA DiffSteps ==
  ASSUME NEW start \in Diffs, NEW s \in Seq(Nat)
  PROVE  \E a \in [0 .. Len(s) -> Diffs] :
           /\ a[0] = start /\ DiffOf(start, s) = a[Len(s)]
           /\ \A n \in 0 .. Len(s) - 1 : a[n + 1] = ReadAccount(a[n], s[n + 1])
<1> DEFINE N == Len(s)
           f == [x \in Diffs \X Nat |-> ReadAccount(x[1], x[2])]
           Step(g) == [p \in SUBSET (1 .. N) |->
                         IF p = {} THEN start ELSE ReadAccount(g[p \ {Max(p)}], s[Max(p)])]
           g == CHOOSE h : h = Step(h)
<1>1. N \in Nat OBVIOUS
<1>2. f \in [Diffs \X Nat -> Diffs] BY ReadAccountType
<1>3. start \in Diffs OBVIOUS
<1>4. \E h : h = Step(h)
  <2>1. PICK h \in [SUBSET (1 .. N) -> Diffs] : Folding(h, f, start, s, N)
    BY <1>2, <1>3, FoldExists
  <2>2. ASSUME NEW p \in SUBSET (1 .. N) PROVE h[p] = Step(h)[p]
    <3>1. CASE p = {} BY <2>1, <3>1 DEF Folding
    <3>2. CASE p # {}
      <4>1. Max(p) \in 1 .. N /\ p \ {Max(p)} \in SUBSET (1 .. N) BY <1>1, <3>2, LargestOf
      <4>2. s[Max(p)] \in Nat /\ h[p \ {Max(p)}] \in Diffs BY <4>1
      <4>3. h[p] = f[<<h[p \ {Max(p)}], s[Max(p)]>>] BY <2>1, <3>2 DEF Folding
      <4>4. QED BY <3>2, <4>2, <4>3
    <3>3. QED BY <3>1, <3>2
  <2>3. h = Step(h) BY <2>2
  <2>4. QED BY <2>3
<1>5. g = Step(g) BY <1>4, Zenon
<1>6. DiffOf(start, s) = g[1 .. N] BY DiffUnfold
<1> HIDE DEF g
<1> DEFINE a == [n \in 0 .. N |-> g[1 .. n]]
<1>7. g[{}] = start BY <1>5
<1>8. ASSUME NEW n \in 0 .. N - 1 PROVE g[1 .. n + 1] = ReadAccount(g[1 .. n], s[n + 1])
  <2>1. /\ 1 .. n + 1 \in SUBSET (1 .. N) /\ 1 .. n + 1 # {}
        /\ Max(1 .. n + 1) = n + 1 /\ (1 .. n + 1) \ {n + 1} = 1 .. n
    BY <1>1, NextPrefix
  <2>2. QED BY <1>5, <2>1
<1>9. a[0] = start /\ DiffOf(start, s) = a[N]
  <2>1. 1 .. 0 = {} /\ 0 \in 0 .. N /\ N \in 0 .. N BY <1>1
  <2>2. QED BY <1>6, <1>7, <2>1
<1>10. ASSUME NEW n \in 0 .. N - 1 PROVE a[n + 1] = ReadAccount(a[n], s[n + 1])
  <2>1. n \in 0 .. N /\ n + 1 \in 0 .. N BY <1>1
  <2>2. QED BY <1>8, <2>1
<1>11. a \in [0 .. N -> Diffs]
  <2> DEFINE T == {n \in Nat : n <= N => a[n] \in Diffs}
  <2>1. 0 \in T BY <1>3, <1>9
  <2>2. ASSUME NEW n \in Nat, n \in T PROVE n + 1 \in T
    <3> SUFFICES ASSUME n + 1 <= N PROVE a[n + 1] \in Diffs OBVIOUS
    <3>1. n \in 0 .. N - 1 /\ n + 1 \in 1 .. N /\ a[n] \in Diffs BY <1>1, <2>2
    <3>2. s[n + 1] \in Nat BY <3>1
    <3>3. a[n + 1] = ReadAccount(a[n], s[n + 1]) BY <1>10, <3>1
    <3> HIDE DEF a
    <3>4. QED BY <3>1, <3>2, <3>3, ReadAccountType
  <2>3. \A n \in Nat : n \in T
    <3> HIDE DEF T
    <3> QED BY <2>1, <2>2, SetInduction
  <2>4. ASSUME NEW n \in 0 .. N PROVE a[n] \in Diffs
    <3> HIDE DEF a
    <3>1. n \in Nat /\ n <= N BY <1>1
    <3>2. QED BY <2>3, <3>1
  <2>5. QED BY <2>4
<1>12. QED BY <1>9, <1>10, <1>11

LEMMA AddSlotsType == \A n \in Nat, k \in Nat : AddSlots(n, k) \in Nat
  BY DEF AddSlots

(* The number of slots a list of accounts changes. *)
SlotsOf(s) == FoldLeft(AddSlots, 0, s)

LEMMA SlotUnfold ==
  ASSUME NEW s \in Seq(Nat)
  PROVE  SlotsOf(s) = (CHOOSE g : g = [p \in SUBSET (1 .. Len(s)) |->
                       IF p = {} THEN 0
                       ELSE AddSlots(g[p \ {Max(p)}], s[Max(p)])])[1 .. Len(s)]
<1>1. DOMAIN s = 1 .. Len(s) OBVIOUS
<1>2. QED BY <1>1, Zenon DEF SlotsOf, FoldLeft, MapThenFoldSet

LEMMA SlotSteps ==
  ASSUME NEW s \in Seq(Nat)
  PROVE  \E a \in [0 .. Len(s) -> Nat] :
           /\ a[0] = 0 /\ SlotsOf(s) = a[Len(s)]
           /\ \A n \in 0 .. Len(s) - 1 : a[n + 1] = AddSlots(a[n], s[n + 1])
<1> DEFINE N == Len(s)
           f == [x \in Nat \X Nat |-> AddSlots(x[1], x[2])]
           Step(g) == [p \in SUBSET (1 .. N) |->
                         IF p = {} THEN 0 ELSE AddSlots(g[p \ {Max(p)}], s[Max(p)])]
           g == CHOOSE h : h = Step(h)
<1>1. N \in Nat OBVIOUS
<1>2. f \in [Nat \X Nat -> Nat] BY AddSlotsType
<1>3. 0 \in Nat OBVIOUS
<1>4. \E h : h = Step(h)
  <2>1. PICK h \in [SUBSET (1 .. N) -> Nat] : Folding(h, f, 0, s, N)
    BY <1>2, <1>3, FoldExists
  <2>2. ASSUME NEW p \in SUBSET (1 .. N) PROVE h[p] = Step(h)[p]
    <3>1. CASE p = {} BY <2>1, <3>1 DEF Folding
    <3>2. CASE p # {}
      <4>1. Max(p) \in 1 .. N /\ p \ {Max(p)} \in SUBSET (1 .. N) BY <1>1, <3>2, LargestOf
      <4>2. s[Max(p)] \in Nat /\ h[p \ {Max(p)}] \in Nat BY <4>1
      <4>3. h[p] = f[<<h[p \ {Max(p)}], s[Max(p)]>>] BY <2>1, <3>2 DEF Folding
      <4>4. QED BY <3>2, <4>2, <4>3
    <3>3. QED BY <3>1, <3>2
  <2>3. h = Step(h) BY <2>2
  <2>4. QED BY <2>3
<1>5. g = Step(g) BY <1>4, Zenon
<1>6. SlotsOf(s) = g[1 .. N] BY SlotUnfold
<1> HIDE DEF g
<1> DEFINE a == [n \in 0 .. N |-> g[1 .. n]]
<1>7. g[{}] = 0 BY <1>5
<1>8. ASSUME NEW n \in 0 .. N - 1 PROVE g[1 .. n + 1] = AddSlots(g[1 .. n], s[n + 1])
  <2>1. /\ 1 .. n + 1 \in SUBSET (1 .. N) /\ 1 .. n + 1 # {}
        /\ Max(1 .. n + 1) = n + 1 /\ (1 .. n + 1) \ {n + 1} = 1 .. n
    BY <1>1, NextPrefix
  <2>2. QED BY <1>5, <2>1
<1>9. a[0] = 0 /\ SlotsOf(s) = a[N]
  <2>1. 1 .. 0 = {} /\ 0 \in 0 .. N /\ N \in 0 .. N BY <1>1
  <2>2. QED BY <1>6, <1>7, <2>1
<1>10. ASSUME NEW n \in 0 .. N - 1 PROVE a[n + 1] = AddSlots(a[n], s[n + 1])
  <2>1. n \in 0 .. N /\ n + 1 \in 0 .. N BY <1>1
  <2>2. QED BY <1>8, <2>1
<1>11. a \in [0 .. N -> Nat]
  <2> DEFINE T == {n \in Nat : n <= N => a[n] \in Nat}
  <2>1. 0 \in T BY <1>3, <1>9
  <2>2. ASSUME NEW n \in Nat, n \in T PROVE n + 1 \in T
    <3> SUFFICES ASSUME n + 1 <= N PROVE a[n + 1] \in Nat OBVIOUS
    <3>1. n \in 0 .. N - 1 /\ n + 1 \in 1 .. N /\ a[n] \in Nat BY <1>1, <2>2
    <3>2. s[n + 1] \in Nat BY <3>1
    <3>3. a[n + 1] = AddSlots(a[n], s[n + 1]) BY <1>10, <3>1
    <3> HIDE DEF a
    <3>4. QED BY <3>1, <3>2, <3>3, AddSlotsType
  <2>3. \A n \in Nat : n \in T
    <3> HIDE DEF T
    <3> QED BY <2>1, <2>2, SetInduction
  <2>4. ASSUME NEW n \in 0 .. N PROVE a[n] \in Nat
    <3> HIDE DEF a
    <3>1. n \in Nat /\ n <= N BY <1>1
    <3>2. QED BY <2>3, <3>1
  <2>5. QED BY <2>4
<1>12. QED BY <1>9, <1>10, <1>11

-----------------------------------------------------------------------------
(* A case that names no cap has every transfer the logs record, and every *)
(* slot of the state diff.                                                  *)
LEMMA TakeIs ==
  ASSUME NEW S, NEW s \in Seq(S), NEW n \in Nat
  PROVE  Take(s, n) \in Seq(S) /\ (Len(s) <= n => Take(s, n) = s)
<1>1. Len(s) \in Nat OBVIOUS
<1>2. Min({n, Len(s)}) = IF n <= Len(s) THEN n ELSE Len(s) BY <1>1, SmallerOf
<1>3. Min({n, Len(s)}) \in 0 .. Len(s) /\ (Len(s) <= n => Min({n, Len(s)}) = Len(s)) BY <1>1, <1>2
<1> DEFINE m == Min({n, Len(s)})
<1> HIDE DEF m
<1>4. m \in 0 .. Len(s) /\ (Len(s) <= n => m = Len(s)) BY <1>3 DEF m
<1>5. /\ SubSeq(s, 1, m) \in Seq(S) /\ Len(SubSeq(s, 1, m)) = m
      /\ \A i \in 1 .. m : SubSeq(s, 1, m)[i] = s[i]
  BY <1>1, <1>4
<1>6. Len(s) <= n => SubSeq(s, 1, m) = s BY <1>4, <1>5, SeqEqual
<1>7. QED BY <1>5, <1>6 DEF Take, m

LEMMA KeptLogsAre ==
  ASSUME ev.receipt \in Branches
  PROVE  /\ Logs[ev.receipt] \in Seq(LogEntry) /\ KeptLogs \in Seq(LogEntry)
         /\ Len(Logs[ev.receipt]) <= MaxLogs => KeptLogs = Logs[ev.receipt]
<1>1. Logs[ev.receipt] \in Seq(LogEntry) /\ MaxLogs \in Nat BY InvestigationAssumption
<1>2. QED BY <1>1, TakeIs DEF KeptLogs

LEMMA TransferredIs == Transferred = TransfersOf(KeptLogs)
  BY DEF Transferred, TransfersOf

LEMMA RecordedIs == Recorded = ItemsOf(Logs[ev.receipt])
  BY DEF Recorded, ItemsOf

LEMMA TransferredType ==
  ASSUME ev.receipt \in Branches
  PROVE  Transferred \in Transfers
<1>1. KeptLogs \in Seq(LogEntry) BY KeptLogsAre
<1>2. PICK a \in [0 .. Len(KeptLogs) -> Transfers] : TransfersOf(KeptLogs) = a[Len(KeptLogs)]
  BY <1>1, TransferSteps
<1>3. Len(KeptLogs) \in 0 .. Len(KeptLogs) BY <1>1
<1>4. QED BY <1>2, <1>3, TransferredIs

(* A log that leaves no note adds all its transfers. *)
LEMMA ReadLogComplete ==
  ASSUME NEW acc \in Transfers, NEW l \in LogEntry, ReadLog(acc, l).notes = {}
  PROVE  /\ acc.notes = {}
         /\ ~acc.over => ~ReadLog(acc, l).over /\ ReadLog(acc, l).count = AddItems(acc.count, l)
<1> DEFINE room == MaxTransfers - acc.count
<1>1. /\ MaxTransfers \in Nat /\ acc.count \in 0 .. MaxTransfers /\ l.items \in Nat
      /\ acc.notes \in SUBSET {"transfers", "decode"} /\ acc.over \in BOOLEAN
      /\ acc = [count |-> acc.count, logs |-> acc.logs, notes |-> acc.notes, over |-> acc.over]
  BY InvestigationAssumption DEF Transfers, LogEntry
<1>2. room \in Nat BY <1>1
<1>3. Min({l.items, room}) = IF l.items <= room THEN l.items ELSE room BY <1>1, <1>2, SmallerOf
<1> HIDE DEF room
<1>4. CASE acc.over BY <1>4 DEF ReadLog
<1>5. CASE ~acc.over /\ room = 0
  <2>1. ReadLog(acc, l) = [acc EXCEPT !.notes = @ \cup {"transfers"}, !.over = TRUE]
    BY <1>5 DEF ReadLog, room
  <2>2. "transfers" \in ReadLog(acc, l).notes BY <1>1, <2>1
  <2>3. QED BY <2>2
<1>6. CASE ~acc.over /\ room > 0 /\ l.fate = "told"
  <2>1. ReadLog(acc, l) = [acc EXCEPT !.notes = @ \cup {"decode"}]
    BY <1>2, <1>6 DEF ReadLog, room
  <2>2. "decode" \in ReadLog(acc, l).notes BY <1>1, <2>1
  <2>3. QED BY <2>2
<1>6a. CASE ~acc.over /\ room > 0 /\ l.fate = "passed"
  <2>1. ReadLog(acc, l) = acc BY <1>2, <1>6a DEF ReadLog, room
  <2>2. QED BY <1>1, <1>6a, <2>1 DEF AddItems
<1>7. CASE ~acc.over /\ room > 0 /\ l.fate = "read"
  <2>1. ReadLog(acc, l) =
          [count |-> acc.count + Min({l.items, room}),
           logs  |-> IF l.items > 0 THEN Append(acc.logs, l) ELSE acc.logs,
           notes |-> acc.notes \cup (IF l.items > room THEN {"transfers"} ELSE {}),
           over  |-> l.items > room]
    BY <1>2, <1>7 DEF ReadLog, room
  <2>2. acc.notes = {} /\ ~(l.items > room) BY <2>1
  <2>3. ReadLog(acc, l).over = (l.items > room) BY <2>1
  <2>4. ReadLog(acc, l).count = acc.count + Min({l.items, room}) BY <2>1
  <2>5. Min({l.items, room}) = l.items BY <1>1, <1>2, <1>3, <2>2
  <2>6. QED BY <1>7, <2>2, <2>3, <2>4, <2>5 DEF AddItems
<1>8. l.fate \in Fates BY DEF LogEntry
<1>9. QED BY <1>1, <1>2, <1>4, <1>5, <1>6, <1>6a, <1>7, <1>8 DEF Fates

LEMMA AllTransfers ==
  ASSUME NEW s \in Seq(LogEntry), TransfersOf(s).notes = {}
  PROVE  TransfersOf(s).count = ItemsOf(s)
<1> DEFINE N == Len(s)
<1>1. N \in Nat OBVIOUS
<1>2. PICK a \in [0 .. N -> Transfers] :
        /\ a[0] = NoTransfers /\ TransfersOf(s) = a[N]
        /\ \A n \in 0 .. N - 1 : a[n + 1] = ReadLog(a[n], s[n + 1])
  BY TransferSteps
<1>3. PICK b \in [0 .. N -> Nat] :
        /\ b[0] = 0 /\ ItemsOf(s) = b[N]
        /\ \A n \in 0 .. N - 1 : b[n + 1] = AddItems(b[n], s[n + 1])
  BY ItemSteps
<1> DEFINE Same(n) == a[n].notes = {} => ~a[n].over /\ a[n].count = b[n]
           T == {n \in Nat : n <= N => Same(n)}
<1>4. 0 \in T BY <1>2, <1>3 DEF NoTransfers
<1>5. ASSUME NEW n \in Nat, n \in T PROVE n + 1 \in T
  <2> SUFFICES ASSUME n + 1 <= N, a[n + 1].notes = {}
               PROVE  ~a[n + 1].over /\ a[n + 1].count = b[n + 1]
    OBVIOUS
  <2>1. n \in 0 .. N - 1 /\ n \in 0 .. N /\ n + 1 \in 1 .. N /\ Same(n) BY <1>1, <1>5
  <2>2. a[n] \in Transfers /\ s[n + 1] \in LogEntry BY <2>1
  <2>3. a[n + 1] = ReadLog(a[n], s[n + 1]) /\ b[n + 1] = AddItems(b[n], s[n + 1])
    BY <1>2, <1>3, <2>1
  <2>4. ReadLog(a[n], s[n + 1]).notes = {} BY <2>3
  <2>5. /\ a[n].notes = {}
        /\ ~a[n].over => /\ ~ReadLog(a[n], s[n + 1]).over
                         /\ ReadLog(a[n], s[n + 1]).count = AddItems(a[n].count, s[n + 1])
    BY <2>2, <2>4, ReadLogComplete
  <2>6. QED BY <2>1, <2>3, <2>5
<1>6. \A n \in Nat : n \in T
  <2> HIDE DEF T
  <2> QED BY <1>4, <1>5, SetInduction
<1>7. Same(N)
  <2> HIDE DEF Same
  <2> QED BY <1>1, <1>6
<1>8. QED BY <1>2, <1>3, <1>7

(* What the transfers of a case lack of the receipt's, its notes tell. *)
LEMMA TransfersTold ==
  ASSUME ev.receipt \in Branches, Len(Logs[ev.receipt]) <= MaxLogs, Transferred.notes = {}
  PROVE  Transferred.count = Recorded
<1>1. Logs[ev.receipt] \in Seq(LogEntry) /\ KeptLogs = Logs[ev.receipt] BY KeptLogsAre
<1>2. Transferred = TransfersOf(Logs[ev.receipt]) BY <1>1, TransferredIs
<1>3. QED BY <1>1, <1>2, AllTransfers, RecordedIs
-----------------------------------------------------------------------------
(* The same for the slots. *)
LEMMA ReadAccountComplete ==
  ASSUME NEW acc \in Diffs, NEW slots \in Nat, ~ReadAccount(acc, slots).cut
  PROVE  ~acc.cut /\ ReadAccount(acc, slots).count = AddSlots(acc.count, slots)
<1> DEFINE room == MaxSlots - acc.count
<1>1. /\ MaxSlots \in Nat /\ acc.count \in 0 .. MaxSlots /\ acc.cut \in BOOLEAN
      /\ acc = [count |-> acc.count, cut |-> acc.cut]
  BY InvestigationAssumption DEF Diffs
<1>2. room \in Nat BY <1>1
<1>3. Min({slots, room}) = IF slots <= room THEN slots ELSE room BY <1>2, SmallerOf
<1>4. /\ ReadAccount(acc, slots).count = acc.count + Min({slots, room})
      /\ ReadAccount(acc, slots).cut = (acc.cut \/ slots > room)
  BY <1>1 DEF ReadAccount
<1> HIDE DEF room
<1>5. ~acc.cut /\ ~(slots > room) BY <1>4
<1>6. Min({slots, room}) = slots BY <1>2, <1>3, <1>5
<1>7. QED BY <1>4, <1>5, <1>6 DEF AddSlots

LEMMA AllSlots ==
  ASSUME NEW start \in Diffs, start.count = 0, NEW s \in Seq(Nat), ~DiffOf(start, s).cut
  PROVE  ~start.cut /\ DiffOf(start, s).count = SlotsOf(s)
<1> DEFINE N == Len(s)
<1>1. N \in Nat OBVIOUS
<1>2. PICK a \in [0 .. N -> Diffs] :
        /\ a[0] = start /\ DiffOf(start, s) = a[N]
        /\ \A n \in 0 .. N - 1 : a[n + 1] = ReadAccount(a[n], s[n + 1])
  BY DiffSteps
<1>3. PICK b \in [0 .. N -> Nat] :
        /\ b[0] = 0 /\ SlotsOf(s) = b[N]
        /\ \A n \in 0 .. N - 1 : b[n + 1] = AddSlots(b[n], s[n + 1])
  BY SlotSteps
<1> DEFINE Same(n) == ~a[n].cut => ~start.cut /\ a[n].count = b[n]
           T == {n \in Nat : n <= N => Same(n)}
<1>4. 0 \in T BY <1>2, <1>3
<1>5. ASSUME NEW n \in Nat, n \in T PROVE n + 1 \in T
  <2> SUFFICES ASSUME n + 1 <= N, ~a[n + 1].cut PROVE ~start.cut /\ a[n + 1].count = b[n + 1]
    OBVIOUS
  <2>1. n \in 0 .. N - 1 /\ n \in 0 .. N /\ n + 1 \in 1 .. N /\ Same(n) BY <1>1, <1>5
  <2>2. a[n] \in Diffs /\ s[n + 1] \in Nat BY <2>1
  <2>3. a[n + 1] = ReadAccount(a[n], s[n + 1]) /\ b[n + 1] = AddSlots(b[n], s[n + 1])
    BY <1>2, <1>3, <2>1
  <2>4. ~a[n].cut /\ ReadAccount(a[n], s[n + 1]).count = AddSlots(a[n].count, s[n + 1])
    BY <2>2, <2>3, ReadAccountComplete
  <2>5. QED BY <2>1, <2>3, <2>4
<1>6. \A n \in Nat : n \in T
  <2> HIDE DEF T
  <2> QED BY <1>4, <1>5, SetInduction
<1>7. Same(N)
  <2> HIDE DEF Same
  <2> QED BY <1>1, <1>6
<1>8. QED BY <1>2, <1>3, <1>7

(* A state diff that is not called cut has every changed slot. *)
LEMMA SlotsTold ==
  ASSUME NEW b \in Branches, ~StateDiff(b).cut
  PROVE  Len(Slots[b]) <= MaxAccounts /\ StateDiff(b).count = ChangedSlots(b)
<1> DEFINE start == [count |-> 0, cut |-> Len(Slots[b]) > MaxAccounts]
           s == Take(Slots[b], MaxAccounts)
<1>1. /\ Slots[b] \in Seq(Nat) /\ MaxAccounts \in Nat /\ MaxSlots \in Nat /\ Len(Slots[b]) \in Nat
  BY InvestigationAssumption
<1>2. start \in Diffs /\ start.count = 0 /\ (~start.cut => Len(Slots[b]) <= MaxAccounts)
  <2>1. 0 \in 0 .. MaxSlots /\ (Len(Slots[b]) > MaxAccounts) \in BOOLEAN BY <1>1
  <2>2. start \in Diffs BY <2>1 DEF Diffs
  <2>3. start.count = 0 OBVIOUS
  <2>4. ~start.cut => ~(Len(Slots[b]) > MaxAccounts) OBVIOUS
  <2>5. ~(Len(Slots[b]) > MaxAccounts) => Len(Slots[b]) <= MaxAccounts BY <1>1
  <2> HIDE DEF start
  <2>6. QED BY <2>2, <2>3, <2>4, <2>5
<1>3. s \in Seq(Nat) /\ (Len(Slots[b]) <= MaxAccounts => s = Slots[b]) BY <1>1, TakeIs
<1>4. StateDiff(b) = DiffOf(start, s) BY DEF StateDiff, DiffOf
<1> HIDE DEF start, s
<1>5. ~start.cut /\ DiffOf(start, s).count = SlotsOf(s) BY <1>2, <1>3, <1>4, AllSlots
<1>6. ChangedSlots(b) = SlotsOf(Slots[b]) BY DEF ChangedSlots, SlotsOf
<1>7. QED BY <1>2, <1>3, <1>4, <1>5, <1>6

-----------------------------------------------------------------------------
(* OrderInv is inductive, and KeptIsPreorder follows from it. *)
LEMMA OrderInvInit == Init => OrderInv
<1> SUFFICES ASSUME Init PROVE OrderInv OBVIOUS
<1>1. /\ kept = <<>> /\ stack = <<>> /\ truncated = FALSE /\ warnings = {} /\ ev.trace = Unknown
      /\ step = "chain_id"
  BY DEF Init, NoEvidence
<1>2. Kept = {} /\ Waiting = {} BY <1>1 DEF Kept, Waiting, Elements
<1>3. Unknown \notin Branches BY InvestigationAssumption
<1>4. Ordered BY <1>1, <1>2 DEF Ordered
<1>5. Reached /\ CutLate BY <1>1, <1>3 DEF Reached, CutLate
<1>6. CutTold BY <1>1, <1>3 DEF CutTold, Untraced, Derived
<1>7. QED BY <1>4, <1>5, <1>6 DEF OrderInv

LEMMA OrderTaken ==
  ASSUME EmptyInv, ViewInv, OrderInv, TakeTrace
  PROVE  OrderInv'
<1>1. /\ kept' = <<>> /\ stack' = <<Root>> /\ truncated' = truncated /\ warnings' = warnings
      /\ step = "trace" /\ step' = "flatten"
  BY DEF TakeTrace, Answered, EmptyInv, Untraced, Turn
<1>2. ~truncated /\ "frames" \notin warnings /\ truncated \in BOOLEAN
  BY <1>1 DEF OrderInv, CutTold, Untraced
<1>3. ev'.trace \in Branches BY DEF TakeTrace, ViewInv, Evidence
<1>4. Kept' = {} BY <1>1 DEF Kept
<1>5. Waiting' = {Root} BY <1>1 DEF Waiting, Elements
<1>6. \A q \in Paths' : Above(Root, q) BY <1>3, TraceAssumption DEF Paths
<1>7. Ordered' BY <1>1, <1>4 DEF Ordered
<1>8. QED BY <1>1, <1>2, <1>5, <1>6, <1>7 DEF OrderInv, Reached, CutLate, CutTold, Untraced, Derived

LEMMA OrderForgotten ==
  ASSUME Forget, step' \in {"died", "chain_id"}
  PROVE  OrderInv'
<1>1. /\ kept' = <<>> /\ stack' = <<>> /\ truncated' = FALSE /\ warnings' = {}
      /\ ev'.trace = Unknown
  BY DEF Forget, NoEvidence
<1>2. Kept' = {} /\ Waiting' = {} BY <1>1 DEF Kept, Waiting, Elements
<1>3. Unknown \notin Branches BY InvestigationAssumption
<1>4. Ordered' BY <1>1, <1>2 DEF Ordered
<1>5. Reached' /\ CutLate' BY <1>1, <1>3 DEF Reached, CutLate
<1>6. CutTold' BY <1>1, <1>3 DEF CutTold, Untraced, Derived
<1>7. QED BY <1>4, <1>5, <1>6 DEF OrderInv

LEMMA OrderKept ==
  ASSUME OrderInv, UNCHANGED <<kept, stack, truncated>>, ev'.trace = ev.trace
  PROVE  Ordered' /\ Reached' /\ CutLate'
<1>1. Kept' = Kept /\ Waiting' = Waiting BY DEF Kept, Waiting
<1>2. Paths' = Paths BY DEF Paths
<1>3. QED BY <1>1, <1>2 DEF OrderInv, Ordered, Reached, CutLate

LEMMA OrderInvNext ==
  TraceInv /\ EmptyInv /\ ViewInv /\ OrderInv /\ [Next]_vars => OrderInv'
<1> SUFFICES ASSUME TraceInv, EmptyInv, ViewInv, OrderInv, [Next]_vars PROVE OrderInv'
  OBVIOUS
<1>0. CutTold BY DEF OrderInv
<1>1. CASE /\ UNCHANGED <<kept, stack, truncated>> /\ ev'.trace = ev.trace
           /\ step' \in Untraced => step \in Untraced
           /\ step' \in Derived => step \in Derived \cup Untraced
           /\ step' # "flatten" \/ step = "flatten"
           /\ "frames" \in warnings' <=> "frames" \in warnings
  <2>1. CutTold' BY <1>0, <1>1 DEF CutTold, Untraced, Derived, EmptyInv
  <2>2. QED BY <1>1, <2>1, OrderKept DEF OrderInv
<1>2. CASE Wait BY <1>1, <1>2 DEF Wait, caseVars
<1>3. CASE Gather
  <2> USE DEF Untraced, Derived, Answered, Denied, Turn, Ask, Warn
  <2>1. CASE TakeChainId BY <1>1, <2>1 DEF TakeChainId, caseVars
  <2>2. CASE GiveUp BY <1>1, <2>2 DEF GiveUp, caseVars
  <2>3. CASE TakeTransaction BY <1>1, <2>3 DEF TakeTransaction, ViewInv, Evidence
  <2>4. CASE TakeReceipt BY <1>1, <2>4 DEF TakeReceipt, ViewInv, Evidence
  <2>5. CASE TakeBlock BY <1>1, <2>5 DEF TakeBlock, CapLogs
  <2>6. CASE TakeProxy BY <1>1, <2>6 DEF TakeProxy, AfterProxy, AfterTrace
  <2>7. CASE TakeTrace BY <2>7, OrderTaken
  <2>8. CASE NoTrace BY <1>1, <2>8 DEF NoTrace, AfterTrace
  <2>9. CASE Visit BY <2>9, VisitInOrder
  <2>10. CASE Flattened
    <3>1. UNCHANGED <<kept, stack, truncated>> /\ ev' = ev BY <2>10 DEF Flattened
    <3>2. /\ step = "flatten" /\ step' \in {"state_diff", "entities"} /\ stack = <<>>
          /\ warnings' = warnings \cup (IF truncated THEN {"frames"} ELSE {})
      BY <2>10 DEF Flattened, AfterTrace
    <3>3. CutTold' BY <1>0, <3>1, <3>2 DEF CutTold
    <3>4. QED BY <3>1, <3>3, OrderKept DEF OrderInv
  <2>11. CASE TakeStateDiff BY <1>1, <2>11 DEF TakeStateDiff, ViewInv, Evidence
  <2>12. CASE NoStateDiff BY <1>1, <2>12 DEF NoStateDiff
  <2>13. CASE BuildEntities
    <3>1. ev.receipt \in Branches BY <2>13 DEF BuildEntities, ViewInv, OneView
    <3>2. "frames" \notin Transferred.notes BY <3>1, TransferredType DEF Transfers
    <3>3. "frames" \notin Inconsistent BY DEF Inconsistent
    <3>4. "frames" \in warnings' <=> "frames" \in warnings
      BY <2>13, <3>2, <3>3 DEF BuildEntities
    <3>5. QED BY <1>1, <2>13, <3>4 DEF BuildEntities
  <2>14. CASE TakeCode BY <1>1, <2>14 DEF TakeCode, caseVars
  <2>15. CASE TakeParent BY <1>1, <2>15 DEF TakeParent, caseVars
  <2>16. CASE NoParent BY <1>1, <2>16 DEF NoParent
  <2>17. CASE TakeReplay BY <1>1, <2>17 DEF TakeReplay, ViewInv, Evidence
  <2>18. CASE TakeMetadata BY <1>1, <2>18 DEF TakeMetadata, caseVars
  <2>19. QED
    BY <1>3, <2>1, <2>2, <2>3, <2>4, <2>5, <2>6, <2>7, <2>8, <2>9, <2>10, <2>11, <2>12,
       <2>13, <2>14, <2>15, <2>16, <2>17, <2>18 DEF Gather
<1>4. CASE Store BY <1>1, <1>4 DEF Store, RefuseOverwrite, Write, caseVars, Turn, Untraced, Derived
<1>5. CASE Die BY <1>5, OrderForgotten DEF Die
<1>6. CASE RunAgain BY <1>6, OrderForgotten DEF RunAgain
<1>7. CASE Reorg BY <1>1, <1>7 DEF Reorg, caseVars
<1>8. CASE UNCHANGED vars BY <1>1, <1>8 DEF vars, caseVars
<1>9. QED BY <1>2, <1>3, <1>4, <1>5, <1>6, <1>7, <1>8 DEF Next, Proceed

LEMMA InOrder == TraceInv /\ OrderInv => KeptIsPreorder
<1> SUFFICES ASSUME TraceInv, OrderInv, Assembled, ev.trace \in Branches PROVE KeptIsPreorder
  BY DEF KeptIsPreorder
<1>1. stack = <<>> /\ ("frames" \in warnings <=> truncated)
  BY DEF OrderInv, CutTold, Assembled, Derived
<1>2. Waiting = {} BY <1>1 DEF Waiting, Elements
<1>3. CASE truncated BY <1>1, <1>3 DEF OrderInv, Ordered, CutLate, KeptIsPreorder, Paths
<1>4. CASE ~truncated
  <2>1. Paths \ Kept = {} BY <1>2, <1>4 DEF OrderInv, Reached
  <2>2. QED BY <1>1, <1>4, <2>1 DEF OrderInv, Ordered, KeptIsPreorder, Paths
<1>5. QED BY <1>3, <1>4

LEMMA TracesHold == Spec => [](TraceInv /\ EmptyInv)
  BY TraceInvInit, TraceInvNext, ViewsHold, PTL DEF Spec

(* Whatever the trace and the frame limit, the frames of a case are a prefix *)
(* of the order in which execution entered them, and the cut is told exactly *)
(* when there is one (_flatten_trace).                                       *)
THEOREM FramesInOrder == Spec => []KeptIsPreorder
<1>1. Spec => []OrderInv
  BY OrderInvInit, OrderInvNext, TracesHold, ViewsHold, PTL DEF Spec
<1>2. QED BY <1>1, InOrder, TracesHold, PTL

-----------------------------------------------------------------------------
(* FlattenSeq, piece by piece. *)

Flattening(f, s, n) == \A i \in 1 .. n : f[i] = IF i = 1 THEN s[i] ELSE f[i - 1] \o s[i]

LEMMA FlattenExists ==
  ASSUME NEW A, NEW s \in Seq(Seq(A))
  PROVE  \E f : f = [i \in 1 .. Len(s) |-> IF i = 1 THEN s[i] ELSE f[i - 1] \o s[i]]
<1> DEFINE Exists(n) == \E f \in [1 .. n -> Seq(A)] : Flattening(f, s, n)
           T == {n \in Nat : n <= Len(s) => Exists(n)}
<1>1. Len(s) \in Nat OBVIOUS
<1>2. 0 \in T
  <2> DEFINE f == [i \in 1 .. 0 |-> <<>>]
  <2>1. f \in [1 .. 0 -> Seq(A)] /\ Flattening(f, s, 0) BY DEF Flattening
  <2>2. Exists(0) BY <2>1
  <2> HIDE DEF Exists
  <2>3. QED BY <2>2
<1>3. ASSUME NEW n \in Nat, n \in T PROVE n + 1 \in T
  <2>0. SUFFICES ASSUME n + 1 <= Len(s) PROVE Exists(n + 1)
    <3> HIDE DEF Exists
    <3> QED OBVIOUS
  <2>1. PICK f \in [1 .. n -> Seq(A)] : Flattening(f, s, n)
    <3>1. Exists(n)
      <4> HIDE DEF Exists
      <4> QED BY <1>1, <1>3, <2>0
    <3>2. QED BY <3>1
  <2>2. s[n + 1] \in Seq(A) BY <1>1, <2>0
  <2> DEFINE last == IF n = 0 THEN s[1] ELSE f[n] \o s[n + 1]
             h == [i \in 1 .. n + 1 |-> IF i = n + 1 THEN last ELSE f[i]]
  <2>3. last \in Seq(A)
    <3>1. CASE n = 0 BY <2>2, <3>1
    <3>2. CASE n # 0
      <4>1. f[n] \in Seq(A) BY <3>2
      <4>2. QED BY <2>2, <3>2, <4>1
    <3>3. QED BY <3>1, <3>2
  <2>4. h[n + 1] = last /\ \A i \in 1 .. n : h[i] = f[i]
    <3> HIDE DEF last
    <3>1. n + 1 \in 1 .. n + 1 /\ \A i \in 1 .. n : i \in 1 .. n + 1 /\ i # n + 1 OBVIOUS
    <3>2. QED BY <3>1
  <2>5. h \in [1 .. n + 1 -> Seq(A)] BY <2>3
  <2>6. ASSUME NEW i \in 1 .. n + 1 PROVE h[i] = IF i = 1 THEN s[i] ELSE h[i - 1] \o s[i]
    <3> HIDE DEF h
    <3>1. CASE i = n + 1
      <4>1. CASE n = 0 BY <2>4, <3>1, <4>1
      <4>2. CASE n # 0
        <5>1. i # 1 /\ i - 1 = n /\ n \in 1 .. n BY <3>1, <4>2
        <5>2. QED BY <2>4, <3>1, <4>2, <5>1
      <4>3. QED BY <4>1, <4>2
    <3>2. CASE i # n + 1
      <4>1. i \in 1 .. n /\ (i # 1 => i - 1 \in 1 .. n) BY <3>2
      <4>2. f[i] = IF i = 1 THEN s[i] ELSE f[i - 1] \o s[i] BY <2>1, <4>1 DEF Flattening
      <4>3. QED BY <2>4, <4>1, <4>2
    <3>3. QED BY <3>1, <3>2
  <2> HIDE DEF h
  <2>7. Flattening(h, s, n + 1) BY <2>6 DEF Flattening
  <2>8. QED BY <2>5, <2>7
<1>4. \A n \in Nat : n \in T
  <2> HIDE DEF T
  <2> QED BY <1>2, <1>3, SetInduction
<1>5. Exists(Len(s))
  <2> HIDE DEF Exists
  <2> QED BY <1>1, <1>4
<1>6. PICK f \in [1 .. Len(s) -> Seq(A)] : Flattening(f, s, Len(s)) BY <1>5
<1>7. f = [i \in 1 .. Len(s) |-> IF i = 1 THEN s[i] ELSE f[i - 1] \o s[i]]
  BY <1>6 DEF Flattening
<1>8. QED BY <1>7

LEMMA JoinElements ==
  ASSUME NEW A, NEW s \in Seq(A), NEW t \in Seq(A)
  PROVE  s \o t \in Seq(A) /\ Elements(s \o t) = Elements(s) \cup Elements(t)
<1>1. Len(s) \in Nat /\ Len(t) \in Nat /\ s \o t \in Seq(A) /\ Len(s \o t) = Len(s) + Len(t)
  OBVIOUS
<1>2. ASSUME NEW i \in 1 .. Len(s \o t) PROVE (s \o t)[i] \in Elements(s) \cup Elements(t)
  <2>1. CASE i <= Len(s)
    <3>1. i \in 1 .. Len(s) /\ (s \o t)[i] = s[i] BY <1>1, <2>1
    <3>2. QED BY <3>1 DEF Elements
  <2>2. CASE ~(i <= Len(s))
    <3>1. i - Len(s) \in 1 .. Len(t) BY <1>1, <2>2
    <3>2. (s \o t)[i] = t[i - Len(s)] BY <1>1, <2>2
    <3>3. QED BY <3>1, <3>2 DEF Elements
  <2>3. QED BY <2>1, <2>2
<1>3. ASSUME NEW i \in 1 .. Len(s) PROVE s[i] \in Elements(s \o t)
  <2>1. i \in 1 .. Len(s \o t) /\ (s \o t)[i] = s[i] BY <1>1
  <2>2. QED BY <2>1 DEF Elements
<1>4. ASSUME NEW i \in 1 .. Len(t) PROVE t[i] \in Elements(s \o t)
  <2>1. i + Len(s) \in 1 .. Len(s \o t) /\ ~(i + Len(s) <= Len(s)) /\ (i + Len(s)) - Len(s) = i
    BY <1>1
  <2>2. (s \o t)[i + Len(s)] = t[i] BY <1>1, <2>1
  <2>3. QED BY <2>1, <2>2 DEF Elements
<1>5. \A e \in Elements(s \o t) : e \in Elements(s) \cup Elements(t) BY <1>2 DEF Elements
<1>6. \A e \in Elements(s) \cup Elements(t) : e \in Elements(s \o t) BY <1>3, <1>4 DEF Elements
<1>7. QED BY <1>1, <1>5, <1>6

(* Flattening keeps every element of every piece. *)
LEMMA FlattenHolds ==
  ASSUME NEW A, NEW s \in Seq(Seq(A))
  PROVE  /\ FlattenSeq(s) \in Seq(A)
         /\ \A i \in 1 .. Len(s) : Elements(s[i]) \subseteq Elements(FlattenSeq(s))
<1>1. Len(s) \in Nat OBVIOUS
<1>2. CASE Len(s) = 0
  <2>1. FlattenSeq(s) = s /\ s = <<>> BY <1>2 DEF FlattenSeq
  <2>2. QED BY <1>2, <2>1
<1>3. CASE Len(s) # 0
  <2> DEFINE Next1(f) == [i \in 1 .. Len(s) |-> IF i = 1 THEN s[i] ELSE f[i - 1] \o s[i]]
             f == CHOOSE g : g = Next1(g)
  <2>1. FlattenSeq(s) = f[Len(s)] BY <1>3, Zenon DEF FlattenSeq
  <2>2. \E g : g = Next1(g) BY FlattenExists, Zenon
  <2>3. f = Next1(f) BY <2>2, Zenon
  <2> HIDE DEF f
  <2>4. f[1] = s[1] BY <1>1, <1>3, <2>3
  <2>5. ASSUME NEW n \in Nat \ {0}, n + 1 <= Len(s) PROVE f[n + 1] = f[n] \o s[n + 1]
    <3>1. n + 1 \in 1 .. Len(s) /\ n + 1 # 1 /\ (n + 1) - 1 = n BY <1>1, <2>5
    <3>2. QED BY <2>3, <3>1
  <2> DEFINE Holds(n) == f[n] \in Seq(A) /\ \A i \in 1 .. n : Elements(s[i]) \subseteq Elements(f[n])
             T == {n \in Nat : n + 1 <= Len(s) => Holds(n + 1)}
  <2>6. 0 \in T
    <3>1. s[1] \in Seq(A) BY <1>1, <1>3
    <3>2. \A i \in 1 .. 0 + 1 : i = 1 OBVIOUS
    <3>3. Holds(0 + 1) BY <2>4, <3>1, <3>2
    <3> HIDE DEF Holds
    <3>4. QED BY <3>3
  <2>7. ASSUME NEW n \in Nat, n \in T PROVE n + 1 \in T
    <3>0. SUFFICES ASSUME (n + 1) + 1 <= Len(s) PROVE Holds((n + 1) + 1)
      <4> HIDE DEF Holds
      <4> QED OBVIOUS
    <3>1. Holds(n + 1)
      <4> HIDE DEF Holds
      <4> QED BY <1>1, <2>7, <3>0
    <3> DEFINE m == n + 1
    <3>2. m \in Nat \ {0} /\ m + 1 <= Len(s) /\ m + 1 \in 1 .. Len(s) BY <1>1, <3>0
    <3> HIDE DEF m
    <3>3. f[m] \in Seq(A) /\ \A i \in 1 .. m : Elements(s[i]) \subseteq Elements(f[m])
      BY <3>1 DEF m
    <3>4. s[m + 1] \in Seq(A) BY <3>2
    <3>5. f[m + 1] = f[m] \o s[m + 1] BY <2>5, <3>2
    <3>6. f[m + 1] \in Seq(A) /\ Elements(f[m + 1]) = Elements(f[m]) \cup Elements(s[m + 1])
      BY <3>3, <3>4, <3>5, JoinElements
    <3>7. ASSUME NEW i \in 1 .. m + 1 PROVE Elements(s[i]) \subseteq Elements(f[m + 1])
      <4>1. CASE i = m + 1 BY <3>6, <4>1
      <4>2. CASE i # m + 1
        <5>1. i \in 1 .. m BY <3>2, <4>2
        <5>2. QED BY <3>3, <3>6, <5>1
      <4>3. QED BY <4>1, <4>2
    <3>8. QED BY <3>6, <3>7 DEF m
  <2>8. \A n \in Nat : n \in T
    <3> HIDE DEF T
    <3> QED BY <2>6, <2>7, SetInduction
  <2>9. Holds(Len(s))
    <3> HIDE DEF Holds
    <3>1. PICK m \in Nat : m + 1 = Len(s)
      <4>1. Len(s) - 1 \in Nat /\ (Len(s) - 1) + 1 = Len(s) BY <1>1, <1>3
      <4>2. QED BY <4>1
    <3>2. m \in T /\ m + 1 <= Len(s) BY <1>1, <2>8, <3>1
    <3>3. Holds(m + 1) BY <3>2
    <3>4. QED BY <3>1, <3>3
  <2>10. QED BY <2>1, <2>9
<1>4. QED BY <1>2, <1>3

-----------------------------------------------------------------------------
(* Every end of a frame or a transfer and every emitter is an address that   *)
(* _build_entities adds.                                                     *)
LEMMA TwoElements ==
  ASSUME NEW A, NEW x \in A, NEW y \in A
  PROVE  <<x, y>> \in Seq(A) /\ Elements(<<x, y>>) = {x, y}
<1>1. <<x, y>> \in Seq(A) /\ Len(<<x, y>>) = 2 /\ 1 .. 2 = {1, 2} OBVIOUS
<1>2. QED BY <1>1 DEF Elements

LEMMA FourElements ==
  ASSUME NEW A, NEW w \in A, NEW x \in A, NEW y \in A, NEW z \in A
  PROVE  <<w, x, y, z>> \in Seq(A) /\ w \in Elements(<<w, x, y, z>>) /\ x \in Elements(<<w, x, y, z>>)
<1>1. /\ <<w, x, y, z>> \in Seq(A) /\ Len(<<w, x, y, z>>) = 4 /\ 1 \in 1 .. 4 /\ 2 \in 1 .. 4
      /\ <<w, x, y, z>>[1] = w /\ <<w, x, y, z>>[2] = x
  OBVIOUS
<1>2. QED BY <1>1 DEF Elements

LEMMA EndsMentioned ==
  ASSUME TraceInv, ev.receipt \in Branches
  PROVE  RelationEnds \cup {KeptLogs[i].address : i \in 1 .. Len(KeptLogs)} \subseteq Elements(Mentioned)
<1> DEFINE frame(i) == Frames[ev.trace][kept[i]]
           log(i) == Transferred.logs[i]
           calls == [i \in 1 .. Len(kept) |-> <<frame(i).from, frame(i).to>>]
           emitters == [i \in 1 .. Len(KeptLogs) |-> KeptLogs[i].address]
           parties == [i \in 1 .. Len(Transferred.logs) |->
                         <<log(i).from, log(i).to, log(i).address, log(i).operator>>]
           ends == <<Frames[ev.receipt][Root].from, Frames[ev.receipt][Root].to>>
<1>1. kept \in Seq(Seq(Nat)) /\ Len(kept) \in Nat BY DEF TraceInv
<1>2. KeptLogs \in Seq(LogEntry) /\ Len(KeptLogs) \in Nat BY KeptLogsAre
<1>3. Transferred.logs \in Seq(LogEntry) /\ Len(Transferred.logs) \in Nat
  BY TransferredType DEF Transfers
<1>4. Mentioned = ends \o FlattenSeq(calls) \o emitters \o FlattenSeq(parties)
  BY DEF Mentioned
<1>5. ASSUME NEW i \in 1 .. Len(kept)
      PROVE  kept[i] \in Kept /\ frame(i).from \in Addresses /\ frame(i).to \in Addresses
  <2>1. kept[i] \in Kept BY DEF Kept
  <2>2. ev.trace \in Branches /\ kept[i] \in DOMAIN Frames[ev.trace]
    BY <2>1, CallersKept DEF Paths
  <2>3. frame(i) \in Frame BY <2>2, TraceAssumption
  <2>4. QED BY <2>1, <2>3 DEF Frame
<1>6. ASSUME NEW i \in 1 .. Len(KeptLogs) PROVE KeptLogs[i].address \in Addresses
  <2>1. KeptLogs[i] \in LogEntry BY <1>2
  <2>2. QED BY <2>1 DEF LogEntry
<1>7. ASSUME NEW i \in 1 .. Len(Transferred.logs)
      PROVE  /\ log(i).from \in Addresses /\ log(i).to \in Addresses
             /\ log(i).address \in Addresses /\ log(i).operator \in Addresses
  <2>1. log(i) \in LogEntry BY <1>3
  <2>2. QED BY <2>1 DEF LogEntry
<1>8. ends \in Seq(Addresses)
  <2>1. Frames[ev.receipt][Root] \in Frame BY TraceAssumption
  <2>2. QED BY <2>1 DEF Frame
<1> HIDE DEF frame, log
<1>9. calls \in Seq(Seq(Addresses)) /\ Len(calls) = Len(kept)
  <2>1. \A i \in 1 .. Len(kept) : <<frame(i).from, frame(i).to>> \in Seq(Addresses)
    BY <1>5, TwoElements
  <2>2. calls \in [1 .. Len(kept) -> Seq(Addresses)] BY <2>1
  <2>3. QED BY <1>1, <2>2, FunctionIsSeq
<1>10. emitters \in Seq(Addresses) /\ Len(emitters) = Len(KeptLogs)
  <2>1. emitters \in [1 .. Len(KeptLogs) -> Addresses] BY <1>6
  <2>2. QED BY <1>2, <2>1, FunctionIsSeq
<1>11. parties \in Seq(Seq(Addresses)) /\ Len(parties) = Len(Transferred.logs)
  <2>1. \A i \in 1 .. Len(Transferred.logs) :
          <<log(i).from, log(i).to, log(i).address, log(i).operator>> \in Seq(Addresses)
    BY <1>7, FourElements
  <2>2. parties \in [1 .. Len(Transferred.logs) -> Seq(Addresses)] BY <2>1
  <2>3. QED BY <1>3, <2>2, FunctionIsSeq
<1>12. \A i \in 1 .. Len(kept) : calls[i] = <<frame(i).from, frame(i).to>> OBVIOUS
<1>13. \A i \in 1 .. Len(KeptLogs) : emitters[i] = KeptLogs[i].address OBVIOUS
<1>14. \A i \in 1 .. Len(Transferred.logs) :
         parties[i] = <<log(i).from, log(i).to, log(i).address, log(i).operator>>
  OBVIOUS
<1> HIDE DEF calls, emitters, parties, ends
<1> DEFINE fc == FlattenSeq(calls)
           fp == FlattenSeq(parties)
<1>15. fc \in Seq(Addresses) /\ \A i \in 1 .. Len(calls) : Elements(calls[i]) \subseteq Elements(fc)
  BY <1>9, FlattenHolds
<1>16. fp \in Seq(Addresses) /\ \A i \in 1 .. Len(parties) : Elements(parties[i]) \subseteq Elements(fp)
  BY <1>11, FlattenHolds
<1> HIDE DEF fc, fp
<1>17. Mentioned = ((ends \o fc) \o emitters) \o fp BY <1>4 DEF fc, fp
<1>18. Elements(fc) \cup Elements(emitters) \cup Elements(fp) \subseteq Elements(Mentioned)
  <2>1. ends \o fc \in Seq(Addresses) /\ Elements(ends \o fc) = Elements(ends) \cup Elements(fc)
    BY <1>8, <1>15, JoinElements
  <2> DEFINE u == ends \o fc
  <2>2. u \in Seq(Addresses) /\ Elements(u) = Elements(ends) \cup Elements(fc) BY <2>1
  <2> HIDE DEF u
  <2>3. u \o emitters \in Seq(Addresses) /\ Elements(u \o emitters) = Elements(u) \cup Elements(emitters)
    BY <1>10, <2>2, JoinElements
  <2> DEFINE v == u \o emitters
  <2>4. v \in Seq(Addresses) /\ Elements(v) = Elements(u) \cup Elements(emitters) BY <2>3
  <2> HIDE DEF v
  <2>5. Elements(v \o fp) = Elements(v) \cup Elements(fp) BY <1>16, <2>4, JoinElements
  <2>6. Mentioned = v \o fp BY <1>17 DEF u, v
  <2>7. QED BY <2>2, <2>4, <2>5, <2>6
<1>19. ASSUME NEW p \in Kept
       PROVE {Frames[ev.trace][p].from, Frames[ev.trace][p].to} \subseteq Elements(Mentioned)
  <2>1. PICK i \in 1 .. Len(kept) : p = kept[i] BY DEF Kept
  <2>2. Elements(calls[i]) = {frame(i).from, frame(i).to} BY <1>5, <1>12, TwoElements
  <2>3. {frame(i).from, frame(i).to} \subseteq Elements(fc) BY <1>9, <1>15, <2>2
  <2>4. frame(i) = Frames[ev.trace][p] BY <2>1 DEF frame
  <2>5. QED BY <1>18, <2>3, <2>4
<1>20. ASSUME NEW i \in 1 .. Len(Transferred.logs)
       PROVE {Transferred.logs[i].from, Transferred.logs[i].to} \subseteq Elements(Mentioned)
  <2>1. log(i).from \in Elements(parties[i]) /\ log(i).to \in Elements(parties[i])
    BY <1>7, <1>14, FourElements
  <2>2. Elements(parties[i]) \subseteq Elements(fp) BY <1>11, <1>16
  <2>3. QED BY <1>18, <2>1, <2>2 DEF log
<1>21. ASSUME NEW i \in 1 .. Len(KeptLogs) PROVE KeptLogs[i].address \in Elements(Mentioned)
  <2>1. KeptLogs[i].address \in Elements(emitters) BY <1>10, <1>13 DEF Elements
  <2>2. QED BY <1>18, <2>1
<1>22. ASSUME NEW x \in RelationEnds PROVE x \in Elements(Mentioned)
  <2> DEFINE callEnds == {{Frames[ev.trace][p].from, Frames[ev.trace][p].to} : p \in Kept}
             logEnds == {{Transferred.logs[i].from, Transferred.logs[i].to} :
                           i \in 1 .. Len(Transferred.logs)}
  <2>1. RelationEnds = (UNION callEnds) \cup (UNION logEnds) BY DEF RelationEnds
  <2>2. \A e \in callEnds : e \subseteq Elements(Mentioned) BY <1>19
  <2>3. \A e \in logEnds : e \subseteq Elements(Mentioned) BY <1>20
  <2> HIDE DEF callEnds, logEnds
  <2>4. CASE x \in UNION callEnds
    <3>1. PICK e \in callEnds : x \in e BY <2>4
    <3>2. QED BY <2>2, <3>1
  <2>5. CASE x \in UNION logEnds
    <3>1. PICK e \in logEnds : x \in e BY <2>5
    <3>2. QED BY <2>3, <3>1
  <2>6. x \in (UNION callEnds) \cup (UNION logEnds) BY <2>1
  <2>7. QED BY <2>4, <2>5, <2>6
<1>23. QED BY <1>21, <1>22

-----------------------------------------------------------------------------
(* The gaps: what a case does not hold is named by a warning by the time it *)
(* is derived, through every later step and every call that fails between.  *)

InventoryOf(m) == FoldLeft(Admit, {}, m)

LEMMA InventoryIs == Inventory = InventoryOf(Mentioned)
  BY DEF Inventory, InventoryOf

(* What each part of the command has said by the time the next one begins. *)
TraceTold == step \in Derived /\ opts.trace /\ ev.trace = Unknown => "trace" \in warnings
LogsTold == /\ step \in Derived \cup {"proxy", "trace", "flatten"}
            /\ Len(Logs[ev.receipt]) > MaxLogs
            => "logs" \in warnings
DiffTold == step \in Derived \ {"state_diff"} /\ opts.diff =>
              \/ "state_diff" \in warnings
              \/ ev.diff \in Branches /\ (StateDiff(ev.diff).cut => "diff_cut" \in warnings)
EntitiesTold == Assembled =>
                  /\ Transferred.notes \subseteq warnings /\ entities = Inventory
                  /\ "entities" \notin warnings => Elements(Mentioned) \subseteq Inventory
ReplayTold == /\ step \in {"metadata", "write", "done"}
              /\ opts.replay /\ Number[ev.receipt] > 0 /\ ev.replay = "none"
              => "replay" \in warnings

GapInv == /\ opts \in Options
          /\ step = "flatten" => ev.trace # Unknown
          /\ TraceTold /\ LogsTold /\ DiffTold /\ EntitiesTold /\ ReplayTold

LEMMA OptionTypes ==
  ASSUME opts \in Options
  PROVE  opts.trace \in BOOLEAN /\ opts.diff \in BOOLEAN /\ opts.replay \in BOOLEAN
<1>1. Options \subseteq [trace : BOOLEAN, diff : BOOLEAN, replay : BOOLEAN, overwrite : BOOLEAN]
  BY InvestigationAssumption
<1>2. QED BY <1>1

LEMMA GapInvInit == Init => GapInv
  BY DEF Init, GapInv, TraceTold, LogsTold, DiffTold, EntitiesTold, ReplayTold, Derived, Assembled

(* What the case says of its transfers and entities changes only with the    *)
(* receipt, the trace and the frames.                                        *)
MentionedOf(transaction, frames, k, logs, moved) ==
  <<transaction.from, transaction.to>>
    \o FlattenSeq([i \in 1 .. Len(k) |-> <<frames[k[i]].from, frames[k[i]].to>>])
    \o [i \in 1 .. Len(logs) |-> logs[i].address]
    \o FlattenSeq([i \in 1 .. Len(moved) |-> <<moved[i].from, moved[i].to, moved[i].address,
                                               moved[i].operator>>])

LEMMA SameCase ==
  ASSUME ev'.receipt = ev.receipt, ev'.trace = ev.trace, kept' = kept
  PROVE  Transferred' = Transferred /\ Mentioned' = Mentioned /\ Inventory' = Inventory
<1>1. KeptLogs' = KeptLogs BY DEF KeptLogs
<1>2. Transferred' = TransfersOf(KeptLogs') BY DEF Transferred, TransfersOf
<1>3. Transferred' = Transferred BY <1>1, <1>2, TransferredIs
<1>4. Mentioned' = Mentioned
  <2>1. Mentioned = MentionedOf(Frames[ev.receipt][Root], Frames[ev.trace], kept, KeptLogs,
                                Transferred.logs)
    BY DEF Mentioned, MentionedOf
  <2>2. Mentioned' = MentionedOf(Frames[ev'.receipt][Root], Frames[ev'.trace], kept', KeptLogs',
                                 Transferred'.logs)
    BY DEF Mentioned, MentionedOf
  <2>3. QED BY <1>1, <1>3, <2>1, <2>2
<1>5. Inventory' = InventoryOf(Mentioned') BY DEF Inventory, InventoryOf
<1>6. QED BY <1>3, <1>4, <1>5, InventoryIs

LEMMA EntitiesKept ==
  ASSUME EntitiesTold, Assembled' => Assembled, entities' = entities, kept' = kept,
         ev'.receipt = ev.receipt, ev'.trace = ev.trace, warnings \subseteq warnings',
         "entities" \in warnings' => "entities" \in warnings
  PROVE  EntitiesTold'
<1>1. Transferred' = Transferred /\ Mentioned' = Mentioned /\ Inventory' = Inventory BY SameCase
<1>2. QED BY <1>1 DEF EntitiesTold

LEMMA GapInvNext == ViewInv /\ GapInv /\ [Next]_vars => GapInv'
<1> SUFFICES ASSUME ViewInv, GapInv, [Next]_vars PROVE GapInv' OBVIOUS
<1>0. opts.trace \in BOOLEAN /\ opts.diff \in BOOLEAN /\ opts.replay \in BOOLEAN
  BY OptionTypes DEF GapInv
<1>1. Unknown \notin Branches BY InvestigationAssumption
<1>2. CASE Wait \/ Reorg \/ UNCHANGED vars
  <2>1. UNCHANGED <<step, opts, ev, kept, entities, warnings>>
    BY <1>2 DEF Wait, Reorg, caseVars, vars
  <2>2. EntitiesTold' BY <2>1, EntitiesKept DEF GapInv, Assembled
  <2>3. QED BY <2>1, <2>2 DEF GapInv, TraceTold, LogsTold, DiffTold, ReplayTold
<1>3. CASE Die \/ RunAgain
  BY <1>3 DEF Die, RunAgain, Forget, GapInv, TraceTold, LogsTold, DiffTold, EntitiesTold,
              ReplayTold, Derived, Assembled
<1>4. CASE Store
  <2>1. UNCHANGED <<opts, ev, kept, entities, warnings>> /\ step = "write"
        /\ step' \in {"write", "done", "raised"}
    BY <1>4 DEF Store, RefuseOverwrite, Write, caseVars, Turn
  <2>2. EntitiesTold' BY <2>1, EntitiesKept DEF GapInv, Assembled
  <2>3. QED BY <2>1, <2>2 DEF GapInv, TraceTold, LogsTold, DiffTold, ReplayTold, Derived
<1>5. CASE Gather
  <2>0. opts' = opts BY <1>5 DEF Gather
  <2> USE DEF Answered, Denied, Turn, Ask, Warn
  <2>1. CASE TakeChainId \/ GiveUp \/ TakeTransaction \/ TakeReceipt
    <3>1. step' \in {"transaction", "receipt", "block", "raised"}
      BY <2>1 DEF TakeChainId, GiveUp, TakeTransaction, TakeReceipt
    <3>2. QED BY <2>0, <3>1 DEF GapInv, TraceTold, LogsTold, DiffTold, EntitiesTold, ReplayTold,
                                Derived, Assembled
  <2>2. CASE TakeBlock
    <3>1. step' = "proxy" /\ ev' = ev
          /\ warnings' = warnings \cup (IF Len(Logs[ev.receipt]) > MaxLogs THEN {"logs"} ELSE {})
      BY <2>2 DEF TakeBlock, CapLogs
    <3>2. QED BY <2>0, <3>1 DEF GapInv, TraceTold, LogsTold, DiffTold, EntitiesTold, ReplayTold,
                                Derived, Assembled
  <2>3. CASE TakeProxy
    <3>1. /\ step = "proxy" /\ ev' = ev /\ warnings \subseteq warnings'
          /\ step' \in {"trace", "state_diff", "entities"}
          /\ opts.trace => step' = "trace"
          /\ opts.diff /\ ~opts.trace => step' = "state_diff"
      BY <1>0, <2>3 DEF TakeProxy, AfterProxy, AfterTrace
    <3>2. QED BY <1>0, <2>0, <3>1 DEF GapInv, TraceTold, LogsTold, DiffTold, EntitiesTold,
                                      ReplayTold, Derived, Assembled
  <2>4. CASE TakeTrace
    <3>1. /\ step = "trace" /\ step' = "flatten" /\ warnings' = warnings
          /\ ev' = [ev EXCEPT !.trace = Seen] /\ Seen \in Branches
      BY <2>4 DEF TakeTrace
    <3>2. ev'.receipt = ev.receipt /\ ev'.trace # Unknown BY <1>1, <3>1 DEF ViewInv, Evidence
    <3>3. QED BY <2>0, <3>1, <3>2 DEF GapInv, TraceTold, LogsTold, DiffTold, EntitiesTold,
                                      ReplayTold, Derived, Assembled
  <2>5. CASE NoTrace
    <3>1. /\ step = "trace" /\ ev' = ev /\ warnings' = warnings \cup {"trace"}
          /\ step' \in {"state_diff", "entities"}
          /\ opts.diff => step' = "state_diff"
      BY <1>0, <2>5 DEF NoTrace, AfterTrace
    <3>2. QED BY <1>0, <2>0, <3>1 DEF GapInv, TraceTold, LogsTold, DiffTold, EntitiesTold,
                                      ReplayTold, Derived, Assembled
  <2>6. CASE Visit
    <3>1. step = "flatten" /\ step' = step /\ ev' = ev /\ warnings' = warnings
      BY <2>6 DEF Visit
    <3>2. QED BY <2>0, <3>1 DEF GapInv, TraceTold, LogsTold, DiffTold, EntitiesTold, ReplayTold,
                                Derived, Assembled
  <2>7. CASE Flattened
    <3>1. /\ step = "flatten" /\ ev' = ev /\ warnings \subseteq warnings'
          /\ step' \in {"state_diff", "entities"}
          /\ opts.diff => step' = "state_diff"
      BY <1>0, <2>7 DEF Flattened, AfterTrace
    <3>2. QED BY <1>0, <2>0, <3>1 DEF GapInv, TraceTold, LogsTold, DiffTold, EntitiesTold,
                                      ReplayTold, Derived, Assembled
  <2>8. CASE TakeStateDiff
    <3>1. /\ step = "state_diff" /\ step' = "entities" /\ Seen \in Branches
          /\ ev' = [ev EXCEPT !.diff = Seen]
          /\ warnings' = warnings \cup (IF StateDiff(Seen).cut THEN {"diff_cut"} ELSE {})
      BY <2>8 DEF TakeStateDiff
    <3>2. ev'.receipt = ev.receipt /\ ev'.trace = ev.trace /\ ev'.diff = Seen
      BY <3>1 DEF ViewInv, Evidence
    <3>3. DiffTold' BY <3>1, <3>2 DEF DiffTold
    <3>4. QED BY <2>0, <3>1, <3>2, <3>3 DEF GapInv, TraceTold, LogsTold, EntitiesTold,
                                            ReplayTold, Derived, Assembled
  <2>9. CASE NoStateDiff
    <3>1. /\ step = "state_diff" /\ step' = "entities" /\ ev' = ev
          /\ warnings' = warnings \cup {"state_diff"}
      BY <2>9 DEF NoStateDiff
    <3>2. QED BY <2>0, <3>1 DEF GapInv, TraceTold, LogsTold, DiffTold, EntitiesTold, ReplayTold,
                                Derived, Assembled
  <2>10. CASE BuildEntities
    <3>1. /\ step = "entities" /\ step' = "code" /\ ev' = ev /\ kept' = kept
          /\ warnings \cup Transferred.notes \subseteq warnings' /\ entities' = Inventory
      BY <2>10 DEF BuildEntities
    <3>2. "entities" \notin warnings' => \A i \in 1 .. Len(Mentioned) : Mentioned[i] \in Inventory
      BY <2>10 DEF BuildEntities
    <3>3. "entities" \notin warnings' => Elements(Mentioned) \subseteq Inventory
      BY <3>2 DEF Elements
    <3>4. Transferred' = Transferred /\ Mentioned' = Mentioned /\ Inventory' = Inventory
      BY <3>1, SameCase
    <3>5. EntitiesTold' BY <3>1, <3>3, <3>4 DEF EntitiesTold
    <3>6. QED BY <2>0, <3>1, <3>5 DEF GapInv, TraceTold, LogsTold, DiffTold, ReplayTold, Derived
  <2>11. CASE TakeCode
    <3>1. /\ step = "code" /\ UNCHANGED <<ev, kept, entities, warnings>>
          /\ step' \in {"parent", "metadata"}
          /\ opts.replay /\ Number[ev.receipt] > 0 => step' = "parent"
      BY <1>0, <2>11 DEF TakeCode, caseVars
    <3>2. EntitiesTold' BY <3>1, EntitiesKept DEF GapInv, Assembled
    <3>3. QED BY <2>0, <3>1, <3>2 DEF GapInv, TraceTold, LogsTold, DiffTold, ReplayTold, Derived
  <2>12. CASE TakeParent
    <3>1. step = "parent" /\ step' = "replay" /\ UNCHANGED <<ev, kept, entities, warnings>>
      BY <2>12 DEF TakeParent, caseVars
    <3>2. EntitiesTold' BY <3>1, EntitiesKept DEF GapInv, Assembled
    <3>3. QED BY <2>0, <3>1, <3>2 DEF GapInv, TraceTold, LogsTold, DiffTold, ReplayTold, Derived
  <2>13. CASE NoParent
    <3>1. /\ step = "parent" /\ step' = "metadata" /\ UNCHANGED <<ev, kept, entities>>
          /\ warnings' = warnings \cup {"replay"}
      BY <2>13 DEF NoParent
    <3>2. EntitiesTold' BY <3>1, EntitiesKept DEF GapInv, Assembled
    <3>3. QED BY <2>0, <3>1, <3>2 DEF GapInv, TraceTold, LogsTold, DiffTold, ReplayTold, Derived
  <2>14. CASE TakeReplay
    <3>1. /\ step = "replay" /\ step' = "metadata" /\ UNCHANGED <<kept, entities>>
          /\ \E r \in {"reverted", "succeeded"} : ev' = [ev EXCEPT !.replay = r]
          /\ warnings \subseteq warnings' /\ warnings' \subseteq warnings \cup {"mismatch"}
      BY <2>14 DEF TakeReplay
    <3>2. /\ ev'.receipt = ev.receipt /\ ev'.trace = ev.trace /\ ev'.diff = ev.diff
          /\ ev'.replay # "none"
      BY <3>1 DEF ViewInv, Evidence
    <3>3. EntitiesTold' BY <3>1, <3>2, EntitiesKept DEF GapInv, Assembled
    <3>4. QED BY <2>0, <3>1, <3>2, <3>3 DEF GapInv, TraceTold, LogsTold, DiffTold, ReplayTold,
                                            Derived
  <2>15. CASE TakeMetadata
    <3>1. step = "metadata" /\ step' = "write" /\ UNCHANGED <<ev, kept, entities, warnings>>
      BY <2>15 DEF TakeMetadata, caseVars
    <3>2. EntitiesTold' BY <3>1, EntitiesKept DEF GapInv, Assembled
    <3>3. QED BY <2>0, <3>1, <3>2 DEF GapInv, TraceTold, LogsTold, DiffTold, ReplayTold, Derived
  <2>16. QED
    BY <1>5, <2>1, <2>2, <2>3, <2>4, <2>5, <2>6, <2>7, <2>8, <2>9, <2>10, <2>11, <2>12,
       <2>13, <2>14, <2>15 DEF Gather
<1>6. QED BY <1>2, <1>3, <1>4, <1>5 DEF Next, Proceed

LEMMA AllTold == TraceInv /\ ViewInv /\ GapInv => GapsTold
<1> SUFFICES ASSUME TraceInv, ViewInv, GapInv, step \in {"write", "done"} PROVE GapsTold
  BY DEF GapsTold
<1>1. ev.receipt \in Branches /\ Assembled /\ step \in Derived /\ step # "state_diff"
  BY DEF ViewInv, OneView, Assembled, Derived
<1>2. opts.trace /\ ev.trace = Unknown => "trace" \in warnings BY <1>1 DEF GapInv, TraceTold
<1>3. opts.diff => \/ {"state_diff", "diff_cut"} \cap warnings # {}
                   \/ /\ ev.diff \in Branches /\ Len(Slots[ev.diff]) <= MaxAccounts
                      /\ StateDiff(ev.diff).count = ChangedSlots(ev.diff)
  BY <1>1, SlotsTold DEF GapInv, DiffTold
<1>4. \/ Transferred.count = Recorded
      \/ {"logs", "transfers", "decode"} \cap warnings # {}
  <2>1. Transferred.notes \subseteq warnings BY <1>1 DEF GapInv, EntitiesTold
  <2>2. Transferred.notes \subseteq {"transfers", "decode"} BY <1>1, TransferredType DEF Transfers
  <2>3. CASE Len(Logs[ev.receipt]) > MaxLogs BY <1>1, <2>3 DEF GapInv, LogsTold
  <2>4. CASE ~(Len(Logs[ev.receipt]) > MaxLogs)
    <3>1. Len(Logs[ev.receipt]) \in Nat /\ MaxLogs \in Nat
      BY <1>1, KeptLogsAre, InvestigationAssumption
    <3>2. Len(Logs[ev.receipt]) <= MaxLogs BY <2>4, <3>1
    <3>3. Transferred.notes = {} => Transferred.count = Recorded BY <1>1, <3>2, TransfersTold
    <3>4. QED BY <2>1, <2>2, <3>3
  <2>5. QED BY <2>3, <2>4
<1>5. "entities" \notin warnings =>
        RelationEnds \cup {KeptLogs[i].address : i \in 1 .. Len(KeptLogs)} \subseteq entities
  BY <1>1, EndsMentioned DEF GapInv, EntitiesTold
<1>6. opts.replay /\ Number[ev.receipt] > 0 /\ ev.replay = "none" => "replay" \in warnings
  BY DEF GapInv, ReplayTold
<1>7. QED BY <1>2, <1>3, <1>4, <1>5, <1>6 DEF GapsTold

(* Whatever the endpoints answer and whichever limits are met, a finished    *)
(* case that lacks part of the trace, the state diff, the transfers, the     *)
(* entities or the replay says so (investigate_transaction).  A log of a     *)
(* shape that the decoder passes over is not part of the transfers.          *)
THEOREM CaseTellsItsGaps == Spec => []GapsTold
<1>1. Spec => []GapInv BY GapInvInit, GapInvNext, ViewsHold, PTL DEF Spec
<1>2. QED BY <1>1, AllTold, TracesHold, ViewsHold, PTL
=============================================================================
