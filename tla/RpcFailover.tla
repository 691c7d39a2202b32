---------------------------- MODULE RpcFailover ----------------------------
(***************************************************************************)
(* The JSON-RPC client: JsonRpcClient.call over an ordered list of         *)
(* endpoints, and under it the retries of request_json.                    *)
(*                                                                         *)
(* A call is one HTTP request after another: attempts at one endpoint,     *)
(* then the next endpoint, starting from the one that answered last.  What *)
(* an endpoint answers is the caller's affair; this module decides which   *)
(* endpoint answers, and how a call ends:                                  *)
(*   "answered"  a result came back and its endpoint became the active one *)
(*   "error"     an endpoint answered with a JSON-RPC error                *)
(*   "failed"    no endpoint could be used                                 *)
(*   "dropped"   the connection broke after the request was sent, or the   *)
(*               body was not UTF-8                                        *)
(* An error and a failure are an RpcError to the caller.  Neither          *)
(* request_json nor call handles what a dropped request raises.            *)
(***************************************************************************)
EXTENDS Naturals, FiniteSets

CONSTANTS EndpointCount,     \* len(_urls)
          Retries,           \* app.request_retries
          Methods,           \* what the caller asks for; all are read-only
          Lacks,             \* Lacks[e]: the methods endpoint e does not offer
          Executions,        \* the methods that run code, which may revert
          MaxFaults          \* bound: HTTP requests that go wrong

Endpoints == 0 .. EndpointCount - 1

ASSUME EndpointsAssumption == EndpointCount \in Nat \ {0}
ASSUME RetriesAssumption == Retries \in Nat \ {0}
ASSUME LacksAssumption == Lacks \in [Endpoints -> SUBSET Methods] /\ Executions \subseteq Methods
ASSUME FaultsAssumption == MaxFaults \in Nat

VARIABLES active,      \* _active_endpoint
          call,        \* the call in flight, or the last one
          failed,      \* history: the endpoints this call could not use
          faults       \* faults so far

rpcVars == <<active, call, failed, faults>>

Outcomes == {"open", "answered", "error", "failed", "dropped"}

RpcTypeOK == /\ active \in Endpoints
             /\ call \in [method : Methods, offset : Endpoints,
                          attempt : 0 .. Retries - 1, outcome : Outcomes]
             /\ failed \subseteq Endpoints
             /\ faults \in 0 .. MaxFaults

RpcInit == /\ active = 0
           /\ \E m \in Methods :
                call = [method |-> m, offset |-> 0, attempt |-> 0, outcome |-> "open"]
           /\ failed = {}
           /\ faults = 0

Open == call.outcome = "open"
Refused == call.outcome \in {"error", "failed"}

(* The endpoint the running attempt goes to. *)
Endpoint == (active + call.offset) % EndpointCount

(* A new call: the loop over the endpoints starts at the active one. *)
Start(m) == /\ call' = [method |-> m, offset |-> 0, attempt |-> 0, outcome |-> "open"]
            /\ failed' = {}

(* A result: later calls start at this endpoint. *)
Answer == /\ Open
          /\ call.method \notin Lacks[Endpoint]
          /\ active' = Endpoint
          /\ call' = [call EXCEPT !.outcome = "answered"]
          /\ UNCHANGED <<failed, faults>>

Raise == /\ call' = [call EXCEPT !.outcome = "error"]
         /\ UNCHANGED <<active, failed>>

(* Mutant: the last endpoint left out of the loop. *)
NextUrlEarly ==
  /\ failed' = failed \cup {Endpoint}
  /\ call' = IF call.offset + 2 < EndpointCount
             THEN [call EXCEPT !.offset = @ + 1, !.attempt = 0]
             ELSE [call EXCEPT !.outcome = "failed"]
  /\ UNCHANGED active

(* The endpoint is given up for this call: the next one, if one is left. *)
NextUrl ==
  /\ failed' = failed \cup {Endpoint}
  /\ call' = IF call.offset + 1 < EndpointCount
             THEN [call EXCEPT !.offset = @ + 1, !.attempt = 0]
             ELSE [call EXCEPT !.outcome = "failed"]
  /\ UNCHANGED active

(* Error -32601: another endpoint may know the method; the last one's *)
(* answer is raised.                                                  *)
NoMethod == /\ Open
            /\ call.method \in Lacks[Endpoint]
            /\ IF call.offset + 1 < EndpointCount THEN NextUrl ELSE Raise
            /\ UNCHANGED faults

(* eth_call of a call that reverts is answered with an error. *)
Revert == /\ Open
          /\ call.method \in Executions \ Lacks[Endpoint]
          /\ Raise
          /\ UNCHANGED faults

(* 5xx, 429, a timeout, a connection that cannot be opened or a body that *)
(* is not JSON: the same endpoint again until the retries are used up.    *)
Broken == IF call.attempt + 1 < Retries
          THEN /\ call' = [call EXCEPT !.attempt = @ + 1]
               /\ UNCHANGED <<active, failed>>
          ELSE NextUrl

(* RemoteDisconnected, ConnectionResetError or IncompleteRead of the answer, *)
(* or a UnicodeDecodeError of its body: the call ends at once, whatever      *)
(* retries and endpoints are left.                                           *)
Drop == /\ call' = [call EXCEPT !.outcome = "dropped"]
        /\ UNCHANGED <<active, failed>>

(* A request goes wrong: it breaks; or it is refused (another 4xx) or its   *)
(* body is not an object, which ends the attempts at this endpoint; or the  *)
(* endpoint answers with a JSON-RPC error other than -32601; or the answer  *)
(* is dropped on the way.                                                   *)
Fault == /\ Open
         /\ faults < MaxFaults
         /\ faults' = faults + 1
         /\ Broken \/ NextUrl \/ Raise \/ Drop

Attempt == Answer \/ NoMethod \/ Revert \/ Fault

(* A new client begins with the first endpoint. *)
NewClient(m) == active' = 0 /\ Start(m) /\ UNCHANGED faults

RpcNext == \/ Attempt
           \/ ~Open /\ UNCHANGED <<active, faults>> /\ \E m \in Methods : Start(m)
           \/ \E m \in Methods : NewClient(m)

RpcSpec == RpcInit /\ [][RpcNext]_rpcVars

(* JsonRpcClient.call tries every endpoint before it raises its own error   *)
(* of a failure, and none twice, wherever the previous call left the active *)
(* endpoint: while a call is open, the endpoints it gave up are as many as  *)
(* its offset and the one in use is not among them; a call that failed gave *)
(* up all of them.  A call whose answer is dropped ends before that.        *)
FailoverCovers == /\ Open => Endpoint \notin failed /\ Cardinality(failed) = call.offset
                  /\ call.outcome = "failed" => failed = Endpoints

(* The claim of OPERATIONS.md:98 and ARCHITECTURE.md:68-69: a transport      *)
(* failure, of whatever kind, ends a call only when no endpoint is left.     *)
(* request_json handles URLError, TimeoutError and JSONDecodeError alone.    *)
TransportFailsOver == call.outcome \in {"failed", "dropped"} => failed = Endpoints
=============================================================================
