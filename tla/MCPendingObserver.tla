-------------------------- MODULE MCPendingObserver --------------------------
(* Instances of PendingObserver for TLC. *)
EXTENDS PendingObserver, TLC

CONSTANTS t1,                 \* a transaction with evidence
          prot, con, acc      \* a protocol, its contract, a sender

OneProtocol == t1 :> prot
OneContract == t1 :> con
OneSender == t1 :> acc
=============================================================================
