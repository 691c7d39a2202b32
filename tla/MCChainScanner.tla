--------------------------- MODULE MCChainScanner ---------------------------
(* Chains, settings and graphs for model-checking ChainScanner. *)
EXTENDS ChainScanner, TLC

CONSTANTS d1, d2, d3, u1, u2,          \* events
          a, b, c, dep, prot       \* nodes: contracts, a deployer, a protocol

(* Three deployments of similar contracts in two blocks. *)
CloneBlocks == d1 :> 1 @@ d2 :> 1 @@ d3 :> 2
CloneSubject == d1 :> a @@ d2 :> b @@ d3 :> c
CloneLinks == d1 :> {} @@ d2 :> {} @@ d3 :> {}
CloneSimilar == d1 :> {b, c} @@ d2 :> {a, c} @@ d3 :> {a, b}

(* One deployment and one log, in different blocks. *)
PairBlocks == d1 :> 1 @@ u1 :> 2
PairSubject == d1 :> a @@ u1 :> a
PairLinks == d1 :> {dep} @@ u1 :> {dep}
PairSimilar == d1 :> {}

(* Two logs in different blocks. *)
LogsBlocks == u1 :> 0 @@ u2 :> 1
LogsSubject == u1 :> a @@ u2 :> b
LogsLinks == u1 :> {} @@ u2 :> {}
LogsSimilar == [d \in {} |-> {}]

ScannerSymmetry == Permutations(Clients)
=============================================================================
