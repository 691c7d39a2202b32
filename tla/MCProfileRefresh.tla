-------------------------- MODULE MCProfileRefresh --------------------------
(* Instances of ProfileRefresh for TLC. *)
EXTENDS ProfileRefresh, TLC

CONSTANTS pa, pb, r1, r2

MCStart == [x \in {pa, pb} |-> IF x = pa THEN [bytecode |-> 1, implementation |-> 1, verified |-> 1]
                                      ELSE [bytecode |-> 1, implementation |-> 0, verified |-> 0]]
MCValues == [x \in {pa, pb} |->
  [f \in Fields |-> IF x = pa /\ f = "implementation" THEN {1, 2} ELSE {MCStart[x][f]}]]

I(v) == ("implementation" :> v)
V(v) == ("verified" :> v)
MCEvents == {[address |-> pa, current |-> c] :
               c \in {I(0), I(1), I(2), V(0), V(1), I(0) @@ V(0), I(1) @@ V(0), I(2) @@ V(0),
                      I(0) @@ V(1), I(1) @@ V(1), I(2) @@ V(1)}}
=============================================================================
