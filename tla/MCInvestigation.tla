-------------------------- MODULE MCInvestigation --------------------------
(* Instances of Investigation for TLC. *)
EXTENDS Investigation

CONSTANTS a, b, u, v, w    \* branches a and b; addresses

F(from, to, type, value, fails) ==
  [from |-> from, to |-> to, type |-> type, value |-> value, fails |-> fails]
L(address, from, to, items, fate) ==
  [address |-> address, from |-> from, to |-> to, operator |-> from,
   items |-> items, fate |-> fate]

MCMethods == {"chain_id", "transaction", "receipt", "block", "proxy", "trace",
              "state_diff", "code", "parent", "replay", "metadata"}

(* Debug methods are offered by the second endpoint only. *)
MCLacks == [e \in 0 .. 1 |-> IF e = 0 THEN {"trace", "state_diff"} ELSE {}]

MCNumber == [x \in {a, b} |-> 1]
MCStatus == [x \in {a, b} |-> IF x = a THEN "succeeded" ELSE "reverted"]

(* On a the first child fails and takes a payment below it back, and the   *)
(* second child pays; on b the transaction reverts, with a log all the     *)
(* same.                                                                   *)
PathsA == {<<0>>, <<0, 0>>, <<0, 0, 0>>, <<0, 1>>, <<0, 1, 0>>}
FramesA == [p \in PathsA |->
  CASE p = <<0>> -> F(u, v, "CALL", TRUE, FALSE)
    [] p = <<0, 0>> -> F(v, w, "CALL", FALSE, TRUE)
    [] p = <<0, 0, 0>> -> F(w, u, "CALL", TRUE, FALSE)
    [] p = <<0, 1>> -> F(v, w, "CALL", TRUE, FALSE)
    [] OTHER -> F(w, v, "DELEGATECALL", TRUE, FALSE)]
FramesB == [p \in {<<0>>, <<0, 0>>} |->
  IF p = <<0>> THEN F(u, v, "CALL", TRUE, TRUE) ELSE F(v, u, "CALL", TRUE, FALSE)]
MCFrames == [x \in {a, b} |-> IF x = a THEN FramesA ELSE FramesB]

(* On a a log that does not decode, and a batch above the limit; on b a log *)
(* that is passed over, and one log too many.                              *)
MCLogs == [x \in {a, b} |->
             IF x = a THEN <<L(v, u, v, 1, "told"), L(w, v, w, 3, "read")>>
                      ELSE <<L(v, u, w, 1, "passed"), L(v, u, v, 1, "read"), L(v, u, v, 1, "read")>>]
MCSlots == [x \in {a, b} |-> IF x = a THEN <<1, 2>> ELSE <<1>>]

O(trace, diff, replay, overwrite) ==
  [trace |-> trace, diff |-> diff, replay |-> replay, overwrite |-> overwrite]
MCOptions == {O(TRUE, TRUE, TRUE, FALSE), O(TRUE, FALSE, FALSE, TRUE), O(FALSE, TRUE, FALSE, TRUE)}

MCBundleFiles == <<"case.json", "calls.csv">>
=============================================================================
