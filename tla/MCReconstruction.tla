-------------------------- MODULE MCReconstruction --------------------------
(* Ledgers, transfers and limits for TLC. *)
EXTENDS Reconstruction, TLC

CONSTANTS seed, x, y, z,     \* transactions
          s, c, d, e         \* addresses

Rec(pos, tx, block, kind, from, to, moves) ==
  [pos |-> pos, tx |-> tx, block |-> block, kind |-> kind, from |-> from, to |-> to,
   moves |-> moves, listed |-> {from, to} \ {Zero}]

SeedRecord == Rec(5, seed, 2, "normal", s, c, TRUE)

(* A chain of transfers that leaves the seed's contract and comes back, all  *)
(* of them committed.                                                        *)
Chain == {SeedRecord, Rec(1, x, 1, "normal", c, d, TRUE), Rec(6, y, 3, "erc20", d, e, TRUE),
          Rec(7, z, 3, "erc20", e, s, FALSE)}

(* One committed transfer per hop, against the direction of time, and a      *)
(* deployment at the end.                                                    *)
Paid == {SeedRecord, Rec(6, x, 4, "erc20", d, c, TRUE), Rec(4, y, 2, "internal", e, d, TRUE),
         Rec(1, z, 1, "normal", e, Zero, FALSE)}

(* Several counterparties of one address, a deployment that is listed for    *)
(* the contract it creates, and two records of one transaction.              *)
Fan == {SeedRecord, Rec(1, x, 1, "normal", c, d, FALSE), Rec(2, x, 1, "erc20", e, c, TRUE),
        [Rec(6, y, 3, "normal", d, Zero, FALSE) EXCEPT !.listed = {d, c}],
        Rec(7, z, 4, "erc20", d, e, TRUE)}

(* Value that moves inside calls, at both ends of the window. *)
Inner == {SeedRecord, Rec(1, x, 0, "internal", d, s, TRUE), Rec(2, y, 1, "normal", e, d, FALSE),
          Rec(3, y, 1, "internal", c, e, TRUE), Rec(7, z, 5, "normal", s, e, TRUE)}

SomeLedgers == {Chain, Paid, Fan, Inner}

Move(from, to, committed) == [from |-> from, to |-> to, committed |-> committed]

SomeTransfers == seed :> <<Move(s, c, TRUE)>>
              @@ x :> <<Move(d, e, FALSE), Move(c, d, TRUE)>>
              @@ y :> <<Move(d, e, TRUE), Move(e, Zero, TRUE)>>
              @@ z :> <<Move(e, s, TRUE)>>

Limit(source, hops, transactions, addresses, records, hub) ==
  [source |-> source, backward |-> 2, forward |-> 2, hops |-> hops, transactions |-> transactions,
   addresses |-> addresses, records |-> records, hubRecords |-> hub, hubParties |-> 2,
   hubTransactions |-> 1]

(* For the counterparty of a record that no committed transfer confirms. *)
FanOnly == {Fan}
NoLimits == {Limit("etherscan", 3, 9, 9, 9, 9)}

SomeLimits == {Limit("auto", hops, 9, 9, 9, 9) : hops \in 0..3}
         \cup {Limit(source, 3, 9, 9, 9, 9) : source \in {"rpc", "etherscan"}}
         \cup {[Limit("rpc", 3, 9, 9, 9, 9) EXCEPT !.backward = 1]}
         \cup {Limit("etherscan", 3, 3, 9, 9, 9), Limit("etherscan", 3, 9, 3, 9, 9),
               Limit("etherscan", 2, 9, 1, 9, 9), Limit("rpc", 3, 9, 9, 1, 9),
               Limit("etherscan", 3, 9, 9, 9, 2)}
=============================================================================
