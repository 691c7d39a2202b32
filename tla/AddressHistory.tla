--------------------------- MODULE AddressHistory ---------------------------
(***************************************************************************)
(* The history sources of the reconstruction (history.py) as operators: the *)
(* indexed source with its pages, the JSON-RPC source with its block        *)
(* window, and what each of them returns when some requests fail.           *)
(*                                                                          *)
(* A ledger is a set of history records                                     *)
(*   [pos, tx, block, kind, from, to, moves, listed]                        *)
(* where pos is the record's place in ledger order, moves says whether a    *)
(* value other than zero is recorded and listed are the addresses whose     *)
(* history shows the record.                                                *)
(***************************************************************************)
EXTENDS Integers, FiniteSets

CONSTANTS Kinds,         \* record types of the indexed source (ACTION_TYPES)
          MaxPage,       \* MAX_HISTORY_PAGE, 1000 in the code
          MinPage,       \* least page of one direction, 5 in the code
          MaxBlocks,     \* widest window of the JSON-RPC source
          MaxInventory   \* transactions one block scan keeps

ASSUME HistoryAssumption == /\ MaxPage \in Nat \ {0}
                            /\ MinPage \in Nat \ {0}
                            /\ MaxBlocks \in Nat \ {0}
                            /\ MaxInventory \in Nat \ {0}

AtMost(a, b) == IF a <= b THEN a ELSE b
AtLeast(a, b) == IF a >= b THEN a ELSE b

Distance(block, anchor) == IF block >= anchor THEN block - anchor ELSE anchor - block

(* The members a sort by Before leaves in front of the n-th. *)
First(R, n, Before(_, _)) == {r \in R : Cardinality({q \in R : Before(q, r)}) < n}

(* _bounded_unique: duplicates are one member of the set, the nearest to the *)
(* anchor are kept.                                                          *)
BoundedUnique(R, n, anchor) ==
  First(R, n, LAMBDA q, r : \/ Distance(q.block, anchor) < Distance(r.block, anchor)
                            \/ /\ Distance(q.block, anchor) = Distance(r.block, anchor)
                               /\ q.pos < r.pos)

-----------------------------------------------------------------------------
(* EtherscanHistorySource: for every type one page backwards from the anchor *)
(* and one forwards.                                                         *)
Requests == Kinds \X {"desc", "asc"}

SideStart(side, start, anchor) == IF side = "desc" THEN start ELSE AtLeast(anchor, start)

(* Mutant: the last block of the window left out. *)
SideEndExclusive(side, end, anchor) ==
  IF side = "desc" THEN AtMost(anchor, end - 1) ELSE end - 1

SideEnd(side, end, anchor) == IF side = "desc" THEN AtMost(anchor, end) ELSE end

PerDirection(limit) == AtLeast(MinPage, (limit + 1) \div 2)

Page(ledger, a, request, start, end, anchor, limit) ==
  LET side == request[2]
      range == SideStart(side, start, anchor)..SideEnd(side, end, anchor)
  IN First({r \in ledger : r.kind = request[1] /\ a \in r.listed /\ r.block \in range},
           AtMost(MaxPage, PerDirection(limit)),
           LAMBDA q, r : IF side = "desc" THEN q.pos > r.pos ELSE q.pos < r.pos)

(* Every type has failed: no request of an unempty range has an answer. *)
IndexedFails(lost, start, end, anchor) ==
  \A request \in Requests \ lost :
    SideStart(request[2], start, anchor) > SideEnd(request[2], end, anchor)

IndexedRecords(ledger, a, lost, start, end, anchor, limit) ==
  LET bounded == AtMost(MaxPage, AtLeast(1, limit))
  IN BoundedUnique(UNION {Page(ledger, a, request, start, end, anchor, bounded) :
                            request \in Requests \ lost},
                   bounded, anchor)

-----------------------------------------------------------------------------
(* RpcWindowHistorySource. *)

(* _bounded_window: n blocks around the anchor. *)
BoundedWindow(start, end, anchor, n) ==
  IF end < start THEN <<start, start - 1>>
  ELSE IF end - start + 1 <= n THEN <<start, end>>
  ELSE LET middle == AtMost(end, AtLeast(start, anchor))
           left == AtLeast(start, middle - (n - 1) \div 2)
           right == AtMost(end, left + n - 1)
       IN <<AtLeast(start, right - n + 1), right>>

Capped(start, end, n) == end >= start /\ end - start + 1 > n

(* _normal_records: the transactions of the blocks that are answered, in     *)
(* ledger order up to the cap.                                               *)
Inventory(ledger, window, missing) ==
  First({r \in ledger : /\ r.kind = "normal"
                        /\ r.block \in (window[1]..window[2]) \ missing},
        MaxInventory, LAMBDA q, r : q.pos < r.pos)

(* _log_records: the transfer logs of an address; internal transfers leave   *)
(* no log.                                                                   *)
TransferLogs(ledger, a, window) ==
  {r \in ledger : /\ r.kind \notin {"normal", "internal"}
                  /\ a \in {r.from, r.to}
                  /\ r.block \in window[1]..window[2]}

RpcRecords(inventory, logs, a, anchor, limit) ==
  BoundedUnique({r \in inventory : a \in {r.from, r.to}} \cup logs, AtLeast(1, limit), anchor)
=============================================================================
