--------------------------- MODULE Reconstruction ---------------------------
(***************************************************************************)
(* reconstruct_attack_case (reconstruction.py): from a seed transaction the *)
(* reconstruction asks the history of the addresses it touches, ranks the   *)
(* transactions found there, investigates the best of them, and goes on     *)
(* with the addresses these touch, for a number of hops and within limits.  *)
(* Every action is one query of the history or one investigation.           *)
(*                                                                          *)
(* A candidate is not stored: evidence holds what its _Candidate collects,  *)
(* and the candidate's hop, score and sources are read from it.             *)
(***************************************************************************)
EXTENDS AddressHistory, FiniteSetsExt, SequencesExt

CONSTANTS Addresses,   \* addresses of the ledger, ZERO_ADDRESS not among them
          Zero,        \* ZERO_ADDRESS or no address
          Txs,         \* transactions
          Seed,        \* the operator's transaction
          SeedBlock,   \* its block
          Ledgers,     \* ledgers the history sources may hold
          Transfers,   \* tx -> its transfers in order, [from, to, committed]
          SeedEnds,    \* sender and recipient of the seed
          ChainHead,   \* head of the chain
          Limits,      \* limits and history sources an operator may set
          MaxOutages   \* bound: queries and investigations that fail

Ends == Addresses \cup {Zero}

Records == [pos : Nat, tx : Txs, block : Nat, kind : Kinds, from : Ends, to : Ends,
            moves : BOOLEAN, listed : SUBSET Addresses]

ASSUME ReconstructionAssumption ==
  /\ Zero \notin Addresses
  /\ Seed \in Txs
  /\ SeedBlock \in Nat /\ ChainHead \in Nat
  /\ \A L \in Ledgers : /\ IsFiniteSet(L) /\ L \subseteq Records
                         /\ \A r \in L : {r.from, r.to} \ {Zero} \subseteq r.listed
  /\ Transfers \in [Txs -> Seq([from : Ends, to : Ends, committed : BOOLEAN])]
  /\ SeedEnds \subseteq Ends
  /\ MaxOutages \in Nat
  /\ \A l \in Limits : /\ l.backward \in Nat /\ l.forward \in Nat /\ l.hops \in Nat
                       /\ l.transactions \in Nat \ {0} /\ l.addresses \in Nat \ {0}
                       /\ l.records \in Nat \ {0} /\ l.hubRecords \in Nat
                       /\ l.hubParties \in Nat /\ l.hubTransactions \in Nat \ {0}
                       /\ l.source \in {"rpc", "etherscan", "auto"}

VARIABLES ledger,       \* records the sources hold
          limits,       \* the operator's limits and history source
          phase,        \* "start", "query", "select", "done" or "raised"
          endBlock,     \* last block of the requested window
          hop,          \* iteration of the outer loop
          addressHops,  \* address -> hop of its frontier
          queried,      \* addresses whose history was asked
          evidence,     \* [address, record, hub] behind the candidates
          cases,        \* tx -> hop of its context
          failed,       \* candidates that could not be investigated
          hubs,         \* addresses treated as hubs
          addressLimit, \* address_limit_reached
          inventory,    \* the cached block scan in a tuple, <<>> before it
          partial,      \* history: an answer may lack records
          outages       \* failures so far

given == <<ledger, limits>>
vars == <<given, phase, endBlock, hop, addressHops, queried, evidence, cases, failed, hubs,
          addressLimit, inventory, partial, outages>>

(* _seed_frontier *)
SeedFrontier ==
  (SeedEnds \cup UNION {{t.from, t.to} : t \in {s \in Range(Transfers[Seed]) : s.committed}})
     \ {Zero}

startBlock == AtLeast(0, SeedBlock - limits.backward)

Init == /\ ledger \in Ledgers
        /\ limits \in Limits
        /\ phase = "start"
        /\ endBlock = 0
        /\ hop = 0
        /\ addressHops = [a \in SeedFrontier |-> 0]
        /\ queried = {}
        /\ evidence = {}
        /\ cases = [t \in {Seed} |-> 0]
        /\ failed = {}
        /\ hubs = {}
        /\ addressLimit = FALSE
        /\ inventory = <<>>
        /\ partial = FALSE
        /\ outages = 0

Frontier(h) == {a \in DOMAIN addressHops : addressHops[a] = h}

-----------------------------------------------------------------------------
(* _record_reason, _record_score and _record_counterparties *)
Direction(a, r) == IF r.from = a THEN "sent_by" ELSE IF r.to = a THEN "received_by" ELSE "linked"

Counterpart(a, r) == IF r.from = a THEN r.to ELSE IF r.to = a THEN r.from ELSE Zero

Base(kind) == IF kind = "internal" THEN 150
              ELSE IF kind \in {"erc20", "erc721", "erc1155"} THEN 135
              ELSE IF kind = "normal" THEN 85 ELSE 60

RecordScore(a, r) ==
  Base(r.kind) + (IF r.moves THEN 18 ELSE 0)
  + (IF \/ r.block < SeedBlock /\ r.to = a
        \/ r.block > SeedBlock /\ r.from = a THEN 30 ELSE 0)
  + AtLeast(0, 48 - Distance(r.block, SeedBlock))

Counterparties(a, R) == {Counterpart(a, r) : r \in R} \ {Zero}

IsHub(a, R) == /\ Cardinality(R) >= limits.hubRecords
               /\ Cardinality(Counterparties(a, R)) >= limits.hubParties

(* _bounded_hub_records: all records of the best transactions. *)
BoundedHubRecords(a, R) ==
  LET best(t) == Max({RecordScore(a, r) : r \in {q \in R : q.tx = t}})
      place(t) == Min({r.pos : r \in {q \in R : q.tx = t}})
      block(t) == (CHOOSE r \in R : r.tx = t).block
      before(s, t) ==
        \/ best(s) > best(t)
        \/ /\ best(s) = best(t)
           /\ \/ Distance(block(s), SeedBlock) < Distance(block(t), SeedBlock)
              \/ /\ Distance(block(s), SeedBlock) = Distance(block(t), SeedBlock)
                 /\ place(s) < place(t)
  IN {r \in R : r.tx \in First({q.tx : q \in R}, limits.hubTransactions, before)}

-----------------------------------------------------------------------------
(* What a _Candidate holds. *)
EvidenceFor(t) == {e \in evidence : e.record.tx = t}
Candidates == {e.record.tx : e \in evidence}

CandidateHop(t) == Min({addressHops[e.address] + 1 : e \in EvidenceFor(t)})

Reasons(t) ==
  {<<e.record.kind, Direction(e.address, e.record), e.address>> : e \in EvidenceFor(t)}
  \cup {<<"hub_bounded", e.address>> : e \in {f \in EvidenceFor(t) : f.hub}}

HubOnly(t) == \A e \in EvidenceFor(t) : e.hub

(* _candidate_rank *)
Rank(t) ==
  AtLeast(0, Max({RecordScore(e.address, e.record) : e \in EvidenceFor(t)})
             + 7 * AtMost(8, Cardinality(Reasons(t))) - (IF HubOnly(t) THEN 55 ELSE 0))

Available == {t \in Candidates \ failed : t \notin DOMAIN cases /\ CandidateHop(t) = hop + 1}

BlockOf(t) == (CHOOSE e \in evidence : e.record.tx = t).record.block

(* The sort of the available candidates, up to the order of their hashes. *)
Better(s, t) == \/ Rank(s) > Rank(t)
                \/ /\ Rank(s) = Rank(t)
                   /\ Distance(BlockOf(s), SeedBlock) < Distance(BlockOf(t), SeedBlock)

-----------------------------------------------------------------------------
(* The chain head, or the requested boundary when it is unavailable. *)
Begin == /\ phase = "start"
         /\ \/ /\ endBlock' = AtMost(ChainHead, SeedBlock + limits.forward)
               /\ UNCHANGED outages
            \/ /\ outages < MaxOutages
               /\ outages' = outages + 1
               /\ endBlock' = SeedBlock + limits.forward
         /\ phase' = IF limits.hops > 0 /\ Frontier(0) # {} THEN "query" ELSE "done"
         /\ UNCHANGED <<given, hop, addressHops, queried, evidence, cases, failed, hubs,
                        addressLimit, inventory, partial>>

(* The records of an address enter the candidates; those of a hub only with  *)
(* its best transactions.                                                    *)
Take(a, R) ==
  LET kept == IF IsHub(a, R) THEN BoundedHubRecords(a, R) ELSE R
  IN /\ queried' = queried \cup {a}
     /\ hubs' = IF IsHub(a, R) THEN hubs \cup {a} ELSE hubs
     /\ evidence' = evidence \cup {[address |-> a, record |-> r, hub |-> IsHub(a, R)] :
                                     r \in {q \in kept : q.tx # Seed}}

(* Mutant: the address limit not looked at. *)
TurnAnyway(a) == phase = "query" /\ a \in Frontier(hop) \ queried

(* The loop over the frontier is at an address of it. *)
Turn(a) == /\ phase = "query"
           /\ a \in Frontier(hop) \ queried
           /\ Cardinality(queried) < limits.addresses

Suffers(some) == outages' = IF some THEN outages + 1 ELSE outages

(* The records of an address in the requested window. *)
Listed(a) == {r \in ledger : a \in r.listed /\ r.block \in startBlock..endBlock}

(* The indexed source answers; some of its requests may fail. *)
Lost == {lost \in SUBSET Requests : outages < MaxOutages \/ lost = {}}

PageLimit == AtMost(MaxPage, AtMost(limits.records, PerDirection(AtMost(MaxPage, limits.records))))

AskIndexed(a) ==
  /\ limits.source \in {"etherscan", "auto"}
  /\ Turn(a)
  /\ \E lost \in Lost :
       /\ ~IndexedFails(lost, startBlock, endBlock, SeedBlock)
       /\ Take(a, IndexedRecords(ledger, a, lost, startBlock, endBlock, SeedBlock,
                                 limits.records))
       /\ Suffers(lost # {})
       /\ partial' = (partial \/ lost # {} \/ Cardinality(Listed(a)) > PageLimit)
  /\ UNCHANGED <<given, phase, endBlock, hop, addressHops, cases, failed, addressLimit,
                 inventory>>

(* The JSON-RPC source answers, by itself or in place of an indexed source    *)
(* that failed.  The first query scans the blocks; later ones use that scan,  *)
(* gaps included.  Logs of failed or capped queries are missing.              *)
Window == BoundedWindow(startBlock, endBlock, SeedBlock, MaxBlocks)

Scanned(missing) == IF inventory = <<>> THEN Inventory(ledger, Window, missing)
                    ELSE inventory[1]

AskRpc(a) ==
  /\ limits.source \in {"rpc", "auto"}
  /\ Turn(a)
  /\ \E missing \in SUBSET (Window[1]..Window[2]),
       logs \in SUBSET TransferLogs(ledger, a, Window) :
       LET flawed == missing # {} \/ logs # TransferLogs(ledger, a, Window) \/ limits.source = "auto"
       IN /\ flawed => outages < MaxOutages
          /\ inventory # <<>> => missing = {}
          /\ inventory' = <<Scanned(missing)>>
          /\ Take(a, RpcRecords(Scanned(missing), logs, a, SeedBlock, limits.records))
          /\ Suffers(flawed)
          /\ partial' = \/ partial \/ flawed
                        \/ Capped(startBlock, endBlock, MaxBlocks)
                        \/ Cardinality(Scanned(missing)) >= MaxInventory
                        \/ Cardinality(Listed(a)) > limits.records
                        \/ \E r \in Listed(a) : r.kind = "internal" \/ a \notin {r.from, r.to}
  /\ UNCHANGED <<given, phase, endBlock, hop, addressHops, cases, failed, addressLimit>>

(* Without a second source a failed query is passed over. *)
AskFails(a) ==
  /\ limits.source = "etherscan"
  /\ Turn(a)
  /\ outages < MaxOutages
  /\ outages' = outages + 1
  /\ queried' = queried \cup {a}
  /\ partial' = TRUE
  /\ UNCHANGED <<given, phase, endBlock, hop, addressHops, evidence, cases, failed, hubs,
                 addressLimit, inventory>>

(* More addresses than may be queried: the expansion ends here, without an   *)
(* investigation of what this hop has found.                                 *)
AddressCap == /\ phase = "query"
              /\ ~(Frontier(hop) \subseteq queried)
              /\ Cardinality(queried) >= limits.addresses
              /\ addressLimit' = TRUE
              /\ phase' = "done"
              /\ UNCHANGED <<given, endBlock, hop, addressHops, queried, evidence, cases,
                             failed, hubs, inventory, partial, outages>>

FrontierAsked == /\ phase = "query"
                 /\ Frontier(hop) \subseteq queried
                 /\ phase' = IF addressLimit THEN "done" ELSE "select"
                 /\ UNCHANGED <<given, endBlock, hop, addressHops, queried, evidence, cases,
                                failed, hubs, addressLimit, inventory, partial, outages>>

-----------------------------------------------------------------------------
(* One pass over the transfers, in their order, from linked addresses to     *)
(* their counterparties; then over the next transfer with these.             *)
FollowOne(linked, t) ==
  LET out == IF t.committed /\ t.from \in linked THEN linked \cup ({t.to} \ {Zero}) ELSE linked
  IN IF t.committed /\ t.to \in out THEN out \cup ({t.from} \ {Zero}) ELSE out

Follow(linked, t) == FoldLeft(FollowOne, linked, Transfers[t])

LinkedBy(E, t) ==
  Follow({e.address : e \in E} \cup ({Counterpart(e.address, e.record) : e \in E} \ {Zero}), t)

Linked(t) == LinkedBy(EvidenceFor(t), t)

(* Mutant: candidates known through hubs only expanded like the others. *)
ExpandHubs(t) == CandidateHop(t) < limits.hops

(* Mutant: the last frontier left out. *)
ExpandsEarly(t) == CandidateHop(t) + 1 < limits.hops /\ ~HubOnly(t)

Expands(t) == CandidateHop(t) < limits.hops /\ ~HubOnly(t)

(* Mutant: the addresses over the limit dropped without a word. *)
QuietExtend(new, h) ==
  \E kept \in SUBSET new :
    /\ Cardinality(kept) = AtMost(Cardinality(new),
                                  AtLeast(0, limits.addresses - Cardinality(DOMAIN addressHops)))
    /\ addressHops' = [a \in DOMAIN addressHops \cup kept |->
                         IF a \in kept THEN h ELSE addressHops[a]]
    /\ UNCHANGED addressLimit

(* New addresses enter the frontier of hop h until there are too many. *)
Extend(new, h) ==
  \E kept \in SUBSET new :
    /\ Cardinality(kept) = AtMost(Cardinality(new),
                                  AtLeast(0, limits.addresses - Cardinality(DOMAIN addressHops)))
    /\ addressHops' = [a \in DOMAIN addressHops \cup kept |->
                         IF a \in kept THEN h ELSE addressHops[a]]
    /\ addressLimit' = (addressLimit \/ kept # new)

Chosen(t) == /\ phase = "select"
             /\ Cardinality(DOMAIN cases) < limits.transactions
             /\ t \in Available
             /\ \A s \in Available : ~Better(s, t)

Investigate(t) ==
  /\ Chosen(t)
  /\ cases' = [s \in DOMAIN cases \cup {t} |-> IF s = t THEN CandidateHop(t) ELSE cases[s]]
  /\ Extend(IF Expands(t) THEN Linked(t) \ DOMAIN addressHops ELSE {}, CandidateHop(t))
  /\ UNCHANGED <<given, phase, endBlock, hop, queried, evidence, failed, hubs, inventory,
                 partial, outages>>

InvestigationFails(t) ==
  /\ Chosen(t)
  /\ outages < MaxOutages
  /\ outages' = outages + 1
  /\ failed' = failed \cup {t}
  /\ UNCHANGED <<given, phase, endBlock, hop, addressHops, queried, evidence, cases, hubs,
                 addressLimit, inventory, partial>>

Full == Cardinality(DOMAIN cases) >= limits.transactions

EndHop == /\ phase = "select"
          /\ Full \/ Available = {}
          /\ IF Full \/ hop + 1 >= limits.hops \/ Frontier(hop + 1) = {}
             THEN phase' = "done" /\ UNCHANGED hop
             ELSE phase' = "query" /\ hop' = hop + 1
          /\ UNCHANGED <<given, endBlock, addressHops, queried, evidence, cases, failed, hubs,
                         addressLimit, inventory, partial, outages>>

(* A connection that breaks in the middle of an answer raises what neither   *)
(* the head lookup, the history sources nor the loop over the candidates     *)
(* handle: the command ends without a case.                                  *)
Dropped == /\ phase \in {"start", "query", "select"}
           /\ outages < MaxOutages
           /\ outages' = outages + 1
           /\ phase' = "raised"
           /\ UNCHANGED <<given, endBlock, hop, addressHops, queried, evidence, cases, failed,
                          hubs, addressLimit, inventory, partial>>

Next == \/ Begin
        \/ \E a \in Addresses : AskIndexed(a) \/ AskRpc(a) \/ AskFails(a)
        \/ AddressCap \/ FrontierAsked
        \/ \E t \in Txs : Investigate(t) \/ InvestigationFails(t)
        \/ EndHop \/ Dropped

Spec == Init /\ [][Next]_vars

-----------------------------------------------------------------------------
(* transaction_limit_reached of the coverage. *)
TransactionLimit == Full /\ ~(Candidates \subseteq DOMAIN cases)

(* Reference: the addresses and transactions that a breadth-first search     *)
(* from the seed meets in a ledger that answers everything.  As the docs     *)
(* say, only a committed transfer leads on: the other end of a record counts *)
(* when the transaction moved something between the two.                     *)
InWindow == {r \in ledger : r.block \in startBlock..endBlock}

RelatedTo(A) == {r.tx : r \in {q \in InWindow : q.listed \cap A # {}}} \ {Seed}

Confirmed(r) == \/ Zero \in {r.from, r.to}
                \/ \E m \in Range(Transfers[r.tx]) :
                      m.committed /\ {m.from, m.to} = {r.from, r.to}

Touched(t, A) ==
  LET links == {l \in A \X InWindow : l[2].tx = t /\ l[1] \in l[2].listed}
      paid == {l \in links : Confirmed(l[2])}
  IN Follow({l[1] : l \in links} \cup ({Counterpart(l[1], l[2]) : l \in paid} \ {Zero}), t)

Near[h \in Nat] ==
  IF h = 0 THEN SeedFrontier
  ELSE Near[h - 1] \cup
       UNION {Touched(t, Near[h - 1]) :
                t \in {s \in RelatedTo(Near[h - 1]) : h = 1 \/ s \notin RelatedTo(Near[h - 2])}}

-----------------------------------------------------------------------------
(* Types, and the limits on queries and transactions. *)
TypeOK == /\ phase \in {"start", "query", "select", "done", "raised"}
          /\ hop \in 0..limits.hops
          /\ DOMAIN addressHops \subseteq Addresses
          /\ queried \subseteq DOMAIN addressHops
          /\ Cardinality(queried) <= limits.addresses
          /\ \A e \in evidence : e.address \in queried /\ e.record \in ledger
          /\ DOMAIN cases \subseteq Txs
          /\ Cardinality(DOMAIN cases) <= limits.transactions
          /\ \A t \in DOMAIN cases : cases[t] \in 0..limits.hops
          /\ failed \subseteq Txs \ DOMAIN cases
          /\ hubs \subseteq queried
          /\ outages \in 0..MaxOutages

(* Every transaction and every address of the case hangs on the seed by a    *)
(* chain of evidence that is as long as its hop says: a transaction of hop h *)
(* by a record of an address of hop h - 1, an address of hop h by a          *)
(* transaction of hop h that is known not only through hubs                  *)
(* (reconstruct_attack_case).                                                *)
EvidenceChain ==
  /\ \A t \in DOMAIN cases \ {Seed} :
       \E e \in EvidenceFor(t) : addressHops[e.address] = cases[t] - 1
  /\ \A a \in DOMAIN addressHops \ SeedFrontier :
       \E t \in DOMAIN cases \ {Seed} : /\ cases[t] = addressHops[a]
                                        /\ ~HubOnly(t)
                                        /\ a \in Linked(t)

(* A case that left out a candidate or an address it could have gone on with *)
(* says so: the transaction limit is full or the address limit is reported,  *)
(* and a failed candidate does not use up the budget.  A transaction leads on  *)
(* from the evidence it was chosen for; what deeper addresses add later does  *)
(* not expand it again (reconstruct_attack_case, ReconstructionCoverage).     *)
NothingDroppedSilently ==
  phase = "done" =>
    /\ \A t \in Candidates : t \in DOMAIN cases \cup failed \/ TransactionLimit \/ addressLimit
    /\ \A a \in DOMAIN addressHops : \/ a \in queried \/ addressHops[a] >= limits.hops
                                     \/ Full \/ addressLimit
    /\ \A t \in DOMAIN cases \ {Seed} :
         LET known == {e \in EvidenceFor(t) : addressHops[e.address] < cases[t]}
         IN (cases[t] < limits.hops /\ \E e \in known : ~e.hub) =>
              LinkedBy(known, t) \subseteq DOMAIN addressHops \/ addressLimit

(* If no limit was met, no hub bounded and nothing failed, the case holds    *)
(* exactly the transactions of the search, each with the hop the search      *)
(* finds it at (reconstruct_attack_case, records_for_address).  This is      *)
(* about windows whose records are all confirmed: from others the code goes  *)
(* further than the search, see OnlyCommittedExtends.                        *)
Clean == failed = {} /\ hubs = {} /\ ~partial /\ ~addressLimit /\ ~Full

CompleteWhenClean ==
  (phase = "done" /\ Clean /\ \A r \in InWindow : Confirmed(r)) =>
    /\ DOMAIN cases = {Seed} \cup UNION {RelatedTo(Near[h]) : h \in 0..(limits.hops - 1)}
    /\ \A t \in DOMAIN cases \ {Seed} :
         /\ t \in RelatedTo(Near[cases[t] - 1])
         /\ \A h \in 0..(cases[t] - 2) : t \notin RelatedTo(Near[h])

(* The claim of INVESTIGATION.md:143 and ARCHITECTURE.md:103: an address     *)
(* joins the frontier of a hop as an end of a committed transfer of a        *)
(* transaction of that hop.  The counterparty of the history record that     *)
(* made the transaction a candidate joins it too, whatever the trace says    *)
(* (reconstruct_attack_case).                                                *)
OnlyCommittedExtends ==
  \A a \in DOMAIN addressHops \ SeedFrontier :
    \E t \in DOMAIN cases \ {Seed} :
      /\ cases[t] = addressHops[a]
      /\ \E m \in Range(Transfers[t]) : m.committed /\ a \in {m.from, m.to}
=============================================================================
