----------------------- MODULE Reconstruction_proofs -----------------------
(* Proofs about Reconstruction and AddressHistory, for every ledger, every   *)
(* list of transfers and every limit.                                        *)
EXTENDS Reconstruction, FiniteSetTheorems, SequenceTheorems, WellFoundedInduction, TLAPS

(* The window _bounded_window cuts from a request lies in the request, holds *)
(* the anchor if the request does, and has the full width allowed: all of    *)
(* the request if it fits, n blocks if it does not.                          *)
THEOREM WindowHoldsAnchor ==
  ASSUME NEW start \in Int, NEW end \in Int, NEW anchor \in Int, NEW n \in Nat \ {0},
         start <= end
  PROVE  LET w == BoundedWindow(start, end, anchor, n)
         IN /\ start <= w[1] /\ w[2] <= end
            /\ anchor \in start..end => anchor \in w[1]..w[2]
            /\ w[2] - w[1] + 1 = AtMost(n, end - start + 1)
<1>1. CASE end - start + 1 <= n
  <2>1. BoundedWindow(start, end, anchor, n) = <<start, end>>
    BY <1>1 DEF BoundedWindow
  <2> QED BY <1>1, <2>1 DEF AtMost
<1>2. CASE end - start + 1 > n
  <2> DEFINE middle == AtMost(end, AtLeast(start, anchor))
             left == AtLeast(start, middle - (n - 1) \div 2)
             right == AtMost(end, left + n - 1)
  <2>1. BoundedWindow(start, end, anchor, n) = <<AtLeast(start, right - n + 1), right>>
    BY <1>2 DEF BoundedWindow
  <2>2. middle \in start..end /\ (anchor \in start..end => middle = anchor)
    BY DEF AtMost, AtLeast
  <2>3. (n - 1) \div 2 \in 0..(n - 1)
    OBVIOUS
  <2>4. left \in start..middle /\ middle <= left + (n - 1)
    BY <2>2, <2>3 DEF AtLeast
  <2>5. right \in middle..end /\ right <= left + n - 1
    BY <2>2, <2>4 DEF AtMost
  <2>6. AtLeast(start, right - n + 1) = right - n + 1 /\ right - n + 1 <= left
    BY <1>2, <2>4, <2>5 DEF AtMost, AtLeast
  <2> HIDE DEF middle, left, right
  <2> QED BY <1>2, <2>1, <2>2, <2>4, <2>5, <2>6 DEF AtMost, AtLeast
<1> QED BY <1>1, <1>2

-----------------------------------------------------------------------------
(* The least number principle and induction, for sets of numbers. *)
LEMMA LeastNumber ==
  ASSUME NEW T \in SUBSET Nat, T # {}
  PROVE  \E x \in T : \A y \in T : x <= y
<1>1. PICK x \in T : \A y \in T : ~(<<y, x>> \in OpToRel(<, Nat))
  BY NatLessThanWellFounded, WFMin
<1>2. \A y \in T : ~(y < x) BY <1>1 DEF OpToRel
<1>3. x \in Nat /\ \A y \in T : y \in Nat OBVIOUS
<1>4. \A y \in T : x <= y BY <1>2, <1>3
<1>5. QED BY <1>4

LEMMA SetInduction ==
  ASSUME NEW T, 0 \in T, \A n \in Nat : n \in T => n + 1 \in T
  PROVE  \A n \in Nat : n \in T
<1> SUFFICES ASSUME Nat \ T # {} PROVE FALSE OBVIOUS
<1>1. PICK x \in Nat \ T : \A y \in Nat \ T : x <= y BY LeastNumber
<1>2. x # 0 /\ x - 1 \in Nat BY <1>1
<1>3. x - 1 \in T BY <1>1, <1>2
<1>4. QED BY <1>1, <1>2, <1>3

(* Follow is a fold; its value after n transfers is a function of n. *)
Following(g, L, s, n) ==
  g = [p \in SUBSET (1..n) |->
         IF p = {} THEN L ELSE FollowOne(g[p \ {Max(p)}], s[Max(p)])]

LEMMA FollowUnfold ==
  ASSUME NEW L, NEW t \in Txs
  PROVE  LET s == Transfers[t]
         IN Follow(L, t) = (CHOOSE g : Following(g, L, s, Len(s)))[1..Len(s)]
<1>1. DOMAIN Transfers[t] = 1..Len(Transfers[t]) BY ReconstructionAssumption
<1>2. QED BY <1>1, Zenon DEF Follow, FoldLeft, MapThenFoldSet, Following

LEMMA TopOf ==
  ASSUME NEW n \in Nat, NEW p \in SUBSET (1..(n + 1)), n + 1 \in p
  PROVE  Max(p) = n + 1
<1>1. \A x \in p : x \in Nat /\ x <= n + 1 OBVIOUS
<1>2. \E x \in p : \A y \in p : x >= y BY <1>1
<1>3. Max(p) \in p /\ \A y \in p : Max(p) >= y BY <1>2 DEF Max
<1>4. Max(p) \in Nat /\ Max(p) <= n + 1 BY <1>1, <1>3
<1>5. Max(p) >= n + 1 BY <1>3
<1> HIDE DEF Max
<1>6. QED BY <1>4, <1>5

LEMMA FollowExists ==
  ASSUME NEW L, NEW s, NEW N \in Nat
  PROVE  \E g : Following(g, L, s, N)
<1> DEFINE T == {n \in Nat : \E g : Following(g, L, s, n)}
<1>1. 0 \in T
  <2> DEFINE g == [p \in SUBSET (1..0) |-> L]
  <2>1. \A p \in SUBSET (1..0) : p = {} OBVIOUS
  <2>2. Following(g, L, s, 0) BY <2>1, Zenon DEF Following
  <2>3. QED BY <2>2
<1>2. ASSUME NEW n \in Nat, n \in T PROVE n + 1 \in T
  <2>1. PICK g : Following(g, L, s, n) BY <1>2
  <2> DEFINE h == [p \in SUBSET (1..(n + 1)) |->
                     IF n + 1 \in p THEN FollowOne(g[p \ {n + 1}], s[n + 1]) ELSE g[p]]
             hh == [p \in SUBSET (1..(n + 1)) |->
                     IF p = {} THEN L ELSE FollowOne(h[p \ {Max(p)}], s[Max(p)])]
  <2>2. ASSUME NEW p \in SUBSET (1..(n + 1)) PROVE h[p] = hh[p]
    <3>1. p \ {Max(p)} \in SUBSET (1..(n + 1)) OBVIOUS
    <3>2. CASE n + 1 \in p
      <4>1. Max(p) = n + 1 BY <3>2, TopOf
      <4>2. h[p \ {n + 1}] = g[p \ {n + 1}] BY <3>1, <4>1
      <4>3. p # {} BY <3>2
      <4>4. QED BY <3>2, <4>1, <4>2, <4>3
    <3>3. CASE n + 1 \notin p
      <4>1. p \in SUBSET (1..n) BY <3>3
      <4>2. h[p \ {Max(p)}] = g[p \ {Max(p)}] BY <3>1, <3>3
      <4>3. g[p] = IF p = {} THEN L ELSE FollowOne(g[p \ {Max(p)}], s[Max(p)])
        BY <2>1, <4>1, Zenon DEF Following
      <4>4. QED BY <3>3, <4>2, <4>3
    <3>4. QED BY <3>2, <3>3
  <2>3. h = hh BY <2>2
  <2>4. Following(h, L, s, n + 1) BY <2>3, Zenon DEF Following
  <2>5. QED BY <2>4
<1>3. \A n \in Nat : n \in T
  <2> HIDE DEF T
  <2> QED BY <1>1, <1>2, SetInduction
<1>4. QED BY <1>3

LEMMA FollowSteps ==
  ASSUME NEW L, NEW t \in Txs
  PROVE  \E f : /\ f[0] = L
                /\ \A n \in 0..(Len(Transfers[t]) - 1) :
                     f[n + 1] = FollowOne(f[n], Transfers[t][n + 1])
                /\ Follow(L, t) = f[Len(Transfers[t])]
<1> DEFINE s == Transfers[t]
           N == Len(s)
           g == CHOOSE h : Following(h, L, s, N)
           f == [n \in 0..N |-> g[1..n]]
<1>1. N \in Nat BY ReconstructionAssumption
<1>2. Following(g, L, s, N) BY <1>1, FollowExists, Zenon
<1>3. f[0] = L
  <2>1. 1..0 = {} /\ 0 \in 0..N /\ {} \in SUBSET (1..N) BY <1>1
  <2>2. g[{}] = L BY <1>2, <2>1, Zenon DEF Following
  <2>3. QED BY <2>1, <2>2
<1>4. ASSUME NEW n \in 0..(N - 1) PROVE f[n + 1] = FollowOne(f[n], s[n + 1])
  <2> HIDE DEF s, N, g
  <2>1. n \in Nat /\ n \in 0..N /\ n + 1 \in 0..N /\ 1..(n + 1) \in SUBSET (1..N) BY <1>1
  <2>2. Max(1..(n + 1)) = n + 1 BY <2>1, TopOf
  <2>3. (1..(n + 1)) \ {n + 1} = 1..n /\ 1..(n + 1) # {} BY <2>1
  <2>4. g[1..(n + 1)] = FollowOne(g[1..n], s[n + 1])
    BY <1>2, <2>1, <2>2, <2>3, Zenon DEF Following
  <2>5. QED BY <2>1, <2>4
<1>5. Follow(L, t) = f[N] BY <1>1, FollowUnfold
<1> HIDE DEF f
<1>6. QED BY <1>3, <1>4, <1>5

(* What a pass over the transfers of a transaction reaches are addresses. *)
LEMMA FollowType ==
  ASSUME NEW L \in SUBSET Addresses, NEW t \in Txs
  PROVE  Follow(L, t) \in SUBSET Addresses
<1> DEFINE N == Len(Transfers[t])
<1>1. N \in Nat BY ReconstructionAssumption
<1>2. PICK f : /\ f[0] = L
               /\ \A n \in 0..(N - 1) : f[n + 1] = FollowOne(f[n], Transfers[t][n + 1])
               /\ Follow(L, t) = f[N]
  BY FollowSteps
<1> DEFINE T == {n \in Nat : n <= N => f[n] \in SUBSET Addresses}
<1>3. 0 \in T BY <1>2
<1>4. ASSUME NEW n \in Nat, n \in T PROVE n + 1 \in T
  <2> SUFFICES ASSUME n + 1 <= N PROVE f[n + 1] \in SUBSET Addresses OBVIOUS
  <2>1. n \in 0..(N - 1) /\ n + 1 \in 1..N /\ f[n] \in SUBSET Addresses BY <1>1, <1>4
  <2>2. Transfers[t][n + 1] \in [from : Ends, to : Ends, committed : BOOLEAN]
    <3>1. Transfers[t] \in Seq([from : Ends, to : Ends, committed : BOOLEAN])
      BY ReconstructionAssumption
    <3>2. QED BY <2>1, <3>1, ElementOfSeq
  <2>3. f[n + 1] = FollowOne(f[n], Transfers[t][n + 1]) BY <1>2, <2>1
  <2>4. QED BY <2>1, <2>2, <2>3 DEF FollowOne, Ends
<1>5. \A n \in Nat : n \in T
  <2> HIDE DEF T
  <2> QED BY <1>3, <1>4, SetInduction
<1>6. QED BY <1>1, <1>2, <1>5

(* With more addresses to start from, a pass reaches no fewer. *)
LEMMA FollowGrows ==
  ASSUME NEW L, NEW M, L \subseteq M, NEW t \in Txs
  PROVE  Follow(L, t) \subseteq Follow(M, t)
<1> DEFINE N == Len(Transfers[t])
<1>1. N \in Nat BY ReconstructionAssumption
<1>2. PICK f : /\ f[0] = L
               /\ \A n \in 0..(N - 1) : f[n + 1] = FollowOne(f[n], Transfers[t][n + 1])
               /\ Follow(L, t) = f[N]
  BY FollowSteps
<1>3. PICK g : /\ g[0] = M
               /\ \A n \in 0..(N - 1) : g[n + 1] = FollowOne(g[n], Transfers[t][n + 1])
               /\ Follow(M, t) = g[N]
  BY FollowSteps
<1> DEFINE T == {n \in Nat : n <= N => f[n] \subseteq g[n]}
<1>4. 0 \in T BY <1>2, <1>3
<1>5. ASSUME NEW n \in Nat, n \in T PROVE n + 1 \in T
  <2> SUFFICES ASSUME n + 1 <= N PROVE f[n + 1] \subseteq g[n + 1] OBVIOUS
  <2>1. n \in 0..(N - 1) /\ f[n] \subseteq g[n] BY <1>1, <1>5
  <2>2. /\ f[n + 1] = FollowOne(f[n], Transfers[t][n + 1])
        /\ g[n + 1] = FollowOne(g[n], Transfers[t][n + 1])
    BY <1>2, <1>3, <2>1
  <2>3. QED BY <2>1, <2>2, Zenon DEF FollowOne
<1>6. \A n \in Nat : n \in T
  <2> HIDE DEF T
  <2> QED BY <1>4, <1>5, SetInduction
<1>7. QED BY <1>1, <1>2, <1>3, <1>6

-----------------------------------------------------------------------------
(* Types.  The parts of TypeOK hold together with the types of what the      *)
(* queries return, and the hop of a case with the place of the loop.         *)
Typed == /\ ledger \in Ledgers /\ limits \in Limits
         /\ endBlock \in Nat
         /\ IsFiniteSet(queried) /\ IsFiniteSet(DOMAIN cases)
         /\ Seed \in DOMAIN cases
         /\ \A e \in evidence : e.hub \in BOOLEAN
         /\ \A a \in DOMAIN addressHops : addressHops[a] \in Nat
         /\ inventory = <<>> \/ inventory[1] \subseteq ledger
         /\ phase = "start" => hop = 0
         /\ phase \in {"query", "select"} => hop < limits.hops
         /\ TypeOK

(* What the queries of an address have in common. *)
Asking(a, E) ==
  /\ Turn(a)
  /\ queried' = queried \cup {a}
  /\ hubs' \in {hubs, hubs \cup {a}}
  /\ evidence' = evidence \cup E
  /\ \A e \in E : /\ e.address = a /\ e.hub \in BOOLEAN
                  /\ e.record \in ledger /\ e.record.tx # Seed
  /\ outages' \in {outages} \cup {k \in {outages + 1} : outages < MaxOutages}
  /\ inventory' = inventory \/ inventory'[1] \subseteq ledger
  /\ UNCHANGED <<given, phase, endBlock, hop, addressHops, cases, failed, addressLimit>>

LEMMA FirstOfSet ==
  ASSUME NEW L, NEW inv, inv \subseteq L, NEW logs, logs \subseteq L, NEW a, NEW lost,
         NEW start, NEW end, NEW anchor, NEW limit, NEW missing, NEW window
  PROVE  /\ IndexedRecords(L, a, lost, start, end, anchor, limit) \subseteq L
         /\ RpcRecords(inv, logs, a, anchor, limit) \subseteq L
         /\ Inventory(L, window, missing) \subseteq L
         /\ TransferLogs(L, a, window) \subseteq L
<1>1. IndexedRecords(L, a, lost, start, end, anchor, limit) \subseteq L
  BY Zenon DEF IndexedRecords, BoundedUnique, First, Page
<1>2. RpcRecords(inv, logs, a, anchor, limit) \subseteq L
  BY Zenon DEF RpcRecords, BoundedUnique, First
<1>3. Inventory(L, window, missing) \subseteq L
  BY Zenon DEF Inventory, First
<1>4. TransferLogs(L, a, window) \subseteq L
  BY Zenon DEF TransferLogs
<1>5. QED BY <1>1, <1>2, <1>3, <1>4

LEMMA TakeEvidence ==
  ASSUME NEW a, NEW R, R \subseteq ledger, Take(a, R)
  PROVE  /\ queried' = queried \cup {a}
         /\ hubs' \in {hubs, hubs \cup {a}}
         /\ \E E : /\ evidence' = evidence \cup E
                   /\ \A e \in E : /\ e.address = a /\ e.hub \in BOOLEAN
                                   /\ e.record \in ledger /\ e.record.tx # Seed
<1> DEFINE kept == IF IsHub(a, R) THEN BoundedHubRecords(a, R) ELSE R
           E == {[address |-> a, record |-> r, hub |-> IsHub(a, R)] :
                   r \in {q \in kept : q.tx # Seed}}
<1>1. kept \subseteq ledger BY Zenon DEF BoundedHubRecords
<1>2. IsHub(a, R) \in BOOLEAN BY DEF IsHub
<1>3. queried' = queried \cup {a} /\ evidence' = evidence \cup E BY Zenon DEF Take
<1>4. hubs' \in {hubs, hubs \cup {a}} BY Zenon DEF Take
<1> HIDE DEF kept
<1>5. \A e \in E : /\ e.address = a /\ e.hub \in BOOLEAN
                   /\ e.record \in ledger /\ e.record.tx # Seed
  BY <1>1, <1>2
<1> HIDE DEF E
<1>6. QED BY <1>3, <1>4, <1>5

LEMMA Queries ==
  ASSUME Typed, NEW a \in Addresses, AskIndexed(a) \/ AskRpc(a) \/ AskFails(a)
  PROVE  \E E : Asking(a, E)
<1>1. CASE AskIndexed(a)
  <2>1. PICK lost \in Lost :
           /\ Take(a, IndexedRecords(ledger, a, lost, startBlock, endBlock, SeedBlock,
                                     limits.records))
           /\ Suffers(lost # {})
    BY <1>1, Zenon DEF AskIndexed
  <2>r. IndexedRecords(ledger, a, lost, startBlock, endBlock, SeedBlock, limits.records)
          \subseteq ledger
    BY FirstOfSet
  <2>2. \E E : /\ evidence' = evidence \cup E
               /\ \A e \in E : /\ e.address = a /\ e.hub \in BOOLEAN
                               /\ e.record \in ledger /\ e.record.tx # Seed
    BY <2>1, <2>r, TakeEvidence
  <2>3. queried' = queried \cup {a} /\ hubs' \in {hubs, hubs \cup {a}}
    BY <2>1, <2>r, TakeEvidence
  <2>4. outages' \in {outages} \cup {k \in {outages + 1} : outages < MaxOutages}
    <3>1. lost # {} => outages < MaxOutages BY <2>1, Zenon DEF Lost
    <3>2. QED BY <2>1, <3>1, Zenon DEF Suffers
  <2>5. Turn(a) /\ UNCHANGED <<given, phase, endBlock, hop, addressHops, cases, failed,
                               addressLimit, inventory>>
    BY <1>1 DEF AskIndexed
  <2>6. QED BY <2>2, <2>3, <2>4, <2>5 DEF Asking
<1>2. CASE AskRpc(a)
  <2>1. PICK missing \in SUBSET (Window[1]..Window[2]),
             logs \in SUBSET TransferLogs(ledger, a, Window) :
          LET flawed == missing # {} \/ logs # TransferLogs(ledger, a, Window)
                        \/ limits.source = "auto"
          IN /\ flawed => outages < MaxOutages
             /\ inventory' = <<Scanned(missing)>>
             /\ Take(a, RpcRecords(Scanned(missing), logs, a, SeedBlock, limits.records))
             /\ Suffers(flawed)
    BY <1>2, Zenon DEF AskRpc
  <2>2. Scanned(missing) \subseteq ledger
    BY FirstOfSet DEF Scanned, Typed
  <2>3. logs \subseteq ledger BY FirstOfSet
  <2>4. RpcRecords(Scanned(missing), logs, a, SeedBlock, limits.records) \subseteq ledger
    BY <2>2, <2>3, FirstOfSet
  <2>5. \E E : /\ evidence' = evidence \cup E
               /\ \A e \in E : /\ e.address = a /\ e.hub \in BOOLEAN
                               /\ e.record \in ledger /\ e.record.tx # Seed
    BY <2>1, <2>4, TakeEvidence
  <2>6. queried' = queried \cup {a} /\ hubs' \in {hubs, hubs \cup {a}}
    BY <2>1, <2>4, TakeEvidence
  <2>7. outages' \in {outages} \cup {k \in {outages + 1} : outages < MaxOutages}
    BY <2>1, Zenon DEF Suffers
  <2>8. inventory'[1] \subseteq ledger BY <2>1, <2>2
  <2>9. Turn(a) /\ UNCHANGED <<given, phase, endBlock, hop, addressHops, cases, failed,
                               addressLimit>>
    BY <1>2 DEF AskRpc
  <2>10. QED BY <2>5, <2>6, <2>7, <2>8, <2>9 DEF Asking
<1>3. CASE AskFails(a)
  <2>1. Asking(a, {}) BY <1>3 DEF AskFails, Asking
  <2>2. QED BY <2>1
<1>4. QED BY <1>1, <1>2, <1>3

LEMMA TransferEnds ==
  ASSUME NEW t \in Txs, NEW m \in Range(Transfers[t])
  PROVE  m.from \in Ends /\ m.to \in Ends
<1>1. Transfers[t] \in Seq([from : Ends, to : Ends, committed : BOOLEAN])
  BY ReconstructionAssumption
<1>2. PICK i \in 1..Len(Transfers[t]) : m = Transfers[t][i] BY <1>1 DEF Range
<1>3. m \in [from : Ends, to : Ends, committed : BOOLEAN] BY <1>1, <1>2, ElementOfSeq
<1>4. QED BY <1>3

LEMMA FrontierType == SeedFrontier \subseteq Addresses
<1>1. Seed \in Txs /\ SeedEnds \subseteq Ends BY ReconstructionAssumption
<1>2. QED BY <1>1, TransferEnds DEF SeedFrontier, Ends

LEMMA LedgerTypes ==
  ASSUME Typed, NEW r \in ledger
  PROVE  /\ r \in Records
         /\ r.tx \in Txs /\ r.block \in Nat /\ r.pos \in Nat /\ r.kind \in Kinds
         /\ r.from \in Ends /\ r.to \in Ends /\ r.listed \subseteq Addresses
         /\ {r.from, r.to} \ {Zero} \subseteq r.listed
<1>1. r \in Records /\ {r.from, r.to} \ {Zero} \subseteq r.listed
  BY ReconstructionAssumption DEF Typed
<1>2. QED BY <1>1 DEF Records

LEMMA LimitTypes ==
  ASSUME Typed
  PROVE  /\ limits.backward \in Nat /\ limits.forward \in Nat /\ limits.hops \in Nat
         /\ limits.transactions \in Nat \ {0} /\ limits.addresses \in Nat \ {0}
         /\ limits.records \in Nat \ {0}
  BY ReconstructionAssumption DEF Typed

(* The addresses a candidate leads on to. *)
LEMMA LinkedType ==
  ASSUME Typed, NEW E, E \subseteq evidence, NEW t \in Txs
  PROVE  LinkedBy(E, t) \subseteq Addresses
<1> DEFINE L == {e.address : e \in E} \cup ({Counterpart(e.address, e.record) : e \in E} \ {Zero})
<1>1. ASSUME NEW e \in E
      PROVE  /\ e.address \in Addresses
             /\ Counterpart(e.address, e.record) \in Ends
  <2>1. e.address \in Addresses /\ e.record \in ledger BY DEF Typed, TypeOK
  <2>2. QED BY <2>1, LedgerTypes DEF Counterpart, Ends
<1>2. L \in SUBSET Addresses BY <1>1 DEF Ends
<1>3. Follow(L, t) \in SUBSET Addresses BY <1>2, FollowType
<1>4. QED BY <1>3 DEF LinkedBy

LEMMA TypedInit == Init => Typed
<1> SUFFICES ASSUME Init PROVE Typed OBVIOUS
<1>1. IsFiniteSet({}) /\ Cardinality({}) = 0 BY FS_EmptySet
<1>2. IsFiniteSet({Seed}) /\ Cardinality({Seed}) = 1 BY FS_Singleton
<1>3. Seed \in Txs /\ MaxOutages \in Nat BY ReconstructionAssumption
<1>4. limits.hops \in Nat /\ limits.transactions \in Nat \ {0} /\ limits.addresses \in Nat \ {0}
  BY ReconstructionAssumption DEF Init
<1>5. DOMAIN cases = {Seed} /\ cases[Seed] = 0 BY DEF Init
<1>6. DOMAIN addressHops = SeedFrontier /\ \A a \in SeedFrontier : addressHops[a] = 0
  BY DEF Init
<1>7. TypeOK BY <1>1, <1>2, <1>3, <1>4, <1>5, <1>6, FrontierType DEF Init, TypeOK
<1>8. QED BY <1>1, <1>2, <1>4, <1>5, <1>6, <1>7 DEF Init, Typed

(* The state after a choice: the new addresses and their hop. *)
LEMMA Extending ==
  ASSUME NEW new, NEW h, Extend(new, h)
  PROVE  \E kept \in SUBSET new :
           /\ DOMAIN addressHops' = DOMAIN addressHops \cup kept
           /\ \A a \in kept : addressHops'[a] = h
           /\ \A a \in DOMAIN addressHops \ kept : addressHops'[a] = addressHops[a]
           /\ addressLimit' = (addressLimit \/ kept # new)
<1>1. PICK kept \in SUBSET new :
        /\ addressHops' = [a \in DOMAIN addressHops \cup kept |->
                             IF a \in kept THEN h ELSE addressHops[a]]
        /\ addressLimit' = (addressLimit \/ kept # new)
  BY DEF Extend
<1>2. QED BY <1>1, Zenon

LEMMA TypedNext == Typed /\ [Next]_vars => Typed'
<1> SUFFICES ASSUME Typed, [Next]_vars PROVE Typed' OBVIOUS
<1> USE LimitTypes
<1>a. MaxOutages \in Nat /\ SeedBlock \in Nat /\ ChainHead \in Nat
  BY ReconstructionAssumption
<1>1. CASE Begin
  <2>1. endBlock' \in Nat BY <1>1, <1>a DEF Begin, AtMost
  <2>2. outages' \in 0..MaxOutages BY <1>1, <1>a DEF Begin, Typed, TypeOK
  <2>3. phase' \in {"query", "done"} /\ (phase' = "query" => limits.hops > 0) BY <1>1 DEF Begin
  <2>4. UNCHANGED <<given, hop, addressHops, queried, evidence, cases, failed, hubs,
                    addressLimit, inventory, partial>>
    BY <1>1 DEF Begin
  <2>5. hop = 0 BY <1>1 DEF Begin, Typed
  <2>6. TypeOK' BY <2>2, <2>3, <2>4 DEF Typed, TypeOK, given
  <2>7. QED BY <2>1, <2>3, <2>4, <2>5, <2>6 DEF Typed, given
<1>2. ASSUME NEW a \in Addresses, NEW E, Asking(a, E) PROVE Typed'
  <2>1. a \in DOMAIN addressHops /\ a \notin queried /\ Cardinality(queried) < limits.addresses
    BY <1>2 DEF Asking, Turn, Frontier
  <2>2. IsFiniteSet(queried') /\ Cardinality(queried') <= limits.addresses
    <3>1. IsFiniteSet(queried) /\ Cardinality(queried) \in Nat BY FS_CardinalityType DEF Typed
    <3>2. /\ IsFiniteSet(queried \cup {a})
          /\ Cardinality(queried \cup {a}) = Cardinality(queried) + 1
      BY <2>1, <3>1, FS_AddElement
    <3>3. queried' = queried \cup {a} BY <1>2 DEF Asking
    <3>4. QED BY <2>1, <3>1, <3>2, <3>3
  <2>3. outages' \in 0..MaxOutages BY <1>2, <1>a DEF Asking, Typed, TypeOK
  <2>4. TypeOK' BY <1>2, <2>1, <2>2, <2>3 DEF Asking, Typed, TypeOK, given
  <2>5. QED BY <1>2, <2>2, <2>4 DEF Asking, Typed, given
<1>3. CASE AddressCap BY <1>3 DEF AddressCap, Typed, TypeOK, given
<1>4. CASE FrontierAsked BY <1>4 DEF FrontierAsked, Typed, TypeOK, given
<1>5. ASSUME NEW t \in Txs, Investigate(t) PROVE Typed'
  <2> DEFINE new == IF Expands(t) THEN Linked(t) \ DOMAIN addressHops ELSE {}
  <2>1. /\ phase = "select" /\ Cardinality(DOMAIN cases) < limits.transactions
        /\ t \notin failed /\ t \notin DOMAIN cases /\ CandidateHop(t) = hop + 1
    BY <1>5 DEF Investigate, Chosen, Available
  <2>2. new \subseteq Addresses \ DOMAIN addressHops
    BY LinkedType DEF Linked, EvidenceFor
  <2>3. Extend(new, hop + 1) BY <1>5, <2>1 DEF Investigate
  <2> HIDE DEF new
  <2>4. /\ DOMAIN addressHops \subseteq DOMAIN addressHops'
        /\ DOMAIN addressHops' \subseteq Addresses
        /\ \A a \in DOMAIN addressHops' : addressHops'[a] \in Nat
    <3>1. PICK kept \in SUBSET new :
             /\ DOMAIN addressHops' = DOMAIN addressHops \cup kept
             /\ \A a \in kept : addressHops'[a] = hop + 1
             /\ \A a \in DOMAIN addressHops \ kept : addressHops'[a] = addressHops[a]
      BY <2>3, Extending
    <3>2. QED BY <2>2, <3>1 DEF Typed, TypeOK
  <2>5. cases' = [s \in DOMAIN cases \cup {t} |-> IF s = t THEN hop + 1 ELSE cases[s]]
    BY <1>5, <2>1 DEF Investigate
  <2>6. hop + 1 \in 0..limits.hops BY <2>1 DEF Typed, TypeOK
  <2>7. /\ DOMAIN cases' = DOMAIN cases \cup {t}
        /\ \A s \in DOMAIN cases' : cases'[s] \in 0..limits.hops
    BY <2>5, <2>6 DEF Typed, TypeOK
  <2>8. IsFiniteSet(DOMAIN cases') /\ Cardinality(DOMAIN cases') <= limits.transactions
    <3>1. IsFiniteSet(DOMAIN cases) /\ Cardinality(DOMAIN cases) \in Nat
      BY FS_CardinalityType DEF Typed
    <3>2. /\ IsFiniteSet(DOMAIN cases \cup {t})
          /\ Cardinality(DOMAIN cases \cup {t}) = Cardinality(DOMAIN cases) + 1
      BY <2>1, <3>1, FS_AddElement
    <3>3. QED BY <2>1, <2>7, <3>1, <3>2
  <2>9. UNCHANGED <<given, phase, endBlock, hop, queried, evidence, failed, hubs, inventory,
                    partial, outages>>
    BY <1>5 DEF Investigate
  <2>10. TypeOK' BY <2>1, <2>4, <2>7, <2>8, <2>9 DEF Typed, TypeOK, given
  <2>11. QED BY <2>4, <2>7, <2>8, <2>9, <2>10 DEF Typed, given
<1>6. ASSUME NEW t \in Txs, InvestigationFails(t) PROVE Typed'
  <2>1. t \notin DOMAIN cases BY <1>6 DEF InvestigationFails, Chosen, Available
  <2>2. outages' \in 0..MaxOutages BY <1>6, <1>a DEF InvestigationFails, Typed, TypeOK
  <2>3. QED BY <1>6, <2>1, <2>2 DEF InvestigationFails, Typed, TypeOK, given
<1>7. CASE EndHop BY <1>7 DEF EndHop, Typed, TypeOK, given
<1>8. CASE Dropped BY <1>8, <1>a DEF Dropped, Typed, TypeOK, given
<1>9. CASE UNCHANGED vars BY <1>9 DEF vars, Typed, TypeOK, given
<1>10. QED BY <1>1, <1>2, <1>3, <1>4, <1>5, <1>6, <1>7, <1>8, <1>9, Queries DEF Next

(* A reconstruction keeps to its limits on addresses and transactions, asks  *)
(* only for addresses of its frontiers, and every record it holds is one of  *)
(* the ledger (reconstruct_attack_case), for every ledger and every limit.   *)
THEOREM ReconstructionTypeCorrect == Spec => []TypeOK
<1>1. Spec => []Typed BY TypedInit, TypedNext, PTL DEF Spec
<1>2. Typed => TypeOK BY DEF Typed
<1>3. QED BY <1>1, <1>2, PTL

-----------------------------------------------------------------------------
(* The levels of the search: what is known and asked at which hop. *)
Looping == phase \in {"query", "select"}

Reached == IF phase = "query" THEN hop ELSE hop + 1

Levels ==
  /\ phase = "start" => /\ evidence = {} /\ queried = {} /\ DOMAIN cases = {Seed}
                        /\ DOMAIN addressHops = SeedFrontier
                        /\ \A a \in SeedFrontier : addressHops[a] = 0
  /\ \A a \in DOMAIN addressHops : addressHops[a] <= Reached
  /\ \A a \in queried : addressHops[a] <= hop
  /\ Looping => \A a \in DOMAIN addressHops : addressHops[a] < hop => a \in queried
  /\ phase = "select" => Frontier(hop) \subseteq queried
  /\ \A t \in DOMAIN cases \ {Seed} : cases[t] <= Reached

(* The candidates of the hops that are over have been investigated. *)
Settled ==
  Looping => \A e \in evidence : addressHops[e.address] < hop =>
                                   e.record.tx \in DOMAIN cases \cup failed

LEMMA HopType == ASSUME Typed PROVE hop \in Nat /\ hop + 1 \in Nat
  BY LimitTypes DEF Typed, TypeOK

(* An open candidate of a hop is known through addresses of that hop only. *)
LEMMA OpenCandidate ==
  ASSUME Typed, Levels, Settled, phase = "select",
         NEW e \in evidence, e.record.tx \notin DOMAIN cases \cup failed
  PROVE  addressHops[e.address] = hop
<1>1. e.address \in queried /\ e.address \in DOMAIN addressHops BY DEF Typed, TypeOK
<1>2. addressHops[e.address] \in Nat /\ addressHops[e.address] <= hop
  BY <1>1 DEF Levels, Typed
<1>3. ~(addressHops[e.address] < hop) BY DEF Settled, Looping
<1>4. QED BY <1>2, <1>3, HopType

LEMMA OpenIsAvailable ==
  ASSUME Typed, Levels, Settled, phase = "select",
         NEW t \in Candidates, t \notin DOMAIN cases \cup failed
  PROVE  t \in Available
<1>1. EvidenceFor(t) # {} BY DEF Candidates, EvidenceFor
<1>2. \A e \in EvidenceFor(t) : addressHops[e.address] = hop
  BY OpenCandidate DEF EvidenceFor
<1>3. {addressHops[e.address] + 1 : e \in EvidenceFor(t)} = {hop + 1} BY <1>1, <1>2
<1>4. Min({hop + 1}) = hop + 1 BY HopType DEF Min
<1>5. CandidateHop(t) = hop + 1 BY <1>3, <1>4, Zenon DEF CandidateHop
<1>6. QED BY <1>5 DEF Available

LEMMA Choosing ==
  ASSUME Typed, Levels, Settled, NEW t \in Txs, Chosen(t)
  PROVE  /\ phase = "select" /\ t \in Candidates /\ t \notin DOMAIN cases \cup failed
         /\ CandidateHop(t) = hop + 1
         /\ EvidenceFor(t) # {}
         /\ \A e \in EvidenceFor(t) : addressHops[e.address] = hop
<1>1. /\ phase = "select" /\ t \in Candidates /\ t \notin DOMAIN cases \cup failed
      /\ CandidateHop(t) = hop + 1
  BY DEF Chosen, Available
<1>2. EvidenceFor(t) # {} BY <1>1 DEF Candidates, EvidenceFor
<1>3. \A e \in EvidenceFor(t) : addressHops[e.address] = hop
  BY <1>1, OpenCandidate DEF EvidenceFor
<1>4. QED BY <1>1, <1>2, <1>3

(* What an investigation changes: the case, and addresses of the next hop. *)
Investigating(t, kept) ==
  /\ kept \subseteq Linked(t)
  /\ kept \cap DOMAIN addressHops = {}
  /\ kept # {} => ~HubOnly(t)
  /\ Expands(t) => addressLimit' \/ Linked(t) \subseteq DOMAIN addressHops'
  /\ DOMAIN addressHops' = DOMAIN addressHops \cup kept
  /\ \A a \in kept : addressHops'[a] = hop + 1
  /\ \A a \in DOMAIN addressHops : addressHops'[a] = addressHops[a]
  /\ addressLimit => addressLimit'
  /\ DOMAIN cases' = DOMAIN cases \cup {t}
  /\ cases'[t] = hop + 1
  /\ \A s \in DOMAIN cases : cases'[s] = cases[s]
  /\ UNCHANGED <<given, phase, endBlock, hop, queried, evidence, failed, hubs, inventory,
                 partial, outages>>

LEMMA InvestigateDoes ==
  ASSUME Typed, Levels, Settled, NEW t \in Txs, Investigate(t)
  PROVE  \E kept : Investigating(t, kept)
<1> DEFINE new == IF Expands(t) THEN Linked(t) \ DOMAIN addressHops ELSE {}
<1>1. Chosen(t) BY DEF Investigate
<1>2. CandidateHop(t) = hop + 1 /\ t \notin DOMAIN cases BY <1>1, Choosing
<1>3. Extend(new, hop + 1) BY <1>2 DEF Investigate
<1>4. PICK kept \in SUBSET new :
        /\ DOMAIN addressHops' = DOMAIN addressHops \cup kept
        /\ \A a \in kept : addressHops'[a] = hop + 1
        /\ \A a \in DOMAIN addressHops \ kept : addressHops'[a] = addressHops[a]
        /\ addressLimit' = (addressLimit \/ kept # new)
  <2> HIDE DEF new
  <2> QED BY <1>3, Extending
<1>5. /\ new \subseteq Linked(t) /\ new \cap DOMAIN addressHops = {}
      /\ new # {} => ~HubOnly(t)
      /\ Expands(t) => new = Linked(t) \ DOMAIN addressHops
  BY DEF Expands
<1>6. cases' = [s \in DOMAIN cases \cup {t} |-> IF s = t THEN hop + 1 ELSE cases[s]]
  BY <1>2 DEF Investigate
<1>7. /\ DOMAIN cases' = DOMAIN cases \cup {t} /\ cases'[t] = hop + 1
      /\ \A s \in DOMAIN cases : cases'[s] = cases[s]
  BY <1>2, <1>6
<1>8. UNCHANGED <<given, phase, endBlock, hop, queried, evidence, failed, hubs, inventory,
                  partial, outages>>
  BY DEF Investigate
<1> HIDE DEF new
<1>9. Expands(t) => addressLimit' \/ Linked(t) \subseteq DOMAIN addressHops'
  BY <1>4, <1>5
<1>10. addressLimit => addressLimit' BY <1>4
<1>11. QED BY <1>4, <1>5, <1>7, <1>8, <1>9, <1>10 DEF Investigating

LEMMA LevelsInit == Init => Levels /\ Settled
  BY DEF Init, Levels, Settled, Looping, Reached

LEMMA LevelsNext == Typed /\ Levels /\ Settled /\ [Next]_vars => Levels' /\ Settled'
<1> SUFFICES ASSUME Typed, Levels, Settled, [Next]_vars PROVE Levels' /\ Settled' OBVIOUS
<1>h. hop \in Nat /\ \A a \in DOMAIN addressHops : addressHops[a] \in Nat
  BY HopType DEF Typed
<1>e. \A e \in evidence : e.address \in queried /\ e.address \in DOMAIN addressHops
  BY DEF Typed, TypeOK
<1>1. CASE Begin
  <2>1. /\ phase = "start" /\ phase' \in {"query", "done"}
        /\ UNCHANGED <<given, hop, addressHops, queried, evidence, cases, failed>>
    BY <1>1 DEF Begin
  <2>2. hop = 0 BY <2>1 DEF Typed
  <2>3. QED BY <2>1, <2>2 DEF Levels, Settled, Looping, Reached, Frontier
<1>2. ASSUME NEW a \in Addresses, NEW E, Asking(a, E) PROVE Levels' /\ Settled'
  <2>1. /\ phase = "query" /\ a \in DOMAIN addressHops /\ addressHops[a] = hop
        /\ queried' = queried \cup {a} /\ evidence' = evidence \cup E
        /\ \A e \in E : e.address = a
        /\ UNCHANGED <<phase, hop, addressHops, cases, failed>>
    BY <1>2 DEF Asking, Turn, Frontier
  <2>2. Levels' BY <1>h, <2>1 DEF Levels, Looping, Reached, Frontier
  <2>3. Settled' BY <1>h, <2>1 DEF Settled, Looping
  <2>4. QED BY <2>2, <2>3
<1>c. \A t \in DOMAIN cases : cases[t] \in Nat BY LimitTypes DEF Typed, TypeOK
<1>3. CASE AddressCap
  <2>1. /\ phase = "query" /\ phase' = "done"
        /\ UNCHANGED <<hop, addressHops, queried, evidence, cases, failed>>
    BY <1>3 DEF AddressCap
  <2>2. QED BY <2>1, <1>h, <1>c DEF Levels, Settled, Looping, Reached, Frontier
<1>4. CASE FrontierAsked
  <2>1. /\ phase = "query" /\ phase' \in {"select", "done"} /\ Frontier(hop) \subseteq queried
        /\ UNCHANGED <<hop, addressHops, queried, evidence, cases, failed>>
    BY <1>4 DEF FrontierAsked
  <2>2. Settled' BY <2>1 DEF Settled, Looping
  <2>3. Levels' BY <2>1, <1>h, <1>c DEF Levels, Looping, Reached, Frontier
  <2>4. QED BY <2>2, <2>3
<1>5. ASSUME NEW t \in Txs, Investigate(t) PROVE Levels' /\ Settled'
  <2>1. PICK kept : Investigating(t, kept) BY <1>5, InvestigateDoes
  <2>2. phase = "select" BY <1>5 DEF Investigate, Chosen
  <2>3. queried \subseteq DOMAIN addressHops BY DEF Typed, TypeOK
  <2>4. Levels' BY <1>h, <2>1, <2>2, <2>3 DEF Investigating, Levels, Looping, Reached, Frontier
  <2>5. Settled' BY <1>h, <1>e, <2>1, <2>2 DEF Investigating, Settled, Looping
  <2>6. QED BY <2>4, <2>5
<1>6. ASSUME NEW t \in Txs, InvestigationFails(t) PROVE Levels' /\ Settled'
  BY <1>6 DEF InvestigationFails, Chosen, Levels, Settled, Looping, Reached, Frontier
<1>7. CASE EndHop
  <2>1. /\ phase = "select"
        /\ UNCHANGED <<addressHops, queried, evidence, cases, failed>>
    BY <1>7 DEF EndHop
  <2>2. CASE phase' = "done" /\ hop' = hop
    BY <1>h, <2>1, <2>2 DEF Levels, Settled, Looping, Reached, Frontier
  <2>3. CASE phase' = "query" /\ hop' = hop + 1 /\ Available = {}
    <3>q. queried \subseteq DOMAIN addressHops BY DEF Typed, TypeOK
    <3>a. \A a \in DOMAIN addressHops : addressHops[a] < hop + 1 => a \in queried
      BY <1>h, <2>1 DEF Levels, Looping, Frontier
    <3>1. Levels' BY <1>h, <1>c, <2>1, <2>3, <3>q, <3>a DEF Levels, Looping, Reached, Frontier
    <3>2. \A e \in evidence : e.record.tx \in DOMAIN cases \cup failed
      BY <2>1, <2>3, OpenIsAvailable DEF Candidates
    <3>3. QED BY <2>1, <3>1, <3>2 DEF Settled
  <2>4. QED BY <1>7, <2>2, <2>3 DEF EndHop
<1>8. CASE Dropped
  <2>1. /\ phase \in {"start", "query", "select"} /\ phase' = "raised"
        /\ UNCHANGED <<hop, addressHops, queried, evidence, cases, failed>>
    BY <1>8 DEF Dropped
  <2>2. QED BY <2>1, <1>h, <1>c DEF Levels, Settled, Looping, Reached, Frontier
<1>9. CASE UNCHANGED vars
  BY <1>9 DEF vars, Levels, Settled, Looping, Reached, Frontier
<1>10. QED BY <1>1, <1>2, <1>3, <1>4, <1>5, <1>6, <1>7, <1>8, <1>9, Queries DEF Next

Sound == Typed /\ Levels /\ Settled

LEMMA SoundInit == Init => Sound
  BY TypedInit, LevelsInit DEF Sound

LEMMA SoundNext == Sound /\ [Next]_vars => Sound'
  BY TypedNext, LevelsNext DEF Sound

-----------------------------------------------------------------------------
(* The chain of evidence. *)
LEMMA LinkedGrows ==
  ASSUME NEW E, NEW F, E \subseteq F, NEW t \in Txs
  PROVE  LinkedBy(E, t) \subseteq LinkedBy(F, t)
<1> DEFINE L(S) == {e.address : e \in S} \cup ({Counterpart(e.address, e.record) : e \in S} \ {Zero})
<1>1. L(E) \subseteq L(F) OBVIOUS
<1>2. Follow(L(E), t) \subseteq Follow(L(F), t)
  <2> HIDE DEF L
  <2> QED BY <1>1, FollowGrows
<1>3. QED BY <1>2 DEF LinkedBy

LEMMA ChainInit == Init => EvidenceChain
<1> SUFFICES ASSUME Init PROVE EvidenceChain OBVIOUS
<1>1. DOMAIN cases \ {Seed} = {} /\ DOMAIN addressHops \ SeedFrontier = {} BY DEF Init
<1>2. QED BY <1>1 DEF EvidenceChain

(* Where evidence, addresses and cases only grow, the old links stay. *)
LEMMA LinksStay ==
  ASSUME Sound, EvidenceChain, evidence \subseteq evidence',
         DOMAIN addressHops \subseteq DOMAIN addressHops',
         \A a \in DOMAIN addressHops : addressHops'[a] = addressHops[a],
         DOMAIN cases \subseteq DOMAIN cases',
         \A t \in DOMAIN cases : cases'[t] = cases[t]
  PROVE  /\ \A t \in DOMAIN cases \ {Seed} :
              \E e \in EvidenceFor(t)' : addressHops'[e.address] = cases'[t] - 1
         /\ \A a \in DOMAIN addressHops \ SeedFrontier :
              \E t \in DOMAIN cases' \ {Seed} : /\ cases'[t] = addressHops'[a]
                                                /\ ~HubOnly(t)'
                                                /\ a \in Linked(t)'
<1>1. ASSUME NEW t PROVE EvidenceFor(t) \subseteq EvidenceFor(t)' BY DEF EvidenceFor
<1>2. \A t : \A e \in EvidenceFor(t) : e.address \in DOMAIN addressHops
  BY DEF Sound, Typed, TypeOK, EvidenceFor
<1>3. ASSUME NEW t \in DOMAIN cases \ {Seed}
      PROVE  \E e \in EvidenceFor(t)' : addressHops'[e.address] = cases'[t] - 1
  <2>1. PICK e \in EvidenceFor(t) : addressHops[e.address] = cases[t] - 1
    BY DEF EvidenceChain
  <2>2. QED BY <1>1, <1>2, <2>1
<1>4. ASSUME NEW a \in DOMAIN addressHops \ SeedFrontier
      PROVE  \E t \in DOMAIN cases' \ {Seed} : /\ cases'[t] = addressHops'[a]
                                               /\ ~HubOnly(t)'
                                               /\ a \in Linked(t)'
  <2>1. PICK t \in DOMAIN cases \ {Seed} :
          cases[t] = addressHops[a] /\ ~HubOnly(t) /\ a \in Linked(t)
    BY DEF EvidenceChain
  <2>2. t \in Txs BY DEF Sound, Typed, TypeOK
  <2>3. ~HubOnly(t)' BY <1>1, <2>1 DEF HubOnly
  <2>4. a \in Linked(t)' BY <1>1, <2>1, <2>2, LinkedGrows DEF Linked
  <2>5. QED BY <2>1, <2>3, <2>4
<1>5. QED BY <1>3, <1>4

LEMMA ChainNext == Sound /\ EvidenceChain /\ [Next]_vars => EvidenceChain'
<1> SUFFICES ASSUME Sound, EvidenceChain, [Next]_vars PROVE EvidenceChain' OBVIOUS
<1> USE DEF Sound
<1>s. SeedFrontier' = SeedFrontier BY DEF SeedFrontier
<1>1. CASE UNCHANGED <<addressHops, cases>> /\ evidence \subseteq evidence'
  BY <1>1, <1>s, LinksStay DEF EvidenceChain
<1>2. ASSUME NEW t \in Txs, Investigate(t) PROVE EvidenceChain'
  <2>1. PICK kept : Investigating(t, kept) BY <1>2, InvestigateDoes
  <2>2. Chosen(t) BY <1>2 DEF Investigate
  <2>3. /\ t \notin DOMAIN cases /\ EvidenceFor(t) # {}
        /\ \A e \in EvidenceFor(t) : addressHops[e.address] = hop
    BY <2>2, Choosing
  <2>4. t # Seed BY <2>3 DEF Typed
  <2>5. /\ \A s \in DOMAIN cases \ {Seed} :
              \E e \in EvidenceFor(s)' : addressHops'[e.address] = cases'[s] - 1
        /\ \A a \in DOMAIN addressHops \ SeedFrontier :
              \E s \in DOMAIN cases' \ {Seed} : /\ cases'[s] = addressHops'[a]
                                                /\ ~HubOnly(s)'
                                                /\ a \in Linked(s)'
    BY <2>1, LinksStay DEF Investigating
  <2>6. EvidenceFor(t)' = EvidenceFor(t) BY <2>1 DEF Investigating, EvidenceFor
  <2>7. \E e \in EvidenceFor(t)' : addressHops'[e.address] = cases'[t] - 1
    <3>1. PICK e \in EvidenceFor(t) : addressHops[e.address] = hop BY <2>3
    <3>2. e.address \in DOMAIN addressHops BY DEF Typed, TypeOK, EvidenceFor
    <3>3. addressHops'[e.address] = hop /\ cases'[t] = hop + 1
      BY <2>1, <3>1, <3>2 DEF Investigating
    <3>4. QED BY <2>6, <3>3, HopType
  <2>8. ASSUME NEW a \in kept
        PROVE  /\ t \in DOMAIN cases' \ {Seed} /\ cases'[t] = addressHops'[a]
               /\ ~HubOnly(t)' /\ a \in Linked(t)'
    BY <2>1, <2>4, <2>6 DEF Investigating, HubOnly, Linked
  <2>9. QED BY <1>s, <2>1, <2>5, <2>7, <2>8 DEF EvidenceChain, Investigating
<1>3. ASSUME NEW a \in Addresses, NEW E, Asking(a, E) PROVE EvidenceChain'
  BY <1>1, <1>3 DEF Asking
<1>4. CASE Begin \/ AddressCap \/ FrontierAsked \/ EndHop \/ Dropped \/ UNCHANGED vars
  BY <1>1, <1>4 DEF Begin, AddressCap, FrontierAsked, EndHop, Dropped, vars
<1>5. ASSUME NEW t \in Txs, InvestigationFails(t) PROVE EvidenceChain'
  BY <1>1, <1>5 DEF InvestigationFails
<1>6. QED BY <1>2, <1>3, <1>4, <1>5, Queries DEF Next

(* For every ledger and every limit: each transaction and address of the     *)
(* case hangs on the seed by a chain of evidence as long as its hop          *)
(* (reconstruct_attack_case).  What is learned of a transaction later only   *)
(* adds links.                                                               *)
THEOREM CaseHangsOnSeed == Spec => []EvidenceChain
<1>1. Init => Sound /\ EvidenceChain BY SoundInit, ChainInit
<1>2. Sound /\ EvidenceChain /\ [Next]_vars => Sound' /\ EvidenceChain'
  BY SoundNext, ChainNext
<1>3. QED BY <1>1, <1>2, PTL DEF Spec

-----------------------------------------------------------------------------
(* Nothing is dropped without a word. *)
Known(t) == {e \in EvidenceFor(t) : addressHops[e.address] < cases[t]}

Expanded ==
  \A t \in DOMAIN cases \ {Seed} :
    (cases[t] < limits.hops /\ \E e \in Known(t) : ~e.hub) =>
      LinkedBy(Known(t), t) \subseteq DOMAIN addressHops \/ addressLimit

Kept == Expanded /\ NothingDroppedSilently

LEMMA KeptInit == Init => Kept
  BY DEF Init, Kept, Expanded, NothingDroppedSilently

(* A case whose evidence of the earlier hops does not grow stays expanded. *)
LEMMA StaysExpanded ==
  ASSUME Sound, Expanded, NEW t \in DOMAIN cases \ {Seed},
         Known(t)' = Known(t), cases'[t] = cases[t], UNCHANGED limits,
         DOMAIN addressHops \subseteq DOMAIN addressHops', addressLimit => addressLimit'
  PROVE  (cases'[t] < limits'.hops /\ \E e \in Known(t)' : ~e.hub) =>
           LinkedBy(Known(t)', t) \subseteq DOMAIN addressHops' \/ addressLimit'
  BY DEF Expanded

LEMMA ExpandedNext == Sound /\ Expanded /\ [Next]_vars => Expanded'
<1> SUFFICES ASSUME Sound, Expanded, [Next]_vars PROVE Expanded' OBVIOUS
<1> USE DEF Sound
<1>h. hop \in Nat /\ \A t \in DOMAIN cases : cases[t] \in Nat
  BY HopType, LimitTypes DEF Typed, TypeOK
<1>1. ASSUME NEW a \in Addresses, NEW E, Asking(a, E) PROVE Expanded'
  <2>1. /\ phase = "query" /\ addressHops[a] = hop /\ evidence' = evidence \cup E
        /\ \A e \in E : e.address = a
        /\ UNCHANGED <<limits, addressHops, cases, addressLimit>>
    BY <1>1 DEF Asking, Turn, Frontier, given
  <2>2. ASSUME NEW t \in DOMAIN cases \ {Seed} PROVE Known(t)' = Known(t)
    <3>1. cases[t] <= hop BY <2>1 DEF Levels, Reached
    <3>2. QED BY <1>h, <2>1, <3>1 DEF Known, EvidenceFor
  <2>3. QED BY <2>1, <2>2, StaysExpanded DEF Expanded
<1>2. ASSUME NEW t \in Txs, Investigate(t) PROVE Expanded'
  <2>1. PICK kept : Investigating(t, kept) BY <1>2, InvestigateDoes
  <2>2. Chosen(t) BY <1>2 DEF Investigate
  <2>3. /\ t \notin DOMAIN cases /\ CandidateHop(t) = hop + 1
        /\ \A e \in EvidenceFor(t) : addressHops[e.address] = hop
    BY <2>2, Choosing
  <2>4. \A s : EvidenceFor(s)' = EvidenceFor(s) BY <2>1 DEF Investigating, EvidenceFor
  <2>5. \A s : \A e \in EvidenceFor(s) : e.address \in DOMAIN addressHops
    BY DEF Typed, TypeOK, EvidenceFor
  <2>6. ASSUME NEW s \in DOMAIN cases \ {Seed} PROVE Known(s)' = Known(s)
    BY <2>1, <2>4, <2>5 DEF Known, Investigating
  <2>7. ASSUME NEW s \in DOMAIN cases \ {Seed}
        PROVE (cases'[s] < limits'.hops /\ \E e \in Known(s)' : ~e.hub) =>
                 LinkedBy(Known(s)', s) \subseteq DOMAIN addressHops' \/ addressLimit'
    BY <2>1, <2>6, StaysExpanded DEF Investigating, given
  <2>8. Known(t)' = EvidenceFor(t)
    BY <1>h, <2>1, <2>3, <2>4, <2>5 DEF Known, Investigating
  <2>9. (cases'[t] < limits'.hops /\ \E e \in Known(t)' : ~e.hub) =>
           LinkedBy(Known(t)', t) \subseteq DOMAIN addressHops' \/ addressLimit'
    BY <2>1, <2>3, <2>8 DEF Investigating, Expands, HubOnly, Linked, given
  <2>10. QED BY <2>1, <2>7, <2>9 DEF Expanded, Investigating
<1>3. CASE /\ UNCHANGED <<limits, addressHops, evidence, cases>>
           /\ addressLimit => addressLimit'
  <2>1. \A t : Known(t)' = Known(t) BY <1>3 DEF Known, EvidenceFor
  <2>2. QED BY <1>3, <2>1, StaysExpanded DEF Expanded
<1>4. CASE Begin \/ AddressCap \/ FrontierAsked \/ EndHop \/ Dropped \/ UNCHANGED vars
  BY <1>3, <1>4 DEF Begin, AddressCap, FrontierAsked, EndHop, Dropped, vars, given
<1>5. ASSUME NEW t \in Txs, InvestigationFails(t) PROVE Expanded'
  BY <1>3, <1>5 DEF InvestigationFails, given
<1>6. QED BY <1>1, <1>2, <1>4, <1>5, Queries DEF Next

(* What a finished reconstruction has left open, by the way it ended. *)
AllAsked == \A a \in DOMAIN addressHops : \/ a \in queried \/ addressHops[a] >= limits.hops
                                          \/ Full \/ addressLimit

AllTold == \A t \in Candidates : t \in DOMAIN cases \cup failed \/ TransactionLimit \/ addressLimit

LEMMA DroppedParts == (Expanded /\ AllAsked /\ AllTold) => NothingDroppedSilently
  BY Zenon DEF Expanded, Known, AllAsked, AllTold, NothingDroppedSilently

LEMMA EndingTold ==
  ASSUME Sound, phase # "done", [Next]_vars, phase' = "done"
  PROVE  AllAsked' /\ AllTold'
<1> USE DEF Sound
<1>h. hop \in Nat /\ \A a \in DOMAIN addressHops : addressHops[a] \in Nat
  BY HopType DEF Typed
<1>1. CASE Begin
  <2>1. /\ phase = "start" /\ ~(limits.hops > 0 /\ Frontier(0) # {})
        /\ UNCHANGED <<given, addressHops, evidence>>
    BY <1>1 DEF Begin
  <2>2. evidence' = {} /\ \A a \in DOMAIN addressHops : addressHops[a] = 0
    BY <2>1 DEF Levels
  <2>3. AllTold' BY <2>2 DEF AllTold, Candidates
  <2>4. AllAsked' BY <2>1, <2>2, LimitTypes DEF AllAsked, Frontier, given
  <2>5. QED BY <2>3, <2>4
<1>2. CASE AddressCap \/ FrontierAsked
  <2>1. addressLimit' BY <1>2 DEF AddressCap, FrontierAsked
  <2>2. QED BY <2>1 DEF AllAsked, AllTold
<1>3. CASE EndHop
  <2>1. /\ phase = "select"
        /\ UNCHANGED <<given, addressHops, queried, evidence, cases, failed, addressLimit>>
    BY <1>3 DEF EndHop
  <2>2. CASE Full
    <3>1. Full' BY <2>1, <2>2 DEF Full, given
    <3>2. AllTold' BY <3>1 DEF AllTold, TransactionLimit
    <3>3. QED BY <3>1, <3>2 DEF AllAsked
  <2>3. CASE ~Full
    <3>1. Available = {} /\ (hop + 1 >= limits.hops \/ Frontier(hop + 1) = {})
      BY <1>3, <2>3 DEF EndHop
    <3>2. \A t \in Candidates : t \in DOMAIN cases \cup failed
      BY <2>1, <3>1, OpenIsAvailable
    <3>3. AllTold' BY <2>1, <3>2 DEF AllTold, Candidates
    <3>4. ASSUME NEW a \in DOMAIN addressHops
          PROVE  a \in queried \/ addressHops[a] = hop + 1
      BY <1>h, <2>1 DEF Levels, Looping, Reached, Frontier
    <3>5. AllAsked' BY <2>1, <3>1, <3>4 DEF AllAsked, Frontier, given
    <3>6. QED BY <3>3, <3>5
  <2>4. QED BY <2>2, <2>3
<1>4. ASSUME NEW a \in Addresses, NEW E, Asking(a, E) PROVE FALSE
  BY <1>4 DEF Asking, Turn
<1>5. ASSUME NEW t \in Txs, Investigate(t) \/ InvestigationFails(t) PROVE FALSE
  BY <1>5 DEF Investigate, InvestigationFails, Chosen
<1>6. CASE Dropped \/ UNCHANGED vars BY <1>6 DEF Dropped, vars
<1>7. QED BY <1>1, <1>2, <1>3, <1>4, <1>5, <1>6, Queries DEF Next

LEMMA DroppedNext ==
  Sound /\ Expanded /\ NothingDroppedSilently /\ [Next]_vars => NothingDroppedSilently'
<1> SUFFICES ASSUME Sound, Expanded, NothingDroppedSilently, [Next]_vars
             PROVE  NothingDroppedSilently'
  OBVIOUS
<1>1. CASE phase' # "done" BY <1>1 DEF NothingDroppedSilently
<1>2. CASE phase # "done" /\ phase' = "done"
  <2>1. AllAsked' /\ AllTold' BY <1>2, EndingTold
  <2>2. Expanded' BY ExpandedNext
  <2>3. QED BY <2>1, <2>2, DroppedParts, PTL
<1>3. CASE phase = "done"
  <2>1. UNCHANGED vars
    <3>1. ASSUME NEW a \in Addresses, NEW E, Asking(a, E) PROVE FALSE
      BY <1>3, <3>1 DEF Asking, Turn
    <3>2. QED
      BY <1>3, <3>1, Queries DEF Next, Begin, AddressCap, FrontierAsked, Investigate,
         InvestigationFails, Chosen, EndHop, Dropped, Sound
  <2>2. QED BY <2>1 DEF vars, given, NothingDroppedSilently, Candidates, TransactionLimit,
                        Full, EvidenceFor
<1>4. QED BY <1>1, <1>2, <1>3

(* For every ledger and every limit: a finished reconstruction has left out  *)
(* no candidate, no address and no link that led on without the report of a  *)
(* limit (reconstruct_attack_case, ReconstructionCoverage).                  *)
THEOREM GapsAreReported == Spec => []NothingDroppedSilently
<1>1. Init => Sound /\ Kept BY SoundInit, KeptInit
<1>2. Sound /\ Kept /\ [Next]_vars => Sound' /\ Kept'
  BY SoundNext, ExpandedNext, DroppedNext DEF Kept
<1>3. Kept => NothingDroppedSilently BY DEF Kept
<1>4. QED BY <1>1, <1>2, <1>3, PTL DEF Spec

-----------------------------------------------------------------------------
(* When the answers are complete.  A sort cut at a number no smaller than    *)
(* the set keeps all of it, and one that keeps fewer than the number cut     *)
(* nothing.                                                                  *)
LEMMA FewerBefore ==
  ASSUME NEW R, IsFiniteSet(R), NEW r \in R, NEW B, B \subseteq R \ {r},
         NEW n \in Nat, Cardinality(R) <= n
  PROVE  Cardinality(B) < n
<1>1. IsFiniteSet(R \ {r}) /\ Cardinality(R \ {r}) = Cardinality(R) - 1
  BY FS_RemoveElement
<1>2. Cardinality(B) <= Cardinality(R \ {r}) /\ IsFiniteSet(B) BY <1>1, FS_Subset
<1>3. Cardinality(R) \in Nat /\ Cardinality(B) \in Nat BY <1>2, FS_CardinalityType
<1>4. QED BY <1>1, <1>2, <1>3

LEMMA UniqueKeepsAll ==
  ASSUME NEW R, IsFiniteSet(R), NEW n \in Nat, Cardinality(R) <= n,
         NEW anchor \in Nat, \A r \in R : r.block \in Nat /\ r.pos \in Nat
  PROVE  BoundedUnique(R, n, anchor) = R
<1> DEFINE B(r) == {q \in R : \/ Distance(q.block, anchor) < Distance(r.block, anchor)
                              \/ /\ Distance(q.block, anchor) = Distance(r.block, anchor)
                                 /\ q.pos < r.pos}
<1>1. ASSUME NEW r \in R PROVE Cardinality(B(r)) < n
  <2>1. Distance(r.block, anchor) \in Nat BY DEF Distance
  <2>2. B(r) \subseteq R \ {r} BY <2>1
  <2> HIDE DEF B
  <2>3. QED BY <2>2, FewerBefore
<1>2. BoundedUnique(R, n, anchor) = {r \in R : Cardinality(B(r)) < n}
  BY Zenon DEF BoundedUnique, First
<1> HIDE DEF B
<1>3. QED BY <1>1, <1>2

PageOf(R, n, side) ==
  {r \in R : Cardinality({q \in R : IF side = "desc" THEN q.pos > r.pos ELSE q.pos < r.pos}) < n}

(* A page is not cut when the records of the address are no more than it. *)
LEMMA PageKeepsAll ==
  ASSUME NEW R, IsFiniteSet(R), NEW n \in Nat, Cardinality(R) <= n,
         NEW side, \A r \in R : r.pos \in Nat
  PROVE  PageOf(R, n, side) = R
<1> DEFINE B(r) == {q \in R : IF side = "desc" THEN q.pos > r.pos ELSE q.pos < r.pos}
<1>1. ASSUME NEW r \in R PROVE Cardinality(B(r)) < n
  <2>1. B(r) \subseteq R \ {r} OBVIOUS
  <2> HIDE DEF B
  <2>2. QED BY <2>1, FewerBefore
<1>2. {r \in R : Cardinality(B(r)) < n} = R
  <2> HIDE DEF B
  <2> QED BY <1>1
<1>3. QED BY <1>2 DEF PageOf

(* A scan that kept fewer transactions than it may kept every one. *)
LEMMA ScanKeepsAll ==
  ASSUME NEW L, IsFiniteSet(L), \A r \in L : r.pos \in Nat, NEW window,
         Cardinality(Inventory(L, window, {})) < MaxInventory
  PROVE  Inventory(L, window, {}) =
           {r \in L : r.kind = "normal" /\ r.block \in window[1]..window[2]}
<1> DEFINE R == {r \in L : r.kind = "normal" /\ r.block \in window[1]..window[2]}
           B(r) == {q \in R : q.pos < r.pos}
           I == {r \in R : Cardinality(B(r)) < MaxInventory}
<1>1. Inventory(L, window, {}) = I
  <2>1. R = {r \in L : r.kind = "normal" /\ r.block \in (window[1]..window[2]) \ {}} OBVIOUS
  <2>2. QED BY <2>1, Zenon DEF Inventory, First
<1>2. IsFiniteSet(R) BY FS_Subset
<1>3. ASSUME R \ I # {} PROVE FALSE
  <2> DEFINE P == {r.pos : r \in R \ I}
  <2>1. P \in SUBSET Nat /\ P # {} BY <1>3
  <2>2. PICK p \in P : \A q \in P : p <= q
    <3> HIDE DEF P
    <3> QED BY <2>1, LeastNumber
  <2>3. PICK r \in R \ I : r.pos = p BY <2>2
  <2>4. ASSUME NEW q \in B(r) PROVE q \in I
    <3>1. q \in R /\ q.pos \in Nat /\ r.pos \in Nat /\ q.pos < r.pos OBVIOUS
    <3> HIDE DEF I, B, R
    <3>2. q \notin I => q.pos \in P BY <3>1
    <3>3. q \notin I => r.pos <= q.pos BY <2>2, <2>3, <3>2
    <3>4. QED BY <3>1, <3>3
  <2>5. IsFiniteSet(I) BY <1>2, FS_Subset
  <2>6. Cardinality(B(r)) <= Cardinality(I) /\ IsFiniteSet(B(r)) BY <2>4, <2>5, FS_Subset
  <2>7. Cardinality(B(r)) \in Nat /\ Cardinality(I) \in Nat
    BY <2>5, <2>6, FS_CardinalityType
  <2>8. ~(Cardinality(B(r)) < MaxInventory) BY <2>3
  <2>9. MaxInventory \in Nat /\ Cardinality(I) < MaxInventory BY <1>1, HistoryAssumption
  <2> HIDE DEF I, B
  <2>10. QED BY <2>6, <2>7, <2>8, <2>9
<1>4. QED BY <1>1, <1>3

LEMMA ListedTypes ==
  ASSUME Typed, NEW a
  PROVE  /\ IsFiniteSet(Listed(a)) /\ Cardinality(Listed(a)) \in Nat
         /\ Listed(a) \subseteq ledger
         /\ \A r \in Listed(a) : r.block \in Nat /\ r.pos \in Nat /\ r.kind \in Kinds
         /\ startBlock \in Nat /\ endBlock \in Nat /\ SeedBlock \in Nat
<1>1. IsFiniteSet(ledger) BY ReconstructionAssumption DEF Typed
<1>2. Listed(a) \subseteq ledger BY DEF Listed
<1>3. IsFiniteSet(Listed(a)) BY <1>1, <1>2, FS_Subset
<1>4. SeedBlock \in Nat /\ limits.backward \in Nat BY ReconstructionAssumption, LimitTypes
<1>5. startBlock \in Nat BY <1>4 DEF startBlock, AtLeast
<1>6. QED BY <1>2, <1>3, <1>4, <1>5, LedgerTypes, FS_CardinalityType DEF Typed

LEMMA IndexedComplete ==
  ASSUME Typed, NEW a, ~(Cardinality(Listed(a)) > PageLimit)
  PROVE  IndexedRecords(ledger, a, {}, startBlock, endBlock, SeedBlock, limits.records)
           = Listed(a)
<1> DEFINE b == AtMost(MaxPage, AtLeast(1, limits.records))
           n == AtMost(MaxPage, PerDirection(b))
           range(req) == SideStart(req[2], startBlock, SeedBlock)..SideEnd(req[2], endBlock, SeedBlock)
           R(req) == {r \in ledger : r.kind = req[1] /\ a \in r.listed /\ r.block \in range(req)}
           P(req) == Page(ledger, a, req, startBlock, endBlock, SeedBlock, b)
<1>t. /\ IsFiniteSet(Listed(a)) /\ Cardinality(Listed(a)) \in Nat
      /\ \A r \in Listed(a) : r.block \in Nat /\ r.pos \in Nat /\ r.kind \in Kinds
      /\ startBlock \in Nat /\ endBlock \in Nat /\ SeedBlock \in Nat
  BY ListedTypes
<1>1. /\ b \in Nat /\ b = AtMost(MaxPage, limits.records) /\ PerDirection(b) \in Nat
  <2>1. limits.records \in Nat \ {0} /\ MaxPage \in Nat \ {0} /\ MinPage \in Nat \ {0}
    BY LimitTypes, HistoryAssumption
  <2>2. b \in Nat /\ b = AtMost(MaxPage, limits.records) BY <2>1 DEF AtMost, AtLeast
  <2> HIDE DEF b
  <2>3. (b + 1) \div 2 \in Nat BY <2>2
  <2>4. PerDirection(b) \in Nat BY <2>1, <2>3 DEF PerDirection, AtLeast
  <2>5. QED BY <2>2, <2>4
<1>2. n \in Nat /\ Cardinality(Listed(a)) <= n /\ Cardinality(Listed(a)) <= b
  <2>1. PageLimit = AtMost(MaxPage, AtMost(limits.records, PerDirection(b)))
    BY <1>1 DEF PageLimit
  <2>2. limits.records \in Nat /\ MaxPage \in Nat BY LimitTypes, HistoryAssumption
  <2> HIDE DEF b
  <2>3. QED BY <1>1, <1>t, <2>1, <2>2 DEF AtMost
<1>3. ASSUME NEW req \in Requests PROVE P(req) = R(req)
  <2>1. R(req) \subseteq Listed(a)
    BY <1>t DEF Listed, SideStart, SideEnd, AtLeast, AtMost
  <2> HIDE DEF R, b, n
  <2>2. IsFiniteSet(R(req)) /\ Cardinality(R(req)) <= n
    <3>1. IsFiniteSet(R(req)) /\ Cardinality(R(req)) <= Cardinality(Listed(a))
      BY <1>t, <2>1, FS_Subset
    <3>2. Cardinality(R(req)) \in Nat BY <3>1, FS_CardinalityType
    <3>3. QED BY <1>t, <1>2, <3>1, <3>2
  <2>3. \A r \in R(req) : r.pos \in Nat BY <1>t, <2>1
  <2>4. PageOf(R(req), n, req[2]) = R(req) BY <1>2, <2>2, <2>3, PageKeepsAll
  <2>5. QED BY <2>4, Zenon DEF Page, PageOf, First, R, n
<1>4. UNION {P(req) : req \in Requests \ {}} = Listed(a)
  <2> HIDE DEF P
  <2>1. ASSUME NEW req \in Requests PROVE P(req) \subseteq Listed(a)
    <3>1. R(req) \subseteq Listed(a)
      BY <1>t DEF Listed, SideStart, SideEnd, AtLeast, AtMost
    <3> HIDE DEF R
    <3>2. QED BY <1>3, <3>1
  <2>2. ASSUME NEW r \in Listed(a) PROVE \E req \in Requests : r \in P(req)
    <3>1. r \in ledger /\ a \in r.listed /\ r.block \in startBlock..endBlock /\ r.kind \in Kinds
      BY <1>t DEF Listed
    <3>2. CASE r.block <= SeedBlock
      <4>1. <<r.kind, "desc">> \in Requests BY <3>1 DEF Requests
      <4>2. r.block \in range(<<r.kind, "desc">>)
        BY <1>t, <3>1, <3>2 DEF SideStart, SideEnd, AtMost
      <4>3. r \in R(<<r.kind, "desc">>) BY <3>1, <4>2
      <4>4. QED BY <1>3, <4>1, <4>3
    <3>3. CASE r.block > SeedBlock
      <4>1. <<r.kind, "asc">> \in Requests BY <3>1 DEF Requests
      <4>2. r.block \in range(<<r.kind, "asc">>)
        BY <1>t, <3>1, <3>3 DEF SideStart, SideEnd, AtLeast
      <4>3. r \in R(<<r.kind, "asc">>) BY <3>1, <4>2
      <4>4. QED BY <1>3, <4>1, <4>3
    <3>4. QED BY <1>t, <3>2, <3>3
  <2>3. QED BY <2>1, <2>2
<1>5. BoundedUnique(Listed(a), b, SeedBlock) = Listed(a)
  <2> HIDE DEF b
  <2> QED BY <1>t, <1>1, <1>2, UniqueKeepsAll
<1>6. IndexedRecords(ledger, a, {}, startBlock, endBlock, SeedBlock, limits.records)
        = BoundedUnique(UNION {P(req) : req \in Requests \ {}}, b, SeedBlock)
  BY Zenon DEF IndexedRecords
<1>7. QED BY <1>4, <1>5, <1>6

(* The transactions a scan of the whole window holds. *)
Normals == {r \in ledger : r.kind = "normal" /\ r.block \in startBlock..endBlock}

LEMMA WholeWindow ==
  ASSUME Typed, ~Capped(startBlock, endBlock, MaxBlocks)
  PROVE  Window[1]..Window[2] = startBlock..endBlock
<1>1. startBlock \in Nat /\ endBlock \in Nat BY ListedTypes
<1>2. MaxBlocks \in Nat BY HistoryAssumption
<1>3. CASE endBlock < startBlock
  <2>1. Window = <<startBlock, startBlock - 1>> BY <1>3 DEF Window, BoundedWindow
  <2>2. QED BY <1>1, <1>3, <2>1
<1>4. CASE endBlock >= startBlock
  <2>1. endBlock - startBlock + 1 <= MaxBlocks BY <1>1, <1>2, <1>4 DEF Capped
  <2>2. Window = <<startBlock, endBlock>> BY <1>1, <1>4, <2>1 DEF Window, BoundedWindow
  <2>3. QED BY <2>2
<1>5. QED BY <1>1, <1>3, <1>4

LEMMA RpcComplete ==
  ASSUME Typed, NEW a \in Addresses, ~Capped(startBlock, endBlock, MaxBlocks),
         ~(Cardinality(Listed(a)) > limits.records),
         \A r \in Listed(a) : r.kind # "internal" /\ a \in {r.from, r.to}
  PROVE  RpcRecords(Normals, TransferLogs(ledger, a, Window), a, SeedBlock, limits.records)
           = Listed(a)
<1> DEFINE R == {r \in Normals : a \in {r.from, r.to}} \cup TransferLogs(ledger, a, Window)
<1>1. /\ IsFiniteSet(Listed(a)) /\ Cardinality(Listed(a)) \in Nat
      /\ \A r \in Listed(a) : r.block \in Nat /\ r.pos \in Nat /\ r.kind \in Kinds
      /\ SeedBlock \in Nat
  BY ListedTypes
<1>2. limits.records \in Nat /\ AtLeast(1, limits.records) = limits.records
  BY LimitTypes DEF AtLeast
<1>3. R = Listed(a)
  <2>1. Window[1]..Window[2] = startBlock..endBlock BY WholeWindow
  <2>2. a # Zero BY ReconstructionAssumption
  <2>3. ASSUME NEW r \in R PROVE r \in Listed(a)
    <3>1. r \in ledger /\ a \in {r.from, r.to} /\ r.block \in startBlock..endBlock
      BY <2>1 DEF Normals, TransferLogs
    <3>2. a \in r.listed BY <2>2, <3>1, LedgerTypes
    <3>3. QED BY <3>1, <3>2 DEF Listed
  <2>4. ASSUME NEW r \in Listed(a) PROVE r \in R
    BY <2>1 DEF Listed, Normals, TransferLogs
  <2>5. QED BY <2>3, <2>4
<1>4. BoundedUnique(Listed(a), limits.records, SeedBlock) = Listed(a)
  BY <1>1, <1>2, UniqueKeepsAll
<1>5. RpcRecords(Normals, TransferLogs(ledger, a, Window), a, SeedBlock, limits.records)
        = BoundedUnique(R, AtLeast(1, limits.records), SeedBlock)
  BY Zenon DEF RpcRecords
<1>6. QED BY <1>2, <1>3, <1>4, <1>5

-----------------------------------------------------------------------------
(* The walk of the code from the seed, in a ledger that answers everything:  *)
(* the search Near, with the other end of a record whether or not the        *)
(* transaction confirms it.  It is well defined: Walk is the function that   *)
(* its definition describes.                                                 *)
Met(t, A) ==
  LET links == {l \in A \X InWindow : l[2].tx = t /\ l[1] \in l[2].listed}
  IN Follow({l[1] : l \in links} \cup ({Counterpart(l[1], l[2]) : l \in links} \ {Zero}), t)

Walk[h \in Nat] ==
  IF h = 0 THEN SeedFrontier
  ELSE Walk[h - 1] \cup
       UNION {Met(t, Walk[h - 1]) :
                t \in {s \in RelatedTo(Walk[h - 1]) : h = 1 \/ s \notin RelatedTo(Walk[h - 2])}}

NearStep(N, h) ==
  IF h = 0 THEN SeedFrontier
  ELSE N[h - 1] \cup
       UNION {Met(t, N[h - 1]) :
                t \in {s \in RelatedTo(N[h - 1]) : h = 1 \/ s \notin RelatedTo(N[h - 2])}}

NearTo(N, n) == N = [h \in 0..n |-> NearStep(N, h)]

LEMMA NearStepLocal ==
  ASSUME NEW N, NEW M, NEW h \in Nat, \A i \in 0..(h - 1) : N[i] = M[i]
  PROVE  NearStep(N, h) = NearStep(M, h)
<1>1. CASE h = 0 BY <1>1 DEF NearStep
<1>2. CASE h = 1
  <2>1. N[h - 1] = M[h - 1] BY <1>2
  <2>2. h # 0 BY <1>2
  <2>3. QED BY <1>2, <2>1, <2>2, Zenon DEF NearStep
<1>3. CASE h > 1
  <2>1. N[h - 1] = M[h - 1] /\ N[h - 2] = M[h - 2] BY <1>3
  <2>2. QED BY <2>1, Zenon DEF NearStep
<1>4. QED BY <1>1, <1>2, <1>3

LEMMA NearUnique ==
  ASSUME NEW N, NEW M, NEW n \in Nat, NEW m \in Nat, NearTo(N, n), NearTo(M, m)
  PROVE  \A k \in Nat : k <= n /\ k <= m => N[k] = M[k]
<1> DEFINE T == {k \in Nat : \A j \in 0..k : j <= n /\ j <= m => N[j] = M[j]}
<1>s. ASSUME NEW k \in Nat, k <= n, k <= m, \A j \in 0..(k - 1) : N[j] = M[j]
      PROVE  N[k] = M[k]
  <2>1. NearStep(N, k) = NearStep(M, k) BY <1>s, NearStepLocal
  <2>2. k \in 0..n /\ k \in 0..m BY <1>s
  <2>3. N[k] = NearStep(N, k) /\ M[k] = NearStep(M, k) BY <2>2, Zenon DEF NearTo
  <2>4. QED BY <2>1, <2>3
<1>1. 0 \in T BY <1>s
<1>2. ASSUME NEW k \in Nat, k \in T PROVE k + 1 \in T
  <2>1. \A j \in 0..k : j <= n /\ j <= m => N[j] = M[j] BY <1>2
  <2>2. k + 1 <= n /\ k + 1 <= m => N[k + 1] = M[k + 1] BY <1>s, <2>1
  <2>3. \A j \in 0..(k + 1) : j \in 0..k \/ j = k + 1 OBVIOUS
  <2>4. QED BY <2>1, <2>2, <2>3
<1>3. \A k \in Nat : k \in T
  <2> HIDE DEF T
  <2> QED BY <1>1, <1>2, SetInduction
<1>4. QED BY <1>3

LEMMA NearToExists == \A n \in Nat : \E N : NearTo(N, n)
<1> DEFINE T == {n \in Nat : \E N : NearTo(N, n)}
<1>1. 0 \in T
  <2> DEFINE N == [h \in 0..0 |-> SeedFrontier]
  <2>1. \A h \in 0..0 : NearStep(N, h) = SeedFrontier BY DEF NearStep
  <2>2. NearTo(N, 0) BY <2>1, Zenon DEF NearTo
  <2>3. QED BY <2>2
<1>2. ASSUME NEW n \in Nat, n \in T PROVE n + 1 \in T
  <2>1. PICK N : NearTo(N, n) BY <1>2
  <2> DEFINE M == [h \in 0..(n + 1) |-> IF h \in 0..n THEN N[h] ELSE NearStep(N, h)]
  <2>2. \A h \in 0..n : M[h] = N[h] BY <1>2
  <2>3. ASSUME NEW h \in 0..(n + 1) PROVE M[h] = NearStep(M, h)
    <3>1. \A i \in 0..(h - 1) : N[i] = M[i] BY <2>2
    <3>2. NearStep(N, h) = NearStep(M, h)
      <4> HIDE DEF M
      <4> QED BY <3>1, NearStepLocal
    <3>3. h \in 0..n => N[h] = NearStep(N, h) BY <2>1, Zenon DEF NearTo
    <3>4. M[h] = NearStep(N, h) BY <3>3, Zenon
    <3>5. QED BY <3>2, <3>4
  <2>4. M = [h \in 0..(n + 1) |-> NearStep(M, h)]
    <3>1. M = [h \in 0..(n + 1) |-> M[h]] BY Zenon
    <3>2. QED BY <2>3, <3>1, Zenon
  <2>5. NearTo(M, n + 1) BY <2>4, Zenon DEF NearTo
  <2>6. QED BY <2>5
<1>3. \A n \in Nat : n \in T
  <2> HIDE DEF T
  <2> QED BY <1>1, <1>2, SetInduction
<1>4. QED BY <1>3

LEMMA WalkSteps == Walk = [h \in Nat |-> NearStep(Walk, h)]
<1> DEFINE part(n) == CHOOSE N : NearTo(N, n)
           All == [h \in Nat |-> part(h)[h]]
<1>1. ASSUME NEW n \in Nat PROVE NearTo(part(n), n) BY NearToExists, Zenon
<1>2. ASSUME NEW n \in Nat PROVE All[n] = NearStep(All, n)
  <2> HIDE DEF part
  <2>1. ASSUME NEW i \in 0..(n - 1) PROVE part(n)[i] = All[i]
    <3>1. i \in Nat /\ i <= n /\ i <= i OBVIOUS
    <3>2. part(n)[i] = part(i)[i] BY <1>1, <3>1, NearUnique
    <3>3. QED BY <3>1, <3>2
  <2>2. NearStep(part(n), n) = NearStep(All, n)
    <3> HIDE DEF All
    <3> QED BY <2>1, NearStepLocal
  <2>3. n \in 0..n OBVIOUS
  <2>4. part(n)[n] = NearStep(part(n), n) BY <1>1, <2>3, Zenon DEF NearTo
  <2>5. QED BY <2>2, <2>4
<1>3. All = [h \in Nat |-> NearStep(All, h)]
  <2> HIDE DEF part
  <2>1. All = [h \in Nat |-> All[h]] OBVIOUS
  <2>2. QED BY <1>2, <2>1, Zenon
<1>4. Walk = CHOOSE N : N = [h \in Nat |-> NearStep(N, h)]
  BY Zenon DEF Walk, NearStep
<1>5. \E N : N = [h \in Nat |-> NearStep(N, h)]
  <2> HIDE DEF All
  <2> QED BY <1>3
<1>6. QED BY <1>4, <1>5, Zenon

(* The same with the records of the window as a parameter: Walk depends on   *)
(* nothing else, so it is the same search after every step that keeps them.  *)
RelatedIn(W, A) == {r.tx : r \in {q \in W : q.listed \cap A # {}}} \ {Seed}

TouchedIn(W, t, A) ==
  LET links == {l \in A \X W : l[2].tx = t /\ l[1] \in l[2].listed}
  IN Follow({l[1] : l \in links} \cup ({Counterpart(l[1], l[2]) : l \in links} \ {Zero}), t)

NewIn(W, N, n) == {s \in RelatedIn(W, N[n]) : n = 0 \/ s \notin RelatedIn(W, N[n - 1])}

NearOf(N, W) ==
  /\ N[0] = SeedFrontier
  /\ \A n \in Nat : N[n + 1] = N[n] \cup UNION {TouchedIn(W, t, N[n]) : t \in NewIn(W, N, n)}

LEMMA StepAfter ==
  ASSUME NEW N, NEW n \in Nat
  PROVE  NearStep(N, n + 1) = N[n] \cup
           UNION {Met(t, N[n]) :
                    t \in {s \in RelatedTo(N[n]) : n = 0 \/ s \notin RelatedTo(N[n - 1])}}
<1>1. n + 1 # 0 /\ (n + 1) - 1 = n /\ (n + 1) - 2 = n - 1 /\ (n + 1 = 1 <=> n = 0)
  OBVIOUS
<1>2. QED BY <1>1, Zenon DEF NearStep

LEMMA StepsAreSearch ==
  ASSUME NEW N, N = [h \in Nat |-> NearStep(N, h)]
  PROVE  NearOf(N, InWindow)
<1>1. \A h \in Nat : N[h] = NearStep(N, h) BY Zenon
<1>2. N[0] = SeedFrontier BY <1>1 DEF NearStep
<1>3. ASSUME NEW n \in Nat PROVE N[n + 1] = NearStep(N, n + 1) BY <1>1
<1>4. ASSUME NEW n \in Nat
      PROVE  N[n + 1] = N[n] \cup UNION {TouchedIn(InWindow, t, N[n]) : t \in NewIn(InWindow, N, n)}
  BY <1>3, StepAfter, Zenon DEF NewIn, TouchedIn, Met, RelatedIn, RelatedTo
<1>5. QED BY <1>2, <1>4, Zenon DEF NearOf

LEMMA NearOfWindow == NearOf(Walk, InWindow)
  BY WalkSteps, StepsAreSearch, Zenon

LEMMA NearOfUnique ==
  ASSUME NEW N, NEW M, NEW W, NearOf(N, W), NearOf(M, W)
  PROVE  \A n \in Nat : N[n] = M[n]
<1> DEFINE T == {n \in Nat : N[n] = M[n] /\ (n = 0 \/ N[n - 1] = M[n - 1])}
<1>1. 0 \in T BY DEF NearOf
<1>2. ASSUME NEW n \in Nat, n \in T PROVE n + 1 \in T
  <2>1. N[n] = M[n] /\ (n = 0 \/ N[n - 1] = M[n - 1]) BY <1>2
  <2>2. NewIn(W, N, n) = NewIn(W, M, n) BY <2>1, Zenon DEF NewIn
  <2>3. N[n + 1] = M[n + 1]
    <3>1. N[n + 1] = N[n] \cup UNION {TouchedIn(W, t, N[n]) : t \in NewIn(W, N, n)}
      BY Zenon DEF NearOf
    <3>2. M[n + 1] = M[n] \cup UNION {TouchedIn(W, t, M[n]) : t \in NewIn(W, M, n)}
      BY Zenon DEF NearOf
    <3>3. QED BY <2>1, <2>2, <3>1, <3>2
  <2>4. (n + 1) - 1 = n OBVIOUS
  <2>5. QED BY <2>1, <2>3, <2>4
<1>3. \A n \in Nat : n \in T
  <2> HIDE DEF T
  <2> QED BY <1>1, <1>2, SetInduction
<1>4. QED BY <1>3

(* The transactions of a level of the search. *)
Rel == [h \in Nat |-> RelatedTo(Walk[h])]

LEMMA SameWindow ==
  ASSUME UNCHANGED <<ledger, limits, endBlock>>
  PROVE  /\ \A n \in Nat : Walk'[n] = Walk[n]
         /\ \A n \in Nat : Rel'[n] = Rel[n]
<1>1. InWindow' = InWindow BY DEF InWindow, startBlock
<1>2. NearOf(Walk, InWindow)' BY NearOfWindow, PTL
<1>3. NearOf(Walk', InWindow) BY <1>1, <1>2
<1>4. \A n \in Nat : Walk'[n] = Walk[n] BY <1>3, NearOfWindow, NearOfUnique
<1>5. ASSUME NEW n \in Nat PROVE Rel'[n] = Rel[n]
  <2>1. Rel[n] = RelatedIn(InWindow, Walk[n]) BY Zenon DEF Rel, RelatedTo, RelatedIn
  <2>2. Rel'[n] = RelatedIn(InWindow', Walk'[n]) BY Zenon DEF Rel, RelatedTo, RelatedIn
  <2>3. QED BY <1>1, <1>4, <2>1, <2>2
<1>6. QED BY <1>4, <1>5

(* A search that has stopped growing stays as it is. *)
LEMMA NearStops ==
  ASSUME NEW n \in Nat, Walk[n + 1] = Walk[n]
  PROVE  \A k \in Nat : k >= n => Walk[k] = Walk[n]
<1> DEFINE T == {k \in Nat : Walk[n + k] = Walk[n] /\ Walk[n + k + 1] = Walk[n]}
<1>1. 0 \in T OBVIOUS
<1>2. ASSUME NEW k \in Nat, k \in T PROVE k + 1 \in T
  <2> DEFINE m == n + k + 1
  <2>1. m \in Nat /\ m - 1 = n + k /\ m # 0 /\ n + (k + 1) = m /\ n + (k + 1) + 1 = m + 1 OBVIOUS
  <2>2. Walk[m] = Walk[n] /\ Walk[m - 1] = Walk[n] BY <1>2, <2>1
  <2> HIDE DEF m
  <2>3. NewIn(InWindow, Walk, m) = {} BY <2>1, <2>2, Zenon DEF NewIn
  <2>4. Walk[m + 1] = Walk[m] \cup UNION {TouchedIn(InWindow, t, Walk[m]) :
                                             t \in NewIn(InWindow, Walk, m)}
    BY <2>1, NearOfWindow, Zenon DEF NearOf
  <2>5. Walk[m + 1] = Walk[m] BY <2>3, <2>4
  <2>6. QED BY <2>1, <2>2, <2>5
<1>3. \A k \in Nat : k \in T
  <2> HIDE DEF T
  <2> QED BY <1>1, <1>2, SetInduction
<1>4. ASSUME NEW k \in Nat, k >= n PROVE Walk[k] = Walk[n]
  <2>1. k - n \in Nat /\ n + (k - n) = k BY <1>4
  <2>2. k - n \in T BY <1>3, <2>1
  <2>3. QED BY <2>1, <2>2
<1>5. QED BY <1>4

-----------------------------------------------------------------------------
(* While nothing is missing, the state is a stage of the search: the queries *)
(* hold every record, the addresses up to a hop are those of the search, and *)
(* so are the cases.                                                         *)
Flawless == failed = {} /\ hubs = {} /\ ~partial /\ ~addressLimit

Within(h) == {a \in DOMAIN addressHops : addressHops[a] <= h}

Answered ==
  /\ phase = "start" => inventory = <<>>
  /\ Flawless =>
       /\ inventory = <<>> \/ inventory[1] = Normals
       /\ \A e \in evidence : e.record \in Listed(e.address) /\ e.record.tx # Seed /\ ~e.hub
       /\ \A a \in queried : \A r \in Listed(a) :
            r.tx # Seed => \E e \in evidence : e.address = a /\ e.record = r

NearHolds == (Flawless /\ phase # "start") => \A h \in 0..hop : Within(h) = Walk[h]

CasesHold ==
  Flawless => \A t \in DOMAIN cases \ {Seed} :
                t \in Rel[cases[t] - 1] /\ \A h \in 0..(cases[t] - 2) : t \notin Rel[h]

Found == (phase = "done" /\ Flawless /\ ~Full) =>
           DOMAIN cases = {Seed} \cup UNION {Rel[h] : h \in 0..(limits.hops - 1)}

LEMMA FlawsStay == ASSUME Typed, [Next]_vars, Flawless' PROVE Flawless
<1> USE DEF Flawless
<1>1. CASE Begin BY <1>1 DEF Begin
<1>2. ASSUME NEW a \in Addresses, AskIndexed(a) \/ AskRpc(a) \/ AskFails(a) PROVE Flawless
  <2>1. PICK E : Asking(a, E) BY <1>2, Queries
  <2>2. failed = {} /\ hubs = {} /\ ~addressLimit BY <2>1 DEF Asking
  <2>3. ~partial BY <1>2, Zenon DEF AskIndexed, AskRpc, AskFails
  <2>4. QED BY <2>2, <2>3
<1>3. CASE AddressCap \/ FrontierAsked \/ EndHop \/ Dropped \/ UNCHANGED vars
  BY <1>3 DEF AddressCap, FrontierAsked, EndHop, Dropped, vars
<1>4. ASSUME NEW t \in Txs, Investigate(t) PROVE Flawless
  BY <1>4 DEF Investigate, Extend
<1>5. ASSUME NEW t \in Txs, InvestigationFails(t) PROVE Flawless
  BY <1>5 DEF InvestigationFails
<1>6. QED BY <1>1, <1>2, <1>3, <1>4, <1>5 DEF Next

(* A query that leaves no flaw brings every record of the address. *)
LEMMA TakesAll ==
  ASSUME NEW a, Take(a, Listed(a)), hubs' = {}
  PROVE  evidence' = evidence \cup {[address |-> a, record |-> r, hub |-> FALSE] :
                                      r \in {q \in Listed(a) : q.tx # Seed}}
<1>1. ~IsHub(a, Listed(a))
  <2>1. IsHub(a, Listed(a)) => hubs' = hubs \cup {a} BY Zenon DEF Take
  <2>2. QED BY <2>1
<1>2. IsHub(a, Listed(a)) = FALSE BY <1>1 DEF IsHub
<1>3. evidence' = evidence \cup {[address |-> a, record |-> r, hub |-> IsHub(a, Listed(a))] :
                                   r \in {q \in Listed(a) : q.tx # Seed}}
  BY <1>1, Zenon DEF Take
<1>4. QED BY <1>2, <1>3

LEMMA QueryComplete ==
  ASSUME Typed, Answered, NEW a \in Addresses, Flawless, Flawless',
         AskIndexed(a) \/ AskRpc(a) \/ AskFails(a)
  PROVE  /\ evidence' = evidence \cup {[address |-> a, record |-> r, hub |-> FALSE] :
                                         r \in {q \in Listed(a) : q.tx # Seed}}
         /\ inventory' = inventory \/ inventory'[1] = Normals
<1>f. hubs' = {} /\ ~partial' BY DEF Flawless
<1>1. CASE AskIndexed(a)
  <2>1. PICK lost \in Lost :
           /\ Take(a, IndexedRecords(ledger, a, lost, startBlock, endBlock, SeedBlock,
                                     limits.records))
           /\ partial' = (partial \/ lost # {} \/ Cardinality(Listed(a)) > PageLimit)
    BY <1>1, Zenon DEF AskIndexed
  <2>2. lost = {} /\ ~(Cardinality(Listed(a)) > PageLimit) BY <1>f, <2>1, Zenon
  <2>3. Take(a, Listed(a)) BY <2>1, <2>2, IndexedComplete
  <2>4. inventory' = inventory BY <1>1 DEF AskIndexed
  <2>5. QED BY <1>f, <2>3, <2>4, TakesAll
<1>2. CASE AskRpc(a)
  <2>1. PICK missing \in SUBSET (Window[1]..Window[2]),
             logs \in SUBSET TransferLogs(ledger, a, Window) :
          LET flawed == missing # {} \/ logs # TransferLogs(ledger, a, Window)
                        \/ limits.source = "auto"
          IN /\ inventory' = <<Scanned(missing)>>
             /\ Take(a, RpcRecords(Scanned(missing), logs, a, SeedBlock, limits.records))
             /\ partial' = \/ partial \/ flawed
                           \/ Capped(startBlock, endBlock, MaxBlocks)
                           \/ Cardinality(Scanned(missing)) >= MaxInventory
                           \/ Cardinality(Listed(a)) > limits.records
                           \/ \E r \in Listed(a) : r.kind = "internal" \/ a \notin {r.from, r.to}
    BY <1>2, Zenon DEF AskRpc
  <2>2. /\ missing = {} /\ logs = TransferLogs(ledger, a, Window)
        /\ ~Capped(startBlock, endBlock, MaxBlocks)
        /\ ~(Cardinality(Scanned(missing)) >= MaxInventory)
        /\ ~(Cardinality(Listed(a)) > limits.records)
        /\ \A r \in Listed(a) : r.kind # "internal" /\ a \in {r.from, r.to}
    BY <1>f, <2>1, Zenon
  <2>3. Scanned(missing) = Normals
    <3>1. CASE inventory = <<>>
      <4>1. Scanned(missing) = Inventory(ledger, Window, {}) BY <2>2, <3>1 DEF Scanned
      <4>2. IsFiniteSet(ledger) /\ \A r \in ledger : r.pos \in Nat
        BY ReconstructionAssumption, LedgerTypes DEF Typed
      <4>3. IsFiniteSet(Scanned(missing))
        BY <4>1, <4>2, FirstOfSet, FS_Subset
      <4>4. Cardinality(Inventory(ledger, Window, {})) < MaxInventory
        BY <2>2, <4>1, <4>3, FS_CardinalityType, HistoryAssumption
      <4>5. Inventory(ledger, Window, {}) =
              {r \in ledger : r.kind = "normal" /\ r.block \in Window[1]..Window[2]}
        BY <4>2, <4>4, ScanKeepsAll
      <4>6. Window[1]..Window[2] = startBlock..endBlock BY <2>2, WholeWindow
      <4>7. QED BY <4>1, <4>5, <4>6 DEF Normals
    <3>2. CASE inventory # <<>> BY <3>2 DEF Scanned, Answered
    <3>3. QED BY <3>1, <3>2
  <2>4. Take(a, Listed(a)) BY <2>1, <2>2, <2>3, RpcComplete
  <2>5. inventory'[1] = Normals BY <2>1, <2>3
  <2>6. QED BY <1>f, <2>4, <2>5, TakesAll
<1>3. CASE AskFails(a) BY <1>f, <1>3 DEF AskFails
<1>4. QED BY <1>1, <1>2, <1>3

LEMMA AnsweredNext == Sound /\ Answered /\ [Next]_vars => Answered'
<1> SUFFICES ASSUME Sound, Answered, [Next]_vars PROVE Answered' OBVIOUS
<1> USE DEF Sound
<1>w. ASSUME UNCHANGED <<given, endBlock>>
      PROVE  Normals' = Normals /\ \A a : Listed(a)' = Listed(a)
  BY <1>w DEF given, Normals, Listed, startBlock
<1>1. CASE Begin
  <2>1. phase = "start" /\ phase' # "start" /\ UNCHANGED <<queried, evidence, inventory>>
    BY <1>1 DEF Begin
  <2>2. evidence = {} /\ queried = {} /\ inventory = <<>> BY <2>1 DEF Levels, Answered
  <2>3. QED BY <2>1, <2>2 DEF Answered
<1>2. ASSUME NEW a \in Addresses, AskIndexed(a) \/ AskRpc(a) \/ AskFails(a) PROVE Answered'
  <2>1. PICK E : Asking(a, E) BY <1>2, Queries
  <2>2. /\ phase' = phase /\ phase = "query" /\ queried' = queried \cup {a}
        /\ UNCHANGED <<given, endBlock>>
    BY <2>1 DEF Asking, Turn
  <2>3. SUFFICES ASSUME Flawless'
                 PROVE  /\ inventory' = <<>> \/ inventory'[1] = Normals
                        /\ \A e \in evidence' : /\ e.record \in Listed(e.address)
                                                /\ e.record.tx # Seed /\ ~e.hub
                        /\ \A b \in queried' : \A r \in Listed(b) :
                             r.tx # Seed => \E e \in evidence' : e.address = b /\ e.record = r
    BY <1>w, <2>2 DEF Answered
  <2>4. Flawless BY <2>3, FlawsStay
  <2>5. /\ evidence' = evidence \cup {[address |-> a, record |-> r, hub |-> FALSE] :
                                         r \in {q \in Listed(a) : q.tx # Seed}}
        /\ inventory' = inventory \/ inventory'[1] = Normals
    BY <1>2, <2>3, <2>4, QueryComplete
  <2>6. /\ inventory = <<>> \/ inventory[1] = Normals
        /\ \A e \in evidence : e.record \in Listed(e.address) /\ e.record.tx # Seed /\ ~e.hub
        /\ \A b \in queried : \A r \in Listed(b) :
             r.tx # Seed => \E e \in evidence : e.address = b /\ e.record = r
    BY <2>4 DEF Answered
  <2>7. inventory' = <<>> \/ inventory'[1] = Normals BY <2>5, <2>6
  <2>8. \A e \in evidence' : e.record \in Listed(e.address) /\ e.record.tx # Seed /\ ~e.hub
    BY <2>5, <2>6
  <2>9. \A b \in queried' : \A r \in Listed(b) :
          r.tx # Seed => \E e \in evidence' : e.address = b /\ e.record = r
    <3> SUFFICES ASSUME NEW b \in queried', NEW r \in Listed(b), r.tx # Seed
                 PROVE  \E e \in evidence' : e.address = b /\ e.record = r
      OBVIOUS
    <3>1. CASE b \in queried BY <2>5, <2>6, <3>1
    <3>2. CASE b = a
      <4>1. [address |-> a, record |-> r, hub |-> FALSE] \in evidence' BY <2>5, <3>2
      <4>2. QED BY <3>2, <4>1
    <3>3. QED BY <2>2, <3>1, <3>2
  <2>10. QED BY <2>7, <2>8, <2>9
<1>3. CASE /\ UNCHANGED <<given, endBlock, inventory, evidence, queried>>
           /\ phase' = phase \/ phase' # "start"
  <2>1. Flawless' => Flawless BY FlawsStay
  <2>2. QED BY <1>w, <1>3, <2>1 DEF Answered
<1>4. CASE AddressCap \/ FrontierAsked \/ EndHop \/ Dropped \/ UNCHANGED vars
  BY <1>3, <1>4 DEF AddressCap, FrontierAsked, EndHop, Dropped, vars
<1>5. ASSUME NEW t \in Txs, Investigate(t) \/ InvestigationFails(t) PROVE Answered'
  BY <1>3, <1>5 DEF Investigate, InvestigationFails
<1>6. QED BY <1>1, <1>2, <1>4, <1>5 DEF Next

(* A transaction of the case was found by an address of the hop before. *)
LEMMA CaseHopPositive ==
  ASSUME Sound, EvidenceChain, NEW t \in DOMAIN cases \ {Seed}
  PROVE  cases[t] \in Nat /\ cases[t] - 1 \in Nat
<1>1. PICK e \in EvidenceFor(t) : addressHops[e.address] = cases[t] - 1
  BY DEF EvidenceChain
<1>2. addressHops[e.address] \in Nat BY DEF Sound, Typed, TypeOK, EvidenceFor
<1>3. cases[t] \in Nat BY LimitTypes DEF Sound, Typed, TypeOK
<1>4. QED BY <1>1, <1>2, <1>3

LEMMA RelIs ==
  ASSUME NEW h \in Nat, NEW t
  PROVE  t \in Rel[h] <=> /\ t # Seed
                          /\ \E r \in InWindow, a \in Walk[h] : r.tx = t /\ a \in r.listed
<1>1. Rel[h] = RelatedTo(Walk[h]) BY Zenon DEF Rel
<1>2. QED BY <1>1, Zenon DEF RelatedTo

LEMMA AskedBelow ==
  ASSUME Sound, Looping, NEW h \in Nat, h < hop \/ (h = hop /\ phase = "select")
  PROVE  Within(h) \subseteq queried
<1>1. hop \in Nat /\ \A a \in DOMAIN addressHops : addressHops[a] \in Nat
  BY HopType DEF Sound, Typed
<1>2. QED BY <1>1 DEF Sound, Levels, Looping, Within, Frontier

Stage == Sound /\ Answered /\ NearHolds /\ Flawless /\ phase # "start"

LEMMA SeenInEvidence ==
  ASSUME Stage, NEW h \in 0..hop, Within(h) \subseteq queried, NEW t \in Rel[h]
  PROVE  \E e \in EvidenceFor(t) : addressHops[e.address] <= h
<1>1. h \in Nat BY HopType DEF Stage, Sound
<1>2. PICK r \in InWindow, a \in Walk[h] : r.tx = t /\ a \in r.listed BY <1>1, RelIs
<1>3. a \in Within(h) BY DEF Stage, NearHolds
<1>4. a \in queried /\ addressHops[a] <= h BY <1>3 DEF Within
<1>5. r \in Listed(a) BY <1>2 DEF Listed, InWindow
<1>6. r.tx # Seed BY <1>1, <1>2, RelIs
<1>7. PICK e \in evidence : e.address = a /\ e.record = r
  BY <1>4, <1>5, <1>6 DEF Stage, Answered
<1>8. QED BY <1>2, <1>4, <1>7 DEF EvidenceFor

LEMMA EvidenceInSearch ==
  ASSUME Stage, NEW h \in 0..hop, NEW e \in evidence, addressHops[e.address] <= h
  PROVE  e.address \in Walk[h] /\ e.record \in InWindow /\ e.record.tx \in Rel[h]
<1>1. h \in Nat BY HopType DEF Stage, Sound
<1>2. e.record \in Listed(e.address) /\ e.record.tx # Seed BY DEF Stage, Answered
<1>3. e.address \in DOMAIN addressHops BY DEF Stage, Sound, Typed, TypeOK
<1>4. e.address \in Walk[h] BY <1>3 DEF Stage, NearHolds, Within
<1>5. e.record \in InWindow /\ e.address \in e.record.listed BY <1>2 DEF Listed, InWindow
<1>6. QED BY <1>1, <1>2, <1>4, <1>5, RelIs

(* What a candidate leads on to is what the search touches through it. *)
LEMMA TouchedIsLinked ==
  ASSUME Stage, phase = "select", NEW t, t # Seed
  PROVE  TouchedIn(InWindow, t, Walk[hop]) = Linked(t)
<1> DEFINE links == {l \in Walk[hop] \X InWindow : l[2].tx = t /\ l[1] \in l[2].listed}
           A == {l[1] : l \in links}
           C == {Counterpart(l[1], l[2]) : l \in links}
           AA == {e.address : e \in EvidenceFor(t)}
           CC == {Counterpart(e.address, e.record) : e \in EvidenceFor(t)}
<1>h. hop \in Nat /\ hop \in 0..hop BY HopType DEF Stage, Sound
<1>1. ASSUME NEW l \in links
      PROVE  \E e \in EvidenceFor(t) : e.address = l[1] /\ e.record = l[2]
  <2>1. l[1] \in Walk[hop] /\ l[2] \in InWindow /\ l[2].tx = t /\ l[1] \in l[2].listed OBVIOUS
  <2>2. l[1] \in Within(hop) BY <1>h, <2>1 DEF Stage, NearHolds
  <2>3. l[1] \in queried BY <1>h, <2>2, AskedBelow DEF Stage, Looping
  <2>4. l[2] \in Listed(l[1]) BY <2>1 DEF Listed, InWindow
  <2>5. QED BY <2>1, <2>3, <2>4 DEF Stage, Answered, EvidenceFor
<1>2. ASSUME NEW e \in EvidenceFor(t)
      PROVE  \E l \in links : e.address = l[1] /\ e.record = l[2]
  <2>1. e \in evidence /\ e.record.tx = t BY DEF EvidenceFor
  <2>2. e.address \in queried /\ addressHops[e.address] <= hop
    BY <2>1 DEF Stage, Sound, Typed, TypeOK, Levels
  <2>3. e.address \in Walk[hop] /\ e.record \in InWindow BY <1>h, <2>1, <2>2, EvidenceInSearch
  <2>4. e.address \in e.record.listed BY <2>1 DEF Stage, Answered, Listed
  <2>5. <<e.address, e.record>> \in links BY <2>1, <2>3, <2>4
  <2>6. QED BY <2>5
<1> HIDE DEF links
<1>3. A = AA BY <1>1, <1>2
<1>4. C = CC BY <1>1, <1>2
<1>5. TouchedIn(InWindow, t, Walk[hop]) = Follow(A \cup (C \ {Zero}), t)
  BY Zenon DEF TouchedIn, links
<1>6. Linked(t) = Follow(AA \cup (CC \ {Zero}), t) BY Zenon DEF Linked, LinkedBy
<1>7. QED BY <1>3, <1>4, <1>5, <1>6

(* The search grows from level to level. *)
LEMMA RelGrows ==
  ASSUME Stage, NEW h \in 0..hop, NEW k \in 0..h
  PROVE  Rel[k] \subseteq Rel[h]
<1>1. h \in Nat /\ k \in Nat /\ k \in 0..hop /\ k <= h BY HopType DEF Stage, Sound
<1>2. \A a \in DOMAIN addressHops : addressHops[a] \in Nat BY DEF Stage, Sound, Typed
<1>3. Within(k) \subseteq Within(h) BY <1>1, <1>2 DEF Within
<1>4. Walk[k] \subseteq Walk[h] BY <1>1, <1>3 DEF Stage, NearHolds
<1>5. QED BY <1>1, <1>4, RelIs

(* When all the candidates of a hop are investigated, the addresses that may *)
(* be asked next are the next level of the search.                           *)
LEMMA NextLevel ==
  ASSUME Stage, EvidenceChain, Expanded, CasesHold, phase = "select", Available = {},
         hop + 1 < limits.hops
  PROVE  Within(hop + 1) = Walk[hop + 1]
<1> USE DEF Stage, Sound
<1>h. /\ hop \in Nat /\ hop \in 0..hop
      /\ \A a \in DOMAIN addressHops : addressHops[a] \in Nat /\ addressHops[a] <= hop + 1
      /\ \A t \in DOMAIN cases : cases[t] \in Nat
      /\ \A t \in DOMAIN cases \ {Seed} : cases[t] <= hop + 1
  BY HopType, LimitTypes DEF Typed, TypeOK, Levels, Reached
<1>n. Within(hop) = Walk[hop] BY <1>h DEF NearHolds
<1>1. Walk[hop + 1] = Walk[hop] \cup UNION {TouchedIn(InWindow, t, Walk[hop]) :
                                              t \in NewIn(InWindow, Walk, hop)}
  BY <1>h, NearOfWindow, Zenon DEF NearOf
<1>2. \A t : t \in NewIn(InWindow, Walk, hop) <=>
               t \in Rel[hop] /\ (hop = 0 \/ t \notin Rel[hop - 1])
  <2>1. hop # 0 => hop - 1 \in Nat BY <1>h
  <2>2. Rel[hop] = RelatedIn(InWindow, Walk[hop])
    BY <1>h, Zenon DEF Rel, RelatedTo, RelatedIn
  <2>3. hop # 0 => Rel[hop - 1] = RelatedIn(InWindow, Walk[hop - 1])
    BY <2>1, Zenon DEF Rel, RelatedTo, RelatedIn
  <2>4. QED BY <2>2, <2>3, Zenon DEF NewIn
<1>3. ASSUME NEW t \in DOMAIN cases \ {Seed}, cases[t] = hop + 1
      PROVE  t \in NewIn(InWindow, Walk, hop)
  <2>1. t \in Rel[cases[t] - 1] /\ \A h \in 0..(cases[t] - 2) : t \notin Rel[h]
    BY DEF CasesHold
  <2>2. cases[t] - 1 = hop /\ (hop # 0 => hop - 1 \in 0..(cases[t] - 2)) BY <1>h, <1>3
  <2>3. QED BY <1>2, <2>1, <2>2
<1>4. ASSUME NEW t \in NewIn(InWindow, Walk, hop)
      PROVE  t \in DOMAIN cases \ {Seed} /\ cases[t] = hop + 1
  <2>1. t \in Rel[hop] /\ (hop = 0 \/ t \notin Rel[hop - 1]) BY <1>2
  <2>2. Within(hop) \subseteq queried BY <1>h, AskedBelow DEF Looping
  <2>3. t \in Candidates
    BY <1>h, <2>1, <2>2, SeenInEvidence DEF EvidenceFor, Candidates
  <2>4. t \in DOMAIN cases BY <2>3, OpenIsAvailable DEF Flawless
  <2>5. t # Seed BY <1>h, <2>1, RelIs
  <2>6. t \in Rel[cases[t] - 1] BY <2>4, <2>5 DEF CasesHold
  <2>7. cases[t] >= 1 BY <2>4, <2>5, CaseHopPositive
  <2>8. ASSUME cases[t] < hop + 1 PROVE FALSE
    <3>1. /\ hop # 0 /\ hop - 1 \in 0..hop /\ cases[t] - 1 \in 0..(hop - 1)
      BY <1>h, <2>4, <2>7, <2>8
    <3>2. Rel[cases[t] - 1] \subseteq Rel[hop - 1] BY <3>1, RelGrows
    <3>3. QED BY <2>1, <2>6, <3>1, <3>2
  <2>9. QED BY <1>h, <2>4, <2>5, <2>8
<1>5. ASSUME NEW a \in Within(hop + 1) PROVE a \in Walk[hop + 1]
  <2>1. a \in DOMAIN addressHops BY DEF Within
  <2>2. CASE addressHops[a] <= hop BY <1>1, <1>n, <2>1, <2>2 DEF Within
  <2>3. CASE addressHops[a] = hop + 1
    <3>1. a \notin SeedFrontier
      <4>1. Within(0) = Walk[0] /\ Walk[0] = SeedFrontier
        BY <1>h, NearOfWindow DEF NearHolds, NearOf
      <4>2. QED BY <1>h, <2>1, <2>3, <4>1 DEF Within
    <3>2. PICK t \in DOMAIN cases \ {Seed} : cases[t] = addressHops[a] /\ a \in Linked(t)
      BY <2>1, <3>1 DEF EvidenceChain
    <3>3. t \in NewIn(InWindow, Walk, hop) BY <1>3, <2>3, <3>2
    <3>4. a \in TouchedIn(InWindow, t, Walk[hop]) BY <3>2, TouchedIsLinked
    <3>5. QED BY <1>1, <3>3, <3>4
  <2>4. QED BY <1>h, <2>1, <2>2, <2>3
<1>6. ASSUME NEW a \in Walk[hop + 1] PROVE a \in Within(hop + 1)
  <2>1. CASE a \in Walk[hop] BY <1>h, <1>n, <2>1 DEF Within
  <2>2. ASSUME NEW t \in NewIn(InWindow, Walk, hop), a \in TouchedIn(InWindow, t, Walk[hop])
        PROVE  a \in Within(hop + 1)
    <3>1. t \in DOMAIN cases \ {Seed} /\ cases[t] = hop + 1 BY <1>4
    <3>2. a \in Linked(t) BY <2>2, <3>1, TouchedIsLinked
    <3>3. Known(t) = EvidenceFor(t)
      <4>1. \A e \in EvidenceFor(t) : e.address \in queried /\ e.address \in DOMAIN addressHops
        BY DEF Typed, TypeOK, EvidenceFor
      <4>2. QED BY <1>h, <3>1, <4>1 DEF Known, Levels
    <3>4. \E e \in Known(t) : ~e.hub
      <4>1. EvidenceFor(t) # {} BY <3>1 DEF EvidenceChain
      <4>2. QED BY <3>3, <4>1 DEF Answered, EvidenceFor
    <3>5. LinkedBy(Known(t), t) \subseteq DOMAIN addressHops
      BY <3>1, <3>4 DEF Expanded, Flawless
    <3>6. a \in DOMAIN addressHops BY <3>2, <3>3, <3>5 DEF Linked
    <3>7. QED BY <1>h, <3>6 DEF Within
  <2>3. QED BY <1>1, <2>1, <2>2
<1>7. QED BY <1>5, <1>6

Search == /\ Sound /\ EvidenceChain /\ Expanded
          /\ Answered /\ NearHolds /\ CasesHold /\ Found

LEMMA SearchInit == Init => Search
<1> SUFFICES ASSUME Init PROVE Search OBVIOUS
<1>1. Sound /\ EvidenceChain /\ Expanded BY SoundInit, ChainInit, KeptInit DEF Kept
<1>2. phase = "start" /\ evidence = {} /\ queried = {} /\ inventory = <<>> BY DEF Init
<1>3. DOMAIN cases \ {Seed} = {} BY DEF Init
<1>4. Answered BY <1>2 DEF Answered
<1>5. NearHolds /\ Found BY <1>2 DEF NearHolds, Found
<1>6. CasesHold BY <1>3 DEF CasesHold
<1>7. QED BY <1>1, <1>4, <1>5, <1>6 DEF Search

(* Steps other than an investigation, the first and the last of a hop. *)
LEMMA Quiet ==
  ASSUME Search, [Next]_vars, phase # "start", UNCHANGED <<given, endBlock, hop, addressHops, cases>>
  PROVE  NearHolds' /\ CasesHold'
<1>1. Flawless' => Flawless BY FlawsStay DEF Search, Sound
<1>2. /\ \A n \in Nat : Walk'[n] = Walk[n]
      /\ \A n \in Nat : Rel'[n] = Rel[n]
  BY SameWindow DEF given
<1>3. \A h : Within(h)' = Within(h) BY DEF Within
<1>4. hop \in Nat BY HopType DEF Search, Sound
<1>5. NearHolds' BY <1>1, <1>2, <1>3, <1>4 DEF Search, NearHolds
<1>6. ASSUME NEW t \in DOMAIN cases \ {Seed} PROVE cases[t] - 1 \in Nat
  BY <1>6, CaseHopPositive DEF Search
<1>7. CasesHold' BY <1>1, <1>2, <1>6 DEF Search, CasesHold
<1>8. QED BY <1>5, <1>7

LEMMA NearNext == Search /\ [Next]_vars => NearHolds' /\ CasesHold'
<1> SUFFICES ASSUME Search, [Next]_vars PROVE NearHolds' /\ CasesHold' OBVIOUS
<1>s. Sound /\ EvidenceChain /\ Expanded /\ Answered /\ NearHolds /\ CasesHold BY DEF Search
<1>f. Flawless' => Flawless BY <1>s, FlawsStay DEF Sound
<1>h. /\ hop \in Nat /\ \A a \in DOMAIN addressHops : addressHops[a] \in Nat
      /\ \A t \in DOMAIN cases \ {Seed} : cases[t] \in Nat /\ cases[t] - 1 \in Nat
  BY <1>s, HopType, CaseHopPositive DEF Sound, Typed
<1>1. CASE Begin \/ (Dropped /\ phase = "start")
  <2>1. phase = "start" /\ UNCHANGED <<hop, addressHops, cases>> BY <1>1 DEF Begin, Dropped
  <2>2. /\ hop = 0 /\ DOMAIN cases \ {Seed} = {} /\ DOMAIN addressHops = SeedFrontier
        /\ \A a \in SeedFrontier : addressHops[a] = 0
    BY <1>s, <2>1 DEF Sound, Typed, Levels
  <2>3. Walk'[0] = SeedFrontier
    <3>1. NearOf(Walk, InWindow)' BY NearOfWindow, PTL
    <3>2. QED BY <3>1 DEF NearOf, SeedFrontier
  <2>4. Within(0)' = SeedFrontier BY <2>1, <2>2 DEF Within
  <2>5. NearHolds' BY <2>1, <2>2, <2>3, <2>4 DEF NearHolds
  <2>6. CasesHold' BY <2>1, <2>2 DEF CasesHold
  <2>7. QED BY <2>5, <2>6
<1>2. ASSUME NEW a \in Addresses, NEW E, Asking(a, E) PROVE NearHolds' /\ CasesHold'
  BY <1>2, Quiet DEF Asking, Turn
<1>3. CASE AddressCap \/ FrontierAsked \/ (Dropped /\ phase # "start")
  BY <1>3, Quiet DEF AddressCap, FrontierAsked, Dropped
<1>4. ASSUME NEW t \in Txs, InvestigationFails(t) PROVE NearHolds' /\ CasesHold'
  BY <1>4, Quiet DEF InvestigationFails, Chosen
<1>5. ASSUME NEW t \in Txs, Investigate(t) PROVE NearHolds' /\ CasesHold'
  <2>1. PICK kept : Investigating(t, kept) BY <1>s, <1>5, InvestigateDoes DEF Sound
  <2>2. Chosen(t) BY <1>5 DEF Investigate
  <2>3. /\ phase = "select" /\ t \notin DOMAIN cases \cup failed
        /\ EvidenceFor(t) # {}
        /\ \A e \in EvidenceFor(t) : addressHops[e.address] = hop
    BY <1>s, <2>2, Choosing DEF Sound
  <2>4. /\ \A n \in Nat : Walk'[n] = Walk[n]
        /\ \A n \in Nat : Rel'[n] = Rel[n]
    BY <2>1, SameWindow DEF Investigating, given
  <2>5. ASSUME NEW h \in 0..hop PROVE Within(h)' = Within(h)
    BY <1>h, <2>1 DEF Investigating, Within
  <2>6. NearHolds'
    BY <1>s, <1>f, <1>h, <2>1, <2>3, <2>4, <2>5 DEF NearHolds, Investigating
  <2>7. ASSUME Flawless' PROVE t \in Rel[hop] /\ \A h \in 0..(hop - 1) : t \notin Rel[h]
    <3>1. Stage BY <1>s, <1>f, <2>3, <2>7 DEF Stage
    <3>2. t \in Rel[hop]
      <4>1. PICK e \in EvidenceFor(t) : addressHops[e.address] = hop BY <2>3
      <4>2. e \in evidence /\ e.record.tx = t BY DEF EvidenceFor
      <4>3. hop \in 0..hop /\ addressHops[e.address] <= hop BY <1>h, <4>1
      <4>4. QED BY <3>1, <4>2, <4>3, EvidenceInSearch
    <3>3. ASSUME NEW h \in 0..(hop - 1), t \in Rel[h] PROVE FALSE
      <4>1. h \in 0..hop /\ h \in Nat /\ h < hop BY <1>h
      <4>2. Within(h) \subseteq queried BY <1>s, <2>3, <4>1, AskedBelow DEF Looping
      <4>3. PICK e \in EvidenceFor(t) : addressHops[e.address] <= h
        BY <3>1, <3>3, <4>1, <4>2, SeenInEvidence
      <4>4. QED BY <1>h, <2>3, <4>1, <4>3
    <3>4. QED BY <3>2, <3>3
  <2>8. ASSUME Flawless', NEW s \in DOMAIN cases' \ {Seed}
        PROVE  s \in Rel'[cases'[s] - 1] /\ \A h \in 0..(cases'[s] - 2) : s \notin Rel'[h]
    <3>1. CASE s = t
      <4>1. cases'[s] - 1 = hop /\ cases'[s] - 2 = hop - 1 BY <1>h, <2>1, <3>1 DEF Investigating
      <4>2. QED BY <1>h, <2>4, <2>7, <2>8, <3>1, <4>1
    <3>2. CASE s \in DOMAIN cases
      <4>1. cases'[s] = cases[s] BY <2>1, <3>2 DEF Investigating
      <4>2. s \in Rel[cases[s] - 1] /\ \A h \in 0..(cases[s] - 2) : s \notin Rel[h]
        BY <1>s, <1>f, <2>8, <3>2 DEF CasesHold
      <4>3. QED BY <1>h, <2>4, <2>8, <3>2, <4>1, <4>2
    <3>3. QED BY <2>1, <2>8, <3>1, <3>2 DEF Investigating
  <2>9. CasesHold' BY <2>8 DEF CasesHold
  <2>10. QED BY <2>6, <2>9
<1>6. CASE EndHop
  <2>1. phase = "select" /\ UNCHANGED <<given, endBlock, addressHops, cases>> BY <1>6 DEF EndHop
  <2>2. CASE hop' = hop BY <2>1, <2>2, Quiet
  <2>3. CASE hop' # hop
    <3>1. Available = {} /\ hop + 1 < limits.hops /\ hop' = hop + 1
      BY <1>6, <1>h, <2>3, <1>s, LimitTypes DEF EndHop, Sound
    <3>2. /\ \A n \in Nat : Walk'[n] = Walk[n]
          /\ \A n \in Nat : Rel'[n] = Rel[n]
      BY <2>1, SameWindow DEF given
    <3>3. CasesHold' BY <1>s, <1>f, <1>h, <2>1, <3>2 DEF CasesHold
    <3>4. ASSUME Flawless', NEW h \in 0..(hop + 1) PROVE Within(h) = Walk[h]
      <4>1. Stage BY <1>s, <1>f, <2>1, <3>4 DEF Stage
      <4>2. CASE h = hop + 1 BY <1>s, <2>1, <3>1, <4>1, <4>2, NextLevel
      <4>3. CASE h \in 0..hop BY <4>1, <4>3 DEF Stage, NearHolds
      <4>4. QED BY <1>h, <4>2, <4>3
    <3>5. \A h : Within(h)' = Within(h) BY <2>1 DEF Within
    <3>6. NearHolds' BY <1>h, <3>1, <3>2, <3>4, <3>5 DEF NearHolds
    <3>7. QED BY <3>3, <3>6
  <2>4. QED BY <2>2, <2>3
<1>7. CASE UNCHANGED vars
  <2>1. CASE phase = "start"
    BY <1>7, <1>s, <2>1 DEF vars, NearHolds, CasesHold, Sound, Levels
  <2>2. CASE phase # "start" BY <1>7, <2>2, Quiet DEF vars
  <2>3. QED BY <2>1, <2>2
<1>8. QED BY <1>s, <1>1, <1>2, <1>3, <1>4, <1>5, <1>6, <1>7, Queries DEF Next, Sound

(* A seed without addresses leads nowhere. *)
LEMMA NothingNear == SeedFrontier = {} => \A h \in Nat : Rel[h] = {}
<1> SUFFICES ASSUME SeedFrontier = {}, NEW h \in Nat PROVE Rel[h] = {} OBVIOUS
<1>1. Walk[0] = {} BY NearOfWindow DEF NearOf
<1>2. NewIn(InWindow, Walk, 0) = {} BY <1>1 DEF NewIn, RelatedIn
<1>3. Walk[0 + 1] = Walk[0] \cup UNION {TouchedIn(InWindow, t, Walk[0]) :
                                          t \in NewIn(InWindow, Walk, 0)}
  BY NearOfWindow, Zenon DEF NearOf
<1>4. Walk[0 + 1] = Walk[0] BY <1>2, <1>3
<1>5. Walk[h] = {} BY <1>1, <1>4, NearStops
<1>6. QED BY <1>5, RelIs

(* The last hop: every transaction of the search is in the case. *)
LEMMA LastHop ==
  ASSUME Search, Flawless, phase = "select", Available = {},
         hop + 1 >= limits.hops \/ Frontier(hop + 1) = {}
  PROVE  DOMAIN cases = {Seed} \cup UNION {Rel[h] : h \in 0..(limits.hops - 1)}
<1>1. Stage /\ EvidenceChain /\ Expanded /\ CasesHold BY DEF Search, Stage
<1>2. hop \in Nat /\ limits.hops \in Nat BY HopType, LimitTypes DEF Search, Sound
<1>3. ASSUME NEW t \in DOMAIN cases \ {Seed}
      PROVE  \E h \in 0..(limits.hops - 1) : t \in Rel[h]
  <2>1. t \in Rel[cases[t] - 1] BY <1>1 DEF CasesHold, Stage
  <2>2. cases[t] \in 0..limits.hops BY DEF Search, Sound, Typed, TypeOK
  <2>3. cases[t] - 1 \in Nat BY <1>1, CaseHopPositive DEF Stage
  <2>4. cases[t] - 1 \in 0..(limits.hops - 1) BY <1>2, <2>2, <2>3
  <2>5. QED BY <2>1, <2>4
<1>4. ASSUME NEW h \in 0..hop, NEW t \in Rel[h] PROVE t \in DOMAIN cases
  <2>1. h \in Nat /\ (h < hop \/ h = hop) BY <1>2
  <2>2. Within(h) \subseteq queried BY <2>1, AskedBelow DEF Search, Looping
  <2>3. PICK e \in EvidenceFor(t) : addressHops[e.address] <= h
    BY <1>1, <2>2, SeenInEvidence
  <2>4. t \in Candidates BY DEF EvidenceFor, Candidates
  <2>5. QED BY <2>4, OpenIsAvailable DEF Search, Sound, Flawless
<1>5. ASSUME NEW h \in 0..(limits.hops - 1), NEW t \in Rel[h], h > hop PROVE t \in DOMAIN cases
  <2>1. hop + 1 < limits.hops \/ h = hop + 1 BY <1>2, <1>5
  <2>2. hop + 1 < limits.hops BY <1>2, <1>5
  <2>3. Frontier(hop + 1) = {} BY <1>2, <2>2
  <2>4. Within(hop + 1) = Walk[hop + 1] BY <1>1, <2>2, NextLevel
  <2>5. Within(hop + 1) = Within(hop)
    <3>1. \A a \in DOMAIN addressHops : addressHops[a] \in Nat /\ addressHops[a] # hop + 1
      BY <2>3 DEF Frontier, Search, Sound, Typed
    <3>2. QED BY <1>2, <3>1 DEF Within
  <2>6. Within(hop) = Walk[hop] BY <1>1, <1>2 DEF Stage, NearHolds
  <2>7. h \in Nat /\ h >= hop BY <1>2, <1>5
  <2>8. Walk[h] = Walk[hop] BY <1>2, <2>4, <2>5, <2>6, <2>7, NearStops
  <2>9. t \in Rel[hop] BY <1>2, <2>7, <2>8, RelIs
  <2>10. QED BY <1>2, <1>4, <2>9
<1>6. Seed \in DOMAIN cases BY DEF Search, Sound, Typed
<1>7. ASSUME NEW h \in 0..(limits.hops - 1), NEW t \in Rel[h] PROVE t \in DOMAIN cases
  BY <1>2, <1>4, <1>5
<1>8. QED BY <1>3, <1>6, <1>7

LEMMA FoundNext == Search /\ [Next]_vars => Found'
<1> SUFFICES ASSUME Search, [Next]_vars, phase' = "done", Flawless', ~Full' PROVE Found'
  BY DEF Found
<1>s. Typed /\ Levels BY DEF Search, Sound
<1>f. Flawless BY <1>s, FlawsStay
<1>1. CASE Begin
  <2>1. /\ phase = "start" /\ ~(limits.hops > 0 /\ Frontier(0) # {})
        /\ UNCHANGED <<given, cases>>
    BY <1>1 DEF Begin
  <2>2. /\ DOMAIN cases = {Seed} /\ DOMAIN addressHops = SeedFrontier
        /\ \A a \in SeedFrontier : addressHops[a] = 0
    BY <1>s, <2>1 DEF Levels
  <2>3. CASE limits.hops = 0 BY <2>1, <2>2, <2>3 DEF Found, given
  <2>4. CASE SeedFrontier = {}
    <3>1. (SeedFrontier = {} => \A h \in Nat : Rel[h] = {})' BY NothingNear, PTL
    <3>2. \A h \in Nat : Rel'[h] = {} BY <2>4, <3>1 DEF SeedFrontier
    <3>3. QED BY <2>1, <2>2, <3>2 DEF Found
  <2>5. limits.hops \in Nat BY <1>s, LimitTypes
  <2>6. QED BY <2>1, <2>2, <2>3, <2>4, <2>5 DEF Frontier
<1>2. CASE AddressCap \/ FrontierAsked
  <2>1. addressLimit' BY <1>2 DEF AddressCap, FrontierAsked
  <2>2. QED BY <2>1 DEF Flawless
<1>3. CASE EndHop
  <2>1. phase = "select" /\ UNCHANGED <<given, endBlock, cases>> BY <1>3 DEF EndHop
  <2>2. ~Full BY <2>1 DEF Full, given
  <2>3. Available = {} /\ (hop + 1 >= limits.hops \/ Frontier(hop + 1) = {})
    BY <1>3, <2>2 DEF EndHop
  <2>4. DOMAIN cases = {Seed} \cup UNION {Rel[h] : h \in 0..(limits.hops - 1)}
    BY <1>f, <2>1, <2>3, LastHop
  <2>5. \A n \in Nat : Rel'[n] = Rel[n] BY <2>1, SameWindow DEF given
  <2>6. {Rel'[h] : h \in 0..(limits.hops - 1)} = {Rel[h] : h \in 0..(limits.hops - 1)}
    BY <2>5, <1>s, LimitTypes
  <2>7. QED BY <2>1, <2>4, <2>6 DEF Found, given
<1>4. ASSUME NEW a \in Addresses, NEW E, Asking(a, E) PROVE Found'
  BY <1>4 DEF Asking, Turn
<1>5. ASSUME NEW t \in Txs, Investigate(t) \/ InvestigationFails(t) PROVE Found'
  BY <1>5 DEF Investigate, InvestigationFails, Chosen
<1>d. CASE Dropped BY <1>d DEF Dropped
<1>6. CASE UNCHANGED vars
  <2>1. DOMAIN cases = {Seed} \cup UNION {Rel[h] : h \in 0..(limits.hops - 1)}
    BY <1>6, <1>f DEF vars, given, Search, Found, Full
  <2>2. \A n \in Nat : Rel'[n] = Rel[n] BY <1>6, SameWindow DEF vars, given
  <2>3. {Rel'[h] : h \in 0..(limits.hops - 1)} = {Rel[h] : h \in 0..(limits.hops - 1)}
    BY <2>2, <1>s, LimitTypes
  <2>4. QED BY <1>6, <2>1, <2>3 DEF Found, vars, given
<1>7. QED BY <1>s, <1>1, <1>2, <1>3, <1>4, <1>5, <1>d, <1>6, Queries DEF Next

(* Where every record is confirmed, the walk is the search of the docs. *)
LEMMA WalkIsNear ==
  ASSUME \A r \in InWindow : Confirmed(r)
  PROVE  \A n \in Nat : Walk[n] = Near[n]
<1>1. ASSUME NEW t, NEW A PROVE Touched(t, A) = Met(t, A)
  <2> DEFINE links == {l \in A \X InWindow : l[2].tx = t /\ l[1] \in l[2].listed}
             paid == {l \in links : Confirmed(l[2])}
  <2>1. paid = links OBVIOUS
  <2>2. Touched(t, A) = Follow({l[1] : l \in links} \cup
                               ({Counterpart(l[1], l[2]) : l \in paid} \ {Zero}), t)
    BY Zenon DEF Touched
  <2>3. Met(t, A) = Follow({l[1] : l \in links} \cup
                           ({Counterpart(l[1], l[2]) : l \in links} \ {Zero}), t)
    BY Zenon DEF Met
  <2> HIDE DEF links, paid
  <2>4. QED BY <2>1, <2>2, <2>3
<1> DEFINE step(N, h) ==
      IF h = 0 THEN SeedFrontier
      ELSE N[h - 1] \cup
           UNION {Touched(t, N[h - 1]) :
                    t \in {s \in RelatedTo(N[h - 1]) : h = 1 \/ s \notin RelatedTo(N[h - 2])}}
<1>2. \A N, h : step(N, h) = NearStep(N, h) BY <1>1, Zenon DEF NearStep
<1>3. Near = CHOOSE N : N = [h \in Nat |-> step(N, h)] BY Zenon DEF Near
<1> HIDE DEF step
<1>4. ASSUME NEW N PROVE [h \in Nat |-> step(N, h)] = [h \in Nat |-> NearStep(N, h)]
  BY <1>2, Zenon
<1>5. Walk = [h \in Nat |-> step(Walk, h)] BY <1>4, WalkSteps
<1>6. Near = [h \in Nat |-> step(Near, h)] BY <1>3, <1>5, Zenon
<1>7. Near = [h \in Nat |-> NearStep(Near, h)] BY <1>4, <1>6
<1>8. NearOf(Near, InWindow) BY <1>7, StepsAreSearch, Zenon
<1>9. QED BY <1>8, NearOfWindow, NearOfUnique

LEMMA SearchComplete == Search => CompleteWhenClean
<1> SUFFICES ASSUME Search, phase = "done", Clean, \A r \in InWindow : Confirmed(r)
             PROVE  /\ DOMAIN cases = {Seed} \cup
                                      UNION {RelatedTo(Near[h]) : h \in 0..(limits.hops - 1)}
                    /\ \A t \in DOMAIN cases \ {Seed} :
                         /\ t \in RelatedTo(Near[cases[t] - 1])
                         /\ \A h \in 0..(cases[t] - 2) : t \notin RelatedTo(Near[h])
  BY Zenon DEF CompleteWhenClean
<1>1. Flawless /\ ~Full BY DEF Clean, Flawless
<1>2. \A h \in Nat : Rel[h] = RelatedTo(Near[h])
  <2>1. \A h \in Nat : Rel[h] = RelatedTo(Walk[h]) BY Zenon DEF Rel
  <2>2. QED BY <2>1, WalkIsNear
<1>3. limits.hops \in Nat BY LimitTypes DEF Search, Sound
<1>4. DOMAIN cases = {Seed} \cup UNION {Rel[h] : h \in 0..(limits.hops - 1)}
  BY <1>1 DEF Search, Found
<1>5. {Rel[h] : h \in 0..(limits.hops - 1)} = {RelatedTo(Near[h]) : h \in 0..(limits.hops - 1)}
  BY <1>2, <1>3
<1>6. ASSUME NEW t \in DOMAIN cases \ {Seed}
      PROVE  /\ t \in RelatedTo(Near[cases[t] - 1])
             /\ \A h \in 0..(cases[t] - 2) : t \notin RelatedTo(Near[h])
  <2>1. t \in Rel[cases[t] - 1] /\ \A h \in 0..(cases[t] - 2) : t \notin Rel[h]
    BY <1>1 DEF Search, CasesHold
  <2>2. cases[t] \in Nat /\ cases[t] - 1 \in Nat BY CaseHopPositive DEF Search
  <2>3. QED BY <1>2, <2>1, <2>2
<1>7. QED BY <1>4, <1>5, <1>6

(* For every ledger and every limit: a reconstruction that met no limit,     *)
(* bounded no hub and lost no answer holds exactly the transactions that a   *)
(* breadth-first search from the seed meets, each at the hop the search      *)
(* finds it at, in every window whose records are all confirmed by a         *)
(* committed transfer (reconstruct_attack_case, records_for_address).        *)
THEOREM CleanIsComplete == Spec => []CompleteWhenClean
<1>1. Search /\ [Next]_vars => Search'
  BY SoundNext, ChainNext, ExpandedNext, AnsweredNext, NearNext, FoundNext DEF Search
<1>2. QED BY <1>1, SearchInit, SearchComplete, PTL DEF Spec
=============================================================================
