----------------------- MODULE ProfileRefresh_proofs -----------------------
(***************************************************************************)
(* Theorems about ProfileRefresh and their proofs, for any number of       *)
(* refreshers, profiles and values and every limit.                        *)
(***************************************************************************)
EXTENDS ProfileRefresh, AlertOutbox_proofs

(* The number of profiles. *)
N == Cardinality(Profiles)

(* There is at least one profile, and finitely many. *)
LEMMA ProfileCount == N \in Nat /\ N > 0
BY ProfileAssumption, FS_CardinalityType, FS_EmptySet DEF N

(* What a reading is: a value of each field, or a failed read. *)
LEMMA ReadingsAre ==
  ASSUME NEW p \in Profiles
  PROVE  /\ Readings(p) \subseteq [Fields -> Nat]
         /\ \A v \in [Fields -> Nat] :
              v \in Readings(p) <=>
                \A f \in Fields : v[f] \in Values[p][f] \/ (v[f] = 0 /\ f # "bytecode")
<1> DEFINE U == (UNION {Values[p][f] : f \in Fields}) \cup {0}
<1>1. Values[p] \in [Fields -> SUBSET Nat]
  BY ProfileAssumption
<1>2. U \subseteq Nat
  <2>1. \A f \in Fields : Values[p][f] \subseteq Nat
    BY <1>1
  <2>2. UNION {Values[p][f] : f \in Fields} \subseteq Nat
    BY <2>1, Zenon
  <2>3. {0} \subseteq Nat
    OBVIOUS
  <2> QED BY <2>2, <2>3, Zenon
<1>3. \A f \in Fields : Values[p][f] \subseteq U /\ 0 \in U
  <2>1. \A f \in Fields : Values[p][f] \in {Values[p][g] : g \in Fields}
    OBVIOUS
  <2>2. ASSUME NEW f \in Fields, NEW x \in Values[p][f] PROVE x \in U
    <3>1. x \in UNION {Values[p][g] : g \in Fields}
      BY <2>1
    <3> QED BY <3>1, Zenon
  <2>3. 0 \in U
    BY Zenon
  <2> QED BY <2>2, <2>3
<1>4. Readings(p) = {v \in [Fields -> U] :
                       \A f \in Fields : v[f] \in Values[p][f] \/ (v[f] = 0 /\ f # "bytecode")}
  BY DEF Readings
<1> HIDE DEF U
<1>5. Readings(p) \subseteq [Fields -> Nat]
  BY <1>2, <1>4
<1>6. ASSUME NEW v \in [Fields -> Nat],
             \A f \in Fields : v[f] \in Values[p][f] \/ (v[f] = 0 /\ f # "bytecode")
      PROVE  v \in Readings(p)
  <2>1. \A f \in Fields : v[f] \in U
    BY <1>3, <1>6
  <2>2. v \in [Fields -> U]
    BY <2>1
  <2> QED BY <1>4, <1>6, <2>2
<1>7. ASSUME NEW v \in Readings(p)
      PROVE  \A f \in Fields : v[f] \in Values[p][f] \/ (v[f] = 0 /\ f # "bytecode")
  BY <1>4, <1>7
<1> QED BY <1>5, <1>6, <1>7

(* The head and the tail of a batch. *)
LEMMA HeadTail ==
  ASSUME NEW S, NEW s \in Seq(S), s # <<>>
  PROVE  /\ Head(s) \in S /\ 1 \in DOMAIN s /\ Head(s) = s[1]
         /\ Tail(s) \in Seq(S) /\ (Len(s) # 1 => Tail(s) # <<>>)
         /\ \A i \in DOMAIN Tail(s) : i + 1 \in DOMAIN s /\ Tail(s)[i] = s[i + 1]
<1>1. Len(s) \in Nat /\ Len(s) > 0 /\ DOMAIN s = 1..Len(s)
  OBVIOUS
<1>2. Tail(s) \in Seq(S) /\ Len(Tail(s)) = Len(s) - 1
      /\ \A i \in 1..(Len(s) - 1) : Tail(s)[i] = s[i + 1]
  OBVIOUS
<1>4. DOMAIN Tail(s) = 1..(Len(s) - 1)
  BY <1>2
<1>3. Len(s) # 1 => Tail(s) # <<>>
  <2>1. Len(s) # 1 => Len(Tail(s)) # 0
    BY <1>1, <1>2
  <2>2. Len(<<>>) = 0
    OBVIOUS
  <2> QED BY <2>1, <2>2, Zenon
<1>5. Head(s) \in S /\ Head(s) = s[1]
  BY <1>1
<1> QED BY <1>1, <1>2, <1>3, <1>4, <1>5

-----------------------------------------------------------------------------
(* A row of a batch, and the stages in which a refresher is at its head. *)
Entries == {x \in [address : Profiles, row : [Fields -> Nat]] : x.row \in Readings(x.address)}

Flying == {"identity", "event", "incident"}
Read == {"slots", "explorers", "upsert"} \cup Flying

Framed(r) == /\ pc[r] \in {"code"} \cup Read => todo[r] # <<>>
             /\ pc[r] \in Read => seen[r] \in Readings(Subject(r))
             /\ pc[r] \notin Read => seen[r] = Unread
             /\ pc[r] \in Flying => Changed(r) # {}

FrameOK == \A r \in Clients : Framed(r)

TypesOK == /\ OutboxTypeOK
           /\ chain \in [Profiles -> [Fields -> Nat]] /\ row \in [Profiles -> [Fields -> Nat]]
           /\ \A p \in Profiles : chain[p] \in Readings(p) /\ row[p] \in Readings(p)
           /\ order \in [1..N -> Profiles]
           /\ \A p \in Profiles : \E i \in 1..N : order[i] = p
           /\ due \in 0..N
           /\ graph \subseteq Profiles /\ cut \subseteq Profiles
           /\ pc \in [Clients -> PCs]
           /\ todo \in [Clients -> Seq(Entries)]
           /\ seen \in [Clients -> [Fields -> Nat]]
           /\ changes \in 0..MaxChanges /\ faults \in 0..MaxFaults /\ crashes \in 0..MaxCrashes

Typed == TypesOK /\ FrameOK

(* The rows of a batch are readings of the profiles they name. *)
LEMMA TypedIsTypeOK == Typed => TypeOK
<1> SUFFICES ASSUME Typed PROVE TypeOK
  OBVIOUS
<1>1. \A r \in Clients : \A i \in DOMAIN todo[r] : todo[r][i] \in Entries
  BY DEF Typed, TypesOK
<1>2. DOMAIN order = 1..N
  BY DEF Typed, TypesOK
<1> QED BY <1>1, <1>2 DEF Typed, TypesOK, TypeOK, Entries, N

(* An order without repetitions lists every profile. *)
LEMMA OrderIsComplete ==
  ASSUME NEW s \in [1..N -> Profiles], \A i, j \in 1..N : s[i] = s[j] => i = j,
         NEW p \in Profiles
  PROVE  \E i \in 1..N : s[i] = p
<1> SUFFICES ASSUME \A i \in 1..N : s[i] # p PROVE FALSE
  OBVIOUS
<1>1. s \in [1..N -> Profiles \ {p}]
  OBVIOUS
<1>2. IsFiniteSet(1..N) /\ Cardinality(1..N) = N
  BY ProfileCount, FS_Interval
<1>3. IsFiniteSet(Profiles \ {p}) /\ Cardinality(Profiles \ {p}) = N - 1
  BY ProfileAssumption, FS_RemoveElement DEF N
<1>4. \E i, j \in 1..N : i # j /\ s[i] = s[j]
  BY <1>1, <1>2, <1>3, ProfileCount, FS_PigeonHole
<1> QED BY <1>4

(* The first run finds the rows of the first enrichment. *)
LEMMA TypedInit == Init => Typed
<1> SUFFICES ASSUME Init PROVE Typed
  OBVIOUS
<1>1. OutboxTypeOK
  BY DEF Init, OutboxInit, OutboxTypeOK
<1>2. order \in [1..N -> Profiles] /\ \A i, j \in 1..N : order[i] = order[j] => i = j
  BY DEF Init, N
<1>3. \A p \in Profiles : \E i \in 1..N : order[i] = p
  BY <1>2, OrderIsComplete
<1>4. N \in Nat /\ due = N
  BY ProfileCount DEF Init, N
<1>5. \A r \in Clients : pc[r] \notin {"code"} \cup Read
  BY DEF Init, Read, Flying
<1>6. FrameOK
  BY <1>5 DEF Init, FrameOK, Framed, Read, Flying
<1>7. seen \in [Clients -> [Fields -> Nat]] /\ todo \in [Clients -> Seq(Entries)]
  BY DEF Init, Unread
<1>8. /\ chain \in [Profiles -> [Fields -> Nat]] /\ row \in [Profiles -> [Fields -> Nat]]
      /\ \A p \in Profiles : chain[p] \in Readings(p) /\ row[p] \in Readings(p)
  BY ProfileAssumption DEF Init
<1>9. /\ pc \in [Clients -> PCs] /\ graph \subseteq Profiles /\ cut \subseteq Profiles
      /\ changes \in 0..MaxChanges /\ faults \in 0..MaxFaults /\ crashes \in 0..MaxCrashes
  BY ProfileAssumption DEF Init, PCs
<1> QED BY <1>1, <1>2, <1>3, <1>4, <1>6, <1>7, <1>8, <1>9 DEF Typed, TypesOK
-----------------------------------------------------------------------------
(* The step of one refresher leaves the others where they are. *)
Others(r) == \A q \in Clients \ {r} : pc'[q] = pc[q] /\ todo'[q] = todo[q] /\ seen'[q] = seen[q]

(* Only the frame of the refresher that moved has to be looked at. *)
LEMMA FrameStep ==
  ASSUME FrameOK, NEW r \in Clients, Others(r), Framed(r)'
  PROVE  FrameOK'
BY DEF FrameOK, Framed, Others, Subject, Changed

(* The profile a refresher is at. *)
LEMMA AtHead ==
  ASSUME Typed, NEW r \in Clients, pc[r] \in {"code"} \cup Read
  PROVE  /\ Subject(r) \in Profiles /\ Head(todo[r]) \in Entries
         /\ Head(todo[r]).row \in Readings(Subject(r))
         /\ Head(todo[r]).row \in [Fields -> Nat]
         /\ Tail(todo[r]) \in Seq(Entries)
         /\ Len(todo[r]) # 1 => Tail(todo[r]) # <<>>
<1>1. todo[r] \in Seq(Entries) /\ todo[r] # <<>>
  BY DEF Typed, TypesOK, FrameOK, Framed
<1>2. Head(todo[r]) \in Entries /\ Tail(todo[r]) \in Seq(Entries)
      /\ (Len(todo[r]) # 1 => Tail(todo[r]) # <<>>)
  BY <1>1, HeadTail
<1> QED BY <1>2 DEF Entries, Subject

(* The id of the event a refresher is about to record. *)
LEMMA EventType ==
  ASSUME Typed, NEW r \in Clients, pc[r] \in Flying
  PROVE  Event(r) \in Events /\ Event(r).address = Subject(r)
         /\ Event(r).current = [f \in Changed(r) |-> seen[r][f]]
         /\ DriftScore(Subject(r), Changed(r)) \in Nat
<1> DEFINE old == Head(todo[r]).row
<1>1. Subject(r) \in Profiles /\ old \in Readings(Subject(r))
  BY AtHead DEF Read
<1>2. seen[r] \in Readings(Subject(r)) /\ Changed(r) # {}
  BY DEF Typed, FrameOK, Framed, Read
<1>3. Changed(r) = {f \in Fields : seen[r][f] # old[f]}
  BY DEF Changed
<1>4. seen[r] # old
  BY <1>2, <1>3
<1>5. Drift(Subject(r), seen[r], {f \in Fields : seen[r][f] # old[f]}) \in Events
  BY <1>1, <1>2, <1>4, ProfileAssumption
<1>6. DriftScore(Subject(r), Changed(r)) \in Nat
  BY DEF DriftScore
<1> QED BY <1>3, <1>5, <1>6 DEF Event, Drift

(* The next profile of the batch. *)
LEMMA OnwardTypes ==
  ASSUME Typed, NEW r \in Clients, pc[r] \in {"code"} \cup Read, Onward(r)
  PROVE  /\ pc' \in [Clients -> PCs] /\ todo' \in [Clients -> Seq(Entries)]
         /\ seen' \in [Clients -> [Fields -> Nat]]
         /\ todo'[r] = Tail(todo[r]) /\ pc'[r] \in {"flush", "code"}
         /\ Others(r) /\ FrameOK'
<1>1. Tail(todo[r]) \in Seq(Entries) /\ (Len(todo[r]) # 1 => Tail(todo[r]) # <<>>)
  BY AtHead
<1>2. Unread \in [Fields -> Nat]
  BY DEF Unread
<1>3. pc \in [Clients -> PCs] /\ todo \in [Clients -> Seq(Entries)]
      /\ seen \in [Clients -> [Fields -> Nat]]
  BY DEF Typed, TypesOK
<1>4. /\ pc' = [pc EXCEPT ![r] = IF Len(todo[r]) = 1 THEN "flush" ELSE "code"]
      /\ todo' = [todo EXCEPT ![r] = Tail(todo[r])] /\ seen' = [seen EXCEPT ![r] = Unread]
  BY DEF Onward, Goto
<1>5. /\ pc' \in [Clients -> PCs] /\ todo' \in [Clients -> Seq(Entries)]
      /\ seen' \in [Clients -> [Fields -> Nat]]
      /\ todo'[r] = Tail(todo[r]) /\ pc'[r] \in {"flush", "code"} /\ seen'[r] = Unread
      /\ (pc'[r] = "code" => Len(todo[r]) # 1)
  BY <1>1, <1>2, <1>3, <1>4 DEF PCs
<1>6. Others(r)
  BY <1>3, <1>4 DEF Others
<1>7. Framed(r)'
  BY <1>1, <1>5 DEF Framed, Read, Flying
<1> QED BY <1>5, <1>6, <1>7, FrameStep DEF Typed

(* The profile that was refreshed goes to the end of the order. *)
LEMMA UpsertOrder ==
  ASSUME Typed, NEW r \in Clients, Upsert(r)
  PROVE  /\ order' \in [1..N -> Profiles] /\ \A p \in Profiles : \E i \in 1..N : order'[i] = p
         /\ due' \in 0..N
<1> DEFINE p == Subject(r)
           at == CHOOSE i \in DOMAIN order : order[i] = p
<1>1. N \in Nat /\ N > 0 /\ order \in [1..N -> Profiles] /\ due \in 0..N
      /\ \A q \in Profiles : \E i \in 1..N : order[i] = q
  BY ProfileCount DEF Typed, TypesOK
<1>2. DOMAIN order = 1..N /\ Len(order) = N
  BY <1>1
<1>3. p \in Profiles
  BY AtHead DEF Upsert, Read
<1>4. at \in 1..N /\ order[at] = p
  BY <1>1, <1>2, <1>3
<1>5. /\ order' = [i \in 1..N |-> IF i < at THEN order[i]
                                  ELSE IF i < N THEN order[i + 1] ELSE p]
      /\ due' = IF at <= due THEN due - 1 ELSE due
  BY <1>2 DEF Upsert
<1> HIDE DEF at, p
<1>6. order' \in [1..N -> Profiles]
  <2>1. \A i \in 1..N : (IF i < at THEN order[i] ELSE IF i < N THEN order[i + 1] ELSE p) \in Profiles
    BY <1>1, <1>3
  <2> QED BY <1>5, <2>1
<1>7. ASSUME NEW q \in Profiles PROVE \E i \in 1..N : order'[i] = q
  <2>1. CASE q = p
    <3>1. N \in 1..N /\ order'[N] = q
      BY <1>1, <1>4, <1>5, <2>1
    <3> QED BY <3>1
  <2>2. CASE q # p
    <3>1. PICK i \in 1..N : order[i] = q
      BY <1>1
    <3>2. CASE i < at
      <4>1. order'[i] = q
        BY <1>5, <3>1, <3>2
      <4> QED BY <4>1
    <3>3. CASE i > at
      <4>1. i - 1 \in 1..N /\ ~(i - 1 < at) /\ i - 1 < N /\ (i - 1) + 1 = i
        BY <1>1, <1>4, <3>3
      <4>2. order'[i - 1] = q
        BY <1>5, <3>1, <4>1
      <4> QED BY <4>1, <4>2
    <3> QED BY <1>1, <1>4, <2>2, <3>1, <3>2, <3>3
  <2> QED BY <2>1, <2>2
<1>8. due' \in 0..N
  BY <1>1, <1>4, <1>5
<1> QED BY <1>6, <1>7, <1>8

(* One more field of a reading is read, or fails to be. *)
LEMMA ReadField ==
  ASSUME NEW p \in Profiles, NEW v \in [Fields -> Nat], NEW f \in Fields, NEW w \in Nat,
         \A g \in Fields \ {f} : v[g] \in Values[p][g] \/ (v[g] = 0 /\ g # "bytecode"),
         w \in Values[p][f] \/ (w = 0 /\ f # "bytecode")
  PROVE  [v EXCEPT ![f] = w] \in Readings(p)
<1> DEFINE u == [v EXCEPT ![f] = w]
<1>1. u \in [Fields -> Nat]
  OBVIOUS
<1>2. \A g \in Fields : u[g] \in Values[p][g] \/ (u[g] = 0 /\ g # "bytecode")
  OBVIOUS
<1> QED BY <1>1, <1>2, ReadingsAre

(* What the chain shows of a profile. *)
LEMMA OnChain ==
  ASSUME Typed, NEW p \in Profiles
  PROVE  /\ chain[p] \in [Fields -> Nat]
         /\ \A f \in Fields : chain[p][f] \in Values[p][f] \/ (chain[p][f] = 0 /\ f # "bytecode")
BY ReadingsAre DEF Typed, TypesOK

(* The reads of a refresh keep a reading. *)
LEMMA ReadStep ==
  ASSUME Typed, NEW r \in Clients, ReadCode(r) \/ ReadSlots(r) \/ ReadExplorers(r)
  PROVE  Typed' /\ Others(r) /\ UNCHANGED todo /\ pc'[r] \in {"slots", "explorers", "upsert"}
         /\ UNCHANGED <<outboxVars, tables, cut>>
<1> DEFINE p == Subject(r)
<1>0. p \in Profiles /\ pc[r] \in {"code", "slots", "explorers"}
      /\ (pc[r] = "code" => seen[r] = Unread) /\ (pc[r] # "code" => seen[r] \in Readings(p))
  BY AtHead DEF ReadCode, ReadSlots, ReadExplorers, Typed, FrameOK, Framed, Read, Flying
<1>1. /\ pc \in [Clients -> PCs] /\ todo \in [Clients -> Seq(Entries)]
      /\ seen \in [Clients -> [Fields -> Nat]] /\ faults \in 0..MaxFaults
  BY DEF Typed, TypesOK
<1>2. /\ "bytecode" \in Fields /\ "implementation" \in Fields /\ "verified" \in Fields
      /\ \A f \in Fields : Unread[f] = 0
      /\ Fields = {"bytecode", "implementation", "verified"}
  BY DEF Fields, Unread
<1>3. \A f \in Fields : /\ chain[p][f] \in Nat
                        /\ chain[p][f] \in Values[p][f] \/ (chain[p][f] = 0 /\ f # "bytecode")
  BY <1>0, OnChain
<1>4. pc[r] # "code" =>
        \A f \in Fields : seen[r][f] \in Values[p][f] \/ (seen[r][f] = 0 /\ f # "bytecode")
  BY <1>0, <1>1, ReadingsAre
<1>5. seen[r] \in [Fields -> Nat]
  BY <1>1
<1> DEFINE Result(v, s) == /\ seen' = [seen EXCEPT ![r] = v] /\ v \in Readings(p)
                           /\ pc' = [pc EXCEPT ![r] = s] /\ s \in {"slots", "explorers", "upsert"}
                           /\ faults' \in 0..MaxFaults
                           /\ UNCHANGED <<outboxVars, tables, env, todo, cut, crashes>>
<1>6. \E v, s : Result(v, s)
  <2>1. CASE ReadCode(r)
    <3> DEFINE v == [seen[r] EXCEPT !["bytecode"] = chain[p]["bytecode"]]
    <3>1. seen' = [seen EXCEPT ![r] = v]
      BY <2>1, <1>1 DEF ReadCode, See
    <3>2. v \in Readings(p)
      BY <2>1, <1>0, <1>2, <1>3, <1>5, ReadField DEF ReadCode
    <3> HIDE DEF v
    <3>3. Result(v, "slots")
      BY <2>1, <1>1, <3>1, <3>2 DEF ReadCode, Goto
    <3> QED BY <3>3
  <2>2. CASE ReadSlots(r)
    <3>1. PICK w \in {chain[p]["implementation"], 0} :
            /\ seen' = [seen EXCEPT ![r]["implementation"] = w]
            /\ faults' \in 0..MaxFaults
      BY <2>2, <1>1, ProfileAssumption DEF ReadSlots, See, Fails
    <3> DEFINE v == [seen[r] EXCEPT !["implementation"] = w]
    <3>2. seen' = [seen EXCEPT ![r] = v]
      BY <3>1, <1>1
    <3>3. v \in Readings(p)
      BY <2>2, <1>0, <1>2, <1>3, <1>4, <1>5, <3>1, ReadField DEF ReadSlots
    <3> HIDE DEF v
    <3>4. Result(v, "explorers")
      BY <2>2, <1>1, <3>1, <3>2, <3>3 DEF ReadSlots, Goto
    <3> QED BY <3>4
  <2>3. CASE ReadExplorers(r)
    <3> DEFINE verified(w) == [seen[r] EXCEPT !["verified"] = w]
               filled == [verified(chain[p]["verified"]) EXCEPT
                            !["implementation"] = chain[p]["implementation"]]
    <3>1. pc[r] = "explorers"
      BY <2>3 DEF ReadExplorers
    <3>2. \A w \in {chain[p]["verified"], 0} :
            verified(w) \in Readings(p) /\ verified(w) \in [Fields -> Nat]
      BY <1>0, <1>2, <1>3, <1>4, <1>5, <3>1, ReadField, ReadingsAre
    <3>3. filled \in Readings(p)
      <4>1. verified(chain[p]["verified"]) \in [Fields -> Nat]
            /\ \A f \in Fields : \/ verified(chain[p]["verified"])[f] \in Values[p][f]
                                 \/ verified(chain[p]["verified"])[f] = 0 /\ f # "bytecode"
        BY <1>0, <3>2, ReadingsAre
      <4> HIDE DEF verified
      <4> QED BY <1>0, <1>2, <1>3, <4>1, ReadField
    <3>4. /\ \/ \E w \in {chain[p]["verified"], 0} : seen' = [seen EXCEPT ![r] = verified(w)]
             \/ seen' = [seen EXCEPT ![r] = filled]
          /\ faults' \in 0..MaxFaults
      <4>1. CASE See(r, "verified", chain[p].verified) /\ UNCHANGED faults
        BY <4>1, <1>1 DEF See
      <4>2. CASE Fails /\ See(r, "verified", 0)
        BY <4>2, <1>1, ProfileAssumption DEF See, Fails
      <4>3. CASE /\ seen' = [seen EXCEPT ![r].verified = chain[p].verified,
                                         ![r].implementation = chain[p].implementation]
                 /\ UNCHANGED faults
        BY <4>3, <1>1
      <4> QED BY <2>3, <4>1, <4>2, <4>3 DEF ReadExplorers
    <3>5. \E v \in Readings(p) : seen' = [seen EXCEPT ![r] = v]
      BY <3>2, <3>3, <3>4
    <3>6. PICK v \in Readings(p) : seen' = [seen EXCEPT ![r] = v]
      BY <3>5
    <3>7. Result(v, "upsert")
      BY <2>3, <1>1, <3>4, <3>6 DEF ReadExplorers, Goto
    <3> QED BY <3>7
  <2> QED BY <2>1, <2>2, <2>3
<1>7. PICK v, s : Result(v, s)
  BY <1>6
<1>8. v \in [Fields -> Nat]
  BY <1>0, <1>7, ReadingsAre
<1>9. Others(r) /\ pc'[r] = s /\ seen'[r] = v /\ todo'[r] = todo[r]
  BY <1>1, <1>7 DEF Others
<1>10. Framed(r)'
  <2>1. todo[r] # <<>>
    BY <1>0 DEF Typed, FrameOK, Framed, Read
  <2>2. Subject(r)' = Subject(r)
    BY <1>9 DEF Subject
  <2>3. pc'[r] \in Read /\ pc'[r] \notin Flying
    BY <1>7, <1>9 DEF Read, Flying
  <2> QED BY <1>7, <1>9, <2>1, <2>2, <2>3 DEF Framed
<1>11. FrameOK'
  BY <1>9, <1>10, FrameStep DEF Typed
<1>12. TypesOK'
  BY <1>1, <1>7, <1>8 DEF Typed, TypesOK, OutboxTypeOK, outboxVars, tables, env, PCs
<1> QED BY <1>7, <1>9, <1>11, <1>12 DEF Typed

(* profiles_due_for_refresh returns profiles. *)
LEMMA DueType ==
  ASSUME Typed
  PROVE  DueProfiles \in Seq(Profiles)
<1> DEFINE n == IF due < Limit THEN due ELSE Limit
<1>1. N \in Nat /\ order \in [1..N -> Profiles] /\ due \in 0..N
  BY ProfileCount DEF Typed, TypesOK
<1>2. order \in Seq(Profiles) /\ Len(order) = N
  BY <1>1
<1>3. n \in 0..N
  BY <1>1, ProfileAssumption
<1> HIDE DEF n
<1>4. SubSeq(order, 1, n) \in Seq(Profiles)
  BY <1>2, <1>3
<1> QED BY <1>4 DEF DueProfiles, n

(* The batch holds a copy of each due row. *)
LEMMA LoadStep ==
  ASSUME Typed, NEW r \in Clients, LoadDue(r)
  PROVE  /\ Typed' /\ Others(r) /\ UNCHANGED <<outboxVars, tables, cut>>
         /\ pc[r] \notin Flying /\ pc'[r] \notin Flying
         /\ \A i \in DOMAIN todo'[r] : /\ todo'[r][i].address \in Profiles
                                       /\ todo'[r][i].row = row[todo'[r][i].address]
<1> DEFINE first == DueProfiles
           new == [i \in 1..Len(first) |-> [address |-> first[i], row |-> row[first[i]]]]
<1>0. /\ pc \in [Clients -> PCs] /\ todo \in [Clients -> Seq(Entries)]
      /\ row \in [Profiles -> [Fields -> Nat]] /\ \A p \in Profiles : row[p] \in Readings(p)
  BY DEF Typed, TypesOK
<1>1. first \in Seq(Profiles)
  BY DueType
<1>2. /\ todo' = [todo EXCEPT ![r] = new]
      /\ pc' = [pc EXCEPT ![r] = IF first = <<>> THEN "flush" ELSE "code"]
      /\ pc[r] = "idle"
      /\ UNCHANGED <<outboxVars, tables, env, seen, cut, faults, crashes>>
  BY DEF LoadDue, Goto
<1> HIDE DEF first
<1>3. Len(first) \in Nat /\ \A i \in 1..Len(first) : first[i] \in Profiles
  BY <1>1
<1>4. \A i \in 1..Len(first) : [address |-> first[i], row |-> row[first[i]]] \in Entries
  BY <1>0, <1>3 DEF Entries
<1>5. new \in [1..Len(first) -> Entries]
  BY <1>4
<1>6. new \in Seq(Entries) /\ Len(new) = Len(first) /\ DOMAIN new = 1..Len(first)
  BY <1>3, <1>5
<1>7. first # <<>> => Len(first) # 0
  BY <1>1
<1>8. first # <<>> => new # <<>>
  <2>1. Len(<<>>) = 0
    OBVIOUS
  <2> QED BY <1>6, <1>7, <2>1, Zenon
<1>9. \A i \in DOMAIN new : new[i].address \in Profiles /\ new[i].row = row[new[i].address]
  BY <1>3, <1>6
<1> HIDE DEF new
<1>10. Others(r) /\ todo'[r] = new /\ seen'[r] = seen[r]
       /\ pc'[r] = IF first = <<>> THEN "flush" ELSE "code"
  BY <1>0, <1>2 DEF Others
<1>11. Framed(r)'
  <2>1. seen[r] = Unread
    BY <1>2 DEF Typed, FrameOK, Framed, Read, Flying
  <2> QED BY <1>8, <1>10, <2>1 DEF Framed, Read, Flying
<1>12. FrameOK'
  BY <1>10, <1>11, FrameStep DEF Typed
<1>13. TypesOK'
  BY <1>0, <1>2, <1>6 DEF Typed, TypesOK, OutboxTypeOK, outboxVars, tables, env, PCs
<1> QED BY <1>2, <1>9, <1>10, <1>12, <1>13 DEF Typed, Flying

(* The row is replaced by the reading, and the refresher goes on to the     *)
(* event or to the next profile.                                            *)
LEMMA UpsertStep ==
  ASSUME Typed, NEW r \in Clients, Upsert(r)
  PROVE  /\ Typed' /\ Others(r) /\ UNCHANGED <<outboxVars, cut>> /\ pc[r] = "upsert"
         /\ row' = [row EXCEPT ![Subject(r)] = seen[r]]
         /\ \/ Changed(r) = {} /\ todo'[r] = Tail(todo[r]) /\ pc'[r] \notin Flying
            \/ Changed(r) # {} /\ UNCHANGED <<todo, seen>> /\ pc'[r] \in {"identity", "event"}
<1> DEFINE p == Subject(r)
<1>0. /\ pc \in [Clients -> PCs] /\ todo \in [Clients -> Seq(Entries)]
      /\ row \in [Profiles -> [Fields -> Nat]] /\ \A q \in Profiles : row[q] \in Readings(q)
      /\ seen \in [Clients -> [Fields -> Nat]]
  BY DEF Typed, TypesOK
<1>1. p \in Profiles /\ seen[r] \in Readings(p) /\ todo[r] # <<>>
  BY AtHead DEF Upsert, Typed, FrameOK, Framed, Read
<1>2. row' = [row EXCEPT ![p] = seen[r]] /\ pc[r] = "upsert"
      /\ UNCHANGED <<outboxVars, graph, env, cut, faults, crashes>>
  BY DEF Upsert
<1>3. /\ row' \in [Profiles -> [Fields -> Nat]] /\ \A q \in Profiles : row'[q] \in Readings(q)
      /\ order' \in [1..N -> Profiles] /\ \A q \in Profiles : \E i \in 1..N : order'[i] = q
      /\ due' \in 0..N
  BY <1>0, <1>1, <1>2, UpsertOrder
<1> DEFINE Goal == /\ pc' \in [Clients -> PCs] /\ todo' \in [Clients -> Seq(Entries)]
                   /\ seen' \in [Clients -> [Fields -> Nat]] /\ Others(r) /\ FrameOK'
                   /\ \/ Changed(r) = {} /\ todo'[r] = Tail(todo[r]) /\ pc'[r] \notin Flying
                      \/ Changed(r) # {} /\ UNCHANGED <<todo, seen>>
                         /\ pc'[r] \in {"identity", "event"}
<1>4. ASSUME Changed(r) = {} PROVE Goal
  <2>1. Onward(r)
    BY <1>4 DEF Upsert
  <2> QED BY <1>2, <1>4, <2>1, OnwardTypes DEF Read, Flying
<1>5. ASSUME Changed(r) # {} PROVE Goal
  <2>1. PICK s \in {"identity", "event"} : pc' = [pc EXCEPT ![r] = s] /\ UNCHANGED <<todo, seen>>
    BY <1>5 DEF Upsert, Goto
  <2>2. Others(r) /\ pc'[r] = s /\ Subject(r)' = p /\ Changed(r)' = Changed(r)
    BY <1>0, <2>1 DEF Others, Subject, Changed
  <2>3. Framed(r)'
    BY <1>1, <1>5, <2>1, <2>2 DEF Framed, Read, Flying
  <2>4. FrameOK'
    BY <2>2, <2>3, FrameStep DEF Typed
  <2> QED BY <1>0, <1>5, <2>1, <2>2, <2>4 DEF PCs
<1>6. Goal
  BY <1>4, <1>5
<1>7. TypesOK'
  BY <1>2, <1>3, <1>6 DEF Typed, TypesOK, OutboxTypeOK, outboxVars, env
<1> QED BY <1>2, <1>6, <1>7 DEF Typed

(* The identity of a deployed contract is registered again. *)
LEMMA IdentityStep ==
  ASSUME Typed, NEW r \in Clients, RegisterIdentity(r)
  PROVE  /\ Typed' /\ Others(r) /\ UNCHANGED <<outboxVars, row, cut, todo, seen>>
         /\ pc[r] = "identity" /\ pc'[r] = "event"
<1>0. pc \in [Clients -> PCs]
  BY DEF Typed, TypesOK
<1>1. /\ pc[r] = "identity" /\ pc' = [pc EXCEPT ![r] = "event"]
      /\ graph' = graph \cup {Subject(r)}
      /\ UNCHANGED <<outboxVars, row, order, due, env, todo, seen, cut, faults, crashes>>
  BY DEF RegisterIdentity, Goto
<1>2. Subject(r) \in Profiles
  BY <1>1, AtHead DEF Read, Flying
<1>3. Others(r) /\ pc'[r] = "event" /\ Subject(r)' = Subject(r) /\ Changed(r)' = Changed(r)
  BY <1>0, <1>1 DEF Others, Subject, Changed
<1>4. Framed(r)'
  BY <1>1, <1>3 DEF Typed, FrameOK, Framed, Read, Flying
<1>5. FrameOK'
  BY <1>3, <1>4, FrameStep DEF Typed
<1>6. TypesOK'
  BY <1>0, <1>1, <1>2 DEF Typed, TypesOK, OutboxTypeOK, outboxVars, env, PCs
<1> QED BY <1>1, <1>3, <1>5, <1>6 DEF Typed

(* The event is recorded, or is known already. *)
LEMMA EventStep ==
  ASSUME Typed, NEW r \in Clients, RecordEvent(r)
  PROVE  /\ Typed' /\ Others(r) /\ UNCHANGED <<row, cut, incidents>>
         /\ pc[r] = "event" /\ Event(r) \in Events
         /\ \/ /\ Recorded' = Recorded \cup {Event(r)} /\ UNCHANGED <<todo, seen>>
               /\ \A e \in Events \ {Event(r)} : score'[e] = score[e]
               /\ pc'[r] = "incident"
            \/ /\ Event(r) \in Recorded /\ Recorded' = Recorded /\ score' = score
               /\ todo'[r] = Tail(todo[r]) /\ pc'[r] \notin Flying
<1> DEFINE s == DriftScore(Subject(r), Changed(r))
<1>0. pc \in [Clients -> PCs] /\ OutboxTypeOK
  BY DEF Typed, TypesOK
<1>1. pc[r] = "event" /\ UNCHANGED <<tables, env, cut, faults, crashes>>
  BY DEF RecordEvent
<1>2. Event(r) \in Events /\ s \in Nat
  BY <1>1, EventType DEF Flying
<1>3. ASSUME AddEvent(Event(r), s), Goto(r, "incident"),
             UNCHANGED <<incidents, alerted, delivered, batch, todo, seen>>
      PROVE  /\ Recorded' = Recorded \cup {Event(r)} /\ UNCHANGED <<incidents, todo, seen>>
             /\ \A e \in Events \ {Event(r)} : score'[e] = score[e]
             /\ Others(r) /\ pc'[r] = "incident" /\ Typed'
  <2>1. /\ Recorded' = Recorded \cup {Event(r)}
        /\ \A e \in Events \ {Event(r)} : score'[e] = score[e]
    BY <1>0, <1>2, <1>3, NewRow
  <2>2. OutboxTypeOK'
    BY <1>0, <1>2, <1>3, AddTypes
  <2>3. /\ pc' \in [Clients -> PCs] /\ pc'[r] = "incident" /\ Others(r)
        /\ Subject(r)' = Subject(r) /\ Changed(r)' = Changed(r)
    BY <1>0, <1>3 DEF Goto, PCs, Others, Subject, Changed
  <2>4. Framed(r)'
    BY <1>1, <1>3, <2>3 DEF Typed, FrameOK, Framed, Read, Flying
  <2>5. FrameOK'
    BY <2>3, <2>4, FrameStep DEF Typed
  <2>6. TypesOK'
    BY <1>1, <1>3, <2>2, <2>3 DEF Typed, TypesOK, tables, env
  <2> QED BY <1>3, <2>1, <2>3, <2>5, <2>6 DEF Typed
<1>4. ASSUME rowid[Event(r)] > 0, Onward(r), UNCHANGED outboxVars
      PROVE  /\ Event(r) \in Recorded /\ Recorded' = Recorded /\ UNCHANGED <<score, incidents>>
             /\ todo'[r] = Tail(todo[r]) /\ pc'[r] \notin Flying /\ Others(r) /\ Typed'
  <2>1. /\ Event(r) \in Recorded /\ Recorded' = Recorded /\ UNCHANGED <<score, incidents>>
        /\ OutboxTypeOK'
    BY <1>0, <1>2, <1>4 DEF Recorded, outboxVars, OutboxTypeOK
  <2>2. /\ pc' \in [Clients -> PCs] /\ todo' \in [Clients -> Seq(Entries)]
        /\ seen' \in [Clients -> [Fields -> Nat]]
        /\ todo'[r] = Tail(todo[r]) /\ pc'[r] \notin Flying /\ Others(r) /\ FrameOK'
    BY <1>1, <1>4, OnwardTypes DEF Read, Flying
  <2>3. TypesOK'
    BY <1>1, <2>1, <2>2 DEF Typed, TypesOK, tables, env
  <2> QED BY <2>1, <2>2, <2>3 DEF Typed
<1>5. row' = row /\ cut' = cut
  BY <1>1 DEF tables
<1> QED BY <1>1, <1>2, <1>3, <1>4, <1>5 DEF RecordEvent

(* The event is promoted when its score asks for it. *)
LEMMA IncidentStep ==
  ASSUME Typed, NEW r \in Clients, RecordIncident(r)
  PROVE  /\ Typed' /\ Others(r) /\ UNCHANGED <<rowid, score, row, cut>>
         /\ pc[r] = "incident" /\ pc'[r] \notin Flying /\ todo'[r] = Tail(todo[r])
         /\ incidents \subseteq incidents'
         /\ score[Event(r)] >= IncidentMin => Event(r) \in incidents'
<1>1. /\ pc[r] = "incident" /\ OpenIncident(Event(r)) /\ Onward(r)
      /\ UNCHANGED <<rowid, score, alerted, delivered, batch, tables, env, cut, faults, crashes>>
  BY DEF RecordIncident
<1>2. Event(r) \in Events
  BY <1>1, EventType DEF Flying
<1>3. /\ pc' \in [Clients -> PCs] /\ todo' \in [Clients -> Seq(Entries)]
      /\ seen' \in [Clients -> [Fields -> Nat]]
      /\ todo'[r] = Tail(todo[r]) /\ pc'[r] \notin Flying /\ Others(r) /\ FrameOK'
  BY <1>1, OnwardTypes DEF Read, Flying
<1>4. /\ incidents \subseteq incidents'
      /\ score[Event(r)] >= IncidentMin => Event(r) \in incidents'
      /\ incidents' \subseteq incidents \cup {Event(r)}
  BY <1>1 DEF OpenIncident
<1>5. TypesOK'
  BY <1>1, <1>2, <1>3, <1>4 DEF Typed, TypesOK, OutboxTypeOK, tables, env
<1> QED BY <1>1, <1>3, <1>4, <1>5 DEF Typed, tables

(* The outbox is flushed. *)
LEMMA IdleStep ==
  ASSUME Typed, NEW r \in Clients, Flush(r)
  PROVE  /\ Typed' /\ Others(r) /\ UNCHANGED <<rowid, score, incidents, row, cut>>
         /\ pc[r] \notin Flying /\ pc'[r] \notin Flying
         /\ todo'[r] \in {todo[r], <<>>}
<1>0. /\ pc \in [Clients -> PCs] /\ OutboxTypeOK /\ faults \in 0..MaxFaults
      /\ todo \in [Clients -> Seq(Entries)] /\ batch \in [Clients -> SUBSET Events]
  BY DEF Typed, TypesOK, OutboxTypeOK
<1> DEFINE Goal == /\ OutboxTypeOK' /\ UNCHANGED <<rowid, score, incidents>>
                   /\ pc[r] \notin Read /\ pc' \in [Clients -> PCs]
                   /\ pc'[r] \notin {"code"} \cup Read
                   /\ \A q \in Clients \ {r} : pc'[q] = pc[q]
                   /\ faults' \in 0..MaxFaults
<1>1. ASSUME Flush(r) PROVE Goal /\ UNCHANGED <<tables, env, todo, seen, cut, crashes>>
  <2>1. UNCHANGED <<tables, env, todo, seen, cut, crashes>>
    BY <1>1 DEF Flush
  <2>2. CASE pc[r] = "flush" /\ LoadOutbox(r) /\ Goto(r, "send") /\ UNCHANGED faults
    <3>1. OutboxTypeOK' /\ UNCHANGED <<rowid, score, incidents>>
      BY <1>0, <2>2, FlushTypes DEF FlushStep
    <3> QED BY <1>0, <2>1, <2>2, <3>1 DEF Goto, Read, Flying, PCs
  <2>3. CASE pc[r] = "send" /\ batch[r] = {} /\ Goto(r, "idle") /\ UNCHANGED <<outboxVars, faults>>
    BY <1>0, <2>1, <2>3 DEF Goto, Read, Flying, PCs, outboxVars, OutboxTypeOK
  <2>4. ASSUME NEW e \in batch[r],
               \/ pc[r] = "send" /\ SkipAlert(r, e) /\ UNCHANGED <<pc, faults>>
               \/ pc[r] = "send" /\ SendAlert(r, e) /\ Goto(r, "mark") /\ UNCHANGED faults
               \/ pc[r] = "send" /\ Fails /\ SendFails(r, e) /\ UNCHANGED pc
               \/ pc[r] = "mark" /\ MarkAlerted(r, e) /\ Goto(r, "send") /\ UNCHANGED faults
        PROVE  Goal
    <3>1. e \in Events
      BY <1>0
    <3>2. FlushStep(r)
      BY <2>4, <3>1 DEF FlushStep
    <3>3. OutboxTypeOK' /\ UNCHANGED <<rowid, score, incidents>>
      BY <1>0, <3>2, FlushTypes
    <3>4. faults' \in 0..MaxFaults
      BY <1>0, <2>4, ProfileAssumption DEF Fails
    <3> QED BY <1>0, <2>4, <3>3, <3>4 DEF Goto, Read, Flying, PCs
  <2> QED BY <1>1, <2>1, <2>2, <2>3, <2>4 DEF Flush
<1>3. Goal /\ UNCHANGED <<tables, env, seen, cut, crashes>>
  BY <1>1
<1>4. /\ todo' \in [Clients -> Seq(Entries)] /\ todo'[r] \in {todo[r], <<>>}
      /\ \A q \in Clients \ {r} : todo'[q] = todo[q]
  BY <1>0, <1>1
<1>5. Others(r)
  BY <1>3, <1>4 DEF Others
<1>6. Framed(r)'
  <2>1. seen[r] = Unread /\ seen' = seen
    BY <1>3 DEF Typed, FrameOK, Framed
  <2> QED BY <1>3, <2>1 DEF Framed, Read, Flying
<1>7. FrameOK'
  BY <1>5, <1>6, FrameStep DEF Typed
<1>8. TypesOK'
  BY <1>3, <1>4 DEF Typed, TypesOK, tables, env
<1> QED BY <1>3, <1>4, <1>5, <1>7, <1>8 DEF Typed, tables, Read

(* A command that ends with an error leaves the tables as they are. *)
LEMMA AbortStep ==
  ASSUME Typed, NEW r \in Clients, Abort(r)
  PROVE  /\ Typed' /\ Others(r) /\ UNCHANGED <<rowid, score, incidents, row, cut>>
         /\ pc[r] \notin Flying /\ pc'[r] \notin Flying
         /\ todo'[r] \in {todo[r], <<>>}
<1>0. /\ pc \in [Clients -> PCs] /\ todo \in [Clients -> Seq(Entries)]
      /\ seen \in [Clients -> [Fields -> Nat]] /\ faults \in 0..MaxFaults
  BY DEF Typed, TypesOK
<1>1. /\ pc' = [pc EXCEPT ![r] = "idle"] /\ todo' = [todo EXCEPT ![r] = <<>>]
      /\ seen' = [seen EXCEPT ![r] = Unread] /\ pc[r] \notin Flying
      /\ faults < MaxFaults /\ faults' = faults + 1
      /\ UNCHANGED <<outboxVars, tables, env, cut, crashes>>
  BY DEF Abort, Fails, Goto, Flying
<1>2. <<>> \in Seq(Entries) /\ Unread \in [Fields -> Nat]
  BY DEF Unread
<1>3. Others(r) /\ pc'[r] = "idle" /\ seen'[r] = Unread /\ todo'[r] = <<>>
  BY <1>0, <1>1 DEF Others
<1>4. Framed(r)'
  BY <1>3 DEF Framed, Read, Flying
<1>5. FrameOK'
  BY <1>3, <1>4, FrameStep DEF Typed
<1>6. /\ pc' \in [Clients -> PCs] /\ todo' \in [Clients -> Seq(Entries)]
      /\ seen' \in [Clients -> [Fields -> Nat]] /\ faults' \in 0..MaxFaults
  BY <1>0, <1>1, <1>2, ProfileAssumption DEF PCs
<1>7. TypesOK'
  BY <1>1, <1>6 DEF Typed, TypesOK, OutboxTypeOK, outboxVars, tables, env
<1> QED BY <1>1, <1>3, <1>5, <1>7 DEF Typed, outboxVars, tables, Flying

(* A killed refresher leaves the tables as they are. *)
LEMMA CrashStep ==
  ASSUME Typed, NEW r \in Clients, Crash(r)
  PROVE  /\ Typed' /\ Others(r) /\ UNCHANGED <<rowid, score, incidents, row>>
         /\ cut \subseteq cut' /\ (pc[r] \in Flying => Subject(r) \in cut')
         /\ pc'[r] \notin Flying /\ todo'[r] = <<>>
<1>0. /\ pc \in [Clients -> PCs] /\ todo \in [Clients -> Seq(Entries)]
      /\ seen \in [Clients -> [Fields -> Nat]] /\ crashes \in 0..MaxCrashes
      /\ batch \in [Clients -> SUBSET Events]
  BY DEF Typed, TypesOK, OutboxTypeOK
<1>1. /\ pc' = [pc EXCEPT ![r] = "idle"] /\ todo' = [todo EXCEPT ![r] = <<>>]
      /\ seen' = [seen EXCEPT ![r] = Unread] /\ batch' = [batch EXCEPT ![r] = {}]
      /\ cut' = IF pc[r] \in Flying THEN cut \cup {Subject(r)} ELSE cut
      /\ crashes < MaxCrashes /\ crashes' = crashes + 1
      /\ UNCHANGED <<rowid, score, incidents, alerted, delivered, tables, env, faults>>
  BY DEF Crash, Goto, Flying
<1>2. pc[r] \in Flying => Subject(r) \in Profiles
  BY AtHead DEF Read
<1>3. <<>> \in Seq(Entries) /\ Unread \in [Fields -> Nat]
  BY DEF Unread
<1>4. Others(r) /\ pc'[r] = "idle" /\ seen'[r] = Unread /\ todo'[r] = <<>>
  BY <1>0, <1>1 DEF Others
<1>5. Framed(r)'
  BY <1>4 DEF Framed, Read, Flying
<1>6. FrameOK'
  BY <1>4, <1>5, FrameStep DEF Typed
<1>7. pc' \in [Clients -> PCs] /\ todo' \in [Clients -> Seq(Entries)]
      /\ seen' \in [Clients -> [Fields -> Nat]] /\ batch' \in [Clients -> SUBSET Events]
  BY <1>0, <1>1, <1>3 DEF PCs
<1>8. crashes' \in 0..MaxCrashes /\ cut' \subseteq Profiles
  BY <1>0, <1>1, <1>2, ProfileAssumption DEF Typed, TypesOK
<1>9. TypesOK'
  BY <1>1, <1>7, <1>8 DEF Typed, TypesOK, OutboxTypeOK, tables, env
<1> QED BY <1>1, <1>4, <1>6, <1>9 DEF Typed, tables, Flying

(* The chain moves, and profiles get older. *)
LEMMA EnvStep ==
  ASSUME Typed, ChainChanges \/ Age
  PROVE  Typed' /\ UNCHANGED <<outboxVars, row, pc, todo, seen, cut>>
<1>1. UNCHANGED <<outboxVars, row, order, graph, pc, todo, seen, cut, faults, crashes>>
  BY DEF ChainChanges, Age, tables
<1>2. FrameOK'
  BY <1>1 DEF Typed, FrameOK, Framed, Subject, Changed
<1>3. CASE Age
  <2>1. due' \in 0..N /\ UNCHANGED <<chain, changes>>
    BY <1>3, ProfileCount DEF Age, env, Typed, TypesOK, N
  <2>2. TypesOK'
    BY <1>1, <2>1 DEF Typed, TypesOK, OutboxTypeOK, outboxVars
  <2> QED BY <1>1, <1>2, <2>2 DEF Typed
<1>4. CASE ChainChanges
  <2>1. PICK p \in Profiles, f \in Fields : \E v \in Values[p][f] \ {chain[p][f]} :
          chain' = [chain EXCEPT ![p][f] = v]
    BY <1>4 DEF ChainChanges
  <2>2. PICK v \in Values[p][f] : chain' = [chain EXCEPT ![p][f] = v]
    BY <2>1
  <2>3. v \in Nat /\ chain \in [Profiles -> [Fields -> Nat]]
    BY ProfileAssumption DEF Typed, TypesOK
  <2>4. [chain[p] EXCEPT ![f] = v] \in Readings(p)
    <3>1. chain[p] \in [Fields -> Nat]
          /\ \A g \in Fields : chain[p][g] \in Values[p][g] \/ (chain[p][g] = 0 /\ g # "bytecode")
      BY OnChain
    <3> QED BY <2>2, <2>3, <3>1, ReadField
  <2>5. [chain[p] EXCEPT ![f] = v] \in [Fields -> Nat]
    BY <2>4, ReadingsAre
  <2>6. chain' = [chain EXCEPT ![p] = [chain[p] EXCEPT ![f] = v]]
    BY <2>2, <2>3
  <2>7. /\ chain' \in [Profiles -> [Fields -> Nat]]
        /\ \A q \in Profiles : chain'[q] \in Readings(q)
    BY <2>3, <2>4, <2>5, <2>6 DEF Typed, TypesOK
  <2>8. changes' \in 0..MaxChanges /\ due' = due
    BY <1>4, ProfileAssumption DEF ChainChanges, tables, Typed, TypesOK
  <2>9. TypesOK'
    BY <1>1, <2>7, <2>8 DEF Typed, TypesOK, OutboxTypeOK, outboxVars
  <2> QED BY <1>1, <1>2, <2>9 DEF Typed
<1> QED BY <1>3, <1>4

(* Every step keeps the types, the readings and the completeness of the order. *)
LEMMA TypedStep == Typed /\ [Next]_vars => Typed'
<1> SUFFICES ASSUME Typed, [Next]_vars PROVE Typed'
  OBVIOUS
<1>1. ASSUME NEW r \in Clients, Step(r) \/ Abort(r) \/ Crash(r) PROVE Typed'
  BY <1>1, LoadStep, ReadStep, UpsertStep, IdentityStep, EventStep, IncidentStep, IdleStep, AbortStep,
     CrashStep DEF Step
<1>2. CASE UNCHANGED vars
  BY <1>2 DEF vars, outboxVars, tables, env, Typed, TypesOK, OutboxTypeOK, FrameOK, Framed,
     Subject, Changed
<1> QED BY <1>1, <1>2, EnvStep DEF Next

-----------------------------------------------------------------------------
(* A value of a field is accounted for when it is the first one, when an     *)
(* event shows it, or when a refresher is about to record that event.  This  *)
(* has to hold of the copies in the batches too: a refresher that finds its  *)
(* copy confirmed writes it back without an event, over whatever the others  *)
(* have stored since.                                                        *)
Copies(r) == {todo[r][i] : i \in DOMAIN todo[r]}

Shown(p, f, v) == \E e \in Recorded : e.address = p /\ f \in DOMAIN e.current /\ e.current[f] = v

Coming(r, p, f, v) == /\ pc[r] \in {"identity", "event"} /\ Subject(r) = p
                      /\ f \in Changed(r) /\ seen[r][f] = v

Fine(p, f, v) == v = Start[p][f] \/ Shown(p, f, v) \/ \E r \in Clients : Coming(r, p, f, v)

RowsFine == \A p \in Profiles \ cut, f \in Fields : Fine(p, f, row[p][f])

CopiesFine == \A r \in Clients : \A x \in Copies(r) :
                x.address \notin cut => \A f \in Fields : Fine(x.address, f, x.row[f])

Promoting(e) == \E r \in Clients : pc[r] = "incident" /\ Event(r) = e

EventsFine == \A e \in Recorded :
                e.address \notin cut /\ score[e] >= IncidentMin => e \in incidents \/ Promoting(e)

DriftInv == RowsFine /\ CopiesFine /\ EventsFine

(* What the others have in hand, they keep. *)
LEMMA ComingKept ==
  ASSUME NEW r \in Clients, Others(r), NEW q \in Clients, q # r, NEW p, NEW f, NEW v
  PROVE  Coming(q, p, f, v) <=> Coming(q, p, f, v)'
BY DEF Coming, Others, Subject, Changed

(* A step of r keeps a value accounted for, unless it drops the event. *)
LEMMA FineKept ==
  ASSUME NEW r \in Clients, Others(r), Recorded \subseteq Recorded', NEW p, NEW f, NEW v,
         Fine(p, f, v), Coming(r, p, f, v) => Fine(p, f, v)'
  PROVE  Fine(p, f, v)'
<1>1. CASE v = Start[p][f]
  BY <1>1 DEF Fine
<1>2. CASE Shown(p, f, v)
  BY <1>2 DEF Fine, Shown
<1>3. ASSUME NEW q \in Clients, Coming(q, p, f, v) PROVE Fine(p, f, v)'
  <2>1. CASE q = r
    BY <1>3, <2>1
  <2>2. CASE q # r
    BY <1>3, <2>2, ComingKept DEF Fine
  <2> QED BY <2>1, <2>2
<1> QED BY <1>1, <1>2, <1>3 DEF Fine

(* A new event is on its way to an incident for as long as r is. *)
LEMMA PromotingKept ==
  ASSUME NEW r \in Clients, Others(r), NEW e, Promoting(e), pc[r] # "incident" \/ Event(r) # e
  PROVE  Promoting(e)'
<1>1. PICK q \in Clients : pc[q] = "incident" /\ Event(q) = e
  BY DEF Promoting
<1>2. q # r
  BY <1>1
<1>3. pc'[q] = pc[q] /\ Event(q)' = Event(q)
  BY <1>2 DEF Others, Event, Subject, Changed
<1> QED BY <1>1, <1>3 DEF Promoting

(* The copies left in a batch. *)
LEMMA CopiesLeft ==
  ASSUME Typed, NEW r \in Clients, todo[r] # <<>>
  PROVE  /\ Head(todo[r]) \in Copies(r)
         /\ todo'[r] = Tail(todo[r]) => Copies(r)' \subseteq Copies(r)
<1>1. todo[r] \in Seq(Entries)
  BY DEF Typed, TypesOK
<1>2. /\ 1 \in DOMAIN todo[r] /\ Head(todo[r]) = todo[r][1]
      /\ \A i \in DOMAIN Tail(todo[r]) : /\ i + 1 \in DOMAIN todo[r]
                                         /\ Tail(todo[r])[i] = todo[r][i + 1]
  BY <1>1, HeadTail
<1>3. Head(todo[r]) \in Copies(r)
  BY <1>2 DEF Copies
<1>4. ASSUME todo'[r] = Tail(todo[r]), NEW x \in Copies(r)' PROVE x \in Copies(r)
  <2>1. PICK i \in DOMAIN Tail(todo[r]) : x = Tail(todo[r])[i]
    BY <1>4 DEF Copies
  <2> QED BY <1>2, <2>1 DEF Copies
<1> QED BY <1>3, <1>4

(* The values in a batch stay accounted for when no new copies are taken. *)
LEMMA CopiesKept ==
  ASSUME DriftInv, NEW r \in Clients, Others(r), Copies(r)' \subseteq Copies(r), cut \subseteq cut',
         \A p, f, v : p \notin cut' /\ Fine(p, f, v) => Fine(p, f, v)'
  PROVE  CopiesFine'
<1> SUFFICES ASSUME NEW q \in Clients, NEW x \in Copies(q)', x.address \notin cut',
                    NEW f \in Fields
             PROVE  Fine(x.address, f, x.row[f])'
  BY DEF CopiesFine
<1>1. x \in Copies(q)
  BY DEF Others, Copies
<1>2. Fine(x.address, f, x.row[f])
  BY <1>1 DEF DriftInv, CopiesFine
<1> QED BY <1>2

(* A step of a refresher that is not between its upsert and its event, and   *)
(* that writes no row of a table, except that a killed one may cut a profile.*)
LEMMA QuietStep ==
  ASSUME Typed, DriftInv, NEW r \in Clients, Others(r), cut \subseteq cut',
         UNCHANGED <<rowid, score, incidents, row>>,
         pc[r] \in Flying => Subject(r) \in cut', pc'[r] \notin Flying,
         \A x \in Copies(r)' : \/ x \in Copies(r)
                               \/ x.address \in Profiles /\ x.row = row[x.address]
  PROVE  DriftInv'
<1>1. Recorded' = Recorded
  BY DEF Recorded
<1>2. ASSUME NEW p, NEW f, NEW v, p \notin cut', Fine(p, f, v) PROVE Fine(p, f, v)'
  <2>1. ~Coming(r, p, f, v)
    BY <1>2 DEF Coming, Flying
  <2> QED BY <1>1, <1>2, <2>1, FineKept
<1>3. RowsFine'
  BY <1>2 DEF DriftInv, RowsFine
<1>4. CopiesFine'
  <2> SUFFICES ASSUME NEW q \in Clients, NEW x \in Copies(q)', x.address \notin cut',
                      NEW f \in Fields
               PROVE  Fine(x.address, f, x.row[f])'
    BY DEF CopiesFine
  <2>1. x \in Copies(q) \/ (x.address \in Profiles /\ x.row = row[x.address])
    BY DEF Others, Copies
  <2>2. Fine(x.address, f, x.row[f])
    BY <2>1 DEF DriftInv, CopiesFine, RowsFine
  <2> QED BY <1>2, <2>2
<1>5. EventsFine'
  <2> SUFFICES ASSUME NEW e \in Recorded, e.address \notin cut', score[e] >= IncidentMin,
                      e \notin incidents
               PROVE  Promoting(e)'
    BY <1>1 DEF EventsFine
  <2>1. Promoting(e)
    BY DEF DriftInv, EventsFine
  <2>2. pc[r] # "incident" \/ Event(r) # e
    BY EventType DEF Flying
  <2> QED BY <2>1, <2>2, PromotingKept
<1> QED BY <1>3, <1>4, <1>5 DEF DriftInv

(* Every step keeps the stored values and their copies accounted for. *)
LEMMA DriftStep == Typed /\ DriftInv /\ [Next]_vars => DriftInv'
<1> SUFFICES ASSUME Typed, DriftInv, [Next]_vars PROVE DriftInv'
  OBVIOUS
<1>1. ASSUME NEW r \in Clients, LoadDue(r) PROVE DriftInv'
  <2>1. /\ Others(r) /\ UNCHANGED <<rowid, score, incidents, row, cut>>
        /\ pc[r] \notin Flying /\ pc'[r] \notin Flying
        /\ \A i \in DOMAIN todo'[r] : /\ todo'[r][i].address \in Profiles
                                      /\ todo'[r][i].row = row[todo'[r][i].address]
    BY <1>1, LoadStep DEF outboxVars, tables
  <2>2. \A x \in Copies(r)' : x.address \in Profiles /\ x.row = row[x.address]
    BY <2>1 DEF Copies
  <2> QED BY <2>1, <2>2, QuietStep
<1>2. ASSUME NEW r \in Clients, ReadCode(r) \/ ReadSlots(r) \/ ReadExplorers(r) PROVE DriftInv'
  <2>1. /\ Others(r) /\ UNCHANGED <<rowid, score, incidents, row, cut, todo>>
        /\ pc'[r] \notin Flying
    BY <1>2, ReadStep DEF outboxVars, tables, Flying
  <2>2. pc[r] \notin Flying
    BY <1>2 DEF ReadCode, ReadSlots, ReadExplorers, Flying
  <2>3. Copies(r)' = Copies(r)
    BY <2>1 DEF Copies
  <2> QED BY <2>1, <2>2, <2>3, QuietStep
<1>3. ASSUME NEW r \in Clients, Upsert(r) PROVE DriftInv'
  <2> DEFINE p == Subject(r)
             old == Head(todo[r]).row
  <2>1. /\ Others(r) /\ UNCHANGED <<rowid, score, incidents, cut>> /\ pc[r] = "upsert"
        /\ row' = [row EXCEPT ![p] = seen[r]]
        /\ \/ Changed(r) = {} /\ todo'[r] = Tail(todo[r]) /\ pc'[r] \notin Flying
           \/ Changed(r) # {} /\ UNCHANGED <<todo, seen>> /\ pc'[r] \in {"identity", "event"}
    BY <1>3, UpsertStep DEF outboxVars
  <2>2. p \in Profiles /\ todo[r] # <<>> /\ row \in [Profiles -> [Fields -> Nat]]
    BY <2>1, AtHead DEF Typed, TypesOK, FrameOK, Framed, Read
  <2>3. Recorded' = Recorded
    BY <2>1 DEF Recorded
  <2>4. ASSUME NEW q, NEW f, NEW v, Fine(q, f, v) PROVE Fine(q, f, v)'
    <3>1. ~Coming(r, q, f, v)
      BY <2>1 DEF Coming
    <3> QED BY <2>1, <2>3, <2>4, <3>1, FineKept
  <2>5. ASSUME NEW a, a = p, a \notin cut, NEW f \in Fields, NEW v, v = seen[r][f]
        PROVE  Fine(a, f, v)'
    <3>1. Head(todo[r]) \in Copies(r)
      BY <2>2, CopiesLeft
    <3>2. Fine(a, f, old[f])
      BY <2>5, <3>1 DEF DriftInv, CopiesFine, Subject
    <3>3. CASE f \notin Changed(r)
      <4>1. v = old[f]
        BY <2>5, <3>3 DEF Changed
      <4>2. Fine(a, f, v)
        BY <3>2, <4>1
      <4> QED BY <2>4, <4>2
    <3>4. CASE f \in Changed(r)
      <4>1. UNCHANGED <<todo, seen>> /\ pc'[r] \in {"identity", "event"}
        BY <2>1, <3>4
      <4>2. Coming(r, a, f, v)'
        BY <2>5, <3>4, <4>1 DEF Coming, Subject, Changed
      <4> QED BY <4>2 DEF Fine
    <3> QED BY <3>3, <3>4
  <2>6. RowsFine'
    <3> SUFFICES ASSUME NEW q \in Profiles \ cut, NEW f \in Fields, NEW v, v = row'[q][f]
                 PROVE  Fine(q, f, v)'
      BY <2>1 DEF RowsFine
    <3>1. CASE q = p
      <4>1. v = seen[r][f]
        BY <2>1, <2>2, <3>1
      <4> QED BY <2>5, <3>1, <4>1
    <3>2. CASE q # p
      <4>1. Fine(q, f, v)
        BY <2>1, <2>2, <3>2 DEF DriftInv, RowsFine
      <4> QED BY <2>4, <4>1
    <3> QED BY <3>1, <3>2
  <2>7. CopiesFine'
    <3>1. Copies(r)' \subseteq Copies(r)
      BY <2>1, <2>2, CopiesLeft DEF Copies
    <3> QED BY <2>1, <2>4, <3>1, CopiesKept
  <2>8. EventsFine'
    <3> SUFFICES ASSUME NEW e \in Recorded, e.address \notin cut, score[e] >= IncidentMin,
                        e \notin incidents
                 PROVE  Promoting(e)'
      BY <2>1, <2>3 DEF EventsFine
    <3>1. Promoting(e)
      BY DEF DriftInv, EventsFine
    <3> QED BY <2>1, <3>1, PromotingKept
  <2> QED BY <2>6, <2>7, <2>8 DEF DriftInv
<1>4. ASSUME NEW r \in Clients, RegisterIdentity(r) PROVE DriftInv'
  <2>1. /\ Others(r) /\ UNCHANGED <<rowid, score, incidents, row, cut, todo, seen>>
        /\ pc[r] = "identity" /\ pc'[r] = "event"
    BY <1>4, IdentityStep DEF outboxVars
  <2>2. Recorded' = Recorded
    BY <2>1 DEF Recorded
  <2>3. ASSUME NEW q, NEW f, NEW v, Fine(q, f, v) PROVE Fine(q, f, v)'
    <3>1. Coming(r, q, f, v) => Coming(r, q, f, v)'
      BY <2>1 DEF Coming, Subject, Changed
    <3>2. Coming(r, q, f, v) => Fine(q, f, v)'
      BY <3>1 DEF Fine
    <3> QED BY <2>1, <2>2, <2>3, <3>2, FineKept
  <2>4. RowsFine'
    BY <2>1, <2>3 DEF DriftInv, RowsFine
  <2>5. CopiesFine'
    <3>1. Copies(r)' = Copies(r)
      BY <2>1 DEF Copies
    <3> QED BY <2>1, <2>3, <3>1, CopiesKept
  <2>6. EventsFine'
    <3> SUFFICES ASSUME NEW e \in Recorded, e.address \notin cut, score[e] >= IncidentMin,
                        e \notin incidents
                 PROVE  Promoting(e)'
      BY <2>1, <2>2 DEF EventsFine
    <3>1. Promoting(e)
      BY DEF DriftInv, EventsFine
    <3> QED BY <2>1, <3>1, PromotingKept
  <2> QED BY <2>4, <2>5, <2>6 DEF DriftInv
<1>5. ASSUME NEW r \in Clients, RecordEvent(r) PROVE DriftInv'
  <2> DEFINE new == /\ Recorded' = Recorded \cup {Event(r)} /\ UNCHANGED <<todo, seen>>
                    /\ \A e \in Events \ {Event(r)} : score'[e] = score[e]
                    /\ pc'[r] = "incident"
             known == /\ Event(r) \in Recorded /\ Recorded' = Recorded /\ score' = score
                      /\ todo'[r] = Tail(todo[r]) /\ pc'[r] \notin Flying
  <2>1. /\ Others(r) /\ UNCHANGED <<row, cut, incidents>>
        /\ pc[r] = "event" /\ (new \/ known)
    BY <1>5, EventStep
  <2>2. /\ Event(r).address = Subject(r) /\ Event(r).current = [f \in Changed(r) |-> seen[r][f]]
        /\ todo[r] # <<>>
    BY <2>1, EventType DEF Flying, Typed, FrameOK, Framed, Read
  <2>3. Recorded \subseteq Recorded' /\ Event(r) \in Recorded' /\ Recorded \subseteq Events
    BY <2>1 DEF Recorded
  <2>4. ASSUME NEW q, NEW f, NEW v, Fine(q, f, v) PROVE Fine(q, f, v)'
    <3>1. ASSUME Coming(r, q, f, v) PROVE Shown(q, f, v)'
      <4>1. Event(r).address = q /\ f \in DOMAIN Event(r).current /\ Event(r).current[f] = v
        BY <2>2, <3>1 DEF Coming
      <4> QED BY <2>3, <4>1 DEF Shown
    <3>2. Coming(r, q, f, v) => Fine(q, f, v)'
      BY <3>1 DEF Fine
    <3> QED BY <2>1, <2>3, <2>4, <3>2, FineKept
  <2>5. RowsFine'
    BY <2>1, <2>4 DEF DriftInv, RowsFine
  <2>6. CopiesFine'
    <3>1. Copies(r)' \subseteq Copies(r)
      BY <2>1, <2>2, CopiesLeft DEF Copies
    <3> QED BY <2>1, <2>4, <3>1, CopiesKept
  <2>7. EventsFine'
    <3> SUFFICES ASSUME NEW e \in Recorded', e.address \notin cut, score'[e] >= IncidentMin,
                        e \notin incidents
                 PROVE  Promoting(e)'
      BY <2>1 DEF EventsFine
    <3>1. CASE new /\ e = Event(r)
      <4>1. pc'[r] = "incident" /\ Event(r)' = e
        BY <3>1 DEF Event, Subject, Changed
      <4> QED BY <4>1 DEF Promoting
    <3>2. CASE e \in Recorded /\ score'[e] = score[e]
      <4>1. Promoting(e)
        BY <3>2 DEF DriftInv, EventsFine
      <4> QED BY <2>1, <4>1, PromotingKept
    <3>3. (new /\ e = Event(r)) \/ (e \in Recorded /\ score'[e] = score[e])
      BY <2>1, <2>3
    <3> QED BY <3>1, <3>2, <3>3
  <2> QED BY <2>5, <2>6, <2>7 DEF DriftInv
<1>6. ASSUME NEW r \in Clients, RecordIncident(r) PROVE DriftInv'
  <2>1. /\ Others(r) /\ UNCHANGED <<rowid, score, row, cut>>
        /\ pc[r] = "incident" /\ pc'[r] \notin Flying /\ todo'[r] = Tail(todo[r])
        /\ incidents \subseteq incidents'
        /\ score[Event(r)] >= IncidentMin => Event(r) \in incidents'
    BY <1>6, IncidentStep
  <2>2. todo[r] # <<>> /\ Recorded' = Recorded
    BY <2>1 DEF Flying, Typed, FrameOK, Framed, Read, Recorded
  <2>3. ASSUME NEW q, NEW f, NEW v, Fine(q, f, v) PROVE Fine(q, f, v)'
    <3>1. ~Coming(r, q, f, v)
      BY <2>1 DEF Coming
    <3> QED BY <2>1, <2>2, <2>3, <3>1, FineKept
  <2>4. RowsFine'
    BY <2>1, <2>3 DEF DriftInv, RowsFine
  <2>5. CopiesFine'
    <3>1. Copies(r)' \subseteq Copies(r)
      BY <2>1, <2>2, CopiesLeft
    <3> QED BY <2>1, <2>3, <3>1, CopiesKept
  <2>6. EventsFine'
    <3> SUFFICES ASSUME NEW e \in Recorded, e.address \notin cut, score[e] >= IncidentMin,
                        e \notin incidents'
                 PROVE  Promoting(e)'
      BY <2>1, <2>2 DEF EventsFine
    <3>1. Promoting(e) /\ Event(r) # e
      BY <2>1 DEF DriftInv, EventsFine
    <3> QED BY <2>1, <3>1, PromotingKept
  <2> QED BY <2>4, <2>5, <2>6 DEF DriftInv
<1>7. ASSUME NEW r \in Clients, Flush(r) \/ Abort(r) PROVE DriftInv'
  <2>1. /\ Others(r) /\ UNCHANGED <<rowid, score, incidents, row, cut>>
        /\ pc[r] \notin Flying /\ pc'[r] \notin Flying /\ todo'[r] \in {todo[r], <<>>}
    BY <1>7, IdleStep, AbortStep
  <2>2. Copies(r)' \subseteq Copies(r)
    BY <2>1 DEF Copies
  <2> QED BY <2>1, <2>2, QuietStep
<1>8. ASSUME NEW r \in Clients, Crash(r) PROVE DriftInv'
  <2>1. /\ Others(r) /\ UNCHANGED <<rowid, score, incidents, row>>
        /\ cut \subseteq cut' /\ (pc[r] \in Flying => Subject(r) \in cut')
        /\ pc'[r] \notin Flying /\ todo'[r] = <<>>
    BY <1>8, CrashStep
  <2>2. Copies(r)' = {}
    BY <2>1 DEF Copies
  <2> QED BY <2>1, <2>2, QuietStep
<1>9. CASE ChainChanges \/ Age \/ UNCHANGED vars
  <2>1. UNCHANGED <<rowid, score, incidents, row, pc, todo, seen, cut>>
    BY <1>9, EnvStep DEF vars, outboxVars, tables
  <2>2. Recorded' = Recorded
    BY <2>1 DEF Recorded
  <2>3. \A r, p, f, v : Coming(r, p, f, v)' = Coming(r, p, f, v)
    BY <2>1 DEF Coming, Subject, Changed
  <2>4. ASSUME NEW p, NEW f, NEW v, Fine(p, f, v) PROVE Fine(p, f, v)'
    BY <2>2, <2>3, <2>4 DEF Fine, Shown
  <2>5. \A r : Copies(r)' = Copies(r)
    BY <2>1 DEF Copies
  <2>6. \A e : Promoting(e) => Promoting(e)'
    BY <2>1 DEF Promoting, Event, Subject, Changed
  <2>7. RowsFine' /\ CopiesFine'
    BY <2>1, <2>4, <2>5 DEF DriftInv, RowsFine, CopiesFine
  <2>8. EventsFine'
    BY <2>1, <2>2, <2>6 DEF DriftInv, EventsFine
  <2> QED BY <2>7, <2>8 DEF DriftInv
<1> QED BY <1>1, <1>2, <1>3, <1>4, <1>5, <1>6, <1>7, <1>8, <1>9 DEF Next, Step

-----------------------------------------------------------------------------
(* Both invariants hold in every reachable state. *)
LEMMA Invariance == Spec => [](Typed /\ DriftInv)
<1>1. Init => DriftInv
  BY ProfileAssumption DEF Init, OutboxInit, DriftInv, RowsFine, CopiesFine, EventsFine, Fine,
                           Copies, Recorded
<1>2. Typed /\ DriftInv /\ [Next]_vars => (Typed /\ DriftInv)'
  BY TypedStep, DriftStep
<1> QED BY <1>1, <1>2, TypedInit, PTL DEF Spec

(* Every variable keeps its type: rows and batches hold readings of the      *)
(* profile they belong to, and the order lists every profile.                *)
THEOREM RefreshTypeCorrect == Spec => []TypeOK
<1>1. Typed => TypeOK
  BY TypedIsTypeOK
<1> QED BY <1>1, Invariance, PTL

(* No interleaving of refreshers, in whatever order they overwrite each      *)
(* other's rows, leaves a stored value that differs from the first one and   *)
(* that no event shows, unless one was killed between upsert and event.      *)
THEOREM DriftIsOnRecord == Spec => []DriftOnRecord
<1>1. Typed /\ DriftInv => DriftOnRecord
  <2> SUFFICES ASSUME Typed, DriftInv, NEW p \in Profiles \ cut, NEW f \in Fields,
                      row[p][f] # Start[p][f], ~InFlight(p)
               PROVE  \E e \in Recorded : /\ e.address = p /\ f \in DOMAIN e.current
                                          /\ e.current[f] = row[p][f]
                                          /\ score[e] >= IncidentMin => e \in incidents
    BY DEF DriftOnRecord
  <2>1. \A r \in Clients : ~Coming(r, p, f, row[p][f])
    BY DEF Coming, InFlight
  <2>2. Shown(p, f, row[p][f])
    BY <2>1 DEF DriftInv, RowsFine, Fine
  <2>3. PICK e \in Recorded : e.address = p /\ f \in DOMAIN e.current /\ e.current[f] = row[p][f]
    BY <2>2 DEF Shown
  <2>4. ASSUME score[e] >= IncidentMin PROVE e \in incidents
    <3>1. e \in incidents \/ Promoting(e)
      BY <2>3, <2>4 DEF DriftInv, EventsFine
    <3>2. ~Promoting(e)
      BY <2>3, EventType DEF Promoting, InFlight, Flying
    <3> QED BY <3>1, <3>2
  <2> QED BY <2>3, <2>4
<1> QED BY <1>1, Invariance, PTL
=============================================================================
