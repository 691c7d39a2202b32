--------------------------- MODULE ProfileRefresh ---------------------------
(***************************************************************************)
(* `white-radar refresh-profiles`: a batch of the oldest due contract      *)
(* profiles is read, each contract is enriched again, its row is replaced, *)
(* and the fields that differ from the row of the batch become a           *)
(* contract_profile_changed event.  Several processes may run the command  *)
(* on one database.                                                        *)
(*                                                                         *)
(* A reading has the fields that differ in how they fail: the bytecode (an *)
(* error ends the batch), the implementation slot (an error reads as       *)
(* "none"; admin and beacon are read the same way) and the explorers'      *)
(* verification (an error reads as "not verified").  0 is none.  The id of *)
(* an event is the address and the new values of the changed fields.       *)
(*                                                                         *)
(* last_enriched_at is modelled by its order: `order` lists the profiles,  *)
(* the one refreshed longest ago first, and the first `due` of them are    *)
(* older than the minimum age.                                             *)
(***************************************************************************)
EXTENDS AlertOutbox, Sequences

CONSTANTS Profiles,
          Start,         \* Start[p]: the first row of the profile
          Deployed,      \* profiles with a row in deployments
          Watched,       \* profiles of the protocol inventory
          Limit,         \* --limit
          Values,        \* Values[p][f]: what the field may become
          MaxChanges,    \* bound: changes of the chain
          MaxFaults,     \* bound: failed reads and deliveries
          MaxCrashes     \* bound: killed processes

Fields == {"bytecode", "implementation", "verified"}

(* A read shows a value of the field, or 0 when it failed. *)
Readings(p) == {v \in [Fields -> (UNION {Values[p][f] : f \in Fields}) \cup {0}] :
                  \A f \in Fields : v[f] \in Values[p][f] \/ (v[f] = 0 /\ f # "bytecode")}

(* stable_event_id of an address and the changed fields. *)
Drift(p, now, changed) == [address |-> p, current |-> [f \in changed |-> now[f]]]

ASSUME ProfileAssumption ==
  /\ IsFiniteSet(Profiles) /\ Profiles # {}
  /\ Values \in [Profiles -> [Fields -> SUBSET Nat]]
  /\ Start \in [Profiles -> [Fields -> Nat]]
  /\ \A p \in Profiles :
       /\ Start[p] \in Readings(p)
       /\ \A f \in Fields : Start[p][f] \in Values[p][f]
       /\ \A now, old \in Readings(p) :
            now # old => Drift(p, now, {f \in Fields : now[f] # old[f]}) \in Events
  /\ Deployed \subseteq Profiles /\ Watched \subseteq Profiles
  /\ Limit \in Nat \ {0} /\ MaxChanges \in Nat /\ MaxFaults \in Nat /\ MaxCrashes \in Nat

VARIABLES chain,       \* environment: what a read of the profile would find
          row,         \* contract_profiles
          order, due,
          graph,       \* profiles whose identity was registered again
          pc, todo,    \* refresher -> step; rows of the batch still to do
          seen,        \* refresher -> the reading so far
          cut,         \* history: profiles whose refresh was cut short
          changes, faults, crashes

tables == <<row, order, due, graph>>
env == <<chain, changes>>
vars == <<outboxVars, tables, env, pc, todo, seen, cut, faults, crashes>>

PCs == {"idle", "code", "slots", "explorers", "upsert", "identity", "event", "incident",
        "flush", "send", "mark"}

Unread == [f \in Fields |-> 0]

TypeOK == /\ OutboxTypeOK
          /\ \A p \in Profiles : chain[p] \in Readings(p) /\ row[p] \in Readings(p)
          /\ order \in [1 .. Cardinality(Profiles) -> Profiles]
          /\ \A p \in Profiles : \E i \in DOMAIN order : order[i] = p
          /\ due \in 0 .. Cardinality(Profiles)
          /\ graph \subseteq Profiles /\ cut \subseteq Profiles
          /\ pc \in [Clients -> PCs]
          /\ \A r \in Clients : \A i \in DOMAIN todo[r] :
               todo[r][i].row \in Readings(todo[r][i].address)
          /\ changes \in 0 .. MaxChanges /\ faults \in 0 .. MaxFaults
          /\ crashes \in 0 .. MaxCrashes

Init == /\ OutboxInit
        /\ chain = Start /\ row = Start
        /\ order \in {s \in [1 .. Cardinality(Profiles) -> Profiles] :
                        \A i, j \in DOMAIN s : s[i] = s[j] => i = j}
        /\ due = Cardinality(Profiles) /\ graph = {}
        /\ pc = [r \in Clients |-> "idle"] /\ todo = [r \in Clients |-> <<>>]
        /\ seen = [r \in Clients |-> Unread]
        /\ cut = {} /\ changes = 0 /\ faults = 0 /\ crashes = 0
-----------------------------------------------------------------------------
Goto(r, s) == pc' = [pc EXCEPT ![r] = s]
Subject(r) == Head(todo[r]).address
Fails == faults < MaxFaults /\ faults' = faults + 1
See(r, f, v) == seen' = [seen EXCEPT ![r][f] = v]

(* Mutant: the newest due rows first. *)
DueNewest ==
  SubSeq([i \in 1 .. due |-> order[due + 1 - i]], 1, IF due < Limit THEN due ELSE Limit)

(* profiles_due_for_refresh: the oldest due rows, at most Limit of them. *)
DueProfiles == SubSeq(order, 1, IF due < Limit THEN due ELSE Limit)

LoadDue(r) == /\ pc[r] = "idle"
              /\ todo' = [todo EXCEPT ![r] = [i \in 1 .. Len(DueProfiles) |->
                            [address |-> DueProfiles[i], row |-> row[DueProfiles[i]]]]]
              /\ Goto(r, IF DueProfiles = <<>> THEN "flush" ELSE "code")
              /\ UNCHANGED <<outboxVars, tables, env, seen, cut, faults, crashes>>

(* rpc.code answers. *)
ReadCode(r) == /\ pc[r] = "code"
               /\ See(r, "bytecode", chain[Subject(r)].bytecode)
               /\ Goto(r, "slots")
               /\ UNCHANGED <<outboxVars, tables, env, todo, cut, faults, crashes>>

(* rpc.chain_id or rpc.code raises, or an explorer's answer breaks off (an   *)
(* error other than HttpError): the command ends, and the profile, the rest  *)
(* of the batch and the outbox are left for another run.                     *)
Abort(r) == /\ pc[r] \in {"idle", "code", "explorers"}
            /\ Fails
            /\ todo' = [todo EXCEPT ![r] = <<>>]
            /\ seen' = [seen EXCEPT ![r] = Unread]
            /\ Goto(r, "idle")
            /\ UNCHANGED <<outboxVars, tables, env, cut, crashes>>

(* _proxy_metadata: any exception reads as an empty slot. *)
ReadSlots(r) == /\ pc[r] = "slots"
                /\ \/ /\ See(r, "implementation", chain[Subject(r)].implementation)
                      /\ UNCHANGED faults
                   \/ Fails /\ See(r, "implementation", 0)
                /\ Goto(r, "explorers")
                /\ UNCHANGED <<outboxVars, tables, env, todo, cut, crashes>>

(* _sourcify and _etherscan: an error reads as not verified.  Etherscan's *)
(* record may fill in an implementation that the slots did not show.      *)
ReadExplorers(r) ==
  /\ pc[r] = "explorers"
  /\ \/ /\ See(r, "verified", chain[Subject(r)].verified)
        /\ UNCHANGED faults
     \/ Fails /\ See(r, "verified", 0)
     \/ /\ seen[r].implementation = 0 /\ chain[Subject(r)].implementation # 0
        /\ seen' = [seen EXCEPT ![r].verified = chain[Subject(r)].verified,
                                ![r].implementation = chain[Subject(r)].implementation]
        /\ UNCHANGED faults
  /\ Goto(r, "upsert")
  /\ UNCHANGED <<outboxVars, tables, env, todo, cut, crashes>>

(* Mutant: a change of the verification taken for immaterial. *)
ChangedOnChain(r) == {f \in Fields \ {"verified"} : Head(todo[r]).row[f] # seen[r][f]}

(* The fields that differ from the row read with the batch. *)
Changed(r) == {f \in Fields : Head(todo[r]).row[f] # seen[r][f]}

(* The next profile of the batch, or the outbox after the last one. *)
Onward(r) == /\ todo' = [todo EXCEPT ![r] = Tail(@)]
             /\ seen' = [seen EXCEPT ![r] = Unread]
             /\ Goto(r, IF Len(todo[r]) = 1 THEN "flush" ELSE "code")

(* upsert_contract_profile with observed_at = now. *)
Upsert(r) ==
  LET p == Subject(r)
      at == CHOOSE i \in DOMAIN order : order[i] = p
  IN /\ pc[r] = "upsert"
     /\ row' = [row EXCEPT ![p] = seen[r]]
     /\ order' = [i \in DOMAIN order |-> IF i < at THEN order[i]
                                         ELSE IF i < Len(order) THEN order[i + 1] ELSE p]
     /\ due' = IF at <= due THEN due - 1 ELSE due
     /\ IF Changed(r) = {}
        THEN Onward(r)
        ELSE UNCHANGED <<todo, seen>> /\ Goto(r, IF p \in Deployed THEN "identity" ELSE "event")
     /\ UNCHANGED <<outboxVars, graph, env, cut, faults, crashes>>

(* _register_identity *)
RegisterIdentity(r) == /\ pc[r] = "identity"
                       /\ graph' = graph \cup {Subject(r)}
                       /\ Goto(r, "event")
                       /\ UNCHANGED <<outboxVars, row, order, due, env, todo, seen, cut,
                                      faults, crashes>>

(* score_profile_change *)
DriftScore(p, changed) ==
  (CASE "bytecode" \in changed -> 90
     [] "bytecode" \notin changed /\ "implementation" \in changed -> 80
     [] OTHER -> 25) + (IF p \in Watched THEN 10 ELSE 0)

Event(r) == Drift(Subject(r), seen[r], Changed(r))

(* _record_and_alert: an id that is known ends it; open_incident is a       *)
(* transaction of its own.                                                  *)
RecordEvent(r) == /\ pc[r] = "event"
                  /\ \/ /\ AddEvent(Event(r), DriftScore(Subject(r), Changed(r)))
                        /\ Goto(r, "incident")
                        /\ UNCHANGED <<incidents, alerted, delivered, batch, todo, seen>>
                     \/ rowid[Event(r)] > 0 /\ Onward(r) /\ UNCHANGED outboxVars
                  /\ UNCHANGED <<tables, env, cut, faults, crashes>>

RecordIncident(r) == /\ pc[r] = "incident"
                     /\ OpenIncident(Event(r))
                     /\ Onward(r)
                     /\ UNCHANGED <<rowid, score, alerted, delivered, batch, tables, env,
                                    cut, faults, crashes>>

(* _flush_alerts *)
Flush(r) ==
  /\ \/ pc[r] = "flush" /\ LoadOutbox(r) /\ Goto(r, "send") /\ UNCHANGED faults
     \/ /\ pc[r] = "send" /\ batch[r] = {}
        /\ Goto(r, "idle") /\ UNCHANGED <<outboxVars, faults>>
     \/ \E e \in batch[r] :
          \/ pc[r] = "send" /\ SkipAlert(r, e) /\ UNCHANGED <<pc, faults>>
          \/ pc[r] = "send" /\ SendAlert(r, e) /\ Goto(r, "mark") /\ UNCHANGED faults
          \/ pc[r] = "send" /\ Fails /\ SendFails(r, e) /\ UNCHANGED pc
          \/ pc[r] = "mark" /\ MarkAlerted(r, e) /\ Goto(r, "send") /\ UNCHANGED faults
  /\ UNCHANGED <<tables, env, todo, seen, cut, crashes>>

(* The process is killed; the next run is a new one. *)
Crash(r) == /\ pc[r] # "idle" /\ crashes < MaxCrashes
            /\ crashes' = crashes + 1
            /\ cut' = IF pc[r] \in {"identity", "event", "incident"}
                      THEN cut \cup {Subject(r)} ELSE cut
            /\ todo' = [todo EXCEPT ![r] = <<>>]
            /\ seen' = [seen EXCEPT ![r] = Unread]
            /\ batch' = [batch EXCEPT ![r] = {}]
            /\ Goto(r, "idle")
            /\ UNCHANGED <<rowid, score, incidents, alerted, delivered, tables, env, faults>>

(* Environment: a contract changes; a profile gets older than the minimum age. *)
ChainChanges == /\ changes < MaxChanges /\ changes' = changes + 1
                /\ \E p \in Profiles, f \in Fields : \E v \in Values[p][f] \ {chain[p][f]} :
                     chain' = [chain EXCEPT ![p][f] = v]
                /\ UNCHANGED <<outboxVars, tables, pc, todo, seen, cut, faults, crashes>>

Age == /\ due < Cardinality(Profiles)
       /\ due' = due + 1
       /\ UNCHANGED <<outboxVars, row, order, graph, env, pc, todo, seen, cut, faults, crashes>>

Step(r) == \/ LoadDue(r) \/ ReadCode(r) \/ ReadSlots(r) \/ ReadExplorers(r) \/ Upsert(r)
           \/ RegisterIdentity(r) \/ RecordEvent(r) \/ RecordIncident(r) \/ Flush(r)

Next == ChainChanges \/ Age \/ \E r \in Clients : Step(r) \/ Abort(r) \/ Crash(r)

Spec == Init /\ [][Next]_vars

(* The timer that starts the command, and time. *)
FairSpec == Spec /\ WF_vars(Age) /\ \A r \in Clients : WF_vars(Step(r))
-----------------------------------------------------------------------------
InFlight(p) == \E r \in Clients : pc[r] \in {"identity", "event", "incident"} /\ Subject(r) = p

(* "Material changes produce a contract_profile_changed event": a stored      *)
(* value that is not the profile's first one is the current value of a        *)
(* recorded event, which has its incident when its score asks for one, unless *)
(* a process was killed between the upsert and the event.  The comparison is  *)
(* with the row read at the start of the batch, so two refreshers that        *)
(* overwrite each other's rows, in any order, must not lose a change.         *)
DriftOnRecord ==
  \A p \in Profiles \ cut, f \in Fields :
    \/ row[p][f] = Start[p][f]
    \/ InFlight(p)
    \/ \E e \in Recorded : /\ e.address = p /\ f \in DOMAIN e.current
                           /\ e.current[f] = row[p][f]
                           /\ score[e] >= IncidentMin => e \in incidents

(* "The oldest eligible profiles are checked first": however small the limit, *)
(* every profile is refreshed again and again.                                *)
NoProfileStarved == \A p \in Profiles : []<>(order[Len(order)] = p)
=============================================================================
