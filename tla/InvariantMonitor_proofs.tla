----------------------- MODULE InvariantMonitor_proofs -----------------------
(***************************************************************************)
(* Theorems about InvariantMonitor and their proofs.                       *)
(*                                                                         *)
(* The properties of the alarms are not inductive: a checker compares its  *)
(* check with a row that it read before other checkers replaced the row,   *)
(* and whether the violation in that row is reported depends on the        *)
(* checker that wrote it.  The strengthening says so of every row, in the  *)
(* table or in a checker's hands: a violation is reported, or a checker    *)
(* that stands before add_event is about to report it.                     *)
(***************************************************************************)
EXTENDS InvariantMonitor, TLAPS

Recording == {"upsert", "event", "incident"}

(* What a checker holds at each stage: the invariant it records, the checks  *)
(* of its block, and after the upsert a material change.                     *)
Holds(c) ==
  /\ pc[c] \in Recording => current[c] \in Invariants
  /\ pc[c] \notin Recording => current[c] = Null
  /\ pc[c] # "idle" => \A i \in Invariants :
       /\ result[c][i].block = block[c]
       /\ result[c][i].status = "violated" =>
            /\ result[c][i].value = truth[i][block[c]]
            /\ result[c][i].value \in Values \ Good
  /\ pc[c] \in {"event", "incident"} => Material(previous[c], result[c][current[c]])
  /\ pc[c] = "incident" => EventOf(c) \in events

FrameOK == \A c \in Checkers : Holds(c)

Typed == TypeOK /\ FrameOK

(* The row of an invariant never checked is well formed. *)
LEMMA NothingType == Nothing \in Check
BY MonitorAssumption DEF Nothing, Check

(* No row, no event, and idle checkers. *)
LEMMA TypedInit == Init => Typed
BY MonitorAssumption, NothingType
   DEF Init, Typed, TypeOK, FrameOK, Holds, Recording

(* A check of a block is a well-formed row that says what the contract      *)
(* returned there.                                                          *)
LEMMA OutcomeType ==
  ASSUME TypeOK, NEW i \in Invariants, NEW b \in 0..MaxBlock, NEW r \in Outcomes(i, b)
  PROVE  /\ r \in Check
         /\ r.block = b
         /\ r.status = "violated" => r.value = truth[i][b] /\ r.value \in Values \ Good
BY MonitorAssumption DEF TypeOK, Outcomes, Evaluated, Failed, Check

(* The event of a material change is well formed. *)
LEMMA EventType ==
  ASSUME Typed, NEW c \in Checkers, pc[c] \in {"event", "incident"}
  PROVE  /\ EventOf(c) \in Event
         /\ current[c] \in Invariants
         /\ EventOf(c).invariant = current[c]
         /\ EventOf(c).status = result[c][current[c]].status
         /\ EventOf(c).value = result[c][current[c]].value
         /\ EventOf(c).block = block[c]
         /\ EventOf(c).kind = IF EventOf(c).status = "ok" THEN "recovered" ELSE "violation"
<1>1. current[c] \in Invariants /\ result[c][current[c]].block = block[c]
  BY DEF Typed, FrameOK, Holds, Recording
<1>2. result[c][current[c]] \in Check
  BY <1>1 DEF Typed, TypeOK
<1>3. result[c][current[c]].status \in {"ok", "violated", "error"}
  BY DEF Typed, FrameOK, Holds, Material, Recovery
<1> QED
  BY <1>1, <1>2, <1>3 DEF EventOf, EventFor, Event, Check

(* A step of one checker leaves what another one holds. *)
LEMMA OthersHold ==
  ASSUME NEW d \in Checkers, Holds(d), UNCHANGED world, events \subseteq events',
         pc'[d] = pc[d], block'[d] = block[d], result'[d] = result[d],
         current'[d] = current[d], previous'[d] = previous[d]
  PROVE  Holds(d)' /\ EventOf(d)' = EventOf(d)
BY DEF Holds, world, EventOf

(* The checker goes on with the next invariant, or with nothing. *)
LEMMA LocalTypes ==
  ASSUME TypeOK, NEW c \in Checkers, NextInvariant(c) \/ Return(c)
  PROVE  /\ pc' \in [Checkers -> {"idle", "read", "upsert", "event", "incident"}]
         /\ todo' \in [Checkers -> SUBSET Invariants]
         /\ current' \in [Checkers -> Invariants \cup {Null}]
         /\ previous' \in [Checkers -> Check]
<1>1. CASE NextInvariant(c)
  BY <1>1, NothingType DEF TypeOK, NextInvariant, Goto
<1>2. CASE Return(c)
  BY <1>2, NothingType DEF TypeOK, Return, Goto
<1> QED BY <1>1, <1>2

(* Every step keeps the types and what a checker holds. *)
LEMMA TypedStep == Typed /\ [Next]_vars => Typed'
<1> SUFFICES ASSUME Typed, [Next]_vars PROVE Typed'
  OBVIOUS
<1>0. /\ TypeOK /\ FrameOK /\ MaxBlock \in Nat /\ MaxCrashes \in Nat
      /\ Null \notin Invariants /\ Nothing \in Check
  BY MonitorAssumption, NothingType DEF Typed
<1> USE DEF Recording, Goto, database, frame, world
<1>1. ASSUME NewBlock PROVE Typed'
  <2>1. FrameOK'
    BY <1>0, <1>1, OthersHold DEF NewBlock, FrameOK
  <2> QED BY <1>0, <1>1, <2>1 DEF NewBlock, Typed, TypeOK
<1>2. ASSUME NEW c \in Checkers, Begin(c) PROVE Typed'
  <2>1. PICK b \in 0..head :
          /\ block' = [block EXCEPT ![c] = b]
          /\ \E r \in [Invariants -> UNION {Outcomes(i, b) : i \in Invariants}] :
               /\ \A i \in Invariants : r[i] \in Outcomes(i, b)
               /\ result' = [result EXCEPT ![c] = r]
    BY <1>2 DEF Begin
  <2>2. PICK r \in [Invariants -> UNION {Outcomes(i, b) : i \in Invariants}] :
          /\ \A i \in Invariants : r[i] \in Outcomes(i, b)
          /\ result' = [result EXCEPT ![c] = r]
    BY <2>1
  <2>3. b \in 0..MaxBlock
    BY <1>0 DEF TypeOK
  <2>4. \A i \in Invariants :
          /\ r[i] \in Check
          /\ r[i].block = b
          /\ r[i].status = "violated" => r[i].value = truth[i][b] /\ r[i].value \in Values \ Good
    BY <1>0, <2>2, <2>3, OutcomeType
  <2>5. r \in [Invariants -> Check]
    BY <2>2, <2>4
  <2>6. TypeOK'
    BY <1>0, <1>2, <2>1, <2>2, <2>3, <2>5 DEF Begin, TypeOK
  <2>7. ASSUME NEW d \in Checkers PROVE Holds(d)'
    <3>1. CASE d = c
      BY <1>0, <1>2, <2>1, <2>2, <2>4, <3>1 DEF Begin, TypeOK, FrameOK, Holds
    <3>2. CASE d # c
      BY <1>0, <1>2, <2>1, <2>2, <3>2, OthersHold DEF Begin, TypeOK, FrameOK
    <3> QED BY <3>1, <3>2
  <2> QED BY <2>6, <2>7 DEF Typed, FrameOK
<1>3. ASSUME NEW c \in Checkers, NEW i \in Invariants, ReadState(c, i) PROVE Typed'
  <2>1. TypeOK'
    BY <1>0, <1>3 DEF ReadState, TypeOK
  <2>2. ASSUME NEW d \in Checkers PROVE Holds(d)'
    <3>1. CASE d = c
      BY <1>0, <1>3, <3>1 DEF ReadState, TypeOK, FrameOK, Holds
    <3>2. CASE d # c
      BY <1>0, <1>3, <3>2, OthersHold DEF ReadState, TypeOK, FrameOK
    <3> QED BY <3>1, <3>2
  <2> QED BY <2>1, <2>2 DEF Typed, FrameOK
<1>4. ASSUME NEW c \in Checkers, UpsertState(c) PROVE Typed'
  <2>0. current[c] \in Invariants /\ result[c][current[c]] \in Check
    BY <1>0, <1>4 DEF UpsertState, TypeOK, FrameOK, Holds
  <2>1. TypeOK'
    <3>1. CASE Material(previous[c], result[c][current[c]])
      BY <1>0, <1>4, <2>0, <3>1 DEF UpsertState, TypeOK
    <3>2. CASE NextInvariant(c)
      BY <1>0, <1>4, <2>0, <3>2, LocalTypes DEF UpsertState, TypeOK
    <3> QED BY <1>4, <3>1, <3>2 DEF UpsertState
  <2>2. ASSUME NEW d \in Checkers PROVE Holds(d)'
    <3>1. CASE d = c
      BY <1>0, <1>4, <2>0, <3>1 DEF UpsertState, NextInvariant, TypeOK, FrameOK, Holds
    <3>2. CASE d # c
      BY <1>0, <1>4, <3>2, OthersHold DEF UpsertState, NextInvariant, TypeOK, FrameOK
    <3> QED BY <3>1, <3>2
  <2> QED BY <2>1, <2>2 DEF Typed, FrameOK
<1>5. ASSUME NEW c \in Checkers, RecordEvent(c) PROVE Typed'
  <2>1. EventOf(c) \in Event
    BY <1>5, EventType DEF RecordEvent
  <2>2. TypeOK'
    BY <1>0, <1>5, <2>1 DEF RecordEvent, TypeOK
  <2>3. ASSUME NEW d \in Checkers PROVE Holds(d)'
    <3>1. CASE d = c
      BY <1>0, <1>5, <3>1 DEF RecordEvent, TypeOK, FrameOK, Holds, EventOf
    <3>2. CASE d # c
      BY <1>0, <1>5, <3>2, OthersHold DEF RecordEvent, TypeOK, FrameOK
    <3> QED BY <3>1, <3>2
  <2> QED BY <2>2, <2>3 DEF Typed, FrameOK
<1>6. ASSUME NEW c \in Checkers, KnownEvent(c) \/ Promote(c) PROVE Typed'
  <2>1. incidents' \subseteq events
    BY <1>0, <1>6 DEF KnownEvent, Promote, TypeOK, FrameOK, Holds
  <2>2. TypeOK'
    BY <1>0, <1>6, <2>1, LocalTypes DEF KnownEvent, Promote, TypeOK
  <2>3. ASSUME NEW d \in Checkers PROVE Holds(d)'
    <3>1. CASE d = c
      <4>1. /\ pc'[c] = "read" /\ current'[c] = Null
            /\ result' = result /\ block' = block /\ truth' = truth /\ pc[c] # "idle"
        BY <1>0, <1>6 DEF KnownEvent, Promote, NextInvariant, TypeOK
      <4> QED BY <1>0, <3>1, <4>1 DEF FrameOK, Holds
    <3>2. CASE d # c
      BY <1>0, <1>6, <3>2, OthersHold DEF KnownEvent, Promote, NextInvariant, TypeOK, FrameOK
    <3> QED BY <3>1, <3>2
  <2> QED BY <2>2, <2>3 DEF Typed, FrameOK
<1>7. ASSUME NEW c \in Checkers, Finish(c) \/ Crash(c) PROVE Typed'
  <2>0. Return(c)
    BY <1>7 DEF Finish, Crash
  <2>1. block' \in [Checkers -> 0..MaxBlock] /\ result' \in [Checkers -> [Invariants -> Check]]
    BY <1>0, <2>0 DEF Return, TypeOK
  <2>2. TypeOK'
    BY <1>0, <1>7, <2>1, LocalTypes DEF Finish, Crash, TypeOK
  <2>3. ASSUME NEW d \in Checkers PROVE Holds(d)'
    <3>1. CASE d = c
      BY <1>0, <1>7, <3>1 DEF Finish, Crash, Return, TypeOK, Holds
    <3>2. CASE d # c
      BY <1>0, <1>7, <3>2, OthersHold DEF Finish, Crash, Return, TypeOK, FrameOK
    <3> QED BY <3>1, <3>2
  <2> QED BY <2>2, <2>3 DEF Typed, FrameOK
<1>8. CASE UNCHANGED vars
  <2>1. FrameOK'
    BY <1>0, <1>8, OthersHold DEF vars, FrameOK
  <2> QED BY <1>0, <1>8, <2>1 DEF vars, Typed, TypeOK
<1> QED
  BY <1>1, <1>2, <1>3, <1>4, <1>5, <1>6, <1>7, <1>8 DEF Next

-----------------------------------------------------------------------------
(* What a step does to a checker that stands before add_event: nothing, or   *)
(* its event is in the table afterwards.                                     *)
LEMMA EventStage ==
  ASSUME Typed, [Next]_vars, crashes' = 0, NEW c \in Checkers, pc[c] = "event"
  PROVE  \/ /\ pc'[c] = "event" /\ current'[c] = current[c]
            /\ result'[c] = result[c] /\ previous'[c] = previous[c]
         \/ EventOf(c) \in events'
<1>0. TypeOK
  BY DEF Typed
<1> USE DEF TypeOK, Goto, database, frame, world
<1>1. CASE NewBlock
  BY <1>0, <1>1 DEF NewBlock
<1>2. ASSUME NEW d \in Checkers, Begin(d) PROVE pc'[c] = pc[c] /\ UNCHANGED <<current, previous>>
                                                /\ result'[c] = result[c]
  BY <1>0, <1>2 DEF Begin
<1>3. ASSUME NEW d \in Checkers, NEW i \in Invariants, ReadState(d, i)
      PROVE pc'[c] = pc[c] /\ current'[c] = current[c] /\ previous'[c] = previous[c]
            /\ result' = result
  BY <1>0, <1>3 DEF ReadState
<1>4. ASSUME NEW d \in Checkers, UpsertState(d)
      PROVE pc'[c] = pc[c] /\ current'[c] = current[c] /\ previous'[c] = previous[c]
            /\ result' = result
  BY <1>0, <1>4 DEF UpsertState, NextInvariant
<1>5. ASSUME NEW d \in Checkers, RecordEvent(d) \/ KnownEvent(d)
      PROVE \/ /\ pc'[c] = pc[c] /\ current'[c] = current[c] /\ previous'[c] = previous[c]
               /\ result' = result
            \/ EventOf(c) \in events'
  BY <1>0, <1>5 DEF RecordEvent, KnownEvent, NextInvariant
<1>6. ASSUME NEW d \in Checkers, Promote(d)
      PROVE pc'[c] = pc[c] /\ current'[c] = current[c] /\ previous'[c] = previous[c]
            /\ result' = result
  BY <1>0, <1>6 DEF Promote, NextInvariant
<1>7. ASSUME NEW d \in Checkers, Finish(d)
      PROVE pc'[c] = pc[c] /\ current'[c] = current[c] /\ previous'[c] = previous[c]
            /\ result'[c] = result[c]
  BY <1>0, <1>7 DEF Finish, Return
<1>8. ASSUME NEW d \in Checkers, Crash(d) PROVE FALSE
  BY <1>0, <1>8 DEF Crash
<1>9. CASE UNCHANGED vars
  BY <1>9 DEF vars
<1> QED
  BY <1>1, <1>2, <1>3, <1>4, <1>5, <1>6, <1>7, <1>8, <1>9 DEF Next

(* Events stay. *)
LEMMA EventsGrow == [Next]_vars => events \subseteq events'
BY DEF Next, vars, database, frame, world, NewBlock, Begin, ReadState, UpsertState,
       RecordEvent, KnownEvent, Promote, Finish, Crash

(* Where rows come from: a checker's copy was read from the table, and a row *)
(* of the table was written by an upsert.                                    *)
LEMMA RowsMove ==
  ASSUME Typed, [Next]_vars
  PROVE  /\ \A d \in Checkers, i \in Invariants : current'[d] = i =>
              \/ previous'[d] = state[i]
              \/ current[d] = i /\ previous'[d] = previous[d]
         /\ \A i \in Invariants :
              \/ state'[i] = state[i]
              \/ \E c \in Checkers : /\ UpsertState(c) /\ current[c] = i
                                     /\ state'[i] = result[c][i]
<1> DEFINE Copied == \A d \in Checkers, i \in Invariants : current'[d] = i =>
                       \/ previous'[d] = state[i]
                       \/ current[d] = i /\ previous'[d] = previous[d]
<1>0. TypeOK /\ Null \notin Invariants
  BY MonitorAssumption DEF Typed
<1> USE DEF TypeOK, Goto, database, frame, world
<1>1. CASE NewBlock
  BY <1>0, <1>1 DEF NewBlock
<1>2. ASSUME NEW c \in Checkers, Begin(c) PROVE Copied /\ state' = state
  BY <1>0, <1>2 DEF Begin
<1>3. ASSUME NEW c \in Checkers, NEW i \in Invariants, ReadState(c, i)
      PROVE Copied /\ state' = state
  BY <1>0, <1>3 DEF ReadState
<1>4. ASSUME NEW c \in Checkers, UpsertState(c)
      PROVE /\ Copied
            /\ \A i \in Invariants : \/ state'[i] = state[i]
                                     \/ current[c] = i /\ state'[i] = result[c][i]
  BY <1>0, <1>4 DEF UpsertState, NextInvariant
<1>5. ASSUME NEW c \in Checkers, RecordEvent(c) \/ KnownEvent(c) \/ Promote(c)
      PROVE Copied /\ state' = state
  BY <1>0, <1>5 DEF RecordEvent, KnownEvent, Promote, NextInvariant
<1>6. ASSUME NEW c \in Checkers, Finish(c) \/ Crash(c) PROVE Copied /\ state' = state
  BY <1>0, <1>6 DEF Finish, Crash, Return
<1>7. CASE UNCHANGED vars
  BY <1>7 DEF vars
<1> QED
  BY <1>1, <1>2, <1>3, <1>4, <1>5, <1>6, <1>7 DEF Next

(* An upsert that is not material finds a row with its own status and value. *)
LEMMA SilentUpsert ==
  ASSUME Typed, NEW c \in Checkers, UpsertState(c)
  PROVE  /\ current[c] \in Invariants
         /\ \/ /\ pc'[c] = "event" /\ current'[c] = current[c] /\ result' = result
               /\ previous'[c] = previous[c]
            \/ LET new == result[c][current[c]]
               IN new.status \in {"violated", "error"} =>
                    /\ previous[c].status = new.status
                    /\ new.status = "violated" => previous[c].value = new.value
<1>1. TypeOK /\ current[c] \in Invariants /\ Holds(c) /\ pc[c] = "upsert"
  BY DEF Typed, FrameOK, Holds, UpsertState, Recording
<1>2. CASE Material(previous[c], result[c][current[c]])
  BY <1>1, <1>2 DEF UpsertState, Goto, TypeOK
<1>3. CASE ~Material(previous[c], result[c][current[c]])
  <2> DEFINE new == result[c][current[c]]
  <2>1. SUFFICES ASSUME new.status \in {"violated", "error"}
                 PROVE  /\ previous[c].status = new.status
                        /\ new.status = "violated" => previous[c].value = new.value
    BY <1>1
  <2>2. ~Changed(previous[c], new)
    BY <1>3, <2>1 DEF Material
  <2>3. previous[c].status = new.status
    BY <2>2 DEF Changed
  <2>4. ASSUME new.status = "violated" PROVE previous[c].value = new.value
    <3>1. previous[c] # Nothing
      BY <2>3, <2>4 DEF Nothing
    <3>2. Text(previous[c].value) = new.value
      BY <2>2, <3>1 DEF Changed
    <3>3. new.value \in Values
      BY <1>1, <2>4 DEF Holds
    <3> QED BY <3>2, <3>3, MonitorAssumption DEF Text
  <2> QED BY <2>3, <2>4
<1> QED BY <1>1, <1>2, <1>3

-----------------------------------------------------------------------------
(* The violation v of an invariant is reported, or a checker is about to. *)
Covered(i, v) ==
  \/ \E e \in events : e.invariant = i /\ e.status = "violated" /\ e.value = v
  \/ \E c \in Checkers : /\ pc[c] = "event" /\ current[c] = i
                         /\ result[c][i].status = "violated" /\ result[c][i].value = v

ViolationInv ==
  crashes = 0 => \A i \in Invariants, v \in Values \cup {Null} :
    /\ state[i].status = "violated" /\ state[i].value = v => Covered(i, v)
    /\ \A c \in Checkers :
         current[c] = i /\ previous[c].status = "violated" /\ previous[c].value = v =>
           Covered(i, v)

(* A covered violation stays covered until a check is cut short. *)
LEMMA CoveredStays ==
  ASSUME Typed, [Next]_vars, crashes' = 0, NEW i, NEW v, Covered(i, v)
  PROVE  Covered(i, v)'
<1>1. CASE \E e \in events : e.invariant = i /\ e.status = "violated" /\ e.value = v
  BY <1>1, EventsGrow DEF Covered
<1>2. ASSUME NEW c \in Checkers, pc[c] = "event", current[c] = i,
             result[c][i].status = "violated", result[c][i].value = v
      PROVE  Covered(i, v)'
  <2>1. EventOf(c).invariant = i /\ EventOf(c).status = "violated" /\ EventOf(c).value = v
    BY <1>2, EventType
  <2>2. CASE EventOf(c) \in events'
    BY <2>1, <2>2 DEF Covered
  <2>3. CASE pc'[c] = "event" /\ current'[c] = current[c] /\ result'[c] = result[c]
    BY <1>2, <2>3 DEF Covered
  <2> QED BY <1>2, <2>2, <2>3, EventStage
<1> QED BY <1>1, <1>2 DEF Covered

(* No checks cut short before the step either. *)
LEMMA NoCrashYet ==
  ASSUME TypeOK, [Next]_vars, crashes' = 0 PROVE crashes = 0
BY MonitorAssumption
   DEF TypeOK, Next, vars, NewBlock, Begin, ReadState, UpsertState, RecordEvent,
       KnownEvent, Promote, Finish, Crash

(* Every step keeps the violations covered. *)
LEMMA ViolationStep == Typed /\ ViolationInv /\ [Next]_vars => ViolationInv'
<1> SUFFICES ASSUME Typed, ViolationInv, [Next]_vars, crashes' = 0,
                    NEW i \in Invariants, NEW v \in Values \cup {Null}
             PROVE  /\ state'[i].status = "violated" /\ state'[i].value = v => Covered(i, v)'
                    /\ \A c \in Checkers :
                         /\ current'[c] = i
                         /\ previous'[c].status = "violated" /\ previous'[c].value = v
                         => Covered(i, v)'
  BY DEF ViolationInv
<1>1. crashes = 0
  BY NoCrashYet DEF Typed
<1>2. Covered(i, v) => Covered(i, v)'
  BY CoveredStays
<1>3. ASSUME state'[i].status = "violated", state'[i].value = v PROVE Covered(i, v)'
  <2>1. CASE state'[i] = state[i]
    BY <1>1, <1>2, <1>3, <2>1 DEF ViolationInv
  <2>2. ASSUME NEW c \in Checkers, UpsertState(c), current[c] = i, state'[i] = result[c][i]
        PROVE  Covered(i, v)'
    <3>1. CASE pc'[c] = "event" /\ current'[c] = current[c] /\ result' = result
      BY <1>3, <2>2, <3>1 DEF Covered
    <3>2. CASE previous[c].status = "violated" /\ previous[c].value = v
      BY <1>1, <1>2, <2>2, <3>2 DEF ViolationInv
    <3> QED BY <1>3, <2>2, <3>1, <3>2, SilentUpsert
  <2> QED BY <2>1, <2>2, RowsMove
<1>4. ASSUME NEW c \in Checkers, current'[c] = i, previous'[c].status = "violated",
             previous'[c].value = v
      PROVE  Covered(i, v)'
  BY <1>1, <1>2, <1>4, RowsMove DEF ViolationInv
<1> QED BY <1>3, <1>4

-----------------------------------------------------------------------------
(* An alarm of the invariant is recorded, or a checker is about to. *)
Alarmed(i) ==
  \/ \E e \in events : e.invariant = i /\ e.kind = "violation"
  \/ \E c \in Checkers : /\ pc[c] = "event" /\ EventOf(c).kind = "violation"
                         /\ EventOf(c).invariant = i

Alarming == {"violated", "error"}

RecoveryInv ==
  crashes = 0 => \A i \in Invariants :
    /\ state[i].status \in Alarming => Alarmed(i)
    /\ \A c \in Checkers : current[c] = i /\ previous[c].status \in Alarming => Alarmed(i)
    /\ \A r \in events : r.kind = "recovered" /\ r.invariant = i => Alarmed(i)

(* An alarm does not go away until a check is cut short. *)
LEMMA AlarmedStays ==
  ASSUME Typed, [Next]_vars, crashes' = 0, NEW i, Alarmed(i)
  PROVE  Alarmed(i)'
<1>1. CASE \E e \in events : e.invariant = i /\ e.kind = "violation"
  BY <1>1, EventsGrow DEF Alarmed
<1>2. ASSUME NEW c \in Checkers, pc[c] = "event", EventOf(c).kind = "violation",
             EventOf(c).invariant = i
      PROVE  Alarmed(i)'
  <2>1. CASE EventOf(c) \in events'
    BY <1>2, <2>1 DEF Alarmed
  <2>2. CASE /\ pc'[c] = "event" /\ current'[c] = current[c] /\ result'[c] = result[c]
             /\ previous'[c] = previous[c]
    <3>1. EventOf(c)' = EventOf(c)
      BY <2>2 DEF EventOf
    <3> QED BY <1>2, <2>2, <3>1 DEF Alarmed
  <2> QED BY <1>2, <2>1, <2>2, EventStage
<1> QED BY <1>1, <1>2 DEF Alarmed

(* A new event is the one of a checker that stands before add_event. *)
LEMMA NewEvents ==
  ASSUME [Next]_vars, NEW r \in events' \ events
  PROVE  \E c \in Checkers : pc[c] = "event" /\ RecordEvent(c) /\ r = EventOf(c)
BY DEF Next, vars, database, frame, world, NewBlock, Begin, ReadState, UpsertState,
       RecordEvent, KnownEvent, Promote, Finish, Crash

(* Every step keeps recoveries and alarming rows behind an alarm. *)
LEMMA RecoveryStep == Typed /\ RecoveryInv /\ [Next]_vars => RecoveryInv'
<1> SUFFICES ASSUME Typed, RecoveryInv, [Next]_vars, crashes' = 0, NEW i \in Invariants
             PROVE  /\ state'[i].status \in Alarming => Alarmed(i)'
                    /\ \A c \in Checkers :
                         current'[c] = i /\ previous'[c].status \in Alarming => Alarmed(i)'
                    /\ \A r \in events' : r.kind = "recovered" /\ r.invariant = i => Alarmed(i)'
  BY DEF RecoveryInv
<1>1. crashes = 0
  BY NoCrashYet DEF Typed
<1>2. Alarmed(i) => Alarmed(i)'
  BY AlarmedStays
<1>3. ASSUME state'[i].status \in Alarming PROVE Alarmed(i)'
  <2>1. CASE state'[i] = state[i]
    BY <1>1, <1>2, <1>3, <2>1 DEF RecoveryInv
  <2>2. ASSUME NEW c \in Checkers, UpsertState(c), current[c] = i, state'[i] = result[c][i]
        PROVE  Alarmed(i)'
    <3>1. CASE pc'[c] = "event" /\ current'[c] = current[c] /\ result' = result
               /\ previous'[c] = previous[c]
      <4>1. EventOf(c)' = EventFor(i, previous[c], result[c][i])
        BY <2>2, <3>1 DEF EventOf
      <4>2. EventOf(c)'.kind = "violation" /\ EventOf(c)'.invariant = i
        BY <1>3, <2>2, <4>1 DEF EventFor, Alarming
      <4> QED BY <3>1, <4>2 DEF Alarmed
    <3>2. CASE previous[c].status = result[c][i].status
      BY <1>1, <1>2, <1>3, <2>2, <3>2 DEF RecoveryInv
    <3> QED BY <1>3, <2>2, <3>1, <3>2, SilentUpsert DEF Alarming
  <2> QED BY <2>1, <2>2, RowsMove
<1>4. ASSUME NEW c \in Checkers, current'[c] = i, previous'[c].status \in Alarming
      PROVE  Alarmed(i)'
  BY <1>1, <1>2, <1>4, RowsMove DEF RecoveryInv
<1>5. ASSUME NEW r \in events', r.kind = "recovered", r.invariant = i PROVE Alarmed(i)'
  <2>1. CASE r \in events
    BY <1>1, <1>2, <1>5, <2>1 DEF RecoveryInv
  <2>2. ASSUME NEW c \in Checkers, pc[c] = "event", r = EventOf(c) PROVE Alarmed(i)'
    <3>1. result[c][current[c]].status = "ok" /\ current[c] = i
      BY <1>5, <2>2, EventType
    <3>2. previous[c].status \in Alarming
      BY <2>2, <3>1 DEF Typed, FrameOK, Holds, Material, Recovery, Alarming
    <3> QED BY <1>1, <1>2, <3>1, <3>2 DEF RecoveryInv
  <2> QED BY <2>1, <2>2, NewEvents
<1> QED BY <1>3, <1>4, <1>5

-----------------------------------------------------------------------------
(* Every step keeps the alarms true. *)
LEMMA TruthStep == Typed /\ AlarmsAreTrue /\ [Next]_vars => AlarmsAreTrue'
<1> SUFFICES ASSUME Typed, AlarmsAreTrue, [Next]_vars, NEW e \in events', e.status = "violated"
             PROVE  e.value = truth'[e.invariant][e.block] /\ e.value \notin Good
  BY DEF AlarmsAreTrue
<1>1. truth' = truth
  BY DEF Next, vars, world, NewBlock, Begin, ReadState, UpsertState, RecordEvent,
         KnownEvent, Promote, Finish, Crash
<1>2. CASE e \in events
  BY <1>1, <1>2 DEF AlarmsAreTrue
<1>3. ASSUME NEW c \in Checkers, pc[c] = "event", e = EventOf(c)
      PROVE  e.value = truth[e.invariant][e.block] /\ e.value \notin Good
  BY <1>3, EventType DEF Typed, FrameOK, Holds
<1> QED BY <1>1, <1>2, <1>3, NewEvents

(* Every step keeps the promotion of the alarms. *)
LEMMA PromotedStep == Typed /\ AlarmsPromoted /\ [Next]_vars => AlarmsPromoted'
<1> SUFFICES ASSUME Typed, AlarmsPromoted, [Next]_vars, crashes' = 0,
                    NEW e \in events', EventScore(e) >= IncidentMin
             PROVE  \/ e \in incidents'
                    \/ \E c \in Checkers : pc'[c] = "incident" /\ EventOf(c)' = e
  BY DEF AlarmsPromoted
<1> DEFINE Goal == \/ e \in incidents'
                   \/ \E c \in Checkers : pc'[c] = "incident" /\ EventOf(c)' = e
<1>0. TypeOK /\ crashes = 0
  BY NoCrashYet DEF Typed
<1>1. CASE e \notin events
  <2>1. PICK c \in Checkers : pc[c] = "event" /\ RecordEvent(c) /\ e = EventOf(c)
    BY <1>1, NewEvents
  <2>2. pc'[c] = "incident" /\ EventOf(c)' = EventOf(c)
    BY <1>0, <2>1 DEF RecordEvent, TypeOK, Goto, EventOf, frame
  <2> QED BY <2>1, <2>2
<1>2. ASSUME e \in incidents PROVE e \in incidents'
  BY <1>2 DEF Next, vars, database, NewBlock, Begin, ReadState, UpsertState, RecordEvent,
              KnownEvent, Promote, Finish, Crash
<1>3. ASSUME NEW c \in Checkers, pc[c] = "incident", EventOf(c) = e PROVE Goal
  <2> DEFINE Kept == /\ pc'[c] = "incident" /\ current'[c] = current[c]
                     /\ result'[c] = result[c] /\ previous'[c] = previous[c]
  <2> USE DEF TypeOK, Goto, database, frame, world
  <2>1. CASE Kept
    BY <1>3, <2>1 DEF EventOf
  <2>2. CASE NewBlock \/ UNCHANGED vars
    <3>1. Kept
      BY <1>3, <2>2 DEF NewBlock, vars
    <3> QED BY <2>1, <3>1
  <2>3. ASSUME NEW d \in Checkers, Begin(d) PROVE Kept
    BY <1>0, <1>3, <2>3 DEF Begin
  <2>4. ASSUME NEW d \in Checkers, NEW i \in Invariants, ReadState(d, i) PROVE Kept
    BY <1>0, <1>3, <2>4 DEF ReadState
  <2>5. ASSUME NEW d \in Checkers, UpsertState(d) PROVE Kept
    BY <1>0, <1>3, <2>5 DEF UpsertState, NextInvariant
  <2>6. ASSUME NEW d \in Checkers, RecordEvent(d) \/ KnownEvent(d) PROVE Kept
    BY <1>0, <1>3, <2>6 DEF RecordEvent, KnownEvent, NextInvariant
  <2>7. ASSUME NEW d \in Checkers, Promote(d) PROVE Kept \/ e \in incidents'
    BY <1>0, <1>3, <2>7 DEF Promote, NextInvariant
  <2>8. ASSUME NEW d \in Checkers, Finish(d) PROVE Kept
    BY <1>0, <1>3, <2>8 DEF Finish, Return
  <2>9. ASSUME NEW d \in Checkers, Crash(d) PROVE FALSE
    BY <1>0, <2>9 DEF Crash
  <2> HIDE DEF Kept
  <2> QED
    BY <2>1, <2>2, <2>3, <2>4, <2>5, <2>6, <2>7, <2>8, <2>9 DEF Next
<1> QED BY <1>0, <1>1, <1>2, <1>3 DEF AlarmsPromoted

-----------------------------------------------------------------------------
IndInv == Typed /\ ViolationInv /\ RecoveryInv /\ AlarmsAreTrue /\ AlarmsPromoted

(* The inductive invariant holds in every reachable state. *)
LEMMA Invariance == Spec => []IndInv
<1>1. Init => IndInv
  <2>1. ASSUME Init PROVE ViolationInv /\ RecoveryInv /\ AlarmsAreTrue /\ AlarmsPromoted
    BY <2>1, MonitorAssumption
       DEF Init, ViolationInv, RecoveryInv, AlarmsAreTrue, AlarmsPromoted, Nothing, Alarming
  <2> QED BY <2>1, TypedInit DEF IndInv
<1>2. IndInv /\ [Next]_vars => IndInv'
  BY TypedStep, ViolationStep, RecoveryStep, TruthStep, PromotedStep DEF IndInv
<1> QED BY <1>1, <1>2, PTL DEF Spec

(* The tables and the checkers of the invariant engine keep their types, for *)
(* any number of checkers, invariants and blocks (_scan_invariants).         *)
THEOREM MonitorTypeCorrect == Spec => []TypeOK
<1>1. IndInv => TypeOK
  BY DEF IndInv, Typed
<1> QED BY <1>1, Invariance, PTL

(* A stored violation is reported with its value, or a checker is at work on *)
(* the invariant, however checkers replace each other's rows, until a check  *)
(* is cut short (_record_invariant_transition).                              *)
THEOREM ViolationIsReported == Spec => []ViolationReported
<1>1. ASSUME IndInv PROVE ViolationReported
  <2> SUFFICES ASSUME NEW i \in Invariants, state[i].status = "violated", crashes = 0
               PROVE  \/ \E e \in events : /\ e.invariant = i /\ e.status = "violated"
                                           /\ e.value = state[i].value
                      \/ \E c \in Checkers : current[c] = i
    BY DEF ViolationReported
  <2>1. state[i].value \in Values \cup {Null}
    BY <1>1 DEF IndInv, Typed, TypeOK, Check
  <2>2. Covered(i, state[i].value)
    BY <1>1, <2>1 DEF IndInv, ViolationInv
  <2> QED BY <2>2 DEF Covered
<1> QED BY <1>1, Invariance, PTL

(* A violation event quotes the value the contract had at the block it       *)
(* names, and the policy rejects that value (check_invariant).               *)
THEOREM AlarmsTellTheTruth == Spec => []AlarmsAreTrue
<1>1. IndInv => AlarmsAreTrue
  BY DEF IndInv
<1> QED BY <1>1, Invariance, PTL

(* An alarm at or above the incident threshold has its incident, unless the  *)
(* checker that recorded it is about to open it, until a check is cut short  *)
(* (_record_and_alert).                                                      *)
THEOREM AlarmsBecomeIncidents == Spec => []AlarmsPromoted
<1>1. IndInv => AlarmsPromoted
  BY DEF IndInv
<1> QED BY <1>1, Invariance, PTL

(* A recovery is reported only after an alarm of the invariant, or while     *)
(* another checker is about to record it, until a check is cut short         *)
(* (_record_invariant_transition).                                           *)
THEOREM RecoveryFollowsAlarm == Spec => []RecoveryAfterAlarm
<1>1. ASSUME IndInv PROVE RecoveryAfterAlarm
  <2> SUFFICES ASSUME NEW r \in events, r.kind = "recovered", crashes = 0
               PROVE  Alarmed(r.invariant)
    BY DEF RecoveryAfterAlarm, Alarmed
  <2>1. r.invariant \in Invariants
    BY <1>1 DEF IndInv, Typed, TypeOK, Event
  <2> QED BY <1>1, <2>1 DEF IndInv, RecoveryInv
<1> QED BY <1>1, Invariance, PTL
=============================================================================
