------------------------- MODULE ChainScanner_proofs -------------------------
(* Theorems about ChainScanner and their proofs. *)
EXTENDS ChainScanner, AlertOutbox_proofs

(* The lookback is clamped at block 0, so a cycle starts at a natural number. *)
LEMMA StartBlockType ==
  ASSUME TypeOK, NEW safe \in Nat
  PROVE StartBlock(safe) \in Nat
BY SettingsAssumption DEF TypeOK, StartBlock, NoCursor

(* The safe head is clamped at block 0. *)
LEMMA SafeHeadType ==
  ASSUME NEW h \in Nat
  PROVE SafeHead(h) \in Nat
BY SettingsAssumption DEF SafeHead

(* The end of the window is a natural number. *)
LEMMA EndBlockType ==
  ASSUME NEW start \in Nat, NEW safe \in Nat
  PROVE EndBlock(start, safe) \in Nat
BY SettingsAssumption DEF EndBlock

-----------------------------------------------------------------------------
(* The frame of a scanner: which item it holds at each stage. *)
InDeploy == {"deploy", "similar", "profile"}
InGraph == {"node", "link", "edge", "incident"}

FrameOK ==
  \A p \in Scanners :
    /\ pc[p] \in InDeploy => item[p] \in Deployments
    /\ pc[p] \in InGraph => item[p] \in Events
    /\ pc[p] = "edge" => other[p] \in nodes

Typed == TypeOK /\ FrameOK

(* An empty database and idle scanners are well typed. *)
LEMMA TypedInit == Init => Typed
BY ChainAssumption, SettingsAssumption
   DEF Init, Typed, TypeOK, FrameOK, OutboxInit, OutboxTypeOK, NoCursor, Stages,
       InDeploy, InGraph

(* Every step keeps the types and the item a stage works on. *)
LEMMA TypedStep == Typed /\ [Next]_vars => Typed'
<1> SUFFICES ASSUME Typed, [Next]_vars PROVE Typed'
  OBVIOUS
<1> USE DEF Typed, TypeOK, FrameOK, OutboxTypeOK, outboxVars, tables, window, local,
            history, Stages, Goto, InDeploy, InGraph
<1>1. ASSUME NewBlock PROVE Typed'
  BY <1>1 DEF NewBlock
<1>2. ASSUME NEW p \in Scanners, NEW h \in 0..MaxHead, BeginCycle(p, h) PROVE Typed'
  <2>1. SafeHead(h) \in Nat /\ StartBlock(SafeHead(h)) \in Nat
    BY <1>2, SafeHeadType, StartBlockType DEF BeginCycle
  <2>2. QED
    BY <1>2, <2>1 DEF BeginCycle
<1>3. ASSUME NEW p \in Scanners, ReadOutbox(p) PROVE Typed'
  BY <1>3 DEF ReadOutbox, LoadOutbox, PendingAlerts, Unalerted, Recorded
<1>4. ASSUME NEW p \in Scanners, NEW e \in Events,
             Skip(p, e) \/ Deliver(p, e) \/ DeliveryFails(p, e) \/ Mark(p, e)
      PROVE Typed'
  BY <1>4 DEF Skip, Deliver, DeliveryFails, Mark, SkipAlert, SendAlert, SendFails,
              MarkAlerted, Drop
<1>5. ASSUME NEW p \in Scanners, FlushDone(p) \/ NothingNew(p) PROVE Typed'
  BY <1>5 DEF FlushDone, NothingNew
<1>6. ASSUME NEW p \in Scanners, CutWindow(p) PROVE Typed'
  <2>1. EndBlock(next[p], last[p]) \in Nat
    BY <1>6, EndBlockType
  <2>2. QED
    BY <1>6, <2>1, ChainAssumption DEF CutWindow, UpgradesIn, Upgrades
<1>7. ASSUME NEW p \in Scanners, NEW u \in Upgrades, TakeUpgrade(p, u) PROVE Typed'
  BY <1>7, ChainAssumption DEF TakeUpgrade, Upgrades
<1>8. ASSUME NEW p \in Scanners, FetchBlock(p) PROVE Typed'
  BY <1>8, ChainAssumption DEF FetchBlock
<1>9. ASSUME NEW p \in Scanners, NEW d \in Deployments,
             TakeDeployment(p, d) \/ NoAnswer(p, d)
      PROVE Typed'
  <2>1. d \in Events
    BY ChainAssumption
  <2>2. CASE TakeDeployment(p, d)
    BY <2>1, <2>2 DEF TakeDeployment
  <2>3. CASE NoAnswer(p, d)
    BY <2>1, <2>3 DEF NoAnswer
  <2>4. QED
    BY <1>9, <2>2, <2>3
<1>10. ASSUME NEW p \in Scanners, AdvanceCursor(p) PROVE Typed'
  BY <1>10 DEF AdvanceCursor
<1>11. ASSUME NEW p \in Scanners, AddDeployment(p) PROVE Typed'
  BY <1>11, ChainAssumption DEF AddDeployment
<1>12. ASSUME NEW p \in Scanners, KnownDeployment(p) PROVE Typed'
  BY <1>12, ChainAssumption DEF KnownDeployment, NextItem
<1>13. ASSUME NEW p \in Scanners, ReadSimilar(p) PROVE Typed'
  BY <1>13, ChainAssumption DEF ReadSimilar, CutAt
<1>14. ASSUME NEW p \in Scanners, UpsertProfile(p) PROVE Typed'
  BY <1>14, ChainAssumption DEF UpsertProfile
<1>15. ASSUME NEW p \in Scanners, SubjectNode(p) PROVE Typed'
  BY <1>15, ChainAssumption DEF SubjectNode
<1>16. ASSUME NEW p \in Scanners, NEW n \in Nodes, LinkNode(p, n) PROVE Typed'
  BY <1>16 DEF LinkNode
<1>17. ASSUME NEW p \in Scanners, LinkEdge(p) PROVE Typed'
  BY <1>17, ChainAssumption DEF LinkEdge
<1>18. ASSUME NEW p \in Scanners, NEW s \in Scores, RecordEvent(p, s) PROVE Typed'
  <2>1. Cardinality(Recorded) + 1 \in Nat
    BY RowidType
  <2>2. QED
    BY <1>18, <2>1, OutboxAssumption DEF RecordEvent, AddEvent
<1>19. ASSUME NEW p \in Scanners, KnownEvent(p) \/ Promote(p) PROVE Typed'
  BY <1>19 DEF KnownEvent, Promote, OpenIncident, NextItem
<1>20. ASSUME NEW p \in Scanners, Finish(p) \/ Abort(p) \/ Crash(p) PROVE Typed'
  <2>1. CASE Finish(p)
    BY <2>1 DEF Finish, Reset
  <2>2. CASE Abort(p)
    BY <2>2 DEF Abort, Reset
  <2>3. CASE Crash(p)
    <3>1. batch' \in [Clients -> SUBSET Events]
      BY <2>3 DEF Crash
    <3>2. QED
      BY <2>3, <3>1 DEF Crash, Reset
  <2>4. QED
    BY <1>20, <2>1, <2>2, <2>3
<1>21. CASE UNCHANGED vars
  BY <1>21 DEF vars
<1>22. QED
  BY <1>1, <1>2, <1>3, <1>4, <1>5, <1>6, <1>7, <1>8, <1>9, <1>10, <1>11, <1>12,
     <1>13, <1>14, <1>15, <1>16, <1>17, <1>18, <1>19, <1>20, <1>21
     DEF Next, Step

-----------------------------------------------------------------------------
(* The window of a cycle lies below the safe head. *)
Scanning == {"upgrade", "block", "tx"} \cup InDeploy \cup InGraph

WindowOK ==
  /\ cursor <= SafeHead(head)
  /\ \A p \in Scanners : /\ last[p] <= SafeHead(head)
                         /\ pc[p] \in Scanning => next[p] <= last[p]

(* Whether a scanner is inside a block, or still among the logs. *)
InBlock(p) == pc[p] \in {"tx"} \cup InDeploy \/ (pc[p] \in InGraph /\ item[p] \in Deployments)
InLogs(p) == pc[p] = "upgrade" \/ (pc[p] \in InGraph /\ item[p] \notin Deployments)

(* The deployments a scanner has left behind are stored or unanswered. *)
Handled(d) == Subject[d] \in deployments \/ d \in lost

CoverageOK ==
  /\ NoBlockSkipped
  /\ \A p \in Scanners :
       /\ pc[p] # "idle" =>
            \A d \in Deployments : base <= BlockOf[d] /\ BlockOf[d] < next[p] => Handled(d)
       /\ InBlock(p) =>
            \A d \in Deployments : BlockOf[d] = next[p] => d \in work[p] \/ Handled(d)
       /\ InBlock(p) /\ pc[p] \notin {"tx", "deploy"} => Subject[item[p]] \in deployments

(* The logs a scanner has left behind are recorded. *)
ReportedOK ==
  /\ UpgradesReported
  /\ \A p \in Scanners :
       /\ pc[p] # "idle" =>
            \A u \in Upgrades : base <= BlockOf[u] /\ BlockOf[u] < next[p] => rowid[u] > 0
       /\ InLogs(p) =>
            \A u \in Upgrades : next[p] <= BlockOf[u] /\ BlockOf[u] <= last[p]
                               => u \in work[p] \/ rowid[u] > 0
       /\ pc[p] = "block" \/ InBlock(p) =>
            \A u \in Upgrades : next[p] <= BlockOf[u] /\ BlockOf[u] <= last[p] => rowid[u] > 0
       /\ pc[p] = "incident" => rowid[item[p]] > 0

(* The evidence of the item in process, as far as it has been written. *)
EvidenceOK ==
  /\ EvidenceBeforeEvent
  /\ NoDanglingEdge
  /\ \A p \in Scanners :
       /\ pc[p] \in InGraph /\ item[p] \in Deployments => Subject[item[p]] \in profiles
       /\ pc[p] \in {"link", "edge", "incident"} => Subject[item[p]] \in nodes
       /\ pc[p] \in {"profile"} \cup InGraph =>
            \A n \in Links[item[p]] : n \in links[p] \/ <<Subject[item[p]], n>> \in edges
(* A lower head has a lower safe head: an endpoint that lags is only cautious. *)
LEMMA SafeHeadGrows ==
  ASSUME NEW h \in Nat, NEW g \in Nat, h <= g
  PROVE SafeHead(h) <= SafeHead(g)
BY SettingsAssumption DEF SafeHead

(* Before the first cycle there is no cursor to confirm. *)
LEMMA WindowInit == Init => WindowOK
<1> SUFFICES ASSUME Init PROVE WindowOK
  OBVIOUS
<1>1. head \in Nat
  BY SettingsAssumption DEF Init
<1>2. SafeHead(head) \in Nat
  BY <1>1, SafeHeadType
<1>3. QED
  BY <1>2 DEF Init, WindowOK, NoCursor, Scanning, InDeploy, InGraph

(* No step moves a window, or the cursor, above the safe head. *)
LEMMA WindowStep == Typed /\ WindowOK /\ [Next]_vars => WindowOK'
<1> SUFFICES ASSUME Typed, WindowOK, [Next]_vars PROVE WindowOK'
  OBVIOUS
<1>0. SafeHead(head) \in Nat
  BY SafeHeadType DEF Typed, TypeOK
<1> USE DEF Typed, TypeOK, WindowOK, Scanning, InDeploy, InGraph,
            tables, window, local, history, Goto
<1>1. ASSUME NewBlock PROVE WindowOK'
  <2>1. SafeHead(head) <= SafeHead(head)'
    BY <1>1, SettingsAssumption DEF NewBlock, SafeHead
  <2>2. SafeHead(head)' \in Nat
    BY <1>1, SettingsAssumption DEF NewBlock, SafeHead
  <2>3. cursor' <= SafeHead(head)'
    BY <1>1, <1>0, <2>1, <2>2 DEF NewBlock, NoCursor
  <2>4. \A q \in Scanners : last'[q] <= SafeHead(head)'
    BY <1>1, <1>0, <2>1, <2>2 DEF NewBlock
  <2>5. QED
    BY <1>1, <2>3, <2>4 DEF NewBlock
<1>2. ASSUME NEW p \in Scanners, NEW h \in 0..MaxHead, BeginCycle(p, h) PROVE WindowOK'
  <2>1. SafeHead(h) <= SafeHead(head)
    BY <1>2, SafeHeadGrows DEF BeginCycle
  <2>2. QED
    BY <1>2, <2>1 DEF BeginCycle
<1>3. ASSUME NEW p \in Scanners, ReadOutbox(p) PROVE WindowOK'
  BY <1>3 DEF ReadOutbox, LoadOutbox
<1>4. ASSUME NEW p \in Scanners, NEW e \in Events,
             Skip(p, e) \/ Deliver(p, e) \/ DeliveryFails(p, e) \/ Mark(p, e)
      PROVE WindowOK'
  BY <1>4 DEF Skip, Deliver, DeliveryFails, Mark, SkipAlert, SendAlert,
              SendFails, MarkAlerted
<1>5. ASSUME NEW p \in Scanners, FlushDone(p) \/ NothingNew(p) PROVE WindowOK'
  BY <1>5 DEF FlushDone, NothingNew
<1>6. ASSUME NEW p \in Scanners, CutWindow(p) PROVE WindowOK'
  <2>1. /\ EndBlock(next[p], last[p]) \in Nat
        /\ EndBlock(next[p], last[p]) <= last[p]
        /\ next[p] <= EndBlock(next[p], last[p])
    BY <1>6, SettingsAssumption DEF CutWindow, EndBlock
  <2>2. QED
    BY <1>6, <1>0, <2>1 DEF CutWindow
<1>7. ASSUME NEW p \in Scanners, NEW u \in Upgrades, TakeUpgrade(p, u) PROVE WindowOK'
  BY <1>7 DEF TakeUpgrade
<1>8. ASSUME NEW p \in Scanners, FetchBlock(p) PROVE WindowOK'
  BY <1>8 DEF FetchBlock
<1>9. ASSUME NEW p \in Scanners, NEW d \in Deployments,
             TakeDeployment(p, d) \/ NoAnswer(p, d)
      PROVE WindowOK'
  BY <1>9 DEF TakeDeployment, NoAnswer
<1>10. ASSUME NEW p \in Scanners, AdvanceCursor(p) PROVE WindowOK'
  <2>1. next[p] \in Nat /\ last[p] \in Nat /\ next[p] <= last[p] /\ last[p] <= SafeHead(head)
    BY <1>10 DEF AdvanceCursor
  <2>2. SafeHead(head)' = SafeHead(head)
    BY <1>10 DEF AdvanceCursor
  <2>3. cursor' <= SafeHead(head)'
    BY <1>10, <1>0, <2>1, <2>2 DEF AdvanceCursor
  <2>4. \A q \in Scanners : /\ last'[q] <= SafeHead(head)'
                            /\ pc'[q] \in Scanning => next'[q] <= last'[q]
    BY <1>10, <1>0, <2>1, <2>2 DEF AdvanceCursor
  <2>5. QED
    BY <2>3, <2>4
<1>11. ASSUME NEW p \in Scanners, AddDeployment(p) PROVE WindowOK'
  BY <1>11 DEF AddDeployment
<1>12. ASSUME NEW p \in Scanners, KnownDeployment(p) PROVE WindowOK'
  BY <1>12 DEF KnownDeployment, NextItem
<1>13. ASSUME NEW p \in Scanners, ReadSimilar(p) PROVE WindowOK'
  BY <1>13 DEF ReadSimilar
<1>14. ASSUME NEW p \in Scanners, UpsertProfile(p) PROVE WindowOK'
  BY <1>14 DEF UpsertProfile
<1>15. ASSUME NEW p \in Scanners, SubjectNode(p) PROVE WindowOK'
  BY <1>15 DEF SubjectNode
<1>16. ASSUME NEW p \in Scanners, NEW n \in Nodes, LinkNode(p, n) PROVE WindowOK'
  BY <1>16 DEF LinkNode
<1>17. ASSUME NEW p \in Scanners, LinkEdge(p) PROVE WindowOK'
  BY <1>17 DEF LinkEdge
<1>18. ASSUME NEW p \in Scanners, NEW s \in Scores, RecordEvent(p, s) PROVE WindowOK'
  BY <1>18 DEF RecordEvent
<1>19. ASSUME NEW p \in Scanners, KnownEvent(p) \/ Promote(p) PROVE WindowOK'
  BY <1>19 DEF KnownEvent, Promote, NextItem
<1>20. ASSUME NEW p \in Scanners, Finish(p) \/ Abort(p) \/ Crash(p) PROVE WindowOK'
  BY <1>20, <1>0 DEF Finish, Abort, Crash, Reset
<1>21. CASE UNCHANGED vars
  BY <1>21 DEF vars
<1>22. QED
  BY <1>1, <1>2, <1>3, <1>4, <1>5, <1>6, <1>7, <1>8, <1>9, <1>10, <1>11, <1>12,
     <1>13, <1>14, <1>15, <1>16, <1>17, <1>18, <1>19, <1>20, <1>21
     DEF Next, Step

(* Without a cursor nothing is behind it. *)
LEMMA CoverageInit == Init => CoverageOK
BY ChainAssumption
   DEF Init, CoverageOK, NoBlockSkipped, NoCursor, InBlock, InDeploy, InGraph

(* A block is left only when each of its deployments is stored or unanswered. *)
LEMMA CoverageStep == Typed /\ CoverageOK /\ [Next]_vars => CoverageOK'
<1> SUFFICES ASSUME Typed, CoverageOK, [Next]_vars PROVE CoverageOK'
  OBVIOUS
<1> USE ChainAssumption
    DEF Typed, TypeOK, FrameOK, CoverageOK, NoBlockSkipped, Handled, InBlock, InDeploy,
        InGraph, tables, window, local, history, Goto
<1>1. ASSUME NewBlock PROVE CoverageOK'
  BY <1>1 DEF NewBlock
<1>2. ASSUME NEW p \in Scanners, NEW h \in 0..MaxHead,
             BeginCycle(p, h)
      PROVE CoverageOK'
  <2>1. SafeHead(h) \in Nat /\ StartBlock(SafeHead(h)) \in Nat
    BY <1>2, SafeHeadType, StartBlockType DEF BeginCycle
  <2>2. base <= base' /\ base' \in Nat
    BY <1>2, <2>1 DEF BeginCycle
  <2>3. \A d \in Deployments :
          base' <= BlockOf[d] /\ BlockOf[d] < StartBlock(SafeHead(h)) => Handled(d)
    BY <1>2, <2>1 DEF BeginCycle, StartBlock, NoCursor
  <2>4. QED
    BY <1>2, <2>1, <2>2, <2>3 DEF BeginCycle
<1>3. ASSUME NEW p \in Scanners, ReadOutbox(p) PROVE CoverageOK'
  BY <1>3 DEF ReadOutbox, LoadOutbox
<1>4. ASSUME NEW p \in Scanners, NEW e \in Events,
             Skip(p, e) \/ Deliver(p, e) \/ DeliveryFails(p, e) \/ Mark(p, e)
      PROVE CoverageOK'
  BY <1>4 DEF Skip, Deliver, DeliveryFails, Mark, SkipAlert, SendAlert,
              SendFails, MarkAlerted
<1>5. ASSUME NEW p \in Scanners, FlushDone(p) \/ NothingNew(p) PROVE CoverageOK'
  BY <1>5 DEF FlushDone, NothingNew
<1>6. ASSUME NEW p \in Scanners, CutWindow(p) PROVE CoverageOK'
  BY <1>6 DEF CutWindow
<1>7. ASSUME NEW p \in Scanners, NEW u \in Upgrades, TakeUpgrade(p, u) PROVE CoverageOK'
  BY <1>7 DEF TakeUpgrade, Upgrades
<1>8. ASSUME NEW p \in Scanners, FetchBlock(p) PROVE CoverageOK'
  BY <1>8 DEF FetchBlock
<1>9. ASSUME NEW p \in Scanners, NEW d \in Deployments,
             TakeDeployment(p, d) \/ NoAnswer(p, d)
      PROVE CoverageOK'
  BY <1>9 DEF TakeDeployment, NoAnswer
<1>10. ASSUME NEW p \in Scanners, AdvanceCursor(p) PROVE CoverageOK'
  BY <1>10 DEF AdvanceCursor
<1>11. ASSUME NEW p \in Scanners, AddDeployment(p) PROVE CoverageOK'
  BY <1>11 DEF AddDeployment
<1>12. ASSUME NEW p \in Scanners, KnownDeployment(p) PROVE CoverageOK'
  BY <1>12 DEF KnownDeployment, NextItem
<1>13. ASSUME NEW p \in Scanners, ReadSimilar(p) PROVE CoverageOK'
  BY <1>13 DEF ReadSimilar
<1>14. ASSUME NEW p \in Scanners, UpsertProfile(p) PROVE CoverageOK'
  BY <1>14 DEF UpsertProfile
<1>15. ASSUME NEW p \in Scanners, SubjectNode(p) PROVE CoverageOK'
  BY <1>15 DEF SubjectNode
<1>16. ASSUME NEW p \in Scanners, NEW n \in Nodes, LinkNode(p, n) PROVE CoverageOK'
  BY <1>16 DEF LinkNode
<1>17. ASSUME NEW p \in Scanners, LinkEdge(p) PROVE CoverageOK'
  BY <1>17 DEF LinkEdge
<1>18. ASSUME NEW p \in Scanners, NEW s \in Scores, RecordEvent(p, s) PROVE CoverageOK'
  BY <1>18 DEF RecordEvent
<1>19. ASSUME NEW p \in Scanners, KnownEvent(p) \/ Promote(p) PROVE CoverageOK'
  BY <1>19 DEF KnownEvent, Promote, NextItem
<1>20. ASSUME NEW p \in Scanners, Finish(p) \/ Abort(p) \/ Crash(p) PROVE CoverageOK'
  BY <1>20 DEF Finish, Abort, Crash, Reset
<1>21. CASE UNCHANGED vars
  BY <1>21 DEF vars
<1>22. QED
  BY <1>1, <1>2, <1>3, <1>4, <1>5, <1>6, <1>7, <1>8, <1>9, <1>10, <1>11, <1>12,
     <1>13, <1>14, <1>15, <1>16, <1>17, <1>18, <1>19, <1>20, <1>21
     DEF Next, Step

(* Without a cursor no log is behind it. *)
LEMMA ReportedInit == Init => ReportedOK
BY ChainAssumption
   DEF Init, OutboxInit, ReportedOK, UpgradesReported, NoCursor, Upgrades, InBlock, InLogs,
       InDeploy, InGraph

(* A window is entered only when each of its logs is recorded. *)
LEMMA ReportedStep == Typed /\ WindowOK /\ ReportedOK /\ [Next]_vars => ReportedOK'
<1> SUFFICES ASSUME Typed, WindowOK, ReportedOK, [Next]_vars PROVE ReportedOK'
  OBVIOUS
<1> USE ChainAssumption
    DEF Typed, TypeOK, OutboxTypeOK, FrameOK, ReportedOK, UpgradesReported, Upgrades, InBlock,
        InLogs, InDeploy, InGraph, outboxVars, tables, window, local, history, Goto
<1>1. ASSUME NewBlock PROVE ReportedOK'
  BY <1>1 DEF NewBlock
<1>2. ASSUME NEW p \in Scanners, NEW h \in 0..MaxHead,
             BeginCycle(p, h)
      PROVE ReportedOK'
  <2>1. SafeHead(h) \in Nat /\ StartBlock(SafeHead(h)) \in Nat
    BY <1>2, SafeHeadType, StartBlockType DEF BeginCycle
  <2>2. base <= base' /\ base' \in Nat
    BY <1>2, <2>1 DEF BeginCycle
  <2>3. \A u \in Upgrades :
          base' <= BlockOf[u] /\ BlockOf[u] < StartBlock(SafeHead(h)) => rowid[u] > 0
    BY <1>2, <2>1 DEF BeginCycle, StartBlock, NoCursor
  <2>4. QED
    BY <1>2, <2>1, <2>2, <2>3 DEF BeginCycle
<1>3. ASSUME NEW p \in Scanners, ReadOutbox(p) PROVE ReportedOK'
  BY <1>3 DEF ReadOutbox, LoadOutbox
<1>4. ASSUME NEW p \in Scanners, NEW e \in Events,
             Skip(p, e) \/ Deliver(p, e) \/ DeliveryFails(p, e) \/ Mark(p, e)
      PROVE ReportedOK'
  BY <1>4 DEF Skip, Deliver, DeliveryFails, Mark, SkipAlert, SendAlert,
              SendFails, MarkAlerted
<1>5. ASSUME NEW p \in Scanners, FlushDone(p) \/ NothingNew(p) PROVE ReportedOK'
  BY <1>5 DEF FlushDone, NothingNew
<1>6. ASSUME NEW p \in Scanners, CutWindow(p) PROVE ReportedOK'
  <2>1. EndBlock(next[p], last[p]) \in Nat
    BY <1>6, EndBlockType
  <2>2. QED
    BY <1>6, <2>1 DEF CutWindow, UpgradesIn
<1>7. ASSUME NEW p \in Scanners, NEW u \in Upgrades, TakeUpgrade(p, u) PROVE ReportedOK'
  BY <1>7 DEF TakeUpgrade
<1>8. ASSUME NEW p \in Scanners, FetchBlock(p) PROVE ReportedOK'
  BY <1>8 DEF FetchBlock
<1>9. ASSUME NEW p \in Scanners, NEW d \in Deployments,
             TakeDeployment(p, d) \/ NoAnswer(p, d)
      PROVE ReportedOK'
  BY <1>9 DEF TakeDeployment, NoAnswer
<1>10. ASSUME NEW p \in Scanners, AdvanceCursor(p) PROVE ReportedOK'
  BY <1>10 DEF AdvanceCursor, WindowOK, Scanning
<1>11. ASSUME NEW p \in Scanners, AddDeployment(p) PROVE ReportedOK'
  BY <1>11 DEF AddDeployment
<1>12. ASSUME NEW p \in Scanners, KnownDeployment(p) PROVE ReportedOK'
  BY <1>12 DEF KnownDeployment, NextItem
<1>13. ASSUME NEW p \in Scanners, ReadSimilar(p) PROVE ReportedOK'
  BY <1>13 DEF ReadSimilar
<1>14. ASSUME NEW p \in Scanners, UpsertProfile(p) PROVE ReportedOK'
  BY <1>14 DEF UpsertProfile
<1>15. ASSUME NEW p \in Scanners, SubjectNode(p) PROVE ReportedOK'
  BY <1>15 DEF SubjectNode
<1>16. ASSUME NEW p \in Scanners, NEW n \in Nodes, LinkNode(p, n) PROVE ReportedOK'
  BY <1>16 DEF LinkNode
<1>17. ASSUME NEW p \in Scanners, LinkEdge(p) PROVE ReportedOK'
  BY <1>17 DEF LinkEdge
<1>18. ASSUME NEW p \in Scanners, NEW s \in Scores, RecordEvent(p, s) PROVE ReportedOK'
  <2>1. Cardinality(Recorded) + 1 > 0 /\ Cardinality(Recorded) + 1 \in Nat
    BY RowidType
  <2>2. \A e \in Events : rowid[e] > 0 => rowid'[e] > 0
    BY <1>18, <2>1 DEF RecordEvent, AddEvent
  <2>3. rowid'[item[p]] > 0
    BY <1>18, <2>1 DEF RecordEvent, AddEvent
  <2>4. QED
    BY <1>18, <2>2, <2>3 DEF RecordEvent
<1>19. ASSUME NEW p \in Scanners, KnownEvent(p) \/ Promote(p) PROVE ReportedOK'
  BY <1>19 DEF KnownEvent, Promote, NextItem
<1>20. ASSUME NEW p \in Scanners, Finish(p) \/ Abort(p) \/ Crash(p) PROVE ReportedOK'
  BY <1>20 DEF Finish, Abort, Crash, Reset
<1>21. CASE UNCHANGED vars
  BY <1>21 DEF vars
<1>22. QED
  BY <1>1, <1>2, <1>3, <1>4, <1>5, <1>6, <1>7, <1>8, <1>9, <1>10, <1>11, <1>12,
     <1>13, <1>14, <1>15, <1>16, <1>17, <1>18, <1>19, <1>20, <1>21
     DEF Next, Step

(* An empty database has no event that lacks its evidence. *)
LEMMA EvidenceInit == Init => EvidenceOK
BY DEF Init, OutboxInit, EvidenceOK, EvidenceBeforeEvent, NoDanglingEdge, Recorded, InGraph

(* The upserts before add_event have stored all the evidence of the event. *)
LEMMA EvidenceStep == Typed /\ CoverageOK /\ EvidenceOK /\ [Next]_vars => EvidenceOK'
<1> SUFFICES ASSUME Typed, CoverageOK, EvidenceOK, [Next]_vars PROVE EvidenceOK'
  OBVIOUS
<1> USE ChainAssumption
    DEF Typed, TypeOK, OutboxTypeOK, FrameOK, EvidenceOK, EvidenceBeforeEvent,
        NoDanglingEdge, Recorded, InDeploy, InGraph, outboxVars, tables, window, local,
        history, Goto
<1>1. ASSUME NewBlock PROVE EvidenceOK'
  BY <1>1 DEF NewBlock
<1>2. ASSUME NEW p \in Scanners, NEW h \in 0..MaxHead,
             BeginCycle(p, h)
      PROVE EvidenceOK'
  BY <1>2 DEF BeginCycle
<1>3. ASSUME NEW p \in Scanners, ReadOutbox(p) PROVE EvidenceOK'
  BY <1>3 DEF ReadOutbox, LoadOutbox
<1>4. ASSUME NEW p \in Scanners, NEW e \in Events,
             Skip(p, e) \/ Deliver(p, e) \/ DeliveryFails(p, e) \/ Mark(p, e)
      PROVE EvidenceOK'
  BY <1>4 DEF Skip, Deliver, DeliveryFails, Mark, SkipAlert, SendAlert,
              SendFails, MarkAlerted
<1>5. ASSUME NEW p \in Scanners, FlushDone(p) \/ NothingNew(p) PROVE EvidenceOK'
  BY <1>5 DEF FlushDone, NothingNew
<1>6. ASSUME NEW p \in Scanners, CutWindow(p) PROVE EvidenceOK'
  BY <1>6 DEF CutWindow
<1>7. ASSUME NEW p \in Scanners, NEW u \in Upgrades, TakeUpgrade(p, u) PROVE EvidenceOK'
  BY <1>7 DEF TakeUpgrade, Upgrades
<1>8. ASSUME NEW p \in Scanners, FetchBlock(p) PROVE EvidenceOK'
  BY <1>8 DEF FetchBlock
<1>9. ASSUME NEW p \in Scanners, NEW d \in Deployments,
             TakeDeployment(p, d) \/ NoAnswer(p, d)
      PROVE EvidenceOK'
  BY <1>9 DEF TakeDeployment, NoAnswer
<1>10. ASSUME NEW p \in Scanners, AdvanceCursor(p) PROVE EvidenceOK'
  BY <1>10 DEF AdvanceCursor
<1>11. ASSUME NEW p \in Scanners, AddDeployment(p) PROVE EvidenceOK'
  BY <1>11 DEF AddDeployment
<1>12. ASSUME NEW p \in Scanners, KnownDeployment(p) PROVE EvidenceOK'
  BY <1>12 DEF KnownDeployment, NextItem
<1>13. ASSUME NEW p \in Scanners, ReadSimilar(p) PROVE EvidenceOK'
  BY <1>13 DEF ReadSimilar
<1>14. ASSUME NEW p \in Scanners, UpsertProfile(p) PROVE EvidenceOK'
  BY <1>14 DEF UpsertProfile
<1>15. ASSUME NEW p \in Scanners, SubjectNode(p) PROVE EvidenceOK'
  BY <1>15 DEF SubjectNode
<1>16. ASSUME NEW p \in Scanners, NEW n \in Nodes, LinkNode(p, n) PROVE EvidenceOK'
  BY <1>16 DEF LinkNode
<1>17. ASSUME NEW p \in Scanners, LinkEdge(p) PROVE EvidenceOK'
  BY <1>17 DEF LinkEdge
<1>18. ASSUME NEW p \in Scanners, NEW s \in Scores, RecordEvent(p, s) PROVE EvidenceOK'
  <2>1. \A e \in Events : rowid'[e] > 0 => rowid[e] > 0 \/ e = item[p]
    BY <1>18 DEF RecordEvent, AddEvent
  <2>2. item[p] \in Deployments => Subject[item[p]] \in deployments
    BY <1>18 DEF RecordEvent, CoverageOK, InBlock
  <2>3. \A n \in Links[item[p]] : <<Subject[item[p]], n>> \in edges
    BY <1>18 DEF RecordEvent
  <2>4. EvidenceBeforeEvent'
    BY <1>18, <2>1, <2>2, <2>3 DEF RecordEvent
  <2>5. QED
    BY <1>18, <2>4 DEF RecordEvent
<1>19. ASSUME NEW p \in Scanners, KnownEvent(p) \/ Promote(p) PROVE EvidenceOK'
  BY <1>19 DEF KnownEvent, Promote, NextItem
<1>20. ASSUME NEW p \in Scanners, Finish(p) \/ Abort(p) \/ Crash(p) PROVE EvidenceOK'
  BY <1>20 DEF Finish, Abort, Crash, Reset
<1>21. CASE UNCHANGED vars
  BY <1>21 DEF vars
<1>22. QED
  BY <1>1, <1>2, <1>3, <1>4, <1>5, <1>6, <1>7, <1>8, <1>9, <1>10, <1>11, <1>12,
     <1>13, <1>14, <1>15, <1>16, <1>17, <1>18, <1>19, <1>20, <1>21
     DEF Next, Step

-----------------------------------------------------------------------------
(* The inductive invariant and what follows from it for every chain, every  *)
(* setting and any number of scanners.                                      *)
IndInv == Typed /\ WindowOK /\ CoverageOK /\ ReportedOK /\ EvidenceOK

(* The inductive invariant holds in every reachable state. *)
LEMMA Invariance == Spec => []IndInv
<1>1. Init => IndInv
  BY TypedInit, WindowInit, CoverageInit, ReportedInit, EvidenceInit DEF IndInv
<1>2. IndInv /\ [Next]_vars => IndInv'
  BY TypedStep, WindowStep, CoverageStep, ReportedStep, EvidenceStep DEF IndInv
<1>3. QED
  BY <1>1, <1>2, PTL DEF Spec

(* Every variable keeps its type. *)
THEOREM TypeCorrect == Spec => []TypeOK
<1>1. IndInv => TypeOK
  BY DEF IndInv, Typed
<1>2. QED
  BY <1>1, Invariance, PTL

(* set_cursor never stores a block that lacks its confirmations. *)
THEOREM CursorIsConfirmed == Spec => []CursorConfirmed
<1>1. IndInv => CursorConfirmed
  BY SettingsAssumption DEF IndInv, Typed, TypeOK, WindowOK, CursorConfirmed, SafeHead, NoCursor
<1>2. QED
  BY <1>1, Invariance, PTL

(* No aborted cycle, crash or concurrent scanner makes the cursor pass a     *)
(* deployment that was answered and not stored.                              *)
THEOREM CursorSkipsNothing == Spec => []NoBlockSkipped
<1>1. IndInv => NoBlockSkipped
  BY DEF IndInv, CoverageOK
<1>2. QED
  BY <1>1, Invariance, PTL

(* Every proxy control log up to the cursor has its event. *)
THEOREM LogsAreReported == Spec => []UpgradesReported
<1>1. IndInv => UpgradesReported
  BY DEF IndInv, ReportedOK
<1>2. QED
  BY <1>1, Invariance, PTL

(* No event is recorded before the evidence it refers to. *)
THEOREM EvidenceComesFirst == Spec => []EvidenceBeforeEvent
<1>1. IndInv => EvidenceBeforeEvent
  BY DEF IndInv, EvidenceOK
<1>2. QED
  BY <1>1, Invariance, PTL

(* The identity graph never has an edge without both of its nodes. *)
THEOREM EdgesHaveNodes == Spec => []NoDanglingEdge
<1>1. IndInv => NoDanglingEdge
  BY DEF IndInv, EvidenceOK
<1>2. QED
  BY <1>1, Invariance, PTL

-----------------------------------------------------------------------------
(* The scanner implements the case ledger: the mapping takes the rows of the *)
(* events table to the ledger's recorded events and leaves the other tables  *)
(* as they are.                                                              *)

(* Row ids are given out in order, so that the row a flush has reached is    *)
(* one row; a client that is about to mark a row has delivered it.           *)
RowsOK ==
  /\ \A e \in Events : rowid[e] <= Cardinality(Recorded)
  /\ \A e, f \in Recorded : rowid[e] = rowid[f] => e = f
  /\ \A p \in Scanners : batch[p] \subseteq Recorded
  /\ \A p \in Scanners : pc[p] = "mark" =>
       \A e \in Events : Reached(p, e) => e \in delivered

(* The outbox starts empty. *)
LEMMA RowsInit == Init => RowsOK
<1>1. Cardinality({}) = 0
  BY FS_EmptySet
<1>2. QED
  BY <1>1 DEF Init, OutboxInit, RowsOK, Recorded, Scanners

(* Row ids stay distinct, and a row about to be marked has been delivered. *)
LEMMA RowsStep == Typed /\ RowsOK /\ [Next]_vars => RowsOK'
<1> SUFFICES ASSUME Typed, RowsOK, [Next]_vars PROVE RowsOK'
  OBVIOUS
<1>0. /\ OutboxTypeOK
      /\ pc \in [Scanners -> Stages]
      /\ batch \in [Scanners -> SUBSET Events]
      /\ \A q \in Scanners : pc[q] \in InGraph => item[q] \in Events
  BY DEF Typed, TypeOK, OutboxTypeOK, FrameOK, Scanners
<1> USE DEF Reached, Recorded, outboxVars, Goto
<1>1. ASSUME NewBlock PROVE RowsOK'
  BY <1>0, <1>1 DEF RowsOK, NewBlock
<1>2. ASSUME NEW p \in Scanners, NEW h \in 0..MaxHead, BeginCycle(p, h) PROVE RowsOK'
  BY <1>0, <1>2 DEF RowsOK, BeginCycle
<1>3. ASSUME NEW p \in Scanners, ReadOutbox(p) PROVE RowsOK'
  BY <1>0, <1>3 DEF RowsOK, ReadOutbox, LoadOutbox, PendingAlerts, Unalerted
<1>4. ASSUME NEW p \in Scanners, NEW e \in Events,
             Skip(p, e) \/ Deliver(p, e) \/ DeliveryFails(p, e) \/ Mark(p, e)
      PROVE RowsOK'
  <2>1. CASE Skip(p, e)
    BY <1>0, <2>1 DEF RowsOK, Skip, SkipAlert, Drop
  <2>2. CASE Deliver(p, e)
    BY <1>0, <2>2 DEF RowsOK, Deliver, SendAlert, OutboxTypeOK
  <2>3. CASE DeliveryFails(p, e)
    BY <1>0, <2>3 DEF RowsOK, DeliveryFails, SendFails, Drop
  <2>4. CASE Mark(p, e)
    BY <1>0, <2>4 DEF RowsOK, Mark, MarkAlerted, Drop
  <2>5. QED
    BY <1>4, <2>1, <2>2, <2>3, <2>4
<1>5. ASSUME NEW p \in Scanners, FlushDone(p) \/ NothingNew(p) PROVE RowsOK'
  BY <1>0, <1>5 DEF RowsOK, FlushDone, NothingNew
<1>6. ASSUME NEW p \in Scanners, CutWindow(p) PROVE RowsOK'
  BY <1>0, <1>6 DEF RowsOK, CutWindow
<1>7. ASSUME NEW p \in Scanners, NEW u \in Upgrades, TakeUpgrade(p, u) PROVE RowsOK'
  BY <1>0, <1>7 DEF RowsOK, TakeUpgrade
<1>8. ASSUME NEW p \in Scanners, FetchBlock(p) PROVE RowsOK'
  BY <1>0, <1>8 DEF RowsOK, FetchBlock
<1>9. ASSUME NEW p \in Scanners, NEW d \in Deployments,
             TakeDeployment(p, d) \/ NoAnswer(p, d)
      PROVE RowsOK'
  BY <1>0, <1>9 DEF RowsOK, TakeDeployment, NoAnswer
<1>10. ASSUME NEW p \in Scanners, AdvanceCursor(p) PROVE RowsOK'
  BY <1>0, <1>10 DEF RowsOK, AdvanceCursor
<1>11. ASSUME NEW p \in Scanners, AddDeployment(p) PROVE RowsOK'
  BY <1>0, <1>11 DEF RowsOK, AddDeployment
<1>12. ASSUME NEW p \in Scanners, KnownDeployment(p) PROVE RowsOK'
  BY <1>0, <1>12 DEF RowsOK, KnownDeployment, NextItem
<1>13. ASSUME NEW p \in Scanners, ReadSimilar(p) PROVE RowsOK'
  BY <1>0, <1>13 DEF RowsOK, ReadSimilar
<1>14. ASSUME NEW p \in Scanners, UpsertProfile(p) PROVE RowsOK'
  BY <1>0, <1>14 DEF RowsOK, UpsertProfile
<1>15. ASSUME NEW p \in Scanners, SubjectNode(p) PROVE RowsOK'
  BY <1>0, <1>15 DEF RowsOK, SubjectNode
<1>16. ASSUME NEW p \in Scanners, NEW n \in Nodes, LinkNode(p, n) PROVE RowsOK'
  BY <1>0, <1>16 DEF RowsOK, LinkNode
<1>17. ASSUME NEW p \in Scanners, LinkEdge(p) PROVE RowsOK'
  BY <1>0, <1>17 DEF RowsOK, LinkEdge
<1>18. ASSUME NEW p \in Scanners, NEW s \in Scores, RecordEvent(p, s) PROVE RowsOK'
  <2>0. item[p] \in Events
    BY <1>18, <1>0 DEF RecordEvent, InGraph
  <2>1. AddEvent(item[p], s) /\ batch' = batch /\ delivered' = delivered
    BY <1>18 DEF RecordEvent
  <2> HIDE DEF Recorded
  <2>2. /\ Recorded' = Recorded \cup {item[p]}
        /\ item[p] \notin Recorded
        /\ Cardinality(Recorded') = Cardinality(Recorded) + 1
        /\ rowid'[item[p]] = Cardinality(Recorded) + 1
        /\ \A f \in Events \ {item[p]} : rowid'[f] = rowid[f]
    BY <1>0, <2>0, <2>1, NewRow
  <2>3. Cardinality(Recorded) \in Nat /\ rowid \in [Events -> Nat]
    BY <1>0, RowidType DEF OutboxTypeOK
  <2>4. \A e \in Events : rowid'[e] <= Cardinality(Recorded')
    BY <2>0, <2>2, <2>3 DEF RowsOK
  <2>5. \A e, f \in Recorded' : rowid'[e] = rowid'[f] => e = f
    <3>1. Recorded \subseteq Events
      BY DEF Recorded
    <3>2. QED
      BY <2>0, <2>2, <2>3, <3>1 DEF RowsOK
  <2>6. \A q \in Scanners : batch'[q] \subseteq Recorded'
    BY <2>1, <2>2 DEF RowsOK
  <2>7. \A q \in Scanners : pc'[q] = "mark" =>
          \A e \in Events : Reached(q, e)' => e \in delivered'
    <3>1. SUFFICES ASSUME NEW q \in Scanners, pc'[q] = "mark",
                          NEW e \in Events, Reached(q, e)'
                   PROVE e \in delivered
      BY <2>1
    <3>2. pc[q] = "mark"
      BY <1>18, <1>0, <3>1 DEF RecordEvent
    <3>3. batch[q] \subseteq Recorded /\ Recorded \subseteq Events
      BY DEF RowsOK, Recorded
    <3>4. Reached(q, e)
      BY <2>1, <2>2, <3>1, <3>3
    <3>5. QED
      BY <3>2, <3>4 DEF RowsOK
  <2>8. QED
    BY <2>4, <2>5, <2>6, <2>7 DEF RowsOK
<1>19. ASSUME NEW p \in Scanners, KnownEvent(p) \/ Promote(p) PROVE RowsOK'
  BY <1>0, <1>19 DEF RowsOK, KnownEvent, Promote, OpenIncident, NextItem
<1>20. ASSUME NEW p \in Scanners, Finish(p) \/ Abort(p) \/ Crash(p) PROVE RowsOK'
  <2>1. CASE Finish(p)
    BY <1>0, <2>1 DEF RowsOK, Finish
  <2>2. CASE Abort(p)
    BY <1>0, <2>2 DEF RowsOK, Abort
  <2>3. CASE Crash(p)
    BY <1>0, <2>3 DEF RowsOK, Crash
  <2>4. QED
    BY <1>20, <2>1, <2>2, <2>3
<1>21. CASE UNCHANGED vars
  BY <1>21 DEF RowsOK, vars
<1>22. QED
  BY <1>1, <1>2, <1>3, <1>4, <1>5, <1>6, <1>7, <1>8, <1>9, <1>10, <1>11, <1>12,
     <1>13, <1>14, <1>15, <1>16, <1>17, <1>18, <1>19, <1>20, <1>21
     DEF Next, Step

-----------------------------------------------------------------------------
(* The ledger starts empty. *)
LEMMA LedgerInit == Init => Ledger!Init
BY DEF Init, OutboxInit, Ledger!Init, Recorded

(* Every step of a scanner is a step of the ledger, or changes nothing of it. *)
LEMMA LedgerStep == Typed /\ ReportedOK /\ RowsOK /\ [Next]_vars => [Ledger!Next]_(Ledger!vars)
<1> SUFFICES ASSUME Typed, ReportedOK, RowsOK, [Next]_vars
             PROVE Ledger!Next \/ UNCHANGED Ledger!vars
  OBVIOUS
<1>0. /\ OutboxTypeOK
      /\ \A q \in Scanners : pc[q] \in InGraph => item[q] \in Events
      /\ \A q \in Scanners : pc[q] = "incident" => item[q] \in Recorded
  BY DEF Typed, TypeOK, FrameOK, ReportedOK, Recorded, InGraph
<1> DEFINE Goal == Ledger!Next \/ UNCHANGED Ledger!vars
<1> USE DEF Ledger!vars, outboxVars
<1>1. ASSUME NewBlock PROVE Goal
  BY <1>1 DEF Recorded, NewBlock
<1>2. ASSUME NEW p \in Scanners, NEW h \in 0..MaxHead, BeginCycle(p, h) PROVE Goal
  BY <1>2 DEF Recorded, BeginCycle
<1>3. ASSUME NEW p \in Scanners, ReadOutbox(p) PROVE Goal
  BY <1>3 DEF Recorded, ReadOutbox, LoadOutbox
<1>4. ASSUME NEW p \in Scanners, NEW e \in Events,
             Skip(p, e) \/ Deliver(p, e) \/ DeliveryFails(p, e) \/ Mark(p, e)
      PROVE Goal
  <2>1. CASE Skip(p, e)
    BY <2>1 DEF Recorded, Skip, SkipAlert
  <2>2. CASE Deliver(p, e)
    <3>1. e \in Recorded /\ score[e] >= AlertMin
      BY <2>2 DEF RowsOK, Deliver, SendAlert, Reached, Sendable
    <3>2. Ledger!Deliver(e)
      BY <2>2, <3>1 DEF Recorded, Deliver, SendAlert, Ledger!Deliver
    <3>3. QED
      BY <3>2 DEF Ledger!Next
  <2>3. CASE DeliveryFails(p, e)
    <3>1. e \in Recorded /\ score[e] >= AlertMin
      BY <2>3 DEF RowsOK, DeliveryFails, SendFails, Reached, Sendable
    <3>2. Ledger!Deliver(e) \/ UNCHANGED Ledger!vars
      BY <2>3, <3>1 DEF Recorded, DeliveryFails, SendFails, Ledger!Deliver
    <3>3. QED
      BY <3>2 DEF Ledger!Next
  <2>4. CASE Mark(p, e)
    <3>1. e \in delivered
      BY <2>4 DEF RowsOK, Mark, MarkAlerted
    <3>2. Ledger!Mark(e)
      BY <2>4, <3>1 DEF Recorded, Mark, MarkAlerted, Ledger!Mark
    <3>3. QED
      BY <3>2 DEF Ledger!Next
  <2>5. QED
    BY <1>4, <2>1, <2>2, <2>3, <2>4
<1>5. ASSUME NEW p \in Scanners, FlushDone(p) \/ NothingNew(p) PROVE Goal
  BY <1>5 DEF Recorded, FlushDone, NothingNew
<1>6. ASSUME NEW p \in Scanners, CutWindow(p) PROVE Goal
  BY <1>6 DEF Recorded, CutWindow
<1>7. ASSUME NEW p \in Scanners, NEW u \in Upgrades, TakeUpgrade(p, u) PROVE Goal
  BY <1>7 DEF Recorded, TakeUpgrade
<1>8. ASSUME NEW p \in Scanners, FetchBlock(p) PROVE Goal
  BY <1>8 DEF Recorded, FetchBlock
<1>9. ASSUME NEW p \in Scanners, NEW d \in Deployments,
             TakeDeployment(p, d) \/ NoAnswer(p, d)
      PROVE Goal
  BY <1>9 DEF Recorded, TakeDeployment, NoAnswer
<1>10. ASSUME NEW p \in Scanners, AdvanceCursor(p) PROVE Goal
  BY <1>10 DEF Recorded, AdvanceCursor
<1>11. ASSUME NEW p \in Scanners, AddDeployment(p) PROVE Goal
  BY <1>11 DEF Recorded, AddDeployment
<1>12. ASSUME NEW p \in Scanners, KnownDeployment(p) PROVE Goal
  BY <1>12 DEF Recorded, KnownDeployment, NextItem
<1>13. ASSUME NEW p \in Scanners, ReadSimilar(p) PROVE Goal
  BY <1>13 DEF Recorded, ReadSimilar
<1>14. ASSUME NEW p \in Scanners, UpsertProfile(p) PROVE Goal
  BY <1>14 DEF Recorded, UpsertProfile
<1>15. ASSUME NEW p \in Scanners, SubjectNode(p) PROVE Goal
  BY <1>15 DEF Recorded, SubjectNode
<1>16. ASSUME NEW p \in Scanners, NEW n \in Nodes, LinkNode(p, n) PROVE Goal
  BY <1>16 DEF Recorded, LinkNode
<1>17. ASSUME NEW p \in Scanners, LinkEdge(p) PROVE Goal
  BY <1>17 DEF Recorded, LinkEdge
<1>18. ASSUME NEW p \in Scanners, NEW s \in Scores, RecordEvent(p, s) PROVE Goal
  <2>1. item[p] \in Events
    BY <1>18, <1>0 DEF RecordEvent, InGraph
  <2>2. Recorded' = Recorded \cup {item[p]} /\ item[p] \notin Recorded
    BY <1>18, <1>0, <2>1, NewRow DEF RecordEvent
  <2>3. Ledger!Record(item[p])
    BY <1>18, <2>2 DEF RecordEvent, AddEvent, Ledger!Record
  <2>4. QED
    BY <2>1, <2>3 DEF Ledger!Next
<1>19. ASSUME NEW p \in Scanners, KnownEvent(p) \/ Promote(p) PROVE Goal
  <2>1. CASE KnownEvent(p)
    BY <2>1 DEF Recorded, KnownEvent
  <2>2. CASE Promote(p)
    <3>1. item[p] \in Events /\ item[p] \in Recorded
      BY <1>0, <2>2 DEF Promote, InGraph
    <3>2. Ledger!Open(item[p]) \/ UNCHANGED Ledger!vars
      BY <2>2, <3>1 DEF Recorded, Promote, OpenIncident, Ledger!Open
    <3>3. QED
      BY <3>1, <3>2 DEF Ledger!Next
  <2>3. QED
    BY <1>19, <2>1, <2>2
<1>20. ASSUME NEW p \in Scanners, Finish(p) \/ Abort(p) \/ Crash(p) PROVE Goal
  BY <1>20 DEF Recorded, Finish, Abort, Crash
<1>21. CASE UNCHANGED vars
  BY <1>21 DEF Recorded, vars
<1>22. QED
  BY <1>1, <1>2, <1>3, <1>4, <1>5, <1>6, <1>7, <1>8, <1>9, <1>10, <1>11, <1>12,
     <1>13, <1>14, <1>15, <1>16, <1>17, <1>18, <1>19, <1>20, <1>21
     DEF Next, Step

(* Both invariants hold in every reachable state. *)
LEMMA LedgerInvariance == Spec => [](IndInv /\ RowsOK)
<1>1. Init => RowsOK
  BY RowsInit
<1>2. IndInv /\ RowsOK /\ [Next]_vars => RowsOK'
  BY RowsStep DEF IndInv
<1>3. QED
  BY <1>1, <1>2, Invariance, PTL DEF Spec

(* The events, incidents and alert marks of the scanner behave like the case *)
(* ledger: recorded once, promoted and alerted only when due, marked only    *)
(* after delivery, never retracted.                                          *)
THEOREM ScannerImplementsLedger == Spec => LedgerSpec
<1>1. Init => Ledger!Init
  BY LedgerInit
<1>2. IndInv /\ RowsOK /\ [Next]_vars => [Ledger!Next]_(Ledger!vars)
  BY LedgerStep DEF IndInv
<1>3. QED
  BY <1>1, <1>2, LedgerInvariance, PTL DEF Spec, LedgerSpec, Ledger!Spec
-----------------------------------------------------------------------------
(* As long as no cycle is cut short, whoever stored a row still has it in    *)
(* hand until it is reported and promoted, wherever the cursor stands.       *)
Reporting(e) == \E p \in Scanners : /\ item[p] = e
                                    /\ pc[p] \in {"similar", "profile"} \cup InGraph

Promoting(e) == \E p \in Scanners : item[p] = e /\ pc[p] = "incident"

CompleteOK ==
  failures = 0 =>
    /\ \A n \in deployments :
         \E e \in Deployments : Subject[e] = n /\ (e \in Recorded \/ Reporting(e))
    /\ \A e \in Recorded : score[e] >= IncidentMin => e \in incidents \/ Promoting(e)

(* Every step that cuts no cycle short hands its row on or finishes it. *)
LEMMA CompleteStep == Typed /\ ReportedOK /\ CompleteOK /\ [Next]_vars => CompleteOK'
<1> SUFFICES ASSUME Typed, ReportedOK, CompleteOK, [Next]_vars, failures' = 0
             PROVE  CompleteOK'
  BY DEF CompleteOK
<1>0. Typed /\ CompleteOK
  OBVIOUS
<1> USE ChainAssumption
    DEF Typed, TypeOK, OutboxTypeOK, FrameOK, CompleteOK, Reporting, Promoting, Recorded,
        InDeploy, InGraph, outboxVars, tables, window, local, history, Goto
<1>1. ASSUME NewBlock PROVE CompleteOK'
  BY <1>1 DEF NewBlock
<1>2. ASSUME NEW p \in Scanners, NEW h \in 0..MaxHead, BeginCycle(p, h) PROVE CompleteOK'
  BY <1>2 DEF BeginCycle
<1>3. ASSUME NEW p \in Scanners, ReadOutbox(p) PROVE CompleteOK'
  BY <1>3 DEF ReadOutbox, LoadOutbox
<1>4. ASSUME NEW p \in Scanners, NEW e \in Events,
             Skip(p, e) \/ Deliver(p, e) \/ DeliveryFails(p, e) \/ Mark(p, e)
      PROVE CompleteOK'
  BY <1>4 DEF Skip, Deliver, DeliveryFails, Mark, SkipAlert, SendAlert,
              SendFails, MarkAlerted
<1>5. ASSUME NEW p \in Scanners, FlushDone(p) \/ NothingNew(p) PROVE CompleteOK'
  BY <1>5 DEF FlushDone, NothingNew
<1>6. ASSUME NEW p \in Scanners, CutWindow(p) PROVE CompleteOK'
  BY <1>6 DEF CutWindow
<1>7. ASSUME NEW p \in Scanners, NEW u \in Upgrades, TakeUpgrade(p, u) PROVE CompleteOK'
  BY <1>7 DEF TakeUpgrade, Upgrades
<1>8. ASSUME NEW p \in Scanners, FetchBlock(p) PROVE CompleteOK'
  BY <1>8 DEF FetchBlock
<1>9. ASSUME NEW p \in Scanners, NEW d \in Deployments,
             TakeDeployment(p, d) \/ NoAnswer(p, d)
      PROVE CompleteOK'
  BY <1>9 DEF TakeDeployment, NoAnswer
<1>10. ASSUME NEW p \in Scanners, AdvanceCursor(p) PROVE CompleteOK'
  BY <1>10 DEF AdvanceCursor
<1>11. ASSUME NEW p \in Scanners, AddDeployment(p) PROVE CompleteOK'
  BY <1>11 DEF AddDeployment
<1>12. ASSUME NEW p \in Scanners, KnownDeployment(p) PROVE CompleteOK'
  BY <1>12 DEF KnownDeployment, NextItem
<1>13. ASSUME NEW p \in Scanners, ReadSimilar(p) PROVE CompleteOK'
  BY <1>13 DEF ReadSimilar
<1>14. ASSUME NEW p \in Scanners, UpsertProfile(p) PROVE CompleteOK'
  BY <1>14 DEF UpsertProfile
<1>15. ASSUME NEW p \in Scanners, SubjectNode(p) PROVE CompleteOK'
  BY <1>15 DEF SubjectNode
<1>16. ASSUME NEW p \in Scanners, NEW n \in Nodes, LinkNode(p, n) PROVE CompleteOK'
  BY <1>16 DEF LinkNode
<1>17. ASSUME NEW p \in Scanners, LinkEdge(p) PROVE CompleteOK'
  BY <1>17 DEF LinkEdge
<1>18. ASSUME NEW p \in Scanners, NEW s \in Scores, RecordEvent(p, s) PROVE CompleteOK'
  <2>1. /\ AddEvent(item[p], s) /\ item[p] \in Events /\ pc[p] = "link"
        /\ pc' = [pc EXCEPT ![p] = "incident"]
        /\ UNCHANGED <<item, deployments, incidents, failures>>
    BY <1>18 DEF RecordEvent
  <2>2. /\ \A f \in Events \ {item[p]} : score'[f] = score[f]
        /\ Recorded' = Recorded \cup {item[p]} /\ item[p] \notin Recorded
    BY <2>1, NewRow
  <2>3. /\ \A e : Reporting(e) => Reporting(e)'
        /\ \A e : Promoting(e) => Promoting(e)'
        /\ Promoting(item[p])'
    BY <2>1
  <2>4. Recorded \subseteq Events
    OBVIOUS
  <2> HIDE DEF Recorded, Reporting, Promoting
  <2>5. QED
    BY <2>1, <2>2, <2>3, <2>4
<1>19. ASSUME NEW p \in Scanners, KnownEvent(p) \/ Promote(p) PROVE CompleteOK'
  <2>1. /\ item[p] \in Recorded /\ pc[p] \in {"link", "incident"}
        /\ pc' = [pc EXCEPT ![p] = IF item[p] \in Deployments THEN "tx" ELSE "upgrade"]
        /\ item' = [item EXCEPT ![p] = None]
        /\ UNCHANGED <<rowid, score, deployments, failures>>
        /\ Recorded' = Recorded
    BY <1>19 DEF KnownEvent, Promote, NextItem, ReportedOK
  <2>2. /\ \A e \in Events : Reporting(e) /\ e # item[p] => Reporting(e)'
        /\ \A e \in Events : Promoting(e) /\ e # item[p] => Promoting(e)'
    BY <2>1
  <2>3. CASE KnownEvent(p)
    <3>1. incidents' = incidents /\ pc[p] = "link"
      BY <2>3 DEF KnownEvent
    <3>2. \A e \in Events : Promoting(e) => Promoting(e)'
      BY <2>1, <3>1
    <3> HIDE DEF Recorded, Reporting, Promoting
    <3> QED BY <2>1, <2>2, <3>1, <3>2 DEF Recorded
  <2>4. CASE Promote(p)
    <3>1. incidents \subseteq incidents' /\ (score[item[p]] >= IncidentMin => item[p] \in incidents')
      BY <2>4 DEF Promote, OpenIncident
    <3>2. Recorded \subseteq Events
      OBVIOUS
    <3> HIDE DEF Recorded, Reporting, Promoting
    <3> QED BY <2>1, <2>2, <3>1, <3>2
  <2> QED BY <1>19, <2>3, <2>4
<1>20. ASSUME NEW p \in Scanners, Finish(p) \/ Abort(p) \/ Crash(p) PROVE CompleteOK'
  <2>1. Finish(p)
    <3>1. failures \in Nat
      OBVIOUS
    <3>2. ~(Abort(p) \/ Crash(p))
      BY <3>1 DEF Abort, Crash
    <3> QED BY <1>20, <3>2
  <2>2. /\ pc[p] \notin {"similar", "profile", "incident"} \cup InGraph
        /\ pc' = [pc EXCEPT ![p] = "idle"]
        /\ item' = [item EXCEPT ![p] = None]
        /\ UNCHANGED <<rowid, score, incidents, deployments, failures>>
    BY <2>1 DEF Finish, Reset
  <2>3. /\ \A e : Reporting(e) => Reporting(e)'
        /\ \A e : Promoting(e) => Promoting(e)'
    BY <2>2
  <2>4. Recorded' = Recorded
    BY <2>2
  <2> HIDE DEF Recorded, Reporting, Promoting
  <2>5. QED
    BY <2>2, <2>3, <2>4
<1>21. CASE UNCHANGED vars
  BY <1>21 DEF vars
<1>22. QED
  BY <1>1, <1>2, <1>3, <1>4, <1>5, <1>6, <1>7, <1>8, <1>9, <1>10, <1>11, <1>12,
     <1>13, <1>14, <1>15, <1>16, <1>17, <1>18, <1>19, <1>20, <1>21
     DEF Next, Step

(* Two scanners that race for every row of a chain leave no stored           *)
(* deployment unreported and no urgent event unpromoted, until a cycle is    *)
(* aborted or killed.                                                        *)
THEOREM RacesLoseNothing == Spec => []CompleteUnlessCut
<1>1. Init => CompleteOK
  BY DEF Init, OutboxInit, CompleteOK, Recorded
<1>2. IndInv /\ CompleteOK /\ [Next]_vars => CompleteOK'
  BY CompleteStep DEF IndInv
<1>3. IndInv /\ CompleteOK => CompleteUnlessCut
  <2> SUFFICES ASSUME IndInv, CompleteOK, failures = 0
               PROVE  DeploymentsReported /\ UrgentPromoted
    BY DEF CompleteUnlessCut
  <2>1. DeploymentsReported
    BY DEF CompleteOK, DeploymentsReported, Reporting, Working
  <2>2. UrgentPromoted
    BY DEF CompleteOK, UrgentPromoted, Promoting, Working
  <2> QED BY <2>1, <2>2
<1>4. QED
  BY <1>1, <1>2, <1>3, Invariance, PTL DEF Spec

-----------------------------------------------------------------------------
(* What holds when the chain has one scanner: it is ahead of the cursor, and *)
(* no contract is reported between its reading of similar_contracts and its  *)
(* own event.                                                                *)
Alone == \A p, q \in Scanners : p = q

(* The similar contracts a scanner has tied its subject to, or is about to,  *)
(* and the two limits of similar_contracts.                                  *)
DueTies(p) == {n \in Similar[item[p]] :
                 n \in links[p] \/ <<Subject[item[p]], n>> \in edges}

Limited(p) == \/ Cardinality(DueTies(p)) >= SimilarLimit
              \/ Cardinality(profiles) > RowLimit

(* A larger set of nodes has no fewer elements. *)
LEMMA LargerSet ==
  ASSUME NEW T \in SUBSET Nodes, NEW S \in SUBSET T
  PROVE  Cardinality(S) \in Nat /\ Cardinality(T) \in Nat /\ Cardinality(S) <= Cardinality(T)
<1>1. IsFiniteSet(T)
  BY FS_Subset, ChainAssumption
<1>2. QED
  BY <1>1, FS_Subset, FS_CardinalityType

Tying == {"profile"} \cup InGraph

AheadOK == \A p \in Scanners : pc[p] # "idle" => cursor < next[p]

TiesDue(p) ==
  pc[p] \in Tying /\ item[p] \in Deployments =>
    \A d \in Recorded \cap Deployments :
      Subject[d] # Subject[item[p]] /\ Subject[d] \in Similar[item[p]] =>
        \/ Subject[d] \in links[p]
        \/ <<Subject[item[p]], Subject[d]>> \in edges
        \/ Limited(p)

TiesOK == SimilarLinked /\ \A p \in Scanners : TiesDue(p)

AloneOK == AheadOK /\ TiesOK

(* The only scanner stays ahead of the cursor. *)
LEMMA AheadStep == Alone /\ Typed /\ AheadOK /\ [Next]_vars => AheadOK'
<1> SUFFICES ASSUME Alone, Typed, AheadOK, [Next]_vars PROVE AheadOK'
  OBVIOUS
<1> USE DEF Typed, TypeOK, AheadOK, Alone, window, Goto
<1>1. ASSUME NEW p \in Scanners, NEW h \in 0..MaxHead, BeginCycle(p, h) PROVE AheadOK'
  <2>1. SafeHead(h) \in Nat /\ StartBlock(SafeHead(h)) \in Nat
    BY <1>1, SafeHeadType, StartBlockType DEF BeginCycle
  <2>2. cursor < StartBlock(SafeHead(h))
    BY <2>1 DEF StartBlock, NoCursor
  <2> QED BY <1>1, <2>2 DEF BeginCycle
<1>2. ASSUME NEW p \in Scanners, AdvanceCursor(p) PROVE AheadOK'
  BY <1>2 DEF AdvanceCursor
<1>3. ASSUME NEW p \in Scanners, Finish(p) \/ Abort(p) \/ Crash(p) PROVE AheadOK'
  BY <1>3 DEF Finish, Abort, Crash, Reset
<1>4. ASSUME UNCHANGED <<cursor, next>>,
             \A q \in Scanners : pc'[q] # "idle" => pc[q] # "idle"
      PROVE AheadOK'
  BY <1>4
<1>5. ASSUME NEW p \in Scanners,
             Step(p), ~(\E h \in 0..MaxHead : BeginCycle(p, h)), ~AdvanceCursor(p), ~Finish(p)
      PROVE  UNCHANGED <<cursor, next>> /\ pc[p] # "idle"
             /\ \A q \in Scanners : q # p => pc'[q] = pc[q]
  BY <1>5 DEF Step, ReadOutbox, Skip, Deliver, DeliveryFails, Mark,
       FlushDone, NothingNew, CutWindow, TakeUpgrade, FetchBlock, TakeDeployment, NoAnswer,
       AddDeployment, KnownDeployment, ReadSimilar, UpsertProfile, SubjectNode, LinkNode,
       LinkEdge, RecordEvent, KnownEvent, Promote, NextItem
<1>6. ASSUME NEW p \in Scanners, Step(p) PROVE AheadOK'
  BY <1>1, <1>2, <1>3, <1>4, <1>5, <1>6
<1>7. CASE NewBlock
  BY <1>4, <1>7 DEF NewBlock
<1>8. CASE UNCHANGED vars
  BY <1>4, <1>8 DEF vars
<1>9. QED
  BY <1>3, <1>6, <1>7, <1>8 DEF Next

(* A step that writes neither an event, an edge nor a profile, and leaves    *)
(* the frames of the scanners that tie a contract alone, changes no tie.     *)
LEMMA QuietStep ==
  ASSUME TiesOK, UNCHANGED <<rowid, edges, profiles>>,
         \A q \in Scanners : pc'[q] \in Tying /\ item'[q] \in Deployments =>
           pc[q] \in Tying /\ item'[q] = item[q] /\ links'[q] = links[q]
  PROVE  TiesOK'
<1>1. \A d : SimilarTies(d)' = SimilarTies(d)
  BY DEF SimilarTies
<1>2. Recorded' = Recorded
  BY DEF Recorded
<1>3. SimilarLinked'
  BY <1>1, <1>2 DEF TiesOK, SimilarLinked
<1>4. ASSUME NEW q \in Scanners, pc'[q] \in Tying, item'[q] \in Deployments
      PROVE  TiesDue(q)'
  <2>1. DueTies(q)' = DueTies(q)
    BY <1>4 DEF DueTies
  <2>2. Limited(q)' <=> Limited(q)
    BY <2>1 DEF Limited
  <2> QED BY <1>2, <1>4, <2>2 DEF TiesOK, TiesDue
<1>5. QED
  BY <1>3, <1>4 DEF TiesOK, TiesDue, Tying

(* More edges and more profiles leave the ties of reported contracts as good *)
(* as they were.                                                             *)
LEMMA TiesGrow ==
  ASSUME SimilarLinked, Typed, Typed', edges \subseteq edges', profiles \subseteq profiles',
         UNCHANGED rowid
  PROVE  SimilarLinked'
<1>1. Recorded' = Recorded
  BY DEF Recorded
<1>2. ASSUME NEW d \in Deployments
      PROVE  Cardinality(SimilarTies(d)) >= SimilarLimit
             => Cardinality(SimilarTies(d)') >= SimilarLimit
  <2>1. SimilarTies(d) \subseteq SimilarTies(d)' /\ SimilarTies(d)' \subseteq Nodes
    BY ChainAssumption DEF SimilarTies
  <2> QED BY <2>1, LargerSet, SettingsAssumption
<1>3. Cardinality(profiles) > RowLimit => Cardinality(profiles') > RowLimit
  BY LargerSet, SettingsAssumption DEF Typed, TypeOK
<1>4. QED
  BY <1>1, <1>2, <1>3 DEF SimilarLinked

(* The same for a scanner that is still tying its contract. *)
LEMMA DueGrows ==
  ASSUME NEW q \in Scanners, TiesDue(q), Typed, Typed', pc[q] \in Tying,
         profiles \subseteq profiles', edges \subseteq edges', UNCHANGED <<rowid, item>>,
         \A n \in links[q] : n \in links'[q] \/ <<Subject[item[q]], n>> \in edges'
  PROVE  TiesDue(q)'
<1>1. Recorded' = Recorded
  BY DEF Recorded
<1> SUFFICES ASSUME item[q] \in Deployments PROVE TiesDue(q)'
  BY DEF TiesDue
<1>2. DueTies(q) \subseteq DueTies(q)' /\ DueTies(q)' \subseteq Nodes
  BY ChainAssumption DEF DueTies
<1>3. Cardinality(profiles) > RowLimit => Cardinality(profiles') > RowLimit
  BY LargerSet, SettingsAssumption DEF Typed, TypeOK
<1>4. Limited(q) => Limited(q)'
  BY <1>2, <1>3, LargerSet, SettingsAssumption DEF Limited
<1>5. QED
  BY <1>1, <1>4 DEF TiesDue

(* similar_contracts returns what the limits allow. *)
LEMMA SimilarRead ==
  ASSUME NEW p \in Scanners, Typed, EvidenceBeforeEvent, ReadSimilar(p)
  PROVE  TiesDue(p)'
<1>1. /\ pc[p] = "similar" /\ item[p] \in Deployments
      /\ links \in [Scanners -> SUBSET Nodes]
      /\ profiles \subseteq Nodes
      /\ UNCHANGED <<rowid, profiles, edges, item>>
  BY DEF Typed, TypeOK, FrameOK, InDeploy, ReadSimilar, outboxVars, tables
<1>2. Recorded' = Recorded
  BY <1>1 DEF Recorded
<1>b. PICK rows \in CutAt(profiles \ {Subject[item[p]]}, RowLimit) :
        \E matches \in CutAt(rows \cap Similar[item[p]], SimilarLimit) :
          links' = [links EXCEPT ![p] = Links[item[p]] \cup matches]
  BY DEF ReadSimilar
<1>3. PICK matches \in CutAt(rows \cap Similar[item[p]], SimilarLimit) :
        links' = [links EXCEPT ![p] = Links[item[p]] \cup matches]
  BY <1>b
<1>4. links'[p] = Links[item[p]] \cup matches
  BY <1>1, <1>3
<1>5. rows \subseteq profiles /\ matches \subseteq Similar[item[p]]
  BY DEF CutAt
<1>6. matches \subseteq DueTies(p)' /\ DueTies(p)' \subseteq Nodes
  BY <1>1, <1>4, <1>5, ChainAssumption DEF DueTies
<1>7. Cardinality(matches) <= Cardinality(DueTies(p)')
      /\ Cardinality(matches) \in Nat /\ Cardinality(DueTies(p)') \in Nat
  BY <1>6, LargerSet
<1>8. CASE rows # profiles \ {Subject[item[p]]}
  <2>1. ~(Cardinality(profiles \ {Subject[item[p]]}) <= RowLimit)
    BY <1>8 DEF CutAt
  <2>2. Cardinality(profiles \ {Subject[item[p]]}) <= Cardinality(profiles)
        /\ Cardinality(profiles \ {Subject[item[p]]}) \in Nat /\ Cardinality(profiles) \in Nat
    BY <1>1, LargerSet
  <2>3. Limited(p)'
    BY <1>1, <2>1, <2>2, SettingsAssumption DEF Limited
  <2> QED BY <2>3 DEF TiesDue
<1>9. CASE rows = profiles \ {Subject[item[p]]}
  <2>1. CASE matches # rows \cap Similar[item[p]]
    <3>1. Cardinality(matches) = SimilarLimit
      BY <2>1 DEF CutAt
    <3>2. Limited(p)'
      BY <3>1, <1>7, SettingsAssumption DEF Limited
    <3> QED BY <3>2 DEF TiesDue
  <2>2. CASE matches = rows \cap Similar[item[p]]
    <3>1. \A d \in Recorded \cap Deployments : Subject[d] \in profiles
      BY DEF EvidenceBeforeEvent
    <3> QED BY <1>1, <1>2, <1>4, <1>9, <2>2, <3>1 DEF TiesDue
  <2> QED BY <2>1, <2>2
<1>10. QED
  BY <1>8, <1>9

(* The only scanner ties what it reports. *)
LEMMA TiesStep == Alone /\ IndInv /\ IndInv' /\ TiesOK /\ [Next]_vars => TiesOK'
<1> SUFFICES ASSUME Alone, IndInv, IndInv', TiesOK, [Next]_vars PROVE TiesOK'
  OBVIOUS
<1>0. Typed /\ Typed' /\ EvidenceBeforeEvent
  BY DEF IndInv, EvidenceOK
<1>a. /\ pc \in [Scanners -> Stages] /\ item \in [Scanners -> Events \cup {None}]
      /\ links \in [Scanners -> SUBSET Nodes]
      /\ \A p \in Scanners : pc[p] = "edge" => item[p] \in Events
      /\ None \notin Events /\ Deployments \subseteq Events
      /\ \A p \in Scanners : pc[p] \in InDeploy => item[p] \in Deployments
      /\ rowid \in [Events -> Nat]
      /\ \A p \in Scanners : pc[p] \in InGraph => item[p] \in Events
  BY <1>0, ChainAssumption DEF Typed, TypeOK, FrameOK, InGraph, OutboxTypeOK
<1> DEFINE Quiet == /\ UNCHANGED <<rowid, edges, profiles>>
                    /\ \A q \in Scanners : pc'[q] \in Tying /\ item'[q] \in Deployments =>
                         pc[q] \in Tying /\ item'[q] = item[q] /\ links'[q] = links[q]
<1>b. Quiet => TiesOK'
  BY QuietStep
<1> USE DEF outboxVars, tables, window, local, history, Goto, Tying, InDeploy, InGraph
<1>1. ASSUME NewBlock PROVE Quiet
  BY <1>1 DEF NewBlock
<1>2. ASSUME NEW p \in Scanners, NEW h \in 0..MaxHead, BeginCycle(p, h) PROVE Quiet
  BY <1>a, <1>2 DEF BeginCycle
<1>3. ASSUME NEW p \in Scanners, ReadOutbox(p) PROVE Quiet
  BY <1>a, <1>3 DEF ReadOutbox, LoadOutbox
<1>4. ASSUME NEW p \in Scanners, NEW e \in Events,
             Skip(p, e) \/ Deliver(p, e) \/ DeliveryFails(p, e) \/ Mark(p, e)
      PROVE Quiet
  BY <1>a, <1>4 DEF Skip, Deliver, DeliveryFails, Mark, SkipAlert, SendAlert,
              SendFails, MarkAlerted
<1>5. ASSUME NEW p \in Scanners, FlushDone(p) \/ NothingNew(p) PROVE Quiet
  BY <1>a, <1>5 DEF FlushDone, NothingNew
<1>6. ASSUME NEW p \in Scanners, CutWindow(p) PROVE Quiet
  BY <1>a, <1>6 DEF CutWindow
<1>7. ASSUME NEW p \in Scanners, NEW u \in Upgrades, TakeUpgrade(p, u) PROVE Quiet
  BY <1>a, <1>7 DEF TakeUpgrade, Upgrades
<1>8. ASSUME NEW p \in Scanners, FetchBlock(p) PROVE Quiet
  BY <1>a, <1>8 DEF FetchBlock
<1>9. ASSUME NEW p \in Scanners, NEW d \in Deployments,
             TakeDeployment(p, d) \/ NoAnswer(p, d)
      PROVE Quiet
  BY <1>a, <1>9 DEF TakeDeployment, NoAnswer
<1>10. ASSUME NEW p \in Scanners, AdvanceCursor(p) PROVE Quiet
  BY <1>a, <1>10 DEF AdvanceCursor
<1>11. ASSUME NEW p \in Scanners, AddDeployment(p) PROVE Quiet
  BY <1>a, <1>11 DEF AddDeployment
<1>12. ASSUME NEW p \in Scanners, KnownDeployment(p) PROVE Quiet
  BY <1>a, <1>12 DEF KnownDeployment, NextItem
<1>13. ASSUME NEW p \in Scanners, ReadSimilar(p) PROVE TiesOK'
  <2>1. SimilarLinked'
    BY <1>0, <1>13, TiesGrow DEF TiesOK, ReadSimilar
  <2>2. TiesDue(p)'
    BY <1>0, <1>13, SimilarRead
  <2> QED BY <2>1, <2>2 DEF TiesOK, Alone
<1>14. ASSUME NEW p \in Scanners, UpsertProfile(p) PROVE TiesOK'
  <2>1. SimilarLinked'
    BY <1>0, <1>14, TiesGrow DEF TiesOK, UpsertProfile
  <2>2. TiesDue(p)'
    BY <1>0, <1>14, DueGrows DEF TiesOK, UpsertProfile
  <2> QED BY <2>1, <2>2 DEF TiesOK, Alone
<1>15. ASSUME NEW p \in Scanners, SubjectNode(p) PROVE Quiet
  BY <1>a, <1>15 DEF SubjectNode
<1>16. ASSUME NEW p \in Scanners, NEW n \in Nodes, LinkNode(p, n) PROVE Quiet
  BY <1>a, <1>16 DEF LinkNode
<1>17. ASSUME NEW p \in Scanners, LinkEdge(p) PROVE TiesOK'
  <2>1. SimilarLinked'
    BY <1>0, <1>17, TiesGrow DEF TiesOK, LinkEdge
  <2>2. \A n \in links[p] : n \in links'[p] \/ <<Subject[item[p]], n>> \in edges'
    BY <1>a, <1>17 DEF LinkEdge
  <2>3. TiesDue(p)'
    BY <1>0, <1>17, <2>2, DueGrows DEF TiesOK, LinkEdge
  <2> QED BY <2>1, <2>3 DEF TiesOK, Alone
<1>18. ASSUME NEW p \in Scanners, NEW s \in Scores, RecordEvent(p, s) PROVE TiesOK'
  <2>1. /\ AddEvent(item[p], s) /\ item[p] \in Events /\ pc[p] = "link" /\ links[p] = {}
        /\ UNCHANGED <<edges, links, item, profiles>>
        /\ pc' = [pc EXCEPT ![p] = "incident"]
    BY <1>a, <1>18 DEF RecordEvent
  <2>2. Recorded' = Recorded \cup {item[p]}
    BY <1>0, <2>1, NewRow DEF Typed, TypeOK
  <2>3. \A d : SimilarTies(d)' = SimilarTies(d)
    BY <2>1 DEF SimilarTies
  <2>4. DueTies(p)' = DueTies(p) /\ DueTies(p) = SimilarTies(item[p])
    BY <2>1 DEF DueTies, SimilarTies
  <2>5. Limited(p)' <=> Limited(p)
    BY <2>1, <2>4 DEF Limited
  <2>6. item[p] \in Deployments => \A d \in Recorded \cap Deployments :
          Subject[d] # Subject[item[p]] /\ Subject[d] \in Similar[item[p]]
          => \/ <<Subject[item[p]], Subject[d]>> \in edges
             \/ Cardinality(SimilarTies(item[p])) >= SimilarLimit
             \/ Cardinality(profiles) > RowLimit
    BY <2>1, <2>4 DEF TiesOK, TiesDue, Limited
  <2>7. SimilarLinked'
    BY <2>1, <2>2, <2>3, <2>6 DEF TiesOK, SimilarLinked
  <2>8. TiesDue(p)'
    BY <2>1, <2>2, <2>5 DEF TiesOK, TiesDue
  <2> QED BY <2>7, <2>8 DEF TiesOK, Alone
<1>19. ASSUME NEW p \in Scanners, KnownEvent(p) \/ Promote(p) PROVE Quiet
  BY <1>a, <1>19 DEF KnownEvent, Promote, OpenIncident, NextItem
<1>20. ASSUME NEW p \in Scanners, Finish(p) \/ Abort(p) \/ Crash(p) PROVE Quiet
  BY <1>a, <1>20 DEF Finish, Abort, Crash, Reset
<1>21. CASE UNCHANGED vars
  BY <1>b, <1>21 DEF vars
<1>22. QED
  <2> HIDE DEF Quiet
  <2> QED
    BY <1>b, <1>1, <1>2, <1>3, <1>4, <1>5, <1>6, <1>7, <1>8, <1>9, <1>10, <1>11, <1>12,
       <1>13, <1>14, <1>15, <1>16, <1>17, <1>18, <1>19, <1>20, <1>21
       DEF Next, Step

(* The only scanner of a chain. *)
LEMMA AloneInvariance ==
  ASSUME Alone
  PROVE  Spec => [](IndInv /\ AloneOK)
<1>1. Init => AloneOK
  BY DEF Init, OutboxInit, AloneOK, AheadOK, TiesOK, TiesDue, SimilarLinked, Recorded,
         Tying, InGraph
<1>2. IndInv /\ IndInv' /\ AloneOK /\ [Next]_vars => AloneOK'
  BY AheadStep, TiesStep DEF AloneOK, IndInv
<1>3. QED
  BY <1>1, <1>2, Invariance, PTL DEF Spec

(* With one scanner, two reported contracts with similar bytecode are tied   *)
(* whatever aborts and crashes fall between the reads and the writes, unless *)
(* a limit of similar_contracts was met.                                     *)
THEOREM SimilarIsTied ==
  ASSUME Alone
  PROVE  Spec => []SimilarLinked
<1>1. AloneOK => SimilarLinked
  BY DEF AloneOK, TiesOK
<1>2. QED
  BY <1>1, AloneInvariance, PTL

(* With one scanner the cursor never goes back, however far the endpoint     *)
(* that answers lags behind.                                                 *)
THEOREM CursorNeverGoesBack ==
  ASSUME Alone
  PROVE  Spec => CursorMonotone
<1>1. IndInv /\ AloneOK /\ [Next]_vars => [cursor' >= cursor]_vars
  <2> SUFFICES ASSUME IndInv, AloneOK, Next PROVE cursor' >= cursor
    OBVIOUS
  <2>0. cursor \in Int /\ next \in [Scanners -> Nat]
    BY DEF IndInv, Typed, TypeOK, NoCursor
  <2>1. ASSUME NEW p \in Scanners, AdvanceCursor(p) PROVE cursor' >= cursor
    BY <2>0, <2>1 DEF AloneOK, AheadOK, AdvanceCursor
  <2>2. CASE UNCHANGED cursor
    BY <2>0, <2>2
  <2>3. UNCHANGED cursor \/ \E p \in Scanners : AdvanceCursor(p)
    BY DEF Next, Step, NewBlock, BeginCycle, ReadOutbox, Skip, Deliver, DeliveryFails, Mark,
           FlushDone, NothingNew, CutWindow, TakeUpgrade, FetchBlock, TakeDeployment, NoAnswer,
           AddDeployment, KnownDeployment, ReadSimilar, UpsertProfile, SubjectNode, LinkNode,
           LinkEdge, RecordEvent, KnownEvent, Promote, Finish, Abort, Crash
  <2> QED BY <2>1, <2>2, <2>3
<1>2. QED
  BY <1>1, AloneInvariance, PTL DEF Spec, CursorMonotone
=============================================================================
