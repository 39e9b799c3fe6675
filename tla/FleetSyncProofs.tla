-------------------------- MODULE FleetSyncProofs --------------------------
(***************************************************************************)
(* Proofs about FleetSync, for any set of devices and operations, any      *)
(* clock skew and any number of faults.                                    *)
(*                                                                         *)
(* Two inductive invariants carry them.  SafeInv holds in every fleet:     *)
(* what a session has published stays in its memory and in the snapshot it *)
(* publishes next, under stamps it never goes behind (SessionInv).         *)
(* CoverInv adds, as long as no file is damaged, that each watermark has   *)
(* its content: in memory (WatermarkCovered), in the files (DiskCovered),  *)
(* in a persist in progress and in the snapshot about to be published      *)
(* (FileInv), and in every root on the wire (AckCarriesContent).           *)
(*                                                                         *)
(* SafeInv and OrderInv, which damaged files do not disturb either, show   *)
(* that the fleet implements ReplicatedSet: a snapshot taken earlier is    *)
(* still a copy of what memory holds when it is sent or written.           *)
(***************************************************************************)
EXTENDS FleetSync, TLAPS

USE DEF memVars, taskVars, netVars, gapVars

\* The kinds of steps that a step lemma below treats as one.
Quiet(d) ==
  \/ Tick(d) \/ StepBack(d) \/ NoticeLinks(d)
  \/ \E e \in Device : LinkUp(d, e) \/ LinkDown(d, e)
  \/ \E f \in wire : Refuse(d, f)

Arm(d)       == WakeArm(d) \/ FlushArm(d) \/ RootServeArm(d)
Abandon(d)   == FetchMiss(d) \/ DropRoot(d)
Finish(d, a) == WriteReplay(d, a) \/ WriteFail(d, a)

StepOf(d) ==
  \/ Quiet(d) \/ Arm(d) \/ SendRoot(d) \/ PublishFail(d)
  \/ \E o \in Ops : Mutate(d, o)
  \/ \E f \in wire : Receive(d, f)
  \/ Abandon(d) \/ MergeRoot(d) \/ CommitRoot(d)
  \/ TaskPersist(d) \/ HandlePersist(d)
  \/ \E a \in Actors : WriteDoc(d, a) \/ Finish(d, a)
  \/ Crash(d) \/ Restart(d) \/ RestartCorrupt(d)
----------------------------------------------------------------------------
(***************************************************************************)
(* What each kind of step does to the variables the invariants speak of.   *)
(***************************************************************************)
\* Whatever the fleet does, it is one of these steps of one device.
LEMMA NextSteps ==
  ASSUME NetOK, [Next]_vars
  PROVE  UNCHANGED vars \/ \E d \in Device : StepOf(d)
<1>1. \A d \in Device : \A f \in due[d] : f \in wire
  BY DEF NetOK
<1>2. ASSUME NEW d \in Device, TaskStep(d) PROVE StepOf(d)
  BY <1>1, <1>2 DEF TaskStep, StepOf, Arm, Quiet
<1>3. ASSUME NEW d \in Device, WriteStep(d) \/ EnvStep(d) \/ Fault(d) PROVE StepOf(d)
  BY <1>3 DEF WriteStep, EnvStep, Fault, StepOf, Quiet, Arm, Abandon, Finish
<1> QED
  BY <1>2, <1>3 DEF Next

\* Clock steps, links and refused roots touch neither memory nor files.
LEMMA QuietFrame ==
  ASSUME NEW d \in Device, Quiet(d)
  PROVE  UNCHANGED <<up, boot, state, tracker, pc, snap, cur, job, disk, wire>>
  BY DEF Quiet, Tick, StepBack, LinkUp, LinkDown, NoticeLinks, Refuse

\* The three arms that publish or serve take a snapshot and nothing else.
LEMMA ArmFrame ==
  ASSUME NEW d \in Device, Arm(d)
  PROVE  /\ up[d] /\ pc[d] = "select" /\ pc' = [pc EXCEPT ![d] = "snapped"]
         /\ snap' = [snap EXCEPT ![d] = state[d]]
         /\ UNCHANGED <<up, boot, state, tracker, cur, job, disk, wire>>
  BY DEF Arm, WakeArm, FlushArm, RootServeArm, Encode

\* A failed publish may have burnt a stamp of the device's own.
LEMMA FailFrame ==
  ASSUME TypeOK, NEW d \in Device, PublishFail(d)
  PROVE  /\ up[d] /\ pc[d] = "snapped" /\ pc'[d] \in {"persist", "select"}
         /\ \A e \in Device \ {d} : pc'[e] = pc[e] /\ snap'[e] = snap[e]
         /\ tracker' \in {tracker, [tracker EXCEPT ![d][d] = Mint(d)]}
         /\ UNCHANGED <<up, boot, state, cur, job, disk, wire>>
  BY DEF PublishFail, PublishEnds, TypeOK, TaskOK

\* A publish that succeeds puts one frame on the wire.
LEMMA SendFrame ==
  ASSUME TypeOK, NEW d \in Device, SendRoot(d)
  PROVE  /\ up[d] /\ pc[d] = "snapped" /\ pc'[d] \in {"persist", "select"}
         /\ \A e \in Device \ {d} : pc'[e] = pc[e] /\ snap'[e] = snap[e]
         /\ tracker' = [tracker EXCEPT ![d][d] = Mint(d)]
         /\ wire' = wire \cup {RootFrame(d)}
         /\ UNCHANGED <<up, boot, state, cur, job, disk>>
  BY DEF SendRoot, PublishEnds, TypeOK, TaskOK

\* A fetch that fails, for now or for good, only drops the frame in hand.
LEMMA AbandonFrame ==
  ASSUME NEW d \in Device, Abandon(d)
  PROVE  /\ pc[d] = "admitted" /\ pc' = [pc EXCEPT ![d] = "select"]
         /\ cur' = [cur EXCEPT ![d] = Blank(d)]
         /\ UNCHANGED <<up, boot, state, tracker, snap, job, disk, wire>>
  BY DEF Abandon, FetchMiss, DropRoot, GiveUp

\* A persist ends, completed or failed, with the dataset file as it was.
LEMMA FinishFrame ==
  ASSUME TypeOK, NEW d \in Device, NEW a \in Actors, Finish(d, a)
  PROVE  /\ up[d] /\ job[d][a].stage # "idle"
         /\ job' = [job EXCEPT ![d][a] = NoJob]
         /\ pc' = [pc EXCEPT ![d] = IF a = "task" THEN "select" ELSE @]
         /\ \A e \in Device : disk'[e].doc = disk[e].doc
         /\ UNCHANGED <<up, boot, state, tracker, snap, cur, wire>>
<1>1. CASE WriteReplay(d, a)
  BY <1>1 DEF WriteReplay, JobEnds, TypeOK, FilesOK
<1>2. CASE WriteFail(d, a)
  BY <1>2 DEF WriteFail, JobEnds
<1> QED
  BY <1>1, <1>2 DEF Finish

\* A crash resets the device and leaves its files and the other devices alone.
LEMMA CrashFrame ==
  ASSUME TypeOK, NEW d \in Device, Crash(d)
  PROVE  /\ ~up'[d] /\ pc'[d] = "select" /\ \A a \in Actors : job'[d][a].stage = "idle"
         /\ \A e \in Device \ {d} :
              /\ up'[e] = up[e] /\ state'[e] = state[e] /\ tracker'[e] = tracker[e]
              /\ pc'[e] = pc[e] /\ snap'[e] = snap[e] /\ cur'[e] = cur[e] /\ job'[e] = job[e]
         /\ UNCHANGED <<boot, disk, wire>>
  BY DEF Crash, NoJob, TypeOK, MemOK, TaskOK, FilesOK

\* A restart loads the files it finds and touches no other device.
LEMMA RestartFrame ==
  ASSUME TypeOK, NEW d \in Device, Restart(d) \/ RestartCorrupt(d)
  PROVE  /\ ~up[d] /\ boot' = [boot EXCEPT ![d] = @ + 1] /\ up' = [up EXCEPT ![d] = TRUE]
         /\ \A e \in Device \ {d} : state'[e] = state[e] /\ tracker'[e] = tracker[e]
         /\ UNCHANGED <<pc, snap, cur, job, wire>>
  BY DEF Restart, RestartCorrupt, RestartFrom, TypeOK, MemOK
----------------------------------------------------------------------------
(***************************************************************************)
(* Type correctness.                                                       *)
(***************************************************************************)
\* The values a reset falls back to are well typed.
LEMMA Blanks ==
  /\ NoTracks \in [Device -> Stamp] /\ NoJob \in Job
  /\ \A d \in Device : Blank(d) \in Frame
  BY DEF NoTracks, NoStamp, Stamp, NoJob, Job, Blank, Frame

\* compute_next_hlc yields a stamp,
LEMMA MintType ==
  ASSUME MemOK, NEW d \in Device
  PROVE  Mint(d) \in Stamp
  BY CapAssumption DEF MemOK, Mint, NextStamp, MergedNow, Larger, Smaller, Stamp

\* and encode_root_wire a frame.
LEMMA RootFrameType ==
  ASSUME TypeOK, NEW d \in Device
  PROVE  RootFrame(d) \in Frame
  BY MintType DEF TypeOK, MemOK, TaskOK, RootFrame, Frame

\* A failed or successful publish leaves the tracker well typed.
LEMMA MintedType ==
  ASSUME TypeOK, NEW d \in Device
  PROVE  [tracker EXCEPT ![d][d] = Mint(d)] \in [Device -> [Device -> Stamp]]
  BY MintType DEF TypeOK, MemOK

\* The frame in hand has a publisher, a stamp and an ack for this device.
LEMMA InHand ==
  ASSUME TypeOK, NEW d \in Device
  PROVE  /\ cur[d].from \in Device /\ cur[d].at \in Stamp
         /\ cur[d].content \subseteq Ops /\ cur[d].seen[d] \in Stamp
<1>1. cur[d] \in Frame
  BY DEF TypeOK, TaskOK
<1> QED
  BY <1>1 DEF Frame

\* Scenario budgets stay natural numbers.
LEMMA LeftType ==
  ASSUME NEW x \in Events, Spend(x), left \in [Events -> Nat]
  PROVE  left' \in [Events -> Nat]
  BY DEF Spend

\* The loaded files are well typed, quarantined or not.
LEMMA RestartType ==
  ASSUME TypeOK, NEW d \in Device, Restart(d) \/ RestartCorrupt(d)
  PROVE  MemOK' /\ FilesOK'
<1> DEFINE Files == [doc : SUBSET Ops, replay : [Device -> Stamp]]
<1>1. disk[d] \in Files
  BY DEF TypeOK, FilesOK
<1>2. [disk[d] EXCEPT !.doc = {}] \in Files /\ [disk[d] EXCEPT !.replay = NoTracks] \in Files
  BY <1>1, Blanks
<1>3. ASSUME NEW files \in Files, RestartFrom(d, files) PROVE MemOK' /\ FilesOK'
  BY <1>3 DEF RestartFrom, TypeOK, MemOK, FilesOK
<1> QED
  BY <1>1, <1>2, <1>3 DEF Restart, RestartCorrupt

\* Memory: what mutations, mints, merges, crashes and restarts leave there.
LEMMA MemStep ==
  ASSUME TypeOK, NEW d \in Device, StepOf(d)
  PROVE  MemOK'
<1> USE DEF TypeOK, MemOK
<1>1. CASE Tick(d) \/ StepBack(d) \/ NoticeLinks(d)
  <2>1. CASE Tick(d)
    BY <2>1 DEF Tick
  <2>2. CASE StepBack(d)
    BY <2>2 DEF StepBack
  <2>3. CASE NoticeLinks(d)
    BY <2>3 DEF NoticeLinks
  <2> QED
    BY <1>1, <2>1, <2>2, <2>3
<1>2. ASSUME NEW e \in Device, LinkUp(d, e) \/ LinkDown(d, e) PROVE MemOK'
  BY <1>2 DEF LinkUp, LinkDown
<1>3. ASSUME NEW f \in wire, Refuse(d, f) \/ Receive(d, f) PROVE MemOK'
  BY <1>3 DEF Refuse, Receive
<1>4. CASE Arm(d)
  BY <1>4 DEF Arm, WakeArm, FlushArm, RootServeArm
<1>5. CASE SendRoot(d)
  BY <1>5, MintedType DEF SendRoot
<1>6. CASE PublishFail(d)
  <2>1. dirty' \in [Device -> BOOLEAN]
    BY <1>6 DEF PublishFail, TaskOK
  <2>2. tracker' \in [Device -> [Device -> Stamp]]
    <3>1. tracker' \in {tracker, [tracker EXCEPT ![d][d] = Mint(d)]} /\ Mint(d) \in Stamp
      BY <1>6, MintedType DEF PublishFail
    <3>2. tracker \in [Device -> [Device -> Stamp]]
      OBVIOUS
    <3> HIDE DEF TypeOK, MemOK
    <3> QED
      BY <3>1, <3>2
  <2> QED
    BY <1>6, <2>1, <2>2 DEF PublishFail
<1>7. ASSUME NEW o \in Ops, Mutate(d, o) PROVE MemOK'
  BY <1>7, MintedType DEF Mutate
<1>8. CASE Abandon(d)
  BY <1>8 DEF Abandon, FetchMiss, DropRoot, GiveUp
<1>9. CASE MergeRoot(d)
  BY <1>9, InHand DEF MergeRoot
<1>10. CASE CommitRoot(d)
  <2>1. floor' \in [Device -> Nat]
    BY <1>10, InHand DEF CommitRoot, Larger, Stamp
  <2>2. tracker' \in [Device -> [Device -> Stamp]] /\ acks' \in [Device -> [Device -> Stamp]]
    BY <1>10, InHand DEF CommitRoot
  <2> QED
    BY <1>10, <2>1, <2>2 DEF CommitRoot
<1>11. CASE TaskPersist(d) \/ HandlePersist(d)
  BY <1>11 DEF TaskPersist, HandlePersist
<1>12. ASSUME NEW a \in Actors, WriteDoc(d, a) \/ Finish(d, a) PROVE MemOK'
  BY <1>12 DEF WriteDoc, Finish, WriteReplay, WriteFail
<1>13. CASE Crash(d)
  BY <1>13, Blanks DEF Crash
<1>14. CASE Restart(d) \/ RestartCorrupt(d)
  BY <1>14, RestartType
<1> QED
  BY <1>1, <1>2, <1>3, <1>4, <1>5, <1>6, <1>7, <1>8, <1>9, <1>10, <1>11, <1>12, <1>13, <1>14
     DEF StepOf, Quiet

\* The task: its program counter, snapshot and frame in hand.
LEMMA TaskTypeStep ==
  ASSUME TypeOK, NEW d \in Device, StepOf(d)
  PROVE  TaskOK'
<1> USE DEF TypeOK, TaskOK
<1>1. CASE Quiet(d)
  BY <1>1 DEF Quiet, Tick, StepBack, LinkUp, LinkDown, NoticeLinks, Refuse
<1>2. CASE Arm(d)
  BY <1>2 DEF Arm, WakeArm, FlushArm, RootServeArm, Encode, MemOK
<1>3. CASE SendRoot(d) \/ PublishFail(d)
  BY <1>3 DEF SendRoot, PublishFail, PublishEnds
<1>4. ASSUME NEW o \in Ops, Mutate(d, o) PROVE TaskOK'
  BY <1>4 DEF Mutate
<1>5. ASSUME NEW f \in wire, Receive(d, f) PROVE TaskOK'
  BY <1>5 DEF Receive, NetOK
<1>6. CASE Abandon(d)
  BY <1>6, Blanks DEF Abandon, FetchMiss, DropRoot, GiveUp
<1>7. CASE MergeRoot(d) \/ CommitRoot(d)
  BY <1>7, Blanks DEF MergeRoot, CommitRoot
<1>8. CASE TaskPersist(d) \/ HandlePersist(d)
  BY <1>8 DEF TaskPersist, HandlePersist
<1>9. ASSUME NEW a \in Actors, WriteDoc(d, a) \/ Finish(d, a) PROVE TaskOK'
  BY <1>9 DEF WriteDoc, Finish, WriteReplay, WriteFail, JobEnds
<1>10. CASE Crash(d)
  BY <1>10, Blanks DEF Crash
<1>11. CASE Restart(d) \/ RestartCorrupt(d)
  BY <1>11 DEF Restart, RestartCorrupt, RestartFrom
<1> QED
  BY <1>1, <1>2, <1>3, <1>4, <1>5, <1>6, <1>7, <1>8, <1>9, <1>10, <1>11 DEF StepOf

\* The files and the persists in progress.
LEMMA FilesTypeStep ==
  ASSUME TypeOK, NEW d \in Device, StepOf(d)
  PROVE  FilesOK'
<1> USE DEF TypeOK, FilesOK
<1>1. CASE UNCHANGED <<job, disk>>
  BY <1>1
<1>2. CASE TaskPersist(d) \/ HandlePersist(d)
  <2>1. [stage |-> "doc", doc |-> state[d], trk |-> tracker[d]] \in Job
    BY DEF MemOK, Job
  <2>2. CASE TaskPersist(d)
    BY <2>1, <2>2 DEF TaskPersist, Snapshotted, Actors
  <2>3. CASE HandlePersist(d)
    BY <2>1, <2>3 DEF HandlePersist, Snapshotted, Actors
  <2> QED
    BY <1>2, <2>2, <2>3
<1>3. ASSUME NEW a \in Actors, WriteDoc(d, a) \/ Finish(d, a) PROVE FilesOK'
  <2> DEFINE Files == [doc : SUBSET Ops, replay : [Device -> Stamp]]
  <2>1. job[d][a] \in Job /\ disk[d] \in Files
    OBVIOUS
  <2>2. /\ [job[d][a] EXCEPT !.stage = "replay"] \in Job
        /\ [disk[d] EXCEPT !.doc = job[d][a].doc] \in Files
        /\ [disk[d] EXCEPT !.replay = job[d][a].trk] \in Files
    BY <2>1 DEF Job
  <2>3. CASE WriteDoc(d, a)
    BY <2>2, <2>3 DEF WriteDoc
  <2>4. CASE WriteReplay(d, a)
    BY <2>2, <2>4, Blanks DEF WriteReplay, JobEnds
  <2>5. CASE WriteFail(d, a)
    BY <2>5, Blanks DEF WriteFail, JobEnds
  <2> QED
    BY <1>3, <2>3, <2>4, <2>5 DEF Finish
<1>4. CASE Crash(d)
  BY <1>4, Blanks DEF Crash
<1>5. CASE Restart(d) \/ RestartCorrupt(d)
  BY <1>5, RestartType
<1>6. CASE SendRoot(d) \/ PublishFail(d)
  BY <1>6 DEF SendRoot, PublishFail
<1>7. ASSUME NEW o \in Ops, Mutate(d, o) PROVE FilesOK'
  BY <1>7 DEF Mutate
<1>8. CASE MergeRoot(d) \/ CommitRoot(d)
  BY <1>8 DEF MergeRoot, CommitRoot
<1>9. ASSUME NEW f \in wire, Receive(d, f) PROVE FilesOK'
  BY <1>9 DEF Receive
<1>10. CASE Quiet(d) \/ Arm(d) \/ Abandon(d)
  BY <1>1, <1>10, QuietFrame, ArmFrame, AbandonFrame
<1> QED
  BY <1>2, <1>3, <1>4, <1>5, <1>6, <1>7, <1>8, <1>9, <1>10 DEF StepOf

\* The network: only frames that were sent are ever due at a device, those a
\* retry re-injects included.
LEMMA NetStep ==
  ASSUME TypeOK, HandInv, NEW d \in Device, StepOf(d)
  PROVE  NetOK'
<1> USE LeftType DEF TypeOK, NetOK, Events
<1>1. CASE Tick(d) \/ StepBack(d) \/ NoticeLinks(d)
  BY <1>1 DEF Tick, StepBack, NoticeLinks
<1>2. ASSUME NEW e \in Device, LinkUp(d, e) \/ LinkDown(d, e) PROVE NetOK'
  BY <1>2, SMTT(40) DEF LinkUp, LinkDown, Pairs
<1>3. ASSUME NEW f \in wire, Refuse(d, f) \/ Receive(d, f) PROVE NetOK'
  BY <1>3 DEF Refuse, Receive
<1>4. CASE Arm(d)
  BY <1>4 DEF Arm, WakeArm, FlushArm, RootServeArm
<1>5. CASE SendRoot(d)
  BY <1>5, RootFrameType DEF SendRoot
<1>6. CASE PublishFail(d)
  BY <1>6 DEF PublishFail
<1>7. ASSUME NEW o \in Ops, Mutate(d, o) PROVE NetOK'
  BY <1>7 DEF Mutate
<1>8. CASE FetchMiss(d)
  BY <1>8 DEF FetchMiss, GiveUp, HandInv
<1>9. CASE DropRoot(d)
  BY <1>9 DEF DropRoot, GiveUp
<1>10. CASE MergeRoot(d) \/ CommitRoot(d) \/ TaskPersist(d)
  BY <1>10 DEF MergeRoot, CommitRoot, TaskPersist
<1>11. CASE HandlePersist(d)
  BY <1>11 DEF HandlePersist
<1>12. ASSUME NEW a \in Actors, WriteDoc(d, a) \/ Finish(d, a) PROVE NetOK'
  BY <1>12 DEF WriteDoc, Finish, WriteReplay, WriteFail
<1>13. CASE Crash(d)
  BY <1>13 DEF Crash
<1>14. CASE Restart(d) \/ RestartCorrupt(d)
  BY <1>14 DEF Restart, RestartCorrupt, RestartFrom
<1> QED
  BY <1>1, <1>2, <1>3, <1>4, <1>5, <1>6, <1>7, <1>8, <1>9, <1>10, <1>11, <1>12, <1>13, <1>14
     DEF StepOf, Quiet, Abandon

\* What a device believes of its links, and the history of the gaps.
LEMMA GapStep ==
  ASSUME TypeOK, NEW d \in Device, StepOf(d)
  PROVE  GapOK'
<1> USE DEF TypeOK, GapOK
<1>1. CASE UNCHANGED gapVars
  BY <1>1
<1>2. ASSUME NEW e \in Device, LinkDown(d, e) PROVE GapOK'
  BY <1>2 DEF LinkDown
<1>3. CASE NoticeLinks(d)
  BY <1>3 DEF NoticeLinks, Linked
<1>4. CASE SendRoot(d)
  BY <1>4 DEF SendRoot
<1>5. CASE MergeRoot(d)
  <2>1. late' \in [Device -> SUBSET Ops]
    BY <1>5, InHand DEF MergeRoot
  <2> QED
    BY <1>5, <2>1 DEF MergeRoot
<1>6. CASE Crash(d)
  BY <1>6 DEF Crash
<1>7. CASE Tick(d) \/ StepBack(d) \/ Arm(d)
  BY <1>1, <1>7 DEF Tick, StepBack, Arm, WakeArm, FlushArm, RootServeArm
<1>8. ASSUME NEW e \in Device, LinkUp(d, e) PROVE GapOK'
  BY <1>1, <1>8 DEF LinkUp
<1>9. ASSUME NEW f \in wire, Refuse(d, f) \/ Receive(d, f) PROVE GapOK'
  BY <1>1, <1>9 DEF Refuse, Receive
<1>10. ASSUME NEW o \in Ops, Mutate(d, o) PROVE GapOK'
  BY <1>1, <1>10 DEF Mutate
<1>11. CASE PublishFail(d) \/ Abandon(d) \/ CommitRoot(d)
  BY <1>1, <1>11 DEF PublishFail, Abandon, FetchMiss, DropRoot, GiveUp, CommitRoot
<1>12. CASE TaskPersist(d) \/ HandlePersist(d)
  BY <1>1, <1>12 DEF TaskPersist, HandlePersist
<1>13. ASSUME NEW a \in Actors, WriteDoc(d, a) \/ Finish(d, a) PROVE GapOK'
  BY <1>1, <1>13 DEF WriteDoc, Finish, WriteReplay, WriteFail
<1>14. CASE Restart(d) \/ RestartCorrupt(d)
  BY <1>1, <1>14 DEF Restart, RestartCorrupt, RestartFrom
<1> QED
  BY <1>2, <1>3, <1>4, <1>5, <1>6, <1>7, <1>8, <1>9, <1>10, <1>11, <1>12, <1>13, <1>14
     DEF StepOf, Quiet

\* Every step keeps the types.
LEMMA TypeStep ==
  ASSUME TypeOK, HandInv, [Next]_vars
  PROVE  TypeOK'
<1>1. ASSUME NEW d \in Device, StepOf(d) PROVE TypeOK'
  <2>1. MemOK' /\ TaskOK'
    BY <1>1, MemStep, TaskTypeStep
  <2>2. FilesOK' /\ NetOK' /\ GapOK'
    BY <1>1, FilesTypeStep, NetStep, GapStep
  <2> QED
    BY <2>1, <2>2 DEF TypeOK
<1>2. CASE UNCHANGED vars
  BY <1>2 DEF vars, TypeOK, MemOK, TaskOK, FilesOK, NetOK, GapOK
<1> QED
  BY <1>1, <1>2, NextSteps DEF TypeOK
----------------------------------------------------------------------------
(***************************************************************************)
(* SafeInv: what holds in every fleet.                                     *)
(***************************************************************************)
\* The sink admits one persist at a time, and a crash ends it.
LEMMA JobStep ==
  ASSUME TypeOK, JobInv, [Next]_vars
  PROVE  JobInv'
<1> USE DEF JobInv, Active, Actors
<1>1. ASSUME NEW d \in Device, Quiet(d) PROVE JobInv'
  BY <1>1, QuietFrame
<1>2. ASSUME NEW d \in Device, Arm(d) PROVE JobInv'
  BY <1>2, ArmFrame DEF TypeOK, TaskOK
<1>3. ASSUME NEW d \in Device, SendRoot(d) \/ PublishFail(d) PROVE JobInv'
  BY <1>3, SendFrame, FailFrame
<1>4. ASSUME NEW d \in Device, NEW o \in Ops, Mutate(d, o) PROVE JobInv'
  BY <1>4 DEF Mutate
<1>5. ASSUME NEW d \in Device, NEW f \in wire, Receive(d, f) PROVE JobInv'
  BY <1>5 DEF Receive, TypeOK, TaskOK
<1>6. ASSUME NEW d \in Device, Abandon(d) PROVE JobInv'
  BY <1>6, AbandonFrame DEF TypeOK, TaskOK
<1>7. ASSUME NEW d \in Device, MergeRoot(d) \/ CommitRoot(d) PROVE JobInv'
  BY <1>7 DEF MergeRoot, CommitRoot, TypeOK, TaskOK
<1>8. ASSUME NEW d \in Device, TaskPersist(d) PROVE JobInv'
  BY <1>8 DEF TaskPersist, Snapshotted, SinkFree, TypeOK, TaskOK, FilesOK
<1>9. ASSUME NEW d \in Device, HandlePersist(d) PROVE JobInv'
  BY <1>9 DEF HandlePersist, Snapshotted, SinkFree, TypeOK, TaskOK, FilesOK
<1>10. ASSUME NEW d \in Device, NEW a \in Actors, WriteDoc(d, a) PROVE JobInv'
  BY <1>10 DEF WriteDoc, TypeOK, FilesOK
<1>11. ASSUME NEW d \in Device, NEW a \in Actors, Finish(d, a) PROVE JobInv'
  <2>1. CASE a = "task"
    BY <1>11, <2>1, FinishFrame DEF NoJob, TypeOK, TaskOK, FilesOK
  <2>2. CASE a = "handle"
    <3>1. pc' = pc /\ up' = up
      BY <1>11, <2>2, FinishFrame DEF TypeOK, TaskOK
    <3>2. /\ ~Active(d, "handle")' /\ (Active(d, "task")' <=> Active(d, "task"))
          /\ \A e \in Device \ {d} : job'[e] = job[e]
      <4>1. job' = [job EXCEPT ![d]["handle"] = NoJob]
        BY <1>11, <2>2, FinishFrame
      <4>2. job \in [Device -> [Actors -> Job]]
        BY DEF TypeOK, FilesOK
      <4> QED
        BY <4>1, <4>2 DEF NoJob
    <3> QED
      BY <1>11, <3>1, <3>2, FinishFrame
  <2> QED
    BY <2>1, <2>2
<1>12. ASSUME NEW d \in Device, Crash(d) PROVE JobInv'
  BY <1>12, CrashFrame
<1>13. ASSUME NEW d \in Device, Restart(d) \/ RestartCorrupt(d) PROVE JobInv'
  BY <1>13, RestartFrame DEF TypeOK, MemOK
<1>14. CASE UNCHANGED vars
  BY <1>14 DEF vars
<1> HIDE DEF JobInv
<1> QED
  BY <1>1, <1>2, <1>3, <1>4, <1>5, <1>6, <1>7, <1>8, <1>9, <1>10, <1>11, <1>12, <1>13, <1>14,
     NextSteps DEF StepOf, TypeOK

\* handle_incoming_publish works on a frame from the wire, and what it merged
\* stays merged.
LEMMA HandStep ==
  ASSUME TypeOK, JobInv, HandInv, [Next]_vars
  PROVE  HandInv'
<1> USE DEF HandInv, TypeOK, TaskOK
<1>1. ASSUME NEW d \in Device, Quiet(d) PROVE HandInv'
  BY <1>1, QuietFrame
<1>2. ASSUME NEW d \in Device, Arm(d) PROVE HandInv'
  BY <1>2, ArmFrame
<1>3. ASSUME NEW d \in Device, SendRoot(d) \/ PublishFail(d) PROVE HandInv'
  BY <1>3, SendFrame, FailFrame
<1>4. ASSUME NEW d \in Device, NEW o \in Ops, Mutate(d, o) PROVE HandInv'
  BY <1>4 DEF Mutate, MemOK
<1>5. ASSUME NEW d \in Device, NEW f \in wire, Receive(d, f) PROVE HandInv'
  BY <1>5 DEF Receive
<1>6. ASSUME NEW d \in Device, Abandon(d) PROVE HandInv'
  BY <1>6, AbandonFrame
<1>7. ASSUME NEW d \in Device, MergeRoot(d) PROVE HandInv'
  BY <1>7 DEF MergeRoot, MemOK
<1>8. ASSUME NEW d \in Device, CommitRoot(d) PROVE HandInv'
  BY <1>8 DEF CommitRoot
<1>9. ASSUME NEW d \in Device, TaskPersist(d) \/ HandlePersist(d) PROVE HandInv'
  BY <1>9 DEF TaskPersist, HandlePersist
<1>10. ASSUME NEW d \in Device, NEW a \in Actors, WriteDoc(d, a) PROVE HandInv'
  BY <1>10 DEF WriteDoc
<1>11. ASSUME NEW d \in Device, NEW a \in Actors, Finish(d, a) PROVE HandInv'
  BY <1>11, FinishFrame
<1>12. ASSUME NEW d \in Device, Crash(d) PROVE HandInv'
  BY <1>12, CrashFrame
<1>13. ASSUME NEW d \in Device, Restart(d) \/ RestartCorrupt(d) PROVE HandInv'
  BY <1>13, RestartFrame DEF JobInv
<1>14. CASE UNCHANGED vars
  BY <1>14 DEF vars
<1> HIDE DEF HandInv
<1> QED
  BY <1>1, <1>2, <1>3, <1>4, <1>5, <1>6, <1>7, <1>8, <1>9, <1>10, <1>11, <1>12, <1>13, <1>14,
     NextSteps DEF StepOf

\* The order of stamps.
LEMMA NewerOrder ==
  /\ \A a \in Stamp : ~Newer(a, a)
  /\ \A a, b, c \in Stamp : ~Newer(a, b) /\ Newer(c, b) => ~Newer(a, c) /\ Newer(c, a)
  /\ \A a, b \in Stamp : Newer(a, b) => a # NoStamp
  BY DEF Stamp, Newer, NoStamp

\* compute_next_hlc: a mint is newer than the device's own tracker entry,
\* whatever its wall clock and its adoption floor say.
LEMMA MintNewer ==
  ASSUME MemOK, NEW d \in Device
  PROVE  Newer(Mint(d), tracker[d][d])
<1>1. MergedNow(d) \in Nat
  BY CapAssumption DEF MemOK, MergedNow, Larger, Smaller
<1>2. tracker[d][d] \in Stamp
  BY DEF MemOK
<1> QED
  BY <1>1, <1>2 DEF Mint, NextStamp, Newer, Stamp

\* After a mint the session is still not behind any stamp it published.
LEMMA MintedOrder ==
  ASSUME TypeOK, SessionInv, NEW d \in Device,
         tracker' = [tracker EXCEPT ![d][d] = Mint(d)]
  PROVE  \A f \in wire : f.boot = boot[f.from] /\ up[f.from] =>
           ~Newer(f.at, tracker'[f.from][f.from])
<1>1. \A f \in wire : f.from \in Device /\ f.at \in Stamp
  BY DEF TypeOK, NetOK, Frame
<1> QED
  BY <1>1, MintType, MintNewer, NewerOrder DEF SessionInv, TypeOK, MemOK

\* Frames come from devices and belong to a session of theirs.
LEMMA FrameFields ==
  ASSUME TypeOK
  PROVE  \A f \in wire : f.from \in Device /\ f.at \in Stamp /\ f.boot \in Nat
  BY DEF TypeOK, NetOK, Frame

\* A session keeps what it has published.
LEMMA SessionStep ==
  ASSUME TypeOK, JobInv, SessionInv, [Next]_vars
  PROVE  SessionInv'
<1> USE FrameFields DEF SessionInv
<1>1. ASSUME NEW d \in Device, Quiet(d) PROVE SessionInv'
  BY <1>1, QuietFrame
<1>2. ASSUME NEW d \in Device, Arm(d) PROVE SessionInv'
  BY <1>2, ArmFrame DEF TypeOK, TaskOK
<1>3. ASSUME NEW d \in Device, SendRoot(d) PROVE SessionInv'
  <2>1. Mint(d) \in Stamp /\ Mint(d) # NoStamp
    BY MintType, MintNewer, NewerOrder DEF TypeOK, MemOK
  <2>2. /\ RootFrame(d).from = d /\ RootFrame(d).at = Mint(d)
        /\ RootFrame(d).boot = boot[d] /\ RootFrame(d).content = snap[d]
    BY DEF RootFrame
  <2>3. tracker'[d][d] = Mint(d) /\ ~Newer(Mint(d), tracker'[d][d]) /\ boot[d] <= boot[d]
    BY <1>3, <2>1, SendFrame, NewerOrder DEF TypeOK, MemOK
  <2> QED
    BY <1>3, <2>1, <2>2, <2>3, SendFrame, MintedOrder
<1>4. ASSUME NEW d \in Device, PublishFail(d) PROVE SessionInv'
  <2>1. CASE tracker' = tracker
    BY <1>4, <2>1, FailFrame
  <2>2. CASE tracker' = [tracker EXCEPT ![d][d] = Mint(d)]
    BY <1>4, <2>2, FailFrame, MintedOrder
  <2> QED
    BY <1>4, <2>1, <2>2, FailFrame
<1>5. ASSUME NEW d \in Device, NEW o \in Ops, Mutate(d, o) PROVE SessionInv'
  <2>1. \A e \in Device : state[e] \subseteq state'[e]
    BY <1>5 DEF Mutate, TypeOK, MemOK
  <2> QED
    BY <1>5, <2>1, MintedOrder DEF Mutate
<1>6. ASSUME NEW d \in Device, NEW f \in wire, Receive(d, f) PROVE SessionInv'
  BY <1>6 DEF Receive, TypeOK, TaskOK
<1>7. ASSUME NEW d \in Device, Abandon(d) PROVE SessionInv'
  BY <1>7, AbandonFrame DEF TypeOK, TaskOK
<1>8. ASSUME NEW d \in Device, MergeRoot(d) PROVE SessionInv'
  BY <1>8 DEF MergeRoot, TypeOK, MemOK, TaskOK
<1>9. ASSUME NEW d \in Device, CommitRoot(d) PROVE SessionInv'
  <2>1. \A e \in Device : pc'[e] = "snapped" => pc[e] = "snapped"
    BY <1>9 DEF CommitRoot, TypeOK, TaskOK
  <2>2. \A f \in wire : f.boot = boot[f.from] /\ up[f.from] =>
          ~Newer(f.at, tracker'[f.from][f.from])
    BY <1>9, InHand, NewerOrder DEF CommitRoot, TypeOK, MemOK
  <2> QED
    BY <1>9, <2>1, <2>2 DEF CommitRoot
<1>10. ASSUME NEW d \in Device, TaskPersist(d) \/ HandlePersist(d) PROVE SessionInv'
  BY <1>10 DEF TaskPersist, HandlePersist, TypeOK, TaskOK
<1>11. ASSUME NEW d \in Device, NEW a \in Actors, WriteDoc(d, a) PROVE SessionInv'
  BY <1>11 DEF WriteDoc
<1>12. ASSUME NEW d \in Device, NEW a \in Actors, Finish(d, a) PROVE SessionInv'
  BY <1>12, FinishFrame DEF TypeOK, TaskOK
<1>13. ASSUME NEW d \in Device, Crash(d) PROVE SessionInv'
  BY <1>13, CrashFrame
<1>14. ASSUME NEW d \in Device, Restart(d) \/ RestartCorrupt(d) PROVE SessionInv'
  <2>1. \A f \in wire : f.from = d => f.boot < boot'[d]
    BY <1>14, RestartFrame DEF TypeOK, MemOK
  <2>2. \A e \in Device \ {d} : up'[e] = up[e] /\ boot'[e] = boot[e]
    BY <1>14, RestartFrame DEF TypeOK, MemOK
  <2>3. boot'[d] \in Nat /\ pc[d] = "select"
    BY <1>14, RestartFrame DEF JobInv, TypeOK, MemOK
  <2> QED
    BY <1>14, <2>1, <2>2, <2>3, RestartFrame
<1>15. CASE UNCHANGED vars
  BY <1>15 DEF vars
<1> HIDE DEF SessionInv
<1> QED
  BY <1>1, <1>2, <1>3, <1>4, <1>5, <1>6, <1>7, <1>8, <1>9, <1>10, <1>11, <1>12, <1>13, <1>14,
     <1>15, NextSteps DEF StepOf, TypeOK

\* SendRoot alone puts frames on the wire.
LEMMA OnlySendRoot ==
  ASSUME TypeOK, [Next]_vars
  PROVE  wire' = wire \/ \E d \in Device : SendRoot(d)
<1>1. ASSUME NEW d \in Device, Quiet(d) \/ Arm(d) \/ PublishFail(d) \/ Abandon(d)
      PROVE  wire' = wire
  BY <1>1, QuietFrame, ArmFrame, FailFrame, AbandonFrame
<1>2. ASSUME NEW d \in Device, Crash(d) \/ Restart(d) \/ RestartCorrupt(d)
      PROVE  wire' = wire
  BY <1>2, CrashFrame, RestartFrame
<1>3. ASSUME NEW d \in Device, (\E o \in Ops : Mutate(d, o)) \/ \E f \in wire : Receive(d, f)
      PROVE  wire' = wire
  BY <1>3 DEF Mutate, Receive
<1>4. ASSUME NEW d \in Device,
             MergeRoot(d) \/ CommitRoot(d) \/ TaskPersist(d) \/ HandlePersist(d)
      PROVE  wire' = wire
  BY <1>4 DEF MergeRoot, CommitRoot, TaskPersist, HandlePersist
<1>5. ASSUME NEW d \in Device, NEW a \in Actors, WriteDoc(d, a) \/ Finish(d, a)
      PROVE  wire' = wire
  BY <1>5, FinishFrame DEF WriteDoc
<1> QED
  BY <1>1, <1>2, <1>3, <1>4, <1>5, NextSteps DEF StepOf, TypeOK, vars

\* A new frame carries at least what its session published before.
LEMMA GrowStep ==
  ASSUME TypeOK, SessionInv, SessionFramesGrow, [Next]_vars
  PROVE  SessionFramesGrow'
<1>1. CASE wire' = wire
  BY <1>1 DEF SessionFramesGrow
<1>2. ASSUME NEW d \in Device, SendRoot(d) PROVE SessionFramesGrow'
  <2>1. \A f \in wire : f.from = d /\ f.boot = boot[d] =>
          f.content \subseteq snap[d] /\ Newer(Mint(d), f.at)
    <3>1. \A f \in wire : f.from = d /\ f.boot = boot[d] =>
            f.content \subseteq snap[d] /\ ~Newer(f.at, tracker[d][d])
      BY <1>2, SendFrame DEF SessionInv
    <3>2. Mint(d) \in Stamp /\ tracker[d][d] \in Stamp /\ Newer(Mint(d), tracker[d][d])
      BY MintType, MintNewer DEF TypeOK, MemOK
    <3> QED
      BY <3>1, <3>2, FrameFields, NewerOrder
  <2>2. /\ RootFrame(d).from = d /\ RootFrame(d).boot = boot[d]
        /\ RootFrame(d).at = Mint(d) /\ RootFrame(d).content = snap[d]
    BY DEF RootFrame
  <2> QED
    BY <1>2, <2>1, <2>2, SendFrame DEF SessionFramesGrow
<1> QED
  BY <1>1, <1>2, OnlySendRoot
----------------------------------------------------------------------------
(***************************************************************************)
(* CoverInv: what holds on top of it while no file is damaged.             *)
(***************************************************************************)
\* More frames, more content and other watermarks of one's own do no harm.
LEMMA CoversMono ==
  ASSUME NEW W, NEW V, W \subseteq V, NEW S, NEW R, S \subseteq R,
         NEW t, NEW u, NEW d, \A p \in Device \ {d} : u[p] = t[p], Covers(W, S, t, d)
  PROVE  Covers(V, R, u, d)
  BY DEF Covers

\* A publish, failed or not, moves no watermark of a sibling.
LEMMA OwnEntryOnly ==
  ASSUME TypeOK, NEW d \in Device,
         tracker' \in {tracker, [tracker EXCEPT ![d][d] = Mint(d)]}
  PROVE  \A e \in Device : \A p \in Device \ {e} : tracker'[e][p] = tracker[e][p]
  BY DEF TypeOK, MemOK

\* A scenario without damaged files stays one.
LEMMA NoDamage ==
  ASSUME TypeOK, left["corrupt"] = 0, [Next]_vars
  PROVE  left'["corrupt"] = 0 /\ \A d \in Device : ~RestartCorrupt(d)
<1> USE DEF Spend, Events, TypeOK, NetOK
<1>1. \A d \in Device : ~RestartCorrupt(d)
  BY DEF RestartCorrupt
<1>2. ASSUME NEW d \in Device, Quiet(d) \/ Arm(d) PROVE left'["corrupt"] = 0
  BY <1>2 DEF Quiet, Tick, StepBack, LinkUp, LinkDown, NoticeLinks, Refuse, Arm, WakeArm, FlushArm,
              RootServeArm
<1>3. ASSUME NEW d \in Device, SendRoot(d) \/ PublishFail(d) \/ Abandon(d)
      PROVE  left'["corrupt"] = 0
  BY <1>3 DEF SendRoot, PublishFail, Abandon, FetchMiss, DropRoot
<1>4. ASSUME NEW d \in Device, (\E o \in Ops : Mutate(d, o)) \/ \E f \in wire : Receive(d, f)
      PROVE  left'["corrupt"] = 0
  BY <1>4 DEF Mutate, Receive
<1>5. ASSUME NEW d \in Device,
             MergeRoot(d) \/ CommitRoot(d) \/ TaskPersist(d) \/ HandlePersist(d)
      PROVE  left'["corrupt"] = 0
  BY <1>5 DEF MergeRoot, CommitRoot, TaskPersist, HandlePersist
<1>6. ASSUME NEW d \in Device, NEW a \in Actors, WriteDoc(d, a) \/ Finish(d, a)
      PROVE  left'["corrupt"] = 0
  BY <1>6 DEF WriteDoc, Finish, WriteReplay, WriteFail
<1>7. ASSUME NEW d \in Device, Crash(d) \/ Restart(d) PROVE left'["corrupt"] = 0
  BY <1>7 DEF Crash, Restart
<1> QED
  BY <1>1, <1>2, <1>3, <1>4, <1>5, <1>6, <1>7, NextSteps DEF StepOf, vars

\* Apply-before-advance: only CommitRoot moves a sibling's watermark, after
\* the merge; a restart takes the watermarks the files cover.
LEMMA WatermarkStep ==
  ASSUME TypeOK, HandInv, FileInv, DiskCovered, WatermarkCovered, [Next]_vars
  PROVE  WatermarkCovered'
<1> USE CoversMono DEF WatermarkCovered
<1>1. ASSUME NEW d \in Device, Quiet(d) \/ Arm(d) \/ Abandon(d) PROVE WatermarkCovered'
  BY <1>1, QuietFrame, ArmFrame, AbandonFrame
<1>2. ASSUME NEW d \in Device, SendRoot(d) \/ PublishFail(d) PROVE WatermarkCovered'
  <2>1. tracker' \in {tracker, [tracker EXCEPT ![d][d] = Mint(d)]} /\ wire \subseteq wire'
    BY <1>2, SendFrame, FailFrame
  <2> QED
    BY <1>2, <2>1, OwnEntryOnly, SendFrame, FailFrame
<1>3. ASSUME NEW d \in Device, NEW o \in Ops, Mutate(d, o) PROVE WatermarkCovered'
  <2>1. \A e \in Device : state[e] \subseteq state'[e]
    BY <1>3 DEF Mutate, TypeOK, MemOK
  <2>2. \A e \in Device : \A p \in Device \ {e} : tracker'[e][p] = tracker[e][p]
    BY <1>3, OwnEntryOnly DEF Mutate
  <2>3. UNCHANGED <<up, pc, snap, job, disk, wire>>
    BY <1>3 DEF Mutate
  <2> QED
    BY <2>1, <2>2, <2>3
<1>4. ASSUME NEW d \in Device, NEW f \in wire, Receive(d, f) PROVE WatermarkCovered'
  BY <1>4 DEF Receive
<1>5. ASSUME NEW d \in Device, MergeRoot(d) PROVE WatermarkCovered'
  BY <1>5 DEF MergeRoot, TypeOK, MemOK
<1>6. ASSUME NEW d \in Device, CommitRoot(d) PROVE WatermarkCovered'
  <2>1. cur[d] \in wire /\ cur[d].content \subseteq state[d] /\ up[d]
    BY <1>6 DEF CommitRoot, HandInv
  <2>2. \A e \in Device \ {d} : tracker'[e] = tracker[e]
    BY <1>6 DEF CommitRoot, TypeOK, MemOK
  <2>3. \A p \in Device : \/ tracker'[d][p] = tracker[d][p]
                          \/ p = cur[d].from /\ tracker'[d][p] = cur[d].at
    BY <1>6 DEF CommitRoot, TypeOK, MemOK
  <2>4. Covers(wire, state[d], tracker'[d], d)
    BY <2>1, <2>3 DEF Covers
  <2> QED
    BY <1>6, <2>2, <2>4 DEF CommitRoot
<1>7. ASSUME NEW d \in Device, TaskPersist(d) \/ HandlePersist(d) PROVE WatermarkCovered'
  BY <1>7 DEF TaskPersist, HandlePersist
<1>8. ASSUME NEW d \in Device, NEW a \in Actors, WriteDoc(d, a) \/ Finish(d, a)
      PROVE  WatermarkCovered'
  BY <1>8, FinishFrame DEF WriteDoc
<1>9. ASSUME NEW d \in Device, Crash(d) PROVE WatermarkCovered'
  BY <1>9, CrashFrame
<1>10. ASSUME NEW d \in Device, Restart(d) PROVE WatermarkCovered'
  BY <1>10 DEF Restart, RestartFrom, DiskCovered, TypeOK, MemOK
<1>11. CASE UNCHANGED vars
  BY <1>11 DEF vars
<1>12. \A d \in Device : ~RestartCorrupt(d)
  BY NoDamage DEF FileInv
<1> HIDE DEF WatermarkCovered
<1> QED
  BY <1>1, <1>2, <1>3, <1>4, <1>5, <1>6, <1>7, <1>8, <1>9, <1>10, <1>11, <1>12,
     NextSteps DEF StepOf, TypeOK

\* A persist takes dataset and watermarks under both locks, so its image lies
\* between the file and the memory and covers its own watermarks; so does the
\* snapshot a publish is about to send.
LEMMA FileStep ==
  ASSUME TypeOK, JobInv, HandInv, WatermarkCovered, FileInv, [Next]_vars
  PROVE  FileInv'
<1>0. left'["corrupt"] = 0 /\ \A d \in Device : ~RestartCorrupt(d)
  BY NoDamage DEF FileInv
<1> USE <1>0, CoversMono DEF FileInv, Active
<1>1. ASSUME NEW d \in Device, Quiet(d) PROVE FileInv'
  BY <1>1, QuietFrame
<1>2. ASSUME NEW d \in Device, Arm(d) PROVE FileInv'
  BY <1>2, ArmFrame DEF WatermarkCovered, TypeOK, TaskOK
<1>3. ASSUME NEW d \in Device, SendRoot(d) \/ PublishFail(d) PROVE FileInv'
  <2>1. tracker' \in {tracker, [tracker EXCEPT ![d][d] = Mint(d)]} /\ wire \subseteq wire'
    BY <1>3, SendFrame, FailFrame
  <2>2. /\ UNCHANGED <<up, state, job, disk>> /\ pc'[d] # "snapped"
        /\ \A e \in Device \ {d} : pc'[e] = pc[e] /\ snap'[e] = snap[e]
    BY <1>3, SendFrame, FailFrame
  <2> QED
    BY <2>1, <2>2, OwnEntryOnly
<1>4. ASSUME NEW d \in Device, NEW o \in Ops, Mutate(d, o) PROVE FileInv'
  <2>1. \A e \in Device : state[e] \subseteq state'[e]
    BY <1>4 DEF Mutate, TypeOK, MemOK
  <2>2. \A e \in Device : \A p \in Device \ {e} : tracker'[e][p] = tracker[e][p]
    BY <1>4, OwnEntryOnly DEF Mutate
  <2>3. UNCHANGED <<up, pc, snap, job, disk, wire>>
    BY <1>4 DEF Mutate
  <2> QED
    BY <2>1, <2>2, <2>3
<1>5. ASSUME NEW d \in Device, NEW f \in wire, Receive(d, f) PROVE FileInv'
  BY <1>5 DEF Receive, TypeOK, TaskOK
<1>6. ASSUME NEW d \in Device, Abandon(d) PROVE FileInv'
  BY <1>6, AbandonFrame DEF TypeOK, TaskOK
<1>7. ASSUME NEW d \in Device, MergeRoot(d) PROVE FileInv'
  BY <1>7 DEF MergeRoot, TypeOK, MemOK, TaskOK
<1>8. ASSUME NEW d \in Device, CommitRoot(d) PROVE FileInv'
  <2>1. /\ \A e \in Device \ {d} : tracker'[e] = tracker[e] /\ pc'[e] = pc[e]
        /\ pc'[d] = "persist"
    BY <1>8 DEF CommitRoot, TypeOK, MemOK, TaskOK
  <2> QED
    BY <1>8, <2>1 DEF CommitRoot
<1>9. ASSUME NEW d \in Device, NEW a \in Actors, Snapshotted(d, a),
             UNCHANGED <<up, state, tracker, snap, disk, wire>>,
             \A e \in Device : pc'[e] = "snapped" => pc[e] = "snapped"
      PROVE  FileInv'
  BY <1>9 DEF Snapshotted, WatermarkCovered, TypeOK, FilesOK
<1>10. ASSUME NEW d \in Device, TaskPersist(d) PROVE FileInv'
  BY <1>9, <1>10 DEF TaskPersist, Actors, TypeOK, TaskOK
<1>11. ASSUME NEW d \in Device, HandlePersist(d) PROVE FileInv'
  BY <1>9, <1>11 DEF HandlePersist, Actors
<1>12. ASSUME NEW d \in Device, NEW a \in Actors, WriteDoc(d, a) PROVE FileInv'
  <2>1. /\ \A e \in Device \ {d} : job'[e] = job[e] /\ disk'[e] = disk[e]
        /\ \A b \in Actors \ {a} : job'[d][b] = job[d][b] /\ job[d][b].stage = "idle"
        /\ job'[d][a].doc = job[d][a].doc /\ job'[d][a].trk = job[d][a].trk
        /\ disk'[d].doc = job[d][a].doc
    BY <1>12 DEF WriteDoc, Actors, JobInv, TypeOK, FilesOK, Job
  <2> QED
    BY <1>12, <2>1 DEF WriteDoc
<1>13. ASSUME NEW d \in Device, NEW a \in Actors, Finish(d, a) PROVE FileInv'
  <2>1. /\ \A e \in Device \ {d} : job'[e] = job[e] /\ pc'[e] = pc[e]
        /\ \A b \in Actors \ {a} : job'[d][b] = job[d][b]
        /\ job'[d][a].stage = "idle" /\ pc'[d] \in {pc[d], "select"}
    BY <1>13, FinishFrame DEF NoJob, TypeOK, TaskOK, FilesOK
  <2> QED
    BY <1>13, <2>1, FinishFrame
<1>14. ASSUME NEW d \in Device, Crash(d) PROVE FileInv'
  BY <1>14, CrashFrame
<1>15. ASSUME NEW d \in Device, Restart(d) PROVE FileInv'
  <2>1. /\ disk' = disk /\ state'[d] = disk[d].doc /\ pc[d] = "select"
        /\ \A a \in Actors : ~Active(d, a)
    BY <1>15 DEF Restart, RestartFrom, JobInv, TypeOK, MemOK, FilesOK
  <2>2. \A e \in Device \ {d} : up'[e] = up[e]
    BY <1>15, RestartFrame DEF TypeOK, MemOK
  <2> QED
    BY <1>15, <2>1, <2>2, RestartFrame
<1>16. CASE UNCHANGED vars
  BY <1>16 DEF vars
<1> HIDE DEF FileInv
<1> QED
  BY <1>1, <1>2, <1>3, <1>4, <1>5, <1>6, <1>7, <1>8, <1>10, <1>11, <1>12, <1>13, <1>14, <1>15,
     <1>16, NextSteps DEF StepOf, TypeOK

\* Only the persists write the files, and only a damaged file is replaced by
\* a restart.
LEMMA OnlyWrites ==
  ASSUME TypeOK, FileInv, [Next]_vars
  PROVE  \/ disk' = disk
         \/ \E d \in Device : \E a \in Actors : WriteDoc(d, a) \/ Finish(d, a)
<1>1. ASSUME NEW d \in Device, Quiet(d) \/ Arm(d) \/ Abandon(d) PROVE disk' = disk
  BY <1>1, QuietFrame, ArmFrame, AbandonFrame
<1>2. ASSUME NEW d \in Device, SendRoot(d) \/ PublishFail(d) \/ Crash(d) PROVE disk' = disk
  BY <1>2, SendFrame, FailFrame, CrashFrame
<1>3. ASSUME NEW d \in Device, (\E o \in Ops : Mutate(d, o)) \/ \E f \in wire : Receive(d, f)
      PROVE  disk' = disk
  BY <1>3 DEF Mutate, Receive
<1>4. ASSUME NEW d \in Device,
             MergeRoot(d) \/ CommitRoot(d) \/ TaskPersist(d) \/ HandlePersist(d)
      PROVE  disk' = disk
  BY <1>4 DEF MergeRoot, CommitRoot, TaskPersist, HandlePersist
<1>5. ASSUME NEW d \in Device, Restart(d) PROVE disk' = disk
  BY <1>5 DEF Restart, RestartFrom, TypeOK, FilesOK
<1>6. \A d \in Device : ~RestartCorrupt(d)
  BY NoDamage DEF FileInv
<1> QED
  BY <1>1, <1>2, <1>3, <1>4, <1>5, <1>6, NextSteps DEF StepOf, TypeOK, vars

\* The writer replaces the dataset file first, so the watermarks on disk are
\* covered between the two writes and after either fails.
LEMMA DiskStep ==
  ASSUME TypeOK, FileInv, DiskCovered, [Next]_vars
  PROVE  DiskCovered'
<1> USE CoversMono DEF DiskCovered
<1>1. CASE disk' = disk
  BY <1>1, OnlySendRoot, SendFrame
<1>2. ASSUME NEW d \in Device, NEW a \in Actors, WriteDoc(d, a) PROVE DiskCovered'
  <2>1. disk[d].doc \subseteq job[d][a].doc
    BY <1>2 DEF WriteDoc, FileInv, Active
  <2> QED
    BY <1>2, <2>1 DEF WriteDoc, TypeOK, FilesOK
<1>3. ASSUME NEW d \in Device, NEW a \in Actors, WriteReplay(d, a) PROVE DiskCovered'
  <2>1. Covers(wire, disk[d].doc, job[d][a].trk, d)
    BY <1>3 DEF WriteReplay, FileInv, Active
  <2> QED
    BY <1>3, <2>1 DEF WriteReplay, TypeOK, FilesOK
<1>4. ASSUME NEW d \in Device, NEW a \in Actors, WriteFail(d, a) PROVE DiskCovered'
  BY <1>4 DEF WriteFail
<1> QED
  BY <1>1, <1>2, <1>3, <1>4, OnlyWrites DEF Finish

\* A persist never writes less than the file holds.
LEMMA DiskGrows ==
  ASSUME TypeOK, FileInv, [Next]_vars
  PROVE  \A d \in Device : disk[d].doc \subseteq disk'[d].doc
<1>1. ASSUME NEW d \in Device, NEW a \in Actors, WriteDoc(d, a)
      PROVE  \A e \in Device : disk[e].doc \subseteq disk'[e].doc
  BY <1>1, SMTT(40) DEF WriteDoc, FileInv, Active, TypeOK, FilesOK
<1> QED
  BY <1>1, OnlyWrites, FinishFrame

\* A root carries its snapshot, which covers the watermarks it acknowledges.
LEMMA AckStep ==
  ASSUME TypeOK, FileInv, AckCarriesContent, [Next]_vars
  PROVE  AckCarriesContent'
<1>1. CASE wire' = wire
  BY <1>1 DEF AckCarriesContent
<1>2. ASSUME NEW d \in Device, SendRoot(d) PROVE AckCarriesContent'
  <2>1. Covers(wire, snap[d], tracker[d], d)
    BY <1>2, SendFrame DEF FileInv
  <2>2. /\ RootFrame(d).from = d /\ RootFrame(d).content = snap[d]
        /\ \A p \in Device \ {d} : RootFrame(d).seen[p] = tracker[d][p]
    BY DEF RootFrame, TypeOK, MemOK
  <2>3. Covers(wire', RootFrame(d).content, RootFrame(d).seen, d)
    BY <1>2, <2>1, <2>2, SendFrame, CoversMono
  <2>4. \A f \in wire : Covers(wire', f.content, f.seen, f.from)
    BY <1>2, SendFrame, CoversMono DEF AckCarriesContent
  <2> QED
    BY <1>2, <2>2, <2>3, <2>4, SendFrame DEF AckCarriesContent
<1> QED
  BY <1>1, <1>2, OnlySendRoot
----------------------------------------------------------------------------
(***************************************************************************)
(* The theorems.                                                           *)
(***************************************************************************)
\* A fresh fleet satisfies SafeInv,
LEMMA InitInv ==
  ASSUME Init
  PROVE  TypeOK /\ JobInv /\ HandInv /\ SessionInv /\ SessionFramesGrow
<1>1. MemOK
  BY WallAssumption, Blanks DEF Init, MemOK
<1>2. TaskOK /\ FilesOK
  BY Blanks DEF Init, TaskOK, FilesOK
<1>3. NetOK /\ GapOK
  BY ScenarioAssumption DEF Init, NetOK, GapOK
<1>4. JobInv /\ HandInv
  BY DEF Init, JobInv, HandInv, Active, NoJob, Actors
<1>5. SessionInv /\ SessionFramesGrow
  BY DEF Init, SessionInv, SessionFramesGrow
<1> QED
  BY <1>1, <1>2, <1>3, <1>4, <1>5 DEF TypeOK

\* and without damaged files CoverInv.
LEMMA InitCovered ==
  ASSUME NoCorruption, Init
  PROVE  FileInv /\ WatermarkCovered /\ DiskCovered /\ AckCarriesContent
<1>1. \A d \in Device : Covers(wire, {}, NoTracks, d)
  BY DEF Covers, NoTracks
<1>2. WatermarkCovered /\ DiskCovered /\ AckCarriesContent
  BY <1>1 DEF Init, WatermarkCovered, DiskCovered, AckCarriesContent
<1>3. FileInv
  BY DEF Init, NoCorruption, FileInv, Active, NoJob
<1> QED
  BY <1>2, <1>3

\* The invariant of every fleet, damaged files included.
SafeInv == TypeOK /\ JobInv /\ HandInv /\ SessionInv /\ SessionFramesGrow

\* What holds on top of it while no file is damaged.
CoverInv == FileInv /\ WatermarkCovered /\ DiskCovered /\ AckCarriesContent

\* Every step of the fleet, faults included, keeps the invariant.
THEOREM FleetInvariant == Spec => []SafeInv
<1>1. Init => SafeInv
  BY InitInv DEF SafeInv
<1>2. SafeInv /\ [Next]_vars => SafeInv'
  BY TypeStep, JobStep, HandStep, SessionStep, GrowStep DEF SafeInv
<1> QED
  BY <1>1, <1>2, PTL DEF Spec

\* Memory, files and frames of every engine stay well typed, and nothing is
\* due at a device that was not sent.
THEOREM TypeCorrect == Spec => []TypeOK
<1>1. SafeInv => TypeOK
  BY DEF SafeInv
<1> QED
  BY <1>1, FleetInvariant, PTL

\* For any fleet and any faults, damaged files included: within a session a
\* publisher's later stamps carry larger datasets (encode_root_wire takes the
\* snapshot before the stamp, and mutations only add).
THEOREM FramesGrow == Spec => []SessionFramesGrow
<1>1. SafeInv => SessionFramesGrow
  BY DEF SafeInv
<1> QED
  BY <1>1, FleetInvariant, PTL

\* Without damaged files every watermark, in memory, on disk, in a persist or
\* in a `seen` digest, stands for content that is there.
THEOREM CoverInvariant ==
  ASSUME NoCorruption
  PROVE  Spec => []CoverInv
<1>1. Init => CoverInv
  BY InitCovered, NoCorruption DEF CoverInv
<1>2. SafeInv /\ CoverInv /\ [Next]_vars => CoverInv'
  BY FileStep, WatermarkStep, DiskStep, AckStep DEF SafeInv, CoverInv
<1> QED
  BY <1>1, <1>2, FleetInvariant, PTL DEF Spec

\* handle_incoming_publish: apply-before-advance holds for any number of
\* devices, mutations, misses and crashes.
THEOREM WatermarksSound ==
  ASSUME NoCorruption
  PROVE  Spec => []WatermarkCovered
<1>1. CoverInv => WatermarkCovered
  BY DEF CoverInv
<1> QED
  BY <1>1, CoverInvariant, NoCorruption, PTL

\* persist_direct and the file writers: a crash at any instant leaves files
\* whose watermarks the dataset file covers.
THEOREM FilesSound ==
  ASSUME NoCorruption
  PROVE  Spec => []DiskCovered
<1>1. CoverInv => DiskCovered
  BY DEF CoverInv
<1> QED
  BY <1>1, CoverInvariant, NoCorruption, PTL

\* encode_root_wire: a root acknowledges only what it carries.
THEOREM AcksSound ==
  ASSUME NoCorruption
  PROVE  Spec => []AckCarriesContent
<1>1. CoverInv => AckCarriesContent
  BY DEF CoverInv
<1> QED
  BY <1>1, CoverInvariant, NoCorruption, PTL

\* ReplayTracker::admit: refusing a root that is not strictly newer loses
\* nothing, as long as its publisher has not been restarted.
THEOREM DuplicatesHeld ==
  ASSUME NoCorruption
  PROVE  Spec => []DuplicateMeansHeld
<1>1. SafeInv /\ CoverInv => DuplicateMeansHeld
  <2> SUFFICES ASSUME SafeInv, CoverInv, NEW d \in Device, NEW f \in wire,
                      up[d], f.from # d, ~Admit(d, f),
                      \A g \in wire : g.from = f.from => g.boot = f.boot
               PROVE  f.content \subseteq state[d]
    BY DEF DuplicateMeansHeld
  <2>1. f.from \in Device /\ f.at \in Stamp
    BY DEF SafeInv, TypeOK, NetOK, Frame
  <2>2. ~Newer(f.at, tracker[d][f.from])
    BY DEF Admit
  <2>3. tracker[d][f.from] # NoStamp
    BY <2>1, <2>2 DEF SafeInv, SessionInv, Newer, Stamp, NoStamp
  <2>4. PICK g \in wire : g.from = f.from /\ g.at = tracker[d][f.from]
                           /\ g.content \subseteq state[d]
    BY <2>1, <2>3 DEF CoverInv, WatermarkCovered, Covers
  <2>5. f.content \subseteq g.content
    BY <2>2, <2>4 DEF SafeInv, SessionFramesGrow
  <2> QED
    BY <2>4, <2>5
<1> QED
  BY <1>1, FleetInvariant, CoverInvariant, NoCorruption, PTL

\* The dataset file only grows, whoever writes it.
THEOREM DiskMonotone ==
  ASSUME NoCorruption
  PROVE  Spec => DiskNeverRegresses
<1>1. SafeInv /\ CoverInv /\ [Next]_vars =>
        [\A d \in Device : disk[d].doc \subseteq disk'[d].doc]_vars
  BY DiskGrows DEF SafeInv, CoverInv
<1> QED
  BY <1>1, FleetInvariant, CoverInvariant, NoCorruption, PTL DEF Spec, DiskNeverRegresses
----------------------------------------------------------------------------
(***************************************************************************)
(* The fleet implements ReplicatedSet, damaged files included.             *)
(***************************************************************************)
\* A persist in progress lies between the dataset file and the memory, whoever
\* started it: the sink admits one, and nothing leaves memory while the device runs.
LEMMA OrderStep ==
  ASSUME TypeOK, JobInv, OrderInv, [Next]_vars
  PROVE  OrderInv'
<1> USE DEF OrderInv, Active
<1>1. ASSUME NEW d \in Device, Quiet(d) \/ Arm(d) \/ Abandon(d) PROVE OrderInv'
  BY <1>1, QuietFrame, ArmFrame, AbandonFrame
<1>2. ASSUME NEW d \in Device, SendRoot(d) \/ PublishFail(d) PROVE OrderInv'
  BY <1>2, SendFrame, FailFrame
<1>3. ASSUME NEW d \in Device, (\E o \in Ops : Mutate(d, o)) \/ MergeRoot(d) PROVE OrderInv'
  <2>1. \A e \in Device : state[e] \subseteq state'[e]
    BY <1>3 DEF Mutate, MergeRoot, TypeOK, MemOK
  <2>2. UNCHANGED <<up, job, disk>>
    BY <1>3 DEF Mutate, MergeRoot
  <2> QED
    BY <2>1, <2>2
<1>4. ASSUME NEW d \in Device, (\E f \in wire : Receive(d, f)) \/ CommitRoot(d) PROVE OrderInv'
  BY <1>4 DEF Receive, CommitRoot
<1>5. ASSUME NEW d \in Device, NEW a \in Actors, Snapshotted(d, a), UNCHANGED <<up, state, disk>>
      PROVE  OrderInv'
  BY <1>5 DEF Snapshotted, TypeOK, FilesOK
<1>6. ASSUME NEW d \in Device, TaskPersist(d) \/ HandlePersist(d) PROVE OrderInv'
  BY <1>5, <1>6 DEF TaskPersist, HandlePersist, Actors
<1>7. ASSUME NEW d \in Device, NEW a \in Actors, WriteDoc(d, a) PROVE OrderInv'
  <2>1. /\ \A e \in Device \ {d} : job'[e] = job[e] /\ disk'[e] = disk[e]
        /\ \A b \in Actors \ {a} : job'[d][b] = job[d][b] /\ job[d][b].stage = "idle"
        /\ job'[d][a].doc = job[d][a].doc /\ disk'[d].doc = job[d][a].doc
    BY <1>7 DEF WriteDoc, Actors, JobInv, TypeOK, FilesOK, Job
  <2> QED
    BY <1>7, <2>1 DEF WriteDoc
<1>8. ASSUME NEW d \in Device, NEW a \in Actors, Finish(d, a) PROVE OrderInv'
  <2>1. /\ \A e \in Device \ {d} : job'[e] = job[e]
        /\ \A b \in Actors \ {a} : job'[d][b] = job[d][b]
        /\ job'[d][a].stage = "idle"
    BY <1>8, FinishFrame DEF NoJob, TypeOK, FilesOK
  <2> QED
    BY <1>8, <2>1, FinishFrame
<1>9. ASSUME NEW d \in Device, Crash(d) PROVE OrderInv'
  BY <1>9, CrashFrame
<1>10. ASSUME NEW d \in Device, Restart(d) \/ RestartCorrupt(d) PROVE OrderInv'
  <2>1. /\ job' = job /\ disk'[d].doc = state'[d] /\ \A a \in Actors : ~Active(d, a)
        /\ \A e \in Device \ {d} : disk'[e] = disk[e] /\ state'[e] = state[e] /\ up'[e] = up[e]
    <3>1. ASSUME NEW files, RestartFrom(d, files)
          PROVE  /\ job' = job /\ disk'[d].doc = state'[d] /\ ~up[d]
                 /\ \A e \in Device \ {d} : /\ disk'[e] = disk[e] /\ state'[e] = state[e]
                                            /\ up'[e] = up[e]
      BY <3>1 DEF RestartFrom, TypeOK, MemOK, FilesOK
    <3>2. PICK files : RestartFrom(d, files)
      BY <1>10 DEF Restart, RestartCorrupt
    <3> QED
      BY <3>1, <3>2 DEF JobInv
  <2> QED
    BY <2>1
<1>11. CASE UNCHANGED vars
  BY <1>11 DEF vars
<1> HIDE DEF OrderInv
<1> QED
  BY <1>1, <1>2, <1>3, <1>4, <1>6, <1>7, <1>8, <1>9, <1>10, <1>11, NextSteps DEF StepOf, TypeOK

\* OrderInv holds, damaged files or not.
LEMMA OrderInvariant == Spec => []OrderInv
<1>1. Init => OrderInv
  BY DEF Init, OrderInv, Active, NoJob
<1>2. SafeInv /\ OrderInv /\ [Next]_vars => OrderInv'
  BY OrderStep DEF SafeInv
<1> QED
  BY <1>1, <1>2, FleetInvariant, PTL DEF Spec

\* A frame as ReplicatedSet sees it.
CopyOf(f) == [from |-> f.from, session |-> f.boot, content |-> f.content]

\* Every step of the fleet is a step of ReplicatedSet, or none.
LEMMA ReplicatedStep ==
  ASSUME SafeInv, OrderInv, [Next]_vars
  PROVE  [Replicated!Next]_(Replicated!vars)
<1> USE DEF SafeInv
<1>0. TypeOK
  OBVIOUS
<1>1. ASSUME UNCHANGED <<up, boot, state, wire>>, \A d \in Device : disk'[d].doc = disk[d].doc
      PROVE  UNCHANGED Replicated!vars
  BY <1>1 DEF Replicated!vars, Stored, Sent
<1>2. ASSUME NEW d \in Device, Quiet(d) \/ Arm(d) \/ Abandon(d) \/ PublishFail(d)
      PROVE  UNCHANGED Replicated!vars
  <2>1. UNCHANGED <<up, boot, state, wire, disk>>
    BY <1>0, <1>2, QuietFrame, ArmFrame, AbandonFrame, FailFrame
  <2> QED
    BY <1>1, <2>1
<1>3. ASSUME NEW d \in Device,
             \/ (\E f \in wire : Receive(d, f)) \/ CommitRoot(d)
             \/ TaskPersist(d) \/ HandlePersist(d)
      PROVE  UNCHANGED Replicated!vars
  BY <1>1, <1>3 DEF Receive, CommitRoot, TaskPersist, HandlePersist
<1>4. ASSUME NEW d \in Device, NEW a \in Actors, Finish(d, a)
      PROVE  UNCHANGED Replicated!vars
  <2>1. UNCHANGED <<up, boot, state, wire>>
    BY <1>4 DEF Finish, WriteReplay, WriteFail
  <2>2. \A e \in Device : disk'[e].doc = disk[e].doc
    BY <1>0, <1>4, FinishFrame
  <2> QED
    BY <1>1, <2>1, <2>2
<1>5. ASSUME NEW d \in Device, NEW o \in Ops, Mutate(d, o) PROVE Replicated!Next
  <2>1. Replicated!Perform(d, o)
    BY <1>5 DEF Mutate, Replicated!Perform, Stored, Sent
  <2> QED
    BY <2>1 DEF Replicated!Next
<1>6. ASSUME NEW d \in Device, MergeRoot(d) PROVE Replicated!Next
  <2>1. cur[d] \in wire
    BY <1>6 DEF MergeRoot, HandInv
  <2>2. CopyOf(cur[d]) \in Sent /\ CopyOf(cur[d]).content = cur[d].content
    BY <2>1 DEF Sent, CopyOf
  <2>3. Replicated!Learn(d, CopyOf(cur[d]))
    BY <1>6, <2>2 DEF MergeRoot, Replicated!Learn, Stored, Sent
  <2> QED
    BY <2>2, <2>3 DEF Replicated!Next
<1>7. ASSUME NEW d \in Device, SendRoot(d) PROVE Replicated!Next
  <2>1. /\ up[d] /\ pc[d] = "snapped" /\ wire' = wire \cup {RootFrame(d)}
        /\ UNCHANGED <<up, boot, state, disk>>
    BY <1>7 DEF SendRoot, PublishEnds
  <2>2. snap[d] \subseteq state[d]
    BY <2>1 DEF SessionInv
  <2>3. CopyOf(RootFrame(d)) = [from |-> d, session |-> boot[d], content |-> snap[d]]
    BY DEF CopyOf, RootFrame
  <2>4. Sent' = Sent \cup {CopyOf(RootFrame(d))}
    BY <2>1 DEF Sent, CopyOf
  <2>5. \A s \in Sent : s.from = d /\ s.session = boot[d] => s.content \subseteq snap[d]
    BY <2>1 DEF Sent, SessionInv
  <2>6. Stored' = Stored
    BY <2>1 DEF Stored
  <2>7. Replicated!Send(d, snap[d])
    BY <2>1, <2>2, <2>3, <2>4, <2>5, <2>6 DEF Replicated!Send
  <2>8. snap[d] \in SUBSET state[d]
    BY <2>2
  <2> QED
    BY <2>7, <2>8 DEF Replicated!Next
<1>8. ASSUME NEW d \in Device, NEW a \in Actors, WriteDoc(d, a) PROVE Replicated!Next
  <2>1. /\ up[d] /\ disk' = [disk EXCEPT ![d].doc = job[d][a].doc]
        /\ UNCHANGED <<up, boot, state, wire>>
    BY <1>8 DEF WriteDoc
  <2>2. job[d][a].doc \subseteq state[d] /\ disk[d].doc \subseteq job[d][a].doc
    BY <1>8 DEF WriteDoc, OrderInv, Active
  <2>3. Stored' = [Stored EXCEPT ![d] = job[d][a].doc] /\ Stored[d] = disk[d].doc
    BY <2>1 DEF Stored, TypeOK, FilesOK
  <2>4. Sent' = Sent
    BY <2>1 DEF Sent
  <2>5. Replicated!Save(d, job[d][a].doc)
    BY <2>1, <2>2, <2>3, <2>4 DEF Replicated!Save
  <2>6. job[d][a].doc \in SUBSET state[d]
    BY <2>2
  <2> QED
    BY <2>5, <2>6 DEF Replicated!Next
<1>9. ASSUME NEW d \in Device, Crash(d) PROVE Replicated!Next
  <2>1. Replicated!Crash(d)
    BY <1>9 DEF Crash, Replicated!Crash, Stored, Sent
  <2> QED
    BY <2>1 DEF Replicated!Next
<1>10. ASSUME NEW d \in Device, Restart(d) \/ RestartCorrupt(d) PROVE Replicated!Next
  <2>1. PICK files : RestartFrom(d, files) /\ files.doc \in {disk[d].doc, {}}
    <3>1. disk[d] \in [doc : SUBSET Ops, replay : [Device -> Stamp]]
      BY DEF TypeOK, FilesOK
    <3>2. /\ [disk[d] EXCEPT !.doc = {}].doc = {}
          /\ [disk[d] EXCEPT !.replay = NoTracks].doc = disk[d].doc
      BY <3>1
    <3> QED
      BY <1>10, <3>2 DEF Restart, RestartCorrupt
  <2>2. Stored' = [Stored EXCEPT ![d] = files.doc] /\ Stored[d] = disk[d].doc
    BY <2>1 DEF RestartFrom, Stored, TypeOK, FilesOK
  <2>3. Sent' = Sent
    BY <2>1 DEF RestartFrom, Sent
  <2>4. Replicated!Start(d, files.doc)
    BY <2>1, <2>2, <2>3 DEF RestartFrom, Replicated!Start
  <2> QED
    BY <2>1, <2>2, <2>4 DEF Replicated!Next
<1>11. CASE UNCHANGED vars
  BY <1>1, <1>11 DEF vars
<1>12. UNCHANGED vars \/ \E d \in Device : StepOf(d)
  BY NextSteps DEF TypeOK
<1> QED
  BY <1>2, <1>3, <1>4, <1>5, <1>6, <1>7, <1>8, <1>9, <1>10, <1>11, <1>12 DEF StepOf

\* The fleet, with its snapshots, late frames, racing persists, torn writes and
\* damaged files, does what the atomic ReplicatedSet does.
THEOREM ImplementsReplicatedSet == Spec => ReplicatesSet
<1>1. Init => Replicated!Init
  BY DEF Init, Replicated!Init, Stored, Sent
<1>2. SafeInv /\ OrderInv /\ [Next]_vars => [Replicated!Next]_(Replicated!vars)
  BY ReplicatedStep
<1> QED
  BY <1>1, <1>2, FleetInvariant, OrderInvariant, PTL DEF Spec, ReplicatesSet, Replicated!Spec
============================================================================
