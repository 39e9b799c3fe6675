------------------------- MODULE FleetEngineProofs -------------------------
(***************************************************************************)
(* Proofs about FleetEngine, for any number of concurrent callers.         *)
(*                                                                         *)
(* The safety properties follow from one inductive invariant, IInv.  The   *)
(* properties alone are not inductive: that the file never regresses needs *)
(* the bounds on the image in flight and that only one is in flight        *)
(* (SinkInv); that no dirt is stranded needs that a retry still standing   *)
(* when a publish succeeds is not the only reason to look again (WakeInv); *)
(* that replies are durable needs how far the arm serving the caller has   *)
(* come (CallerInv, StopInv).                                              *)
(***************************************************************************)
EXTENDS FleetEngine, TLAPS

USE WriterAssumption
USE DEF Actors, Idle, handleVars, wakeVars, taskVars, stopVars,
        TypeOK, WriterPcs, TaskPcs, Arms, Writing

\* The initial state satisfies the invariant: nothing is mutated, announced
\* or in flight.
LEMMA InitInv == Init => IInv
<1>. SUFFICES ASSUME Init
              PROVE  IInv
  OBVIOUS
<1>1. TypeOK
  BY DEF Init
<1>2. SinkInv /\ ArmInv /\ CallerInv
  BY DEF Init, SinkInv, ArmInv, CallerInv
<1>3. WakeInv /\ StopInv
  BY DEF Init, WakeInv, StopInv
<1>4. NoStrandedDirt /\ UnsentIsOwed /\ RepliesAreDurable /\ ShutdownIsDurable
  BY DEF Init, NoStrandedDirt, UnsentIsOwed, RepliesAreDurable, ShutdownIsDurable
<1>. QED
  BY <1>1, <1>2, <1>3, <1>4 DEF IInv

\* A step of a caller of the handle (mutation, notify_dirty, flush_now,
\* persist_now) preserves the invariant.
LEMMA WriterStep ==
  ASSUME IInv, NEW w \in Writers, Writer(w)
  PROVE  IInv'
<1> USE DEF IInv, SinkInv, ArmInv, CallerInv, WakeInv, StopInv,
            NoStrandedDirt, UnsentIsOwed, Carried, RepliesAreDurable, ShutdownIsDurable
<1>1. CASE Mutate(w)
  BY <1>1 DEF Mutate, Goto
<1>2. CASE Reoffer(w)
  BY <1>2 DEF Reoffer, Goto
<1>3. CASE SetDirty(w)
  BY <1>3 DEF SetDirty, Goto
<1>4. CASE NotifyOne(w)
  BY <1>4 DEF NotifyOne, Goto
<1>5. CASE CallFlush(w)
  BY <1>5 DEF CallFlush, Goto
<1>6. CASE FlushClosed(w)
  BY <1>6 DEF FlushClosed, Goto
<1>7. CASE CallPersist(w)
  BY <1>7 DEF CallPersist, Goto, SinkFree, Snapshotted
<1>8. CASE CancelPersist(w)
  BY <1>8 DEF CancelPersist, Goto
<1>9. CASE PersistDone(w)
  BY <1>9 DEF PersistDone
<1>. QED
  BY <1>1, <1>2, <1>3, <1>4, <1>5, <1>6, <1>7, <1>8, <1>9 DEF Writer

\* A step of the engine task that enters an arm preserves the invariant.
LEMMA ArmEntry ==
  ASSUME IInv,
         \/ PollNotified \/ NotifiedArm \/ WakeArm \/ ShutdownArm
         \/ \E w \in Writers : FlushArm(w)
         \/ InboundArm \/ RootServeArm
  PROVE  IInv'
<1> USE DEF IInv, SinkInv, ArmInv, CallerInv, WakeInv, StopInv,
            NoStrandedDirt, UnsentIsOwed, Carried, RepliesAreDurable, ShutdownIsDurable
<1>1. CASE PollNotified
  BY <1>1, ZenonT(60) DEF PollNotified
<1>2. CASE NotifiedArm
  BY <1>2, ZenonT(60) DEF NotifiedArm
<1>3. CASE WakeArm
  BY <1>3, ZenonT(60) DEF WakeArm, Claim
<1>4. CASE ShutdownArm
  BY <1>4 DEF ShutdownArm
<1>5. ASSUME NEW w \in Writers, FlushArm(w)
      PROVE  IInv'
  BY <1>5, ZenonT(60) DEF FlushArm, Claim
<1>6. CASE InboundArm
  BY <1>6 DEF InboundArm
<1>7. CASE RootServeArm
  BY <1>7 DEF RootServeArm
<1>. QED
  BY <1>1, <1>2, <1>3, <1>4, <1>5, <1>6, <1>7

\* A step of the engine task inside an arm (snapshot, publish and settle,
\* persist and reply) preserves the invariant.
LEMMA ArmProgress ==
  ASSUME IInv, ArmStep
  PROVE  IInv'
<1> USE DEF IInv, SinkInv, ArmInv, CallerInv, WakeInv, StopInv,
            NoStrandedDirt, UnsentIsOwed, Carried, RepliesAreDurable, ShutdownIsDurable
<1>1. CASE SnapshotRoot
  BY <1>1 DEF SnapshotRoot
<1>2. CASE PublishOk
  <2>1. TypeOK'
    BY <1>2 DEF PublishOk, Settle
  <2>2. SinkInv'
    BY <1>2 DEF PublishOk, Settle
  <2>3. ArmInv'
    BY <1>2 DEF PublishOk, Settle
  <2>4. CallerInv'
    BY <1>2 DEF PublishOk, Settle
  <2>5. WakeInv'
    BY <1>2 DEF PublishOk, Settle
  <2>6. StopInv'
    BY <1>2 DEF PublishOk, Settle
  <2>7. NoStrandedDirt'
    BY <1>2 DEF PublishOk, Settle
  <2>8. UnsentIsOwed'
    BY <1>2 DEF PublishOk, Settle
  <2>9. RepliesAreDurable'
    BY <1>2 DEF PublishOk, Settle
  <2>10. ShutdownIsDurable'
    BY <1>2 DEF PublishOk, Settle
  <2>. QED
    BY ONLY <2>1, <2>2, <2>3, <2>4, <2>5, <2>6, <2>7, <2>8, <2>9, <2>10 DEF IInv
<1>3. CASE PublishFail
  <2>1. TypeOK'
    BY <1>3 DEF PublishFail, Settle
  <2>2. SinkInv'
    BY <1>3 DEF PublishFail, Settle
  <2>3. ArmInv'
    BY <1>3 DEF PublishFail, Settle
  <2>4. CallerInv'
    BY <1>3 DEF PublishFail, Settle
  <2>5. WakeInv'
    BY <1>3 DEF PublishFail, Settle
  <2>6. StopInv'
    BY <1>3 DEF PublishFail, Settle
  <2>7. NoStrandedDirt'
    BY <1>3 DEF PublishFail, Settle
  <2>8. UnsentIsOwed'
    BY <1>3 DEF PublishFail, Settle
  <2>9. RepliesAreDurable'
    BY <1>3 DEF PublishFail, Settle
  <2>10. ShutdownIsDurable'
    BY <1>3 DEF PublishFail, Settle
  <2>. QED
    BY ONLY <2>1, <2>2, <2>3, <2>4, <2>5, <2>6, <2>7, <2>8, <2>9, <2>10 DEF IInv
<1>4. ASSUME NEW applied \in BOOLEAN, InboundDone(applied)
      PROVE  IInv'
  BY <1>4 DEF InboundDone
<1>5. CASE RootServeDone
  BY <1>5 DEF RootServeDone
<1>6. CASE TaskPersist
  BY <1>6 DEF TaskPersist, SinkFree, Snapshotted
<1>7. ASSUME NEW saved \in BOOLEAN, TaskPersisted(saved)
      PROVE  IInv'
  <2>1. TypeOK'
    BY <1>7 DEF TaskPersisted, Answer
  <2>2. SinkInv'
    BY <1>7 DEF TaskPersisted, Answer
  <2>3. ArmInv'
    BY <1>7 DEF TaskPersisted, Answer
  <2>4. CallerInv'
    BY <1>7 DEF TaskPersisted, Answer
  <2>5. WakeInv'
    BY <1>7 DEF TaskPersisted, Answer
  <2>6. StopInv'
    BY <1>7 DEF TaskPersisted, Answer
  <2>7. NoStrandedDirt'
    BY <1>7 DEF TaskPersisted, Answer
  <2>8. UnsentIsOwed'
    BY <1>7 DEF TaskPersisted, Answer
  <2>9. RepliesAreDurable'
    BY <1>7 DEF TaskPersisted, Answer
  <2>10. ShutdownIsDurable'
    BY <1>7 DEF TaskPersisted, Answer
  <2>. QED
    BY ONLY <2>1, <2>2, <2>3, <2>4, <2>5, <2>6, <2>7, <2>8, <2>9, <2>10 DEF IInv
<1>. QED
  BY ONLY ArmStep, <1>1, <1>2, <1>3, <1>4, <1>5, <1>6, <1>7 DEF ArmStep

\* IInv is inductive: every step of the engine, its callers and shutdown
\* preserves it.
LEMMA NextInv == IInv /\ [Next]_vars => IInv'
<1>. SUFFICES ASSUME IInv, [Next]_vars
              PROVE  IInv'
  OBVIOUS
<1>1. CASE CallShutdown
  BY <1>1 DEF CallShutdown, IInv, SinkInv, ArmInv, CallerInv, WakeInv, StopInv,
              NoStrandedDirt, UnsentIsOwed, Carried, RepliesAreDurable, ShutdownIsDurable
<1>2. CASE Task
  BY <1>2, ArmEntry, ArmProgress DEF Task
<1>3. CASE \E w \in Writers : Writer(w)
  BY <1>3, WriterStep
<1>4. CASE UNCHANGED vars
  BY <1>4 DEF vars, IInv, SinkInv, ArmInv, CallerInv, WakeInv, StopInv,
              NoStrandedDirt, UnsentIsOwed, Carried, RepliesAreDurable, ShutdownIsDurable
<1>. QED
  BY <1>1, <1>2, <1>3, <1>4 DEF Next

\* The inductive invariant holds in every reachable state of the engine.
THEOREM EngineInvariant == Spec => []IInv
  BY InitInv, NextInv, PTL DEF Spec

\* The engine's variables keep their types (fleet_sync.rs Ctx and handle).
THEOREM TypeCorrect == Spec => []TypeOK
<1>1. IInv => TypeOK
  BY DEF IInv
<1>. QED
  BY <1>1, EngineInvariant, PTL

\* ZEB-761 for every number of callers: a pending dirty flag always has a
\* wake-up behind it.
THEOREM DirtNeverStranded == Spec => []NoStrandedDirt
<1>1. IInv => NoStrandedDirt
  BY DEF IInv
<1>. QED
  BY <1>1, EngineInvariant, PTL

\* No announced mutation is forgotten by the claim / settle discipline.
THEOREM AnnouncedIsOwed == Spec => []UnsentIsOwed
<1>1. IInv => UnsentIsOwed
  BY DEF IInv
<1>. QED
  BY <1>1, EngineInvariant, PTL

\* A scheduled retry has work behind it whenever the loop sleeps: a failing
\* transport cannot make the idle engine spin.
THEOREM RetryHasWork == Spec => []RetryOwesWork
<1>1. IInv => RetryOwesWork
  BY DEF IInv, WakeInv, RetryOwesWork
<1>. QED
  BY <1>1, EngineInvariant, PTL

\* An Ok from persist_now or flush_now is a lasting promise.
THEOREM DurableReplies == Spec => []RepliesAreDurable
<1>1. IInv => RepliesAreDurable
  BY DEF IInv
<1>. QED
  BY <1>1, EngineInvariant, PTL

\* An Ok from shutdown means everything announced before is out and saved.
THEOREM DurableShutdown == Spec => []ShutdownIsDurable
<1>1. IInv => ShutdownIsDurable
  BY DEF IInv
<1>. QED
  BY <1>1, EngineInvariant, PTL

\* ZEB-710: the persist sink keeps an older image from overwriting a newer.
THEOREM DiskMonotone == Spec => DiskNeverRegresses
<1>1. IInv /\ [Next]_vars => [disk \subseteq disk']_vars
  <2>. SUFFICES ASSUME IInv, Next
                PROVE  disk \subseteq disk'
    OBVIOUS
  <2>1. ASSUME NEW w \in Writers, PersistDone(w)
        PROVE  disk \subseteq disk'
    BY <2>1 DEF IInv, SinkInv, PersistDone
  <2>2. ASSUME NEW saved \in BOOLEAN, TaskPersisted(saved)
        PROVE  disk \subseteq disk'
    BY <2>2 DEF IInv, SinkInv, TaskPersisted
  <2>. QED
    BY <2>1, <2>2 DEF Next, Task, ArmStep, Writer, CallShutdown,
       Mutate, Reoffer, SetDirty, NotifyOne, CallFlush, FlushClosed, CallPersist,
       CancelPersist, PollNotified, NotifiedArm, WakeArm, ShutdownArm, FlushArm,
       SnapshotRoot, PublishOk, PublishFail, InboundArm, RootServeArm, InboundDone,
       RootServeDone, TaskPersist
<1>. QED
  BY <1>1, EngineInvariant, PTL DEF Spec, DiskNeverRegresses
============================================================================
