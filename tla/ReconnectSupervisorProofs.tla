--------------------- MODULE ReconnectSupervisorProofs ---------------------
(***************************************************************************)
(* Proofs about ReconnectSupervisor, for any peers, permits, batch size,   *)
(* epoch limit and scenario: type correctness; the in-flight flag, the     *)
(* repair exemption, the notification and the slots are never out of step. *)
(* Each invariant part has one step lemma; the actions are grouped by what *)
(* they leave alone.                                                       *)
(***************************************************************************)
EXTENDS ReconnectSupervisor, TLAPS

USE PermitAssumption, BatchAssumption, EpochAssumption, EventAssumption

\* The groups of actions: those that leave every slot and every dial alone,
\* those that change one slot, those that change many, those of the dials.
Asks ==
  \E p \in Peer : Learn(p) \/ Depart(p) \/ Connect(p) \/ Drop(p) \/ Repair(p)
                  \/ Admits(p) \/ Denies(p)
Ticks == CooldownEnds \/ ParoleTick
Wakes == NotifyOne \/ ParoleSnapshot \/ DispatchEnds \/ TakePermit \/ Deadline
         \/ \E p \in Peer : Exhaust(p)
Kicks == KickSweep \/ \E p \in Peer : Kick(p, "fresh") \/ Kick(p, "dropped")
Still == Asks \/ Ticks \/ Wakes \/ Kicks
Pass  == (\E B \in SUBSET Peer : ParoleArm(B)) \/ Gather \/ Apply
One(p) == Elapse(p) \/ Lapse(p) \/ MarkConnected(p) \/ MarkBridge(p) \/ EvictPeer(p)
          \/ Park(p) \/ SoftFail(p)
Dials == TakeResult \/ (\E p \in Peer, k \in Permits : Dial(p, k))
         \/ \E k \in Permits : Dialing(k)

\* Every step belongs to one of the groups.
LEMMA Grouped == Next => Still \/ Pass \/ Dials \/ \E p \in Peer : One(p)
BY DEF Next, Env, Handle, Loop, Still, Asks, Ticks, Wakes, Kicks, Pass, One, Dials

\* The still actions change no slot, task or result.
LEMMA StillFrame == Still => UNCHANGED <<slots, tasks, results>>
BY DEF Still, Asks, Ticks, Wakes, Kicks, Learn, Depart, Connect, Drop, Repair, Admits, Denies,
  CooldownEnds, ParoleTick, NotifyOne, ParoleSnapshot, DispatchEnds, TakePermit, Deadline,
  Exhaust, KickSweep, Kick, Returns, Calls, dialVars

(***************************************************************************)
(* Type correctness.                                                       *)
(***************************************************************************)
\* Bumped epochs, and a new slot's epoch, are epochs.
LEMMA BumpType == ASSUME NEW e \in Epochs PROVE Bump(e) \in Epochs /\ 0 \in Epochs
BY DEF Bump, Epochs

\* The absent slot is a slot.
LEMMA NoSlotType == NoSlot \in Slot
BY BumpType DEF NoSlot, Slot, Epochs

\* Freshen keeps the order on peers.
LEMMA FreshenType ==
  ASSUME NEW R \in SUBSET Peer, older \subseteq Peer \X Peer, Freshen(R)
  PROVE  older' \subseteq Peer \X Peer
BY DEF Freshen

\* Spending an event keeps the budget well typed.
LEMMA SpendType ==
  ASSUME NEW e \in Events, left \in [Events -> Nat], Spend(e)
  PROVE  left' \in [Events -> Nat]
BY DEF Spend

\* Re-armed slots are slots.
LEMMA RearmType ==
  ASSUME NEW R \in SUBSET Peer, slots \in [Peer -> Slot]
  PROVE  Rearm(R) \in [Peer -> Slot]
<1> SUFFICES ASSUME NEW p \in Peer
             PROVE  [slots[p] EXCEPT !.st = "retrying", !.due = FALSE, !.epoch = Bump(@)] \in Slot
  BY DEF Rearm
<1>1. Bump(slots[p].epoch) \in Epochs
  BY BumpType DEF Slot
<1> QED
  BY <1>1 DEF Slot

\* apply_trigger yields a slot.
LEMMA TriggeredType ==
  ASSUME NEW p \in Peer, slots \in [Peer -> Slot]
  PROVE  Triggered(p) \in Slot
<1>1. Bump(slots[p].epoch) \in Epochs /\ 0 \in Epochs
  BY BumpType DEF Slot
<1> QED
  BY <1>1, NoSlotType DEF Triggered, Slot

\* apply_result yields a slot.
LEMMA ResultedType ==
  ASSUME NEW s \in Slot, NEW r \in Result, NEW st \in Outlooks
  PROVE  Resulted(s, r, st) \in Slot
BY DEF Resulted, Laddered, Outlooks, Slot

\* A call about to be made is a call to one of the handle's methods.
LEMMA CallsType ==
  ASSUME NEW o \in CallOps, NEW p \in Peer, calls \subseteq CallOps \X Peer, Calls(<<o, p>>)
  PROVE  calls' \subseteq CallOps \X Peer /\ notifies' = notifies
BY DEF Calls

\* The updates of one slot that the actions make.
LEMMA SlotUpdates ==
  ASSUME NEW s \in Slot, NEW b \in BOOLEAN, NEW st \in Outlooks
  PROVE  /\ [s EXCEPT !.due = TRUE] \in Slot
         /\ [s EXCEPT !.exempt = b] \in Slot
         /\ [s EXCEPT !.st = "dormant", !.due = FALSE] \in Slot
         /\ [s EXCEPT !.epoch = Bump(@), !.flight = TRUE] \in Slot
         /\ Laddered(s, st) \in Slot
<1>1. Bump(s.epoch) \in Epochs
  BY BumpType DEF Slot
<1> QED
  BY <1>1 DEF Slot, Laddered, Outlooks

\* Replacing one slot.
LEMMA SlotPut ==
  ASSUME NEW p \in Peer, NEW s \in Slot, slots \in [Peer -> Slot]
  PROVE  [slots EXCEPT ![p] = s] \in [Peer -> Slot]
OBVIOUS

\* The initial state is well typed.
LEMMA TypeInit == Init => Typed
<1> SUFFICES ASSUME Init PROVE Typed
  OBVIOUS
<1>1. slots \in [Peer -> Slot] /\ tasks \in [Permits -> Task \cup {NoTask}]
  BY NoSlotType DEF Init
<1>2. left \in [Events -> Nat]
  BY DEF Init
<1>3. dirty \in [Peer -> Triggers] /\ drained \in [Peer -> Triggers]
  BY DEF Init, Triggers
<1>4. results \in Seq(Result) /\ calls \subseteq CallOps \X Peer
  BY DEF Init
<1> QED
  BY <1>1, <1>2, <1>3, <1>4 DEF Init, Typed, LoopPcs

\* The environment keeps the types.
LEMMA TypeAsks == Typed /\ Asks => Typed'
<1> SUFFICES ASSUME Typed, NEW p \in Peer,
                    Learn(p) \/ Depart(p) \/ Connect(p) \/ Drop(p) \/ Repair(p)
                    \/ Admits(p) \/ Denies(p)
             PROVE  Typed'
  BY DEF Asks
<1>0. {"learn", "depart", "connect", "drop", "bridge", "admit", "deny"} \subseteq Events
      /\ CallOps = {"fresh", "evict", "mark", "dropped", "bridge"}
  BY DEF Events, CallOps
<1> USE DEF Typed, callVars, kickVars, loopVars, timeVars, dialVars, envVars, pastVars
<1>1. CASE Learn(p)
  <2>1. calls' \subseteq CallOps \X Peer /\ notifies' = notifies
    BY <1>0, <1>1, CallsType DEF Learn
  <2>2. left' \in [Events -> Nat]
    BY <1>0, <1>1, SpendType DEF Learn
  <2> QED  BY <1>1, <2>1, <2>2 DEF Learn
<1>2. CASE Depart(p)
  <2>1. calls' \subseteq CallOps \X Peer /\ notifies' = notifies
    BY <1>0, <1>2, CallsType DEF Depart
  <2>2. left' \in [Events -> Nat]
    BY <1>0, <1>2, SpendType DEF Depart
  <2> QED  BY <1>2, <2>1, <2>2 DEF Depart
<1>3. CASE Connect(p)
  <2>1. calls' \subseteq CallOps \X Peer /\ notifies' = notifies
    BY <1>0, <1>3, CallsType DEF Connect
  <2>2. left' \in [Events -> Nat]
    BY <1>0, <1>3, SpendType DEF Connect
  <2> QED  BY <1>3, <2>1, <2>2 DEF Connect
<1>4. CASE Drop(p)
  <2>1. calls' \subseteq CallOps \X Peer /\ notifies' = notifies
    BY <1>0, <1>4, CallsType DEF Drop
  <2>2. left' \in [Events -> Nat]
    BY <1>0, <1>4, SpendType DEF Drop
  <2> QED  BY <1>4, <2>1, <2>2 DEF Drop
<1>5. CASE Repair(p)
  <2>1. calls' \subseteq CallOps \X Peer /\ notifies' = notifies
    BY <1>0, <1>5, CallsType DEF Repair
  <2>2. left' \in [Events -> Nat]
    BY <1>0, <1>5, SpendType DEF Repair
  <2> QED  BY <1>5, <2>1, <2>2 DEF Repair
<1>6. CASE Admits(p)  BY <1>0, <1>6, SpendType DEF Admits
<1>7. CASE Denies(p)  BY <1>0, <1>7, SpendType DEF Denies
<1> QED  BY <1>1, <1>2, <1>3, <1>4, <1>5, <1>6, <1>7

\* So do the clock, the wake-ups and the kicks.
LEMMA TypeStill == Typed /\ (Ticks \/ Wakes \/ Kicks) => Typed'
<1> SUFFICES ASSUME Typed, Ticks \/ Wakes \/ Kicks PROVE Typed'
  OBVIOUS
<1> USE DEF Typed, LoopPcs, Events, callVars, kickVars, loopVars, timeVars, dialVars, envVars, pastVars
<1>1. CASE CooldownEnds  BY <1>1 DEF CooldownEnds
<1>2. CASE ParoleTick  BY <1>2, SpendType DEF ParoleTick
<1>3. CASE NotifyOne  BY <1>3 DEF NotifyOne
<1>4. CASE ParoleSnapshot  BY <1>4 DEF ParoleSnapshot
<1>5. CASE DispatchEnds  BY <1>5 DEF DispatchEnds
<1>6. CASE TakePermit  BY <1>6 DEF TakePermit
<1>7. CASE Deadline  BY <1>7 DEF Deadline
<1>8. ASSUME NEW p \in Peer, Exhaust(p) PROVE Typed'  BY <1>8 DEF Exhaust
<1>9. CASE KickSweep
  <2>1. left' \in [Events -> Nat]
    BY <1>9, SpendType DEF KickSweep
  <2>2. notifies' \in Nat
    BY <1>9 DEF KickSweep
  <2> QED  BY <1>9, <2>1, <2>2 DEF KickSweep
<1>10. ASSUME NEW p \in Peer, NEW t \in {"fresh", "dropped"}, Kick(p, t) PROVE Typed'
  <2>1. dirty' \in [Peer -> Triggers]
    BY <1>10 DEF Kick, Stronger, Triggers
  <2> QED  BY <1>10, <2>1 DEF Kick, Returns
<1> QED
  BY <1>1, <1>2, <1>3, <1>4, <1>5, <1>6, <1>7, <1>8, <1>9, <1>10 DEF Ticks, Wakes, Kicks

\* So do parole, the gathering of work and apply_trigger.
LEMMA TypePass == Typed /\ Pass => Typed'
<1> SUFFICES ASSUME Typed, Pass PROVE Typed'
  OBVIOUS
<1> USE DEF Typed, LoopPcs, Triggers, callVars, kickVars, loopVars, timeVars, dialVars, envVars, pastVars
<1>1. ASSUME NEW B \in SUBSET Peer, ParoleArm(B) PROVE Typed'
  <2> DEFINE R == {p \in B : Is(p, "dormant")}
  <2>1. slots' = Rearm(R) /\ Freshen(R) /\ R \in SUBSET Peer
    BY <1>1 DEF ParoleArm
  <2> HIDE DEF R
  <2>2. slots' \in [Peer -> Slot] /\ older' \subseteq Peer \X Peer
    BY <2>1, RearmType, FreshenType
  <2> QED  BY <1>1, <2>2 DEF ParoleArm
<1>2. CASE Gather
  <2> DEFINE now == IF sweep THEN ~cooling ELSE deferred /\ ~cooling
             R == {p \in Peer : now /\ Known(p) /\ ~Is(p, "connected")}
  <2>1. slots' = Rearm(R) /\ Freshen(R) /\ R \in SUBSET Peer
    BY <1>2 DEF Gather
  <2>2. deferred' \in BOOLEAN /\ cooling' \in BOOLEAN
    BY <1>2 DEF Gather
  <2> HIDE DEF R
  <2>3. slots' \in [Peer -> Slot] /\ older' \subseteq Peer \X Peer
    BY <2>1, RearmType, FreshenType
  <2> QED  BY <1>2, <2>2, <2>3 DEF Gather
<1>3. CASE Apply
  <2>1. slots' \in [Peer -> Slot]
    BY <1>3, TriggeredType DEF Apply
  <2>2. Freshen(Fresh) /\ Fresh \in SUBSET Peer
    BY <1>3 DEF Apply, Fresh
  <2>3. older' \subseteq Peer \X Peer
    BY <2>2, FreshenType
  <2> QED  BY <1>3, <2>1, <2>3 DEF Apply, Removes, Echoed
<1> QED  BY <1>1, <1>2, <1>3 DEF Pass

\* So do the actions on one slot.
LEMMA TypeOne == ASSUME Typed, NEW p \in Peer, One(p) PROVE Typed'
<1> USE DEF Typed, LoopPcs, Events, callVars, kickVars, loopVars, timeVars, dialVars, envVars, pastVars
<1>1. CASE Elapse(p)
  <2>1. [slots[p] EXCEPT !.due = TRUE] \in Slot
    BY slots[p] \in Slot, SlotUpdates DEF Outlooks
  <2> QED  BY <1>1, <2>1, SlotPut DEF Elapse
<1>2. CASE Lapse(p)
  <2>1. [slots[p] EXCEPT !.exempt = FALSE] \in Slot
    BY slots[p] \in Slot, SlotUpdates DEF Outlooks
  <2>2. left' \in [Events -> Nat]
    BY <1>2, SpendType DEF Lapse
  <2> QED  BY <1>2, <2>1, <2>2, SlotPut DEF Lapse
<1>3. CASE MarkConnected(p)
  <2>1. Bump(slots[p].epoch) \in Epochs
    BY BumpType DEF Slot
  <2>2. slots' \in [Peer -> Slot]
    BY <1>3, <2>1 DEF MarkConnected, Slot, NoSlot
  <2>3. older' \subseteq Peer \X Peer
    BY <1>3, FreshenType DEF MarkConnected
  <2> QED  BY <1>3, <2>2, <2>3, SMTT(40) DEF MarkConnected, Returns
<1>4. CASE MarkBridge(p)
  <2>1. ASSUME NEW b \in BOOLEAN PROVE [slots[p] EXCEPT !.exempt = b] \in Slot
    BY slots[p] \in Slot, SlotUpdates DEF Outlooks
  <2>2. (slots[p].exempt \/ (Known(p) /\ ~Is(p, "connected"))) \in BOOLEAN
    BY DEF Slot
  <2>3. slots' \in [Peer -> Slot]
    BY <1>4, <2>1, <2>2, SlotPut DEF MarkBridge
  <2> QED  BY <1>4, <2>3, SMTT(40) DEF MarkBridge, CallOps
<1>5. CASE EvictPeer(p)  BY <1>5, NoSlotType DEF EvictPeer, Triggers, Removes
<1>6. CASE Park(p)
  <2>1. [slots[p] EXCEPT !.st = "dormant", !.due = FALSE] \in Slot
    BY slots[p] \in Slot, SlotUpdates DEF Outlooks
  <2> QED  BY <1>6, <2>1, SlotPut DEF Park, Visit
<1>7. CASE SoftFail(p)
  <2>0. PICK st \in Outlooks : slots' = [slots EXCEPT ![p] = Laddered(@, st)]
    BY <1>7 DEF SoftFail
  <2>1. Laddered(slots[p], st) \in Slot
    BY slots[p] \in Slot, SlotUpdates
  <2>2. slots' \in [Peer -> Slot]
    BY <2>0, <2>1, SlotPut
  <2> QED  BY <1>7, <2>2 DEF SoftFail, Visit
<1> QED  BY <1>1, <1>2, <1>3, <1>4, <1>5, <1>6, <1>7 DEF One

\* So do the dials.
LEMMA TypeDials == Typed /\ Dials => Typed'
<1> SUFFICES ASSUME Typed, Dials PROVE Typed'
  OBVIOUS
<1> USE DEF Typed, LoopPcs, Events, callVars, kickVars, loopVars, timeVars, dialVars, envVars, pastVars
<1>1. CASE TakeResult
  <2>1. Head(results) \in Result /\ Tail(results) \in Seq(Result)
    BY <1>1 DEF TakeResult
  <2>2. PICK st \in Outlooks :
               slots' = [slots EXCEPT ![Head(results).peer] = Resulted(@, Head(results), st)]
    BY <1>1 DEF TakeResult
  <2>3. Head(results).peer \in Peer
    BY <2>1 DEF Result
  <2>4. Resulted(slots[Head(results).peer], Head(results), st) \in Slot
    BY <2>1, <2>3, ResultedType
  <2>5. slots' \in [Peer -> Slot]
    BY <2>2, <2>3, <2>4, SlotPut
  <2> QED  BY <1>1, <2>1, <2>5 DEF TakeResult
<1>2. ASSUME NEW p \in Peer, NEW k \in Permits, Dial(p, k) PROVE Typed'
  <2>1. Bump(slots[p].epoch) \in Epochs
    BY BumpType DEF Slot
  <2>0. [slots[p] EXCEPT !.epoch = Bump(@), !.flight = TRUE] \in Slot
    BY slots[p] \in Slot, SlotUpdates DEF Outlooks
  <2>2. slots' \in [Peer -> Slot]
    BY <1>2, <2>0, SlotPut DEF Dial
  <2>3. tasks' \in [Permits -> Task \cup {NoTask}]
    BY <1>2, <2>1 DEF Dial, Task
  <2> QED  BY <1>2, <2>2, <2>3 DEF Dial, Visit
<1>3. ASSUME NEW k \in Permits, NEW ok \in BOOLEAN, Report(k, ok) PROVE Typed'
  <2>1. tasks[k] \in Task
    BY <1>3 DEF Report
  <2>2. tasks' \in [Permits -> Task \cup {NoTask}]
    BY <1>3, <2>1 DEF Report, Task
  <2>3. results' \in Seq(Result)
    BY <1>3, <2>1 DEF Report, Task, Result
  <2>4. left' \in [Events -> Nat]
    BY <1>3, SpendType DEF Report
  <2> QED  BY <1>3, <2>2, <2>3, <2>4 DEF Report
<1>4. ASSUME NEW k \in Permits, Release(k) PROVE Typed'
  BY <1>4 DEF Release
<1> QED  BY <1>1, <1>2, <1>3, <1>4 DEF Dials, Dialing

\* Typed is inductive.
LEMMA TypeStep == Typed /\ [Next]_vars => Typed'
<1>1. Typed /\ UNCHANGED vars => Typed'
  BY DEF Typed, vars, envVars, callVars, kickVars, loopVars, timeVars, dialVars, pastVars
<1> QED  BY <1>1, Grouped, TypeAsks, TypeStill, TypePass, TypeOne, TypeDials DEF Still

(***************************************************************************)
(* The slots.  Outside the dials a step leaves a slot, removes it, or      *)
(* makes it tame: no exemption when connected, no new flight.              *)
(***************************************************************************)
\* What a step outside the dials does to one slot.
Tame(p) ==
  \/ slots'[p] = slots[p]
  \/ slots'[p] = NoSlot
  \/ /\ slots'[p].st # "absent"
     /\ slots'[p].st = "connected" => ~slots'[p].exempt
     /\ slots'[p].flight => slots[p].flight

\* Parole, sweep and apply_trigger are tame.
LEMMA TamePass == ASSUME Typed, Pass, NEW q \in Peer PROVE Tame(q) /\ UNCHANGED dialVars
<1> USE DEF Typed
<1>1. ASSUME NEW R \in SUBSET Peer, slots' = Rearm(R) PROVE Tame(q)
  <2>1. slots[q] \in Slot
    OBVIOUS
  <2>2. slots'[q] = IF q \in R
           THEN [slots[q] EXCEPT !.st = "retrying", !.due = FALSE, !.epoch = Bump(@)]
           ELSE slots[q]
    BY <1>1 DEF Rearm
  <2> QED  BY <2>1, <2>2 DEF Tame, Slot
<1>2. CASE \E B \in SUBSET Peer : ParoleArm(B)
  BY <1>1, <1>2 DEF ParoleArm
<1>3. CASE Gather
  BY <1>1, <1>3 DEF Gather
<1>4. CASE Apply
  <2>1. slots'[q] = Triggered(q)
    BY <1>4 DEF Apply
  <2>2. slots[q] \in Slot
    OBVIOUS
  <2>3. Tame(q)
    BY <2>1, <2>2 DEF Triggered, Tame, Slot
  <2> QED  BY <1>4, <2>3 DEF Apply
<1> QED  BY <1>2, <1>3, <1>4 DEF Pass

\* The actions on one slot are tame.
LEMMA TameOne ==
  ASSUME Typed, SlotInv, NEW p \in Peer, One(p), NEW q \in Peer
  PROVE  Tame(q) /\ UNCHANGED dialVars
<1> USE DEF Typed, Tame
<1>0. slots[q] \in Slot /\ slots[p] \in Slot /\ (Known(p) \/ slots[p] = NoSlot)
  BY DEF SlotInv, AbsentClean
<1>1. CASE Elapse(p)  BY <1>0, <1>1 DEF Elapse, Slot, Is
<1>2. CASE Lapse(p)  BY <1>0, <1>2 DEF Lapse, Slot, Known, NoSlot
<1>3. CASE MarkConnected(p)  BY <1>0, <1>3 DEF MarkConnected, NoSlot
<1>4. CASE MarkBridge(p)
  <2>1. CASE slots[p] = NoSlot
    <3>1. (slots[p].exempt \/ (Known(p) /\ ~Is(p, "connected"))) = FALSE
      BY <2>1 DEF NoSlot, Known
    <3>2. [slots[p] EXCEPT !.exempt = FALSE] = slots[p]
      BY <1>0, <2>1, slots[p].exempt = FALSE DEF NoSlot, Slot
    <3> QED  BY <1>4, <2>1, <3>1, <3>2 DEF MarkBridge
  <2>2. CASE Known(p)
    <3>1. Is(p, "connected") => ~slots[p].exempt
      BY DEF SlotInv, ExemptionUsedUp
    <3> QED  BY <1>0, <2>2, <3>1, <1>4 DEF MarkBridge, Slot, Known, Is
  <2> QED  BY <1>0, <2>1, <2>2
<1>5. CASE EvictPeer(p)  BY <1>5 DEF EvictPeer
<1>6. CASE Park(p)  BY <1>0, <1>6 DEF Park, Slot
<1>7. CASE SoftFail(p)  BY <1>0, <1>7 DEF SoftFail, Laddered, Outlooks, Slot
<1> QED  BY <1>1, <1>2, <1>3, <1>4, <1>5, <1>6, <1>7 DEF One

\* Tame steps that touch no dial keep the slot invariants.
LEMMA TameKeeps ==
  ASSUME Typed, SlotInv, \A q \in Peer : Tame(q), UNCHANGED dialVars
  PROVE  (AbsentClean /\ InFlightIsReal /\ ExemptionUsedUp)'
<1> USE DEF Typed, Tame
<1>1. AbsentClean'
  BY DEF SlotInv, AbsentClean, Known
<1>2. ExemptionUsedUp'
  <2> SUFFICES ASSUME NEW q \in Peer, slots'[q].st = "connected" PROVE ~slots'[q].exempt
    BY DEF ExemptionUsedUp, Is
  <2>1. slots[q].st = "connected" => ~slots[q].exempt
    BY DEF SlotInv, ExemptionUsedUp, Is
  <2>2. ~NoSlot.exempt
    BY DEF NoSlot
  <2> QED  BY <2>1, <2>2
<1>3. InFlightIsReal'
  <2> SUFFICES ASSUME NEW q \in Peer, slots'[q].flight PROVE Outstanding(q)'
    BY DEF InFlightIsReal
  <2>0. ~NoSlot.flight
    BY DEF NoSlot
  <2>1. slots[q].flight
    BY <2>0
  <2>2. Outstanding(q)
    BY <2>1 DEF SlotInv, InFlightIsReal
  <2> QED  BY <2>2 DEF Outstanding, dialVars
<1> QED  BY <1>1, <1>2, <1>3

\* A dial keeps them: the flag it sets has its task behind it.
LEMMA DialKeeps ==
  ASSUME Typed, SlotInv, NEW p \in Peer, NEW k \in Permits, Dial(p, k)
  PROVE  (AbsentClean /\ InFlightIsReal /\ ExemptionUsedUp)'
<1> USE DEF Typed
<1>0. slots[p] \in Slot /\ Is(p, "retrying")
  BY DEF SlotInv, DueIsRetrying, Dial, Visit
<1>1. slots'[p].st = "retrying" /\ \A q \in Peer \ {p} : slots'[q] = slots[q]
  BY <1>0 DEF Dial, Slot, Is
<1>2. AbsentClean' /\ ExemptionUsedUp'
  BY <1>1 DEF SlotInv, AbsentClean, ExemptionUsedUp, Known, Is
<1>3. InFlightIsReal'
  <2> SUFFICES ASSUME NEW q \in Peer, slots'[q].flight PROVE Outstanding(q)'
    BY DEF InFlightIsReal
  <2>1. tasks'[k] # NoTask /\ tasks'[k].stage = "dialing" /\ tasks'[k].peer = p
    BY DEF Dial, NoTask
  <2>2. CASE q = p
    BY <2>1, <2>2 DEF Outstanding
  <2>3. CASE q # p
    <3>1. Outstanding(q)
      BY <1>1, <2>3 DEF SlotInv, InFlightIsReal
    <3> QED  BY <3>1 DEF Outstanding, Dial
  <2> QED  BY <2>2, <2>3
<1> QED  BY <1>2, <1>3

\* A dial that reports passes its claim on to the channel.
LEMMA ReportKeeps ==
  ASSUME Typed, NEW k \in Permits, Dialing(k), NEW q \in Peer, Outstanding(q)
  PROVE  Outstanding(q)' /\ UNCHANGED slots
<1> USE DEF Typed
<1>1. CASE Release(k)
  BY <1>1 DEF Release, Outstanding
<1>2. ASSUME NEW ok \in BOOLEAN, Report(k, ok) PROVE Outstanding(q)' /\ UNCHANGED slots
  <2>0. UNCHANGED slots
    BY <1>2 DEF Report
  <2> DEFINE r == [peer |-> tasks[k].peer, epoch |-> tasks[k].epoch, ok |-> ok]
  <2>1. results' = Append(results, r) /\ r.peer = tasks[k].peer
    BY <1>2 DEF Report
  <2> HIDE DEF r
  <2>2. Len(results') = Len(results) + 1 /\ Len(results) \in Nat
        /\ results'[Len(results) + 1] = r /\ \A i \in 1 .. Len(results) : results'[i] = results[i]
    BY <2>1
  <2>3. CASE \E i \in 1 .. Len(results) : results[i].peer = q
    <3>1. \E i \in 1 .. Len(results') : results'[i].peer = q
      BY <2>2, <2>3
    <3> QED  BY <2>0, <3>1 DEF Outstanding
  <2>4. CASE tasks[k].peer = q
    <3>1. \E i \in 1 .. Len(results') : results'[i].peer = q
      BY <2>1, <2>2, <2>4
    <3> QED  BY <2>0, <3>1 DEF Outstanding
  <2>5. ASSUME NEW j \in Permits, tasks[j] # NoTask, tasks[j].stage = "dialing", tasks[j].peer = q, j # k
        PROVE  Outstanding(q)'
    BY <1>2, <2>5 DEF Outstanding, Report
  <2> QED  BY <2>0, <2>3, <2>4, <2>5 DEF Outstanding
<1> QED  BY <1>1, <1>2 DEF Dialing

\* So the dial tasks keep the slot invariants.
LEMMA DialingKeeps ==
  ASSUME Typed, SlotInv, NEW k \in Permits, Dialing(k)
  PROVE  (AbsentClean /\ InFlightIsReal /\ ExemptionUsedUp)'
<1>1. UNCHANGED slots
  BY DEF Dialing, Release, Report
<1>2. InFlightIsReal'
  BY <1>1, ReportKeeps DEF InFlightIsReal, SlotInv
<1> QED  BY <1>1, <1>2 DEF AbsentClean, ExemptionUsedUp, SlotInv, Known, Is

\* Applying a result clears the flag of its peer and leaves the claims of
\* the others.
LEMMA TakeResultKeeps ==
  ASSUME Typed, SlotInv, TakeResult
  PROVE  (AbsentClean /\ InFlightIsReal /\ ExemptionUsedUp)'
<1> USE DEF Typed
<1> DEFINE r == Head(results)
<1>1. r \in Result /\ r.peer \in Peer
  <2>1. Head(results) \in Result
    BY DEF TakeResult
  <2> QED  BY <2>1 DEF Result
<1>2. PICK st \in Outlooks : slots' = [slots EXCEPT ![r.peer] = Resulted(@, r, st)]
  BY DEF TakeResult
<1>3. slots[r.peer] \in Slot /\ (Known(r.peer) \/ slots[r.peer] = NoSlot)
      /\ (Is(r.peer, "connected") => ~slots[r.peer].exempt)
  BY <1>1 DEF SlotInv, AbsentClean, ExemptionUsedUp
<1>4. \A q \in Peer \ {r.peer} : slots'[q] = slots[q]
  BY <1>1, <1>2
<1>5. slots'[r.peer] = Resulted(slots[r.peer], r, st)
  BY <1>1, <1>2
<1>7. results # <<>> /\ results' = Tail(results) /\ UNCHANGED tasks
  BY DEF TakeResult
<1> HIDE DEF r
<1>6. /\ ~slots'[r.peer].flight
      /\ slots'[r.peer].st # "absent" \/ slots'[r.peer] = NoSlot
      /\ slots'[r.peer].st = "connected" => ~slots'[r.peer].exempt
  BY <1>3, <1>5 DEF Resulted, Laddered, Outlooks, Slot, Known, Is, NoSlot
<1>8. AbsentClean' /\ ExemptionUsedUp'
  BY <1>4, <1>6 DEF SlotInv, AbsentClean, ExemptionUsedUp, Known, Is
<1>9. InFlightIsReal'
  <2> SUFFICES ASSUME NEW q \in Peer, slots'[q].flight PROVE Outstanding(q)'
    BY DEF InFlightIsReal
  <2>1. q # r.peer /\ Outstanding(q)
    BY <1>4, <1>6 DEF SlotInv, InFlightIsReal
  <2>2. ASSUME NEW i \in 1 .. Len(results), results[i].peer = q PROVE Outstanding(q)'
    <3>1. i # 1
      BY <2>1, <2>2, <1>7 DEF r
    <3>2. i - 1 \in 1 .. Len(results') /\ results'[i - 1] = results[i]
      BY <3>1, <1>7
    <3> QED  BY <2>2, <3>2 DEF Outstanding
  <2> QED  BY <2>1, <2>2, <1>7 DEF Outstanding
<1> QED  BY <1>8, <1>9

(***************************************************************************)
(* The dispatch pass: nothing moves a slot it has yet to visit.            *)
(***************************************************************************)
\* DueIsRetrying is preserved.
LEMMA DueStep == ASSUME Typed, SlotInv, Next PROVE DueIsRetrying'
<1> USE DEF Typed, SlotInv, DueIsRetrying, Is
<1>1. CASE Still
  <2>1. pc' = "dispatch" => pc = "dispatch" /\ todo' = todo
    BY <1>1 DEF Still, Asks, Ticks, Wakes, Kicks, Learn, Depart, Connect, Drop, Repair, Admits,
      Denies, CooldownEnds, ParoleTick, NotifyOne, ParoleSnapshot, DispatchEnds, TakePermit,
      Deadline, Exhaust, KickSweep, Kick, loopVars
  <2> QED  BY <1>1, <2>1, StillFrame
<1>2. CASE Pass
  <2>1. CASE Apply  BY <2>1 DEF Apply
  <2>2. CASE ~Apply  BY <1>2, <2>2 DEF Pass, ParoleArm, Gather
  <2> QED  BY <2>1, <2>2
<1>3. ASSUME NEW p \in Peer, One(p) PROVE DueIsRetrying'
  <2>0. slots[p] \in Slot
    OBVIOUS
  <2>1. CASE Elapse(p) \/ Lapse(p)
    <3>1. slots'[p].st = slots[p].st /\ \A q \in Peer \ {p} : slots'[q] = slots[q]
      BY <2>0, <2>1 DEF Elapse, Lapse, Slot
    <3> QED  BY <2>1, <3>1 DEF Elapse, Lapse, loopVars
  <2>2. CASE MarkConnected(p) \/ MarkBridge(p) \/ EvictPeer(p)
    BY <2>2 DEF MarkConnected, MarkBridge, EvictPeer, Unlocked, loopVars
  <2>3. CASE Park(p) \/ SoftFail(p)
    BY <2>3 DEF Park, SoftFail, Visit
  <2> QED  BY <1>3, <2>1, <2>2, <2>3 DEF One
<1>4. CASE Dials
  <2>1. CASE TakeResult  BY <2>1 DEF TakeResult
  <2>2. ASSUME NEW p \in Peer, NEW k \in Permits, Dial(p, k) PROVE DueIsRetrying'
    BY <2>2 DEF Dial, Visit
  <2>3. ASSUME NEW k \in Permits, Dialing(k) PROVE DueIsRetrying'
    BY <2>3 DEF Dialing, Release, Report, loopVars
  <2> QED  BY <1>4, <2>1, <2>2, <2>3 DEF Dials
<1> QED  BY <1>1, <1>2, <1>3, <1>4, Grouped

\* SlotInv is inductive, relative to Typed.
LEMMA SlotStep == Typed /\ SlotInv /\ [Next]_vars => SlotInv'
<1>1. ASSUME Typed, SlotInv, Next PROVE (AbsentClean /\ InFlightIsReal /\ ExemptionUsedUp)'
  <2>1. CASE Still
    <3>1. UNCHANGED dialVars /\ \A q \in Peer : Tame(q)
      BY <2>1, StillFrame DEF Tame, dialVars
    <3> QED  BY <1>1, <3>1, TameKeeps
  <2>2. CASE Pass
    <3>1. UNCHANGED dialVars /\ \A q \in Peer : Tame(q)
      BY <1>1, <2>2, TamePass DEF dialVars, Pass, ParoleArm, Gather, Apply
    <3> QED  BY <1>1, <3>1, TameKeeps
  <2>3. ASSUME NEW p \in Peer, One(p) PROVE (AbsentClean /\ InFlightIsReal /\ ExemptionUsedUp)'
    <3>1. UNCHANGED dialVars /\ \A q \in Peer : Tame(q)
      BY <1>1, <2>3, TameOne
    <3> QED  BY <1>1, <3>1, TameKeeps
  <2>4. CASE Dials
    BY <1>1, <2>4, TakeResultKeeps, DialKeeps, DialingKeeps DEF Dials
  <2> QED  BY <1>1, <2>1, <2>2, <2>3, <2>4, Grouped
<1>2. SlotInv /\ UNCHANGED vars => SlotInv'
  BY DEF SlotInv, AbsentClean, DueIsRetrying, InFlightIsReal, ExemptionUsedUp, Known, Is,
    Outstanding, vars, loopVars, dialVars
<1> QED  BY <1>1, <1>2, DueStep DEF SlotInv

\* SlotInv holds initially.
LEMMA SlotInit == Init => SlotInv
BY DEF Init, SlotInv, AbsentClean, DueIsRetrying, InFlightIsReal, ExemptionUsedUp, Is, NoSlot

\* The inductive invariant of the slots.
LEMMA SlotsInvariant == Spec => [](Typed /\ SlotInv)
<1>1. Typed /\ SlotInv /\ [Next]_vars => (Typed /\ SlotInv)'
  BY TypeStep, SlotStep
<1> QED  BY TypeInit, SlotInit, <1>1, PTL DEF Spec

\* Type correctness: every slot, trigger, task, result and pc of the loop has
\* its type, and a peer without a slot has nothing, for any number of peers and
\* permits: mark_reachability_bridge and apply_result leave an absent slot alone.
THEOREM TypeCorrect == Spec => []TypeOK
<1>1. Typed /\ SlotInv => TypeOK
  BY DEF SlotInv, TypeOK
<1> QED  BY SlotsInvariant, <1>1, PTL

\* apply_result clears dial_in_flight for stale results too: the flag is set
\* only while a dial of the peer is out or its result in the channel, so no
\* peer is ever barred from dialling for good.
THEOREM InFlightSound == Spec => []InFlightIsReal
<1>1. Typed /\ SlotInv => InFlightIsReal
  BY DEF SlotInv
<1> QED  BY SlotsInvariant, <1>1, PTL

\* mark_connected and a successful result use up the repair exemption, and
\* mark_reachability_bridge grants none to a connected slot (ZEB-941).
THEOREM ExemptionsUsedUp == Spec => []ExemptionUsedUp
<1>1. Typed /\ SlotInv => ExemptionUsedUp
  BY DEF SlotInv
<1> QED  BY SlotsInvariant, <1>1, PTL

(***************************************************************************)
(* Kicks are not lost.                                                     *)
(***************************************************************************)
\* WakeOwed is inductive.
LEMMA WakeStep == Typed /\ WakeOwed /\ [Next]_vars => WakeOwed'
<1> SUFFICES ASSUME Typed, WakeOwed, [Next]_vars PROVE WakeOwed'
  OBVIOUS
<1> USE DEF WakeOwed, callVars, kickVars, loopVars
<1>0. notifies \in Nat /\ dirty \in [Peer -> Triggers]
  BY DEF Typed
<1>1. CASE Asks \/ Ticks
  BY <1>1 DEF Asks, Ticks, Learn, Depart, Connect, Drop, Repair, Admits, Denies, Calls,
    CooldownEnds, ParoleTick
<1>2. CASE Wakes
  <2>1. CASE NotifyOne  BY <2>1 DEF NotifyOne
  <2>2. CASE DispatchEnds  BY <2>2 DEF DispatchEnds
  <2>3. ASSUME NEW p \in Peer, Exhaust(p) PROVE WakeOwed'  BY <2>3 DEF Exhaust
  <2>4. CASE ParoleSnapshot \/ TakePermit \/ Deadline
    BY <2>4 DEF ParoleSnapshot, TakePermit, Deadline
  <2> QED  BY <1>2, <2>1, <2>2, <2>3, <2>4 DEF Wakes
<1>3. CASE Kicks
  <2>1. notifies' = notifies + 1
    BY <1>3 DEF Kicks, KickSweep, Kick, Returns
  <2> QED  BY <1>0, <2>1
<1>4. CASE Pass
  <2>1. CASE Gather  BY <2>1 DEF Gather
  <2>2. CASE Apply  BY <2>2 DEF Apply
  <2>3. ASSUME NEW B \in SUBSET Peer, ParoleArm(B) PROVE WakeOwed'  BY <2>3 DEF ParoleArm
  <2> QED  BY <1>4, <2>1, <2>2, <2>3 DEF Pass
<1>5. ASSUME NEW p \in Peer, One(p) PROVE WakeOwed'
  <2>1. CASE EvictPeer(p)
    <3>1. notifies' \in Nat /\ notifies' >= notifies
      BY <1>0, <2>1 DEF EvictPeer
    <3>2. \A q \in Peer : dirty'[q] # "none" => dirty[q] # "none"
      BY <1>0, <2>1 DEF EvictPeer
    <3> QED  BY <1>0, <2>1, <3>1, <3>2 DEF EvictPeer
  <2>2. CASE MarkConnected(p)  BY <1>0, <2>2 DEF MarkConnected, Returns
  <2>3. CASE MarkBridge(p)  BY <2>3 DEF MarkBridge
  <2>4. CASE Elapse(p) \/ Lapse(p) \/ Park(p) \/ SoftFail(p)
    BY <2>4 DEF Elapse, Lapse, Park, SoftFail
  <2> QED  BY <1>5, <2>1, <2>2, <2>3, <2>4 DEF One
<1>6. CASE Dials
  <2>1. CASE TakeResult  BY <2>1 DEF TakeResult
  <2>2. ASSUME NEW p \in Peer, NEW k \in Permits, Dial(p, k) PROVE WakeOwed'
    BY <2>2 DEF Dial
  <2>3. ASSUME NEW k \in Permits, Dialing(k) PROVE WakeOwed'
    BY <2>3 DEF Dialing, Release, Report
  <2> QED  BY <1>6, <2>1, <2>2, <2>3 DEF Dials
<1>7. CASE UNCHANGED vars
  BY <1>7 DEF vars
<1> QED  BY <1>1, <1>2, <1>3, <1>4, <1>5, <1>6, <1>7, Grouped DEF Still

\* Every kick stores its trigger before it notifies, and the loop drains after
\* it is woken: it never goes to sleep on a trigger it has not seen unless a
\* notification is stored or on its way.
THEOREM KicksNotLost == Spec => []NoLostKick
<1>1. Init => WakeOwed
  BY DEF Init, WakeOwed
<1>2. Typed /\ WakeOwed /\ [Next]_vars => WakeOwed'
  BY WakeStep
<1>3. WakeOwed => NoLostKick
  BY DEF WakeOwed, NoLostKick
<1> QED  BY SlotsInvariant, <1>1, <1>2, <1>3, PTL DEF Spec

(***************************************************************************)
(* Record-backed peers have slots.                                         *)
(***************************************************************************)
\* p keeps its slot, or the kick that creates it.
Kept(p) == (Known(p) \/ Announced(p)) => (Known(p) \/ Announced(p))'

\* Parole, sweep and apply_trigger keep the slots of recorded peers.
LEMMA KeptPass == ASSUME Typed, Pass, NEW q \in records PROVE Kept(q) /\ UNCHANGED <<records, evicted>>
<1> USE DEF Typed, Kept, Known, Announced
<1>1. ASSUME NEW R \in SUBSET Peer, slots' = Rearm(R), slots[q].st # "absent"
      PROVE  slots'[q].st # "absent"
  <2>1. q \in Peer /\ slots[q] \in Slot
    OBVIOUS
  <2> QED  BY <1>1, <2>1 DEF Rearm, Slot
<1>2. ASSUME NEW B \in SUBSET Peer, ParoleArm(B) PROVE Kept(q) /\ UNCHANGED <<records, evicted>>
  <2>1. slots[q].st # "absent" => slots'[q].st # "absent"
    BY <1>1, <1>2 DEF ParoleArm
  <2> QED  BY <1>2, <2>1 DEF ParoleArm, envVars, pastVars, callVars, kickVars
<1>3. CASE Gather
  <2>1. slots[q].st # "absent" => slots'[q].st # "absent"
    BY <1>1, <1>3 DEF Gather
  <2> QED  BY <1>3, <2>1 DEF Gather, envVars, pastVars, callVars
<1>4. CASE Apply
  <2>1. q \in Peer /\ slots[q] \in Slot /\ drained[q] \in Triggers
    OBVIOUS
  <2>2. slots'[q] = Triggered(q)
    BY <1>4, <2>1 DEF Apply
  <2>3. slots[q].st # "absent" \/ drained[q] # "none" => slots'[q].st # "absent"
    <3>1. CASE drained[q] = "none"
      BY <2>2, <3>1 DEF Triggered
    <3>2. CASE drained[q] = "fresh" /\ Is(q, "connected")
      BY <2>2, <3>2 DEF Triggered, Is
    <3>3. CASE ~(drained[q] = "none") /\ ~(drained[q] = "fresh" /\ Is(q, "connected"))
      <4>1. slots'[q].st = "retrying"
        BY <2>1, <2>2, <3>3 DEF Triggered, Slot
      <4> QED  BY <4>1
    <3> QED  BY <3>1, <3>2, <3>3
  <2> QED  BY <1>4, <2>3 DEF Apply, envVars, pastVars, callVars, kickVars
<1> QED  BY <1>2, <1>3, <1>4 DEF Pass

\* So do the actions on one slot, but for the peer evicted.
LEMMA KeptOne ==
  ASSUME Typed, NEW p \in Peer, One(p), NEW q \in records, q \notin evicted'
  PROVE  Kept(q) /\ records' = records /\ q \notin evicted
<1> USE DEF Typed, Kept, Known, Announced
<1>0. q \in Peer /\ slots[q] \in Slot /\ slots[p] \in Slot
  OBVIOUS
<1>1. CASE Elapse(p)
  BY <1>0, <1>1 DEF Elapse, Slot, envVars, pastVars, callVars, kickVars, loopVars
<1>2. CASE Lapse(p)
  BY <1>0, <1>2 DEF Lapse, Slot, envVars, pastVars, callVars, kickVars, loopVars
<1>3. CASE MarkConnected(p)
  <2>1. slots[q].st # "absent" => slots'[q].st # "absent"
    BY <1>0, <1>3 DEF MarkConnected, NoSlot
  <2>2. <<"fresh", q>> \in calls => <<"fresh", q>> \in calls'
    BY <1>3 DEF MarkConnected, Returns
  <2> QED  BY <1>3, <2>1, <2>2 DEF MarkConnected, envVars, pastVars, kickVars, loopVars
<1>4. CASE MarkBridge(p)
  <2>1. slots[q].st # "absent" => slots'[q].st # "absent"
    BY <1>0, <1>4 DEF MarkBridge, Slot
  <2>2. <<"fresh", q>> \in calls => <<"fresh", q>> \in calls'
    BY <1>4 DEF MarkBridge
  <2> QED  BY <1>4, <2>1, <2>2 DEF MarkBridge, envVars, pastVars, kickVars, loopVars
<1>5. CASE EvictPeer(p)
  <2>1. q # p
    BY <1>5 DEF EvictPeer
  <2>2. slots'[q] = slots[q] /\ dirty'[q] = dirty[q]
    BY <1>0, <1>5, <2>1 DEF EvictPeer
  <2>3. <<"fresh", q>> \in calls => <<"fresh", q>> \in calls'
    BY <1>5 DEF EvictPeer
  <2> QED  BY <1>5, <2>2, <2>3 DEF EvictPeer, envVars, pastVars, loopVars
<1>6. CASE Park(p)
  BY <1>0, <1>6 DEF Park, Visit, Slot, envVars, pastVars, callVars, kickVars
<1>7. CASE SoftFail(p)
  <2>1. slots[q].st # "absent" => slots'[q].st # "absent"
    BY <1>0, <1>7 DEF SoftFail, Laddered, Outlooks, Slot
  <2> QED  BY <1>7, <2>1 DEF SoftFail, envVars, pastVars, callVars, kickVars
<1> QED  BY <1>1, <1>2, <1>3, <1>4, <1>5, <1>6, <1>7 DEF One

\* So do the dials.
LEMMA KeptDials ==
  ASSUME Typed, Dials, NEW q \in records
  PROVE  Kept(q) /\ UNCHANGED <<records, evicted>>
<1> USE DEF Typed, Kept, Known, Announced
<1>0. q \in Peer /\ slots[q] \in Slot
  OBVIOUS
<1>1. CASE TakeResult
  <2>1. slots[q].st # "absent" => slots'[q].st # "absent"
    BY <1>0, <1>1 DEF TakeResult, Resulted, Laddered, Outlooks, Slot
  <2> QED  BY <1>1, <2>1 DEF TakeResult, envVars, pastVars, callVars, kickVars
<1>2. ASSUME NEW p \in Peer, NEW k \in Permits, Dial(p, k)
      PROVE  Kept(q) /\ UNCHANGED <<records, evicted>>
  <2>1. slots[q].st # "absent" => slots'[q].st # "absent"
    BY <1>0, <1>2 DEF Dial, Slot
  <2> QED  BY <1>2, <2>1 DEF Dial, envVars, pastVars, callVars, kickVars
<1>3. ASSUME NEW k \in Permits, Dialing(k) PROVE Kept(q) /\ UNCHANGED <<records, evicted>>
  BY <1>3 DEF Dialing, Release, Report, envVars, pastVars, callVars, kickVars, loopVars
<1> QED  BY <1>1, <1>2, <1>3 DEF Dials

\* The actions that change no slot keep the announcements.
LEMMA KeptStill == ASSUME Typed, StayersHaveSlots, Still PROVE StayersHaveSlots'
<1> USE DEF Typed, StayersHaveSlots, Known, Announced, envVars, pastVars, callVars, kickVars, loopVars
<1>0. UNCHANGED slots
  BY StillFrame
<1>1. CASE Asks
  BY <1>0, <1>1 DEF Asks, Learn, Depart, Connect, Drop, Repair, Admits, Denies, Calls
<1>2. CASE Ticks
  BY <1>0, <1>2 DEF Ticks, CooldownEnds, ParoleTick
<1>3. CASE Wakes
  BY <1>0, <1>3 DEF Wakes, NotifyOne, ParoleSnapshot, DispatchEnds, TakePermit, Deadline, Exhaust
<1>4. CASE KickSweep
  BY <1>0, <1>4 DEF KickSweep
<1>5. ASSUME NEW p \in Peer, NEW t \in {"fresh", "dropped"}, Kick(p, t) PROVE StayersHaveSlots'
  <2>1. dirty'[p] # "none" /\ \A q \in Peer \ {p} : dirty'[q] = dirty[q]
    BY <1>5 DEF Kick, Stronger
  <2>2. \A q \in Peer \ {p} : <<"fresh", q>> \in calls => <<"fresh", q>> \in calls'
    BY <1>5 DEF Kick, Returns
  <2> QED  BY <1>0, <1>5, <2>1, <2>2, ZenonT(60) DEF Kick
<1> QED  BY <1>1, <1>2, <1>3, <1>4, <1>5 DEF Still, Kicks

\* StayersHaveSlots is inductive.
LEMMA StayersStep == Typed /\ StayersHaveSlots /\ [Next]_vars => StayersHaveSlots'
<1> SUFFICES ASSUME Typed, StayersHaveSlots, [Next]_vars PROVE StayersHaveSlots'
  OBVIOUS
<1>1. CASE Still
  BY <1>1, KeptStill
<1>2. CASE Pass
  <2>1. \A q \in records : Kept(q) /\ UNCHANGED <<records, evicted>>
    BY <1>2, KeptPass
  <2>2. ASSUME NEW q \in records' \ evicted' PROVE (Known(q) \/ Announced(q))'
    BY <1>2, <2>1 DEF StayersHaveSlots, Kept, Pass, ParoleArm, Gather, Apply, envVars, pastVars
  <2> QED  BY <2>2 DEF StayersHaveSlots
<1>3. ASSUME NEW p \in Peer, One(p) PROVE StayersHaveSlots'
  <2>0. records' = records
    BY <1>3 DEF One, Elapse, Lapse, MarkConnected, MarkBridge, EvictPeer, Park, SoftFail, envVars, pastVars
  <2>1. ASSUME NEW q \in records' \ evicted' PROVE (Known(q) \/ Announced(q))'
    BY <1>3, <2>0, KeptOne DEF StayersHaveSlots, Kept
  <2> QED  BY <2>1 DEF StayersHaveSlots
<1>4. CASE Dials
  <2>0. records' = records
    BY <1>4 DEF Dials, TakeResult, Dial, Dialing, Release, Report, envVars, pastVars
  <2>1. ASSUME NEW q \in records' \ evicted' PROVE (Known(q) \/ Announced(q))'
    BY <1>4, <2>0, KeptDials DEF StayersHaveSlots, Kept
  <2> QED  BY <2>1 DEF StayersHaveSlots
<1>5. CASE UNCHANGED vars
  BY <1>5 DEF StayersHaveSlots, Known, Announced, vars, envVars, pastVars, callVars, kickVars, loopVars
<1> QED  BY <1>1, <1>2, <1>3, <1>4, <1>5, Grouped

\* The resolver kicks after it writes a record and the loop applies every
\* trigger it drained: a peer that was never evicted and has a record has a
\* slot, or the kick that will create it is under way.
THEOREM RecordsHaveSlots == Spec => []StayersHaveSlots
<1>1. Init => StayersHaveSlots
  BY DEF Init, StayersHaveSlots
<1>2. Typed /\ StayersHaveSlots /\ [Next]_vars => StayersHaveSlots'
  BY StayersStep
<1> QED  BY SlotsInvariant, <1>1, <1>2, PTL DEF Spec

(***************************************************************************)
(* Epochs: a connected slot is not overridden by a late result.  Here the  *)
(* counter is assumed not to wrap (NoWrap): it is a u64 that each dial and *)
(* each trigger bumps once.                                                *)
(***************************************************************************)
EpochInv == EpochsBehind /\ EpochsDistinct

\* Below the limit a bump adds one.
LEMMA BumpAdds ==
  ASSUME Typed, NoWrap, NEW p \in Peer
  PROVE  Bump(slots[p].epoch) = slots[p].epoch + 1 /\ slots[p].epoch \in Nat
<1>1. slots[p].epoch \in 0 .. EpochLimit - 1 /\ slots[p].epoch < EpochLimit - 1
  BY DEF Typed, NoWrap, Slot, Epochs
<1>2. \A e \in Nat : e < EpochLimit => e % EpochLimit = e
  OBVIOUS
<1> QED  BY <1>1, <1>2 DEF Bump

\* The slot's epoch moves on, or it stays and the peer does not connect.
Grows(p) ==
  \/ slots'[p].epoch > slots[p].epoch
  \/ slots'[p].epoch = slots[p].epoch /\ (slots'[p].st = "connected" => slots[p].st = "connected")

\* Re-arming bumps the epoch.
LEMMA RearmGrows ==
  ASSUME Typed, NoWrap, NEW R \in SUBSET Peer, slots' = Rearm(R), NEW q \in Peer
  PROVE  Grows(q)
<1>1. slots[q] \in Slot
  BY DEF Typed
<1>2. slots'[q] = IF q \in R
         THEN [slots[q] EXCEPT !.st = "retrying", !.due = FALSE, !.epoch = Bump(@)]
         ELSE slots[q]
  BY DEF Rearm
<1>3. Bump(slots[q].epoch) = slots[q].epoch + 1 /\ slots[q].epoch \in Nat
  BY BumpAdds
<1> QED  BY <1>1, <1>2, <1>3 DEF Grows, Slot

\* Parole, sweep and apply_trigger, but for the slots they remove.
LEMMA GrowsPass ==
  ASSUME Typed, SlotInv, NoWrap, Pass, NEW q \in Peer, q \notin removed'
  PROVE  Grows(q) /\ q \notin removed
<1>1. ASSUME NEW B \in SUBSET Peer, ParoleArm(B) PROVE Grows(q) /\ q \notin removed
  BY <1>1, RearmGrows DEF ParoleArm, pastVars
<1>2. CASE Gather
  BY <1>2, RearmGrows DEF Gather, pastVars
<1>3. CASE Apply
  <2>1. slots'[q] = Triggered(q) /\ removed' = removed \cup {p \in Echoed : Known(p)}
    BY <1>3 DEF Apply, Removes
  <2>2. slots[q] \in Slot /\ (Known(q) \/ slots[q] = NoSlot)
    BY DEF Typed, SlotInv, AbsentClean
  <2>3. Bump(slots[q].epoch) = slots[q].epoch + 1 /\ slots[q].epoch \in Nat
    BY BumpAdds
  <2>4. CASE drained[q] = "dropped" /\ q \notin records
    BY <2>1, <2>2, <2>4 DEF Triggered, Echoed, Grows
  <2>5. CASE ~(drained[q] = "dropped" /\ q \notin records)
    <3>1. CASE Known(q)
      BY <2>1, <2>2, <2>3, <2>5, <3>1 DEF Triggered, Grows, Slot, Known
    <3>2. CASE slots[q] = NoSlot
      BY <2>1, <2>2, <2>3, <2>5, <3>2 DEF Triggered, Grows, Slot, Known, NoSlot
    <3> QED  BY <2>2, <3>1, <3>2
  <2> QED  BY <2>1, <2>4, <2>5
<1> QED  BY <1>1, <1>2, <1>3 DEF Pass

\* The actions on one slot, but for the slot evict_peer removes.
LEMMA GrowsOne ==
  ASSUME Typed, SlotInv, NoWrap, NEW p \in Peer, One(p), NEW q \in Peer, q \notin removed'
  PROVE  Grows(q) /\ q \notin removed
<1> USE DEF Grows, pastVars
<1>0. /\ slots \in [Peer -> Slot] /\ slots[q] \in Slot /\ slots[p] \in Slot
      /\ Known(p) \/ slots[p] = NoSlot
      /\ slots[q].epoch \in Nat
  BY BumpAdds DEF Typed, SlotInv, AbsentClean
<1>1. CASE Elapse(p)  BY <1>0, <1>1 DEF Elapse, Slot
<1>2. CASE Lapse(p)  BY <1>0, <1>2 DEF Lapse, Slot
<1>3. CASE MarkConnected(p)
  <2>1. Bump(slots[p].epoch) = slots[p].epoch + 1 /\ slots[p].epoch \in Nat
    BY BumpAdds
  <2> QED  BY <1>0, <1>3, <2>1 DEF MarkConnected, NoSlot
<1>4. CASE MarkBridge(p)  BY <1>0, <1>4 DEF MarkBridge, Slot
<1>5. CASE EvictPeer(p)
  <2>1. removed' = removed \cup {x \in {p} : Known(x)} /\ slots' = [slots EXCEPT ![p] = NoSlot]
    BY <1>5 DEF EvictPeer, Removes
  <2>2. slots'[q] = slots[q] /\ q \notin removed
    BY <1>0, <2>1
  <2> QED  BY <2>2
<1>6. CASE Park(p)  BY <1>0, <1>6 DEF Park, Slot
<1>7. CASE SoftFail(p)  BY <1>0, <1>7 DEF SoftFail, Laddered, Outlooks, Slot
<1> QED  BY <1>1, <1>2, <1>3, <1>4, <1>5, <1>6, <1>7 DEF One

\* The still actions.
LEMMA GrowsStill ==
  ASSUME Typed, Still, NEW q \in Peer, q \notin removed' PROVE Grows(q) /\ q \notin removed
<1>1. UNCHANGED <<slots, removed>>
  BY StillFrame DEF Still, Asks, Ticks, Wakes, Kicks, Learn, Depart, Connect, Drop, Repair, Admits,
    Denies, CooldownEnds, ParoleTick, NotifyOne, ParoleSnapshot, DispatchEnds, TakePermit,
    Deadline, Exhaust, KickSweep, Kick, pastVars
<1> QED  BY <1>1 DEF Grows

\* Steps that touch no dial and let the epochs grow keep the epoch invariant.
LEMMA GrowsKeeps ==
  ASSUME Typed, Typed', EpochInv, UNCHANGED dialVars,
         \A q \in Peer : q \notin removed' => Grows(q) /\ q \notin removed
  PROVE  EpochInv'
<1>1. \A q \in Peer : Dialed(q)' = Dialed(q) /\ Queued(q)' = Queued(q)
  BY DEF Dialed, Queued, dialVars
<1>2. ASSUME NEW q \in Peer, q \notin removed', NEW e \in Nat, Behind(q, e)
      PROVE  Behind(q, e)'
  <2>1. slots[q].epoch \in Nat /\ Grows(q)
    BY <1>2 DEF Typed, Slot, Epochs
  <2>2. slots'[q].epoch \in Int
    BY DEF Typed, Slot, Epochs
  <2> QED  BY <1>2, <2>1, <2>2 DEF Grows, Behind, Is
<1>3. ASSUME NEW q \in Peer, NEW k \in Dialed(q) PROVE k \in Permits /\ tasks[k].epoch \in Nat
  BY <1>3 DEF Dialed, Typed, Task, Epochs
<1>4. ASSUME NEW q \in Peer, NEW i \in Queued(q) PROVE results[i].epoch \in Nat
  <2>1. results[i] \in Result
    BY <1>4 DEF Queued, Typed
  <2> QED  BY <2>1 DEF Result, Epochs
<1>5. EpochsBehind'
  BY <1>1, <1>2, <1>3, <1>4 DEF EpochInv, EpochsBehind, dialVars
<1>6. EpochsDistinct'
  BY <1>1 DEF EpochInv, EpochsDistinct, dialVars
<1> QED  BY <1>5, <1>6 DEF EpochInv

\* The epochs of the outstanding dials are numbers.
LEMMA OutstandingTypes ==
  ASSUME Typed, NEW q \in Peer
  PROVE  /\ slots[q].epoch \in Nat
         /\ \A k \in Dialed(q) : k \in Permits /\ tasks[k].epoch \in Nat
         /\ \A i \in Queued(q) : i \in 1 .. Len(results) /\ results[i].epoch \in Nat
<1>1. slots[q].epoch \in Nat
  BY DEF Typed, Slot, Epochs
<1>2. ASSUME NEW k \in Dialed(q) PROVE k \in Permits /\ tasks[k].epoch \in Nat
  BY <1>2 DEF Dialed, Typed, Task, Epochs
<1>3. ASSUME NEW i \in Queued(q) PROVE i \in 1 .. Len(results) /\ results[i].epoch \in Nat
  <2>1. i \in 1 .. Len(results) /\ results[i] \in Result
    BY <1>3 DEF Queued, Typed
  <2> QED  BY <2>1 DEF Result, Epochs
<1> QED  BY <1>1, <1>2, <1>3

\* A new dial has the slot's new epoch, which no outstanding dial has reached.
LEMMA EpochDial ==
  ASSUME Typed, SlotInv, NoWrap, EpochInv, NEW p \in Peer, NEW k \in Permits, Dial(p, k)
  PROVE  EpochInv'
<1> DEFINE n == slots[p].epoch + 1
<1>0. /\ Bump(slots[p].epoch) = n /\ slots[p].epoch \in Nat /\ n \in Nat
      /\ slots \in [Peer -> Slot] /\ slots[p] \in Slot /\ Is(p, "retrying")
  BY BumpAdds DEF Typed, SlotInv, DueIsRetrying, Dial, Visit
<1>1. /\ tasks' = [tasks EXCEPT ![k] = [stage |-> "dialing", peer |-> p, epoch |-> n]]
      /\ tasks[k] = NoTask /\ tasks \in [Permits -> Task \cup {NoTask}]
      /\ UNCHANGED <<results, removed>>
  BY <1>0 DEF Dial, pastVars, Typed
<1>2. /\ \A q \in Peer \ {p} : slots'[q] = slots[q]
      /\ slots'[p].epoch = n /\ slots'[p].st = "retrying"
  BY <1>0 DEF Dial, Slot, Is
<1>3. /\ \A q \in Peer \ {p} : Dialed(q)' = Dialed(q)
      /\ Dialed(p)' = Dialed(p) \cup {k} /\ k \notin Dialed(p)
      /\ \A j \in Permits \ {k} : tasks'[j] = tasks[j]
      /\ tasks'[k].epoch = n /\ k \notin UNION {Dialed(q) : q \in Peer}
  BY <1>1 DEF Dialed, NoTask
<1>4. \A q \in Peer : Queued(q)' = Queued(q)
  BY <1>1 DEF Queued
<1>5. ASSUME p \notin removed
      PROVE  /\ \A j \in Dialed(p) : tasks[j].epoch < n
             /\ \A i \in Queued(p) : results[i].epoch < n
  BY <1>0, <1>5, OutstandingTypes DEF EpochInv, EpochsBehind, Behind, Is
<1> HIDE DEF n
<1>6. EpochsBehind'
  <2>1. ASSUME NEW q \in Peer \ removed', q # p
        PROVE  /\ \A j \in Dialed(q)' : Behind(q, tasks[j].epoch)'
               /\ \A i \in Queued(q)' : Behind(q, results[i].epoch)'
    <3>1. /\ \A j \in Dialed(q) : Behind(q, tasks[j].epoch) /\ tasks'[j] = tasks[j]
          /\ \A i \in Queued(q) : Behind(q, results[i].epoch)
      BY <1>1, <1>3, <2>1, OutstandingTypes DEF EpochInv, EpochsBehind
    <3> QED  BY <1>1, <1>2, <1>3, <1>4, <2>1, <3>1 DEF Behind, Is
  <2>2. ASSUME p \notin removed'
        PROVE  /\ \A j \in Dialed(p)' : Behind(p, tasks[j].epoch)'
               /\ \A i \in Queued(p)' : Behind(p, results[i].epoch)'
    <3>1. \A j \in Dialed(p) : tasks'[j] = tasks[j]
      BY <1>3, OutstandingTypes
    <3> QED  BY <1>1, <1>2, <1>3, <1>4, <1>5, <2>2, <3>1 DEF Behind, Is
  <2> QED  BY <2>1, <2>2 DEF EpochsBehind
<1>7. EpochsDistinct'
  <2> SUFFICES ASSUME NEW q \in Peer \ removed'
        PROVE  /\ \A i, j \in Dialed(q)' : tasks'[i].epoch = tasks'[j].epoch => i = j
               /\ \A j \in Dialed(q)', i \in Queued(q)' : tasks'[j].epoch # results'[i].epoch
               /\ \A i, j \in Queued(q)' : results'[i].epoch = results'[j].epoch => i = j
    BY DEF EpochsDistinct
  <2>0. /\ \A i, j \in Dialed(q) : tasks[i].epoch = tasks[j].epoch => i = j
        /\ \A j \in Dialed(q), i \in Queued(q) : tasks[j].epoch # results[i].epoch
        /\ \A i, j \in Queued(q) : results[i].epoch = results[j].epoch => i = j
    BY <1>1 DEF EpochInv, EpochsDistinct
  <2>1. \A j \in Dialed(q) : tasks'[j] = tasks[j]
    BY <1>3, OutstandingTypes
  <2>2. CASE q # p
    BY <1>1, <1>3, <1>4, <2>0, <2>1, <2>2
  <2>3. CASE q = p
    <3>1. /\ \A j \in Dialed(p) : tasks[j].epoch \in Nat /\ tasks[j].epoch # n
          /\ \A i \in Queued(p) : results[i].epoch \in Nat /\ results[i].epoch # n
      BY <1>0, <1>1, <1>5, <2>3, OutstandingTypes
    <3> QED  BY <1>1, <1>3, <1>4, <2>0, <2>1, <2>3, <3>1
  <2> QED  BY <2>2, <2>3
<1> QED  BY <1>6, <1>7 DEF EpochInv

\* A report moves a dial, with its epoch, from its task to the channel.
LEMMA EpochReport ==
  ASSUME Typed, EpochInv, NEW k \in Permits, NEW ok \in BOOLEAN, Report(k, ok)
  PROVE  EpochInv'
<1> DEFINE r == [peer |-> tasks[k].peer, epoch |-> tasks[k].epoch, ok |-> ok]
           n == Len(results) + 1
<1>1. /\ results' = Append(results, r) /\ results \in Seq(Result)
      /\ r.peer = tasks[k].peer /\ r.epoch = tasks[k].epoch
      /\ tasks' = [tasks EXCEPT ![k].stage = "reported"]
      /\ UNCHANGED <<slots, removed>>
      /\ tasks[k] # NoTask /\ tasks[k].stage = "dialing"
      /\ tasks \in [Permits -> Task \cup {NoTask}]
  BY DEF Report, pastVars, Typed
<1>2. tasks[k] \in Task
  BY <1>1
<1> HIDE DEF r
<1>3. /\ Len(results') = n /\ Len(results) \in Nat
      /\ results'[n] = r /\ \A i \in 1 .. Len(results) : results'[i] = results[i]
  BY <1>1
<1>4. tasks'[k].stage = "reported" /\ \A j \in Permits \ {k} : tasks'[j] = tasks[j]
  BY <1>1, <1>2 DEF Task
<1>5. \A q \in Peer : Dialed(q)' = Dialed(q) \ {k}
  BY <1>4 DEF Dialed
<1>6. \A q \in Peer : Queued(q)' = IF q = tasks[k].peer THEN Queued(q) \cup {n} ELSE Queued(q)
  BY <1>1, <1>3 DEF Queued
<1>7. \A q \in Peer : q = tasks[k].peer => k \in Dialed(q)
  BY <1>1 DEF Dialed
<1> SUFFICES ASSUME NEW q \in Peer, q \notin removed
      PROVE  /\ \A j \in Dialed(q)' : Behind(q, tasks[j].epoch)'
             /\ \A i \in Queued(q)' : Behind(q, results[i].epoch)'
             /\ \A i, j \in Dialed(q)' : tasks'[i].epoch = tasks'[j].epoch => i = j
             /\ \A j \in Dialed(q)', i \in Queued(q)' : tasks'[j].epoch # results'[i].epoch
             /\ \A i, j \in Queued(q)' : results'[i].epoch = results'[j].epoch => i = j
  BY <1>1 DEF EpochInv, EpochsBehind, EpochsDistinct
<1>8. /\ \A j \in Dialed(q) : Behind(q, tasks[j].epoch) /\ j \in Permits
      /\ \A i \in Queued(q) : Behind(q, results[i].epoch) /\ i \in 1 .. Len(results)
      /\ \A i, j \in Dialed(q) : tasks[i].epoch = tasks[j].epoch => i = j
      /\ \A j \in Dialed(q), i \in Queued(q) : tasks[j].epoch # results[i].epoch
      /\ \A i, j \in Queued(q) : results[i].epoch = results[j].epoch => i = j
  BY OutstandingTypes DEF EpochInv, EpochsBehind, EpochsDistinct
<1>9. \A e : Behind(q, e)' <=> Behind(q, e)
  BY <1>1 DEF Behind, Is
<1>10. \A j \in Dialed(q)' : j \in Dialed(q) /\ j # k /\ tasks'[j] = tasks[j]
  BY <1>4, <1>5, <1>8
<1>11. \A i \in Queued(q)' : \/ i \in Queued(q) /\ i # n /\ results'[i] = results[i]
                             \/ i = n /\ k \in Dialed(q) /\ results'[i].epoch = tasks[k].epoch
  BY <1>1, <1>3, <1>6, <1>7, <1>8
<1> HIDE DEF n
<1>12. \A j \in Dialed(q)' : Behind(q, tasks[j].epoch)'
  BY <1>8, <1>9, <1>10 DEF Behind, Is
<1>13. \A i \in Queued(q)' : Behind(q, results[i].epoch)'
  BY <1>1, <1>8, <1>11 DEF Behind, Is
<1>14. /\ \A i, j \in Dialed(q)' : tasks'[i].epoch = tasks'[j].epoch => i = j
       /\ \A j \in Dialed(q)', i \in Queued(q)' : tasks'[j].epoch # results'[i].epoch
       /\ \A i, j \in Queued(q)' : results'[i].epoch = results'[j].epoch => i = j
  BY <1>8, <1>10, <1>11
<1> QED  BY <1>12, <1>13, <1>14

\* Releasing a permit touches no outstanding dial.
LEMMA EpochRelease ==
  ASSUME Typed, EpochInv, NEW k \in Permits, Release(k)
  PROVE  EpochInv'
<1>1. /\ UNCHANGED <<slots, results, removed>>
      /\ tasks' = [tasks EXCEPT ![k] = NoTask] /\ tasks[k].stage = "reported"
      /\ tasks \in [Permits -> Task \cup {NoTask}]
  BY DEF Release, pastVars, Typed
<1>2. \A j \in Permits \ {k} : tasks'[j] = tasks[j]
  BY <1>1
<1>3. \A q \in Peer : /\ Dialed(q)' = Dialed(q) /\ Queued(q)' = Queued(q)
                      /\ \A j \in Dialed(q) : tasks'[j] = tasks[j]
  <2> SUFFICES ASSUME NEW q \in Peer
               PROVE  /\ Dialed(q)' = Dialed(q) /\ Queued(q)' = Queued(q)
                      /\ \A j \in Dialed(q) : tasks'[j] = tasks[j]
    OBVIOUS
  <2>1. Queued(q)' = Queued(q)
    BY <1>1 DEF Queued
  <2>2. tasks'[k] = NoTask /\ k \notin Dialed(q) /\ k \notin Dialed(q)'
    BY <1>1 DEF Dialed
  <2>3. Dialed(q)' = Dialed(q)
    BY <1>2, <2>2 DEF Dialed
  <2> QED  BY <1>2, <2>1, <2>2, <2>3 DEF Dialed
<1>4. EpochsBehind'
  BY <1>1, <1>3 DEF EpochInv, EpochsBehind, Behind, Is
<1>5. EpochsDistinct'
  BY <1>1, <1>3 DEF EpochInv, EpochsDistinct
<1> QED  BY <1>4, <1>5 DEF EpochInv

\* The result that answers for the slot is the only one with its epoch: a
\* peer it connects has left the others behind.
LEMMA EpochTake ==
  ASSUME Typed, EpochInv, TakeResult
  PROVE  EpochInv'
<1> DEFINE r == Head(results)
<1>1. /\ results \in Seq(Result) /\ results # <<>> /\ results' = Tail(results)
      /\ slots \in [Peer -> Slot] /\ UNCHANGED <<tasks, removed>>
  BY DEF TakeResult, Typed, pastVars
<1>2. r \in Result /\ r.peer \in Peer /\ r.epoch \in Nat /\ r = results[1]
  <2>1. r \in Result /\ r = results[1]
    BY <1>1
  <2> QED  BY <2>1 DEF Result, Epochs
<1>3. PICK st \in Outlooks : slots' = [slots EXCEPT ![r.peer] = Resulted(@, r, st)]
  BY DEF TakeResult
<1> HIDE DEF r
<1>4. /\ \A q \in Peer \ {r.peer} : slots'[q] = slots[q]
      /\ slots'[r.peer].epoch = slots[r.peer].epoch
      /\ slots'[r.peer].st = "connected" =>
           slots[r.peer].st = "connected" \/ slots[r.peer].epoch = r.epoch
  <2>1. slots[r.peer] \in Slot
    BY <1>1, <1>2
  <2>2. slots'[r.peer] = Resulted(slots[r.peer], r, st)
    BY <1>1, <1>2, <1>3
  <2> QED  BY <1>1, <1>3, <2>1, <2>2 DEF Resulted, Laddered, Outlooks, Slot
<1>5. /\ Len(results') = Len(results) - 1 /\ Len(results) \in Nat \ {0}
      /\ \A i \in 1 .. Len(results') : results'[i] = results[i + 1]
  BY <1>1
<1>6. \A q \in Peer : Dialed(q)' = Dialed(q)
  BY <1>1 DEF Dialed
<1>7. \A q \in Peer : \A i \in Queued(q)' :
        i \in Nat /\ i + 1 \in Queued(q) /\ i + 1 # 1 /\ results'[i] = results[i + 1]
  BY <1>5 DEF Queued
<1>8. \A q \in Peer : q = r.peer => 1 \in Queued(q)
  BY <1>2, <1>5 DEF Queued
<1> SUFFICES ASSUME NEW q \in Peer, q \notin removed
      PROVE  /\ \A j \in Dialed(q)' : Behind(q, tasks[j].epoch)'
             /\ \A i \in Queued(q)' : Behind(q, results[i].epoch)'
             /\ \A i, j \in Dialed(q)' : tasks'[i].epoch = tasks'[j].epoch => i = j
             /\ \A j \in Dialed(q)', i \in Queued(q)' : tasks'[j].epoch # results'[i].epoch
             /\ \A i, j \in Queued(q)' : results'[i].epoch = results'[j].epoch => i = j
  BY <1>1 DEF EpochInv, EpochsBehind, EpochsDistinct
<1>9. /\ \A j \in Dialed(q) : Behind(q, tasks[j].epoch) /\ tasks[j].epoch \in Nat
      /\ \A i \in Queued(q) : Behind(q, results[i].epoch) /\ results[i].epoch \in Nat
      /\ slots[q].epoch \in Nat
      /\ \A i, j \in Dialed(q) : tasks[i].epoch = tasks[j].epoch => i = j
      /\ \A j \in Dialed(q), i \in Queued(q) : tasks[j].epoch # results[i].epoch
      /\ \A i, j \in Queued(q) : results[i].epoch = results[j].epoch => i = j
  BY OutstandingTypes DEF EpochInv, EpochsBehind, EpochsDistinct
<1>10. ASSUME NEW e \in Nat, Behind(q, e), q = r.peer => e # r.epoch PROVE Behind(q, e)'
  <2>1. CASE q # r.peer
    BY <1>4, <1>10, <2>1 DEF Behind, Is
  <2>2. CASE q = r.peer
    BY <1>2, <1>4, <1>9, <1>10, <2>2 DEF Behind, Is
  <2> QED  BY <2>1, <2>2
<1>11. \A j \in Dialed(q) : tasks[j].epoch \in Nat /\ Behind(q, tasks[j].epoch)
                            /\ (q = r.peer => tasks[j].epoch # r.epoch)
  BY <1>2, <1>8, <1>9
<1>12. \A i \in Queued(q) : i # 1 => /\ results[i].epoch \in Nat /\ Behind(q, results[i].epoch)
                                     /\ q = r.peer => results[i].epoch # r.epoch
  BY <1>2, <1>8, <1>9
<1>13. \A j \in Dialed(q)' : Behind(q, tasks[j].epoch)'
  BY <1>1, <1>6, <1>10, <1>11
<1>14. \A i \in Queued(q)' : Behind(q, results[i].epoch)'
  <2> SUFFICES ASSUME NEW i \in Queued(q)' PROVE Behind(q, results[i].epoch)'
    OBVIOUS
  <2>1. i + 1 \in Queued(q) /\ i + 1 # 1 /\ results'[i] = results[i + 1]
    BY <1>7
  <2>2. PICK e \in Nat :
           Behind(q, e) /\ (q = r.peer => e # r.epoch) /\ results'[i].epoch = e
    BY <1>12, <2>1
  <2>3. Behind(q, e)'
    BY <1>10, <2>2
  <2> QED  BY <2>2, <2>3 DEF Behind, Is
<1>15. /\ \A i, j \in Dialed(q)' : tasks'[i].epoch = tasks'[j].epoch => i = j
       /\ \A j \in Dialed(q)', i \in Queued(q)' : tasks'[j].epoch # results'[i].epoch
  <2>1. \A i, j \in Dialed(q)' : tasks'[i].epoch = tasks'[j].epoch => i = j
    BY <1>1, <1>6, <1>9
  <2>2. ASSUME NEW j \in Dialed(q)', NEW i \in Queued(q)' PROVE tasks'[j].epoch # results'[i].epoch
    <3>1. i + 1 \in Queued(q) /\ results'[i] = results[i + 1]
      BY <1>7
    <3>2. j \in Dialed(q) /\ tasks'[j] = tasks[j]
      BY <1>1, <1>6
    <3> QED  BY <1>9, <3>1, <3>2
  <2> QED  BY <2>1, <2>2
<1>16. \A i, j \in Queued(q)' : results'[i].epoch = results'[j].epoch => i = j
  <2> SUFFICES ASSUME NEW i \in Queued(q)', NEW j \in Queued(q)',
                      results'[i].epoch = results'[j].epoch
               PROVE  i = j
    OBVIOUS
  <2>1. /\ i + 1 \in Queued(q) /\ results'[i] = results[i + 1] /\ i \in Nat
        /\ j + 1 \in Queued(q) /\ results'[j] = results[j + 1] /\ j \in Nat
    BY <1>7
  <2>2. i + 1 = j + 1
    BY <1>9, <2>1
  <2> QED  BY <2>1, <2>2
<1> QED  BY <1>13, <1>14, <1>15, <1>16

\* EpochInv is inductive, relative to the slots, until an epoch wraps.
LEMMA EpochStep ==
  ASSUME Typed, Typed', SlotInv, NoWrap, EpochInv, [Next]_vars
  PROVE  EpochInv'
<1>1. CASE Still
  <2>1. UNCHANGED dialVars
    BY <1>1, StillFrame DEF dialVars
  <2> QED  BY <1>1, <2>1, GrowsStill, GrowsKeeps
<1>2. CASE Pass
  <2>1. UNCHANGED dialVars
    BY <1>2 DEF Pass, ParoleArm, Gather, Apply
  <2> QED  BY <1>2, <2>1, GrowsPass, GrowsKeeps
<1>3. ASSUME NEW p \in Peer, One(p) PROVE EpochInv'
  <2>1. UNCHANGED dialVars
    BY <1>3 DEF One, Elapse, Lapse, MarkConnected, MarkBridge, EvictPeer, Park, SoftFail
  <2> QED  BY <1>3, <2>1, GrowsOne, GrowsKeeps
<1>4. CASE Dials
  BY <1>4, EpochTake, EpochDial, EpochReport, EpochRelease DEF Dials, Dialing
<1>5. CASE UNCHANGED vars
  <2>1. UNCHANGED dialVars /\ \A q \in Peer : q \notin removed' => Grows(q) /\ q \notin removed
    BY <1>5 DEF vars, pastVars, Grows
  <2> QED  BY <2>1, GrowsKeeps
<1> QED  BY <1>1, <1>2, <1>3, <1>4, <1>5, Grouped

\* p stays connected through the step, or the loop has drained a Dropped.
Held(p) == Is(p, "connected") /\ slots'[p].st # "connected" => drained[p] = "dropped"

\* What parole, sweep and apply_trigger do to a connected slot.
LEMMA HeldPass == ASSUME Typed, Pass, NEW q \in Peer PROVE Held(q)
<1>0. slots \in [Peer -> Slot] /\ drained[q] \in Triggers
  BY DEF Typed
<1>1. ASSUME NEW B \in SUBSET Peer, ParoleArm(B) PROVE Held(q)
  BY <1>0, <1>1 DEF ParoleArm, Rearm, Held, Is
<1>2. CASE Gather
  <2>1. slots'[q] = slots[q] \/ ~Is(q, "connected")
    BY <1>2 DEF Gather, Rearm
  <2> QED  BY <2>1 DEF Held, Is
<1>3. CASE Apply
  <2>1. slots'[q] = Triggered(q)
    BY <1>3 DEF Apply
  <2> QED  BY <1>0, <2>1 DEF Triggered, Held, Is, Triggers
<1> QED  BY <1>1, <1>2, <1>3 DEF Pass

\* What the actions on one slot do.
LEMMA HeldOne ==
  ASSUME Typed, SlotInv, NEW p \in Peer, One(p), NEW q \in Peer, q \notin removed' PROVE Held(q)
<1> USE DEF Held, Is
<1>0. slots \in [Peer -> Slot] /\ slots[p] \in Slot
  BY DEF Typed
<1>1. CASE Elapse(p)  BY <1>0, <1>1 DEF Elapse
<1>2. CASE Lapse(p)  BY <1>0, <1>2 DEF Lapse, Slot
<1>3. CASE MarkConnected(p)  BY <1>0, <1>3 DEF MarkConnected, NoSlot
<1>4. CASE MarkBridge(p)  BY <1>0, <1>4 DEF MarkBridge, Slot
<1>5. CASE EvictPeer(p)  BY <1>0, <1>5 DEF EvictPeer, Removes, Known
<1>6. CASE Park(p)  BY <1>0, <1>6 DEF Park, Visit, SlotInv, DueIsRetrying
<1>7. CASE SoftFail(p)  BY <1>0, <1>7 DEF SoftFail, Visit, SlotInv, DueIsRetrying
<1> QED  BY <1>1, <1>2, <1>3, <1>4, <1>5, <1>6, <1>7 DEF One

\* What the dials do: a late result finds a newer epoch.
LEMMA HeldDials ==
  ASSUME Typed, SlotInv, EpochInv, Dials, NEW q \in Peer, q \notin removed' PROVE Held(q)
<1>0. slots \in [Peer -> Slot]
  BY DEF Typed
<1>1. CASE TakeResult
  <2> DEFINE r == Head(results)
  <2>1. results \in Seq(Result) /\ results # <<>> /\ q \notin removed
    BY <1>1 DEF TakeResult, Typed, pastVars
  <2>2. r = results[1] /\ 1 \in 1 .. Len(results)
    BY <2>1
  <2>3. PICK st \in Outlooks : slots' = [slots EXCEPT ![r.peer] = Resulted(@, r, st)]
    BY <1>1 DEF TakeResult
  <2> HIDE DEF r
  <2>4. CASE q = r.peer
    <3>1. 1 \in Queued(q)
      BY <2>2, <2>4 DEF Queued
    <3>2. r.epoch \in Nat /\ slots[q].epoch \in Nat /\ Behind(q, r.epoch)
      BY <2>1, <2>2, <3>1, OutstandingTypes DEF EpochInv, EpochsBehind
    <3>3. Is(q, "connected") => slots[q].epoch # r.epoch
      BY <3>2 DEF Behind
    <3>4. slots'[q] = Resulted(slots[q], r, st) /\ slots[q] \in Slot
      BY <1>0, <2>3, <2>4
    <3> QED  BY <3>3, <3>4 DEF Resulted, Held, Is, Slot
  <2>5. CASE q # r.peer
    <3>1. slots'[q] = slots[q]
      BY <1>0, <2>3, <2>5
    <3> QED  BY <3>1 DEF Held, Is
  <2> QED  BY <2>4, <2>5
<1>2. ASSUME NEW p \in Peer, NEW k \in Permits, Dial(p, k) PROVE Held(q)
  BY <1>0, <1>2 DEF Dial, Visit, SlotInv, DueIsRetrying, Held, Is
<1>3. ASSUME NEW k \in Permits, Dialing(k) PROVE Held(q)
  BY <1>3 DEF Dialing, Release, Report, Held, Is
<1> QED  BY <1>1, <1>2, <1>3 DEF Dials

\* A step takes a connected peer out of Connected for a Dropped only.
LEMMA HeldStep ==
  ASSUME Typed, SlotInv, EpochInv, Next, NEW q \in Peer, q \notin removed' PROVE Held(q)
<1>1. CASE Still
  BY <1>1, StillFrame DEF Held, Is
<1> QED  BY <1>1, HeldPass, HeldOne, HeldDials, Grouped

\* mark_connected bumps the epoch "so any in-flight dial's result is discarded
\* rather than overriding Connected": while the peer keeps its slot and the
\* u64 does not wrap, Connected is left for a Dropped trigger only.
THEOREM ConnectedIsHeld == Spec /\ []NoWrap => ConnectedHeld
<1>1. Init => EpochInv
  BY DEF Init, EpochInv, EpochsBehind, EpochsDistinct, Dialed, Queued
<1>2. Typed /\ Typed' /\ SlotInv /\ NoWrap /\ EpochInv /\ [Next]_vars => EpochInv'
  BY EpochStep
<1>3. Typed /\ SlotInv /\ EpochInv /\ [Next]_vars =>
        [\A p \in Peer \ removed' :
           Is(p, "connected") /\ slots'[p].st # "connected" => drained[p] = "dropped"]_vars
  BY HeldStep DEF Held
<1> QED  BY SlotsInvariant, <1>1, <1>2, <1>3, PTL DEF Spec, ConnectedHeld
=============================================================================
