------------------------ MODULE ReconnectSupervisor ------------------------
(***************************************************************************)
(* The reconnect supervisor: one loop that decides when each peer is       *)
(* dialled, the dial tasks it spawns, and the threads that call its handle *)
(* (kick, kick_sweep, mark_connected, mark_reachability_bridge and         *)
(* evict_peer).                                                            *)
(*                                                                         *)
(* Source: src-tauri/crates/harmony-transport/src/reconnect_supervisor.rs. *)
(*                                                                         *)
(* Time is abstracted: a scheduled instant may arrive at any moment, so a  *)
(* Retrying slot is due or not yet due, and whether dormant_after has gone *)
(* by since the last fresh trigger is a free choice; what matters of the   *)
(* fresh-trigger instants is their order, which parole uses.  The          *)
(* transport, the resolver and the membership code are the environment:    *)
(* their calls arrive in any order, each some time after its cause.  Two   *)
(* triggers are told apart, Dropped and the rest (NewPeer, RecordChanged); *)
(* nothing kicks PresenceSweep.  Ring markers and counters are left out.   *)
(***************************************************************************)
EXTENDS Integers, FiniteSets, Sequences

CONSTANTS
  Peer,        \* the other nodes
  Permits,     \* the dial permits of the semaphore (max_concurrent_dials)
  Batch,       \* parole_batch
  EpochLimit,  \* epochs wrap at this value (2^64 in the code)
  Recurring,   \* the kinds of events that may happen without limit
  Scenarios    \* each bounds how often each other kind of event happens

Events == {"learn", "depart", "connect", "drop", "bridge", "sweep", "admit",
           "deny", "lapse", "parole", "fail"}

ASSUME PermitAssumption   == IsFiniteSet(Permits) /\ Permits # {}
ASSUME BatchAssumption    == Batch \in Nat \ {0}
ASSUME EpochAssumption    == EpochLimit \in Nat \ {0, 1}
ASSUME EventAssumption    == Recurring \subseteq Events /\ Scenarios \subseteq [Events -> Nat]

VARIABLES
  records,   \* peers with a live record in the resolver
  admitted,  \* peers the admission oracle admits
  calls,     \* handle calls about to be made: <<what, peer>>
  notifies,  \* handle calls that have yet to reach their notify_one
  slots,     \* states: the slot of each known peer
  older,     \* <<p, q>>: the last fresh trigger of p is before that of q
  dirty,     \* the coalescing dirty set: the strongest trigger of each peer
  sweep,     \* sweep_requested
  permit,    \* Notify holds a stored permit
  pc,        \* where the loop is
  drained,   \* the triggers taken from the dirty set in this pass
  todo,      \* due peers the dispatch pass has not visited yet
  exhausted, \* dial_capacity_exhausted of the last pass
  parolees,  \* the Dormant peers parole snapshotted
  parole,    \* next_parole has come
  cooling,   \* the sweep cooldown is running
  deferred,  \* pending_sweep_at is set
  tasks,     \* the dial task holding each permit
  results,   \* the channel of dial results
  evicted,   \* history: peers that evict_peer was called for
  removed,   \* history: peers whose slot was ever removed
  left       \* how many more events of each kind the scenario has

envVars   == <<records, admitted>>
callVars  == <<calls, notifies>>
kickVars  == <<dirty, sweep, permit>>
loopVars  == <<pc, drained, todo, exhausted, parolees>>
timeVars  == <<parole, cooling, deferred>>
dialVars  == <<tasks, results>>
pastVars  == <<evicted, removed>>
vars == <<envVars, callVars, slots, older, kickVars, loopVars, timeVars, dialVars,
          pastVars, left>>

Triggers == {"none", "fresh", "dropped"}
Epochs   == 0 .. EpochLimit - 1
NoSlot   == [st |-> "absent", due |-> FALSE, flight |-> FALSE, epoch |-> 0, exempt |-> FALSE]
Slot     == [st : {"absent", "connected", "retrying", "dormant"}, due : BOOLEAN,
             flight : BOOLEAN, epoch : Epochs, exempt : BOOLEAN]
NoTask   == [stage |-> "free"]
Task     == [stage : {"dialing", "reported"}, peer : Peer, epoch : Epochs]
Result   == [peer : Peer, epoch : Epochs, ok : BOOLEAN]

Known(p) == slots[p].st # "absent"
Is(p, s) == slots[p].st = s
Bump(e)  == (e + 1) % EpochLimit
Spend(e) == IF e \in Recurring THEN UNCHANGED left
            ELSE left[e] > 0 /\ left' = [left EXCEPT ![e] = @ - 1]

Init ==
  /\ records = {} /\ admitted = Peer
  /\ calls = {} /\ notifies = 0
  /\ slots = [p \in Peer |-> NoSlot] /\ older = {}
  /\ dirty = [p \in Peer |-> "none"] /\ sweep = FALSE /\ permit = FALSE
  /\ pc = "top" /\ drained = [p \in Peer |-> "none"] /\ todo = {}
  /\ exhausted = FALSE /\ parolees = {}
  /\ parole = FALSE /\ cooling = FALSE /\ deferred = FALSE
  /\ tasks = [k \in Permits |-> NoTask] /\ results = <<>>
  /\ evicted = {} /\ removed = {} /\ left \in Scenarios
----------------------------------------------------------------------------
(***************************************************************************)
(* The environment: what makes the other threads call the handle.          *)
(***************************************************************************)
Calls(c) == calls' = calls \cup {c} /\ UNCHANGED notifies

\* The resolver learns or replaces a record, and then kicks.
Learn(p) ==
  /\ Spend("learn")
  /\ records' = records \cup {p}
  /\ Calls(<<"fresh", p>>)
  /\ UNCHANGED <<admitted, slots, older, kickVars, loopVars, timeVars, dialVars, pastVars>>

\* A member leaves: its records are removed, and then it is evicted.
Depart(p) ==
  /\ p \in records /\ Spend("depart")
  /\ records' = records \ {p}
  /\ Calls(<<"evict", p>>)
  /\ UNCHANGED <<admitted, slots, older, kickVars, loopVars, timeVars, dialVars, pastVars>>

\* A connection is registered, from an accept or from a dial.
Connect(p) ==
  /\ Spend("connect")
  /\ Calls(<<"mark", p>>)
  /\ UNCHANGED <<envVars, slots, older, kickVars, loopVars, timeVars, dialVars, pastVars>>

\* A registered connection closes, or the reconcile finds a zombie link.
Drop(p) ==
  /\ Spend("drop")
  /\ Calls(<<"dropped", p>>)
  /\ UNCHANGED <<envVars, slots, older, kickVars, loopVars, timeVars, dialVars, pastVars>>

\* Coverage repair sees a Dormant peer it needs.
Repair(p) ==
  /\ Is(p, "dormant") /\ Spend("bridge")
  /\ Calls(<<"bridge", p>>)
  /\ UNCHANGED <<envVars, slots, older, kickVars, loopVars, timeVars, dialVars, pastVars>>

\* The oracle's answer for p changes: a record binds or unbinds its key, or
\* the controller publishes another set (and then asks for a sweep: KickSweep).
Admits(p) ==
  /\ p \notin admitted /\ Spend("admit")
  /\ admitted' = admitted \cup {p}
  /\ UNCHANGED <<records, callVars, slots, older, kickVars, loopVars, timeVars, dialVars, pastVars>>

Denies(p) ==
  /\ p \in admitted /\ Spend("deny")
  /\ admitted' = admitted \ {p}
  /\ UNCHANGED <<records, callVars, slots, older, kickVars, loopVars, timeVars, dialVars, pastVars>>

\* Time: a rung, the repair window, the cooldown and the parole interval end.
Elapse(p) ==
  /\ Is(p, "retrying") /\ ~slots[p].due
  /\ slots' = [slots EXCEPT ![p].due = TRUE]
  /\ UNCHANGED <<envVars, callVars, older, kickVars, loopVars, timeVars, dialVars, pastVars, left>>

Lapse(p) ==
  /\ slots[p].exempt /\ Spend("lapse")
  /\ slots' = [slots EXCEPT ![p].exempt = FALSE]
  /\ UNCHANGED <<envVars, callVars, older, kickVars, loopVars, timeVars, dialVars, pastVars>>

CooldownEnds ==
  /\ cooling /\ cooling' = FALSE
  /\ UNCHANGED <<envVars, callVars, slots, older, kickVars, loopVars, parole, deferred,
                 dialVars, pastVars, left>>

ParoleTick ==
  /\ ~parole /\ Spend("parole")
  /\ parole' = TRUE
  /\ UNCHANGED <<envVars, callVars, slots, older, kickVars, loopVars, cooling, deferred,
                 dialVars, pastVars>>
----------------------------------------------------------------------------
(***************************************************************************)
(* The handle.  Every call does its work under the lock(s) it takes, then  *)
(* notifies.  The loop holds the states lock while it applies triggers and *)
(* dispatches.                                                             *)
(***************************************************************************)
Unlocked == pc # "dispatch"

Returns(c) == c \in calls /\ calls' = calls \ {c} /\ notifies' = notifies + 1

\* A later fresh trigger for the peers in R.
Freshen(R) == older' = (older \ (R \X Peer)) \cup ((Peer \ R) \X R)

Stronger(t, u) == IF "dropped" \in {t, u} THEN "dropped" ELSE "fresh"

Kick(p, t) ==
  /\ Returns(<<t, p>>)
  /\ dirty' = [dirty EXCEPT ![p] = Stronger(@, t)]
  /\ UNCHANGED <<envVars, slots, older, sweep, permit, loopVars, timeVars, dialVars, pastVars, left>>

\* Faulty variant: the request is stored and nobody woken.
KickSweepSilent ==
  /\ Spend("sweep")
  /\ sweep' = TRUE
  /\ UNCHANGED <<envVars, calls, notifies, slots, older, dirty, permit, loopVars, timeVars,
                 dialVars, pastVars>>

KickSweep ==
  /\ Spend("sweep")
  /\ sweep' = TRUE /\ notifies' = notifies + 1
  /\ UNCHANGED <<envVars, calls, slots, older, dirty, permit, loopVars, timeVars, dialVars, pastVars>>

\* Faulty variant: the epoch stays, and with it the result of a dial in flight.
MarkConnectedSameEpoch(p) ==
  /\ Unlocked
  /\ Returns(<<"mark", p>>)
  /\ slots' = [slots EXCEPT ![p] = [NoSlot EXCEPT !.st = "connected", !.epoch = slots[p].epoch]]
  /\ IF Known(p) THEN UNCHANGED older ELSE Freshen({p})
  /\ UNCHANGED <<envVars, kickVars, loopVars, timeVars, dialVars, pastVars, left>>

\* The epoch bump voids the result of a dial in flight, and the repair
\* exemption is used up.
MarkConnected(p) ==
  /\ Unlocked
  /\ Returns(<<"mark", p>>)
  /\ slots' = [slots EXCEPT ![p] = [NoSlot EXCEPT !.st = "connected", !.epoch = Bump(slots[p].epoch)]]
  /\ IF Known(p) THEN UNCHANGED older ELSE Freshen({p})
  /\ UNCHANGED <<envVars, kickVars, loopVars, timeVars, dialVars, pastVars, left>>

\* Faulty variant: a slot that has connected since the snapshot is marked too.
MarkBridgeBlind(p) ==
  /\ Unlocked
  /\ <<"bridge", p>> \in calls
  /\ calls' = (calls \ {<<"bridge", p>>}) \cup {<<"fresh", p>>}
  /\ slots' = [slots EXCEPT ![p].exempt = Known(p)]
  /\ UNCHANGED <<envVars, notifies, older, kickVars, loopVars, timeVars, dialVars, pastVars, left>>

\* Faulty variant: a peer whose slot has gone since the snapshot is marked too.
MarkBridgeGone(p) ==
  /\ Unlocked
  /\ <<"bridge", p>> \in calls
  /\ calls' = (calls \ {<<"bridge", p>>}) \cup {<<"fresh", p>>}
  /\ slots' = [slots EXCEPT ![p].exempt = @ \/ ~Is(p, "connected")]
  /\ UNCHANGED <<envVars, notifies, older, kickVars, loopVars, timeVars, dialVars, pastVars, left>>

\* The repair waives the admission veto on a slot that is still there and not
\* connected, and kicks.
MarkBridge(p) ==
  /\ Unlocked
  /\ <<"bridge", p>> \in calls
  /\ calls' = (calls \ {<<"bridge", p>>}) \cup {<<"fresh", p>>}
  /\ slots' = [slots EXCEPT ![p].exempt = @ \/ (Known(p) /\ ~Is(p, "connected"))]
  /\ UNCHANGED <<envVars, notifies, older, kickVars, loopVars, timeVars, dialVars, pastVars, left>>

\* The slots of the peers in R go, if they were there; a later slot of the
\* same peer counts its epochs from 0 again.
Removes(R) == removed' = removed \cup {p \in R : Known(p)}

EvictPeer(p) ==
  /\ Unlocked
  /\ <<"evict", p>> \in calls /\ calls' = calls \ {<<"evict", p>>}
  /\ notifies' = IF Known(p) THEN notifies + 1 ELSE notifies
  /\ dirty' = [dirty EXCEPT ![p] = "none"]
  /\ slots' = [slots EXCEPT ![p] = NoSlot]
  /\ evicted' = evicted \cup {p} /\ Removes({p})
  /\ UNCHANGED <<envVars, older, sweep, permit, loopVars, timeVars, dialVars, left>>

NotifyOne ==
  /\ notifies > 0 /\ notifies' = notifies - 1
  /\ permit' = TRUE
  /\ UNCHANGED <<envVars, calls, slots, older, dirty, sweep, loopVars, timeVars, dialVars,
                 pastVars, left>>
----------------------------------------------------------------------------
(***************************************************************************)
(* The loop: parole, sweep and drain; apply triggers and dispatch under    *)
(* the states lock; sleep until a result, a notification or a deadline.    *)
(***************************************************************************)
\* Re-arm the peers in R at the base rung; a dial in flight stays in flight,
\* but its result is void.
Rearm(R) ==
  [p \in Peer |-> IF p \in R
     THEN [slots[p] EXCEPT !.st = "retrying", !.due = FALSE, !.epoch = Bump(@)]
     ELSE slots[p]]

\* run_parole, phase 1: snapshot under the lock and release it.
ParoleSnapshot ==
  /\ pc = "top" /\ parole
  /\ parole' = FALSE
  /\ parolees' = {p \in Peer : Is(p, "dormant")}
  /\ pc' = "paroling"
  /\ UNCHANGED <<envVars, callVars, slots, older, kickVars, drained, todo, exhausted,
                 cooling, deferred, dialVars, pastVars, left>>

\* Faulty variant: any batch.
AnyBatch(B, C) ==
  /\ B \subseteq C
  /\ Cardinality(B) = IF Cardinality(C) < Batch THEN Cardinality(C) ELSE Batch

\* The batch: the record-backed candidates longest without a fresh trigger.
IsBatch(B, C) ==
  /\ B \subseteq C
  /\ Cardinality(B) = IF Cardinality(C) < Batch THEN Cardinality(C) ELSE Batch
  /\ \A b \in B, c \in C \ B : <<c, b>> \notin older

\* Phase 2: re-arm what is still Dormant.
ParoleArm(B) ==
  LET R == {p \in B : Is(p, "dormant")}
  IN  /\ pc = "paroling"
      /\ IsBatch(B, parolees \cap records)
      /\ slots' = Rearm(R) /\ Freshen(R)
      /\ parolees' = {}
      /\ pc' = "gather"
      /\ UNCHANGED <<envVars, callVars, kickVars, drained, todo, exhausted, timeVars,
                     dialVars, pastVars, left>>

\* Sweep gating, do_sweep, and the drain of the dirty set.
Gather ==
  LET now == IF sweep THEN ~cooling ELSE deferred /\ ~cooling
      R   == {p \in Peer : now /\ Known(p) /\ ~Is(p, "connected")}
  IN  /\ pc = "gather" \/ (pc = "top" /\ ~parole)
      /\ sweep' = FALSE
      /\ deferred' = (~now /\ (sweep \/ deferred))
      /\ cooling' = (cooling \/ now)
      /\ slots' = Rearm(R) /\ Freshen(R)
      /\ drained' = dirty /\ dirty' = [p \in Peer |-> "none"]
      /\ pc' = "apply"
      /\ UNCHANGED <<envVars, callVars, permit, todo, exhausted, parolees, parole, dialVars,
                     pastVars, left>>

\* apply_trigger: a Dropped of a peer without record is a departure's echo
\* and removes the slot; a connected peer is re-armed by Dropped only.
Triggered(p) ==
  CASE drained[p] = "none" -> slots[p]
    [] drained[p] = "dropped" /\ p \notin records -> NoSlot
    [] drained[p] = "fresh" /\ Is(p, "connected") -> slots[p]
    [] OTHER -> [slots[p] EXCEPT !.st = "retrying", !.due = FALSE,
                                 !.epoch = IF Known(p) THEN Bump(@) ELSE 0]

\* The peers with a trigger to act on, and those whose trigger is an echo.
Fresh == {p \in Peer : drained[p] = "fresh" \/ (drained[p] = "dropped" /\ p \in records)}
Echoed == {p \in Peer : drained[p] = "dropped" /\ p \notin records}

\* Faulty variant: the dirty set is cleared once its triggers are applied.
ApplyAndClear ==
  /\ pc = "apply"
  /\ slots' = [p \in Peer |-> Triggered(p)]
  /\ Freshen(Fresh) /\ Removes(Echoed) /\ UNCHANGED evicted
  /\ todo' = {p \in Peer : slots'[p].st = "retrying" /\ slots'[p].due /\ ~slots'[p].flight}
  /\ drained' = [p \in Peer |-> "none"] /\ dirty' = [p \in Peer |-> "none"]
  /\ exhausted' = FALSE
  /\ pc' = "dispatch"
  /\ UNCHANGED <<envVars, callVars, sweep, permit, parolees, timeVars, dialVars, left>>

Apply ==
  /\ pc = "apply"
  /\ slots' = [p \in Peer |-> Triggered(p)]
  /\ Freshen(Fresh) /\ Removes(Echoed) /\ UNCHANGED evicted
  /\ todo' = {p \in Peer : slots'[p].st = "retrying" /\ slots'[p].due /\ ~slots'[p].flight}
  /\ drained' = [p \in Peer |-> "none"] /\ exhausted' = FALSE
  /\ pc' = "dispatch"
  /\ UNCHANGED <<envVars, callVars, kickVars, parolees, timeVars, dialVars, left>>

Visit(p) == pc = "dispatch" /\ p \in todo /\ todo' = todo \ {p}

Vetoed(p) == p \notin admitted /\ ~slots[p].exempt

\* The single enforcement point of the degree bound.
Park(p) ==
  /\ Visit(p) /\ Vetoed(p)
  /\ slots' = [slots EXCEPT ![p].st = "dormant", ![p].due = FALSE]
  /\ UNCHANGED <<envVars, callVars, older, kickVars, pc, drained, exhausted, parolees,
                 timeVars, dialVars, pastVars, left>>

Dial(p, k) ==
  /\ Visit(p) /\ ~Vetoed(p) /\ p \in records
  /\ tasks[k] = NoTask
  /\ tasks' = [tasks EXCEPT ![k] = [stage |-> "dialing", peer |-> p, epoch |-> Bump(slots[p].epoch)]]
  /\ slots' = [slots EXCEPT ![p].epoch = Bump(@), ![p].flight = TRUE]
  /\ UNCHANGED <<envVars, callVars, older, kickVars, pc, drained, exhausted, parolees,
                 timeVars, results, pastVars, left>>

\* No permit: the pass ends here, and the sleep ignores the due peers.
Exhaust(p) ==
  /\ pc = "dispatch" /\ p \in todo /\ ~Vetoed(p) /\ p \in records
  /\ \A k \in Permits : tasks[k] # NoTask
  /\ todo' = {} /\ exhausted' = TRUE /\ pc' = "select"
  /\ UNCHANGED <<envVars, callVars, slots, older, kickVars, drained, parolees, timeVars,
                 dialVars, pastVars, left>>

\* ladder_after_failure: the next rung, or Dormant when dormant_after is over.
Laddered(s, st) == [s EXCEPT !.st = st, !.due = FALSE, !.flight = FALSE]

Outlooks == {"retrying", "dormant"}

\* No record: no dial, but the ladder advances.
SoftFail(p) ==
  /\ Visit(p) /\ ~Vetoed(p) /\ p \notin records
  /\ \E st \in Outlooks : slots' = [slots EXCEPT ![p] = Laddered(@, st)]
  /\ UNCHANGED <<envVars, callVars, older, kickVars, pc, drained, exhausted, parolees,
                 timeVars, dialVars, pastVars, left>>

DispatchEnds ==
  /\ pc = "dispatch" /\ todo = {}
  /\ pc' = "select"
  /\ UNCHANGED <<envVars, callVars, slots, older, kickVars, drained, todo, exhausted, parolees,
                 timeVars, dialVars, pastVars, left>>

\* Faulty variant: a stale result is discarded before the flag is cleared.
ResultedEarlyReturn(s, r, st) ==
  IF s.st = "absent" \/ s.epoch # r.epoch THEN s
  ELSE IF r.ok THEN [s EXCEPT !.st = "connected", !.due = FALSE, !.flight = FALSE, !.exempt = FALSE]
  ELSE Laddered(s, st)

\* apply_result: a stale result only clears the in-flight flag.
Resulted(s, r, st) ==
  IF s.st = "absent" THEN s
  ELSE IF s.epoch # r.epoch THEN [s EXCEPT !.flight = FALSE]
  ELSE IF r.ok THEN [s EXCEPT !.st = "connected", !.due = FALSE, !.flight = FALSE, !.exempt = FALSE]
  ELSE Laddered(s, st)

TakeResult ==
  /\ pc = "select" /\ results # <<>>
  /\ LET r == Head(results)
     IN  \E st \in Outlooks : slots' = [slots EXCEPT ![r.peer] = Resulted(@, r, st)]
  /\ results' = Tail(results)
  /\ pc' = "top"
  /\ UNCHANGED <<envVars, callVars, older, kickVars, drained, todo, exhausted, parolees,
                 timeVars, tasks, pastVars, left>>

TakePermit ==
  /\ pc = "select" /\ results = <<>> /\ permit
  /\ permit' = FALSE
  /\ pc' = "top"
  /\ UNCHANGED <<envVars, callVars, slots, older, dirty, sweep, drained, todo, exhausted,
                 parolees, timeVars, dialVars, pastVars, left>>

\* The sleep ends: a rung (unless dial capacity was exhausted), the deferred
\* sweep, or parole.
Deadline ==
  /\ pc = "select" /\ results = <<>> /\ ~permit
  /\ \/ parole \/ (deferred /\ ~cooling)
     \/ ~exhausted /\ \E p \in Peer : Is(p, "retrying") /\ slots[p].due /\ ~slots[p].flight
  /\ pc' = "top"
  /\ UNCHANGED <<envVars, callVars, slots, older, kickVars, drained, todo, exhausted, parolees,
                 timeVars, dialVars, pastVars, left>>
----------------------------------------------------------------------------
(***************************************************************************)
(* A dial task reports its result, then drops its permit.                  *)
(***************************************************************************)
Report(k, ok) ==
  /\ tasks[k] # NoTask /\ tasks[k].stage = "dialing"
  /\ IF ok THEN UNCHANGED left ELSE Spend("fail")
  /\ results' = Append(results, [peer |-> tasks[k].peer, epoch |-> tasks[k].epoch, ok |-> ok])
  /\ tasks' = [tasks EXCEPT ![k].stage = "reported"]
  /\ UNCHANGED <<envVars, callVars, slots, older, kickVars, loopVars, timeVars, pastVars>>

Release(k) ==
  /\ tasks[k] # NoTask /\ tasks[k].stage = "reported"
  /\ tasks' = [tasks EXCEPT ![k] = NoTask]
  /\ UNCHANGED <<envVars, callVars, slots, older, kickVars, loopVars, timeVars, results,
                 pastVars, left>>
----------------------------------------------------------------------------
Env ==
  \/ KickSweep \/ ParoleTick
  \/ \E p \in Peer : \/ Learn(p) \/ Depart(p) \/ Connect(p) \/ Drop(p) \/ Repair(p)
                     \/ Admits(p) \/ Denies(p) \/ Elapse(p) \/ Lapse(p)

Handle ==
  \/ NotifyOne
  \/ \E p \in Peer : \/ Kick(p, "fresh") \/ Kick(p, "dropped") \/ MarkConnected(p)
                     \/ MarkBridge(p) \/ EvictPeer(p)

Loop ==
  \/ ParoleSnapshot \/ (\E B \in SUBSET Peer : ParoleArm(B)) \/ Gather \/ Apply
  \/ \E p \in Peer : \/ Park(p) \/ SoftFail(p) \/ Exhaust(p)
                     \/ \E k \in Permits : Dial(p, k)
  \/ DispatchEnds \/ TakeResult \/ TakePermit \/ Deadline

Dialing(k) == Release(k) \/ \E ok \in BOOLEAN : Report(k, ok)

Next == Env \/ CooldownEnds \/ Handle \/ Loop \/ \E k \in Permits : Dialing(k)

Spec == Init /\ [][Next]_vars

(***************************************************************************)
(* Fairness: runnable threads run, dials end (dial_timeout), time passes   *)
(* and parole is enabled (parole_interval > 0).  Users, peers, links and   *)
(* the membership owe nothing.                                             *)
(***************************************************************************)
FairSpec ==
  /\ Spec
  /\ WF_vars(Handle) /\ WF_vars(Loop) /\ WF_vars(CooldownEnds) /\ WF_vars(ParoleTick)
  /\ \A k \in Permits : WF_vars(Dialing(k))
  /\ \A p \in Peer : WF_vars(Elapse(p))
----------------------------------------------------------------------------
(***************************************************************************)
(* Properties.                                                             *)
(***************************************************************************)
LoopPcs == {"top", "paroling", "gather", "apply", "dispatch", "select"}
CallOps == {"fresh", "dropped", "evict", "mark", "bridge"}

\* Slots, dirty set, dial tasks and the loop's local variables.
Typed ==
  /\ records \subseteq Peer /\ admitted \subseteq Peer
  /\ evicted \subseteq Peer /\ removed \subseteq Peer
  /\ calls \subseteq CallOps \X Peer /\ notifies \in Nat
  /\ slots \in [Peer -> Slot] /\ older \subseteq Peer \X Peer
  /\ dirty \in [Peer -> Triggers] /\ drained \in [Peer -> Triggers]
  /\ sweep \in BOOLEAN /\ permit \in BOOLEAN
  /\ pc \in LoopPcs /\ todo \subseteq Peer /\ exhausted \in BOOLEAN /\ parolees \subseteq Peer
  /\ parole \in BOOLEAN /\ cooling \in BOOLEAN /\ deferred \in BOOLEAN
  /\ tasks \in [Permits -> Task \cup {NoTask}] /\ results \in Seq(Result)
  /\ left \in [Events -> Nat]

\* A peer without a slot has no remains of an earlier slot, and none of a later one.
AbsentClean == \A p \in Peer : Known(p) \/ slots[p] = NoSlot

\* The supervisor's state is well typed, and nothing is written to a peer that has
\* no slot, by the handle, the loop or a late result: a new slot starts from nothing.
TypeOK == Typed /\ AbsentClean

\* A dial of p has been started and its result not been applied.
Outstanding(p) ==
  \/ \E k \in Permits : tasks[k] # NoTask /\ tasks[k].stage = "dialing" /\ tasks[k].peer = p
  \/ \E i \in 1 .. Len(results) : results[i].peer = p

\* dial_in_flight is never left behind: while it suppresses dialling a peer,
\* a dial of that peer is out or its result is on the way.  Re-arms void a
\* result but keep the flag, so it is the stale result that must clear it.
InFlightIsReal == \A p \in Peer : slots[p].flight => Outstanding(p)

\* ZEB-941: a repair exemption authorises one connection.  A connected slot
\* holds none that a later drop could reuse to dial a peer the oracle denies,
\* although the repair marks slots it saw Dormant some time ago.
ExemptionUsedUp == \A p \in Peer : Is(p, "connected") => ~slots[p].exempt

\* kick is lossless: when the loop sleeps, what it has not yet looked at has
\* a notification behind it, stored or about to be.
NoLostKick ==
  pc = "select" /\ (sweep \/ \E p \in Peer : dirty[p] # "none") => permit \/ notifies > 0

\* Record-backed kicks always create the slot: a peer with a live record has
\* a slot, or the kick that will create it is on its way.
Announced(p) ==
  <<"fresh", p>> \in calls \/ dirty[p] # "none" \/ (pc = "apply" /\ drained[p] # "none")

RecordHasSlot == \A p \in records : Known(p) \/ Announced(p)

\* The same for peers that were never evicted.
StayersHaveSlots == \A p \in records \ evicted : Known(p) \/ Announced(p)

\* Connected is left by a Dropped trigger only (for peers whose slot was
\* never removed): neither the late result of a dial that was in flight when
\* the peer connected, nor a sweep, parole or new record, re-arms it.
ConnectedHeld ==
  [][\A p \in Peer \ removed' :
       Is(p, "connected") /\ slots'[p].st # "connected" => drained[p] = "dropped"]_vars

\* Nobody is forgotten: a peer that keeps its record and its admission is
\* connected or dialled again and again, through failed dials, dormancy,
\* exhausted permits and a stream of denied peers competing for parole.
EventuallyDialed ==
  \A p \in Peer :
    []<>(\/ p \notin records \/ p \notin admitted \/ p \in evicted
         \/ Is(p, "connected") \/ Outstanding(p))
----------------------------------------------------------------------------
(***************************************************************************)
(* The parts of the inductive invariant that the properties above lack.    *)
(***************************************************************************)
\* What the dispatch pass has yet to visit is still scheduled: the lock keeps
\* the handle out.
DueIsRetrying == pc = "dispatch" => \A p \in todo : Is(p, "retrying")

\* From its drain of the dirty set to its sleep, the loop will not look at it
\* again: what has been added since has a notification behind it.
WakeOwed ==
  pc \in {"apply", "dispatch", "select"} /\ (sweep \/ \E p \in Peer : dirty[p] # "none")
    => permit \/ notifies > 0

\* Fewer bumps than a u64 counts have been made of every epoch.
NoWrap == \A p \in Peer : slots[p].epoch < EpochLimit - 1

\* The dials of p whose result has not been applied: in a task, in the channel.
Dialed(p) == {k \in Permits : tasks[k] # NoTask /\ tasks[k].stage = "dialing" /\ tasks[k].peer = p}
Queued(p) == {i \in 1 .. Len(results) : results[i].peer = p}

\* No such dial is ahead of the slot, and a connected slot has left all behind.
Behind(p, e) == e < slots[p].epoch \/ (e = slots[p].epoch /\ ~Is(p, "connected"))

EpochsBehind ==
  \A p \in Peer \ removed :
    /\ \A k \in Dialed(p) : Behind(p, tasks[k].epoch)
    /\ \A i \in Queued(p) : Behind(p, results[i].epoch)

\* No two of them have the same epoch, so one result answers for the slot.
EpochsDistinct ==
  \A p \in Peer \ removed :
    /\ \A j, k \in Dialed(p) : tasks[j].epoch = tasks[k].epoch => j = k
    /\ \A k \in Dialed(p), i \in Queued(p) : tasks[k].epoch # results[i].epoch
    /\ \A i, j \in Queued(p) : results[i].epoch = results[j].epoch => i = j

SlotInv == AbsentClean /\ DueIsRetrying /\ InFlightIsReal /\ ExemptionUsedUp
============================================================================
