------------------------------ MODULE DmOutbox ------------------------------
(***************************************************************************)
(* The outbox of one device: messages wait in the owner-state CRDT until   *)
(* every recipient has them.  A timer tick collects what is due (phase A), *)
(* sends it without holding a lock (phase B) and hands the outcomes to a   *)
(* detached task (phase C), which keeps the backoff, expires old messages  *)
(* and deposits what could not be delivered with a butler or a relay.      *)
(* Meanwhile users send and delete, a sibling device works on the same     *)
(* messages and is merged with, the node is shut down, and it crashes.     *)
(*                                                                         *)
(* Source: src-tauri/crates/harmony-transport/src/dm_outbox.rs, with       *)
(* apply_outbox of owner_state_crdt.rs, the merge of owner_state_sync.rs   *)
(* and the shutdown handler of src-tauri/src/api/mod.rs.                   *)
(*                                                                         *)
(* Every message is for all of Peer.  The write-back of the owner state is *)
(* modules FleetEngine and FleetSync: here it is one step, possible while  *)
(* a save is due.  A tombstone is always newer than the message it stands  *)
(* for (delete mints it from created_at), so its stamp is not kept.        *)
(* Acknowledgements come from deposits and from the sibling: the tunnel    *)
(* refuses DmAck packets, so handle_ack is never reached.                  *)
(***************************************************************************)
EXTENDS Naturals, FiniteSets

CONSTANTS
  Msg,          \* outbox entries
  Invites,      \* those that carry an invitation and no message
  Peer,         \* the recipients' owners
  Slots,        \* permits of phase_c_inflight (DRAIN_PHASE_C_FENCE_CAPACITY)
  NoUnit,       \* no pair is being sent
  Expiry,       \* EXPIRATION_MS
  Stuck,        \* STUCK_THRESHOLD_MS
  BackoffBase,  \* BACKOFF_BASE_MS
  BackoffCap,   \* BACKOFF_CAP_MS
  MaxExponent,  \* BACKOFF_MAX_EXPONENT
  NoAckWindows, \* DEPOSIT_NOACK_WINDOWS
  Horizon,      \* how far the clock goes
  Scenarios     \* each bounds how often each kind of event in Events happens

Events == {"send", "invite", "delete", "merge", "sibling", "contend", "stop", "crash", "deposit"}
Pair   == Msg \X Peer

ASSUME InviteAssumption   == Invites \subseteq Msg
ASSUME PeerAssumption     == Peer # {}
ASSUME UnitAssumption     == NoUnit \notin Pair
ASSUME TimeAssumption     ==
  /\ {Expiry, Stuck, BackoffBase, BackoffCap, MaxExponent, NoAckWindows, Horizon} \subseteq Nat
  /\ Expiry > 0
ASSUME ScenarioAssumption == Scenarios \subseteq [Events -> Nat]

VARIABLES
  now,       \* the wall clock
  mem,       \* outbox and outbox_tombstones of the owner state in memory
  disk,      \* the same on disk
  sib,       \* the same at the sibling
  due,       \* the engine has a write of the owner state ahead
  inFlight,  \* pairs taken up by a tick
  tries,     \* AttemptState.failure_count; 0: no AttemptState
  last,      \* AttemptState.last_attempt_wall_ms
  tick,      \* the drain tick
  task,      \* the detached phase C tasks, by permit
  gate,      \* shutdown_gate
  stop,      \* where the shutdown handler is
  dropped,   \* history: pairs a tick gave up for want of a permit
  left       \* how many more events of each kind the scenario has

retryVars == <<inFlight, tries, last>>
stopVars  == <<gate, stop>>
vars == <<now, mem, disk, sib, due, retryVars, tick, task, stopVars, dropped, left>>

Spend(e) == left[e] > 0 /\ left' = [left EXCEPT ![e] = @ - 1]
----------------------------------------------------------------------------
(***************************************************************************)
(* The outbox CRDT.                                                        *)
(***************************************************************************)
Absent   == [st |-> "absent", got |-> {}, at |-> 0]
Replica0 == [box |-> [m \in Msg |-> Absent], tomb |-> {}]

\* OutboxEntry::compute_status.
ComputeStatus(got, isExpired) ==
  IF got = Peer THEN "complete"
  ELSE IF isExpired THEN "expired"
  ELSE IF got = {} THEN "pending" ELSE "partial"

Open(e)    == e.st \in {"pending", "partial"}
Present(e) == e.st # "absent"

\* The age of entry e at time t, saturating: a tick may be older than the entry.
Age(e, t) == IF t <= e.at THEN 0 ELSE t - e.at

\* Still to be delivered, by replica r.
Live(r, u) == Open(r.box[u[1]]) /\ u[2] \notin r.box[u[1]].got

\* Faulty variant: tombstones do not stop an insertion.
ApplyOutboxResurrects(mine, theirs, dead) ==
  IF ~Present(theirs) THEN mine
  ELSE LET got == mine.got \cup theirs.got
       IN [st |-> ComputeStatus(got, "expired" \in {mine.st, theirs.st}), got |-> got,
           at |-> theirs.at]

\* OwnerState::apply_outbox of a sibling's entry, where dead says that the key
\* has a tombstone.  An entry's envelope never changes.
ApplyOutbox(mine, theirs, dead) ==
  IF ~Present(theirs) \/ dead THEN mine
  ELSE LET got == mine.got \cup theirs.got
       IN [st |-> ComputeStatus(got, "expired" \in {mine.st, theirs.st}), got |-> got,
           at |-> theirs.at]

\* merge_remote_into_local: first the tombstones, which sweep the local outbox,
\* then the entries.
MergeReplica(mine, theirs) ==
  LET tomb == mine.tomb \cup theirs.tomb
      swept(m) == IF m \in theirs.tomb THEN Absent ELSE mine.box[m]
  IN [tomb |-> tomb,
      box  |-> [m \in Msg |-> ApplyOutbox(swept(m), theirs.box[m], m \in tomb)]]

\* Faulty variant: an acknowledgement reopens an expired entry.
AckedReopens(r, u) ==
  LET e == r.box[u[1]]  got == e.got \cup {u[2]}
  IN [r EXCEPT !.box[u[1]].got = got, !.box[u[1]].st = ComputeStatus(got, FALSE)]

\* Faulty variant: the status is not derived again.
AckedStale(r, u) == [r EXCEPT !.box[u[1]].got = @ \cup {u[2]}]

\* The entry part of mark_ack_delivered; expired stays expired unless all have it.
Acked(r, u) ==
  LET e == r.box[u[1]]  got == e.got \cup {u[2]}
  IN [r EXCEPT !.box[u[1]] = [st |-> ComputeStatus(got, e.st = "expired"), got |-> got, at |-> e.at]]

\* The replica part of delete_dm_outbox_entry.
Deletable(r, m) ==
  \/ r.box[m].st = "expired"
  \/ Open(r.box[m]) /\ Age(r.box[m], now) >= Stuck
Deleted(r, m) == [box |-> [r.box EXCEPT ![m] = Absent], tomb |-> r.tomb \cup {m}]

\* Step 3 of drain_phase_c: the expiration sweep, by the clock t.
Expirable(r, t)  == {m \in Msg : Open(r.box[m]) /\ Age(r.box[m], t) >= Expiry}
SweepNothing(r, t) == r
ExpireAt(r, t) ==
  [r EXCEPT !.box = [m \in Msg |-> IF m \in Expirable(r, t) THEN [@[m] EXCEPT !.st = "expired"]
                                   ELSE @[m]]]
----------------------------------------------------------------------------
NoTick == [pc |-> "idle", todo |-> {}, cur |-> NoUnit, sent |-> {}, skip |-> {}, at |-> 0]
NoTask == [stage |-> "free", sent |-> {}, skip |-> {}, at |-> 0, cand |-> {}]

Init ==
  /\ now = 0 /\ mem = Replica0 /\ disk = Replica0 /\ sib = Replica0 /\ due = FALSE
  /\ inFlight = {} /\ tries = [u \in Pair |-> 0] /\ last = [u \in Pair |-> 0]
  /\ tick = NoTick /\ task = [s \in Slots |-> NoTask]
  /\ gate = FALSE /\ stop = "run" /\ dropped = {}
  /\ left \in Scenarios

Clock ==
  /\ now < Horizon /\ now' = now + 1
  /\ UNCHANGED <<mem, disk, sib, due, retryVars, tick, task, stopVars, dropped, left>>
----------------------------------------------------------------------------
(***************************************************************************)
(* Commands.  Both hold a permit of the send fence, which refuses them     *)
(* once dm_send_stopping is set.                                           *)
(***************************************************************************)
Unused(m) == \A r \in {mem, disk, sib} : ~Present(r.box[m]) /\ m \notin r.tomb

\* send_dm, or the invite-only entry of create_dm_space: a fresh id; notify_dirty.
SendDm(m) ==
  /\ stop = "run" /\ Unused(m) /\ Spend(IF m \in Invites THEN "invite" ELSE "send")
  /\ mem' = [mem EXCEPT !.box[m] = [st |-> "pending", got |-> {}, at |-> now]]
  /\ due' = TRUE
  /\ UNCHANGED <<now, disk, sib, retryVars, tick, task, stopVars, dropped>>

\* delete_outbox_entry: what is complete, or open and not yet stuck, is refused.
DeleteDm(m) ==
  /\ stop = "run" /\ Deletable(mem, m) /\ Spend("delete")
  /\ mem' = Deleted(mem, m)
  /\ inFlight' = {u \in inFlight : u[1] # m}
  /\ tries' = [u \in Pair |-> IF u[1] = m THEN 0 ELSE tries[u]]
  /\ last' = [u \in Pair |-> IF u[1] = m THEN 0 ELSE last[u]]
  /\ due' = TRUE
  /\ UNCHANGED <<now, disk, sib, tick, task, stopVars, dropped>>
----------------------------------------------------------------------------
(***************************************************************************)
(* The owner-state engine and the sibling device.                          *)
(***************************************************************************)
Save ==
  /\ due
  /\ disk' = mem /\ due' = FALSE
  /\ UNCHANGED <<now, mem, sib, retryVars, tick, task, stopVars, dropped, left>>

\* A root of the sibling is merged, and saved afterwards.
MergeIn ==
  /\ Spend("merge")
  /\ mem' = MergeReplica(mem, sib) /\ due' = TRUE
  /\ UNCHANGED <<now, disk, sib, retryVars, tick, task, stopVars, dropped>>

\* Our root is merged by the sibling.
MergeOut ==
  /\ Spend("merge")
  /\ sib' = MergeReplica(sib, mem)
  /\ UNCHANGED <<now, mem, disk, due, retryVars, tick, task, stopVars, dropped>>

\* The sibling runs the same outbox over the same entries.
SiblingStep ==
  /\ Spend("sibling")
  /\ \/ \E u \in Pair : Present(sib.box[u[1]]) /\ sib' = Acked(sib, u)
     \/ sib' = ExpireAt(sib, now)
     \/ \E m \in Msg : Deletable(sib, m) /\ sib' = Deleted(sib, m)
  /\ UNCHANGED <<now, mem, disk, due, retryVars, tick, task, stopVars, dropped>>
----------------------------------------------------------------------------
(***************************************************************************)
(* drain_lifted.  Phase A, under both locks; a tick that cannot have them, *)
(* or finds the gate closed, does nothing.                                 *)
(***************************************************************************)
Least(a, b) == IF a <= b THEN a ELSE b

Delay(n) == Least(BackoffBase * 2^Least(n - 1, MaxExponent), BackoffCap)

IsDue(u, t) == tries[u] = 0 \/ t >= last[u] + Delay(tries[u])

\* Faulty variants of the filters of drain_phase_a.
OutstandingMarked(t) ==
  {u \in Pair : Live(mem, u) /\ Age(mem.box[u[1]], t) < Expiry /\ IsDue(u, t)}
OutstandingHasty(t) ==
  {u \in Pair \ inFlight : Live(mem, u) /\ Age(mem.box[u[1]], t) < Expiry}

\* What drain_phase_a takes up at time t.
Outstanding(t) ==
  {u \in Pair \ inFlight : Live(mem, u) /\ Age(mem.box[u[1]], t) < Expiry /\ IsDue(u, t)}

\* Retry state of an entry that is not open any more.
Leftover == {u \in Pair : ~Open(mem.box[u[1]]) /\ (u \in inFlight \/ tries[u] > 0)}

\* Faulty variant: the gate is not looked at.
TickStartUngated ==
  /\ tick.pc = "idle"
  /\ Outstanding(now) # {} \/ Expirable(mem, now) # {} \/ Leftover # {}
  /\ tick' = [NoTick EXCEPT !.pc = "sending", !.todo = Outstanding(now), !.at = now]
  /\ inFlight' = inFlight \cup Outstanding(now)
  /\ UNCHANGED <<now, mem, disk, sib, due, tries, last, task, stopVars, dropped, left>>

\* A tick with nothing to send, to expire or to clean up changes nothing and is
\* left out.
TickStart ==
  /\ tick.pc = "idle" /\ ~gate
  /\ Outstanding(now) # {} \/ Expirable(mem, now) # {} \/ Leftover # {}
  /\ tick' = [NoTick EXCEPT !.pc = "sending", !.todo = Outstanding(now), !.at = now]
  /\ inFlight' = inFlight \cup Outstanding(now)
  /\ UNCHANGED <<now, mem, disk, sib, due, tries, last, task, stopVars, dropped, left>>

\* Phase B: the liveness check before each send.
Recheck(u) ==
  /\ tick.pc = "sending" /\ tick.cur = NoUnit /\ u \in tick.todo
  /\ Live(mem, u) /\ u \in inFlight
  /\ tick' = [tick EXCEPT !.todo = @ \ {u}, !.cur = u]
  /\ UNCHANGED <<now, mem, disk, sib, due, retryVars, task, stopVars, dropped, left>>

\* The pair is no longer wanted, or a lock is taken: the send is skipped.
Skip(u) ==
  /\ tick.pc = "sending" /\ tick.cur = NoUnit /\ u \in tick.todo
  /\ \/ ~(Live(mem, u) /\ u \in inFlight) /\ UNCHANGED left
     \/ Spend("contend")
  /\ tick' = [tick EXCEPT !.todo = @ \ {u}, !.skip = @ \cup {u}]
  /\ UNCHANGED <<now, mem, disk, sib, due, retryVars, task, stopVars, dropped>>

Outcomes == {"ok", "transient", "nolive", "permanent"}

\* transport.send returns.
Sent(o) ==
  /\ tick.cur # NoUnit
  /\ tick' = [tick EXCEPT !.cur = NoUnit, !.sent = @ \cup {<<tick.cur, o>>}]
  /\ UNCHANGED <<now, mem, disk, sib, due, retryVars, task, stopVars, dropped, left>>

\* A waiting acquire_many holds back the permits that are free.
PermitFree(s) == task[s].stage = "free" /\ stop # "fencing"
TickOver == tick.pc = "sending" /\ tick.todo = {} /\ tick.cur = NoUnit

\* The tick has a permit: phase C is spawned.
Spawn(s) ==
  /\ TickOver /\ PermitFree(s)
  /\ task' = [task EXCEPT ![s] = [NoTask EXCEPT !.stage = "outcomes", !.sent = tick.sent,
                                                !.skip = tick.skip, !.at = tick.at]]
  /\ tick' = NoTick
  /\ UNCHANGED <<now, mem, disk, sib, due, retryVars, stopVars, dropped, left>>

SentPairs(h) == {x[1] : x \in h.sent}
TickHolds    == tick.todo \cup SentPairs(tick) \cup tick.skip \cup ({tick.cur} \ {NoUnit})

\* No permit: the tick returns without a phase C.
SkipPhaseC ==
  /\ TickOver /\ \A s \in Slots : ~PermitFree(s)
  /\ dropped' = dropped \cup (TickHolds \cap inFlight)
  /\ tick' = NoTick
  /\ UNCHANGED <<now, mem, disk, sib, due, retryVars, task, stopVars, left>>
----------------------------------------------------------------------------
(***************************************************************************)
(* drain_phase_c, under both locks.  Outcomes of pairs that are no longer  *)
(* open change nothing.  Retry state of entries that are not open is       *)
(* dropped.  An expired invitation is not reported: no notify_dirty.       *)
(***************************************************************************)
Bumped(h) == {u \in SentPairs(h) : Live(mem, u)}

\* Deposit candidates: nobody was reachable; or a failure with an attempt before
\* it; or NoAckWindows windows without an acknowledgement.
Candidates(h) ==
  {u \in Bumped(h) :
     \/ <<u, "nolive">> \in h.sent
     \/ <<u, "transient">> \in h.sent /\ tries[u] >= 1
     \/ <<u, "ok">> \in h.sent /\ tries[u] >= NoAckWindows}

\* Faulty variant: markers of skipped pairs stay.
ReleasedSent(h) == SentPairs(h)

\* The markers phase C clears for its tick.
Released(h) == SentPairs(h) \cup h.skip

\* Faulty variant: nothing is announced.
NothingReported(h) == {}

\* newly_expired.
Reported(h) == Expirable(mem, h.at) \ Invites

PhaseC(s) ==
  LET h == task[s]  after == ExpireAt(mem, h.at)
  IN /\ h.stage = "outcomes"
     /\ mem' = after
     /\ inFlight' = {u \in inFlight \ Released(h) : Open(after.box[u[1]])}
     /\ tries' = [u \in Pair |-> IF ~Open(after.box[u[1]]) THEN 0
                                 ELSE IF u \in Bumped(h) THEN tries[u] + 1 ELSE tries[u]]
     /\ last' = [u \in Pair |-> IF ~Open(after.box[u[1]]) THEN 0
                                ELSE IF u \in Bumped(h) THEN now ELSE last[u]]
     /\ due' = (due \/ Reported(h) # {})
     /\ task' = [task EXCEPT ![s] = [NoTask EXCEPT !.stage = "rungs", !.cand = Candidates(h)]]
     /\ UNCHANGED <<now, disk, sib, tick, stopVars, dropped, left>>

\* Neither the butler nor the relay acknowledges (or the packet cannot be built).
RungFails(s, u) ==
  /\ task[s].stage = "rungs" /\ u \in task[s].cand
  /\ task' = [task EXCEPT ![s].cand = @ \ {u}]
  /\ UNCHANGED <<now, mem, disk, sib, due, retryVars, tick, stopVars, dropped, left>>

\* The butler acknowledges, or else the relay: mark_ack_delivered under the
\* locks, and notify_dirty if that was news.
RungAcked(s, u) ==
  LET news == Present(mem.box[u[1]]) /\ u[2] \notin mem.box[u[1]].got
  IN /\ task[s].stage = "rungs" /\ u \in task[s].cand /\ Spend("deposit")
     /\ task' = [task EXCEPT ![s].cand = @ \ {u}]
     /\ mem' = IF news THEN Acked(mem, u) ELSE mem
     /\ inFlight' = IF news THEN inFlight \ {u} ELSE inFlight
     /\ tries' = IF news THEN [tries EXCEPT ![u] = 0] ELSE tries
     /\ last' = IF news THEN [last EXCEPT ![u] = 0] ELSE last
     /\ due' = (due \/ news)
     /\ UNCHANGED <<now, disk, sib, tick, stopVars, dropped>>

\* The task ends and returns its permit.
TaskEnd(s) ==
  /\ task[s].stage = "rungs" /\ task[s].cand = {}
  /\ task' = [task EXCEPT ![s] = NoTask]
  /\ UNCHANGED <<now, mem, disk, sib, due, retryVars, tick, stopVars, dropped, left>>
----------------------------------------------------------------------------
(***************************************************************************)
(* shutdown_handler: refuse commands, close the gate, wait for the tasks,  *)
(* save, acknowledge.  It gives up after five seconds and acknowledges     *)
(* anyway ("late").  The process then ends, now or later.                  *)
(***************************************************************************)
StopBegin ==
  /\ stop = "run" /\ Spend("stop")
  /\ stop' = "stopping"
  /\ UNCHANGED <<now, mem, disk, sib, due, retryVars, tick, task, gate, dropped>>

CloseGate ==
  /\ stop = "stopping"
  /\ gate' = TRUE /\ stop' = "fencing"
  /\ UNCHANGED <<now, mem, disk, sib, due, retryVars, tick, task, dropped, left>>

\* acquire_many of all permits, which are dropped at once.
FencePassed ==
  /\ stop = "fencing" /\ \A s \in Slots : task[s].stage = "free"
  /\ stop' = "saving"
  /\ UNCHANGED <<now, mem, disk, sib, due, retryVars, tick, task, gate, dropped, left>>

\* persist_now, and the 200.
SaveAndAck ==
  /\ stop = "saving"
  /\ disk' = mem /\ stop' = "acked"
  /\ UNCHANGED <<now, mem, sib, due, retryVars, tick, task, gate, dropped, left>>

StopTimesOut ==
  /\ stop \in {"stopping", "fencing", "saving"}
  /\ stop' = "late"
  /\ UNCHANGED <<now, mem, disk, sib, due, retryVars, tick, task, gate, dropped, left>>

\* The process dies, by a crash or because it was shut down, and starts again.
Restart ==
  /\ \/ stop \in {"acked", "late"} /\ UNCHANGED left
     \/ Spend("crash")
  /\ mem' = disk /\ due' = FALSE
  /\ inFlight' = {} /\ tries' = [u \in Pair |-> 0] /\ last' = [u \in Pair |-> 0]
  /\ tick' = NoTick /\ task' = [s \in Slots |-> NoTask]
  /\ gate' = FALSE /\ stop' = "run" /\ dropped' = {}
  /\ UNCHANGED <<now, disk, sib>>
----------------------------------------------------------------------------
TickNext ==
  \/ TickStart \/ SkipPhaseC
  \/ \E u \in Pair : Recheck(u) \/ Skip(u)
  \/ \E o \in Outcomes : Sent(o)
  \/ \E s \in Slots : Spawn(s)

TaskNext(s) ==
  \/ PhaseC(s) \/ TaskEnd(s)
  \/ \E u \in Pair : RungFails(s, u) \/ RungAcked(s, u)

StopNext == StopBegin \/ CloseGate \/ FencePassed \/ SaveAndAck \/ StopTimesOut \/ Restart

Next ==
  \/ Clock \/ Save \/ MergeIn \/ MergeOut \/ SiblingStep
  \/ \E m \in Msg : SendDm(m) \/ DeleteDm(m)
  \/ TickNext \/ StopNext
  \/ \E s \in Slots : TaskNext(s)

Spec == Init /\ [][Next]_vars

\* The clock goes on, the event loop ticks and finishes its ticks (sends have
\* timeouts), and tasks run to their end (deposits have deadlines).
Fairness ==
  /\ WF_vars(Clock) /\ WF_vars(TickNext)
  /\ \A s \in Slots : WF_vars(TaskNext(s))

FairSpec == Spec /\ Fairness
----------------------------------------------------------------------------
(***************************************************************************)
(* Properties.                                                             *)
(***************************************************************************)
\* An entry's status is the one its acknowledgements say.
Entry ==
  {Absent} \cup
  {e \in [st : {"pending", "partial", "complete", "expired"}, got : SUBSET Peer, at : Nat] :
     e.st = ComputeStatus(e.got, e.st = "expired")}
Replica == [box : [Msg -> Entry], tomb : SUBSET Msg]
Reports == SUBSET (Pair \X Outcomes)

\* Every variable has its type; in every replica (memory, disk, sibling) the
\* stored delivery_status is the one compute_status derives from delivered_to,
\* although acks, merges and the expiry sweep write it independently.
TypeOK ==
  /\ now \in Nat /\ {mem, disk, sib} \subseteq Replica /\ due \in BOOLEAN
  /\ inFlight \subseteq Pair /\ tries \in [Pair -> Nat] /\ last \in [Pair -> Nat]
  /\ tick \in [pc : {"idle", "sending"}, todo : SUBSET Pair, cur : Pair \cup {NoUnit},
               sent : Reports, skip : SUBSET Pair, at : Nat]
  /\ task \in [Slots -> [stage : {"free", "outcomes", "rungs"}, sent : Reports,
                         skip : SUBSET Pair, at : Nat, cand : SUBSET Pair]]
  /\ gate \in BOOLEAN
  /\ stop \in {"run", "stopping", "fencing", "saving", "acked", "late"}
  /\ dropped \subseteq Pair /\ left \in [Events -> Nat]

TaskHolds(s) == SentPairs(task[s]) \cup task[s].skip

\* A deleted message stays deleted: no replica has an entry and its tombstone,
\* whatever it merges (the tombstone gate of apply_outbox and the sweep of
\* merge_remote_into_local).
TombstonesHold == \A r \in {mem, disk, sib} : \A m \in r.tomb : ~Present(r.box[m])

\* No message is sent to a recipient by two ticks at a time: while a tick or its
\* phase C task has a pair in hand, no other one has it, and while the pair is
\* open it is marked in in_flight.
OneHolder ==
  /\ \A s \in Slots : TickHolds \cap TaskHolds(s) = {}
  /\ \A s, t \in Slots : s # t => TaskHolds(s) \cap TaskHolds(t) = {}
  /\ \A u \in Pair : Live(mem, u) /\ (u \in TickHolds \/ \E s \in Slots : u \in TaskHolds(s))
                     => u \in inFlight

\* Every in_flight marker belongs to a tick or a phase C task, or was left behind
\* by a tick that found no permit: only such a pair can be kept from being sent
\* again.
MarkersAccounted ==
  \A u \in inFlight : u \in TickHolds \cup dropped \/ \E s \in Slots : u \in TaskHolds(s)

\* What a tick is about to send is due: no attempt of the pair was recorded since
\* phase A looked at its backoff.
SendsAreDue ==
  \A u \in tick.todo \cup ({tick.cur} \ {NoUnit}) : Live(mem, u) => IsDue(u, tick.at)

\* What memory says and the disk does not is going to be written, with the one
\* exception of an expired invitation.
UnsavedIsOwed ==
  \/ due
  \/ /\ mem.tomb = disk.tomb
     /\ \A m \in Msg : \/ mem.box[m] = disk.box[m]
                       \/ m \in Invites /\ mem.box[m] = [disk.box[m] EXCEPT !.st = "expired"]

Busy(s) == task[s].stage # "free"

\* Once the shutdown has passed the fence, at most one tick or task is left that
\* can change the owner state behind the saved snapshot: the tick that had begun
\* when the gate was closed.
OneStraggler ==
  stop \in {"saving", "acked"} =>
    /\ \A s \in Slots : Busy(s) => tick.pc = "idle"
    /\ \A s, t \in Slots : Busy(s) /\ Busy(t) => s = t

\* The record of a message in replica r, as DmLifecycle sees it.
RecordIn(r, m) ==
  IF m \in r.tomb THEN [stage |-> "deleted", got |-> {}]
  ELSE [stage |-> IF Open(r.box[m]) THEN "open" ELSE r.box[m].st, got |-> r.box[m].got]

OnDisk == [m \in Msg |-> RecordIn(disk, m)]
Lifecycle == INSTANCE DmLifecycle WITH record <- OnDisk

\* Through crashes, merges and late acknowledgements the stored record of every
\* message only moves forward: the disk implements DmLifecycle.
DiskMovesForward == Lifecycle!Spec

\* The expiration sweep is the last resort: as long as the node is not shut down,
\* every message old enough to expire before the clock stops is completely
\* delivered, expired or deleted at last, lost markers or not.
EventuallySettled ==
  \A m \in Msg : Open(mem.box[m]) /\ mem.box[m].at + Expiry <= Horizon
                   ~> ~Open(mem.box[m]) \/ stop # "run"
----------------------------------------------------------------------------
(***************************************************************************)
(* The inductive invariant behind the safety properties.                   *)
(***************************************************************************)
\* Only a running tick and a task with outcomes have anything in hand.
Shape ==
  /\ tick.pc = "idle" => tick = NoTick
  /\ \A s \in Slots : task[s].stage # "outcomes" => task[s].sent = {} /\ task[s].skip = {}

\* Whatever is in hand belongs to an entry that exists or was deleted: an entry
\* that appears for the first time is in nobody's hands.
HeldKnown ==
  \A u \in Pair :
    \/ Present(mem.box[u[1]]) \/ u[1] \in mem.tomb
    \/ /\ u \notin TickHolds /\ u \notin inFlight
       /\ \A s \in Slots : u \notin TaskHolds(s)

\* The gate is closed before the fence is waited for.
GateClosed == stop \in {"fencing", "saving", "acked"} => gate

\* Memory is never behind the disk.
DiskBehind == \A m \in Msg : Lifecycle!Forward(RecordIn(disk, m), RecordIn(mem, m))

IInv == /\ TypeOK /\ TombstonesHold /\ Shape /\ HeldKnown /\ OneHolder /\ MarkersAccounted
        /\ SendsAreDue /\ UnsavedIsOwed /\ GateClosed /\ OneStraggler /\ DiskBehind
============================================================================
