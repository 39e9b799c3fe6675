---------------------------- MODULE FleetEngine ----------------------------
(***************************************************************************)
(* One FleetSyncEngine of one device: the threads that mutate the dataset  *)
(* and call the handle (notify_dirty, flush_now, persist_now, shutdown),   *)
(* the engine task's select! loop with its two wake-up schedules, and the  *)
(* persist sink they share.                                                *)
(*                                                                         *)
(* Source: src-tauri/crates/harmony-transport/src/fleet_sync.rs.           *)
(*                                                                         *)
(* The dataset is abstracted to the set of writers whose mutation it       *)
(* holds; timers are abstracted to "armed", and an armed timer may fire at *)
(* any time.  What the frames carry and how siblings apply them is module  *)
(* FleetSync.                                                              *)
(***************************************************************************)
EXTENDS Naturals, FiniteSets

CONSTANTS
  Writers,   \* threads using the engine handle; each makes one call sequence
  NoWriter   \* stands for "nobody" (the task serves no flush_now caller)

ASSUME WriterAssumption == NoWriter \notin Writers /\ "task" \notin Writers

VARIABLES
  wpc,      \* what each writer is doing
  state,    \* ctx.state: writers whose mutation is in memory
  disk,     \* writers whose mutation the last completed persist wrote
  sent,     \* history: writers whose mutation was in a frame handed to the publisher
  flag,     \* has_pending_dirty
  permit,   \* Notify holds a stored permit
  woken,    \* the pinned Notified future has consumed a permit
  latch,    \* DebounceLatch has a deadline
  retry,    \* RetryBackoff has a pending instant
  pc,       \* where the engine task is
  arm,      \* which select! arm it is executing
  took,     \* the claim: did this arm take the dirty signal
  snap,     \* state snapshot inside encode_root_wire
  ok,       \* result of this arm's publish
  client,   \* the flush_now caller being served
  job,      \* persist writes in progress, by the actor that started them
  stop,     \* shutdown: none, asked, ok, err
  owed      \* history: mutations already announced when shutdown was called

handleVars  == <<wpc, state>>
wakeVars    == <<flag, permit, woken, latch, retry>>
taskVars    == <<pc, arm, took, snap, ok, client>>
stopVars    == <<stop, owed>>
vars == <<handleVars, disk, sent, wakeVars, taskVars, job, stopVars>>

Actors == Writers \cup {"task"}
Idle   == [stage |-> "idle", image |-> {}]
----------------------------------------------------------------------------
Init ==
  /\ wpc = [w \in Writers |-> "idle"] /\ state = {} /\ disk = {} /\ sent = {}
  /\ flag = FALSE /\ permit = FALSE /\ woken = FALSE
  /\ latch = FALSE /\ retry = FALSE
  /\ pc = "select" /\ arm = "none" /\ took = FALSE /\ snap = {}
  /\ ok = TRUE /\ client = NoWriter
  /\ job = [a \in Actors |-> Idle]
  /\ stop = "none" /\ owed = {}

(***************************************************************************)
(* Callers of the handle.  A mutation and the call that announces it are   *)
(* separate steps: the ~144 mutation sites release the dataset lock first. *)
(***************************************************************************)
Goto(w, from, to) == wpc[w] = from /\ wpc' = [wpc EXCEPT ![w] = to]

Mutate(w) ==
  /\ Goto(w, "idle", "mutated")
  /\ state' = state \cup {w}
  /\ UNCHANGED <<disk, sent, wakeVars, taskVars, job, stopVars>>

\* republish_dirty: a transport up-edge announces dirt without a mutation.
Reoffer(w) ==
  /\ Goto(w, "idle", "mutated")
  /\ UNCHANGED <<state, disk, sent, wakeVars, taskVars, job, stopVars>>

\* notify_dirty, first half: store the flag ...
SetDirty(w) ==
  /\ \/ Goto(w, "mutated", "flagged")
     \/ Goto(w, "saved", "flagged")
     \/ Goto(w, "unsaved", "flagged")
  /\ flag' = TRUE
  /\ UNCHANGED <<state, disk, sent, permit, woken, latch, retry, taskVars, job, stopVars>>

\* ... second half: notify_one.
NotifyOne(w) ==
  /\ Goto(w, "flagged", "done")
  /\ permit' = TRUE
  /\ UNCHANGED <<state, disk, sent, flag, woken, latch, retry, taskVars, job, stopVars>>

\* flush_now: enqueue the request and wait for the reply.
CallFlush(w) ==
  /\ Goto(w, "mutated", "flushing")
  /\ UNCHANGED <<state, disk, sent, wakeVars, taskVars, job, stopVars>>

\* The task returned: the request, or its reply channel, is dropped.
FlushClosed(w) ==
  /\ pc = "stopped"
  /\ Goto(w, "flushing", "refused")
  /\ UNCHANGED <<state, disk, sent, wakeVars, taskVars, job, stopVars>>

\* shutdown: ask the task to flush and return.
CallShutdown ==
  /\ stop = "none"
  /\ stop' = "asked"
  /\ owed' = {w \in state : wpc[w] = "done"}
  /\ UNCHANGED <<handleVars, disk, sent, wakeVars, taskVars, job>>
----------------------------------------------------------------------------
(***************************************************************************)
(* persist_direct: take the sink, snapshot under it, write on a blocking   *)
(* thread that owns the guard.                                             *)
(***************************************************************************)
\* Faulty variant: persists do not wait for one another.
UnlockedSink == TRUE

SinkFree == \A a \in Actors : job[a].stage = "idle"

Snapshotted(a) == [job EXCEPT ![a] = [stage |-> "writing", image |-> state]]

\* The handle's persist_now runs on the caller's stack, beside the task.
CallPersist(w) ==
  /\ SinkFree
  /\ Goto(w, "mutated", "persisting")
  /\ job' = Snapshotted(w)
  /\ UNCHANGED <<state, disk, sent, wakeVars, taskVars, stopVars>>

\* The caller's timeout drops the future; the detached write keeps the sink.
CancelPersist(w) ==
  /\ Goto(w, "persisting", "unsaved")
  /\ UNCHANGED <<state, disk, sent, wakeVars, taskVars, job, stopVars>>

PersistDone(w) ==
  /\ job[w].stage = "writing"
  /\ job' = [job EXCEPT ![w] = Idle]
  /\ \/ /\ disk' = job[w].image
        /\ wpc' = [wpc EXCEPT ![w] = IF @ = "persisting" THEN "saved" ELSE @]
     \/ /\ disk' = disk
        /\ wpc' = [wpc EXCEPT ![w] = IF @ = "persisting" THEN "unsaved" ELSE @]
  /\ UNCHANGED <<state, sent, wakeVars, taskVars, stopVars>>
----------------------------------------------------------------------------
(***************************************************************************)
(* The engine task.                                                        *)
(***************************************************************************)
\* Faulty variant: a Notified future built inside the loop loses its permit
\* when another arm wins the pass.
PollNotifiedLossy ==
  /\ pc = "select" /\ permit /\ ~woken
  /\ permit' = FALSE
  /\ UNCHANGED <<handleVars, disk, sent, flag, woken, latch, retry, taskVars, job, stopVars>>

\* Every pass over select! polls the Notified future pinned outside the loop.
PollNotified ==
  /\ pc = "select" /\ permit /\ ~woken
  /\ permit' = FALSE /\ woken' = TRUE
  /\ UNCHANGED <<handleVars, disk, sent, flag, latch, retry, taskVars, job, stopVars>>

NotifiedArm ==
  /\ pc = "select" /\ woken
  /\ latch' = (latch \/ flag)
  /\ woken' = FALSE
  /\ UNCHANGED <<handleVars, disk, sent, flag, permit, retry, taskVars, job, stopVars>>

\* Enter a publishing arm: swap the dirty flag to FALSE and hold the claim.
Claim(a) ==
  /\ pc = "select"
  /\ pc' = "claimed" /\ arm' = a
  /\ took' = flag /\ flag' = FALSE

\* Either schedule is due; on_deadline disarms the debounce window.
WakeArm ==
  /\ latch \/ retry
  /\ Claim("wake")
  /\ latch' = FALSE
  /\ UNCHANGED <<handleVars, disk, sent, permit, woken, retry, snap, ok, client, job, stopVars>>

\* Faulty variant: the reply goes to the wrong party.
FlushArmMisrouted(w) ==
  /\ wpc[w] = "flushing"
  /\ Claim("flush")
  /\ client' = "task"
  /\ latch' \in {latch, FALSE}
  /\ UNCHANGED <<handleVars, disk, sent, permit, woken, retry, snap, ok, job, stopVars>>

\* flush_now always publishes.  Whether on_flush leaves an open debounce
\* window open is the external latch's business: both are allowed.
FlushArm(w) ==
  /\ wpc[w] = "flushing"
  /\ Claim("flush")
  /\ client' = w
  /\ latch' \in {latch, FALSE}
  /\ UNCHANGED <<handleVars, disk, sent, permit, woken, retry, snap, ok, job, stopVars>>

\* Faulty variant: shutdown only persists.
ShutdownArmUnpublished ==
  /\ pc = "select" /\ stop = "asked"
  /\ arm' = "shutdown" /\ took' = flag
  /\ pc' = "persist"
  /\ ok' = TRUE
  /\ UNCHANGED <<handleVars, disk, sent, wakeVars, snap, client, job, stopVars>>

\* shutdown loads the flag (no swap) and publishes only if it is set.
ShutdownArm ==
  /\ pc = "select" /\ stop = "asked"
  /\ arm' = "shutdown" /\ took' = flag
  /\ pc' = IF flag THEN "claimed" ELSE "persist"
  /\ ok' = TRUE
  /\ UNCHANGED <<handleVars, disk, sent, wakeVars, snap, client, job, stopVars>>

\* encode_root_wire: clone the state under its lock.
SnapshotRoot ==
  /\ pc = "claimed"
  /\ snap' = state
  /\ pc' = "snapped"
  /\ UNCHANGED <<handleVars, disk, sent, wakeVars, arm, took, ok, client, job, stopVars>>

\* Faulty variants: the flag is restored but no retry scheduled (the defect
\* ZEB-761 fixed); the dirty signal is lost with a failed publish; a retry is
\* scheduled for every failed publish, owed work or not.
SettleFlagOnly(success) ==
  /\ flag'  = (flag \/ (arm # "shutdown" /\ took /\ ~success))
  /\ retry' = IF arm # "shutdown" /\ success THEN FALSE ELSE retry

SettleLosesClaim(success) ==
  /\ flag'  = flag
  /\ retry' = IF arm # "shutdown" /\ success THEN FALSE ELSE retry

SettleAnyFailure(success) ==
  /\ flag'  = (flag \/ (arm # "shutdown" /\ took /\ ~success))
  /\ retry' = IF arm = "shutdown" THEN retry ELSE ~success

\* settle_publish.  The shutdown arm discards the claim's verdict.
Settle(success) ==
  LET restore == arm # "shutdown" /\ took /\ ~success
  IN  /\ flag'  = (flag \/ restore)
      /\ retry' = IF arm = "shutdown" THEN retry
                  ELSE IF success THEN FALSE ELSE (retry \/ restore)

PublishOk ==
  /\ pc = "snapped"
  /\ sent' = sent \cup snap
  /\ Settle(TRUE)
  /\ ok' = TRUE /\ pc' = "persist" /\ snap' = {}
  /\ UNCHANGED <<handleVars, disk, permit, woken, latch, arm, took, client, job, stopVars>>

\* put_serveable failed, or the publisher channel is closed.
PublishFail ==
  /\ pc = "snapped"
  /\ Settle(FALSE)
  /\ ok' = FALSE /\ pc' = "persist" /\ snap' = {}
  /\ UNCHANGED <<handleVars, disk, sent, permit, woken, latch, arm, took, client, job, stopVars>>

\* An inbound frame or a fetch retry occupies the loop; Applied is persisted.
InboundArm ==
  /\ pc = "select"
  /\ pc' = "inbound" /\ arm' = "inbound"
  /\ UNCHANGED <<handleVars, disk, sent, wakeVars, took, snap, ok, client, job, stopVars>>

InboundDone(applied) ==
  /\ pc = "inbound"
  /\ pc' = IF applied THEN "persist" ELSE "select"
  /\ arm' = IF applied THEN arm ELSE "none"
  /\ UNCHANGED <<handleVars, disk, sent, wakeVars, took, snap, ok, client, job, stopVars>>

\* A peer pulls the current root: encode and reply, nothing settled or saved.
RootServeArm ==
  /\ pc = "select"
  /\ pc' = "serving" /\ arm' = "serve"
  /\ UNCHANGED <<handleVars, disk, sent, wakeVars, took, snap, ok, client, job, stopVars>>

RootServeDone ==
  /\ pc = "serving"
  /\ pc' = "select" /\ arm' = "none"
  /\ UNCHANGED <<handleVars, disk, sent, wakeVars, took, snap, ok, client, job, stopVars>>

\* The persist that ends the wake, flush, shutdown and inbound arms.
TaskPersist ==
  /\ pc = "persist" /\ SinkFree
  /\ job' = Snapshotted("task")
  /\ pc' = "saving"
  /\ UNCHANGED <<handleVars, disk, sent, wakeVars, arm, took, snap, ok, client, stopVars>>

\* Faulty variants: Ok whatever the persist said; an error is not reported.
AnswerOk(good)     == "flushed"
AnswerOnlyOk(good) == IF good THEN "flushed" ELSE "flushing"

Answer(good) == IF good THEN "flushed" ELSE "refused"

\* End of the arm: reply pub_result.and(persist_result) to whoever waits.
TaskPersisted(saved) ==
  /\ pc = "saving"
  /\ job' = [job EXCEPT !["task"] = Idle]
  /\ disk' = IF saved THEN job["task"].image ELSE disk
  /\ wpc' = IF arm = "flush" THEN [wpc EXCEPT ![client] = Answer(ok /\ saved)] ELSE wpc
  /\ stop' = IF arm = "shutdown" THEN (IF ok /\ saved THEN "ok" ELSE "err") ELSE stop
  /\ pc' = IF arm = "shutdown" THEN "stopped" ELSE "select"
  /\ arm' = "none" /\ took' = FALSE /\ ok' = TRUE /\ client' = NoWriter
  /\ UNCHANGED <<state, sent, wakeVars, snap, owed>>
----------------------------------------------------------------------------
Writer(w) ==
  \/ Mutate(w) \/ Reoffer(w) \/ SetDirty(w) \/ NotifyOne(w)
  \/ CallFlush(w) \/ FlushClosed(w)
  \/ CallPersist(w) \/ CancelPersist(w) \/ PersistDone(w)

\* The steps inside an arm; the arms themselves.
ArmStep ==
  \/ SnapshotRoot \/ PublishOk \/ PublishFail
  \/ \E applied \in BOOLEAN : InboundDone(applied)
  \/ RootServeDone \/ TaskPersist
  \/ \E saved \in BOOLEAN : TaskPersisted(saved)

Task ==
  \/ PollNotified \/ NotifiedArm \/ WakeArm \/ ShutdownArm
  \/ \E w \in Writers : FlushArm(w)
  \/ InboundArm \/ RootServeArm
  \/ ArmStep

Next == CallShutdown \/ Task \/ \E w \in Writers : Writer(w)

Spec == Init /\ [][Next]_vars

(***************************************************************************)
(* Fairness.  The runtime keeps running whatever is runnable (weak); tokio *)
(* select! picks a ready arm at random, and a tokio Mutex is a FIFO queue, *)
(* so an arm or a lock wait that keeps becoming ready is taken (strong).   *)
(* PublishOk is strong: the transport does not refuse for ever.  Callers   *)
(* owe nothing but the second half of a notify_dirty they have entered.    *)
(***************************************************************************)
Fairness ==
  /\ \A w \in Writers : WF_vars(NotifyOne(w) \/ PersistDone(w) \/ FlushClosed(w))
  /\ SF_vars(ArmStep) /\ SF_vars(PublishOk)
  /\ SF_vars(PollNotified \/ NotifiedArm) /\ SF_vars(WakeArm) /\ SF_vars(ShutdownArm)
  /\ \A w \in Writers : SF_vars(FlushArm(w))

FairSpec == Spec /\ Fairness
----------------------------------------------------------------------------
(***************************************************************************)
(* Properties.                                                             *)
(***************************************************************************)
WriterPcs == {"idle", "mutated", "flagged", "done", "flushing", "flushed",
              "refused", "persisting", "saved", "unsaved"}
TaskPcs   == {"select", "claimed", "snapped", "persist", "saving", "inbound",
              "serving", "stopped"}
Arms      == {"none", "wake", "flush", "shutdown", "inbound", "serve"}

\* The engine's state is well typed: the flags of notify_dirty and the two
\* schedules are Booleans, snapshots and files hold sets of mutations.
TypeOK ==
  /\ wpc \in [Writers -> WriterPcs]
  /\ state \in SUBSET Writers /\ disk \in SUBSET Writers /\ sent \in SUBSET Writers
  /\ flag \in BOOLEAN /\ permit \in BOOLEAN /\ woken \in BOOLEAN
  /\ latch \in BOOLEAN /\ retry \in BOOLEAN
  /\ pc \in TaskPcs /\ arm \in Arms /\ took \in BOOLEAN /\ ok \in BOOLEAN
  /\ snap \in SUBSET Writers /\ client \in Writers \cup {NoWriter}
  /\ job \in [Actors -> [stage : {"idle", "writing"}, image : SUBSET Writers]]
  /\ stop \in {"none", "asked", "ok", "err"} /\ owed \in SUBSET Writers

\* ZEB-761: dirt is never stranded.  While the engine task runs, a set
\* has_pending_dirty comes with something that will make the task look at
\* it: a stored or consumed Notify permit, an open debounce window, a
\* scheduled retry, a notify_dirty about to call notify_one, or the shutdown
\* arm that is flushing it.
NoStrandedDirt ==
  flag /\ pc # "stopped" =>
    \/ permit \/ woken \/ latch \/ retry
    \/ \E w \in Writers : wpc[w] = "flagged"
    \/ arm = "shutdown"

\* The claim of the arm in progress still answers for mutation w: the
\* snapshot is not taken yet, or it has w in it.
Carried(w) == took /\ (pc = "claimed" \/ (pc = "snapped" /\ w \in snap))

\* No announced mutation is forgotten: one whose notify_dirty has returned
\* and that no sent frame carries is still owed by has_pending_dirty or by
\* the claim of the publish in progress.  Clearing the flag before the
\* snapshot (swap) and restoring it after a failed publish (settle_publish)
\* are what it rests on.
UnsentIsOwed ==
  pc # "stopped" =>
    \A w \in state \ sent : wpc[w] \in {"flagged", "done"} => flag \/ Carried(w)

\* A scheduled retry always has work behind it when the loop sleeps.  Were
\* it otherwise, a failing publish would settle Spent, leave the past
\* instant scheduled and spin the loop with nothing to send.
RetryOwesWork == pc = "select" /\ retry => flag

\* What a reply promises: persist_now returns Ok only with the caller's
\* mutation on disk; flush_now returns Ok only with it on disk and in a
\* frame handed to the publisher; and no later persist, by the task or by
\* another caller, takes it off the disk again.
RepliesAreDurable ==
  \A w \in state : /\ wpc[w] \in {"saved", "flushed"} => w \in disk
                   /\ wpc[w] = "flushed" => w \in sent

\* shutdown returns Ok only if every mutation announced before the call was
\* published and is on disk.
ShutdownIsDurable == stop = "ok" => owed \subseteq sent \cap disk

\* ZEB-710: the file never goes back to an older image, although the task
\* and the callers of persist_now write it concurrently.
DiskNeverRegresses == [][disk \subseteq disk']_vars

\* ZEB-761: at last every announced mutation is published, through any
\* number of failed publishes, without another mutation to wake the engine,
\* unless the engine is shut down.  (Each writer mutates once.)
EventuallyPublished ==
  <>[](\A w \in Writers : wpc[w] = "done" /\ w \in state => w \in sent \/ pc = "stopped")

\* flush_now always returns, and a requested shutdown completes, whatever
\* inbound, serve and persist work competes for the loop.  (Each writer calls
\* once, so at last nobody waits any more.)
CallsReturn == <>[](stop # "asked" /\ \A w \in Writers : wpc[w] # "flushing")
----------------------------------------------------------------------------
(***************************************************************************)
(* The inductive invariant behind the safety properties.                   *)
(***************************************************************************)
Writing(a) == job[a].stage = "writing"

\* At most one write at a time, the task's exactly while it waits for it,
\* and the image being written lies between the file and the memory.
SinkInv ==
  /\ \A a, b \in Actors : Writing(a) /\ Writing(b) => a = b
  /\ pc = "saving" <=> Writing("task")
  /\ \A a \in Actors : Writing(a) => disk \subseteq job[a].image /\ job[a].image \subseteq state
  /\ disk \subseteq state /\ sent \subseteq state /\ snap \subseteq state

\* Which arm the task can be in at which point.
ArmInv ==
  /\ pc \in {"select", "stopped"} => arm = "none"
  /\ pc \in {"claimed", "snapped"} => arm \in {"wake", "flush", "shutdown"}
  /\ pc \in {"persist", "saving"} => arm \in {"wake", "flush", "shutdown", "inbound"}
  /\ pc = "inbound" => arm = "inbound"
  /\ pc = "serving" => arm = "serve"
  /\ arm = "shutdown" => stop = "asked" /\ (took => flag)

\* What a caller waiting for persist_now or flush_now can count on so far.
CallerInv ==
  /\ \A w \in state : wpc[w] # "idle"
  /\ \A w \in state : wpc[w] = "persisting" => Writing(w) /\ w \in job[w].image
  /\ arm = "flush" => client \in Writers /\ wpc[client] = "flushing"
  /\ arm = "flush" /\ client \in state =>
       /\ pc = "snapped" => client \in snap
       /\ pc \in {"persist", "saving"} /\ ok => client \in sent
       /\ pc = "saving" => client \in job["task"].image

\* Who will see the dirty flag, and what stands behind a retry.
WakeInv ==
  /\ flag /\ pc \in {"claimed", "snapped"} /\ arm # "shutdown" =>
       permit \/ woken \/ latch \/ \E w \in Writers : wpc[w] = "flagged"
  /\ retry => flag \/ (took /\ pc \in {"claimed", "snapped"})

\* How far the shutdown flush has come.
StopInv ==
  /\ \A w \in owed : w \in state /\ wpc[w] = "done"
  /\ arm = "shutdown" =>
       /\ pc = "snapped" => owed \subseteq snap
       /\ pc \in {"persist", "saving"} /\ ok => owed \subseteq sent
       /\ pc = "saving" => owed \subseteq job["task"].image

IInv == /\ TypeOK /\ SinkInv /\ ArmInv /\ CallerInv /\ WakeInv /\ StopInv
        /\ NoStrandedDirt /\ UnsentIsOwed /\ RepliesAreDurable /\ ShutdownIsDurable
============================================================================
