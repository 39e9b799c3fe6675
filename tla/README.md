# Harmony client: TLA+ models and proofs

Models of the parts of the Harmony client whose correctness depends on
interleavings, failures and clocks: the replication of a user's data over the
user's own devices, the supervisor that keeps the device connected to its peers,
and the path of a direct message from the sender's outbox through a butler's inbox
to every device of the recipient. Modules are checked with TLC on small instances,
and their safety properties are proved with TLAPS for every value of their constants. Paths below are relative to the repository;
`transport/` is `src-tauri/crates/harmony-transport/src/`, `app/` is `src-tauri/src/`.

## 1. The system

Harmony is a peer-to-peer chat, community and file client: a Tauri application
with a Svelte frontend (`src/`) and a Rust node (`src-tauri/`) that also runs
headless. Nodes talk over zenoh sessions carried by iroh connections. There is no
server. What a user owns is replicated between the user's devices (the *fleet*),
what a community owns between its members, and what is sent to somebody offline
is held by the sender's devices, by a butler or by a community relay.

| Part | State | Operations | Hard behaviour | What makes it correct |
|---|---|---|---|---|
| FleetSync engine (`transport/fleet_sync.rs`) | dataset, dirty flag, Notify permit, debounce and retry schedules, persist sink | mutate + `notify_dirty`, `flush_now`, `persist_now`, `shutdown`, select! arms wake / flush / inbound / serve / shutdown | callers race the task between await points; publishes and writes fail; futures are cancelled | no announced mutation is forgotten, replies mean durable, the file never goes back |
| Fleet replication (`fleet_sync.rs`, `hlc_adopt_floor.rs`, `fleet_dataset_file.rs`, `*_persist.rs`) | dataset, replay watermarks, own stamp, sibling acks, adoption floor, two files | publish root, admit, fetch, merge, commit, serve root, persist, restart, quarantine | lost, repeated and reordered frames; crash between two files; clocks behind, ahead and stepped back | watermarks stand for merged content in memory, on disk and in what siblings are told; convergence |
| Reconnect supervisor (`transport/reconnect_supervisor.rs`) | slot per peer (Connected / Retrying / Dormant, epoch, in-flight flag, repair exemption), dirty set, sweep flag, permits | `kick`, `kick_sweep`, `mark_connected`, `mark_reachability_bridge`, `evict_peer`, parole, sweep, dispatch, results | results of voided dials, kicks around the sleep, eviction against re-announce, exhausted permits | no lost trigger, no stuck flag, Connected held, nobody forgotten |
| Connection registry, drop watchers, admission (`transport/zenoh_iroh_transport.rs`, `admission_oracle.rs`) | live connection per peer, ring admission | swap, watch, evict, zombie reconcile | two connections of a peer at once | one live connection, a drop is noticed |
| DM outbox (`transport/dm_outbox.rs`, `owner_state_crdt.rs`, `owner_state_sync.rs`) | entries and tombstones in the owner state, `in_flight`, `backoff`, phase C permits, shutdown gate | send, delete, drain tick (phases A, B, C), deposit rungs, merge, shutdown | state collected under a lock and used after it; detached tasks; a sibling with other news; shutdown against a tick | a message is sent by one tick at a time, moves forward only, and is settled at last |
| DM inbox and butler deposit (`transport/dm_inbox_crdt.rs`, `dm_inbox_ingest.rs`, `dm_inbox_persist.rs`, `iroh_butler_acceptor.rs`) | held entries, `ingested_by`, first-observed stamps, expiry tombstones, four files | accept, publish, merge, sweep, collect, persist, boot | torn writes, redelivery after a failed flush, old copies merged back, sweeps that only nudges start | acked means durable, expired stays expired, nothing collected before every device has it |
| Community relay hold (`app/community_relay*.rs`) | held entries of a community | hold, pull, collect | as the inbox | as the inbox |
| Community state (`app/community_state_sync.rs`, `community_membership.rs`) | signed log, materialised membership, segments | append, sync, materialise, invite, kick | concurrent admin actions, one-time tokens | same log, same membership; a token admits once |
| Channel log (`app/community_channel_log*.rs`, `channel_rbsr.rs`) | sealed segments, open tail | append, seal, range reconciliation, backfill | sealing against late entries | reconciliation ends with the union |
| Pairing, friends, voting, threshold signing, key epochs | two-sided session states | offers, confirmations, ballots | messages out of order, restarts | both sides agree or both give up |
| Node lifecycle, content store, headless API, identity, files, mail, mint, vines, voice, frontend | various | start/stop, I/O, UI | mostly I/O | listed in `PROJECT.json` with the reason they are left out |

How they interact: the event loop (`app/event_loop.rs`) starts one FleetSync
engine per dataset and wires its inbound frames; a transport up-edge calls every
engine's `republish_dirty`. The transport reports connections and drops to the
supervisor, the resolver reports records to it, membership evicts from it, and
the coverage repair of `community_gateway_dial_driver.rs` marks peers in it. The
supervisor's dials are what brings links up, which is the fairness assumption of
the replication model. The outbox lives in the owner state, one of the replicated
datasets; what it cannot deliver it deposits with a butler of the recipient, whose
dm-inbox is another one, and an acknowledged deposit counts as delivered. The inbox
model's promise for an acked deposit (`DurableCustody`, `AckedSurvivesCrash`,
`DeliveredEventually`) is what entitles the outbox model to that.

## 2. Modules

| Module | Models | Composed of |
|---|---|---|
| `FleetEngine` | one engine on one device: callers, task, persist sink | |
| `ReplicatedSet` | what a fleet makes of a dataset, in atomic steps | abstract |
| `FleetSync` | a fleet of devices replicating one dataset through files, frames and clocks | implements `ReplicatedSet`; abstracts `FleetEngine` to "a set dirty flag may be claimed" |
| `ReconnectSupervisor` | the supervisor loop, its handle and its dial tasks | |
| `DmLifecycle` | what an outbox promises about the record of a message | abstract |
| `DmOutbox` | the outbox of one device, with a sibling, a shutdown and crashes | implements `DmLifecycle` with what it has on disk |
| `DepositCustody` | what an owner's devices together promise the sender of a deposit | abstract |
| `DmInbox` | the dm-inbox of an owner's devices, the deposit acceptor and the sweepers | implements `DepositCustody` with what boots would find on the disks; abstracts `FleetEngine` to a publish and a persist step |
| `FleetEngineProofs`, `FleetSyncProofs`, `ReconnectSupervisorProofs`, `DmOutboxProofs`, `DmInboxProofs` | theorems and proofs | extend the module they are about |
| `MC*` | constants, scenarios and symmetry for TLC | extend the module they instantiate |

Definitions named *Faulty variant* next to an action are the mutants used to show
that a property can fail; no specification uses them.

### FleetEngine

State and code: `flag` is `has_pending_dirty`; `permit` and `woken` are the Notify
permit and the pinned `Notified` future that has consumed one; `latch` and `retry`
are `DebounceLatch` and `RetryBackoff` as armed or not; `pc`, `arm`, `took`, `snap`,
`ok` and `client` are the locals of `internal_task` across its await points; `job`
is the write each actor has handed to the persist sink. The dataset is the set of
writers whose mutation it contains, `sent` and `owed` are history.

Actions: `Mutate`, `SetDirty` and `NotifyOne` are the three separate steps of a
command that mutates and announces; `CallFlush`, `CallPersist` (with
`CancelPersist`, the caller's future dropped while the blocking write runs: the write
goes on and keeps the sink, whose guard moved into it),
`CallShutdown` are the handle; `PollNotified` and the `*Arm` actions are the
select! arms; `SnapshotRoot`, `PublishOk`, `PublishFail`, `Settle` are
`publish_root_now` and `settle_publish`; `TaskPersist` and `PersistDone` are
`persist_direct`. An armed timer may fire at any time.

### FleetSync and ReplicatedSet

A dataset is the set of operations merged into it and merge is union, which is
what the code requires of every FleetSync dataset; a frame carries the dataset its
root points to, its stamp and the `seen` digest. `tracker[d][d]` is the device's
own last stamp, `tracker[d][p]` the watermark of sibling `p`. Stamps are (wall,
counter) pairs in HLC order. `wire` keeps every frame ever sent, so any of them
may arrive at any time, again, or never; `due` holds the pushed frames that will
arrive unless link or device go down. `job` and `disk` split a persist into the
write of the dataset file and the write of the replay file, with a possible
failure or crash at each. `Restart` loads both files; `RestartCorrupt` quarantines
an unreadable dataset.

Actions follow the code's order: `Encode` (claim the flag, clone the state),
`SendRoot` (mint *after* the store round trip, push) or `PublishFail`; `Receive`
(read-only admission), `FetchMiss` (re-injected later), `DropRoot`, `MergeRoot`,
`CommitRoot` (watermark, adoption floor, ack); `TaskPersist`, `HandlePersist`,
`WriteDoc`, `WriteReplay`, `WriteFail`.

Links are noticed by looking. `LinkUp` and `LinkDown` change the link and tell nobody;
`NoticeLinks` is a poll (`detect_up_edges`, about every 5 s) with the re-offer it causes
(`run_epoch_republish`): `known[d]` is what device `d` saw last, a link is an up-edge if it
is up and was not in `known[d]`, and the new snapshot replaces the old. A link that drops
and returns between two polls is therefore an up-edge to neither end, as the comment at
`event_loop.rs:9031-9032` says, and frames pushed into the gap are lost until the next
publish. The event-driven source for iroh peers (`peer_liveness.rs`, `commit`) closes the
gap only for connections whose drop was seen before the new one came: a connection that
supersedes one still held as up is no up-edge there either. `NoticeLinks` stands for both
sources, and `unseen[d]` is history: the siblings whose link to `d` went down, with no look of `d`
since that found it down and no publish of `d` since that reached them.

`ReplicatedSet` is the same fleet with every operation atomic: a device performs an
operation, learns a copy that was sent, sends or saves what it holds at that moment.
The mapping takes memory, the dataset file (`Stored`) and the contents of the frames
(`Sent`); clones that are older than the send or the write they go into, watermarks,
stamps, retries and the replay file have no counterpart, so the refinement says that
none of them can be noticed.

### ReconnectSupervisor

`slots[p]` is the `PeerSlot`: state, due (its `next_at` has come), `flight`
(`dial_in_flight`), `epoch` (wraps at `EpochLimit`, 2^64 in the code), `exempt`
(`repair_exempt_since` within its window); `NoSlot` is a peer that has none. `evicted` and `removed` are history: the
peers that were evicted, and those whose slot was removed, by `evict_peer` or by a
`Dropped` without a record. `older` keeps the order of
`last_fresh_trigger` instants, all that parole uses of them. `calls` holds handle
calls that other threads are about to make and `notifies` the calls that have
released their lock and not reached `notify_one`; both arrive in any order.

The loop: `ParoleSnapshot` and `ParoleArm` (two lock holds of `run_parole`),
`Gather` (sweep gating, `do_sweep`, drain), `Apply` (`apply_trigger` for all drained
triggers, the due peers), then under the same lock `Park`, `Dial`, `Exhaust`,
`SoftFail` for each due peer, `DispatchEnds`, and the select! arms `TakeResult`,
`TakePermit`, `Deadline`. Dial tasks `Report` and then `Release` their permit, in
that order, as the code does. `Unlocked` keeps the handle out while the loop holds
the states lock. The resolver (`Learn`), membership (`Depart`), transport
(`Connect`, `Drop`) and coverage repair (`Repair`) are the environment; a
departure is two steps (records, then `evict_peer`) as in `app/lib.rs`.

### DmOutbox and DmLifecycle

A replica (`mem`, `disk`, `sib`) is an outbox and the set of its tombstones; an entry
is its status, who acknowledged it and when it was made. `inFlight`, `tries` and `last`
are `in_flight` and the two fields of `AttemptState`. `tick` holds the locals of
`drain_lifted` across its await points, `task[s]` the detached phase C task on permit
`s`. `due` says that the owner state's engine has a write ahead, which is what
`notify_dirty` means by the theorems about `FleetEngine`.

Actions: `SendDm`, `DeleteDm`; `TickStart` (phase A under both locks), `Recheck`, `Skip`
and `Sent` (phase B, pair by pair, unlocked), `Spawn` or `SkipPhaseC`; `PhaseC` (all of
`drain_phase_c` under the locks, then the notification), `RungAcked`, `RungFails`,
`TaskEnd`; `MergeIn`, `MergeOut` and `SiblingStep` for a second device over the same
entries; `StopBegin` ... `StopTimesOut` for `shutdown_handler`; `Save`; `Restart` for a
crash or the end of the process. Phase C uses two clocks, as the code does: the one of
its tick for expiry and the current one for backoff.

`DmLifecycle` keeps a record per message and lets it move forward only. The refinement
mapping reads the record off the disk (`OnDisk`): memory is what a crash may take, so
it is the stored record that must not go back.

### DmInbox and DepositCustody

`mem[d]` and `disk[d]` are `DmInboxDoc` with its two local maps, in memory and as files;
`pub[d]` is the document device `d` published last and `fresh[d]` whose it has not merged.
Clocks differ between devices: device `d` reads `now + Ahead[d]`, with `Ahead[d]` from 0 to
`Skew`, and `Lag` bounds how far a butler's clock is behind a sibling's. Stamps and
tombstones are compared only with the clock of the device that keeps them. The time of a
deposit is minted by the butler (`Minted`, `mint_hlc`: its clock, or what it adopted from a
sibling ahead of it) and travels with the entry; a device that lost its own stamp falls
back to it (`RestoreFirstObserved`), clamped to its own clock, as the code does.
`asked` and `task` are the acceptors waiting in `flush_now` and the engine task that
serves them; `nudge`, `sweeper` and `latch` are the level trigger, the sweeper and its
`sidecar_persist_pending`. `own` is the message store in the owner state, `unsaved` what
its engine may not have written.

Actions: `Deposit` (`persist_entry` up to its flush), `WakeArm`, `FlushArm`, `Merge`,
`TaskPersist` (with the ack and the nudge), `Sweep` (all of `ingest_pending`),
`SweeperPersist`, `Crash`, `Boot`, `Clock`. A persist that fails or is cut
by a crash has written the first `k` files in the code's order. A crashed device is down
until `Boot`, on the same day or any number of days later; while it is down `mem[d]` is what
it would find, and `Boot` reads the files again with the clock of that day. A crash that
also takes messages from the owner state is counted apart ("loss") from one that does not.

`DepositCustody` keeps, per device, the deposits it would still have after a restart.
The mapping (`Copies`) boots every device from its files as they are: a copy counts
when `Restored` gives it back. A device may drop a copy only of what is done, taken in
by every enrolled device or past its TTL; an acknowledgement names only what the
device keeps or what is done.

## 3. Runs

| Run | Instance | Shows |
|---|---|---|
| `engine_safety` | 3 callers, any mix of calls, any number of failures | `NoStrandedDirt`, `UnsentIsOwed`, `RetryOwesWork`, `RepliesAreDurable`, `ShutdownIsDurable`, `DiskNeverRegresses` |
| `engine_live` | 2 callers, a shutdown or none | `EventuallyPublished`, `CallsReturn` |
| `sync_safety` | 2 devices, 2 operations, one group of troubles per scenario | `WatermarkCovered`, `DiskCovered`, `AckCarriesContent`, `SessionFramesGrow`, `DuplicateMeansHeld`, the refinement `ReplicatesSet` |
| `sync_converges` | the same fleet with one trouble, links noticed by polls | `Converges` |
| `sync_stamps` | a crash with mints ahead of the clock | **violates** `StampsIncrease` |
| `sync_counted` | a mutation during a publish | **violates** `CountedMeansHeld` |
| `supervisor_safety` | 2 peers, 2 permits, six scenarios | `InFlightIsReal`, `ExemptionUsedUp`, `NoLostKick`, `StayersHaveSlots`, `ConnectedHeld` |
| `supervisor_live` | 2 peers, 1 permit, batch 1, parole for ever, one failure, one denial | `EventuallyDialed` |
| `supervisor_return` | 1 peer leaves and returns | **violates** `RecordHasSlot` |
| `outbox` | 1 message or invitation, 2 recipients, 1 permit, four scenarios | `TombstonesHold`, `OneHolder`, `MarkersAccounted`, `SendsAreDue`, `UnsavedIsOwed`, `OneStraggler`, the refinement `DiskMovesForward`, `EventuallySettled` |
| `inbox` | 2 devices, 1 butler with its clock ahead, 1 key, redelivery, six scenarios | `NoLiveTombstone`, `AckedSurvivesCrash`, `TtlNeverRestarts`, `ExpiryHolds`, the refinement `DurableCustody`, `DeliveredEventually` |
| `inbox_full` | 1 device, 3 keys, room for 2 | **violates** `CapIsTemporary` |

Every safety run also checks the module's `TypeOK`; the supervisor's includes that a peer
without a slot has no state a new slot would start from, and the inbox's that no stamp
outlives its entry. Each property's comment in
the module says what it means for the code.

**Bounds.** Three callers are enough for every pairing of flush, persist and
notify with a third one interfering; a caller makes one sequence of calls, and the
loop runs without limit. Two devices and two operations give a frame with and
without each operation in both directions and concurrent mutations; frames are
repeated and reordered without limit. Unbounded repetition is cut by *scenarios*:
functions from event kinds to how often they may happen, so that one run covers
several groups of troubles without their product. `EpochLimit` is 8 in the safety
run and 4 in the liveness run. Epochs wrap in both: a stale result clears the flag of a
newer dial, so two overlapping dials of a peer can void one another and bump the epoch
without end. That `ConnectedHeld` holds in the run all the same is a matter of the
instance (two permits, few failures); the theorem assumes `NoWrap`.
Two recipients make `partial` and `complete` differ, two ticks can overlap through one
detached task, and one permit makes exhaustion happen; the outbox clock runs to the
expiry, past the stuck threshold and the first backoff windows. One key is enough for
the inbox, since keys meet only at the caps (`inbox_full`); two deposits of it are a
redelivery. The butler's clock is one unit ahead (`Skew`, and the TTL, are 1): enough for a
restored stamp to come out later than the lost one. The scenarios combine a crash with a
failed write, so that a stamp is lost that was never saved; a crash with days that pass
before the device is started again; and failed writes with days past the TTL and the
retention of a tombstone. Deadlock checking is off: the systems may become idle, or run
out of events.

**Fairness.** Engine: the runtime runs what is runnable (weak); tokio's select!
picks among ready arms at random and tokio's mutex is a FIFO queue, so an arm that
keeps becoming ready is taken (strong); a transport does not refuse for ever
(strong on `PublishOk`). Replication: task and writer progress, and running devices
are linked again at last, which is what the supervisor is for, and a running device looks
at its links again and again (the poll is driven by the event loop's timer), at no
particular moment; users, clocks, faults and restarts owe nothing. Supervisor: handle calls, loop, dial tasks
(`dial_timeout`), the clock and parole (`parole_interval > 0`) progress; links and
membership owe nothing. Outbox: the clock, the event loop's ticks (sends time out) and
the tasks (deposits have deadlines) progress; saves, merges, users and the sibling owe
nothing. Inbox: engines and sweepers progress, which includes that siblings hear of one
another at last and that a device that is down is started again; days need not pass, except in `inbox_full`, where they do and nothing
helps.

**Findings.** Four places where a comment promises more than the code keeps; each
is a violation run with its counterexample.

* `sync_stamps`: "strictly-newer HLC than the last one this device published" holds
  within a session only. A crash between publish and persist, with mints led by
  the adoption floor, lets the next session publish an older stamp; siblings
  refuse its roots until the clock catches up.
* `sync_counted`: the count of siblings that "acknowledged our most-recent state"
  may include one that lacks a mutation made while the acknowledged frame was
  being encoded.
* `supervisor_return`: "a record-add always re-creates the slot" fails when the
  record is added between `remove_owner` and `evict_peer` of a departure: the
  eviction takes the new kick and slot with it.
* `inbox_full`: "the ingest sweep's GC removes entries once `ingested_by` covers the
  enrolled device set [...] or the TTL expires" holds while something starts a sweep. A
  deposit refused at the cap does not, so an inbox that filled up within one sweep
  debounce refuses every deposit until a sibling publishes or the process restarts.

Weaker than a comment, and stated as the property that does hold: `MarkersAccounted`
(a tick without a permit leaves its `in_flight` markers behind, although "the next tick
re-derives everything from state"), `OneStraggler` (one tick that was sending when the
gate closed may still spawn a task after the snapshot), `UnsavedIsOwed` (an expired
invitation is not announced to the engine). `DeliveredEventually` excludes deposits that
failed verification: they wait for a sweep that need not come. `DurableCustody` counts a
message that a crash took from the owner state before it was saved as received: the
signature may be saved before the message is.

`TtlNeverRestarts` is weaker than the comment on a missing stamp file, which says that the
deposit's time "can only shorten retention relative to the lost local stamps, never extend
it" (`dm_inbox_persist.rs:121-123`). The clamp compares that time with the clock at boot, not with the stamp that was lost: if the
butler's clock is ahead, and the device was down long enough for its own clock to pass the
deposit's time, the restored stamp is later. With the bound `Lead(d)` left out of the
property TLC finds it in the run's own instance. What holds, and is checked and proved, is
that the gain never exceeds the butler's lead, over any number of crashes.

`Converges` states three gaps of the replication, each of which closes with the next
publish: what is lost while a link drops and returns between two looks is not re-offered
(`unseen`); what a device merges late, from a session of its author that is over, is not
offered back to that author, who may have lost it (`late`); and nothing is claimed once a
restarted publisher has gone back behind a stamp of its own (`StampsIncrease`, the first
finding). Its mutant is the seen-set that never forgot, which ZEB-622 replaced.

`ConnectedHeld` is stated for peers whose slot was never removed. For the others TLC
shows, against "bumps the slot epoch so any in-flight dial's result is discarded rather
than overriding `Connected`" (`reconnect_supervisor.rs:398-400`), a dial that is out
while its slot is removed, a connection that makes a new slot with epochs from 0, and
the late failure that then matches and re-arms a connected peer. `evict_peer` is not
needed for it: the `Dropped` of a peer without a record removes the slot as well, so it
can happen before the eviction of a departure is made.

## 4. Theorems

All are checked by `tlapm` for every value of the constants under the named
assumptions of the modules (finite non-empty permits, positive batch, epoch limit
of at least 2, natural-number clocks and budgets, at least one recipient and one
device, a positive expiry and TTL, finitely many inbox keys, device clocks that differ by at
most `Skew` with no butler more than a TTL behind a sibling, and that the values for "none"
are none of the others).

**FleetEngineProofs**: `TypeCorrect`, `DirtNeverStranded`, `AnnouncedIsOwed`,
`RetryHasWork`, `DurableReplies`, `DurableShutdown`, `DiskMonotone`, for any set of
callers. The inductive invariant `IInv` adds to the properties what they lack: at
most one writer in the sink and its image between file and memory (`SinkInv`), which
arm is at which point (`ArmInv`), what a waiting caller can count on so far
(`CallerInv`), who will see the flag while an arm holds the claim (`WakeInv`), and
how far the shutdown flush is (`StopInv`).

**FleetSyncProofs**: `TypeCorrect`, `FramesGrow`, `WatermarksSound`, `FilesSound`,
`AcksSound`, `DuplicatesHeld`, `DiskMonotone` and `ImplementsReplicatedSet`, for any
fleet, operations, clocks, cap and scenarios. `JobInv` and `HandInv` say what the task and the sink hold,
`SessionInv` that a session never publishes less under a later stamp, `FileInv` that
file, persist in progress and memory are ordered and that each covers its own
watermarks. `WatermarksSound` to `DiskMonotone` assume `NoCorruption`: a quarantined dataset file next to a
surviving replay file really does leave watermarks without content, and the code
accepts that (the fleet re-offers); the run `sync_converges` includes it. The refinement
assumes nothing: the abstract start has the damaged file too, and `OrderInv`, the part of
`FileInv` that is about datasets alone, survives it. Each step of the mapping names the
abstract one: `SendRoot` is a send because the clone it carries is still within memory
and, by `SessionInv`, not less than what the session sent before; `WriteDoc` is a save
because file, snapshot and memory are ordered.

**ReconnectSupervisorProofs**: `TypeCorrect`, `InFlightSound`, `ExemptionsUsedUp`,
`KicksNotLost`, `RecordsHaveSlots`, for any peers, permits and batch, with wrapping
epochs, and `ConnectedIsHeld` under `NoWrap`. An absent slot leaves no remains (`AbsentClean`,
part of `TypeOK`: a result for a removed peer must not find a set flag); `SlotInv` adds that the dispatch pass only
visits scheduled slots (`DueIsRetrying`, which rests on the lock). `WakeOwed` extends
`NoLostKick` back to the drain. The actions are grouped by what they leave alone;
outside the dials every change of a slot is `Tame`. `ConnectedIsHeld` has an inductive
invariant of its own: of the dials of a peer whose result is not applied, in a task or
in the channel, none is ahead of the slot's epoch and none has the epoch of a connected
slot (`EpochsBehind`), and no two have the same (`EpochsDistinct`: otherwise the first
result would leave the second one matching). `NoWrap` says that no epoch has reached
its last value, 2^64 - 1 in the code; with enough outstanding dials and a wrap the
property is false.

**DmOutboxProofs**: `TypeCorrect`, `DeletedStaysDeleted`, `SingleHolder`,
`MarkersHaveOwners`, `BackoffHolds`, `ChangesAreOwed`, `AtMostOneStraggler`,
`ImplementsLifecycle` and `MergeIsJoin`, for any messages, recipients, permits and time constants; the run
has one permit, so that two phase C tasks at a time are the theorems' alone. `IInv` adds
`Shape` (only a running tick and a task with outcomes have anything in hand),
`HeldKnown` (an entry that appears for the first time, by a send or a merge, is in
nobody's hands: without it a merge could make a stale pair live and unmarked),
`GateClosed`, and `DiskBehind`, from which the refinement follows: a write moves every
record on disk to the one in memory, and that is a step forward. The claims about ticks,
tasks and markers are proved pair by pair (`Hand`): an action leaves the pair where it
is, or passes it on, or frees it. The claims about replicas rest on one lemma per
operation: acknowledgement, sweep, deletion and merge keep a replica good and only add.
`MergeIsJoin`: on what memory, disk and sibling can hold, `MergeReplica` is commutative,
idempotent and associative, tombstone sweep and recomputed status included. It needs the
invariant that copies of a message agree on when it was made (`OneEnvelope`), since a
merge keeps the local one.

**DmInboxProofs**: `TypeCorrect`, `NoLiveTombstones`, `AcksSurvive`, `TtlMonotone`,
`ExpiriesHold`, `GoneIsDone`, `ImplementsCustody`, `AcksAreKept`, `InboxMergeOrderFree`,
for any devices, butlers, keys, TTL, caps and clocks within the assumptions. `IInv` adds
where times come from (`SinceInv`, `TimeInv`: no stamp lies ahead of its device's clock, and
the time of a deposit is between the first deposit's and the fastest clock's, in memory, on
disk or in a published document), that a signature stands
for a message in the owner state wherever it is found (`SignInv`), what an acceptor that
still waits or has acked can count on (`WaitInv`, `HoldInv`, `AckInv`), that every stamp a
restart could fall back to, from the file or from the deposit, is within the butler's lead of
the first one (`TtlInv`), and that an
expiry within its retention is on disk and in memory (`GoneInv`). All but `AckInv` speak
of one key at one device, so each is shown to survive a persist, a boot, a merge, a
sweep, a deposit and a day as a relation between values. A crash is a persist cut short
after any file with a reload, and a boot a reload without a write: the proofs treat both as
one step (`Restarts`). `TtlMonotone` does not rest on a common clock: the deposit's time is
bounded from above only by the fastest clock when it was first accepted, and that is where
`Lead` comes from. `GoneIsDone` says that an acked deposit no device holds in
memory is done; `ImplementsCustody` says it of durable copies and of every device's
step, and `AcksAreKept` draws the conclusion: with all devices down at once, a butler's
write torn anywhere, an acked deposit is still on one of the disks until it is done. The
refinement rests on `CopyInv`: only what is done leaves memory before it leaves the disk,
and only what is done has an expiry tombstone. `InboxMergeOrderFree` is about the operator: at one
reading of the clock, the roots of two siblings merge into a device's document in either
order and any number of times with the same result, although entries are refused by
tombstones and tombstones are pruned by age on the way.

**Left to TLC**: liveness (`EventuallyPublished`, `CallsReturn`, `Converges`,
`EventuallyDialed`, `EventuallySettled`, `DeliveredEventually`), which needs fairness.
Every invariant and every safety property of the passing runs is stated by a theorem.

## 5. Abstractions and what is not modelled

* Cryptography, CBOR, envelopes and the content store: a frame that does not decode
  or a blob that cannot be had is a dropped or missed frame.
* Mergers: that each dataset's merge is a join is assumed in `FleetSync`. It is proved of
  the outbox (`MergeIsJoin`) and, within a reading of the clock, of the dm-inbox
  (`InboxMergeOrderFree`); the other datasets are taken on their word.
* Outbox: every message is for all recipients of the instance; destinations, packets and
  the outhold side-table are left out, as is the sender's own InboxEntry, which a delete
  removes without a tombstone. A deposit is not preceded by another liveness check, so a
  message can be deposited after it was deleted; the acknowledgement is then ignored.
* Inbox: clocks differ by a constant and do not go back, and run in days: what a running
  device does by itself, saving the owner state included, happens within the day (`Quiet`).
  `merge_from` also reports a change when only `invite_promoted` changed; the flag is not
  kept, so such a merge is no nudge here (`Changed`). The owner
  state's own replication of messages is left out, so `own` is what arrives through the
  inbox. The replay tracker among the files, and the watermarks it stands for, are
  `FleetSync`'s. The cap on tombstones is not reached.
* Engine: the degraded mode after the inbound channel closed, the keyless local-only
  mode, dropping an engine without shutdown, a second `shutdown` call, statistics;
  the cap on devices in the `seen` digest.
* Supervisor: lengths of rungs and jitter, ring markers and counters, the reserved
  per-peer `PresenceSweep` trigger, the self-dial guard, a node asserted by two
  owners. Hazards found while modelling that need the transport's registry are in
  `PROJECT.json` with a note or only here: the epoch of a re-created slot can repeat (section 3), a trigger
  already drained re-creates an evicted slot (harmless: no record, no dial), a stale
  result clears the flag of a newer dial, and the registry swap and
  `mark_connected` are two steps.
* Everything `PROJECT.json` lists as `not_modelled`, with its reason. The repository has
  close to half a million lines of Rust and TypeScript, most of them tests inside the
  source files, commands, views and cryptography; the modules cover the protocols whose
  order of events matters, a small share of the lines.

## 6. Plan

In this order; each step is a module, its runs and, where it has a safety core, its
proofs.

1. `FleetEngine`, `FleetSync` with its refinement of `ReplicatedSet`,
   `ReconnectSupervisor`, with proofs: done.
2. `DmOutbox` with its refinement of `DmLifecycle`, `DmInbox` with its refinement of
   `DepositCustody`, with proofs: done.
3. `PeerTransport`: connection registry, drop watchers and zombie reconcile, composed
   with the supervisor: a drop is always noticed at last, two dials of one peer leave
   one live connection. An abstract "link service" for both, and the fairness of
   `FleetSync`'s `LinkUp` as its promise.
4. The community relay hold, which shares the design of `DmInbox`.
5. `CommunitySync`: publish latch and retry, three-way persist, multi-writer watermarks;
   reuse of the `FleetSync` invariants.
6. `Membership`: materialisation of the signed log, order independence, one-time token
   fence; mergers of the owner state as pure operators with their semilattice laws.
7. `ChannelLog`: sealing, segments and range reconciliation against a reference union.
8. Pairing, voting log, relay watchdog, admission.
