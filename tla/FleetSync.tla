----------------------------- MODULE FleetSync -----------------------------
(***************************************************************************)
(* Replication of one dataset over the owner's devices: each device runs a *)
(* FleetSyncEngine that publishes the root of its dataset under a hybrid   *)
(* logical clock stamp, admits sibling roots through a per-publisher       *)
(* watermark (ReplayTracker), merges what it fetches, and writes dataset   *)
(* and watermarks to two files.  Devices crash and restart from the files. *)
(*                                                                         *)
(* Source: src-tauri/crates/harmony-transport/src/fleet_sync.rs, with      *)
(* hlc_adopt_floor.rs, fleet_dataset_file.rs, the *_persist.rs writers and *)
(* the up-edge detection of event_loop.rs and peer_liveness.rs.            *)
(*                                                                         *)
(* A dataset is the set of operations merged into it and merge is union    *)
(* (every FleetSync dataset is a join-semilattice); a root frame carries   *)
(* the dataset it points to.  The wake-up machinery of the task is module  *)
(* FleetEngine: here a set dirty flag may be claimed at any time.          *)
(*                                                                         *)
(* Frames never leave the wire, so they can be delivered in any order,     *)
(* more than once, or never.  A push to a sibling whose link is up is also *)
(* due at it: what is due is delivered at last, unless the link or the     *)
(* sibling goes down first or the blob behind the root cannot be had.      *)
(***************************************************************************)
EXTENDS Naturals, FiniteSets

CONSTANTS
  Device,      \* the owner's devices
  Ops,         \* operations a user may perform on the dataset
  AdoptCap,    \* HLC_ADOPT_FORWARD_CAP_MS: how far a mint may lead the wall clock
  StartWalls,  \* wall clock readings the devices may start with
  Scenarios    \* each bounds how often each kind of event in Events happens

Events == {"mutate", "tick", "stepback", "linkdown", "flush", "serve", "save",
           "fail", "miss", "drop", "crash", "corrupt"}

ASSUME CapAssumption      == AdoptCap \in Nat
ASSUME WallAssumption     == StartWalls \subseteq Nat \ {0}
ASSUME ScenarioAssumption == Scenarios \subseteq [Events -> Nat]

VARIABLES
  up,       \* the device's process runs
  boot,     \* history: how many times it was started
  clock,    \* its wall clock
  floor,    \* HlcAdoptFloor of the session
  state,    \* the dataset in memory
  tracker,  \* ReplayTracker: own last stamp and the siblings' watermarks
  acks,     \* sibling_acks: what siblings say they have seen of us
  dirty,    \* has_pending_dirty
  pc,       \* where the engine task is
  mode,     \* publish (settle and persist after it) or serve (neither)
  claim,    \* the publish took the dirty signal
  snap,     \* state snapshot of encode_root_wire
  cur,      \* the frame in hand: being sealed or being applied
  job,      \* persists in progress, by who started them
  disk,     \* the dataset file and the replay file
  wire,     \* every frame ever handed to the network
  due,      \* pushed frames on their way to each device
  link,     \* the pairs of devices with a link between them
  known,    \* the siblings a device believes to be linked to
  unseen,   \* history: siblings whose link dropped while the device did not look
  late,     \* history: what it merged from sessions over by then, not offered since
  left      \* how many more events of each kind the scenario has

memVars  == <<floor, state, tracker, acks>>
taskVars == <<pc, mode, claim, snap, cur>>
gapVars  == <<known, unseen, late>>
netVars  == <<wire, due, link, gapVars>>
vars == <<up, boot, clock, memVars, dirty, taskVars, job, disk, netVars, left>>

Stamp    == Nat \X Nat
NoStamp  == <<0, 0>>             \* no entry in the tracker
NoTracks == [p \in Device |-> NoStamp]
Frame    == [from : Device, at : Stamp, content : SUBSET Ops,
             seen : [Device -> Stamp], boot : Nat]
Blank(d) == [from |-> d, at |-> NoStamp, content |-> {}, seen |-> NoTracks, boot |-> 0]
Actors   == {"task", "handle"}
Pairs    == {{d, e} : d, e \in Device} \ {{d} : d \in Device}
NoJob    == [stage |-> "idle", doc |-> {}, trk |-> NoTracks]

Spend(e) == left[e] > 0 /\ left' = [left EXCEPT ![e] = @ - 1]

\* Hlc order; the device id never decides between stamps of one publisher.
Newer(a, b) == a[1] > b[1] \/ (a[1] = b[1] /\ a[2] > b[2])

Larger(m, n)  == IF m >= n THEN m ELSE n
Smaller(m, n) == IF m <= n THEN m ELSE n

\* HlcAdoptFloor::merged_now: follow the fleet's clocks, but at most AdoptCap ahead.
MergedNow(d) == Larger(clock[d], Smaller(floor[d], clock[d] + AdoptCap))

\* Faulty variant: a stalled clock repeats the stamp.
NextStampStalls(prev, wall) == IF wall > prev[1] THEN <<wall, 0>> ELSE prev

\* HlcTick::next.
NextStamp(prev, wall) == IF wall > prev[1] THEN <<wall, 0>> ELSE <<prev[1], prev[2] + 1>>

\* compute_next_hlc on the device's own entry.
Mint(d) == NextStamp(tracker[d][d], MergedNow(d))
----------------------------------------------------------------------------
Init ==
  /\ up = [d \in Device |-> TRUE] /\ boot = [d \in Device |-> 0]
  /\ clock \in [Device -> StartWalls]
  /\ floor = [d \in Device |-> 0] /\ state = [d \in Device |-> {}]
  /\ tracker = [d \in Device |-> NoTracks] /\ acks = [d \in Device |-> NoTracks]
  /\ dirty = [d \in Device |-> FALSE]
  /\ pc = [d \in Device |-> "select"] /\ mode = [d \in Device |-> "publish"]
  /\ claim = [d \in Device |-> FALSE] /\ snap = [d \in Device |-> {}]
  /\ cur = [d \in Device |-> Blank(d)]
  /\ job = [d \in Device |-> [a \in Actors |-> NoJob]]
  /\ disk = [d \in Device |-> [doc |-> {}, replay |-> NoTracks]]
  /\ wire = {} /\ due = [d \in Device |-> {}] /\ link = Pairs
  /\ known = [d \in Device |-> Device \ {d}]
  /\ unseen = [d \in Device |-> {}] /\ late = [d \in Device |-> {}]
  /\ left \in Scenarios

(***************************************************************************)
(* The environment: wall clocks, links, and the users of the dataset.      *)
(***************************************************************************)
Tick(d) ==
  /\ Spend("tick")
  /\ clock' = [clock EXCEPT ![d] = @ + 1]
  /\ UNCHANGED <<up, boot, memVars, dirty, taskVars, job, disk, netVars>>

\* The system clock is corrected backwards.
StepBack(d) ==
  /\ Spend("stepback")
  /\ \E w \in 1..(clock[d] - 1) : clock' = [clock EXCEPT ![d] = w]
  /\ UNCHANGED <<up, boot, memVars, dirty, taskVars, job, disk, netVars>>

\* A mutation command: under the dataset lock, mint a stamp and apply; then
\* notify_dirty.  (That these are two steps matters to the wake-up machinery
\* only, and is modelled in FleetEngine.)
Mutate(d, o) ==
  /\ up[d] /\ o \notin state[d] /\ Spend("mutate")
  /\ state' = [state EXCEPT ![d] = @ \cup {o}]
  /\ tracker' = [tracker EXCEPT ![d][d] = Mint(d)]
  /\ dirty' = [dirty EXCEPT ![d] = TRUE]
  /\ UNCHANGED <<up, boot, clock, floor, acks, taskVars, job, disk, netVars>>

LinkUp(d, e) ==
  /\ up[d] /\ up[e] /\ {d, e} \in Pairs \ link
  /\ link' = link \cup {{d, e}}
  /\ UNCHANGED <<up, boot, clock, memVars, dirty, taskVars, job, disk, wire, due, gapVars, left>>

From(p) == {f \in wire : f.from = p}

LinkDown(d, e) ==
  /\ {d, e} \in link /\ Spend("linkdown")
  /\ link' = link \ {{d, e}}
  /\ due' = [due EXCEPT ![d] = @ \ From(e), ![e] = @ \ From(d)]
  /\ unseen' = [unseen EXCEPT ![d] = @ \cup {e}, ![e] = @ \cup {d}]
  /\ UNCHANGED <<up, boot, clock, memVars, dirty, taskVars, job, disk, wire, known, late>>

Linked(d) == {e \in Device : {d, e} \in link}

\* Faulty variant: the siblings ever seen are never forgotten.
NoticeLinksForever(d) ==
  /\ up[d] /\ Linked(d) # known[d]
  /\ dirty' = [dirty EXCEPT ![d] = @ \/ ~(Linked(d) \subseteq known[d])]
  /\ known' = [known EXCEPT ![d] = @ \cup Linked(d)]
  /\ unseen' = [unseen EXCEPT ![d] = @ \cap Linked(d)]
  /\ UNCHANGED <<up, boot, clock, memVars, taskVars, job, disk, wire, due, link, late, left>>

\* detect_up_edges and run_epoch_republish: a device looks at its links now and
\* then, and re-offers its root if one is up that was not when it last looked.  A
\* link that drops and returns between two looks is an up-edge to nobody.
NoticeLinks(d) ==
  /\ up[d] /\ Linked(d) # known[d]
  /\ dirty' = [dirty EXCEPT ![d] = @ \/ ~(Linked(d) \subseteq known[d])]
  /\ known' = [known EXCEPT ![d] = Linked(d)]
  /\ unseen' = [unseen EXCEPT ![d] = @ \cap Linked(d)]
  /\ UNCHANGED <<up, boot, clock, memVars, taskVars, job, disk, wire, due, link, late, left>>
----------------------------------------------------------------------------
(***************************************************************************)
(* Publishing: the arms claim the dirty flag and encode_root_wire clones   *)
(* the state under its lock; the store round trip that follows lets        *)
(* callers mutate before the frame's stamp is minted.                      *)
(***************************************************************************)
\* Faulty variant: publish the image last persisted instead of the state.
EncodeStale(d, m, c) ==
  /\ up[d] /\ pc[d] = "select"
  /\ pc' = [pc EXCEPT ![d] = "snapped"]
  /\ mode' = [mode EXCEPT ![d] = m] /\ claim' = [claim EXCEPT ![d] = c]
  /\ snap' = [snap EXCEPT ![d] = disk[d].doc]

Encode(d, m, c) ==
  /\ up[d] /\ pc[d] = "select"
  /\ pc' = [pc EXCEPT ![d] = "snapped"]
  /\ mode' = [mode EXCEPT ![d] = m] /\ claim' = [claim EXCEPT ![d] = c]
  /\ snap' = [snap EXCEPT ![d] = state[d]]

WakeArm(d) ==
  /\ dirty[d]
  /\ Encode(d, "publish", TRUE)
  /\ dirty' = [dirty EXCEPT ![d] = FALSE]
  /\ UNCHANGED <<up, boot, clock, memVars, cur, job, disk, netVars, left>>

FlushArm(d) ==
  /\ Spend("flush")
  /\ Encode(d, "publish", dirty[d])
  /\ dirty' = [dirty EXCEPT ![d] = FALSE]
  /\ UNCHANGED <<up, boot, clock, memVars, cur, job, disk, netVars>>

\* A sibling pulls the current root.
RootServeArm(d) ==
  /\ Spend("serve")
  /\ Encode(d, "serve", FALSE)
  /\ UNCHANGED <<up, boot, clock, memVars, dirty, cur, job, disk, netVars>>

\* What follows a publish attempt: publishing arms persist, serving returns.
PublishEnds(d) ==
  /\ up[d] /\ pc[d] = "snapped"
  /\ pc' = [pc EXCEPT ![d] = IF mode[d] = "publish" THEN "persist" ELSE "select"]
  /\ mode' = [mode EXCEPT ![d] = "publish"]
  /\ claim' = [claim EXCEPT ![d] = FALSE] /\ snap' = [snap EXCEPT ![d] = {}]

\* The frame: snapshot, fresh stamp, and the watermarks digested into `seen`.
RootFrame(d) ==
  [from |-> d, at |-> Mint(d), content |-> snap[d],
   seen |-> [tracker[d] EXCEPT ![d] = Mint(d)], boot |-> boot[d]]

\* A publish is pushed to the linked siblings; a serve answers a sibling that
\* may have given up waiting.
SendRoot(d) ==
  /\ PublishEnds(d)
  /\ tracker' = [tracker EXCEPT ![d][d] = Mint(d)]
  /\ wire' = wire \cup {RootFrame(d)}
  /\ due' = [e \in Device |-> due[e] \cup
               {f \in {RootFrame(d)} : mode[d] = "publish" /\ {d, e} \in link}]
  /\ unseen' = [unseen EXCEPT ![d] = IF mode[d] = "publish" THEN @ \ Linked(d) ELSE @]
  /\ late' = [late EXCEPT ![d] = IF mode[d] = "publish" THEN @ \ snap[d] ELSE @]
  /\ UNCHANGED <<up, boot, clock, floor, state, acks, dirty, cur, job, disk, link, known, left>>

\* put_serveable failed (nothing minted) or the publisher channel did (the
\* stamp is gone): settle_publish puts the claimed dirty signal back.
PublishFail(d) ==
  /\ PublishEnds(d)
  /\ Spend("fail")
  /\ tracker' \in {tracker, [tracker EXCEPT ![d][d] = Mint(d)]}
  /\ dirty' = [dirty EXCEPT ![d] = @ \/ claim[d]]
  /\ UNCHANGED <<up, boot, clock, floor, state, acks, cur, job, disk, netVars>>
----------------------------------------------------------------------------
(***************************************************************************)
(* Applying a sibling's root: handle_incoming_publish.                     *)
(***************************************************************************)
\* Faulty variant: only the wall part of the stamp is compared.
AdmitByWall(d, f) == f.from # d /\ f.at[1] > tracker[d][f.from][1]

\* ReplayTracker::admit: neither an echo nor a duplicate.
Admit(d, f) == f.from # d /\ Newer(f.at, tracker[d][f.from])

\* Faulty variant: the watermark advances before the apply.
ReceiveEager(d, f) ==
  /\ up[d] /\ pc[d] = "select" /\ Admit(d, f)
  /\ cur' = [cur EXCEPT ![d] = f]
  /\ tracker' = [tracker EXCEPT ![d][f.from] = f.at]
  /\ pc' = [pc EXCEPT ![d] = "admitted"]
  /\ due' = [due EXCEPT ![d] = @ \ {f}]
  /\ UNCHANGED <<up, boot, clock, floor, state, acks, dirty, mode, claim, snap, job,
                 disk, wire, link, gapVars, left>>

\* The read-only judgement takes a ticket.
Receive(d, f) ==
  /\ up[d] /\ pc[d] = "select" /\ Admit(d, f)
  /\ cur' = [cur EXCEPT ![d] = f]
  /\ pc' = [pc EXCEPT ![d] = "admitted"]
  /\ due' = [due EXCEPT ![d] = @ \ {f}]
  /\ UNCHANGED <<up, boot, clock, memVars, dirty, mode, claim, snap, job, disk, wire,
                 link, gapVars, left>>

\* An echo or a duplicate is consumed and changes nothing.
Refuse(d, f) ==
  /\ up[d] /\ pc[d] = "select" /\ ~Admit(d, f)
  /\ due' = [due EXCEPT ![d] = @ \ {f}]
  /\ UNCHANGED <<up, boot, clock, memVars, dirty, taskVars, job, disk, wire, link, gapVars, left>>

\* The ticket is dropped with the frame in hand.
GiveUp(d) ==
  /\ up[d] /\ pc[d] = "admitted"
  /\ cur' = [cur EXCEPT ![d] = Blank(d)]
  /\ pc' = [pc EXCEPT ![d] = "select"]
  /\ UNCHANGED <<up, boot, clock, memVars, dirty, mode, claim, snap, job, disk, wire, link,
                 gapVars>>

\* Faulty variant: the frame is gone by the time it is scheduled.
FetchMissBlank(d) ==
  /\ GiveUp(d) /\ Spend("miss")
  /\ due' = [due EXCEPT ![d] = @ \cup {Blank(d)}]

\* The blob is not to be had yet: a sleeper re-injects the frame later.
FetchMiss(d) ==
  /\ GiveUp(d) /\ Spend("miss")
  /\ due' = [due EXCEPT ![d] = @ \cup {cur[d]}]

\* Retries exhausted, no retry permit free, or a blob that does not decrypt
\* or decode.
DropRoot(d) ==
  /\ GiveUp(d) /\ Spend("drop")
  /\ UNCHANGED due

MergeRoot(d) ==
  /\ up[d] /\ pc[d] = "admitted"
  /\ state' = [state EXCEPT ![d] = @ \cup cur[d].content]
  /\ late' = [late EXCEPT ![d] = IF cur[d].boot < boot[cur[d].from]
                                THEN @ \cup (cur[d].content \ state[d]) ELSE @]
  /\ pc' = [pc EXCEPT ![d] = "merged"]
  /\ UNCHANGED <<up, boot, clock, floor, tracker, acks, dirty, mode, claim, snap, cur,
                 job, disk, wire, due, link, known, unseen, left>>

\* Advance the watermark, feed the adoption floor, record the sibling's ack.
CommitRoot(d) ==
  LET f == cur[d]
  IN  /\ up[d] /\ pc[d] = "merged"
      /\ tracker' = [tracker EXCEPT ![d][f.from] = IF Newer(f.at, @) THEN f.at ELSE @]
      /\ floor' = [floor EXCEPT ![d] = Larger(@, f.at[1] + 1)]
      /\ acks' = [acks EXCEPT ![d][f.from] = IF Newer(f.seen[d], @) THEN f.seen[d] ELSE @]
      /\ cur' = [cur EXCEPT ![d] = Blank(d)]
      /\ pc' = [pc EXCEPT ![d] = "persist"]
      /\ UNCHANGED <<up, boot, clock, state, dirty, mode, claim, snap, job, disk, netVars,
                     left>>
----------------------------------------------------------------------------
(***************************************************************************)
(* Persisting: persist_direct.  The sink is held from before the snapshot  *)
(* until the write ends; state and tracker are snapshotted under both      *)
(* locks; the writer replaces the dataset file, then the replay file.      *)
(***************************************************************************)
\* Faulty variant: no sink.
NoSink(d) == TRUE

SinkFree(d) == \A a \in Actors : job[d][a].stage = "idle"

Snapshotted(d, a) ==
  /\ up[d] /\ SinkFree(d) /\ job[d][a].stage = "idle"
  /\ job' = [job EXCEPT ![d][a] = [stage |-> "doc", doc |-> state[d], trk |-> tracker[d]]]

TaskPersist(d) ==
  /\ pc[d] = "persist"
  /\ Snapshotted(d, "task")
  /\ pc' = [pc EXCEPT ![d] = "saving"]
  /\ UNCHANGED <<up, boot, clock, memVars, dirty, mode, claim, snap, cur, disk, netVars, left>>

\* persist_now on the caller's stack.
HandlePersist(d) ==
  /\ Snapshotted(d, "handle")
  /\ Spend("save")
  /\ UNCHANGED <<up, boot, clock, memVars, dirty, taskVars, disk, netVars>>

WriteDoc(d, a) ==
  /\ up[d] /\ job[d][a].stage = "doc"
  /\ disk' = [disk EXCEPT ![d].doc = job[d][a].doc]
  /\ job' = [job EXCEPT ![d][a].stage = "replay"]
  /\ UNCHANGED <<up, boot, clock, memVars, dirty, taskVars, netVars, left>>

\* The persist is over: the task returns to its loop.
JobEnds(d, a) ==
  /\ job' = [job EXCEPT ![d][a] = NoJob]
  /\ pc' = [pc EXCEPT ![d] = IF a = "task" THEN "select" ELSE @]

WriteReplay(d, a) ==
  /\ up[d] /\ job[d][a].stage = "replay"
  /\ disk' = [disk EXCEPT ![d].replay = job[d][a].trk]
  /\ JobEnds(d, a)
  /\ UNCHANGED <<up, boot, clock, memVars, dirty, mode, claim, snap, cur, netVars, left>>

\* Either write fails: the file it was to replace stays as it was.
WriteFail(d, a) ==
  /\ up[d] /\ job[d][a].stage # "idle"
  /\ Spend("fail")
  /\ JobEnds(d, a)
  /\ UNCHANGED <<up, boot, clock, memVars, dirty, mode, claim, snap, cur, disk, netVars>>
----------------------------------------------------------------------------
(***************************************************************************)
(* Crash and restart.                                                      *)
(***************************************************************************)
Crash(d) ==
  /\ up[d] /\ Spend("crash")
  /\ up' = [up EXCEPT ![d] = FALSE]
  /\ dirty' = [dirty EXCEPT ![d] = FALSE]
  /\ pc' = [pc EXCEPT ![d] = "select"] /\ mode' = [mode EXCEPT ![d] = "publish"]
  /\ claim' = [claim EXCEPT ![d] = FALSE]
  /\ snap' = [snap EXCEPT ![d] = {}] /\ cur' = [cur EXCEPT ![d] = Blank(d)]
  /\ job' = [job EXCEPT ![d] = [a \in Actors |-> NoJob]]
  /\ floor' = [floor EXCEPT ![d] = 0] /\ acks' = [acks EXCEPT ![d] = NoTracks]
  /\ state' = [state EXCEPT ![d] = {}] /\ tracker' = [tracker EXCEPT ![d] = NoTracks]
  /\ due' = [due EXCEPT ![d] = {}] /\ link' = {l \in link : d \notin l}
  /\ known' = [known EXCEPT ![d] = {}]
  /\ unseen' = [e \in Device |-> IF e = d THEN {}
                                 ELSE unseen[e] \cup ({d} \cap Linked(e))]
  /\ late' = [late EXCEPT ![d] = {}]
  /\ UNCHANGED <<boot, clock, disk, wire>>

\* Load both files and start a session: empty floor, nothing dirty.  It
\* takes a while to start.
RestartFrom(d, files) ==
  /\ ~up[d]
  /\ up' = [up EXCEPT ![d] = TRUE] /\ boot' = [boot EXCEPT ![d] = @ + 1]
  /\ disk' = [disk EXCEPT ![d] = files]
  /\ state' = [state EXCEPT ![d] = files.doc]
  /\ tracker' = [tracker EXCEPT ![d] = files.replay]
  /\ clock' = [clock EXCEPT ![d] = @ + 1]
  /\ UNCHANGED <<floor, acks, dirty, taskVars, job, netVars>>

Restart(d) == RestartFrom(d, disk[d]) /\ UNCHANGED left

\* load_or_recover quarantines an unreadable file and starts from empty, the
\* dataset and the replay file each on its own.
RestartCorrupt(d) ==
  /\ Spend("corrupt")
  /\ \/ RestartFrom(d, [disk[d] EXCEPT !.doc = {}])
     \/ RestartFrom(d, [disk[d] EXCEPT !.replay = NoTracks])
----------------------------------------------------------------------------
\* What the engine task owes: its own steps, and reading what is due.
TaskStep(d) ==
  \/ WakeArm(d) \/ SendRoot(d)
  \/ \E f \in due[d] : Receive(d, f) \/ Refuse(d, f)
  \/ MergeRoot(d) \/ CommitRoot(d) \/ TaskPersist(d)

WriteStep(d) == \E a \in Actors : WriteDoc(d, a) \/ WriteReplay(d, a)

\* Frames from the past: duplicates, delayed pushes, answers to root pulls.
EnvStep(d) ==
  \/ Tick(d) \/ StepBack(d) \/ FlushArm(d) \/ RootServeArm(d) \/ HandlePersist(d)
  \/ \E o \in Ops : Mutate(d, o)
  \/ NoticeLinks(d) \/ \E e \in Device : LinkUp(d, e)
  \/ \E f \in wire : Receive(d, f)

Fault(d) ==
  \/ PublishFail(d) \/ FetchMiss(d) \/ DropRoot(d)
  \/ Crash(d) \/ Restart(d) \/ RestartCorrupt(d)
  \/ \E e \in Device : LinkDown(d, e)
  \/ \E a \in Actors : WriteFail(d, a)

Next == \E d \in Device : TaskStep(d) \/ WriteStep(d) \/ EnvStep(d) \/ Fault(d)

Spec == Init /\ [][Next]_vars

(***************************************************************************)
(* Fairness: a running engine task and its file writer make progress, and  *)
(* running devices are linked again at last (the reconnect supervisor) and *)
(* look at their links (the poll).                                         *)
(* Users, clocks, faults, restarts and late duplicates owe nothing.        *)
(***************************************************************************)
FairSpec ==
  /\ Spec
  /\ \A d \in Device : WF_vars(TaskStep(d)) /\ WF_vars(WriteStep(d))
  /\ \A d, e \in Device : WF_vars(LinkUp(d, e))
  /\ \A d \in Device : WF_vars(NoticeLinks(d))
----------------------------------------------------------------------------
(***************************************************************************)
(* Properties.                                                             *)
(***************************************************************************)
Job == [stage : {"idle", "doc", "replay"}, doc : SUBSET Ops, trk : [Device -> Stamp]]

MemOK ==
  /\ up \in [Device -> BOOLEAN] /\ boot \in [Device -> Nat] /\ clock \in [Device -> Nat \ {0}]
  /\ floor \in [Device -> Nat] /\ state \in [Device -> SUBSET Ops]
  /\ tracker \in [Device -> [Device -> Stamp]] /\ acks \in [Device -> [Device -> Stamp]]
  /\ dirty \in [Device -> BOOLEAN]

TaskOK ==
  /\ pc \in [Device -> {"select", "snapped", "admitted", "merged", "persist", "saving"}]
  /\ mode \in [Device -> {"publish", "serve"}] /\ claim \in [Device -> BOOLEAN]
  /\ snap \in [Device -> SUBSET Ops] /\ cur \in [Device -> Frame]

FilesOK ==
  /\ job \in [Device -> [Actors -> Job]]
  /\ disk \in [Device -> [doc : SUBSET Ops, replay : [Device -> Stamp]]]

NetOK ==
  /\ wire \in SUBSET Frame /\ due \in [Device -> SUBSET wire] /\ link \in SUBSET Pairs
  /\ left \in [Events -> Nat]

GapOK ==
  /\ known \in [Device -> SUBSET Device] /\ unseen \in [Device -> SUBSET Device]
  /\ late \in [Device -> SUBSET Ops]

\* Every engine's memory, files and frames are well typed; in particular no
\* frame is re-injected or delivered that was never sent.
TypeOK == MemOK /\ TaskOK /\ FilesOK /\ NetOK /\ GapOK

\* Dataset S holds what watermarks t of device d stand for: for every sibling
\* with a watermark there is a frame of it in W, at that stamp, contained in S.
Covers(W, S, t, d) ==
  \A p \in Device \ {d} : t[p] # NoStamp =>
    \E f \in W : f.from = p /\ f.at = t[p] /\ f.content \subseteq S

\* Apply-before-advance: a watermark never stands for a root that was not
\* merged, whatever was fetched, failed or retried in between.
WatermarkCovered == \A d \in Device : up[d] => Covers(wire, state[d], tracker[d], d)

\* The same for the files, at every instant a crash may strike: between the
\* two file writes, after a failed write, and with persists of the task and
\* of callers racing.  Otherwise a restarted device would refuse, as already
\* seen, a root it does not hold.
DiskCovered == \A d \in Device : Covers(wire, disk[d].doc, disk[d].replay, d)

\* The `seen` digest a root carries is honest: the dataset it points to
\* contains a frame for every stamp it acknowledges.
AckCarriesContent == \A f \in wire : Covers(wire, f.content, f.seen, f.from)

\* Within one session of a publisher later stamps carry larger datasets, and
\* equal stamps equal ones: what makes "not strictly newer" mean "nothing new".
SessionFramesGrow ==
  \A f, g \in wire :
    f.from = g.from /\ f.boot = g.boot /\ ~Newer(f.at, g.at) => f.content \subseteq g.content

\* A root refused as a duplicate holds nothing the device lacks, unless its
\* publisher has been restarted.
DuplicateMeansHeld ==
  \A d \in Device, f \in wire :
    up[d] /\ f.from # d /\ ~Admit(d, f) =>
      f.content \subseteq state[d] \/ \E g \in wire : g.from = f.from /\ g.boot # f.boot

\* The dataset file only grows, although the task and callers of persist_now
\* write it concurrently.
DiskNeverRegresses == [][\A d \in Device : disk[d].doc \subseteq disk'[d].doc]_vars

\* The dataset files, and the copies that were sent.
Stored == [d \in Device |-> disk[d].doc]
Sent   == {[from |-> f.from, session |-> f.boot, content |-> f.content] : f \in wire}

Replicated == INSTANCE ReplicatedSet
                WITH running <- up, session <- boot, live <- state, stored <- Stored, sent <- Sent

\* The fleet implements ReplicatedSet: although the task and callers snapshot,
\* publish and write concurrently, each file and each root is at the moment it is
\* written or sent a copy of the set the device holds then, and holds no less than
\* the one before it; and no operation appears that no user performed.
ReplicatesSet == Replicated!Spec

\* mint_next_hlc: "Build a strictly-newer HLC than the last one this
\* device published": a frame of a later session has the newer stamp.
StampsIncrease ==
  \A f, g \in wire : f.from = g.from /\ f.boot < g.boot => Newer(g.at, f.at)

\* synced_device_count: sibling q is counted by d.
Counted(d, q) ==
  /\ tracker[d][d] # NoStamp /\ acks[d][q] # NoStamp
  /\ ~Newer(tracker[d][d], acks[d][q])

\* A counted sibling that never restarted holds the counting device's dataset.
CountedMeansHeld ==
  \A d, q \in Device :
    up[d] /\ up[q] /\ d # q /\ boot[q] = 0 /\ Counted(d, q) => state[d] \subseteq state[q]

\* The running devices end up with the same dataset through failed publishes,
\* missed fetches, lost links, crashes and quarantined files.  Three gaps are the
\* code's own, and close with the device's next publish: a link of d that drops and
\* returns between two looks is not an up-edge (detect_up_edges), and what is lost
\* in between is not re-offered; what d merges late, from a session that is over,
\* is not offered back to its author, who may have lost it; and nothing is said
\* once a restarted publisher goes back behind a stamp of its own.
Converges ==
  \/ <>[](\A d, e \in Device :
            up[d] /\ up[e] /\ e \notin unseen[d] => state[d] \subseteq state[e] \cup late[d])
  \/ <>(~StampsIncrease)
----------------------------------------------------------------------------
(***************************************************************************)
(* The inductive invariant behind the safety properties.                   *)
(***************************************************************************)
Active(d, a) == job[d][a].stage # "idle"

\* One persist at a time, the task's exactly while the task waits for it, and
\* none on a device that is down.
JobInv ==
  \A d \in Device :
    /\ pc[d] = "saving" <=> Active(d, "task")
    /\ ~(Active(d, "task") /\ Active(d, "handle"))
    /\ ~up[d] => pc[d] = "select" /\ \A a \in Actors : ~Active(d, a)

\* The frame being applied came over the wire, and once merged it is in memory.
HandInv ==
  \A d \in Device :
    /\ pc[d] \in {"admitted", "merged"} => cur[d] \in wire
    /\ pc[d] = "merged" => cur[d].content \subseteq state[d]

\* Everything a running session has published is still in its memory, and in
\* the snapshot it is about to publish, under stamps it has not gone behind.
SessionInv ==
  /\ \A f \in wire :
       /\ f.boot <= boot[f.from] /\ f.at # NoStamp
       /\ f.boot = boot[f.from] /\ up[f.from] =>
            /\ f.content \subseteq state[f.from]
            /\ pc[f.from] = "snapped" => f.content \subseteq snap[f.from]
            /\ ~Newer(f.at, tracker[f.from][f.from])
  /\ \A d \in Device : pc[d] = "snapped" => snap[d] \subseteq state[d]

\* While no file is damaged: memory is ahead of the files, and a persist in
\* progress lies between them with content for each of its watermarks.
FileInv ==
  /\ left["corrupt"] = 0
  /\ \A d \in Device :
       /\ up[d] => disk[d].doc \subseteq state[d]
       /\ pc[d] = "snapped" => Covers(wire, snap[d], tracker[d], d)
       /\ \A a \in Actors : Active(d, a) =>
            /\ job[d][a].doc \subseteq state[d] /\ disk[d].doc \subseteq job[d][a].doc
            /\ job[d][a].stage = "replay" => disk[d].doc = job[d][a].doc
            /\ Covers(wire, job[d][a].doc, job[d][a].trk, d)

\* What ReplicatesSet needs besides, damaged files or not: a persist in progress
\* lies between the dataset file and the memory.
OrderInv ==
  \A d \in Device :
    /\ up[d] => disk[d].doc \subseteq state[d]
    /\ \A a \in Actors : Active(d, a) =>
         job[d][a].doc \subseteq state[d] /\ disk[d].doc \subseteq job[d][a].doc

\* No scenario damages a file.
NoCorruption == \A s \in Scenarios : s["corrupt"] = 0
============================================================================
