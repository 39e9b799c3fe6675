------------------------------ MODULE DmInbox ------------------------------
(***************************************************************************)
(* The deposits an owner's devices keep for one another.  A device that is *)
(* a butler accepts a deposit from a sender, makes it durable and answers  *)
(* with an ack; the dm-inbox document replicates it to the owner's other   *)
(* devices; every device's sweeper takes it into its own message store,    *)
(* signs for it in ingested_by, and forgets deposits everybody signed for  *)
(* or whose time is up.  Writes are torn by crashes and failures, devices  *)
(* merge old copies, senders try again.                                    *)
(*                                                                         *)
(* Source: dm_inbox_crdt.rs, dm_inbox_ingest.rs, dm_inbox_persist.rs and   *)
(* persist_entry of iroh_butler_acceptor.rs, all under                     *)
(* src-tauri/crates/harmony-transport/src, with the boot sequence and the  *)
(* merger of src-tauri/src/lib.rs.                                         *)
(*                                                                         *)
(* The engine behind the document is module FleetEngine: here it has one   *)
(* step to publish and one per file to write, and siblings merge the last  *)
(* document it published.  A deposit stands for any kind (message,         *)
(* invitation, revocation, grant): each is applied, then signed.  The      *)
(* tombstones' own cap, four inboxes, is not reached.                      *)
(*                                                                         *)
(* Clocks differ: device d reads now + Ahead[d], and none goes back.  The  *)
(* times a device keeps to itself (stamps, tombstones) are only compared   *)
(* with its own clock, and are written here without Ahead[d].  The time of *)
(* a deposit is the one that travels: it is written as the butler minted   *)
(* it, and a device that reads it subtracts its own Ahead[d].              *)
(***************************************************************************)
EXTENDS Integers, FiniteSets

CONSTANTS
  Dev,        \* the owner's enrolled devices
  Butlers,    \* those that senders are told to deposit with
  Msg,        \* deposit keys
  Sender,     \* [Msg -> senders]
  None,       \* no entry, no stamp
  TTL,        \* INBOX_TTL_MS
  Ahead,      \* how far the clock of each device is ahead of the slowest one
  Skew,       \* the most it can be
  Lag,        \* how far the clock of a butler can be behind another device's
  SenderCap,  \* INBOX_PER_SENDER_CAP
  GlobalCap,  \* INBOX_GLOBAL_CAP
  Scenarios   \* each bounds how often each kind of event in Events happens

Events == {"day", "deposit", "crash", "loss", "refuse", "diskfail", "reject"}

\* INBOX_TOMBSTONE_RETENTION_MS.
Retention == 2 * TTL

ASSUME DevAssumption      == Dev # {} /\ Butlers \subseteq Dev /\ IsFiniteSet(Msg)
ASSUME NoneAssumption     ==
  None \notin Int /\ None \notin Msg /\ None \notin [ig : SUBSET Dev, dep : Nat]
ASSUME TimeAssumption     == TTL \in Nat \ {0}
ASSUME ClockAssumption    ==
  /\ Skew \in Nat /\ Lag \in 0..TTL /\ Ahead \in [Dev -> 0..Skew]
  /\ \A b \in Butlers, d \in Dev : Ahead[d] <= Ahead[b] + Lag
ASSUME CapAssumption      == SenderCap \in Nat /\ GlobalCap \in Nat
ASSUME ScenarioAssumption == Scenarios \subseteq [Events -> Nat]

VARIABLES
  now,      \* the slowest wall clock
  mem,      \* DmInboxDoc of each device; what it would find, while it is down
  disk,     \* its files: expired, doc, first_observed
  pub,      \* the document each device published last
  fresh,    \* whose last document a device has not merged yet
  dirty,    \* the engine's dirty flag
  asked,    \* deposits that wait for their flush_now
  task,     \* the engine task and the deposit it works for, or down
  nudge,    \* the sweeper's level trigger
  sweeper,  \* the sweeper: waiting for a nudge, or for its persist_now
  latch,    \* sidecar_persist_pending
  own,      \* messages in the owner state of each device
  unsaved,  \* those of them the owner state's engine may not have saved yet
  acked,    \* history: deposits a sender got an ack for
  since,    \* history: when a deposit was accepted first
  holds,    \* history: acked by this device and not removed by it since
  stamped,  \* history: the first stamp of an entry, while it is held
  gone,     \* history: expiries that reached the disk
  lost,     \* history: messages a crash took from the owner state
  failed,   \* history: deposits that did not verify at some time
  left      \* how many more events of each kind the scenario has

engineVars  == <<pub, fresh, dirty, asked, task>>
sweepVars   == <<nudge, sweeper, latch>>
ownVars     == <<own, unsaved, lost, failed>>
ackVars     == <<acked, since, holds>>
historyVars == <<stamped, gone>>
vars == <<now, mem, disk, engineVars, sweepVars, ownVars, ackVars, historyVars, left>>

Spend(e) == left[e] > 0 /\ left' = [left EXCEPT ![e] = @ - 1]
----------------------------------------------------------------------------
(***************************************************************************)
(* DmInboxDoc: entries, the local first_observed_ms and expired_at_ms.     *)
(***************************************************************************)
Nothing == [m \in Msg |-> None]
Empty   == [box |-> Nothing, seen |-> Nothing, tomb |-> Nothing]

Held(doc) == {m \in Msg : doc.box[m] # None}

Least(a, b) == IF a <= b THEN a ELSE b

\* prune_tombstones: by age.
Prune(tomb, t) == [m \in Msg |-> IF tomb[m] # None /\ t - tomb[m] < Retention THEN tomb[m]
                                 ELSE None]

\* merge_from: insert once unless suppressed by a tombstone, union of
\* ingested_by, earliest deposit.  The merger prunes the tombstones first.
MergeFrom(doc, remote, t) ==
  LET tomb == Prune(doc.tomb, t)
      merged(l, r) == [ig |-> l.ig \cup r.ig, dep |-> Least(l.dep, r.dep)]
  IN [box  |-> [m \in Msg |->
                  IF remote[m] = None THEN doc.box[m]
                  ELSE IF doc.box[m] # None THEN merged(doc.box[m], remote[m])
                  ELSE IF tomb[m] # None THEN None ELSE remote[m]],
      seen |-> doc.seen, tomb |-> tomb]

\* merge_from's changed: a new entry, or somebody signed.
Changed(doc, after) ==
  \E m \in Held(after) : doc.box[m] = None \/ doc.box[m].ig # after.box[m].ig

\* gc_expired: stamp what has no stamp; remove what is covered or too old, the
\* latter with a tombstone; drop old tombstones and the stamps of what is gone.
Stamps(doc, t)  == [m \in Msg |-> IF doc.box[m] # None /\ doc.seen[m] = None THEN t
                                  ELSE doc.seen[m]]
Overdue(doc, t) == {m \in Held(doc) : Stamps(doc, t)[m] + TTL < t}

\* Faulty variant: stamps of removed entries stay.
GcExpiredKeepsStamps(doc, covered, t) ==
  LET dead == covered \cup Overdue(doc, t)
  IN [box  |-> [m \in Msg |-> IF m \in dead THEN None ELSE doc.box[m]],
      seen |-> Stamps(doc, t),
      tomb |-> Prune([m \in Msg |-> IF m \in Overdue(doc, t) \ covered THEN t ELSE doc.tomb[m]], t)]

GcExpired(doc, covered, t) ==
  LET dead == covered \cup Overdue(doc, t)
  IN [box  |-> [m \in Msg |-> IF m \in dead THEN None ELSE doc.box[m]],
      seen |-> [m \in Msg |-> IF m \in Held(doc) \ dead THEN Stamps(doc, t)[m] ELSE None],
      tomb |-> Prune([m \in Msg |-> IF m \in Overdue(doc, t) \ covered THEN t ELSE doc.tomb[m]], t)]

\* restore_expired: a tombstone that is not too old wins over a stale doc file.
RestoreExpired(files, t) ==
  LET tomb == Prune([m \in Msg |-> IF files.tomb[m] = None THEN None
                                   ELSE Least(files.tomb[m], t)], t)
  IN [files EXCEPT !.tomb = tomb,
                   !.box  = [m \in Msg |-> IF tomb[m] # None THEN None ELSE @[m]]]

\* Faulty variant: an entry without a stamp is left to the next sweep.
RestoreFirstObservedLazily(doc, d, t) ==
  [doc EXCEPT !.seen = [m \in Msg |-> IF doc.box[m] = None THEN None ELSE @[m]]]

\* restore_first_observed: no stamps without an entry; an entry without a stamp
\* takes the one of its deposit, the butler's, at its word; none is later than now.
RestoreFirstObserved(doc, d, t) ==
  [doc EXCEPT !.seen = [m \in Msg |-> IF doc.box[m] = None THEN None
                                      ELSE IF @[m] # None THEN Least(@[m], t)
                                      ELSE Least(doc.box[m].dep - Ahead[d], t)]]

\* The boot sequence of device d.
Restored(files, d, t) == RestoreFirstObserved(RestoreExpired(files, t), d, t)
----------------------------------------------------------------------------
Select  == [pc |-> "select", ok |-> TRUE, by |-> None]
Down    == [Select EXCEPT !.pc = "down"]

Init ==
  /\ now = 0
  /\ mem = [d \in Dev |-> Empty] /\ disk = [d \in Dev |-> Empty]
  /\ pub = [d \in Dev |-> Nothing] /\ fresh = [d \in Dev |-> {}]
  /\ dirty = [d \in Dev |-> FALSE] /\ asked = [d \in Dev |-> {}]
  /\ task = [d \in Dev |-> Select]
  /\ nudge = [d \in Dev |-> FALSE] /\ sweeper = [d \in Dev |-> "waiting"]
  /\ latch = [d \in Dev |-> FALSE]
  /\ own = [d \in Dev |-> {}] /\ unsaved = [d \in Dev |-> {}] /\ lost = [d \in Dev |-> {}]
  /\ failed = {}
  /\ acked = {} /\ since = Nothing /\ holds = [d \in Dev |-> {}]
  /\ stamped = [d \in Dev |-> Nothing] /\ gone = [d \in Dev |-> Nothing]
  /\ left \in Scenarios

\* Device d has nothing to do by itself, or is down.
Quiet(d) == \/ task[d] = Down
            \/ /\ task[d].pc = "select" /\ ~dirty[d] /\ asked[d] = {}
               /\ sweeper[d] = "waiting" /\ ~nudge[d]

\* A unit of the clock is days: what a device does by itself does not take as
\* long (to save its owner state neither); to hear from a sibling, or to be started
\* again, can.  Time before the first deposit is left out.
Clock ==
  /\ Spend("day") /\ now' = now + 1
  /\ since # Nothing /\ \A d \in Dev : Quiet(d)
  /\ unsaved' = [d \in Dev |-> {}]
  /\ UNCHANGED <<mem, disk, engineVars, sweepVars, own, lost, failed, ackVars, historyVars>>
----------------------------------------------------------------------------
(***************************************************************************)
(* The deposit acceptor: persist_entry.  A refused deposit changes nothing.*)
(***************************************************************************)
Full(d, m) ==
  \/ Cardinality({k \in Held(mem[d]) : Sender[k] = Sender[m]}) >= SenderCap
  \/ Cardinality(Held(mem[d])) >= GlobalCap

\* Faulty variant: the tombstone is not cleared.
AcceptedKeepsTombstone(doc, m, at) ==
  [doc EXCEPT !.box[m] = IF @ = None THEN [ig |-> {}, dep |-> at] ELSE @]

\* Insert once; an accepted deposit has no tombstone.
Accepted(doc, m, at) ==
  [doc EXCEPT !.box[m] = IF @ = None THEN [ig |-> {}, dep |-> at] ELSE @, !.tomb[m] = None]

\* mint_hlc: the butler's clock, or what it adopted from siblings ahead of it.
Minted(d) == (now + Ahead[d]) .. (now + Skew)

\* Under the document's lock; then notify_dirty, and the wait for flush_now.  Two
\* that wait at the same time with the same key get one answer.
Deposit(d, m) ==
  /\ task[d] # Down /\ (mem[d].box[m] # None \/ ~Full(d, m))
  /\ Spend("deposit")
  /\ \E at \in Minted(d) : mem' = [mem EXCEPT ![d] = Accepted(@, m, at)]
  /\ dirty' = [dirty EXCEPT ![d] = TRUE]
  /\ asked' = [asked EXCEPT ![d] = @ \cup {m}]
  /\ since' = [since EXCEPT ![m] = IF @ = None THEN now ELSE @]
  /\ gone' = [gone EXCEPT ![d][m] = None]
  /\ UNCHANGED <<now, disk, pub, fresh, task, sweepVars, ownVars, acked, holds, stamped>>
----------------------------------------------------------------------------
(***************************************************************************)
(* The engine task: publish if dirty or asked to, merge what siblings      *)
(* published; each arm ends with a persist.                                *)
(***************************************************************************)
\* The publish leg of an arm that works for m, or for nobody.
Publish(d, m) ==
  \/ /\ pub' = [pub EXCEPT ![d] = mem[d].box]
     /\ fresh' = [e \in Dev |-> IF e = d THEN fresh[e] ELSE fresh[e] \cup {d}]
     /\ dirty' = [dirty EXCEPT ![d] = FALSE]
     /\ task' = [task EXCEPT ![d] = [pc |-> "persist", ok |-> TRUE, by |-> m]]
     /\ UNCHANGED left
  \/ /\ Spend("refuse")
     /\ task' = [task EXCEPT ![d] = [pc |-> "persist", ok |-> FALSE, by |-> m]]
     /\ UNCHANGED <<pub, fresh, dirty>>

WakeArm(d) ==
  /\ task[d].pc = "select" /\ dirty[d]
  /\ Publish(d, None)
  /\ UNCHANGED <<now, mem, disk, asked, sweepVars, ownVars, ackVars, historyVars>>

FlushArm(d, m) ==
  /\ task[d].pc = "select" /\ m \in asked[d]
  /\ asked' = [asked EXCEPT ![d] = @ \ {m}]
  /\ Publish(d, m)
  /\ UNCHANGED <<now, mem, disk, sweepVars, ownVars, ackVars, historyVars>>

\* Faulty variant: on_applied is not called.
MergeUnannounced(d, e) ==
  LET after == MergeFrom(mem[d], pub[e], now)
  IN /\ task[d].pc = "select" /\ e \in fresh[d]
     /\ fresh' = [fresh EXCEPT ![d] = @ \ {e}]
     /\ mem' = [mem EXCEPT ![d] = after]
     /\ task' = [task EXCEPT ![d].pc = "persist"]
     /\ UNCHANGED <<now, disk, pub, dirty, asked, sweepVars, ownVars, ackVars,
                    historyVars, left>>

\* on_applied nudges the sweeper if the merge changed the document.
Merge(d, e) ==
  LET after == MergeFrom(mem[d], pub[e], now)
  IN /\ task[d].pc = "select" /\ e \in fresh[d]
     /\ fresh' = [fresh EXCEPT ![d] = @ \ {e}]
     /\ mem' = [mem EXCEPT ![d] = after]
     /\ nudge' = [nudge EXCEPT ![d] = @ \/ Changed(mem[d], after)]
     /\ task' = [task EXCEPT ![d].pc = "persist"]
     /\ UNCHANGED <<now, disk, pub, dirty, asked, sweeper, latch, ownVars, ackVars,
                    historyVars, left>>
----------------------------------------------------------------------------
(***************************************************************************)
(* DmInboxPersist: the files one by one, tombstones first.  Only a boot    *)
(* reads them: a persist is one step, and one that fails or is cut short   *)
(* by a crash has written the first k files.                               *)
(***************************************************************************)
\* Faulty variant: the document first.
WrittenDocFirst(files, image, k) ==
  [box  |-> IF k > 0 THEN image.box ELSE files.box,
   tomb |-> IF k > 1 THEN image.tomb ELSE files.tomb,
   seen |-> IF k > 2 THEN image.seen ELSE files.seen]

\* expired, doc, first_observed (the replay tracker is not kept here).
Written(files, image, k) ==
  [tomb |-> IF k > 0 THEN image.tomb ELSE files.tomb,
   box  |-> IF k > 1 THEN image.box ELSE files.box,
   seen |-> IF k > 2 THEN image.seen ELSE files.seen]

\* Device d persists, and gets k files far; expiries that show on disk count from
\* now on.
Persist(d, k) ==
  /\ disk' = [disk EXCEPT ![d] = Written(@, mem[d], k)]
  /\ gone' = [gone EXCEPT ![d] = [m \in Msg |-> IF k > 0 /\ mem[d].tomb[m] # None
                                                THEN mem[d].tomb[m] ELSE @[m]]]

\* Faulty variant: what became durable is not looked at.
AnsweredAnyway(d, k) == task[d].by # None /\ task[d].ok

\* The acceptor acks if publish and persist went well.
Answered(d, k) == task[d].by # None /\ task[d].ok /\ k = 3

\* The task answers the acceptor, which acks and nudges.
TaskPersist(d, k) ==
  LET m == task[d].by  answered == Answered(d, k)
  IN /\ task[d].pc = "persist"
     /\ IF k = 3 THEN UNCHANGED left ELSE Spend("diskfail")
     /\ Persist(d, k)
     /\ task' = [task EXCEPT ![d] = Select]
     /\ nudge' = [nudge EXCEPT ![d] = @ \/ answered]
     /\ acked' = IF answered THEN acked \cup {m} ELSE acked
     /\ holds' = IF answered THEN [holds EXCEPT ![d] = @ \cup ({m} \cap Held(mem[d]))] ELSE holds
     /\ UNCHANGED <<now, mem, pub, fresh, dirty, asked, sweeper, latch, ownVars, since, stamped>>

\* persist_now of the sweeper, which remembers a failure.
SweeperPersist(d, k) ==
  /\ sweeper[d] = "sidecars"
  /\ IF k = 3 THEN UNCHANGED left ELSE Spend("diskfail")
  /\ Persist(d, k)
  /\ sweeper' = [sweeper EXCEPT ![d] = "waiting"]
  /\ latch' = [latch EXCEPT ![d] = k < 3]
  /\ UNCHANGED <<now, mem, engineVars, nudge, ownVars, ackVars, stamped>>
----------------------------------------------------------------------------
(***************************************************************************)
(* sweep_once: ingest_pending under the document's lock, then notify_dirty *)
(* or, if only the sidecars changed, persist_now.                          *)
(***************************************************************************)
\* Faulty variant: one signature is enough.
CoveredBySome(doc) == {m \in Held(doc) : doc.box[m].ig # {}}

\* Signed for by every enrolled device before the sweep.
Covered(doc) == {m \in Held(doc) : Dev \subseteq doc.box[m].ig}

Pending(d) == {m \in Held(mem[d]) : d \notin mem[d].box[m].ig}

\* Device d adds itself to ingested_by.
SignFor(doc, good, d) ==
  [doc EXCEPT !.box = [m \in Msg |-> IF m \in good
                                     THEN [ig |-> doc.box[m].ig \cup {d}, dep |-> doc.box[m].dep]
                                     ELSE doc.box[m]]]

\* What fails verification stays pending; the rest is applied and signed for.
Sweep(d) ==
  \E bad \in SUBSET Pending(d) :
    LET good   == Pending(d) \ bad
        signed == SignFor(mem[d], good, d)
        after  == GcExpired(signed, Covered(mem[d]), now)
        changed == good # {} \/ Held(after) # Held(signed)
        sidecars == after.seen # mem[d].seen \/ after.tomb # mem[d].tomb
    IN /\ sweeper[d] = "waiting" /\ nudge[d]
       /\ IF bad = {} THEN UNCHANGED left ELSE Spend("reject")
       /\ nudge' = [nudge EXCEPT ![d] = FALSE]
       /\ mem' = [mem EXCEPT ![d] = after]
       /\ own' = [own EXCEPT ![d] = @ \cup good]
       /\ unsaved' = [unsaved EXCEPT ![d] = @ \cup (good \ own[d])]
       /\ failed' = failed \cup bad
       /\ dirty' = [dirty EXCEPT ![d] = @ \/ changed]
       /\ sweeper' = [sweeper EXCEPT ![d] = IF ~changed /\ (sidecars \/ latch[d]) THEN "sidecars"
                                            ELSE "waiting"]
       /\ holds' = [holds EXCEPT ![d] = @ \cap Held(after)]
       /\ stamped' = [stamped EXCEPT ![d] = [m \in Msg |-> IF m \notin Held(after) THEN None
                                                           ELSE IF @[m] = None THEN after.seen[m]
                                                           ELSE @[m]]]
       /\ UNCHANGED <<now, disk, pub, fresh, asked, task, latch, lost, acked,
                      since, gone>>

\* What the files give to a device that starts now.
Reload(d) ==
  LET doc == Restored(disk'[d], d, now)
  IN /\ mem' = [mem EXCEPT ![d] = doc]
     /\ stamped' = [stamped EXCEPT ![d] = [m \in Msg |-> IF m \in Held(doc) THEN @[m] ELSE None]]

\* The device crashes, k files into a persist.  The owner state is saved by an
\* engine of its own, which apply_inbox notified: it loses what that engine had not
\* got to.
Crash(d, k, away) ==
  /\ task[d] # Down /\ Spend(IF away = {} THEN "crash" ELSE "loss")
  /\ k > 0 => task[d].pc = "persist" \/ sweeper[d] = "sidecars"
  /\ Persist(d, k)
  /\ Reload(d)
  /\ fresh' = [fresh EXCEPT ![d] = {}]
  /\ dirty' = [dirty EXCEPT ![d] = FALSE]
  /\ asked' = [asked EXCEPT ![d] = {}]
  /\ task' = [task EXCEPT ![d] = Down]
  /\ nudge' = [nudge EXCEPT ![d] = FALSE]
  /\ sweeper' = [sweeper EXCEPT ![d] = "waiting"]
  /\ latch' = [latch EXCEPT ![d] = FALSE]
  /\ lost' = [lost EXCEPT ![d] = @ \cup away]
  /\ own' = [own EXCEPT ![d] = @ \ away]
  /\ unsaved' = [unsaved EXCEPT ![d] = {}]
  /\ UNCHANGED <<now, pub, failed, ackVars>>

\* It starts again, that day or later: boot, startup sweep, root pull.
Boot(d) ==
  /\ task[d] = Down
  /\ UNCHANGED disk /\ Reload(d)
  /\ asked' = [asked EXCEPT ![d] = {}]
  /\ fresh' = [fresh EXCEPT ![d] = {e \in Dev \ {d} : pub[e] # Nothing}]
  /\ task' = [task EXCEPT ![d] = Select]
  /\ nudge' = [nudge EXCEPT ![d] = TRUE]
  /\ UNCHANGED <<now, pub, dirty, sweeper, latch, ownVars, ackVars, gone, left>>
----------------------------------------------------------------------------
EngineNext(d) ==
  \/ WakeArm(d)
  \/ \E m \in Msg : FlushArm(d, m)
  \/ \E e \in Dev : Merge(d, e)
  \/ \E k \in 0..3 : TaskPersist(d, k)
  \/ Boot(d)

SweeperNext(d) == Sweep(d) \/ \E k \in 0..3 : SweeperPersist(d, k)

Next ==
  \/ Clock
  \/ \E d \in Dev : \/ EngineNext(d) \/ SweeperNext(d)
                    \/ \E k \in 0..3, away \in SUBSET unsaved[d] : Crash(d, k, away)
  \/ \E d \in Butlers : \E m \in Msg : Deposit(d, m)

Spec == Init /\ [][Next]_vars

\* Engines and sweepers run on, siblings hear of one another at last, and a device
\* that is down is started again.  Days need not pass.
Fairness ==
  \A d \in Dev : WF_vars(EngineNext(d)) /\ WF_vars(SweeperNext(d))

FairSpec == Spec /\ Fairness

\* The same, and days do pass.
TimedSpec == FairSpec /\ WF_vars(Clock)
----------------------------------------------------------------------------
(***************************************************************************)
(* Properties.                                                             *)
(***************************************************************************)
Time  == Int \cup {None}
Entry == [ig : SUBSET Dev, dep : Nat]
Box   == [Msg -> Entry \cup {None}]
Doc   == [box : Box, seen : [Msg -> Time], tomb : [Msg -> Time]]

\* Every variable has its type, and in memory only entries have stamps: the
\* side-map of first_observed_ms does not outgrow the capped inbox.
TypeOK ==
  /\ now \in Nat
  /\ mem \in [Dev -> Doc] /\ disk \in [Dev -> Doc] /\ pub \in [Dev -> Box]
  /\ \A d \in Dev : \A m \in Msg : mem[d].seen[m] # None => m \in Held(mem[d])
  /\ fresh \in [Dev -> SUBSET Dev] /\ dirty \in [Dev -> BOOLEAN]
  /\ asked \in [Dev -> SUBSET Msg]
  /\ task \in [Dev -> [pc : {"select", "persist", "down"}, ok : BOOLEAN, by : Msg \cup {None}]]
  /\ nudge \in [Dev -> BOOLEAN] /\ latch \in [Dev -> BOOLEAN]
  /\ sweeper \in [Dev -> {"waiting", "sidecars"}]
  /\ {own, unsaved, lost, holds} \subseteq [Dev -> SUBSET Msg]
  /\ failed \subseteq Msg /\ acked \subseteq Msg /\ since \in [Msg -> Time]
  /\ stamped \in [Dev -> [Msg -> Time]] /\ gone \in [Dev -> [Msg -> Time]]
  /\ left \in [Events -> Nat]

\* A live entry never coexists with its own tombstone, whichever of deposit,
\* merge, sweep and boot made it live (clear_tombstone, merge_from's suppression,
\* restore_expired).
NoLiveTombstone == \A d \in Dev : \A m \in Held(mem[d]) : mem[d].tomb[m] = None

\* Persist before ack: a deposit this device acked and still holds would be there
\* after a crash at any moment, between two files of a persist included.
AckedSurvivesCrash ==
  \A d \in Dev : holds[d] \subseteq Held(Restored(disk[d], d, now))

\* How far the time of a deposit can be ahead of the clock that device d stamps with.
Lead(d) == Skew - Ahead[d]

\* Crashes do not buy an entry time, however many and however long the device was
\* down: as long as the device holds the entry, its stamp is not later than the
\* first one it got but for the lead of the butler's clock, which
\* restore_first_observed trusts in place of a lost stamp.
TtlNeverRestarts ==
  \A d \in Dev : \A m \in Msg :
    stamped[d][m] # None /\ mem[d].seen[m] # None => mem[d].seen[m] <= stamped[d][m] + Lead(d)

\* An expiry that reached the disk, in whichever file, holds: unless a deposit of
\* the same key is accepted anew, the device does not hold the entry again before
\* the retention of the tombstone is over, whatever siblings publish.
ExpiryHolds ==
  \A d \in Dev : \A m \in Held(mem[d]) : gone[d][m] # None => now - gone[d][m] >= Retention

\* The TTL of m is over by some device's reading of its deposit.
Overtime(m) == since[m] # None /\ now + Lag > since[m] + TTL

\* An acked deposit that no device holds any more has reached every enrolled
\* device (whose owner state may have lost it in a crash since), or is older than
\* the TTL.
GoneMeansDone ==
  \A m \in acked :
    \/ \E d \in Dev : m \in Held(mem[d])
    \/ \A d \in Dev : m \in own[d] \cup lost[d]
    \/ Overtime(m)

\* Every enrolled device took m in (and may have lost it in a crash since), or its
\* time is over: no device need keep it.
Done(m) == \/ \A e \in Dev : m \in own[e] \cup lost[e]
           \/ Overtime(m)

\* What each device would find if it started now.
Copies == [d \in Dev |-> Held(Restored(disk[d], d, now))]

Given    == {m \in Msg : since[m] # None}
Finished == {m \in Msg : Done(m)}

Custody == INSTANCE DepositCustody WITH given <- Given, copies <- Copies, done <- Finished

\* The files implement DepositCustody: a copy on disk, acked or merged from a
\* sibling, is destroyed by no persist, torn or whole, and by no boot before its
\* deposit is done, and an ack leaves such a copy behind.
DurableCustody == Custody!Spec

\* Every acked deposit reaches every device, unless its time is over, a crash
\* took it, or verification failed: a failed deposit waits for a next sweep that
\* need not come.
DeliveredEventually ==
  \A m \in Msg : m \in acked ~> \/ \A d \in Dev : m \in own[d] \cup lost[d]
                                \/ Overtime(m)
                                \/ m \in failed

\* A full inbox does not stay full: entries everybody signed for, or past their
\* TTL, are removed and make room.
CapIsTemporary ==
  \A d \in Dev : Cardinality(Held(mem[d])) >= GlobalCap ~> Cardinality(Held(mem[d])) < GlobalCap
----------------------------------------------------------------------------
(***************************************************************************)
(* The inductive invariant behind the safety properties.                   *)
(***************************************************************************)
\* The time of a deposit of m, as any device reads it: before the first deposit by
\* Lag at most, and ahead by Skew at most.
Plausible(m, t) ==
  since[m] # None /\ (\A d \in Dev : since[m] + Ahead[d] <= t + Lag) /\ t <= now + Skew

\* A stamp of m: not ahead of the clock, and before the first deposit by Lag at most.
Known(m, t) == since[m] # None /\ since[m] <= t + Lag /\ t <= now

\* Every time is a reading of some device's clock, and has come.
SinceInv  == \A m \in Msg : since[m] # None => since[m] <= now
Timely(b) == \A m \in Msg : b[m] # None => Plausible(m, b[m].dep)
TimeInv ==
  \A d \in Dev :
    /\ Timely(mem[d].box) /\ Timely(disk[d].box) /\ Timely(pub[d])
    /\ \A m \in Msg : /\ mem[d].seen[m] # None => Known(m, mem[d].seen[m])
                      /\ disk[d].seen[m] # None => Known(m, disk[d].seen[m])
                      /\ mem[d].tomb[m] # None => mem[d].tomb[m] <= now
                      /\ disk[d].tomb[m] # None => disk[d].tomb[m] <= now
                      /\ gone[d][m] # None => gone[d][m] <= now

\* A signature, wherever it is found, stands for a message in the owner state.
Signed(b) == \A m \in Msg : b[m] # None => \A e \in b[m].ig : m \in own[e] \cup lost[e]
SignInv   == \A d \in Dev : Signed(mem[d].box) /\ Signed(disk[d].box) /\ Signed(pub[d])

\* What a device has acked and not removed is in memory and, past the tombstones,
\* on disk.
HoldInv ==
  \A d \in Dev : \A m \in holds[d] :
    /\ m \in Held(mem[d]) /\ disk[d].box[m] # None
    /\ disk[d].tomb[m] = None \/ disk[d].tomb[m] + Retention <= now

\* What a sender waits for is held, or done in the meantime.
WaitInv ==
  \A d \in Dev : \A m \in Msg :
    m \in asked[d] \/ task[d].by = m => since[m] # None /\ (m \in Held(mem[d]) \/ Done(m))

AckInv == \A m \in acked : since[m] # None /\ ((\E d \in Dev : m \in holds[d]) \/ Done(m))

\* The stamp an entry of d got first, as far as d has stamped it.
FirstStamp(d, m) == IF stamped[d][m] = None THEN mem[d].seen[m] ELSE stamped[d][m]

\* After a crash a stamp is read from disk or, without one, from the deposit:
\* neither is later than the first stamp but for the lead.
TtlInv ==
  \A d \in Dev : \A m \in Msg :
    /\ stamped[d][m] # None => mem[d].seen[m] # None
    /\ mem[d].seen[m] # None =>
         \/ disk[d].seen[m] # None /\ disk[d].seen[m] <= FirstStamp(d, m) + Lead(d)
         \/ /\ disk[d].seen[m] = None /\ mem[d].box[m].dep <= FirstStamp(d, m) + Skew
            /\ disk[d].box[m] # None => disk[d].box[m].dep <= FirstStamp(d, m) + Skew

\* An expiry that still counts is in memory and on disk.
GoneInv ==
  \A d \in Dev : \A m \in Msg :
    gone[d][m] # None /\ now < gone[d][m] + Retention =>
      mem[d].tomb[m] = gone[d][m] /\ disk[d].tomb[m] = gone[d][m]

\* What DurableCustody needs besides: only what is done goes from memory before it
\* goes from disk, only what is done has a tombstone, and a crash takes from the
\* owner state what was there.
CopyInv ==
  \A d \in Dev :
    /\ unsaved[d] \subseteq own[d]
    /\ \A m \in Msg : /\ disk[d].box[m] # None => mem[d].box[m] # None \/ Done(m)
                      /\ mem[d].tomb[m] # None \/ disk[d].tomb[m] # None => Done(m)

IInv == /\ TypeOK /\ NoLiveTombstone /\ SinceInv /\ TimeInv /\ SignInv /\ HoldInv /\ WaitInv
        /\ AckInv /\ TtlInv /\ TtlNeverRestarts /\ GoneInv
============================================================================
