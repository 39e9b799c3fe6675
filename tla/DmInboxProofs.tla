--------------------------- MODULE DmInboxProofs ---------------------------
(***************************************************************************)
(* Proofs about DmInbox: IInv is inductive, and implies the invariants.    *)
(*                                                                         *)
(* IInv speaks of one key at one device at a time, but for AckInv.  So the *)
(* operations on a document are first described key by key; then KeyInv, a *)
(* relation between values, is shown to survive a persist, a boot, a       *)
(* merge, a sweep, a deposit and the passing of time; a crash is a persist *)
(* cut short and a look at what a boot would find, a boot a persist of no  *)
(* file and such a look.  Then every action is one of these at one device  *)
(* and nothing at the others (Stays).                                      *)
(*                                                                         *)
(* On IInv and CopyInv rests that the files implement DepositCustody: each *)
(* persist is a Write of it, a sweep and a day a Finish.  Last, merge_from *)
(* is shown to be indifferent to the order of what it merges.              *)
(***************************************************************************)
EXTENDS DmInbox, TLAPS

USE DevAssumption, NoneAssumption, TimeAssumption
USE DEF Time, Entry, Box, Doc, Held

----------------------------------------------------------------------------
(***************************************************************************)
(* What the operations on a document do to one key.                        *)
(***************************************************************************)
\* Every clock is ahead of the slowest by Skew at most.
LEMMA AheadType ==
  /\ Skew \in Nat /\ Lag \in Nat /\ Lag <= TTL
  /\ \A d \in Dev : Ahead[d] \in 0..Skew /\ Ahead[d] \in Nat /\ Ahead[d] <= Skew
  BY ClockAssumption

\* prune_tombstones keeps a tombstone as it is or forgets it, and forgets none
\* within its retention.
LEMMA Pruned ==
  ASSUME NEW tomb \in [Msg -> Time], NEW t \in Nat
  PROVE  /\ Prune(tomb, t) \in [Msg -> Time]
         /\ \A m \in Msg : /\ Prune(tomb, t)[m] \in {None, tomb[m]}
                           /\ tomb[m] # None /\ t < tomb[m] + Retention
                                => Prune(tomb, t)[m] = tomb[m]
                           /\ tomb[m] # None /\ tomb[m] + Retention <= t
                                => Prune(tomb, t)[m] = None
  BY DEF Prune, Retention

\* How an entry can change: merge_from leaves an entry alone, takes it over, or joins the two.
MergedEntry(doc, remote, after, m) ==
  \/ after.box[m] = doc.box[m]
  \/ /\ doc.box[m] = None /\ remote[m] # None /\ after.tomb[m] = None
     /\ after.box[m] = remote[m]
  \/ /\ doc.box[m] # None /\ remote[m] # None /\ after.box[m] # None
     /\ after.box[m].ig = doc.box[m].ig \cup remote[m].ig
     /\ after.box[m].dep \in {doc.box[m].dep, remote[m].dep}
     /\ after.box[m].dep <= doc.box[m].dep

\* merge_from does that, and prunes.
LEMMA Merged ==
  ASSUME NEW doc \in Doc, NEW remote \in Box, NEW t \in Nat
  PROVE  /\ MergeFrom(doc, remote, t) \in Doc
         /\ MergeFrom(doc, remote, t).seen = doc.seen
         /\ MergeFrom(doc, remote, t).tomb = Prune(doc.tomb, t)
         /\ \A m \in Msg : MergedEntry(doc, remote, MergeFrom(doc, remote, t), m)
<1>1. Prune(doc.tomb, t) \in [Msg -> Time]
  BY Pruned
<1> QED
  BY <1>1 DEF MergeFrom, Least, MergedEntry

\* gc_expired removes what is covered or overdue by its stamp, and stamps the
\* rest; a tombstone appears only where an entry goes.
CollectedKey(doc, covered, t, after, m) ==
  /\ after.box[m] \in {None, doc.box[m]}
  /\ doc.box[m] # None /\ after.box[m] = None
       => m \in covered \/ (doc.seen[m] # None /\ doc.seen[m] + TTL < t)
  /\ after.box[m] # None => after.seen[m] = IF doc.seen[m] = None THEN t ELSE doc.seen[m]
  /\ after.box[m] = None => after.seen[m] = None
  /\ after.tomb[m] \in {None, doc.tomb[m], t}
  /\ after.box[m] # None => after.tomb[m] \in {None, doc.tomb[m]}
  /\ after.tomb[m] # None => doc.tomb[m] # None \/ (doc.seen[m] # None /\ doc.seen[m] + TTL < t)
  /\ doc.box[m] = None /\ doc.tomb[m] # None /\ t < doc.tomb[m] + Retention
       => after.tomb[m] = doc.tomb[m]

\* That is all gc_expired does.
LEMMA Collected ==
  ASSUME NEW doc \in Doc, NEW covered \in SUBSET Msg, NEW t \in Nat
  PROVE  /\ GcExpired(doc, covered, t) \in Doc
         /\ \A m \in Msg : CollectedKey(doc, covered, t, GcExpired(doc, covered, t), m)
<1> DEFINE after == GcExpired(doc, covered, t)
<1> DEFINE over == Overdue(doc, t)
           laid == [m \in Msg |-> IF m \in over \ covered THEN t ELSE doc.tomb[m]]
<1>1. Stamps(doc, t) \in [Msg -> Time]
  BY DEF Stamps
<1>2. /\ over \subseteq Msg
      /\ \A m \in over : doc.box[m] # None /\ doc.seen[m] # None /\ doc.seen[m] + TTL < t
  BY DEF Overdue, Stamps
<1>3. laid \in [Msg -> Time]
  OBVIOUS
<1>4. /\ after.box = [m \in Msg |-> IF m \in covered \cup over THEN None ELSE doc.box[m]]
      /\ after.seen = [m \in Msg |-> IF m \in Held(doc) \ (covered \cup over) THEN Stamps(doc, t)[m]
                                     ELSE None]
      /\ after.tomb = Prune(laid, t)
      /\ after = [box |-> after.box, seen |-> after.seen, tomb |-> after.tomb]
  BY DEF GcExpired
<1> HIDE DEF over, laid, after
<1>5. after.box \in Box
  BY <1>4
<1>6. after.seen \in [Msg -> Time]
  BY <1>4, <1>1
<1>7. after.tomb \in [Msg -> Time]
  BY <1>4, <1>3, Pruned
<1>8. after \in Doc
  BY <1>4, <1>5, <1>6, <1>7
<1>9. ASSUME NEW m \in Msg
      PROVE  /\ after.box[m] \in {None, doc.box[m]}
             /\ doc.box[m] # None /\ after.box[m] = None
                  => m \in covered \/ (doc.seen[m] # None /\ doc.seen[m] + TTL < t)
             /\ after.box[m] # None
                  => after.seen[m] = IF doc.seen[m] = None THEN t ELSE doc.seen[m]
             /\ after.box[m] = None => after.seen[m] = None
  BY <1>2, <1>4 DEF Stamps
<1>10. ASSUME NEW m \in Msg
       PROVE  /\ after.tomb[m] \in {None, doc.tomb[m], t}
              /\ after.box[m] # None => after.tomb[m] \in {None, doc.tomb[m]}
              /\ after.tomb[m] # None
                   => doc.tomb[m] # None \/ (doc.seen[m] # None /\ doc.seen[m] + TTL < t)
              /\ doc.box[m] = None /\ doc.tomb[m] # None /\ t < doc.tomb[m] + Retention
                   => after.tomb[m] = doc.tomb[m]
  <2>1. laid[m] = IF m \in over \ covered THEN t ELSE doc.tomb[m]
    BY DEF laid
  <2>2. /\ Prune(laid, t)[m] \in {None, laid[m]}
        /\ laid[m] # None /\ t < laid[m] + Retention => Prune(laid, t)[m] = laid[m]
    BY <1>3, Pruned
  <2>3. after.box[m] # None => m \notin over
    BY <1>4
  <2>4. doc.box[m] = None => m \notin over
    BY <1>2
  <2> QED
    BY <2>1, <2>2, <2>3, <2>4, <1>2, <1>4
<1>11. \A m \in Msg : CollectedKey(doc, covered, t, after, m)
  BY <1>9, <1>10 DEF CollectedKey
<1> QED
  BY <1>8, <1>11 DEF after

\* The boot keeps what no tombstone within its retention forbids, and takes the
\* stamp from the file or else from the deposit, read by a clock that is a ahead.
BootedKey(files, a, t, doc, m) ==
  /\ doc.box[m] \in {None, files.box[m]}
  /\ doc.box[m] # None => doc.tomb[m] = None
  /\ files.box[m] # None /\ (files.tomb[m] = None \/ files.tomb[m] + Retention <= t)
       => doc.box[m] = files.box[m]
  /\ doc.box[m] = None => doc.seen[m] = None
  /\ doc.box[m] # None /\ files.seen[m] # None => doc.seen[m] = Least(files.seen[m], t)
  /\ doc.box[m] # None /\ files.seen[m] = None => doc.seen[m] = Least(files.box[m].dep - a, t)
  /\ doc.tomb[m] # None => files.tomb[m] # None /\ doc.tomb[m] = Least(files.tomb[m], t)
  /\ files.tomb[m] # None /\ files.tomb[m] <= t /\ t < files.tomb[m] + Retention
       => doc.tomb[m] = files.tomb[m]

\* That is all restore_expired and restore_first_observed do.
LEMMA Booted ==
  ASSUME NEW files \in Doc, NEW d \in Dev, NEW t \in Nat
  PROVE  /\ Restored(files, d, t) \in Doc
         /\ \A m \in Msg : BootedKey(files, Ahead[d], t, Restored(files, d, t), m)
<1> DEFINE doc == Restored(files, d, t)
<1> DEFINE laid == [m \in Msg |-> IF files.tomb[m] = None THEN None ELSE Least(files.tomb[m], t)]
<1>1. laid \in [Msg -> Time]
  BY DEF Least
<1>2. /\ RestoreExpired(files, t).tomb = Prune(laid, t)
      /\ RestoreExpired(files, t).box =
           [m \in Msg |-> IF Prune(laid, t)[m] # None THEN None ELSE files.box[m]]
      /\ RestoreExpired(files, t).seen = files.seen
      /\ RestoreExpired(files, t) \in [box : Box, seen : [Msg -> Time], tomb : {Prune(laid, t)}]
  BY DEF RestoreExpired
<1> HIDE DEF laid
<1>3. /\ doc.tomb = Prune(laid, t)
      /\ doc.box = [m \in Msg |-> IF Prune(laid, t)[m] # None THEN None ELSE files.box[m]]
      /\ doc.seen = [m \in Msg |-> IF doc.box[m] = None THEN None
                                   ELSE IF files.seen[m] # None THEN Least(files.seen[m], t)
                                   ELSE Least(doc.box[m].dep - Ahead[d], t)]
      /\ doc = [box |-> doc.box, seen |-> doc.seen, tomb |-> doc.tomb]
  BY <1>2 DEF Restored, RestoreFirstObserved
<1> HIDE DEF doc
<1>4. doc.box \in Box
  BY <1>3
<1>5. doc.seen \in [Msg -> Time]
  BY <1>3, <1>4, AheadType DEF Least
<1>6. doc.tomb \in [Msg -> Time]
  BY <1>1, <1>3, Pruned
<1>7. ASSUME NEW m \in Msg
      PROVE  /\ laid[m] = IF files.tomb[m] = None THEN None ELSE Least(files.tomb[m], t)
             /\ Prune(laid, t)[m] \in {None, laid[m]}
             /\ laid[m] # None /\ t < laid[m] + Retention => Prune(laid, t)[m] = laid[m]
             /\ laid[m] # None /\ laid[m] + Retention <= t => Prune(laid, t)[m] = None
  BY <1>1, Pruned DEF laid
<1>8. ASSUME NEW m \in Msg
      PROVE  /\ doc.box[m] \in {None, files.box[m]}
             /\ doc.box[m] # None => doc.tomb[m] = None
             /\ doc.box[m] = None => doc.seen[m] = None
             /\ doc.box[m] # None /\ files.seen[m] # None => doc.seen[m] = Least(files.seen[m], t)
             /\ doc.box[m] # None /\ files.seen[m] = None
                  => doc.seen[m] = Least(files.box[m].dep - Ahead[d], t)
  BY <1>3
<1>9. ASSUME NEW m \in Msg
      PROVE  /\ files.box[m] # None /\ (files.tomb[m] = None \/ files.tomb[m] + Retention <= t)
                  => doc.box[m] = files.box[m]
             /\ doc.tomb[m] # None => files.tomb[m] # None /\ doc.tomb[m] = Least(files.tomb[m], t)
             /\ files.tomb[m] # None /\ files.tomb[m] <= t /\ t < files.tomb[m] + Retention
                  => doc.tomb[m] = files.tomb[m]
  <2>1. Retention \in Nat /\ files.tomb[m] \in Time
    BY DEF Retention
  <2> QED
    BY <1>3, <1>7, <2>1 DEF Least
<1>10. doc \in Doc
  BY <1>3, <1>4, <1>5, <1>6
<1>11. \A m \in Msg : BootedKey(files, Ahead[d], t, doc, m)
  BY <1>8, <1>9 DEF BootedKey
<1> QED
  BY <1>10, <1>11 DEF doc

\* A persist that gets k files far, tombstones first.
LEMMA WrittenFiles ==
  ASSUME NEW files \in Doc, NEW image \in Doc, NEW k \in 0..3,
         NEW w, w = Written(files, image, k)
  PROVE  /\ w \in Doc
         /\ w.tomb = IF k > 0 THEN image.tomb ELSE files.tomb
         /\ w.box = IF k > 1 THEN image.box ELSE files.box
         /\ w.seen = IF k > 2 THEN image.seen ELSE files.seen
  BY DEF Written
----------------------------------------------------------------------------
(***************************************************************************)
(* The invariant of one key at one device, as a relation between values:   *)
(* the device's clock ahead by a, time t, first deposit s, devices A that  *)
(* have the message, documents M in memory and D on disk, expiries g,      *)
(* first stamps st, holds h.                                               *)
(***************************************************************************)
Sound(t, s, A, x) ==
  x # None => /\ s # None /\ s <= t /\ x.dep <= t + Skew /\ x.ig \subseteq A
              /\ \A d \in Dev : s + Ahead[d] <= x.dep + Lag
Past(t, s, x)     == x # None => s # None /\ s <= x + Lag /\ x <= t

BoxKey(m, t, s, A, M, D) == Sound(t, s, A, M.box[m]) /\ Sound(t, s, A, D.box[m])
TimeKey(m, t, s, M, D, g) ==
  /\ Past(t, s, M.seen[m]) /\ Past(t, s, D.seen[m])
  /\ M.tomb[m] # None => M.tomb[m] <= t
  /\ D.tomb[m] # None => D.tomb[m] <= t
  /\ g[m] # None => g[m] <= t
TombKey(m, M) == /\ M.box[m] # None => M.tomb[m] = None
                 /\ M.seen[m] # None => M.box[m] # None
HoldKey(m, t, M, D, h) ==
  m \in h => /\ M.box[m] # None /\ D.box[m] # None
             /\ D.tomb[m] = None \/ D.tomb[m] + Retention <= t
First(m, M, st) == IF st[m] = None THEN M.seen[m] ELSE st[m]
TtlKey(a, m, M, D, st) ==
  /\ st[m] # None => M.seen[m] # None
  /\ M.seen[m] # None =>
       \/ D.seen[m] # None /\ D.seen[m] <= First(m, M, st) + (Skew - a)
       \/ /\ D.seen[m] = None /\ M.box[m].dep <= First(m, M, st) + Skew
          /\ D.box[m] # None => D.box[m].dep <= First(m, M, st) + Skew
StampKey(a, m, M, st) ==
  st[m] # None /\ M.seen[m] # None => M.seen[m] <= st[m] + (Skew - a)
GoneKey(m, t, M, D, g) ==
  g[m] # None /\ t < g[m] + Retention => M.tomb[m] = g[m] /\ D.tomb[m] = g[m]

KeyInv(a, m, t, s, A, M, D, g, st, h) ==
  /\ BoxKey(m, t, s, A, M, D) /\ TimeKey(m, t, s, M, D, g) /\ TombKey(m, M)
  /\ HoldKey(m, t, M, D, h) /\ TtlKey(a, m, M, D, st) /\ StampKey(a, m, M, st)
  /\ GoneKey(m, t, M, D, g)

\* The constant Retention is a natural number.
LEMMA RetentionNat == Retention \in Nat /\ TTL \in Nat
  BY DEF Retention

\* Time goes on, first deposits stay, devices only come to have messages.
LEMMA KeyLater ==
  ASSUME NEW a \in 0..Skew, NEW m \in Msg, NEW t \in Nat, NEW s \in Time, NEW A \in SUBSET Dev,
         NEW t2 \in Nat, NEW s2 \in Time, NEW A2 \in SUBSET Dev,
         t <= t2, s # None => s2 = s, A \subseteq A2,
         NEW M \in Doc, NEW D \in Doc, NEW g \in [Msg -> Time], NEW st \in [Msg -> Time],
         NEW h \in SUBSET Msg, KeyInv(a, m, t, s, A, M, D, g, st, h)
  PROVE  KeyInv(a, m, t2, s2, A2, M, D, g, st, h)
<1>1. BoxKey(m, t2, s2, A2, M, D)
  <2>1. ASSUME NEW x \in Entry \cup {None}, Sound(t, s, A, x) PROVE Sound(t2, s2, A2, x)
    BY <2>1, AheadType DEF Sound
  <2>2. M.box[m] \in Entry \cup {None} /\ D.box[m] \in Entry \cup {None}
    OBVIOUS
  <2> QED
    BY <2>1, <2>2 DEF KeyInv, BoxKey
<1>2. TimeKey(m, t2, s2, M, D, g)
  BY AheadType DEF KeyInv, TimeKey, Past
<1>3. HoldKey(m, t2, M, D, h) /\ GoneKey(m, t2, M, D, g)
  BY RetentionNat DEF KeyInv, HoldKey, GoneKey, TimeKey
<1> QED
  BY <1>1, <1>2, <1>3 DEF KeyInv

\* A persist that gets some files far, and the expiries that show on disk with it.
PersistKey(m, M, D, g, h, W, g2, h2) ==
  \E k \in 0..3 :
    /\ W = Written(D, M, k)
    /\ g2[m] = IF k > 0 /\ M.tomb[m] # None THEN M.tomb[m] ELSE g[m]
    /\ m \in h2 => m \in h \/ (k = 3 /\ M.box[m] # None)

\* What a persist leaves of a key's invariant: all of it, however far it gets.
LEMMA KeyPersist ==
  ASSUME NEW a \in 0..Skew, NEW m \in Msg, NEW t \in Nat, NEW s \in Time, NEW A \in SUBSET Dev,
         NEW M \in Doc, NEW D \in Doc, NEW g \in [Msg -> Time], NEW st \in [Msg -> Time],
         NEW h \in SUBSET Msg, KeyInv(a, m, t, s, A, M, D, g, st, h),
         NEW W, NEW g2 \in [Msg -> Time], NEW h2 \in SUBSET Msg,
         PersistKey(m, M, D, g, h, W, g2, h2)
  PROVE  KeyInv(a, m, t, s, A, M, W, g2, st, h2)
<1>0. PICK k \in 0..3 :
        /\ W = Written(D, M, k)
        /\ g2[m] = IF k > 0 /\ M.tomb[m] # None THEN M.tomb[m] ELSE g[m]
        /\ m \in h2 => m \in h \/ (k = 3 /\ M.box[m] # None)
  BY DEF PersistKey
<1>1. /\ W \in Doc
      /\ W.tomb = IF k > 0 THEN M.tomb ELSE D.tomb
      /\ W.box = IF k > 1 THEN M.box ELSE D.box
      /\ W.seen = IF k > 2 THEN M.seen ELSE D.seen
  <2> HIDE DEF Doc, Box, Time
  <2>1. k \in 0..3 /\ M \in Doc /\ D \in Doc /\ W = Written(D, M, k)
    BY <1>0
  <2> QED
    BY <2>1, WrittenFiles
<1>2. BoxKey(m, t, s, A, M, W)
  BY <1>1 DEF KeyInv, BoxKey
<1>3. TimeKey(m, t, s, M, W, g2)
  BY <1>0, <1>1 DEF KeyInv, TimeKey
<1>4. HoldKey(m, t, M, W, h2)
  BY <1>0, <1>1 DEF KeyInv, HoldKey, TombKey
<1>5. TtlKey(a, m, M, W, st)
  <2>1. M.seen[m] \in Time /\ st[m] \in Time /\ D.seen[m] \in Time
    OBVIOUS
  <2>2. M.seen[m] # None => M.seen[m] <= First(m, M, st) + (Skew - a)
    BY <2>1, AheadType DEF KeyInv, StampKey, First
  <2>3. CASE k = 3
    BY <1>1, <2>2, <2>3 DEF KeyInv, TtlKey
  <2>4. CASE k # 3
    BY <1>1, <2>4 DEF KeyInv, TtlKey, TombKey
  <2> QED
    BY <2>3, <2>4
<1>6. GoneKey(m, t, M, W, g2)
  BY <1>0, <1>1, RetentionNat DEF KeyInv, GoneKey
<1> QED
  BY <1>2, <1>3, <1>4, <1>5, <1>6 DEF KeyInv

\* The boot.
LEMMA KeyBoot ==
  ASSUME NEW a \in 0..Skew, NEW m \in Msg, NEW t \in Nat, NEW s \in Time, NEW A \in SUBSET Dev,
         NEW M \in Doc, NEW D \in Doc, NEW g \in [Msg -> Time], NEW st \in [Msg -> Time],
         NEW h \in SUBSET Msg, KeyInv(a, m, t, s, A, M, D, g, st, h),
         NEW d \in Dev, a = Ahead[d],
         NEW B, B = Restored(D, d, t), NEW st2 \in [Msg -> Time],
         st2[m] = IF B.box[m] # None THEN st[m] ELSE None
  PROVE  KeyInv(a, m, t, s, A, B, D, g, st2, h)
<1> HIDE DEF Doc, Box
<1>0. B \in Doc
  BY Booted
<1>a. BootedKey(D, a, t, B, m)
  BY Booted
<1> USE DEF Doc, Box
<1>1. /\ B.box[m] \in {None, D.box[m]}
      /\ B.box[m] # None => B.tomb[m] = None
      /\ D.box[m] # None /\ (D.tomb[m] = None \/ D.tomb[m] + Retention <= t)
           => B.box[m] = D.box[m]
      /\ B.box[m] = None => B.seen[m] = None
  BY <1>a DEF BootedKey
<1>2. /\ B.box[m] # None /\ D.seen[m] # None => B.seen[m] = Least(D.seen[m], t)
      /\ B.box[m] # None /\ D.seen[m] = None => B.seen[m] = Least(D.box[m].dep - a, t)
      /\ B.tomb[m] # None => D.tomb[m] # None /\ B.tomb[m] = Least(D.tomb[m], t)
      /\ D.tomb[m] # None /\ D.tomb[m] <= t /\ t < D.tomb[m] + Retention => B.tomb[m] = D.tomb[m]
  BY <1>a DEF BootedKey
<1>3. /\ D.box[m] # None => D.box[m] \in Entry /\ D.box[m].dep \in Nat
      /\ D.seen[m] \in Time /\ D.tomb[m] \in Time /\ M.seen[m] \in Time
  OBVIOUS
<1>4. BoxKey(m, t, s, A, B, D)
  <2>1. Sound(t, s, A, D.box[m]) /\ Sound(t, s, A, None)
    BY DEF KeyInv, BoxKey, Sound
  <2>2. B.box[m] = None \/ B.box[m] = D.box[m]
    BY <1>1
  <2> QED
    BY <2>1, <2>2 DEF BoxKey
<1>5. B.box[m] # None /\ D.seen[m] # None => B.seen[m] = D.seen[m]
  BY <1>2, <1>3 DEF KeyInv, TimeKey, Past, Least
<1>6. B.box[m] # None /\ D.seen[m] = None
        => /\ B.seen[m] \in Int /\ B.seen[m] <= t /\ B.seen[m] <= D.box[m].dep - a
           /\ s # None /\ s <= B.seen[m] + Lag /\ D.box[m].dep <= B.seen[m] + Skew
  <2> SUFFICES ASSUME B.box[m] # None, D.seen[m] = None
               PROVE  /\ B.seen[m] \in Int /\ B.seen[m] <= t /\ B.seen[m] <= D.box[m].dep - a
                      /\ s # None /\ s <= B.seen[m] + Lag /\ D.box[m].dep <= B.seen[m] + Skew
    OBVIOUS
  <2>1. D.box[m] # None /\ D.box[m].dep \in Nat
    BY <1>1, <1>3
  <2>2. s # None /\ s <= t /\ D.box[m].dep <= t + Skew /\ s + a <= D.box[m].dep + Lag
    BY <2>1 DEF KeyInv, BoxKey, Sound
  <2>3. s \in Int /\ a \in Nat /\ a <= Skew /\ Skew \in Nat /\ Lag \in Nat
    BY <2>2, AheadType
  <2> QED
    BY <1>2, <2>1, <2>2, <2>3 DEF Least
<1>7. TimeKey(m, t, s, B, D, g)
  <2>1. Past(t, s, B.seen[m])
    BY <1>0, <1>1, <1>5, <1>6 DEF KeyInv, TimeKey, Past
  <2>2. B.tomb[m] # None => B.tomb[m] <= t
    BY <1>2, <1>3 DEF Least
  <2> QED
    BY <2>1, <2>2 DEF KeyInv, TimeKey
<1>8. TombKey(m, B)
  BY <1>0, <1>1 DEF TombKey
<1>9. HoldKey(m, t, B, D, h)
  BY <1>0, <1>1 DEF KeyInv, HoldKey
<1>10. TtlKey(a, m, B, D, st2) /\ StampKey(a, m, B, st2)
  <2>1. CASE B.box[m] = None
    BY <1>1, <2>1 DEF TtlKey, StampKey
  <2>2. CASE B.box[m] # None /\ D.seen[m] # None
    <3>1. B.seen[m] = D.seen[m] /\ st2[m] = st[m] /\ D.seen[m] \in Int
      BY <1>3, <1>5, <2>2
    <3>2. st[m] # None => st[m] \in Int /\ D.seen[m] <= st[m] + (Skew - a)
      BY <2>2 DEF KeyInv, TtlKey, First
    <3>3. D.seen[m] <= First(m, B, st2) + (Skew - a)
      BY <3>1, <3>2, AheadType DEF First
    <3> QED
      BY <2>2, <3>1, <3>2, <3>3 DEF TtlKey, StampKey
  <2>3. CASE B.box[m] # None /\ D.seen[m] = None
    <3>1. /\ B.seen[m] \in Int /\ st2[m] = st[m] /\ B.box[m] = D.box[m] /\ D.box[m].dep \in Nat
          /\ B.seen[m] <= D.box[m].dep - a /\ D.box[m].dep <= B.seen[m] + Skew
      BY <1>1, <1>3, <1>6, <2>3
    <3>2. st[m] # None => st[m] \in Int /\ D.box[m].dep <= st[m] + Skew
      BY <2>3, <3>1 DEF KeyInv, TtlKey, First
    <3>3. B.box[m].dep <= First(m, B, st2) + Skew
      BY <3>1, <3>2 DEF First
    <3>4. st2[m] # None => B.seen[m] <= st2[m] + (Skew - a)
      BY <3>1, <3>2, AheadType
    <3> QED
      BY <2>3, <3>1, <3>3, <3>4 DEF TtlKey, StampKey
  <2> QED
    BY <2>1, <2>2, <2>3
<1>12. GoneKey(m, t, B, D, g)
  BY <1>2 DEF KeyInv, GoneKey, TimeKey
<1> QED
  BY <1>4, <1>7, <1>8, <1>9, <1>10, <1>12 DEF KeyInv

\* A merge of a sound entry.
LEMMA KeyMerge ==
  ASSUME NEW a \in 0..Skew, NEW m \in Msg, NEW t \in Nat, NEW s \in Time, NEW A \in SUBSET Dev,
         NEW M \in Doc, NEW D \in Doc, NEW g \in [Msg -> Time], NEW st \in [Msg -> Time],
         NEW h \in SUBSET Msg, KeyInv(a, m, t, s, A, M, D, g, st, h),
         NEW remote \in Box, Sound(t, s, A, remote[m]),
         NEW N, N = MergeFrom(M, remote, t)
  PROVE  KeyInv(a, m, t, s, A, N, D, g, st, h) /\ (M.box[m] # None => N.box[m] # None)
<1> HIDE DEF Doc, Box
<1>0. N \in Doc
  BY Merged
<1>1. N.seen = M.seen /\ N.tomb = Prune(M.tomb, t) /\ MergedEntry(M, remote, N, m)
  BY Merged
<1> USE DEF Doc, Box
<1>2. /\ N.tomb[m] \in {None, M.tomb[m]}
      /\ M.tomb[m] # None /\ t < M.tomb[m] + Retention => N.tomb[m] = M.tomb[m]
  <2>1. M.tomb \in [Msg -> Time]
    OBVIOUS
  <2> HIDE DEF Doc, Box, Time
  <2>2. /\ Prune(M.tomb, t)[m] \in {None, M.tomb[m]}
        /\ M.tomb[m] # None /\ t < M.tomb[m] + Retention => Prune(M.tomb, t)[m] = M.tomb[m]
    BY <2>1, Pruned
  <2> QED
    BY <1>1, <2>2
<1>3. /\ M.box[m] # None => M.box[m].dep \in Nat
      /\ N.box[m] # None => N.box[m].dep \in Nat
      /\ M.seen[m] \in Time
  BY <1>0, <1>1
<1>4. BoxKey(m, t, s, A, N, D)
  <2>1. Sound(t, s, A, M.box[m]) /\ Sound(t, s, A, D.box[m])
    BY DEF KeyInv, BoxKey
  <2>2. Sound(t, s, A, N.box[m])
    BY <1>1, <2>1 DEF MergedEntry, Sound
  <2> QED
    BY <2>1, <2>2 DEF BoxKey
<1>5. TimeKey(m, t, s, N, D, g)
  BY <1>0, <1>1, <1>2 DEF MergedEntry, KeyInv, TimeKey
<1>6. TombKey(m, N)
  BY <1>0, <1>1, <1>2 DEF MergedEntry, KeyInv, TombKey
<1>7. HoldKey(m, t, N, D, h) /\ (M.box[m] # None => N.box[m] # None)
  BY <1>0, <1>1 DEF MergedEntry, KeyInv, HoldKey
<1>8. TtlKey(a, m, N, D, st)
  <2>1. N.seen[m] = M.seen[m] /\ First(m, N, st) = First(m, M, st)
    BY <1>1 DEF First
  <2>2. M.seen[m] # None => First(m, M, st) \in Int /\ M.box[m] # None
    BY <1>3 DEF First, KeyInv, TombKey
  <2>3. M.box[m] # None => N.box[m] # None /\ N.box[m].dep <= M.box[m].dep
    BY <1>1, <1>3 DEF MergedEntry
  <2> QED
    BY <1>3, <2>1, <2>2, <2>3, AheadType DEF KeyInv, TtlKey
<1>9. StampKey(a, m, N, st)
  BY <1>0, <1>1 DEF KeyInv, StampKey
<1>10. GoneKey(m, t, N, D, g)
  BY <1>2 DEF KeyInv, GoneKey
<1> QED
  BY <1>4, <1>5, <1>6, <1>7, <1>8, <1>9, <1>10 DEF KeyInv

\* The sweep: device d signs for good, gc_expired removes what is covered or
\* overdue.
SignedKey(M, good, d, S, m) ==
  /\ (S.box[m] = None) <=> (M.box[m] = None)
  /\ S.box[m] # None => /\ S.box[m].dep = M.box[m].dep
                        /\ S.box[m].ig \subseteq M.box[m].ig \cup (IF m \in good THEN {d} ELSE {})

\* A signed document: the same entries, one more signature on those signed for.
LEMMA SignedDoc ==
  ASSUME NEW M \in Doc, NEW good \in SUBSET Held(M), NEW d \in Dev
  PROVE  LET S == SignFor(M, good, d)
         IN /\ S \in Doc /\ S.seen = M.seen /\ S.tomb = M.tomb
            /\ \A m \in Msg : SignedKey(M, good, d, S, m)
<1> DEFINE S == SignFor(M, good, d)
           b == [m \in Msg |-> IF m \in good THEN [ig |-> M.box[m].ig \cup {d}, dep |-> M.box[m].dep]
                              ELSE M.box[m]]
<1>1. S = [M EXCEPT !.box = b]
  BY DEF SignFor
<1> HIDE DEF b, S
<1>2. S.box = b /\ S.seen = M.seen /\ S.tomb = M.tomb /\ S = [box |-> b, seen |-> M.seen, tomb |-> M.tomb]
  BY <1>1
<1>3. ASSUME NEW m \in Msg
      PROVE  b[m] \in Entry \cup {None} /\ SignedKey(M, good, d, S, m)
  <2>1. CASE m \in good
    <3>1. M.box[m] \in Entry
      BY <2>1
    <3>2. b[m] = [ig |-> M.box[m].ig \cup {d}, dep |-> M.box[m].dep]
      BY <2>1, <3>1 DEF b
    <3>3. b[m] \in Entry /\ b[m].dep = M.box[m].dep /\ b[m].ig = M.box[m].ig \cup {d}
      BY <3>1, <3>2
    <3> QED
      BY <1>2, <2>1, <3>1, <3>3 DEF SignedKey
  <2>2. CASE m \notin good
    <3>1. b[m] = M.box[m]
      BY <2>2 DEF b
    <3> QED
      BY <1>2, <2>2, <3>1 DEF SignedKey
  <2> QED
    BY <2>1, <2>2
<1>4. b \in Box
  BY <1>3 DEF b
<1>5. S \in Doc
  BY <1>2, <1>4
<1> QED
  BY <1>2, <1>3, <1>5 DEF S

\* Signing and gc_expired keep the invariant, and what they remove is covered or
\* overdue.
LEMMA KeySweep ==
  ASSUME NEW a \in 0..Skew, NEW m \in Msg, NEW t \in Nat, NEW s \in Time, NEW A \in SUBSET Dev,
         NEW M \in Doc, NEW D \in Doc, NEW g \in [Msg -> Time], NEW st \in [Msg -> Time],
         NEW h \in SUBSET Msg, KeyInv(a, m, t, s, A, M, D, g, st, h),
         NEW good, NEW d \in Dev, m \in good => d \in A, NEW covered,
         NEW S \in Doc, SignedKey(M, good, d, S, m), S.seen = M.seen, S.tomb = M.tomb,
         NEW N \in Doc, CollectedKey(S, covered, t, N, m),
         NEW h2 \in SUBSET Msg, m \in h2 => m \in h /\ N.box[m] # None,
         NEW st2 \in [Msg -> Time],
         st2[m] = IF N.box[m] = None THEN None ELSE IF st[m] = None THEN N.seen[m] ELSE st[m]
  PROVE  /\ KeyInv(a, m, t, s, A, N, D, g, st2, h2)
         /\ M.box[m] # None /\ N.box[m] = None
              => m \in covered \/ (M.seen[m] # None /\ M.seen[m] + TTL < t)
<1>2. /\ (S.box[m] = None) <=> (M.box[m] = None)
      /\ S.seen = M.seen /\ S.tomb = M.tomb
      /\ S.box[m] # None =>
           /\ S.box[m].dep = M.box[m].dep
           /\ S.box[m].ig \subseteq M.box[m].ig \cup (IF m \in good THEN {d} ELSE {})
  BY DEF SignedKey
<1>3. /\ N.box[m] \in {None, S.box[m]}
      /\ S.box[m] # None /\ N.box[m] = None
           => m \in covered \/ (S.seen[m] # None /\ S.seen[m] + TTL < t)
      /\ N.box[m] # None
           => N.seen[m] = IF S.seen[m] = None THEN t ELSE S.seen[m]
      /\ N.box[m] = None => N.seen[m] = None
  BY DEF CollectedKey
<1>4. /\ N.tomb[m] \in {None, S.tomb[m], t}
      /\ N.box[m] # None => N.tomb[m] \in {None, S.tomb[m]}
      /\ S.box[m] = None /\ S.tomb[m] # None /\ t < S.tomb[m] + Retention
           => N.tomb[m] = S.tomb[m]
  BY DEF CollectedKey
<1>5. /\ M.box[m] # None => M.box[m].dep \in Nat
      /\ D.box[m] # None => D.box[m].dep \in Nat
      /\ M.seen[m] \in Time /\ M.tomb[m] \in Time /\ D.seen[m] \in Time /\ st[m] \in Time
  OBVIOUS
<1>6. BoxKey(m, t, s, A, N, D)
  <2>1. Sound(t, s, A, M.box[m]) /\ Sound(t, s, A, D.box[m])
    BY DEF KeyInv, BoxKey
  <2>2. Sound(t, s, A, N.box[m])
    BY <1>2, <1>3, <2>1 DEF Sound
  <2> QED
    BY <2>1, <2>2 DEF BoxKey
<1>7. Past(t, s, N.seen[m])
  <2>1. N.box[m] # None => s # None /\ s <= t
    BY <1>6 DEF BoxKey, Sound
  <2> QED
    BY <1>2, <1>3, <1>5, <2>1, AheadType DEF KeyInv, TimeKey, Past
<1>8. TimeKey(m, t, s, N, D, g)
  BY <1>2, <1>4, <1>7 DEF KeyInv, TimeKey
<1>9. TombKey(m, N)
  BY <1>2, <1>3, <1>4 DEF KeyInv, TombKey
<1>10. HoldKey(m, t, N, D, h2)
  BY <1>2, <1>3 DEF KeyInv, HoldKey
<1>11. TtlKey(a, m, N, D, st2) /\ StampKey(a, m, N, st2)
  <2>1. CASE N.box[m] = None
    BY <1>3, <2>1 DEF TtlKey, StampKey
  <2>2. CASE N.box[m] # None /\ M.seen[m] # None
    <3>1. N.seen[m] = M.seen[m] /\ N.box[m].dep = M.box[m].dep /\ First(m, N, st2) = First(m, M, st)
      BY <1>2, <1>3, <2>2 DEF First
    <3>2. TtlKey(a, m, N, D, st2)
      BY <2>2, <3>1 DEF KeyInv, TtlKey
    <3>3. StampKey(a, m, N, st2)
      BY <1>5, <2>2, <3>1, AheadType DEF KeyInv, StampKey, First
    <3> QED
      BY <3>2, <3>3
  <2>3. CASE N.box[m] # None /\ M.seen[m] = None
    <3>1. st[m] = None /\ N.seen[m] = t /\ st2[m] = t
      BY <1>2, <1>3, <2>3 DEF KeyInv, TtlKey
    <3>2. First(m, N, st2) = t
      BY <3>1 DEF First
    <3>3. N.box[m].dep <= t + Skew /\ (D.box[m] # None => D.box[m].dep <= t + Skew)
      BY <1>6, <2>3 DEF BoxKey, Sound
    <3>4. D.seen[m] # None => D.seen[m] <= t + (Skew - a)
      BY <1>5, AheadType DEF KeyInv, TimeKey, Past
    <3>5. t <= t + (Skew - a)
      BY AheadType
    <3> QED
      BY <3>1, <3>2, <3>3, <3>4, <3>5 DEF TtlKey, StampKey
  <2> QED
    BY <2>1, <2>2, <2>3
<1>13. GoneKey(m, t, N, D, g)
  BY <1>2, <1>4 DEF KeyInv, GoneKey, TombKey
<1> QED
  BY <1>2, <1>3, <1>6, <1>8, <1>9, <1>10, <1>11, <1>13 DEF KeyInv

DepositedDoc(M, n, t, N) ==
  /\ N.seen = M.seen
  /\ N.box = [M.box EXCEPT ![n] = IF @ = None THEN [ig |-> {}, dep |-> t] ELSE @]
  /\ N.tomb = [M.tomb EXCEPT ![n] = None]

\* What persist_entry does to the document.
LEMMA AcceptedDoc ==
  ASSUME NEW t \in Nat, NEW M \in Doc, NEW n \in Msg
  PROVE  Accepted(M, n, t) \in Doc /\ DepositedDoc(M, n, t, Accepted(M, n, t))
<1> DEFINE b == [M.box EXCEPT ![n] = IF @ = None THEN [ig |-> {}, dep |-> t] ELSE @]
           z == [M.tomb EXCEPT ![n] = None]
<1>1. b \in Box
  <2>1. [ig |-> {}, dep |-> t] \in Entry
    OBVIOUS
  <2> QED
    BY <2>1
<1>2. z \in [Msg -> Time]
  OBVIOUS
<1>3. Accepted(M, n, t) = [box |-> b, seen |-> M.seen, tomb |-> z]
  <2>1. Accepted(M, n, t) = [M EXCEPT !.box = b, !.tomb = z]
    BY DEF Accepted
  <2> HIDE DEF b, z
  <2> QED
    BY <2>1
<1> HIDE DEF b, z
<1>4. M.seen \in [Msg -> Time]
  OBVIOUS
<1> QED
  BY <1>1, <1>2, <1>3, <1>4 DEF b, z, DepositedDoc

\* A deposit of key n accepted at time t, with the time the butler d minted.
LEMMA KeyDeposit ==
  ASSUME NEW a \in 0..Skew, NEW m \in Msg, NEW t \in Nat, NEW s \in Time, NEW A \in SUBSET Dev,
         NEW M \in Doc, NEW D \in Doc, NEW g \in [Msg -> Time], NEW st \in [Msg -> Time],
         NEW h \in SUBSET Msg, KeyInv(a, m, t, s, A, M, D, g, st, h),
         NEW d \in Butlers, NEW at \in Nat, t + Ahead[d] <= at, at <= t + Skew,
         NEW n \in Msg, NEW N \in Doc,
         DepositedDoc(M, n, at, N),
         NEW s2 \in Time, s # None => s <= t, s2 = IF m = n /\ s = None THEN t ELSE s,
         NEW g2 \in [Msg -> Time], g2 = [g EXCEPT ![n] = None]
  PROVE  KeyInv(a, m, t, s2, A, N, D, g2, st, h)
<1> USE DEF DepositedDoc
<1>1. CASE m # n
  BY <1>1 DEF KeyInv, BoxKey, TimeKey, TombKey, HoldKey, TtlKey, First, StampKey, GoneKey
<1>2. CASE m = n
  <2>1. /\ N.box[m] = IF M.box[m] = None THEN [ig |-> {}, dep |-> at] ELSE M.box[m]
        /\ N.tomb[m] = None /\ g2[m] = None /\ N.seen[m] = M.seen[m]
        /\ N.box[m] # None /\ s2 # None /\ (s # None => s2 = s) /\ s2 <= t /\ s2 \in Int
    BY <1>2
  <2>2. BoxKey(m, t, s2, A, N, D)
    <3>1. Sound(t, s2, A, M.box[m]) /\ Sound(t, s2, A, D.box[m])
      BY <2>1 DEF KeyInv, BoxKey, Sound
    <3>2. \A f \in Dev : s2 + Ahead[f] <= at + Lag
      <4> SUFFICES ASSUME NEW f \in Dev PROVE s2 + Ahead[f] <= at + Lag
        OBVIOUS
      <4>1. Ahead[f] <= Ahead[d] + Lag
        BY ClockAssumption
      <4>2. d \in Dev
        OBVIOUS
      <4> QED
        BY <2>1, <4>1, <4>2, AheadType
    <3>3. M.box[m] = None => Sound(t, s2, A, N.box[m])
      BY <2>1, <3>2 DEF Sound
    <3> QED
      BY <2>1, <3>1, <3>3 DEF BoxKey
  <2>3. TimeKey(m, t, s2, N, D, g2)
    BY <2>1 DEF KeyInv, TimeKey, Past
  <2>4. TombKey(m, N) /\ HoldKey(m, t, N, D, h) /\ TtlKey(a, m, N, D, st)
    <3>1. M.seen[m] # None => N.box[m] = M.box[m]
      BY <2>1 DEF KeyInv, TombKey
    <3>2. First(m, N, st) = First(m, M, st)
      BY <2>1 DEF First
    <3> QED
      BY <2>1, <3>1, <3>2 DEF KeyInv, TombKey, HoldKey, TtlKey
  <2>5. StampKey(a, m, N, st) /\ GoneKey(m, t, N, D, g2)
    BY <2>1 DEF KeyInv, StampKey, GoneKey
  <2> QED
    BY <2>2, <2>3, <2>4, <2>5 DEF KeyInv
<1> QED
  BY <1>1, <1>2
----------------------------------------------------------------------------
(***************************************************************************)
(* Types.                                                                  *)
(***************************************************************************)
HIDE DEF Doc, Box, Entry, Time

TypeDocs == now \in Nat /\ mem \in [Dev -> Doc] /\ disk \in [Dev -> Doc] /\ pub \in [Dev -> Box]
TypeSeen == \A d \in Dev : \A m \in Msg : mem[d].seen[m] # None => mem[d].box[m] # None
TypeCtl  ==
  /\ fresh \in [Dev -> SUBSET Dev] /\ dirty \in [Dev -> BOOLEAN] /\ asked \in [Dev -> SUBSET Msg]
  /\ task \in [Dev -> [pc : {"select", "persist", "down"}, ok : BOOLEAN, by : Msg \cup {None}]]
  /\ nudge \in [Dev -> BOOLEAN] /\ latch \in [Dev -> BOOLEAN]
  /\ sweeper \in [Dev -> {"waiting", "sidecars"}]
TypeOwn  ==
  /\ own \in [Dev -> SUBSET Msg] /\ unsaved \in [Dev -> SUBSET Msg]
  /\ lost \in [Dev -> SUBSET Msg] /\ holds \in [Dev -> SUBSET Msg]
  /\ failed \subseteq Msg /\ acked \subseteq Msg
TypeHist ==
  /\ since \in [Msg -> Time] /\ stamped \in [Dev -> [Msg -> Time]] /\ gone \in [Dev -> [Msg -> Time]]
  /\ left \in [Events -> Nat]

Types == TypeDocs /\ TypeSeen /\ TypeCtl /\ TypeOwn /\ TypeHist

\* The type invariant in parts.
LEMMA TypeParts == TypeOK <=> Types
<1>1. TypeOK => Types
  BY DEF TypeOK, Types, TypeDocs, TypeSeen, TypeCtl, TypeOwn, TypeHist
<1>2. Types => TypeOK
  BY DEF TypeOK, Types, TypeDocs, TypeSeen, TypeCtl, TypeOwn, TypeHist
<1> QED
  BY <1>1, <1>2

USE DEF engineVars, sweepVars, ownVars, ackVars, historyVars

\* The types hold at first.
LEMMA TypeInit == Init => Types
<1> SUFFICES ASSUME Init PROVE Types
  OBVIOUS
<1>1. Nothing \in [Msg -> Time] /\ Nothing \in Box /\ Empty \in Doc
  BY DEF Nothing, Empty, Time, Box, Doc, Entry
<1>2. TypeDocs
  BY <1>1 DEF Init, TypeDocs
<1>3. TypeSeen
  BY DEF Init, TypeSeen, Empty, Nothing
<1>4. TypeCtl
  BY DEF Init, TypeCtl, Select
<1>5. TypeOwn
  BY DEF Init, TypeOwn
<1>6. TypeHist
  BY <1>1, ScenarioAssumption DEF Init, TypeHist
<1> QED
  BY <1>2, <1>3, <1>4, <1>5, <1>6 DEF Types

\* Budgets stay natural numbers.
LEMMA SpendType ==
  ASSUME NEW e \in Events, left \in [Events -> Nat], Spend(e)
  PROVE  left' \in [Events -> Nat]
<1>1. left[e] - 1 \in Nat
  BY DEF Spend
<1> QED
  BY <1>1 DEF Spend

\* What a persist does to the files.
LEMMA PersistType ==
  ASSUME TypeDocs, TypeHist, NEW d \in Dev, NEW k \in 0..3, Persist(d, k)
  PROVE  /\ disk' \in [Dev -> Doc] /\ gone' \in [Dev -> [Msg -> Time]]
         /\ disk'[d] = Written(disk[d], mem[d], k)
         /\ \A m \in Msg : gone'[d][m] = IF k > 0 /\ mem[d].tomb[m] # None THEN mem[d].tomb[m]
                                         ELSE gone[d][m]
         /\ \A e \in Dev \ {d} : disk'[e] = disk[e] /\ gone'[e] = gone[e]
<1>1. Written(disk[d], mem[d], k) \in Doc
  BY WrittenFiles DEF TypeDocs
<1>2. mem[d].tomb \in [Msg -> Time]
  BY DEF TypeDocs, Doc
<1>3. disk' \in [Dev -> Doc] /\ disk'[d] = Written(disk[d], mem[d], k)
  BY <1>1 DEF Persist, TypeDocs
<1>4. gone' \in [Dev -> [Msg -> Time]]
  BY <1>2 DEF Persist, TypeHist
<1>5. \A m \in Msg : gone'[d][m] = IF k > 0 /\ mem[d].tomb[m] # None THEN mem[d].tomb[m]
                                   ELSE gone[d][m]
  BY DEF Persist, TypeHist
<1>6. \A e \in Dev \ {d} : disk'[e] = disk[e] /\ gone'[e] = gone[e]
  BY DEF Persist, TypeHist, TypeDocs
<1> QED
  BY <1>3, <1>4, <1>5, <1>6

\* What the publish leg changes.
LEMMA PublishType ==
  ASSUME Types, NEW d \in Dev, NEW m \in Msg \cup {None}, Publish(d, m)
  PROVE  /\ pub' \in [Dev -> Box] /\ fresh' \in [Dev -> SUBSET Dev] /\ dirty' \in [Dev -> BOOLEAN]
         /\ task' \in [Dev -> [pc : {"select", "persist", "down"}, ok : BOOLEAN, by : Msg \cup {None}]]
         /\ left' \in [Events -> Nat]
         /\ task'[d].by = m
         /\ \A e \in Dev : pub'[e] = pub[e] \/ pub'[e] = mem[e].box
         /\ \A e \in Dev \ {d} : task'[e] = task[e]
<1>1. mem[d].box \in Box
  BY DEF Types, TypeDocs, Doc
<1>2. pub' \in [Dev -> Box] /\ \A e \in Dev : pub'[e] = pub[e] \/ pub'[e] = mem[e].box
  BY <1>1 DEF Publish, Types, TypeDocs
<1>3. fresh' \in [Dev -> SUBSET Dev]
  <2>1. fresh \in [Dev -> SUBSET Dev]
    BY DEF Types, TypeCtl
  <2>2. \/ fresh' = [e \in Dev |-> IF e = d THEN fresh[e] ELSE fresh[e] \cup {d}]
        \/ fresh' = fresh
    BY DEF Publish
  <2> QED
    BY <2>1, <2>2
<1>4. dirty' \in [Dev -> BOOLEAN]
  BY DEF Publish, Types, TypeCtl
<1>5. /\ task' \in [Dev -> [pc : {"select", "persist", "down"}, ok : BOOLEAN, by : Msg \cup {None}]]
      /\ task'[d].by = m /\ \A e \in Dev \ {d} : task'[e] = task[e]
  <2>1. PICK b \in BOOLEAN : task' = [task EXCEPT ![d] = [pc |-> "persist", ok |-> b, by |-> m]]
    BY DEF Publish
  <2>2. [pc |-> "persist", ok |-> b, by |-> m]
          \in [pc : {"select", "persist", "down"}, ok : BOOLEAN, by : Msg \cup {None}]
    OBVIOUS
  <2>3. task'[d] = [pc |-> "persist", ok |-> b, by |-> m]
    BY <2>1 DEF Types, TypeCtl
  <2> QED
    BY <2>1, <2>2, <2>3 DEF Types, TypeCtl
<1>6. left' \in [Events -> Nat]
  BY SpendType DEF Publish, Types, TypeHist, Events
<1> QED
  BY <1>2, <1>3, <1>4, <1>5, <1>6

\* What a device finds when it starts.
LEMMA ReloadType ==
  ASSUME Types, NEW d \in Dev, disk' \in [Dev -> Doc], UNCHANGED <<now, pub>>, Reload(d)
  PROVE  /\ TypeDocs' /\ TypeSeen' /\ stamped' \in [Dev -> [Msg -> Time]]
         /\ mem'[d] = Restored(disk'[d], d, now)
         /\ \A m \in Msg : stamped'[d][m] = IF mem'[d].box[m] # None THEN stamped[d][m] ELSE None
         /\ \A e \in Dev \ {d} : mem'[e] = mem[e] /\ stamped'[e] = stamped[e]
<1> DEFINE B == Restored(disk'[d], d, now)
<1>1. B \in Doc /\ \A m \in Msg : BootedKey(disk'[d], Ahead[d], now, B, m)
  BY Booted DEF Types, TypeDocs
<1> HIDE DEF B
<1>2. /\ mem' = [mem EXCEPT ![d] = B]
      /\ stamped' = [stamped EXCEPT ![d] = [m \in Msg |-> IF m \in Held(B) THEN @[m] ELSE None]]
  BY DEF Reload, B
<1>3. \A m \in Msg : B.box[m] = None => B.seen[m] = None
  BY <1>1 DEF BootedKey
<1>4. TypeDocs'
  BY <1>1, <1>2 DEF Types, TypeDocs
<1>5. TypeSeen'
  BY <1>2, <1>3 DEF Types, TypeDocs, TypeSeen
<1>6. None \in Time
  BY DEF Time
<1>7. stamped' \in [Dev -> [Msg -> Time]]
  BY <1>2, <1>6 DEF Types, TypeHist
<1>8. /\ mem'[d] = B
      /\ \A m \in Msg : stamped'[d][m] = IF B.box[m] # None THEN stamped[d][m] ELSE None
      /\ \A e \in Dev \ {d} : mem'[e] = mem[e] /\ stamped'[e] = stamped[e]
  BY <1>2 DEF Types, TypeDocs, TypeHist
<1> QED
  BY <1>4, <1>5, <1>7, <1>8 DEF B

\* Every action keeps the types.
LEMMA TypeStep == Types /\ [Next]_vars => Types'
<1> SUFFICES ASSUME Types, [Next]_vars PROVE Types'
  OBVIOUS
<1> USE DEF Types
<1>1. ASSUME Clock PROVE Types'
  <2>1. TypeDocs' /\ TypeSeen' /\ TypeCtl'
    BY <1>1 DEF Clock, TypeDocs, TypeSeen, TypeCtl
  <2>2. TypeOwn'
    BY <1>1 DEF Clock, TypeOwn
  <2>3. TypeHist'
    BY <1>1, SpendType DEF Clock, TypeHist, Events
  <2> QED
    BY <2>1, <2>2, <2>3
<1>2. ASSUME NEW d \in Dev, WakeArm(d) PROVE Types'
  <2>1. TypeDocs' /\ TypeCtl' /\ left' \in [Events -> Nat]
    BY <1>2, PublishType DEF WakeArm, TypeDocs, TypeCtl
  <2>2. TypeSeen' /\ TypeOwn' /\ TypeHist'
    BY <1>2, <2>1 DEF WakeArm, TypeSeen, TypeOwn, TypeHist
  <2> QED
    BY <2>1, <2>2
<1>3. ASSUME NEW d \in Dev, NEW m \in Msg, FlushArm(d, m) PROVE Types'
  <2>1. TypeDocs' /\ TypeCtl' /\ left' \in [Events -> Nat]
    BY <1>3, PublishType DEF FlushArm, TypeDocs, TypeCtl
  <2>2. TypeSeen' /\ TypeOwn' /\ TypeHist'
    BY <1>3, <2>1 DEF FlushArm, TypeSeen, TypeOwn, TypeHist
  <2> QED
    BY <2>1, <2>2
<1>4. ASSUME NEW d \in Dev, NEW e \in Dev, Merge(d, e) PROVE Types'
  <2> DEFINE N == MergeFrom(mem[d], pub[e], now)
  <2>1. /\ N \in Doc /\ N.seen = mem[d].seen
        /\ \A m \in Msg : MergedEntry(mem[d], pub[e], N, m)
    BY Merged DEF TypeDocs
  <2>2. mem' = [mem EXCEPT ![d] = N]
    BY <1>4 DEF Merge
  <2> HIDE DEF N
  <2>3. TypeDocs'
    BY <1>4, <2>1, <2>2 DEF Merge, TypeDocs
  <2>4. \A m \in Msg : mem[d].box[m] # None => N.box[m] # None
    BY <2>1 DEF MergedEntry
  <2>5. TypeSeen'
    BY <2>1, <2>2, <2>4 DEF TypeSeen, TypeDocs
  <2>6. nudge' \in [Dev -> BOOLEAN]
    <3>1. Changed(mem[d], N) \in BOOLEAN
      BY DEF Changed
    <3> QED
      BY <1>4 DEF Merge, TypeCtl, Changed
  <2>7. TypeCtl'
    BY <1>4, <2>6 DEF Merge, TypeCtl
  <2>8. TypeOwn' /\ TypeHist'
    BY <1>4 DEF Merge, TypeOwn, TypeHist
  <2> QED
    BY <2>3, <2>5, <2>7, <2>8
<1>5. ASSUME NEW d \in Dev, NEW k \in 0..3, TaskPersist(d, k) PROVE Types'
  <2>1. disk' \in [Dev -> Doc] /\ gone' \in [Dev -> [Msg -> Time]]
    BY <1>5, PersistType DEF TaskPersist
  <2>2. TypeDocs' /\ TypeSeen'
    BY <1>5, <2>1 DEF TaskPersist, TypeDocs, TypeSeen
  <2>3. nudge' \in [Dev -> BOOLEAN]
    BY <1>5 DEF TaskPersist, TypeCtl, Answered
  <2>4. TypeCtl'
    BY <1>5, <2>3 DEF TaskPersist, TypeCtl, Select
  <2>5. TypeOwn'
    BY <1>5 DEF TaskPersist, TypeOwn, TypeCtl, Answered
  <2>6. TypeHist'
    BY <1>5, <2>1, SpendType DEF TaskPersist, TypeHist, Events
  <2> QED
    BY <2>2, <2>4, <2>5, <2>6
<1>6. ASSUME NEW d \in Dev, NEW k \in 0..3, SweeperPersist(d, k) PROVE Types'
  <2>1. disk' \in [Dev -> Doc] /\ gone' \in [Dev -> [Msg -> Time]]
    BY <1>6, PersistType DEF SweeperPersist
  <2>2. TypeDocs' /\ TypeSeen'
    BY <1>6, <2>1 DEF SweeperPersist, TypeDocs, TypeSeen
  <2>3. TypeCtl'
    BY <1>6 DEF SweeperPersist, TypeCtl
  <2>4. TypeOwn'
    BY <1>6 DEF SweeperPersist, TypeOwn
  <2>5. TypeHist'
    BY <1>6, <2>1, SpendType DEF SweeperPersist, TypeHist, Events
  <2> QED
    BY <2>2, <2>3, <2>4, <2>5
<1>7. ASSUME NEW d \in Dev, Sweep(d) PROVE Types'
  <2>1. PICK bad \in SUBSET Pending(d) :
          LET good == Pending(d) \ bad
              signed == SignFor(mem[d], good, d)
              N == GcExpired(signed, Covered(mem[d]), now)
              changed == good # {} \/ Held(N) # Held(signed)
          IN /\ IF bad = {} THEN UNCHANGED left ELSE Spend("reject")
             /\ nudge' = [nudge EXCEPT ![d] = FALSE]
             /\ mem' = [mem EXCEPT ![d] = N]
             /\ own' = [own EXCEPT ![d] = @ \cup good]
             /\ unsaved' = [unsaved EXCEPT ![d] = @ \cup (good \ own[d])]
             /\ failed' = failed \cup bad
             /\ dirty' = [dirty EXCEPT ![d] = @ \/ changed]
             /\ holds' = [holds EXCEPT ![d] = @ \cap Held(N)]
             /\ stamped' = [stamped EXCEPT ![d] = [m \in Msg |->
                              IF m \notin Held(N) THEN None
                              ELSE IF @[m] = None THEN N.seen[m] ELSE @[m]]]
    BY <1>7 DEF Sweep
  <2> DEFINE good == Pending(d) \ bad
             S == SignFor(mem[d], good, d)
             N == GcExpired(S, Covered(mem[d]), now)
  <2>2. good \in SUBSET Held(mem[d]) /\ good \subseteq Msg /\ bad \subseteq Msg
        /\ Covered(mem[d]) \in SUBSET Msg
    BY DEF Pending, Covered
  <2>3. S \in Doc
    BY <2>2, SignedDoc DEF TypeDocs
  <2>4. N \in Doc /\ \A m \in Msg : N.box[m] = None => N.seen[m] = None
    <3> HIDE DEF S
    <3>1. N \in Doc /\ \A m \in Msg : CollectedKey(S, Covered(mem[d]), now, N, m)
      BY <2>2, <2>3, Collected DEF TypeDocs
    <3> HIDE DEF N
    <3> QED
      BY <3>1 DEF CollectedKey
  <2>5. TypeDocs' /\ TypeSeen'
    <3> HIDE DEF N, S
    <3>1. mem' = [mem EXCEPT ![d] = N] /\ UNCHANGED <<now, disk, pub>>
      BY <2>1, <1>7 DEF N, S, Sweep
    <3> QED
      BY <2>4, <3>1 DEF TypeDocs, TypeSeen
  <2>6. TypeCtl'
    <3>1. UNCHANGED <<fresh, asked, task, latch>>
      BY <1>7 DEF Sweep
    <3>2. sweeper' \in [Dev -> {"waiting", "sidecars"}]
      BY <1>7 DEF Sweep, TypeCtl
    <3>3. dirty' \in [Dev -> BOOLEAN] /\ nudge' \in [Dev -> BOOLEAN]
      <4> HIDE DEF S, N, good
      <4>1. /\ dirty' = [dirty EXCEPT ![d] = @ \/ (good # {} \/ Held(N) # Held(S))]
            /\ nudge' = [nudge EXCEPT ![d] = FALSE]
        BY <2>1 DEF S, N, good
      <4> QED
        BY <4>1 DEF TypeCtl
    <3> QED
      BY <3>1, <3>2, <3>3 DEF TypeCtl
  <2>7. TypeOwn'
    <3> HIDE DEF N, S, good
    <3>1. /\ own' = [own EXCEPT ![d] = @ \cup good]
          /\ unsaved' = [unsaved EXCEPT ![d] = @ \cup (good \ own[d])]
          /\ failed' = failed \cup bad /\ holds' = [holds EXCEPT ![d] = @ \cap Held(N)]
          /\ UNCHANGED <<lost, acked>>
      BY <2>1, <1>7 DEF N, S, good, Sweep
    <3> QED
      BY <2>2, <3>1 DEF TypeOwn
  <2>8. TypeHist'
    <3> HIDE DEF N, S, good
    <3>1. stamped' = [stamped EXCEPT ![d] = [m \in Msg |->
                              IF m \notin Held(N) THEN None
                              ELSE IF @[m] = None THEN N.seen[m] ELSE @[m]]]
          /\ UNCHANGED <<since, gone>>
      BY <2>1, <1>7 DEF N, S, good, Sweep
    <3>2. N.seen \in [Msg -> Time] /\ None \in Time
      BY <2>4 DEF Doc, Time
    <3>3. stamped' \in [Dev -> [Msg -> Time]]
      BY <3>1, <3>2 DEF TypeHist
    <3>4. left' \in [Events -> Nat]
      BY <2>1, SpendType DEF TypeHist, Events
    <3> QED
      BY <3>1, <3>3, <3>4 DEF TypeHist
  <2> QED
    BY <2>5, <2>6, <2>7, <2>8
<1>8. ASSUME NEW d \in Dev, NEW k \in 0..3, NEW away \in SUBSET unsaved[d], Crash(d, k, away)
      PROVE  Types'
  <2>1. disk' \in [Dev -> Doc] /\ gone' \in [Dev -> [Msg -> Time]]
    BY <1>8, PersistType DEF Crash
  <2>2. UNCHANGED <<now, pub>> /\ Reload(d)
    BY <1>8 DEF Crash
  <2>3. TypeDocs' /\ TypeSeen' /\ stamped' \in [Dev -> [Msg -> Time]]
    BY <2>1, <2>2, ReloadType
  <2>4. TypeCtl'
    BY <1>8 DEF Crash, TypeCtl, Down, Select
  <2>5. TypeOwn'
    BY <1>8 DEF Crash, TypeOwn
  <2>6. TypeHist'
    <3>1. left' \in [Events -> Nat]
      BY <1>8, SpendType DEF Crash, TypeHist, Events
    <3> QED
      BY <1>8, <2>1, <2>3, <3>1 DEF Crash, TypeHist
  <2> QED
    BY <2>3, <2>4, <2>5, <2>6
<1>b. ASSUME NEW d \in Dev, Boot(d) PROVE Types'
  <2>1. UNCHANGED <<now, pub, disk>> /\ Reload(d) /\ disk' \in [Dev -> Doc]
    BY <1>b DEF Boot, TypeDocs
  <2>2. TypeDocs' /\ TypeSeen' /\ stamped' \in [Dev -> [Msg -> Time]]
    BY <2>1, ReloadType
  <2>3. TypeCtl'
    BY <1>b DEF Boot, TypeCtl, Select
  <2>4. TypeOwn' /\ TypeHist'
    BY <1>b, <2>2 DEF Boot, TypeOwn, TypeHist
  <2> QED
    BY <2>2, <2>3, <2>4
<1>9. ASSUME NEW d \in Dev, NEW m \in Msg, Deposit(d, m) PROVE Types'
  <2>0. PICK at \in Minted(d) : mem' = [mem EXCEPT ![d] = Accepted(mem[d], m, at)]
    BY <1>9 DEF Deposit
  <2>a. at \in Nat
    BY AheadType DEF Minted, TypeDocs
  <2>1. Accepted(mem[d], m, at) \in Doc
    BY <2>a, AcceptedDoc DEF TypeDocs
  <2>2. TypeDocs'
    BY <1>9, <2>0, <2>1 DEF Deposit, TypeDocs
  <2>3. TypeSeen'
    BY <2>0, <2>a DEF TypeSeen, TypeDocs, Accepted, Doc, Box
  <2>4. TypeCtl' /\ TypeOwn'
    BY <1>9 DEF Deposit, TypeCtl, TypeOwn
  <2>5. TypeHist'
    BY <1>9, SpendType DEF Deposit, TypeHist, TypeDocs, Events, Time
  <2> QED
    BY <2>2, <2>3, <2>4, <2>5
<1>10. CASE UNCHANGED vars
  BY <1>10 DEF vars, TypeDocs, TypeSeen, TypeCtl, TypeOwn, TypeHist
<1> QED
  BY <1>1, <1>2, <1>3, <1>4, <1>5, <1>6, <1>7, <1>8, <1>b, <1>9, <1>10
     DEF Next, EngineNext, SweeperNext
----------------------------------------------------------------------------
(***************************************************************************)
(* The invariant, key by key and device by device.                         *)
(***************************************************************************)
Has(m) == {e \in Dev : m \in own[e] \cup lost[e]}

KeyOK(e, m)  == KeyInv(Ahead[e], m, now, since[m], Has(m), mem[e], disk[e], gone[e], stamped[e], holds[e])
PubOK(e, m)  == Sound(now, since[m], Has(m), pub[e][m])
WaitOK(e, m) == m \in asked[e] \/ task[e].by = m
                  => since[m] # None /\ (mem[e].box[m] # None \/ Done(m))
Point(e, m)  == KeyOK(e, m) /\ PubOK(e, m) /\ WaitOK(e, m)

\* The invariant of every key follows from IInv.
LEMMA PointFromIInv ==
  ASSUME IInv, NEW e \in Dev, NEW m \in Msg
  PROVE  Point(e, m)
<1>1. Types
  BY TypeParts DEF IInv
<1>2. pub[e][m] # None => pub[e][m].ig \subseteq Dev
  BY <1>1 DEF Types, TypeDocs, Box, Entry
<1>3. /\ mem[e].box[m] # None => mem[e].box[m].ig \subseteq Dev
      /\ disk[e].box[m] # None => disk[e].box[m].ig \subseteq Dev
  BY <1>1 DEF Types, TypeDocs, Doc, Box, Entry
<1>4. BoxKey(m, now, since[m], Has(m), mem[e], disk[e])
  <2>1. Timely(mem[e].box) /\ Timely(disk[e].box) /\ Signed(mem[e].box) /\ Signed(disk[e].box)
    BY DEF IInv, TimeInv, SignInv
  <2>2. since[m] # None => since[m] <= now
    BY DEF IInv, SinceInv
  <2> QED
    BY <1>3, <2>1, <2>2 DEF Timely, Plausible, Signed, BoxKey, Sound, Has
<1>5. TimeKey(m, now, since[m], mem[e], disk[e], gone[e])
  BY DEF IInv, TimeInv, Known, TimeKey, Past
<1>6. TombKey(m, mem[e])
  BY <1>1 DEF IInv, NoLiveTombstone, TombKey, Types, TypeSeen
<1>7. /\ HoldKey(m, now, mem[e], disk[e], holds[e])
      /\ TtlKey(Ahead[e], m, mem[e], disk[e], stamped[e])
  BY DEF IInv, HoldInv, HoldKey, TtlInv, TtlKey, FirstStamp, First, Lead
<1>8. /\ StampKey(Ahead[e], m, mem[e], stamped[e])
      /\ GoneKey(m, now, mem[e], disk[e], gone[e])
  BY DEF IInv, TtlNeverRestarts, StampKey, GoneInv, GoneKey, Lead
<1>9. PubOK(e, m)
  <2>1. Timely(pub[e]) /\ Signed(pub[e]) /\ (since[m] # None => since[m] <= now)
    BY DEF IInv, TimeInv, SignInv, SinceInv
  <2> QED
    BY <1>2, <2>1 DEF Timely, Plausible, Signed, PubOK, Sound, Has
<1>10. WaitOK(e, m)
  BY DEF IInv, WaitInv, WaitOK
<1> QED
  BY <1>4, <1>5, <1>6, <1>7, <1>8, <1>9, <1>10 DEF Point, KeyOK, KeyInv

AllPoints == \A e \in Dev : \A m \in Msg : Point(e, m)

\* IInv from the keys.
LEMMA IInvFromPoint == Types /\ AckInv /\ SinceInv /\ AllPoints => IInv
<1> SUFFICES ASSUME Types, AckInv, SinceInv, AllPoints PROVE IInv
  OBVIOUS
<1> USE DEF AllPoints
<1> USE DEF Point, KeyOK, KeyInv
<1>1. NoLiveTombstone
  BY DEF NoLiveTombstone, TombKey
<1>2. TimeInv
  <2> SUFFICES ASSUME NEW d \in Dev
               PROVE  /\ Timely(mem[d].box) /\ Timely(disk[d].box) /\ Timely(pub[d])
                      /\ \A m \in Msg : /\ mem[d].seen[m] # None => Known(m, mem[d].seen[m])
                                        /\ disk[d].seen[m] # None => Known(m, disk[d].seen[m])
                                        /\ mem[d].tomb[m] # None => mem[d].tomb[m] <= now
                                        /\ disk[d].tomb[m] # None => disk[d].tomb[m] <= now
                                        /\ gone[d][m] # None => gone[d][m] <= now
    BY DEF TimeInv
  <2>1. Timely(mem[d].box) /\ Timely(disk[d].box)
    BY DEF Timely, Plausible, BoxKey, Sound
  <2>2. Timely(pub[d])
    BY DEF Timely, Plausible, PubOK, Sound
  <2>3. ASSUME NEW m \in Msg
        PROVE  /\ mem[d].seen[m] # None => Known(m, mem[d].seen[m])
               /\ disk[d].seen[m] # None => Known(m, disk[d].seen[m])
               /\ mem[d].tomb[m] # None => mem[d].tomb[m] <= now
               /\ disk[d].tomb[m] # None => disk[d].tomb[m] <= now
               /\ gone[d][m] # None => gone[d][m] <= now
    BY DEF TimeKey, Past, Known
  <2> QED
    BY <2>1, <2>2, <2>3
<1>3. SignInv
  <2> SUFFICES ASSUME NEW d \in Dev PROVE Signed(mem[d].box) /\ Signed(disk[d].box) /\ Signed(pub[d])
    BY DEF SignInv
  <2>1. Signed(mem[d].box) /\ Signed(disk[d].box)
    BY DEF Signed, BoxKey, Sound, Has
  <2>2. Signed(pub[d])
    BY DEF Signed, PubOK, Sound, Has
  <2> QED
    BY <2>1, <2>2
<1>4. HoldInv
  BY DEF HoldInv, HoldKey, Types, TypeOwn
<1>5. WaitInv
  BY DEF WaitInv, WaitOK
<1>6. TtlInv
  BY DEF TtlInv, TtlKey, FirstStamp, First, Lead
<1>7. TtlNeverRestarts
  BY DEF TtlNeverRestarts, StampKey, Lead
<1>8. GoneInv
  BY DEF GoneInv, GoneKey
<1> QED
  BY <1>1, <1>2, <1>3, <1>4, <1>5, <1>6, <1>7, <1>8, TypeParts DEF IInv

\* What no step takes back.
Later == /\ now <= now'
         /\ \A m \in Msg : since[m] # None => since'[m] = since[m]
         /\ \A e \in Dev : own[e] \cup lost[e] \subseteq own'[e] \cup lost'[e]

\* Every step only adds.
LEMMA LaterStep == Types /\ [Next]_vars => Later
<1> SUFFICES ASSUME Types, [Next]_vars PROVE Later
  OBVIOUS
<1> USE DEF Types, TypeDocs, TypeOwn, TypeHist
<1>1. CASE Clock
  BY <1>1 DEF Clock, Later
<1>2. ASSUME NEW d \in Dev, WakeArm(d) \/ (\E m \in Msg : FlushArm(d, m)) \/ (\E e \in Dev : Merge(d, e))
      PROVE  Later
  BY <1>2 DEF WakeArm, FlushArm, Merge, Later
<1>3. ASSUME NEW d \in Dev, NEW k \in 0..3, TaskPersist(d, k) \/ SweeperPersist(d, k)
      PROVE  Later
  BY <1>3 DEF TaskPersist, SweeperPersist, Later
<1>4. ASSUME NEW d \in Dev, Sweep(d) PROVE Later
  <2>1. PICK good : own' = [own EXCEPT ![d] = @ \cup good]
    BY <1>4 DEF Sweep
  <2>2. UNCHANGED <<now, since, lost>>
    BY <1>4 DEF Sweep
  <2> QED
    BY <2>1, <2>2 DEF Later
<1>5. ASSUME NEW d \in Dev, NEW k \in 0..3, NEW away \in SUBSET unsaved[d], Crash(d, k, away)
      PROVE  Later
  BY <1>5 DEF Crash, Later
<1>b. ASSUME NEW d \in Dev, Boot(d) PROVE Later
  BY <1>b DEF Boot, Later
<1>6. ASSUME NEW d \in Dev, NEW m \in Msg, Deposit(d, m) PROVE Later
  BY <1>6 DEF Deposit, Later
<1>7. CASE UNCHANGED vars
  BY <1>7 DEF vars, Later
<1> QED
  BY <1>1, <1>2, <1>3, <1>4, <1>5, <1>b, <1>6, <1>7 DEF Next, EngineNext, SweeperNext

\* What is done stays done.
LEMMA DoneLater ==
  ASSUME Types, Types', Later, NEW m \in Msg, Done(m)
  PROVE  Done(m)'
<1>1. CASE \A e \in Dev : m \in own[e] \cup lost[e]
  BY <1>1 DEF Done, Later
<1>2. CASE Overtime(m)
  BY <1>2, AheadType DEF Overtime, Done, Later, Types, TypeDocs, TypeHist, Time
<1> QED
  BY <1>1, <1>2 DEF Done

\* The invariant of a key that only the clock and the other devices concern.
LEMMA KeyOKLater ==
  ASSUME Types, Types', Later, NEW e \in Dev, NEW m \in Msg,
         NEW M \in Doc, NEW D \in Doc, NEW g \in [Msg -> Time], NEW st \in [Msg -> Time],
         NEW h \in SUBSET Msg, KeyInv(Ahead[e], m, now, since[m], Has(m), M, D, g, st, h)
  PROVE  KeyInv(Ahead[e], m, now', since'[m], Has(m)', M, D, g, st, h)
<1>1. /\ now \in Nat /\ now' \in Nat /\ since[m] \in Time /\ since'[m] \in Time
      /\ Has(m) \in SUBSET Dev /\ Has(m)' \in SUBSET Dev
  BY DEF Types, TypeDocs, TypeHist, Has
<1>2. now <= now' /\ (since[m] # None => since'[m] = since[m]) /\ Has(m) \subseteq Has(m)'
  BY DEF Later, Has
<1>3. Ahead[e] \in 0..Skew
  BY AheadType
<1> QED
  BY <1>1, <1>2, <1>3, KeyLater

\* A sound entry stays sound.
LEMMA SoundLater ==
  ASSUME Types, Types', Later, NEW m \in Msg, NEW x \in Entry \cup {None},
         Sound(now, since[m], Has(m), x)
  PROVE  Sound(now', since'[m], Has(m)', x)
<1>1. now \in Nat /\ now' \in Nat /\ now <= now' /\ Skew \in Nat /\ Has(m) \subseteq Has(m)'
  BY AheadType DEF Types, TypeDocs, Later, Has
<1>2. since[m] # None => since'[m] = since[m] /\ since[m] \in Int
  BY DEF Types, TypeHist, Later, Time
<1> QED
  BY <1>1, <1>2 DEF Sound, Entry

\* A device that keeps its documents, publishes its own and takes up what was asked.
LEMMA Stays ==
  ASSUME Types, Types', Later, NEW e \in Dev, NEW m \in Msg, Point(e, m),
         mem'[e] = mem[e], disk'[e] = disk[e], gone'[e] = gone[e],
         stamped'[e] = stamped[e], holds'[e] = holds[e],
         pub'[e] = pub[e] \/ pub'[e] = mem[e].box,
         asked'[e] \subseteq asked[e], task'[e].by \in asked[e] \cup {task[e].by, None}
  PROVE  Point(e, m)'
<1>1. /\ mem[e] \in Doc /\ disk[e] \in Doc /\ gone[e] \in [Msg -> Time]
      /\ stamped[e] \in [Msg -> Time] /\ holds[e] \in SUBSET Msg
  BY DEF Types, TypeDocs, TypeHist, TypeOwn
<1>2. KeyOK(e, m)'
  BY <1>1, KeyOKLater DEF Point, KeyOK
<1>3. PubOK(e, m)'
  <2>1. mem[e].box[m] \in Entry \cup {None} /\ pub[e][m] \in Entry \cup {None}
    BY <1>1 DEF Types, TypeDocs, Doc, Box
  <2>2. Sound(now, since[m], Has(m), mem[e].box[m]) /\ Sound(now, since[m], Has(m), pub[e][m])
    BY DEF Point, KeyOK, KeyInv, BoxKey, PubOK
  <2>3. Sound(now', since'[m], Has(m)', mem[e].box[m]) /\ Sound(now', since'[m], Has(m)', pub[e][m])
    BY <2>1, <2>2, SoundLater
  <2> QED
    BY <2>3 DEF PubOK
<1>4. WaitOK(e, m)'
  <2>1. m \in asked'[e] \/ task'[e].by = m => m \in asked[e] \/ task[e].by = m
    OBVIOUS
  <2> QED
    BY <2>1, DoneLater DEF Point, WaitOK, Later
<1> QED
  BY <1>2, <1>3, <1>4 DEF Point

\* A published document that stays.
LEMMA PubStays ==
  ASSUME Types, Types', Later, NEW e \in Dev, NEW m \in Msg, PubOK(e, m), pub' = pub
  PROVE  PubOK(e, m)'
<1>1. pub[e][m] \in Entry \cup {None}
  BY DEF Types, TypeDocs, Box
<1> QED
  BY <1>1, SoundLater DEF PubOK

\* Nobody new waits, and entries go only when done.
LEMMA WaitStays ==
  ASSUME Types, Types', Later, NEW e \in Dev, NEW m \in Msg, WaitOK(e, m),
         asked'[e] \subseteq asked[e], task'[e].by \in asked[e] \cup {task[e].by, None},
         mem[e].box[m] # None => mem'[e].box[m] # None \/ Done(m)'
  PROVE  WaitOK(e, m)'
<1>1. m \in asked'[e] \/ task'[e].by = m => m \in asked[e] \/ task[e].by = m
  OBVIOUS
<1> QED
  BY <1>1, DoneLater DEF WaitOK, Later

\* The values a key's invariant speaks of have their types.
LEMMA KeyTypes ==
  ASSUME Types, NEW e \in Dev, NEW m \in Msg
  PROVE  /\ now \in Nat /\ since[m] \in Time /\ Has(m) \in SUBSET Dev /\ Ahead[e] \in 0..Skew
         /\ mem[e] \in Doc /\ disk[e] \in Doc /\ gone[e] \in [Msg -> Time]
         /\ stamped[e] \in [Msg -> Time] /\ holds[e] \in SUBSET Msg /\ pub[e] \in Box
  BY AheadType DEF Types, TypeDocs, TypeHist, TypeOwn, Has

\* One persist, whoever asks for it.
LEMMA PersistPoint ==
  ASSUME Types, Types', Later, NEW d \in Dev, NEW k \in 0..3, NEW m \in Msg, Point(d, m),
         Persist(d, k), UNCHANGED <<now, since, own, lost, mem, pub, asked, stamped>>,
         task'[d].by \in {task[d].by, None},
         m \in holds'[d] => m \in holds[d] \/ (k = 3 /\ mem[d].box[m] # None)
  PROVE  Point(d, m)'
<1>1. /\ disk'[d] = Written(disk[d], mem[d], k)
      /\ gone'[d][m] = IF k > 0 /\ mem[d].tomb[m] # None THEN mem[d].tomb[m] ELSE gone[d][m]
  BY PersistType DEF Types
<1>2. KeyInv(Ahead[d], m, now, since[m], Has(m), mem[d], disk'[d], gone'[d], stamped[d], holds'[d])
  <2>1. gone'[d] \in [Msg -> Time] /\ holds'[d] \in SUBSET Msg
    BY DEF Types, TypeHist, TypeOwn
  <2>2. /\ now \in Nat /\ since[m] \in Time /\ Has(m) \in SUBSET Dev /\ Ahead[d] \in 0..Skew
        /\ mem[d] \in Doc /\ disk[d] \in Doc /\ gone[d] \in [Msg -> Time]
        /\ stamped[d] \in [Msg -> Time] /\ holds[d] \in SUBSET Msg
    BY KeyTypes
  <2>3. KeyInv(Ahead[d], m, now, since[m], Has(m), mem[d], disk[d], gone[d], stamped[d], holds[d])
    BY DEF Point, KeyOK
  <2>4. PersistKey(m, mem[d], disk[d], gone[d], holds[d], disk'[d], gone'[d], holds'[d])
    BY <1>1 DEF PersistKey
  <2> HIDE DEF Doc, Box, Time
  <2> QED
    BY <2>1, <2>2, <2>3, <2>4, KeyPersist
<1>3. Has(m)' = Has(m)
  BY DEF Has
<1>4. KeyOK(d, m)'
  BY <1>2, <1>3 DEF KeyOK
<1>5. PubOK(d, m)'
  BY PubStays DEF Point
<1>6. WaitOK(d, m)'
  BY WaitStays DEF Point
<1> QED
  BY <1>4, <1>5, <1>6 DEF Point

\* The sweep of a device, as the key m sees it.
LEMMA SweepPoint ==
  ASSUME Types, Types', Later, NEW d \in Dev, NEW m \in Msg, Point(d, m), Sweep(d)
  PROVE  Point(d, m)' /\ (m \in holds[d] => m \in holds'[d] \/ Done(m)')
<1>1. PICK bad \in SUBSET Pending(d) :
        LET N == GcExpired(SignFor(mem[d], Pending(d) \ bad, d), Covered(mem[d]), now)
        IN /\ mem' = [mem EXCEPT ![d] = N]
           /\ own' = [own EXCEPT ![d] = @ \cup (Pending(d) \ bad)]
           /\ holds' = [holds EXCEPT ![d] = @ \cap Held(N)]
           /\ stamped' = [stamped EXCEPT ![d] = [n \in Msg |->
                            IF n \notin Held(N) THEN None
                            ELSE IF @[n] = None THEN N.seen[n] ELSE @[n]]]
  BY DEF Sweep
<1> DEFINE good == Pending(d) \ bad
           S    == SignFor(mem[d], good, d)
           N    == GcExpired(S, Covered(mem[d]), now)
<1> HIDE DEF good, S, N
<1>2. UNCHANGED <<now, since, disk, gone, pub, asked, task, lost>>
  BY DEF Sweep
<1>3. /\ mem'[d] = N /\ own'[d] = own[d] \cup good
      /\ m \in holds'[d] <=> m \in holds[d] /\ N.box[m] # None
      /\ stamped'[d][m] = IF N.box[m] = None THEN None
                          ELSE IF stamped[d][m] = None THEN N.seen[m] ELSE stamped[d][m]
  BY <1>1 DEF Types, TypeDocs, TypeOwn, TypeHist, N, S, good
<1>4. good \in SUBSET Held(mem[d]) /\ Covered(mem[d]) \in SUBSET Msg /\ (m \in good => d \in Has(m)')
  BY <1>3 DEF good, Pending, Covered, Has
<1>5. KeyInv(Ahead[d], m, now, since[m], Has(m)', mem[d], disk[d], gone[d], stamped[d], holds[d])
  BY <1>2, KeyTypes, KeyOKLater DEF Point, KeyOK
<1>6. /\ now \in Nat /\ since[m] \in Time /\ Has(m)' \in SUBSET Dev
      /\ stamped'[d] \in [Msg -> Time] /\ holds'[d] \in SUBSET Msg
  BY DEF Types, TypeDocs, TypeHist, TypeOwn, Has
<1>7. /\ KeyInv(Ahead[d], m, now, since[m], Has(m)', N, disk[d], gone[d], stamped'[d], holds'[d])
      /\ mem[d].box[m] # None /\ N.box[m] = None
           => m \in Covered(mem[d]) \/ (mem[d].seen[m] # None /\ mem[d].seen[m] + TTL < now)
  <2>1. /\ mem[d] \in Doc /\ disk[d] \in Doc /\ gone[d] \in [Msg -> Time]
        /\ stamped[d] \in [Msg -> Time] /\ holds[d] \in SUBSET Msg /\ Ahead[d] \in 0..Skew
    BY KeyTypes
  <2>2. /\ S \in Doc /\ S.seen = mem[d].seen /\ S.tomb = mem[d].tomb
        /\ SignedKey(mem[d], good, d, S, m)
    BY <1>4, <2>1, SignedDoc DEF S
  <2>3. N \in Doc /\ CollectedKey(S, Covered(mem[d]), now, N, m)
    BY <1>4, <1>6, <2>2, Collected DEF N
  <2> DEFINE M == mem[d]
             D == disk[d]
             g == gone[d]
             st == stamped[d]
             st2 == stamped'[d]
             h == holds[d]
             h2 == holds'[d]
             a == Ahead[d]
             s == since[m]
             A == Has(m)'
             covered == Covered(mem[d])
  <2>4. /\ M \in Doc /\ D \in Doc /\ g \in [Msg -> Time] /\ now \in Nat /\ st \in [Msg -> Time]
        /\ h \in SUBSET Msg /\ s \in Time /\ A \in SUBSET Dev /\ a \in 0..Skew
        /\ h2 \in SUBSET Msg /\ st2 \in [Msg -> Time]
    BY <1>6, <2>1
  <2>5. /\ KeyInv(a, m, now, s, A, M, D, g, st, h) /\ (m \in good => d \in A)
        /\ S \in Doc /\ SignedKey(M, good, d, S, m) /\ S.seen = M.seen /\ S.tomb = M.tomb
        /\ N \in Doc /\ CollectedKey(S, covered, now, N, m)
        /\ m \in h2 => m \in h /\ N.box[m] # None
        /\ st2[m] = IF N.box[m] = None THEN None ELSE IF st[m] = None THEN N.seen[m] ELSE st[m]
    BY <1>3, <1>4, <1>5, <2>2, <2>3
  <2> HIDE DEF M, D, g, st, st2, h, h2, a, s, A, covered
  <2>6. /\ KeyInv(a, m, now, s, A, N, D, g, st2, h2)
        /\ M.box[m] # None /\ N.box[m] = None
             => m \in covered \/ (M.seen[m] # None /\ M.seen[m] + TTL < now)
    BY <2>4, <2>5, KeySweep
  <2> QED
    BY <2>6 DEF M, D, g, st, st2, h, h2, a, s, A, covered
<1>8. KeyOK(d, m)'
  BY <1>2, <1>3, <1>7 DEF KeyOK
<1>9. mem[d].box[m] # None => mem'[d].box[m] # None \/ Done(m)'
  <2>1. CASE m \in Covered(mem[d])
    <3>1. Dev \subseteq Has(m)
      BY <2>1 DEF Covered, Point, KeyOK, KeyInv, BoxKey, Sound
    <3>2. Done(m)
      BY <3>1 DEF Has, Done
    <3> QED
      BY <3>2, DoneLater
  <2>2. CASE mem[d].seen[m] # None /\ mem[d].seen[m] + TTL < now
    <3>1. since[m] # None /\ since[m] <= mem[d].seen[m] + Lag
      BY <2>2 DEF Point, KeyOK, KeyInv, TimeKey, Past
    <3>2. mem[d].seen[m] \in Int /\ since[m] \in Int /\ now \in Nat
      BY <2>2, <3>1, KeyTypes DEF Doc, Time
    <3>3. Done(m)
      BY <2>2, <3>1, <3>2, AheadType DEF Done, Overtime
    <3> QED
      BY <3>3, DoneLater
  <2> QED
    BY <1>3, <1>7, <2>1, <2>2
<1>10. PubOK(d, m)'
  BY <1>2, PubStays DEF Point
<1>11. WaitOK(d, m)'
  BY <1>2, <1>9, WaitStays DEF Point
<1>12. m \in holds[d] => m \in holds'[d] \/ Done(m)'
  <2>1. m \in holds[d] => mem[d].box[m] # None
    BY DEF Point, KeyOK, KeyInv, HoldKey
  <2> QED
    BY <1>3, <1>9, <2>1
<1> QED
  BY <1>8, <1>10, <1>11, <1>12 DEF Point

\* A crash, and a boot: a device persists as far as k files, and then has what its
\* files give it.
Restarts(d, k) ==
  /\ Persist(d, k) /\ Reload(d) /\ UNCHANGED <<now, since, pub, holds, acked>>
  /\ asked'[d] = {} /\ task'[d].by = None
  /\ \A e \in Dev \ {d} : asked'[e] = asked[e] /\ task'[e] = task[e]

\* A crash is one.
LEMMA CrashRestarts ==
  ASSUME Types, NEW d \in Dev, NEW k \in 0..3, NEW away, Crash(d, k, away)
  PROVE  Restarts(d, k)
  BY DEF Crash, Restarts, Down, Select, Types, TypeCtl

\* A boot is one, without a write.
LEMMA BootRestarts ==
  ASSUME Types, NEW d \in Dev, Boot(d)
  PROVE  Restarts(d, 0)
<1>1. Written(disk[d], mem[d], 0) = disk[d]
  BY DEF Written, Types, TypeDocs, Doc
<1>2. [disk EXCEPT ![d] = Written(@, mem[d], 0)] = disk
  BY <1>1 DEF Types, TypeDocs
<1>3. [gone EXCEPT ![d] = [m \in Msg |-> IF 0 > 0 /\ mem[d].tomb[m] # None THEN mem[d].tomb[m]
                                         ELSE @[m]]] = gone
  BY DEF Types, TypeHist
<1>4. Persist(d, 0)
  BY <1>2, <1>3 DEF Boot, Persist
<1> QED
  BY <1>4 DEF Boot, Restarts, Select, Types, TypeCtl

\* A device that restarts.
LEMMA RestartPoint ==
  ASSUME Types, Types', Later, NEW d \in Dev, NEW m \in Msg, Point(d, m),
         NEW k \in 0..3, Restarts(d, k)
  PROVE  Point(d, m)'
<1>1. /\ Persist(d, k) /\ UNCHANGED <<now, since, pub, holds>> /\ Reload(d)
      /\ asked'[d] = {} /\ task'[d].by = None
  BY DEF Restarts
<1>2. /\ disk'[d] = Written(disk[d], mem[d], k)
      /\ gone'[d][m] = IF k > 0 /\ mem[d].tomb[m] # None THEN mem[d].tomb[m] ELSE gone[d][m]
  BY <1>1, PersistType DEF Types
<1>3. /\ gone'[d] \in [Msg -> Time] /\ disk'[d] \in Doc /\ stamped'[d] \in [Msg -> Time]
  BY DEF Types, TypeHist, TypeDocs
<1>t. /\ mem[d] \in Doc /\ disk[d] \in Doc /\ gone[d] \in [Msg -> Time] /\ now \in Nat
      /\ stamped[d] \in [Msg -> Time] /\ holds[d] \in SUBSET Msg
      /\ since[m] \in Time /\ Has(m) \in SUBSET Dev /\ Ahead[d] \in 0..Skew
  BY KeyTypes
<1>4. KeyInv(Ahead[d], m, now, since[m], Has(m), mem[d], disk'[d], gone'[d], stamped[d], holds[d])
  <2>2. KeyInv(Ahead[d], m, now, since[m], Has(m), mem[d], disk[d], gone[d], stamped[d], holds[d])
    BY DEF Point, KeyOK
  <2>3. PersistKey(m, mem[d], disk[d], gone[d], holds[d], disk'[d], gone'[d], holds[d])
    BY <1>2 DEF PersistKey
  <2> HIDE DEF Doc, Box, Time
  <2> QED
    BY <1>3, <1>t, <2>2, <2>3, KeyPersist
<1>5. /\ mem'[d] = Restored(disk'[d], d, now)
      /\ stamped'[d][m] = IF mem'[d].box[m] # None THEN stamped[d][m] ELSE None
  <2>1. disk' \in [Dev -> Doc]
    BY DEF Types, TypeDocs
  <2> QED
    BY <1>1, <2>1, ReloadType
<1>6. KeyInv(Ahead[d], m, now, since[m], Has(m), mem'[d], disk'[d], gone'[d], stamped'[d], holds[d])
  BY <1>3, <1>4, <1>5, <1>t, KeyBoot
<1>7. mem'[d] \in Doc
  BY DEF Types, TypeDocs
<1>8. KeyInv(Ahead[d], m, now', since'[m], Has(m)', mem'[d], disk'[d], gone'[d], stamped'[d], holds[d])
  BY <1>3, <1>6, <1>7, <1>t, KeyOKLater
<1>9. KeyOK(d, m)'
  BY <1>1, <1>8 DEF KeyOK
<1>10. PubOK(d, m)'
  BY <1>1, PubStays DEF Point
<1>11. WaitOK(d, m)'
  BY <1>1 DEF WaitOK
<1> QED
  BY <1>9, <1>10, <1>11 DEF Point

\* A merge.
LEMMA MergePoint ==
  ASSUME Types, Types', Later, NEW d \in Dev, NEW e \in Dev, NEW m \in Msg,
         Point(d, m), Point(e, m), Merge(d, e)
  PROVE  Point(d, m)'
<1> DEFINE N == MergeFrom(mem[d], pub[e], now)
<1> HIDE DEF N
<1>1. /\ UNCHANGED <<now, since, disk, gone, stamped, holds, pub, asked, own, lost>>
      /\ mem' = [mem EXCEPT ![d] = N] /\ task' = [task EXCEPT ![d].pc = "persist"]
  BY DEF Merge, N
<1>2. mem'[d] = N /\ task'[d].by = task[d].by
  BY <1>1 DEF Types, TypeDocs, TypeCtl
<1>3. KeyInv(Ahead[d], m, now, since[m], Has(m), N, disk[d], gone[d], stamped[d], holds[d])
      /\ (mem[d].box[m] # None => N.box[m] # None)
  <2>1. N = MergeFrom(mem[d], pub[e], now)
    BY DEF N
  <2>2. Sound(now, since[m], Has(m), pub[e][m])
    BY DEF Point, PubOK
  <2>3. /\ mem[d] \in Doc /\ disk[d] \in Doc /\ gone[d] \in [Msg -> Time] /\ now \in Nat
        /\ stamped[d] \in [Msg -> Time] /\ holds[d] \in SUBSET Msg /\ pub[e] \in Box
        /\ since[m] \in Time /\ Has(m) \in SUBSET Dev /\ Ahead[d] \in 0..Skew
    BY KeyTypes
  <2>4. KeyInv(Ahead[d], m, now, since[m], Has(m), mem[d], disk[d], gone[d], stamped[d], holds[d])
    BY DEF Point, KeyOK
  <2> QED
    <3> DEFINE M == mem[d]
               D == disk[d]
               g == gone[d]
               st == stamped[d]
               h == holds[d]
               a == Ahead[d]
               r == pub[e]
               s == since[m]
               A == Has(m)
    <3>1. /\ M \in Doc /\ D \in Doc /\ g \in [Msg -> Time] /\ now \in Nat
          /\ st \in [Msg -> Time] /\ h \in SUBSET Msg /\ r \in Box
          /\ s \in Time /\ A \in SUBSET Dev /\ a \in 0..Skew
      BY <2>3
    <3>2. KeyInv(a, m, now, s, A, M, D, g, st, h) /\ N = MergeFrom(M, r, now) /\ Sound(now, s, A, r[m])
      BY <2>1, <2>2, <2>4
    <3> HIDE DEF M, D, g, st, h, a, r, s, A
    <3>3. KeyInv(a, m, now, s, A, N, D, g, st, h) /\ (M.box[m] # None => N.box[m] # None)
      BY <3>1, <3>2, KeyMerge
    <3> QED
      BY <3>3 DEF M, D, g, st, h, a, r, s, A
<1>4. Has(m)' = Has(m)
  BY <1>1 DEF Has
<1>5. KeyOK(d, m)'
  BY <1>1, <1>2, <1>3, <1>4 DEF KeyOK
<1>6. PubOK(d, m)'
  BY <1>1, PubStays DEF Point
<1>7. WaitOK(d, m)'
  BY <1>1, <1>2, <1>3, WaitStays DEF Point
<1> QED
  BY <1>5, <1>6, <1>7 DEF Point

\* A deposit.
LEMMA DepositPoint ==
  ASSUME Types, Types', Later, NEW d \in Dev, NEW n \in Msg, NEW m \in Msg,
         d \in Butlers, Point(d, m), SinceInv, Deposit(d, n)
  PROVE  Point(d, m)'
<1>0. PICK at \in Minted(d) : mem' = [mem EXCEPT ![d] = Accepted(mem[d], n, at)]
  BY DEF Deposit
<1>a. at \in Nat /\ now + Ahead[d] <= at /\ at <= now + Skew
  BY KeyTypes, AheadType DEF Minted
<1> DEFINE N == Accepted(mem[d], n, at)
<1> HIDE DEF N
<1>1. /\ UNCHANGED <<now, disk, stamped, holds, pub, task, own, lost>>
      /\ mem' = [mem EXCEPT ![d] = N] /\ asked' = [asked EXCEPT ![d] = @ \cup {n}]
      /\ since' = [since EXCEPT ![n] = IF @ = None THEN now ELSE @]
      /\ gone' = [gone EXCEPT ![d][n] = None]
  BY <1>0 DEF Deposit, N
<1>2. /\ mem'[d] = N /\ gone'[d] = [gone[d] EXCEPT ![n] = None]
      /\ since'[m] = IF m = n /\ since[m] = None THEN now ELSE since[m]
      /\ asked'[d] = asked[d] \cup {n}
  BY <1>1 DEF Types, TypeDocs, TypeCtl, TypeHist
<1>3. N \in Doc /\ DepositedDoc(mem[d], n, at, N)
  BY <1>a, KeyTypes, AcceptedDoc DEF N
<1>4. since'[m] \in Time /\ gone'[d] \in [Msg -> Time]
  BY DEF Types, TypeHist
<1>5. since[m] # None => since[m] <= now
  BY DEF SinceInv
<1>6. KeyInv(Ahead[d], m, now, since'[m], Has(m), N, disk[d], gone'[d], stamped[d], holds[d])
  <2>1. /\ mem[d] \in Doc /\ disk[d] \in Doc /\ gone[d] \in [Msg -> Time] /\ now \in Nat
        /\ stamped[d] \in [Msg -> Time] /\ holds[d] \in SUBSET Msg
        /\ since[m] \in Time /\ Has(m) \in SUBSET Dev /\ Ahead[d] \in 0..Skew
    BY KeyTypes
  <2>2. KeyInv(Ahead[d], m, now, since[m], Has(m), mem[d], disk[d], gone[d], stamped[d], holds[d])
    BY DEF Point, KeyOK
  <2> DEFINE M == mem[d]
             D == disk[d]
             g == gone[d]
             g2 == gone'[d]
             st == stamped[d]
             h == holds[d]
             a == Ahead[d]
             s == since[m]
             s2 == since'[m]
             A == Has(m)
  <2>3. /\ M \in Doc /\ D \in Doc /\ g \in [Msg -> Time] /\ now \in Nat /\ st \in [Msg -> Time]
        /\ h \in SUBSET Msg /\ s \in Time /\ A \in SUBSET Dev /\ a \in 0..Skew
        /\ g2 \in [Msg -> Time] /\ s2 \in Time
    BY <1>4, <2>1
  <2>4. /\ KeyInv(a, m, now, s, A, M, D, g, st, h) /\ N \in Doc /\ DepositedDoc(M, n, at, N)
        /\ (s # None => s <= now) /\ s2 = IF m = n /\ s = None THEN now ELSE s
        /\ g2 = [g EXCEPT ![n] = None]
    BY <1>2, <1>3, <1>5, <2>2
  <2> HIDE DEF M, D, g, g2, st, h, a, s, s2, A
  <2>5. KeyInv(a, m, now, s2, A, N, D, g2, st, h)
    BY <1>a, <2>3, <2>4, KeyDeposit
  <2> QED
    BY <2>5 DEF M, D, g, g2, st, h, a, s, s2, A
<1>7. Has(m)' = Has(m)
  BY <1>1 DEF Has
<1>8. KeyOK(d, m)'
  BY <1>1, <1>2, <1>6, <1>7 DEF KeyOK
<1>9. PubOK(d, m)'
  BY <1>1, PubStays DEF Point
<1>10. WaitOK(d, m)'
  <2>1. mem[d].box \in [Msg -> Entry \cup {None}] /\ [ig |-> {}, dep |-> at] \in Entry
    BY <1>a, KeyTypes DEF Doc, Box, Entry
  <2>2. CASE m = n
    <3>1. N.box[m] # None /\ since'[m] # None
      BY <1>2, <1>3, <2>1, <2>2, KeyTypes DEF Entry, DepositedDoc
    <3> QED
      BY <1>2, <3>1 DEF WaitOK
  <2>3. CASE m # n
    <3>1. N.box[m] = mem[d].box[m] /\ since'[m] = since[m] /\ (m \in asked'[d] => m \in asked[d])
      BY <1>2, <1>3, <2>1, <2>3 DEF DepositedDoc
    <3> QED
      BY <1>1, <1>2, <3>1, DoneLater DEF Point, WaitOK
  <2> QED
    BY <2>2, <2>3
<1> QED
  BY <1>8, <1>9, <1>10 DEF Point
----------------------------------------------------------------------------
(***************************************************************************)
(* The induction.                                                          *)
(***************************************************************************)
\* No deposit was first accepted in the future.
LEMMA SinceStep == Types /\ Types' /\ SinceInv /\ Later /\ [Next]_vars => SinceInv'
<1> SUFFICES ASSUME Types, Types', SinceInv, Later, [Next]_vars, NEW m \in Msg, since'[m] # None
             PROVE  since'[m] <= now'
  BY DEF SinceInv
<1>1. since'[m] = since[m] \/ since'[m] = now
  <2>1. ASSUME NEW d \in Dev, NEW n \in Msg, Deposit(d, n) PROVE since'[m] = since[m] \/ since'[m] = now
    BY <2>1 DEF Deposit, Types, TypeHist
  <2>2. ASSUME NEW d \in Dev, Sweep(d) PROVE since' = since
    BY <2>2 DEF Sweep
  <2>3. ASSUME NEW d \in Dev, EngineNext(d) \/ (\E k \in 0..3 : SweeperPersist(d, k)) PROVE since' = since
    BY <2>3 DEF EngineNext, WakeArm, FlushArm, Merge, TaskPersist, Boot, SweeperPersist
  <2>4. ASSUME NEW d \in Dev, NEW k \in 0..3, NEW away \in SUBSET unsaved[d], Crash(d, k, away)
        PROVE  since' = since
    BY <2>4 DEF Crash
  <2>5. CASE Clock \/ UNCHANGED vars
    BY <2>5 DEF Clock, vars
  <2> QED
    BY <2>1, <2>2, <2>3, <2>4, <2>5 DEF Next, SweeperNext
<1>2. now \in Nat /\ now' \in Nat /\ since[m] \in Time /\ now <= now'
      /\ (since[m] # None => since'[m] = since[m])
  BY DEF Types, TypeDocs, TypeHist, Later
<1> QED
  BY <1>1, <1>2 DEF SinceInv, Later, Time

\* Every action keeps the invariant of every key.
LEMMA PointStep ==
  ASSUME Types, Types', Later, SinceInv, [Next]_vars,
         \A e \in Dev : \A m \in Msg : Point(e, m),
         NEW e \in Dev, NEW m \in Msg
  PROVE  Point(e, m)'
<1> USE DEF Types, TypeDocs, TypeCtl, TypeOwn, TypeHist
<1>1. CASE Clock \/ UNCHANGED vars
  BY <1>1, Stays DEF Clock, vars
<1>2. ASSUME NEW d \in Dev, WakeArm(d) PROVE Point(e, m)'
  <2>1. task'[d].by = None /\ (\A f \in Dev : pub'[f] = pub[f] \/ pub'[f] = mem[f].box)
        /\ (\A f \in Dev \ {d} : task'[f] = task[f])
    BY <1>2, PublishType DEF WakeArm
  <2> QED
    BY <1>2, <2>1, Stays DEF WakeArm
<1>3. ASSUME NEW d \in Dev, NEW n \in Msg, FlushArm(d, n) PROVE Point(e, m)'
  <2>1. task'[d].by = n /\ (\A f \in Dev : pub'[f] = pub[f] \/ pub'[f] = mem[f].box)
        /\ (\A f \in Dev \ {d} : task'[f] = task[f])
    BY <1>3, PublishType DEF FlushArm
  <2>2. /\ asked'[e] \subseteq asked[e] /\ task'[e].by \in asked[e] \cup {task[e].by, None}
        /\ UNCHANGED <<mem, disk, gone, stamped, holds>>
    BY <1>3, <2>1 DEF FlushArm
  <2> QED
    BY <2>1, <2>2, Stays
<1>4. ASSUME NEW d \in Dev, NEW f \in Dev, Merge(d, f) PROVE Point(e, m)'
  <2>1. CASE e = d
    BY <1>4, <2>1, MergePoint
  <2>2. CASE e # d
    BY <1>4, <2>2, Stays DEF Merge
  <2> QED
    BY <2>1, <2>2
<1>5. ASSUME NEW d \in Dev, NEW k \in 0..3, TaskPersist(d, k) PROVE Point(e, m)'
  <2>1. CASE e = d
    <3>1. task'[d].by = None
      BY <1>5 DEF TaskPersist, Select
    <3>2. m \in holds'[d] => m \in holds[d] \/ (k = 3 /\ mem[d].box[m] # None)
      BY <1>5 DEF TaskPersist, Answered
    <3> QED
      BY <1>5, <2>1, <3>1, <3>2, PersistPoint DEF TaskPersist
  <2>2. CASE e # d
    <3>1. disk'[e] = disk[e] /\ gone'[e] = gone[e]
      BY <1>5, <2>2, PersistType DEF TaskPersist
    <3> QED
      BY <1>5, <2>2, <3>1, Stays DEF TaskPersist
  <2> QED
    BY <2>1, <2>2
<1>6. ASSUME NEW d \in Dev, NEW k \in 0..3, SweeperPersist(d, k) PROVE Point(e, m)'
  <2>1. CASE e = d
    BY <1>6, <2>1, PersistPoint DEF SweeperPersist
  <2>2. CASE e # d
    <3>1. disk'[e] = disk[e] /\ gone'[e] = gone[e]
      BY <1>6, <2>2, PersistType DEF SweeperPersist
    <3> QED
      BY <1>6, <2>2, <3>1, Stays DEF SweeperPersist
  <2> QED
    BY <2>1, <2>2
<1>7. ASSUME NEW d \in Dev, Sweep(d) PROVE Point(e, m)'
  <2>1. CASE e = d
    BY <1>7, <2>1, SweepPoint
  <2>2. CASE e # d
    <3>1. mem'[e] = mem[e] /\ holds'[e] = holds[e] /\ stamped'[e] = stamped[e]
          /\ UNCHANGED <<disk, gone, pub, asked, task>>
      BY <1>7, <2>2 DEF Sweep
    <3> QED
      BY <3>1, Stays
  <2> QED
    BY <2>1, <2>2
<1>8. ASSUME NEW d \in Dev, NEW k \in 0..3, Restarts(d, k) PROVE Point(e, m)'
  <2>1. CASE e = d
    BY <1>8, <2>1, RestartPoint
  <2>2. CASE e # d
    <3>1. disk'[e] = disk[e] /\ gone'[e] = gone[e]
      BY <1>8, <2>2, PersistType DEF Restarts
    <3>2. Reload(d) /\ UNCHANGED <<now, pub>>
      BY <1>8 DEF Restarts
    <3>3. mem'[e] = mem[e] /\ stamped'[e] = stamped[e]
      BY <2>2, <3>2 DEF Reload, Types, TypeDocs, TypeHist
    <3> QED
      BY <1>8, <2>2, <3>1, <3>3, Stays DEF Restarts
  <2> QED
    BY <2>1, <2>2
<1>c. ASSUME NEW d \in Dev, Boot(d) \/ \E k \in 0..3, away \in SUBSET unsaved[d] : Crash(d, k, away)
      PROVE  Point(e, m)'
  <2>1. CASE Boot(d)
    <3>1. Restarts(d, 0)
      BY <2>1, BootRestarts
    <3> QED
      BY <1>8, <3>1
  <2>2. CASE \E k \in 0..3, away \in SUBSET unsaved[d] : Crash(d, k, away)
    <3>1. PICK k \in 0..3 : \E away \in SUBSET unsaved[d] : Crash(d, k, away)
      BY <2>2
    <3>2. Restarts(d, k)
      BY <3>1, CrashRestarts
    <3> QED
      BY <1>8, <3>2
  <2> QED
    BY <1>c, <2>1, <2>2
<1>9. ASSUME NEW d \in Butlers, NEW n \in Msg, Deposit(d, n) PROVE Point(e, m)'
  <2>1. CASE e = d
    BY <1>9, <2>1, DepositPoint
  <2>2. CASE e # d
    BY <1>9, <2>2, Stays DEF Deposit
  <2> QED
    BY <2>1, <2>2
<1> QED
  BY <1>1, <1>2, <1>3, <1>4, <1>5, <1>6, <1>7, <1>c, <1>9 DEF Next, EngineNext, SweeperNext

\* Every action keeps acked deposits held or done.
LEMMA AckStep ==
  ASSUME Types, Types', Later, AckInv, [Next]_vars, \A e \in Dev : \A m \in Msg : Point(e, m)
  PROVE  AckInv'
<1> SUFFICES ASSUME NEW m \in Msg, m \in acked'
             PROVE  since'[m] # None /\ ((\E d \in Dev : m \in holds'[d]) \/ Done(m)')
  BY DEF AckInv, Types, TypeOwn
<1> USE DEF Types, TypeDocs, TypeCtl, TypeOwn, TypeHist
<1>1. ASSUME m \in acked, \A d \in Dev : m \in holds[d] => m \in holds'[d] \/ Done(m)'
      PROVE  since'[m] # None /\ ((\E d \in Dev : m \in holds'[d]) \/ Done(m)')
  BY <1>1, DoneLater DEF AckInv, Later
<1>2. ASSUME NEW d \in Dev, NEW k \in 0..3, TaskPersist(d, k)
      PROVE  since'[m] # None /\ ((\E f \in Dev : m \in holds'[f]) \/ Done(m)')
  <2>1. CASE m \in acked
    <3>1. \A f \in Dev : m \in holds[f] => m \in holds'[f]
      BY <1>2 DEF TaskPersist
    <3> QED
      BY <2>1, <3>1, <1>1
  <2>2. CASE m \notin acked
    <3>1. m = task[d].by /\ holds' = [holds EXCEPT ![d] = @ \cup ({m} \cap Held(mem[d]))] /\ since' = since
      BY <1>2, <2>2 DEF TaskPersist
    <3>2. since[m] # None /\ (mem[d].box[m] # None \/ Done(m))
      BY <3>1 DEF Point, WaitOK
    <3>3. mem[d].box[m] # None => m \in holds'[d]
      BY <3>1
    <3> QED
      BY <3>1, <3>2, <3>3, DoneLater
  <2> QED
    BY <2>1, <2>2
<1>3. ASSUME NEW d \in Dev, Sweep(d)
      PROVE  since'[m] # None /\ ((\E f \in Dev : m \in holds'[f]) \/ Done(m)')
  <2>1. acked' = acked /\ \A f \in Dev \ {d} : holds'[f] = holds[f]
    BY <1>3 DEF Sweep
  <2>2. m \in holds[d] => m \in holds'[d] \/ Done(m)'
    BY <1>3, SweepPoint
  <2> QED
    BY <2>1, <2>2, <1>1
<1>4. ASSUME acked' = acked, holds' = holds
      PROVE  since'[m] # None /\ ((\E f \in Dev : m \in holds'[f]) \/ Done(m)')
  BY <1>4, <1>1
<1>5. ASSUME NEW d \in Dev,
             \/ WakeArm(d) \/ (\E n \in Msg : FlushArm(d, n) \/ Deposit(d, n))
             \/ (\E e \in Dev : Merge(d, e)) \/ (\E k \in 0..3 : SweeperPersist(d, k))
             \/ Boot(d) \/ \E k \in 0..3, away \in SUBSET unsaved[d] : Crash(d, k, away)
      PROVE  acked' = acked /\ holds' = holds
  BY <1>5 DEF WakeArm, FlushArm, Deposit, Merge, SweeperPersist, Crash, Boot
<1>6. CASE Clock \/ UNCHANGED vars
  BY <1>6, <1>4 DEF Clock, vars
<1> QED
  BY <1>2, <1>3, <1>4, <1>5, <1>6 DEF Next, EngineNext, SweeperNext

\* IInv holds at first.
LEMMA InductiveInit == Init => IInv
<1> SUFFICES ASSUME Init PROVE IInv
  OBVIOUS
<1>1. Types
  BY TypeInit
<1>2. AckInv /\ SinceInv
  BY DEF Init, AckInv, SinceInv, Nothing
<1>3. ASSUME NEW e \in Dev, NEW m \in Msg PROVE Point(e, m)
  <2>1. /\ mem[e].box[m] = None /\ mem[e].seen[m] = None /\ disk[e].box[m] = None
        /\ mem[e].tomb[m] = None /\ disk[e].tomb[m] = None
        /\ disk[e].seen[m] = None /\ pub[e][m] = None /\ gone[e][m] = None
        /\ stamped[e][m] = None
    BY DEF Init, Empty, Nothing
  <2>2. holds[e] = {} /\ asked[e] = {} /\ task[e].by # m
    BY DEF Init, Select
  <2>3. KeyOK(e, m)
    BY <2>1, <2>2 DEF KeyOK, KeyInv, BoxKey, Sound, TimeKey, Past, TombKey, HoldKey, TtlKey, First,
                      StampKey, GoneKey
  <2> QED
    BY <2>1, <2>2, <2>3 DEF Point, PubOK, Sound, WaitOK
<1> QED
  BY <1>1, <1>2, <1>3, IInvFromPoint DEF AllPoints

\* Every step keeps IInv.
LEMMA InductiveStep == IInv /\ [Next]_vars => IInv'
<1> SUFFICES ASSUME IInv, [Next]_vars PROVE IInv'
  OBVIOUS
<1>1. Types /\ AckInv /\ SinceInv
  BY TypeParts DEF IInv
<1>2. Types' /\ Later
  BY <1>1, TypeStep, LaterStep
<1>3. \A e \in Dev : \A m \in Msg : Point(e, m)
  BY PointFromIInv
<1>4. SinceInv' /\ AckInv'
  BY <1>1, <1>2, <1>3, SinceStep, AckStep
<1>5. AllPoints'
  BY <1>1, <1>2, <1>3, PointStep DEF AllPoints
<1> QED
  BY <1>2, <1>4, <1>5, IInvFromPoint, PTL
----------------------------------------------------------------------------
(***************************************************************************)
(* The theorems.                                                           *)
(***************************************************************************)
\* The inductive invariant holds.
THEOREM Inductive == Spec => []IInv
  BY InductiveInit, InductiveStep, PTL DEF Spec

\* Types, and no stamp in memory without its entry (first_observed_ms is bounded by
\* the capped inbox).
THEOREM TypeCorrect == Spec => []TypeOK
<1>1. IInv => TypeOK
  BY DEF IInv
<1> QED
  BY <1>1, Inductive, PTL

\* A live entry has no tombstone, through deposits, merges, sweeps and boots.
THEOREM NoLiveTombstones == Spec => []NoLiveTombstone
<1>1. IInv => NoLiveTombstone
  BY DEF IInv
<1> QED
  BY <1>1, Inductive, PTL

\* Persist before ack: an acked deposit is there after a boot from the files, at
\* every moment.
THEOREM AcksSurvive == Spec => []AckedSurvivesCrash
<1>1. IInv => AckedSurvivesCrash
  <2> SUFFICES ASSUME IInv, NEW d \in Dev, NEW m \in holds[d]
               PROVE  m \in Held(Restored(disk[d], d, now))
    BY DEF AckedSurvivesCrash
  <2>1. Types
    BY TypeParts DEF IInv
  <2>2. disk[d] \in Doc /\ now \in Nat /\ m \in Msg
    BY <2>1 DEF Types, TypeDocs, TypeOwn
  <2>3. disk[d].box[m] # None /\ (disk[d].tomb[m] = None \/ disk[d].tomb[m] + Retention <= now)
    BY DEF IInv, HoldInv
  <2>4. BootedKey(disk[d], Ahead[d], now, Restored(disk[d], d, now), m)
    BY <2>2, Booted
  <2> QED
    BY <2>2, <2>3, <2>4 DEF BootedKey
<1> QED
  BY <1>1, Inductive, PTL

\* No number of crashes and failed writes, and no time spent down, moves the stamp of
\* an entry beyond its first by more than the butler's clock was ahead.
THEOREM TtlMonotone == Spec => []TtlNeverRestarts
<1>1. IInv => TtlNeverRestarts
  BY DEF IInv
<1> QED
  BY <1>1, Inductive, PTL

\* What expired on disk does not come back within the retention.
THEOREM ExpiriesHold == Spec => []ExpiryHolds
<1>1. IInv => ExpiryHolds
  <2> SUFFICES ASSUME IInv, NEW d \in Dev, NEW m \in Held(mem[d]), gone[d][m] # None
               PROVE  now - gone[d][m] >= Retention
    BY DEF ExpiryHolds
  <2>1. Types
    BY TypeParts DEF IInv
  <2>2. now \in Nat /\ gone[d][m] \in Int /\ m \in Msg
    BY <2>1 DEF Types, TypeDocs, TypeHist, Time
  <2>3. mem[d].tomb[m] = None
    BY DEF IInv, NoLiveTombstone
  <2>4. ~(now < gone[d][m] + Retention)
    BY <2>2, <2>3 DEF IInv, GoneInv
  <2> QED
    BY <2>2, <2>4, RetentionNat
<1> QED
  BY <1>1, Inductive, PTL

\* No acked deposit disappears before every device had it or its time was over.
THEOREM GoneIsDone == Spec => []GoneMeansDone
<1>1. IInv => GoneMeansDone
  BY DEF IInv, GoneMeansDone, AckInv, HoldInv, Done
<1> QED
  BY <1>1, Inductive, PTL
----------------------------------------------------------------------------
(***************************************************************************)
(* The files implement DepositCustody.                                     *)
(***************************************************************************)
CopyKey(e, m) == /\ disk[e].box[m] # None => mem[e].box[m] # None \/ Done(m)
                 /\ mem[e].tomb[m] # None \/ disk[e].tomb[m] # None => Done(m)

\* Device e leaves its files alone and removes no entry from memory.
LEMMA CopyStays ==
  ASSUME Types, Types', Later, NEW e \in Dev, NEW m \in Msg, CopyKey(e, m),
         disk'[e] = disk[e], mem[e].box[m] # None => mem'[e].box[m] # None,
         mem'[e].tomb[m] \in {None, mem[e].tomb[m]}
  PROVE  CopyKey(e, m)'
  BY DoneLater DEF CopyKey

\* A persist, whole or torn, writes what is in memory or leaves what is on disk.
LEMMA CopyPersist ==
  ASSUME Types, Types', Later, NEW d \in Dev, NEW m \in Msg, NEW k \in 0..3, CopyKey(d, m),
         Persist(d, k)
  PROVE  /\ disk'[d].box[m] \in {mem[d].box[m], disk[d].box[m]}
         /\ disk'[d].tomb[m] \in {mem[d].tomb[m], disk[d].tomb[m]}
         /\ mem'[d] = mem[d] => CopyKey(d, m)'
<1>1. disk'[d] = Written(disk[d], mem[d], k)
  BY PersistType DEF Types
<1>2. /\ disk'[d].box[m] \in {mem[d].box[m], disk[d].box[m]}
      /\ disk'[d].tomb[m] \in {mem[d].tomb[m], disk[d].tomb[m]}
  BY <1>1, KeyTypes, WrittenFiles
<1> QED
  BY <1>2, DoneLater DEF CopyKey

\* The sweep removes what is covered or overdue, and buries what is overdue: done.
LEMMA CopySweep ==
  ASSUME Types, Types', Later, NEW d \in Dev, NEW m \in Msg, Point(d, m), CopyKey(d, m), Sweep(d)
  PROVE  CopyKey(d, m)'
<1>1. PICK bad \in SUBSET Pending(d) :
        mem' = [mem EXCEPT ![d] =
                  GcExpired(SignFor(mem[d], Pending(d) \ bad, d), Covered(mem[d]), now)]
  BY DEF Sweep
<1> DEFINE good == Pending(d) \ bad
           S    == SignFor(mem[d], good, d)
           N    == GcExpired(S, Covered(mem[d]), now)
<1>2. mem'[d] = N /\ disk' = disk
  BY <1>1 DEF Sweep, Types, TypeDocs
<1>3. good \in SUBSET Held(mem[d]) /\ Covered(mem[d]) \in SUBSET Msg
  BY DEF Pending, Covered
<1> HIDE DEF good, S, N
<1>4. /\ S \in Doc /\ S.seen = mem[d].seen /\ S.tomb = mem[d].tomb
      /\ SignedKey(mem[d], good, d, S, m)
  <2>1. mem[d] \in Doc
    BY KeyTypes
  <2> QED
    BY <1>3, <2>1, SignedDoc DEF S
<1>5. CollectedKey(S, Covered(mem[d]), now, N, m)
  BY <1>3, <1>4, KeyTypes, Collected DEF N
<1>6. m \in Covered(mem[d]) => Done(m)
  <2>1. m \in Covered(mem[d]) => Dev \subseteq Has(m)
    BY DEF Covered, Point, KeyOK, KeyInv, BoxKey, Sound
  <2> QED
    BY <2>1 DEF Has, Done
<1>7. mem[d].seen[m] # None /\ mem[d].seen[m] + TTL < now => Done(m)
  <2> SUFFICES ASSUME mem[d].seen[m] # None, mem[d].seen[m] + TTL < now PROVE Done(m)
    OBVIOUS
  <2>1. since[m] # None /\ since[m] <= mem[d].seen[m] + Lag
    BY DEF Point, KeyOK, KeyInv, TimeKey, Past
  <2>2. mem[d].seen[m] \in Int /\ since[m] \in Int /\ now \in Nat
    BY <2>1, KeyTypes DEF Doc, Time
  <2> QED
    BY <2>1, <2>2, AheadType DEF Done, Overtime
<1>8. /\ mem[d].box[m] # None /\ N.box[m] = None => Done(m)
      /\ N.tomb[m] # None => mem[d].tomb[m] # None \/ Done(m)
  BY <1>4, <1>5, <1>6, <1>7 DEF CollectedKey, SignedKey
<1> QED
  BY <1>2, <1>8, DoneLater DEF CopyKey

\* The boot drops what has a tombstone.
LEMMA CopyRestart ==
  ASSUME Types, Types', Later, NEW d \in Dev, NEW m \in Msg, CopyKey(d, m),
         NEW k \in 0..3, Restarts(d, k)
  PROVE  CopyKey(d, m)'
<1>1. Persist(d, k) /\ UNCHANGED <<now, pub>> /\ Reload(d)
  BY DEF Restarts
<1>2. /\ disk'[d].box[m] \in {mem[d].box[m], disk[d].box[m]}
      /\ disk'[d].tomb[m] \in {mem[d].tomb[m], disk[d].tomb[m]}
  BY <1>1, CopyPersist
<1>3. disk' \in [Dev -> Doc] /\ disk'[d] \in Doc /\ now \in Nat
  BY DEF Types, TypeDocs
<1>4. mem'[d] = Restored(disk'[d], d, now)
  BY <1>1, <1>3, ReloadType
<1>5. BootedKey(disk'[d], Ahead[d], now, mem'[d], m)
  BY <1>3, <1>4, Booted
<1>6. disk'[d].tomb[m] # None => Done(m)'
  BY <1>2, DoneLater DEF CopyKey
<1> QED
  BY <1>5, <1>6 DEF CopyKey, BootedKey

\* A merge takes nothing out of memory and buries nothing.
LEMMA CopyMerge ==
  ASSUME Types, Types', Later, NEW d \in Dev, NEW e \in Dev, NEW m \in Msg, CopyKey(d, m),
         Merge(d, e)
  PROVE  CopyKey(d, m)'
<1> DEFINE N == MergeFrom(mem[d], pub[e], now)
<1>1. mem'[d] = N /\ disk' = disk
  BY DEF Merge, Types, TypeDocs
<1> HIDE DEF N
<1>2. mem[d] \in Doc /\ pub[e] \in Box /\ now \in Nat
  BY KeyTypes
<1>3. MergedEntry(mem[d], pub[e], N, m) /\ N.tomb = Prune(mem[d].tomb, now)
  BY <1>2, Merged DEF N
<1>4. N.tomb[m] \in {None, mem[d].tomb[m]}
  BY <1>2, <1>3, Pruned DEF Doc
<1>5. mem[d].box[m] # None => N.box[m] # None
  <2>1. CASE N.box[m] = mem[d].box[m]
    BY <2>1
  <2>2. CASE mem[d].box[m] # None /\ N.box[m] # mem[d].box[m]
    BY <1>3, <2>2 DEF MergedEntry
  <2> QED
    BY <2>1, <2>2
<1> QED
  BY <1>1, <1>4, <1>5, CopyStays

\* Every step keeps CopyInv, key by key.
LEMMA CopyKeyStep ==
  ASSUME Types, Types', Later, [Next]_vars, NEW e \in Dev, NEW m \in Msg,
         Point(e, m), CopyKey(e, m)
  PROVE  CopyKey(e, m)'
<1>1. ASSUME mem'[e] = mem[e], disk'[e] = disk[e] PROVE CopyKey(e, m)'
  BY <1>1, CopyStays
<1>2. ASSUME NEW d \in Dev, NEW k \in 0..3, Persist(d, k), mem' = mem PROVE CopyKey(e, m)'
  <2>1. CASE e = d
    BY <1>2, <2>1, CopyPersist
  <2>2. CASE e # d
    BY <1>1, <1>2, <2>2, PersistType DEF Types
  <2> QED
    BY <2>1, <2>2
<1>3. CASE Clock \/ UNCHANGED vars
  BY <1>1, <1>3 DEF Clock, vars
<1>4. ASSUME NEW d \in Dev, WakeArm(d) \/ (\E n \in Msg : FlushArm(d, n)) PROVE CopyKey(e, m)'
  BY <1>1, <1>4 DEF WakeArm, FlushArm
<1>5. ASSUME NEW d \in Dev, NEW f \in Dev, Merge(d, f) PROVE CopyKey(e, m)'
  <2>1. CASE e = d
    BY <1>5, <2>1, CopyMerge
  <2>2. CASE e # d
    BY <1>1, <1>5, <2>2 DEF Merge
  <2> QED
    BY <2>1, <2>2
<1>6. ASSUME NEW d \in Dev, NEW k \in 0..3, TaskPersist(d, k) \/ SweeperPersist(d, k)
      PROVE  CopyKey(e, m)'
  BY <1>2, <1>6 DEF TaskPersist, SweeperPersist
<1>7. ASSUME NEW d \in Dev, Sweep(d) PROVE CopyKey(e, m)'
  <2>1. CASE e = d
    BY <1>7, <2>1, CopySweep
  <2>2. CASE e # d
    BY <1>1, <1>7, <2>2 DEF Sweep
  <2> QED
    BY <2>1, <2>2
<1>8. ASSUME NEW d \in Dev, NEW k \in 0..3, Restarts(d, k) PROVE CopyKey(e, m)'
  <2>1. CASE e = d
    BY <1>8, <2>1, CopyRestart
  <2>2. CASE e # d
    <3>1. disk'[e] = disk[e]
      BY <1>8, <2>2, PersistType DEF Restarts, Types
    <3>2. disk' \in [Dev -> Doc]
      BY DEF Types, TypeDocs
    <3>3. mem'[e] = mem[e]
      BY <1>8, <2>2, <3>2, ReloadType DEF Restarts
    <3> QED
      BY <3>1, <3>3, <1>1
  <2> QED
    BY <2>1, <2>2
<1>c. ASSUME NEW d \in Dev, Boot(d) \/ \E k \in 0..3, away \in SUBSET unsaved[d] : Crash(d, k, away)
      PROVE  CopyKey(e, m)'
  BY <1>8, <1>c, CrashRestarts, BootRestarts
<1>9. ASSUME NEW d \in Dev, NEW n \in Msg, Deposit(d, n) PROVE CopyKey(e, m)'
  <2>1. CASE e = d
    <3>0. PICK at \in Minted(d) : mem' = [mem EXCEPT ![d] = Accepted(mem[d], n, at)]
      BY <1>9 DEF Deposit
    <3>a. at \in Nat
      BY KeyTypes, AheadType DEF Minted
    <3>1. mem'[d] = Accepted(mem[d], n, at) /\ disk' = disk
      BY <1>9, <3>0 DEF Deposit, Types, TypeDocs
    <3>2. DepositedDoc(mem[d], n, at, mem'[d])
      BY <3>a, <3>1, KeyTypes, AcceptedDoc
    <3>3. mem[d].tomb \in [Msg -> Time]
      BY KeyTypes DEF Doc
    <3>4. /\ mem[d].box[m] # None => mem'[d].box[m] # None
          /\ mem'[d].tomb[m] \in {None, mem[d].tomb[m]}
      BY <3>2, <3>3 DEF DepositedDoc
    <3> QED
      BY <2>1, <3>1, <3>4, CopyStays
  <2>2. CASE e # d
    BY <1>1, <1>9, <2>2 DEF Deposit
  <2> QED
    BY <2>1, <2>2
<1> QED
  BY <1>3, <1>4, <1>5, <1>6, <1>7, <1>c, <1>9 DEF Next, EngineNext, SweeperNext

\* What the owner state's engine may not have saved is in the owner state.
LEMMA UnsavedStep ==
  ASSUME Types, [Next]_vars, NEW e \in Dev, unsaved[e] \subseteq own[e]
  PROVE  unsaved'[e] \subseteq own'[e]
<1> USE DEF Types, TypeOwn
<1>1. CASE Clock \/ UNCHANGED vars
  BY <1>1 DEF Clock, vars
<1>2. ASSUME NEW d \in Dev, WakeArm(d) \/ (\E n \in Msg : FlushArm(d, n) \/ Deposit(d, n))
      PROVE  own' = own /\ unsaved' = unsaved
  BY <1>2 DEF WakeArm, FlushArm, Deposit
<1>3. ASSUME NEW d \in Dev, NEW f \in Dev, Merge(d, f) PROVE own' = own /\ unsaved' = unsaved
  BY <1>3 DEF Merge
<1>4. ASSUME NEW d \in Dev, NEW k \in 0..3, TaskPersist(d, k) \/ SweeperPersist(d, k)
      PROVE  own' = own /\ unsaved' = unsaved
  BY <1>4 DEF TaskPersist, SweeperPersist
<1>5. ASSUME NEW d \in Dev, Sweep(d) PROVE unsaved'[e] \subseteq own'[e]
  <2>1. PICK good \in SUBSET Msg : /\ own' = [own EXCEPT ![d] = @ \cup good]
                                   /\ unsaved' = [unsaved EXCEPT ![d] = @ \cup (good \ own[d])]
    BY <1>5 DEF Sweep, Pending
  <2> QED
    BY <2>1
<1>6. ASSUME NEW d \in Dev, NEW k \in 0..3, NEW away \in SUBSET unsaved[d], Crash(d, k, away)
      PROVE  unsaved'[e] \subseteq own'[e]
  BY <1>6 DEF Crash
<1>7. ASSUME NEW d \in Dev, Boot(d) PROVE own' = own /\ unsaved' = unsaved
  BY <1>7 DEF Boot
<1> QED
  BY <1>1, <1>2, <1>3, <1>4, <1>5, <1>6, <1>7 DEF Next, EngineNext, SweeperNext

\* CopyInv holds.
LEMMA CopyInductive == Spec => []CopyInv
<1>1. Init => CopyInv
  BY DEF Init, CopyInv, Empty, Nothing
<1>2. IInv /\ CopyInv /\ [Next]_vars => CopyInv'
  <2> SUFFICES ASSUME IInv, CopyInv, [Next]_vars, NEW e \in Dev
               PROVE  unsaved'[e] \subseteq own'[e] /\ \A m \in Msg : CopyKey(e, m)'
    BY DEF CopyInv, CopyKey
  <2>1. Types
    BY TypeParts DEF IInv
  <2>2. Types' /\ Later
    BY <2>1, TypeStep, LaterStep
  <2>3. ASSUME NEW m \in Msg PROVE CopyKey(e, m)'
    <3>1. Point(e, m) /\ CopyKey(e, m)
      BY PointFromIInv DEF CopyInv, CopyKey
    <3> QED
      BY <2>1, <2>2, <3>1, CopyKeyStep
  <2>4. unsaved'[e] \subseteq own'[e]
    BY <2>1, UnsavedStep DEF CopyInv
  <2> QED
    BY <2>3, <2>4
<1> QED
  BY <1>1, <1>2, Inductive, PTL DEF Spec

\* IInv has the types.
LEMMA InvTypes == IInv => Types
  BY TypeParts DEF IInv

\* What a boot would restore: the entries on disk, but for those buried within the
\* retention.
CopyMeaning ==
  /\ Copies \in [Dev -> SUBSET Msg]
  /\ \A d \in Dev : \A m \in Msg :
       m \in Copies[d] <=> /\ disk[d].box[m] # None
                           /\ disk[d].tomb[m] = None \/ disk[d].tomb[m] + Retention <= now

\* That is what Restored computes.
LEMMA CopiesAre == IInv => CopyMeaning
<1> SUFFICES ASSUME IInv PROVE CopyMeaning
  OBVIOUS
<1>1. Types
  BY TypeParts DEF IInv
<1>2. ASSUME NEW d \in Dev, NEW m \in Msg
      PROVE  Restored(disk[d], d, now).box[m] # None
               <=> /\ disk[d].box[m] # None
                   /\ disk[d].tomb[m] = None \/ disk[d].tomb[m] + Retention <= now
  <2>1. disk[d] \in Doc /\ now \in Nat
    BY <1>1, KeyTypes
  <2>2. BootedKey(disk[d], Ahead[d], now, Restored(disk[d], d, now), m)
    BY <2>1, Booted
  <2>3. disk[d].tomb[m] # None => disk[d].tomb[m] \in Int /\ disk[d].tomb[m] <= now
    BY <2>1 DEF IInv, TimeInv, Doc, Time
  <2> QED
    BY <2>1, <2>2, <2>3, RetentionNat DEF BootedKey
<1> QED
  BY <1>2 DEF Copies, CopyMeaning

\* A copy was deposited once.
CopiesGiven == \A d \in Dev : Copies[d] \subseteq Given

\* No entry, wherever it is, is older than its deposit.
LEMMA CopiesAreGiven == IInv => CopiesGiven
<1> SUFFICES ASSUME IInv, NEW d \in Dev, NEW m \in Copies[d] PROVE m \in Given
  BY DEF CopiesGiven
<1>1. m \in Msg /\ disk[d].box[m] # None
  BY CopiesAre DEF CopyMeaning
<1> QED
  BY <1>1 DEF IInv, TimeInv, Timely, Plausible, Given

\* A persist, whole or torn, takes no copy away that is not done, and concerns one
\* device.
LEMMA PersistCopies ==
  ASSUME IInv, IInv', CopyInv, NEW d \in Dev, NEW k \in 0..3, Persist(d, k), now' = now
  PROVE  /\ \A e \in Dev \ {d} : Copies'[e] = Copies[e]
         /\ \A m \in Copies[d] : m \in Copies'[d] \/ Done(m)
         /\ k = 3 => \A m \in Held(mem[d]) : m \in Copies'[d]
<1>0. CopyMeaning /\ CopyMeaning'
  BY CopiesAre, PTL
<1>1. Types /\ Types'
  BY InvTypes, PTL
<1>2. disk'[d] = Written(disk[d], mem[d], k) /\ \A e \in Dev \ {d} : disk'[e] = disk[e]
  BY <1>1, PersistType DEF Types
<1>3. \A e \in Dev \ {d} : Copies'[e] = Copies[e]
  BY <1>2 DEF Copies
<1>4. /\ disk'[d].tomb = IF k > 0 THEN mem[d].tomb ELSE disk[d].tomb
      /\ disk'[d].box = IF k > 1 THEN mem[d].box ELSE disk[d].box
  <2>1. disk[d] \in Doc /\ mem[d] \in Doc
    BY <1>1 DEF Types, TypeDocs
  <2> QED
    BY <1>2, <2>1, WrittenFiles
<1>5. ASSUME NEW m \in Copies[d], ~Done(m) PROVE m \in Copies'[d]
  <2>1. m \in Msg /\ disk[d].box[m] # None
    BY <1>0 DEF CopyMeaning
  <2>2. mem[d].box[m] # None /\ mem[d].tomb[m] = None /\ disk[d].tomb[m] = None
    BY <1>5, <2>1 DEF CopyInv
  <2>3. disk'[d].box[m] # None /\ disk'[d].tomb[m] = None
    BY <1>4, <2>1, <2>2
  <2> QED
    BY <1>0, <2>1, <2>3 DEF CopyMeaning
<1>6. ASSUME k = 3, NEW m \in Held(mem[d]) PROVE m \in Copies'[d]
  <2>1. mem[d].tomb[m] = None
    BY DEF IInv, NoLiveTombstone
  <2>2. m \in Msg /\ disk'[d].box[m] # None /\ disk'[d].tomb[m] = None
    BY <1>4, <1>6, <2>1
  <2> QED
    BY <1>0, <2>2 DEF CopyMeaning
<1> QED
  BY <1>3, <1>5, <1>6

\* Only a sweep and the clock finish anything.
LEMMA FinishedStays ==
  ASSUME Types, UNCHANGED <<now, since>>, \A e \in Dev : own'[e] \cup lost'[e] = own[e] \cup lost[e]
  PROVE  Finished' = Finished /\ Given' = Given
<1>1. ASSUME NEW m \in Msg PROVE Done(m)' <=> Done(m)
  BY DEF Done, Overtime
<1> QED
  BY <1>1 DEF Finished, Given

\* Every step is a step of DepositCustody, or none.
LEMMA CustodyStep ==
  ASSUME IInv, IInv', CopyInv, [Next]_vars
  PROVE  [Custody!Next]_(Custody!vars)
<1>1. Types /\ Types'
  BY InvTypes, PTL
<1>2. Later
  BY <1>1, LaterStep
<1>3. CopyMeaning /\ CopyMeaning' /\ CopiesGiven'
  BY CopiesAre, CopiesAreGiven, PTL
<1>4. Finished \subseteq Finished' /\ Finished' \subseteq Msg
  BY <1>1, <1>2, DoneLater DEF Finished
<1>5. ASSUME NEW d \in Dev, NEW A \in SUBSET Given, Given' = Given, Finished' = Finished,
             \A e \in Dev \ {d} : Copies'[e] = Copies[e],
             \A m \in Copies[d] : m \in Copies'[d] \/ Done(m),
             \A m \in A : m \in Copies'[d] \/ Done(m),
             acked' = acked \cup A
      PROVE  Custody!Next
  <2>1. Copies[d] \subseteq Msg /\ A \subseteq Msg
    BY <1>3 DEF CopyMeaning, Given
  <2>2. Custody!Write(d, A)
    BY <1>3, <1>5, <2>1 DEF Custody!Write, Finished, CopiesGiven
  <2> QED
    BY <2>2 DEF Custody!Next
<1>6. ASSUME UNCHANGED <<now, since, own, lost, disk, acked>> PROVE UNCHANGED Custody!vars
  <2>1. Copies' = Copies
    BY <1>6 DEF Copies
  <2>2. Finished' = Finished /\ Given' = Given
    BY <1>1, <1>6, FinishedStays
  <2> QED
    BY <1>6, <2>1, <2>2 DEF Custody!vars
<1>7. CASE Clock
  <2>1. UNCHANGED <<disk, since, acked>> /\ now' = now + 1
    BY <1>7 DEF Clock
  <2>2. Given' = Given
    BY <2>1 DEF Given
  <2>3. ASSUME NEW d \in Dev, NEW m \in Msg
        PROVE  /\ m \in Copies[d] => m \in Copies'[d]
               /\ m \in Copies'[d] => m \in Copies[d] \/ m \in Finished \cap Given
    <3>1. disk[d].tomb[m] # None => Done(m) /\ disk[d].tomb[m] \in Int
      BY <1>1, KeyTypes DEF CopyInv, Doc, Time
    <3>2. now \in Nat
      BY <1>1, KeyTypes
    <3>3. m \in Copies'[d] => m \in Given
      BY <1>3, <2>2 DEF CopiesGiven
    <3> QED
      BY <1>3, <2>1, <3>1, <3>2, <3>3, RetentionNat DEF CopyMeaning, Finished
  <2>4. \A d \in Dev : /\ Copies[d] \subseteq Copies'[d]
                       /\ Copies'[d] \subseteq Copies[d] \cup (Finished \cap Given)
    BY <1>3, <2>3 DEF CopyMeaning
  <2>5. Custody!Finish
    BY <1>4, <2>1, <2>2, <2>4 DEF Custody!Finish
  <2> QED
    BY <2>5 DEF Custody!Next
<1>8. ASSUME NEW d \in Dev,
             WakeArm(d) \/ (\E m \in Msg : FlushArm(d, m)) \/ (\E e \in Dev : Merge(d, e))
      PROVE  UNCHANGED Custody!vars
  BY <1>6, <1>8 DEF WakeArm, FlushArm, Merge
<1>9. ASSUME NEW d \in Dev, NEW k \in 0..3, TaskPersist(d, k) PROVE Custody!Next
  <2>1. UNCHANGED <<now, since, own, lost, mem>> /\ Persist(d, k)
    BY <1>9 DEF TaskPersist
  <2>2. Finished' = Finished /\ Given' = Given
    BY <1>1, <2>1, FinishedStays
  <2>3. /\ \A e \in Dev \ {d} : Copies'[e] = Copies[e]
        /\ \A m \in Copies[d] : m \in Copies'[d] \/ Done(m)
        /\ k = 3 => \A m \in Held(mem[d]) : m \in Copies'[d]
    BY <2>1, PersistCopies
  <2>4. CASE Answered(d, k)
    <3>1. /\ task[d].by \in Msg /\ k = 3 /\ acked' = acked \cup {task[d].by}
      BY <1>1, <1>9, <2>4 DEF TaskPersist, Answered, Types, TypeCtl
    <3>2. Point(d, task[d].by)
      BY <3>1, PointFromIInv
    <3>3. /\ since[task[d].by] # None
          /\ task[d].by \in Held(mem[d]) \/ Done(task[d].by)
      BY <3>1, <3>2 DEF Point, WaitOK
    <3>4. {task[d].by} \in SUBSET Given
      BY <3>1, <3>3 DEF Given
    <3>5. \A m \in {task[d].by} : m \in Copies'[d] \/ Done(m)
      BY <2>3, <3>1, <3>3
    <3> QED
      BY <1>5, <2>2, <2>3, <3>1, <3>4, <3>5
  <2>5. CASE ~Answered(d, k)
    <3>1. acked' = acked \cup {} /\ {} \in SUBSET Given
      BY <1>9, <2>5 DEF TaskPersist
    <3> QED
      BY <1>5, <2>2, <2>3, <3>1
  <2> QED
    BY <2>4, <2>5
<1>10. ASSUME NEW d \in Dev, NEW k \in 0..3, Persist(d, k), UNCHANGED <<now, since, acked>>,
              \A e \in Dev : own'[e] \cup lost'[e] = own[e] \cup lost[e]
       PROVE  Custody!Next
  <2>1. Finished' = Finished /\ Given' = Given
    BY <1>1, <1>10, FinishedStays
  <2>2. /\ \A e \in Dev \ {d} : Copies'[e] = Copies[e]
        /\ \A m \in Copies[d] : m \in Copies'[d] \/ Done(m)
    BY <1>10, PersistCopies
  <2>3. acked' = acked \cup {} /\ {} \in SUBSET Given
    BY <1>10
  <2>4. Copies[d] \subseteq Msg
    BY <1>3 DEF CopyMeaning
  <2>5. Custody!Write(d, {})
    BY <1>3, <2>1, <2>2, <2>3, <2>4 DEF Custody!Write, Finished, CopiesGiven
  <2> QED
    BY <2>3, <2>5 DEF Custody!Next
<1>11. ASSUME NEW d \in Dev, NEW k \in 0..3, SweeperPersist(d, k) PROVE Custody!Next
  BY <1>10, <1>11 DEF SweeperPersist
<1>12. ASSUME NEW d \in Dev, NEW k \in 0..3, NEW away \in SUBSET unsaved[d], Crash(d, k, away)
       PROVE  Custody!Next
  <2>1. /\ Persist(d, k) /\ UNCHANGED <<now, since, acked>>
        /\ own' = [own EXCEPT ![d] = @ \ away] /\ lost' = [lost EXCEPT ![d] = @ \cup away]
    BY <1>12 DEF Crash
  <2>2. away \subseteq own[d]
    BY DEF CopyInv
  <2>3. \A e \in Dev : own'[e] \cup lost'[e] = own[e] \cup lost[e]
    BY <1>1, <2>1, <2>2 DEF Types, TypeOwn
  <2> QED
    BY <1>10, <2>1, <2>3
<1>b. ASSUME NEW d \in Dev, Boot(d) PROVE Custody!Next
  <2>1. Persist(d, 0) /\ UNCHANGED <<now, since, acked, own, lost>>
    BY <1>1, <1>b, BootRestarts DEF Boot, Restarts
  <2> QED
    BY <1>10, <2>1
<1>13. ASSUME NEW d \in Dev, Sweep(d) PROVE Custody!Next
  <2>1. UNCHANGED <<now, since, disk, acked>>
    BY <1>13 DEF Sweep
  <2>2. Copies' = Copies /\ Given' = Given
    BY <2>1 DEF Copies, Given
  <2>3. Custody!Finish
    BY <1>4, <2>1, <2>2 DEF Custody!Finish
  <2> QED
    BY <2>3 DEF Custody!Next
<1>14. ASSUME NEW d \in Dev, NEW n \in Msg, Deposit(d, n) PROVE Custody!Next
  <2>1. /\ UNCHANGED <<now, disk, own, lost, acked>>
        /\ since' = [since EXCEPT ![n] = IF @ = None THEN now ELSE @]
    BY <1>14 DEF Deposit
  <2>2. now \in Nat /\ since \in [Msg -> Time]
    BY <1>1 DEF Types, TypeDocs, TypeHist
  <2>3. Copies' = Copies
    BY <2>1 DEF Copies
  <2>4. Given' = Given \cup {n}
    BY <2>1, <2>2 DEF Given
  <2>5. ASSUME NEW m \in Msg PROVE Done(m)' <=> Done(m)
    <3>1. CASE since'[m] = since[m]
      BY <2>1, <3>1 DEF Done, Overtime
    <3>2. CASE since'[m] # since[m]
      <4>1. since[m] = None /\ since'[m] = now
        BY <2>1, <2>2, <3>2
      <4>2. ~(now + Lag > now + TTL)
        BY <2>2, AheadType, RetentionNat
      <4> QED
        BY <2>1, <4>1, <4>2 DEF Done, Overtime
    <3> QED
      BY <3>1, <3>2
  <2>6. Finished' = Finished
    BY <2>5 DEF Finished
  <2>7. Custody!Offer(n)
    BY <2>1, <2>3, <2>4, <2>6 DEF Custody!Offer
  <2> QED
    BY <2>7 DEF Custody!Next
<1>15. CASE UNCHANGED vars
  BY <1>6, <1>15 DEF vars
<1> QED
  BY <1>7, <1>8, <1>9, <1>11, <1>12, <1>b, <1>13, <1>14, <1>15 DEF Next, EngineNext, SweeperNext

\* The devices implement DepositCustody with what is on their disks: no persist,
\* whole, torn or followed by a boot, destroys a copy of a deposit, acked or merged,
\* before every device took it in or its time is over, and no ack goes out without one.
THEOREM ImplementsCustody == Spec => DurableCustody
<1>1. Init => Custody!Init
  <2> SUFFICES ASSUME Init PROVE Custody!Init
    OBVIOUS
  <2>1. CopyMeaning
    BY InductiveInit, CopiesAre
  <2>2. \A d \in Dev : Copies[d] = {}
    BY <2>1 DEF CopyMeaning, Init, Empty, Nothing
  <2>3. Copies = [d \in Dev |-> {}]
    BY <2>2 DEF Copies
  <2>4. Given = {} /\ Finished = {}
    BY DEF Init, Given, Finished, Done, Overtime, Nothing
  <2> QED
    BY <2>3, <2>4 DEF Custody!Init, Init
<1>2. IInv /\ IInv' /\ CopyInv /\ [Next]_vars => [Custody!Next]_(Custody!vars)
  BY CustodyStep
<1> QED
  BY <1>1, <1>2, Inductive, CopyInductive, PTL DEF Spec, DurableCustody, Custody!Spec

\* The promise to a sender: an acked deposit is on some device's disk, where a boot
\* would find it, until every device took it in or its time is over.
AckedIsKept == \A m \in acked : (\E d \in Dev : m \in Copies[d]) \/ m \in Finished

\* What a device acked and has not removed is restored by a boot.
THEOREM AcksAreKept == Spec => []AckedIsKept
<1>1. IInv => AckedIsKept
  <2> SUFFICES ASSUME IInv, NEW m \in acked PROVE (\E d \in Dev : m \in Copies[d]) \/ m \in Finished
    BY DEF AckedIsKept
  <2>1. m \in Msg
    BY InvTypes DEF Types, TypeOwn
  <2>2. CASE Done(m)
    BY <2>1, <2>2 DEF Finished
  <2>3. ASSUME NEW d \in Dev, m \in holds[d] PROVE m \in Copies[d]
    BY <2>1, <2>3, CopiesAre DEF CopyMeaning, IInv, HoldInv
  <2> QED
    BY <2>2, <2>3 DEF IInv, AckInv
<1> QED
  BY <1>1, Inductive, PTL
----------------------------------------------------------------------------
(***************************************************************************)
(* merge_from is indifferent to the order of what siblings publish and to  *)
(* what arrives twice, tombstones included.                                *)
(***************************************************************************)
\* What becomes of an entry l when r is merged, gone or not, under tombstone z.
JoinEntry(l, r, z) ==
  IF r = None THEN l
  ELSE IF l # None THEN [ig |-> l.ig \cup r.ig, dep |-> Least(l.dep, r.dep)]
  ELSE IF z # None THEN None ELSE r

\* The document after merge_from, key by key.
LEMMA MergedDoc ==
  ASSUME NEW doc \in Doc, NEW r \in Box, NEW t \in Nat
  PROVE  MergeFrom(doc, r, t) = [box  |-> [m \in Msg |-> JoinEntry(doc.box[m], r[m], Prune(doc.tomb, t)[m])],
                                 seen |-> doc.seen, tomb |-> Prune(doc.tomb, t)]
  BY DEF MergeFrom, JoinEntry

\* Entries join in either order, and once is enough.
LEMMA JoinEntries ==
  ASSUME NEW l \in Entry \cup {None}, NEW r \in Entry \cup {None}, NEW q \in Entry \cup {None},
         NEW z \in Time
  PROVE  /\ JoinEntry(l, r, z) \in Entry \cup {None}
         /\ JoinEntry(JoinEntry(l, r, z), q, z) = JoinEntry(JoinEntry(l, q, z), r, z)
         /\ JoinEntry(JoinEntry(l, r, z), r, z) = JoinEntry(l, r, z)
<1> USE DEF Entry
<1>1. ASSUME NEW a \in Entry, NEW b \in Entry, NEW c \in Entry
      PROVE  /\ JoinEntry(a, b, z) \in Entry
             /\ JoinEntry(a, b, z).ig = a.ig \cup b.ig
             /\ JoinEntry(a, b, z).dep = Least(a.dep, b.dep)
  <2>1. a # None /\ b # None
    OBVIOUS
  <2>2. Least(a.dep, b.dep) \in Nat
    BY DEF Least
  <2> QED
    BY <2>1, <2>2 DEF JoinEntry
<1>2. ASSUME NEW a \in Entry, NEW b \in Entry, a.ig = b.ig, a.dep = b.dep PROVE a = b
  BY <1>2
<1>3. ASSUME NEW a \in Nat, NEW b \in Nat, NEW c \in Nat
      PROVE  /\ Least(Least(a, b), c) = Least(Least(a, c), b)
             /\ Least(Least(a, b), b) = Least(a, b) /\ Least(a, b) = Least(b, a) /\ Least(a, a) = a
  BY DEF Least
<1>4. ASSUME NEW a \in Entry, NEW b \in Entry, NEW c \in Entry
      PROVE  /\ JoinEntry(JoinEntry(a, b, z), c, z) = JoinEntry(JoinEntry(a, c, z), b, z)
             /\ JoinEntry(JoinEntry(a, b, z), b, z) = JoinEntry(a, b, z)
             /\ JoinEntry(a, b, z) = JoinEntry(b, a, z) /\ JoinEntry(a, a, z) = a
  <2> DEFINE ab == JoinEntry(a, b, z)
             ac == JoinEntry(a, c, z)
             ba == JoinEntry(b, a, z)
             aa == JoinEntry(a, a, z)
  <2>1. /\ ab \in Entry /\ ab.ig = a.ig \cup b.ig /\ ab.dep = Least(a.dep, b.dep)
        /\ ac \in Entry /\ ac.ig = a.ig \cup c.ig /\ ac.dep = Least(a.dep, c.dep)
        /\ ba \in Entry /\ ba.ig = b.ig \cup a.ig /\ ba.dep = Least(b.dep, a.dep)
        /\ aa \in Entry /\ aa.ig = a.ig \cup a.ig /\ aa.dep = Least(a.dep, a.dep)
    BY <1>1
  <2> HIDE DEF ab, ac, ba, aa
  <2> DEFINE abc == JoinEntry(ab, c, z)
             acb == JoinEntry(ac, b, z)
             abb == JoinEntry(ab, b, z)
  <2>2. /\ abc \in Entry /\ abc.ig = ab.ig \cup c.ig /\ abc.dep = Least(ab.dep, c.dep)
        /\ acb \in Entry /\ acb.ig = ac.ig \cup b.ig /\ acb.dep = Least(ac.dep, b.dep)
        /\ abb \in Entry /\ abb.ig = ab.ig \cup b.ig /\ abb.dep = Least(ab.dep, b.dep)
    BY <2>1, <1>1
  <2> HIDE DEF abc, acb, abb
  <2>3. a.dep \in Nat /\ b.dep \in Nat /\ c.dep \in Nat
    OBVIOUS
  <2>4. /\ abc.dep = acb.dep /\ abb.dep = ab.dep /\ ab.dep = ba.dep /\ aa.dep = a.dep
    BY <1>3, <2>1, <2>2, <2>3
  <2>5. /\ abc.ig = acb.ig /\ abb.ig = ab.ig /\ ab.ig = ba.ig /\ aa.ig = a.ig
    BY <2>1, <2>2
  <2>6. abc = acb /\ abb = ab /\ ab = ba /\ aa = a
    BY <1>2, <2>1, <2>2, <2>4, <2>5
  <2> QED
    BY <2>6 DEF abc, acb, abb, ab, ac, ba, aa
<1>5. JoinEntry(l, r, z) \in Entry \cup {None}
  <2>1. CASE l \in Entry /\ r \in Entry
    BY <1>1, <2>1
  <2>2. CASE l = None \/ r = None
    BY <2>2 DEF JoinEntry
  <2> QED
    BY <2>1, <2>2
<1>6. \A a : JoinEntry(a, None, z) = a
  BY DEF JoinEntry
<1>7. ASSUME NEW a \in Entry PROVE JoinEntry(None, a, z) = IF z # None THEN None ELSE a
  BY <1>7 DEF JoinEntry
<1>8. CASE l \in Entry /\ r \in Entry /\ q \in Entry
  BY <1>4, <1>5, <1>8
<1>9. CASE l = None /\ r \in Entry /\ q \in Entry
  BY <1>4, <1>5, <1>7, <1>9
<1>10. CASE r = None
  BY <1>6, <1>10
<1>11. CASE q = None /\ r \in Entry
  <2>1. JoinEntry(JoinEntry(l, r, z), q, z) = JoinEntry(JoinEntry(l, q, z), r, z)
    BY <1>11 DEF JoinEntry
  <2>2. CASE l \in Entry
    BY <1>4, <1>5, <1>11, <2>1, <2>2
  <2>3. CASE l = None
    BY <1>4, <1>5, <1>7, <1>11, <2>1, <2>3
  <2> QED
    BY <2>2, <2>3
<1> QED
  BY <1>8, <1>9, <1>10, <1>11

\* To prune twice is to prune once.
LEMMA PruneTwice ==
  ASSUME NEW tomb \in [Msg -> Time], NEW t \in Nat
  PROVE  Prune(Prune(tomb, t), t) = Prune(tomb, t)
  BY DEF Prune

\* Device by device: whatever a device holds and has buried, two documents from
\* siblings can be merged in either order with the same result, and a document that
\* arrives again changes nothing.
THEOREM InboxMergeOrderFree ==
  ASSUME NEW doc \in Doc, NEW r \in Box, NEW q \in Box, NEW t \in Nat
  PROVE  /\ MergeFrom(MergeFrom(doc, r, t), q, t) = MergeFrom(MergeFrom(doc, q, t), r, t)
         /\ MergeFrom(MergeFrom(doc, r, t), r, t) = MergeFrom(doc, r, t)
<1> DEFINE z == Prune(doc.tomb, t)
           b(x) == [m \in Msg |-> JoinEntry(doc.box[m], x[m], z[m])]
<1>0. doc.tomb \in [Msg -> Time] /\ doc.box \in Box /\ doc.box \in [Msg -> Entry \cup {None}]
  BY DEF Doc, Box
<1>1. z \in [Msg -> Time] /\ Prune(z, t) = z
  BY <1>0, Pruned, PruneTwice
<1> HIDE DEF z
<1>2. ASSUME NEW x \in Box
      PROVE  /\ MergeFrom(doc, x, t) \in Doc
             /\ MergeFrom(doc, x, t) = [box |-> b(x), seen |-> doc.seen, tomb |-> z]
             /\ MergeFrom(doc, x, t).box = b(x) /\ MergeFrom(doc, x, t).seen = doc.seen
             /\ MergeFrom(doc, x, t).tomb = z
  <2>1. MergeFrom(doc, x, t) \in Doc
    BY Merged
  <2>2. MergeFrom(doc, x, t) = [box |-> b(x), seen |-> doc.seen, tomb |-> z]
    BY MergedDoc DEF z
  <2> QED
    BY <2>1, <2>2
<1>3. ASSUME NEW x \in Box, NEW y \in Box
      PROVE  MergeFrom(MergeFrom(doc, x, t), y, t)
               = [box |-> [m \in Msg |-> JoinEntry(JoinEntry(doc.box[m], x[m], z[m]), y[m], z[m])],
                  seen |-> doc.seen, tomb |-> z]
  <2> DEFINE M == MergeFrom(doc, x, t)
  <2>1. M \in Doc /\ M.box = b(x) /\ M.seen = doc.seen /\ M.tomb = z
    BY <1>2
  <2> HIDE DEF M
  <2>2. MergeFrom(M, y, t) = [box |-> [m \in Msg |-> JoinEntry(M.box[m], y[m], Prune(M.tomb, t)[m])],
                              seen |-> M.seen, tomb |-> Prune(M.tomb, t)]
    BY <2>1, MergedDoc
  <2>3. \A m \in Msg : M.box[m] = JoinEntry(doc.box[m], x[m], z[m])
    BY <2>1
  <2> QED
    BY <1>1, <2>1, <2>2, <2>3 DEF M
<1>4. ASSUME NEW m \in Msg
      PROVE  /\ JoinEntry(JoinEntry(doc.box[m], r[m], z[m]), q[m], z[m])
                  = JoinEntry(JoinEntry(doc.box[m], q[m], z[m]), r[m], z[m])
             /\ JoinEntry(JoinEntry(doc.box[m], r[m], z[m]), r[m], z[m])
                  = JoinEntry(doc.box[m], r[m], z[m])
  <2> DEFINE l == doc.box[m]
             rm == r[m]
             qm == q[m]
             zm == z[m]
  <2>1. /\ l \in Entry \cup {None} /\ rm \in Entry \cup {None} /\ qm \in Entry \cup {None}
        /\ zm \in Time
    BY <1>0, <1>1 DEF Box
  <2> HIDE DEF l, rm, qm, zm
  <2>2. /\ JoinEntry(JoinEntry(l, rm, zm), qm, zm) = JoinEntry(JoinEntry(l, qm, zm), rm, zm)
        /\ JoinEntry(JoinEntry(l, rm, zm), rm, zm) = JoinEntry(l, rm, zm)
    BY <2>1, JoinEntries
  <2> QED
    BY <2>2 DEF l, rm, qm, zm
<1>5. MergeFrom(MergeFrom(doc, r, t), q, t) = MergeFrom(MergeFrom(doc, q, t), r, t)
  BY <1>3, <1>4
<1>6. MergeFrom(MergeFrom(doc, r, t), r, t) = MergeFrom(doc, r, t)
  BY <1>2, <1>3, <1>4
<1> QED
  BY <1>5, <1>6
============================================================================
