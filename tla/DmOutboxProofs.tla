--------------------------- MODULE DmOutboxProofs ---------------------------
(***************************************************************************)
(* Proofs about DmOutbox: IInv is inductive, it implies the invariants,    *)
(* the disk implements DmLifecycle, and the merge of two replicas is a     *)
(* join.                                                                   *)
(*                                                                         *)
(* Three arguments that hardly touch one another.  Replicas: every         *)
(* operation on one leaves it good and only adds to it (GoodStep), so that *)
(* the disk is always behind memory, which is what the refinement needs.   *)
(* Hands: the claims about ticks, tasks and markers are claims about one   *)
(* pair (Hand); an action moves the pair from one hand to the next or      *)
(* leaves it where it is (HandStays).  Shutdown: the gate, then the fence. *)
(***************************************************************************)
EXTENDS DmOutbox, TLAPS

USE InviteAssumption, PeerAssumption, UnitAssumption, TimeAssumption
USE DEF Lifecycle!Forward

----------------------------------------------------------------------------
(***************************************************************************)
(* What the operations on a replica do.                                    *)
(***************************************************************************)
\* An entry that is there.
Filed == {e \in [st : {"pending", "partial", "complete", "expired"}, got : SUBSET Peer, at : Nat] :
           e.st = ComputeStatus(e.got, e.st = "expired")}

\* A replica with its types, in which deleted entries are gone.
Good(r) == r \in Replica /\ \A m \in r.tomb : ~Present(r.box[m])

\* How entry a may become b, apart from tombstones.
Onward(a, b) ==
  \/ a = b
  \/ ~Present(a)
  \/ /\ Present(b) /\ a.got \subseteq b.got
     /\ Open(b) => Open(a)
     /\ a.st = "complete" => b.st = "complete" /\ a.got = b.got
     /\ a.st = "expired" => b.st \in {"expired", "complete"}

\* An entry is absent, or its status is computed; open, expired and complete
\* exclude one another.
LEMMA EntryFacts ==
  ASSUME NEW e \in Entry
  PROVE  /\ e = Absent \/ e \in Filed
         /\ e.got \in SUBSET Peer /\ e.at \in Nat
         /\ e.st \in {"absent", "pending", "partial", "complete", "expired"}
         /\ e.st = "complete" <=> e.got = Peer
         /\ e.st = "absent" => e = Absent
  BY DEF Entry, Filed, Absent, ComputeStatus

\* An acknowledgement.
LEMMA AckedEntry ==
  ASSUME NEW r \in Replica, NEW u \in Pair, Present(r.box[u[1]])
  PROVE  /\ Acked(r, u) \in Replica /\ Acked(r, u).tomb = r.tomb
         /\ \A m \in Msg : Onward(r.box[m], Acked(r, u).box[m])
         /\ \A m \in Msg \ {u[1]} : Acked(r, u).box[m] = r.box[m]
<1> DEFINE n == u[1]
           e == r.box[n]
           got == e.got \cup {u[2]}
           f == [st |-> ComputeStatus(got, e.st = "expired"), got |-> got, at |-> e.at]
<1>1. n \in Msg /\ u[2] \in Peer /\ r.box \in [Msg -> Entry] /\ r.tomb \in SUBSET Msg
  BY DEF Pair, Replica
<1>2. e \in Filed
  BY <1>1, EntryFacts DEF Present, Absent
<1>3. f \in Entry /\ Present(f) /\ f.got = got /\ (f.st = "complete" <=> got = Peer)
      /\ (e.st = "expired" => f.st \in {"complete", "expired"})
      /\ (e.st # "expired" => f.st # "expired")
  BY <1>1, <1>2 DEF Filed, Entry, ComputeStatus, Present
<1>4. Acked(r, u) = [box |-> [r.box EXCEPT ![n] = f], tomb |-> r.tomb]
  BY <1>1, <1>2 DEF Acked, Filed, Replica
<1>5. Onward(e, f)
  <2>1. e.got \subseteq f.got /\ e.got \subseteq Peer /\ f.got \subseteq Peer
    BY <1>1, <1>2, <1>3 DEF Filed
  <2>2. e.st \in {"pending", "partial", "complete", "expired"} /\ (e.st = "complete" <=> e.got = Peer)
    BY <1>2 DEF Filed, ComputeStatus
  <2> QED
    BY <1>3, <2>1, <2>2 DEF Onward, Open
<1> HIDE DEF n, e, f, got
<1>6. r.box[n] = e
  BY DEF e
<1>7. Acked(r, u).box = [r.box EXCEPT ![n] = f] /\ Acked(r, u).tomb = r.tomb
  BY <1>4
<1>8. Acked(r, u) \in Replica
  BY <1>1, <1>3, <1>4 DEF Replica
<1>9. \A m \in Msg : m # n => Acked(r, u).box[m] = r.box[m]
  BY <1>1, <1>7
<1>10. Acked(r, u).box[n] = f
  BY <1>1, <1>7
<1> QED
  BY <1>5, <1>6, <1>7, <1>8, <1>9, <1>10 DEF Onward, n

\* The expiration sweep at one key.
ExpiredKey(r, t, q, m) ==
  /\ Onward(r.box[m], q.box[m])
  /\ m \notin Expirable(r, t) => q.box[m] = r.box[m]
  /\ m \in Expirable(r, t) => /\ q.box[m] = [r.box[m] EXCEPT !.st = "expired"]
                              /\ Open(r.box[m]) /\ q.box[m].st = "expired"

\* The sweep moves the entries that are old enough, and no other.
LEMMA ExpiredEntry ==
  ASSUME NEW r \in Replica, NEW t \in Nat
  PROVE  /\ ExpireAt(r, t) \in Replica /\ ExpireAt(r, t).tomb = r.tomb
         /\ \A m \in Msg : ExpiredKey(r, t, ExpireAt(r, t), m)
<1> DEFINE b == [m \in Msg |-> IF m \in Expirable(r, t) THEN [r.box[m] EXCEPT !.st = "expired"]
                               ELSE r.box[m]]
<1>1. r.box \in [Msg -> Entry] /\ r.tomb \in SUBSET Msg
  BY DEF Replica
<1>2. ExpireAt(r, t) = [box |-> b, tomb |-> r.tomb]
  BY <1>1 DEF ExpireAt, Replica
<1>3. ASSUME NEW m \in Msg, m \in Expirable(r, t)
      PROVE  /\ b[m] \in Entry /\ Onward(r.box[m], b[m]) /\ Open(r.box[m])
             /\ b[m].st = "expired" /\ b[m] = [r.box[m] EXCEPT !.st = "expired"]
  <2>1. Open(r.box[m]) /\ r.box[m] \in Filed
    BY <1>1, <1>3, EntryFacts DEF Expirable, Open, Absent
  <2>2. r.box[m].got # Peer
    BY <2>1 DEF Filed, Open, ComputeStatus
  <2>3. b[m] = [st |-> "expired", got |-> r.box[m].got, at |-> r.box[m].at]
    BY <1>3, <2>1 DEF Filed
  <2>4. b[m] \in Entry
    BY <2>1, <2>2, <2>3 DEF Entry, Filed, ComputeStatus
  <2> QED
    BY <1>3, <2>1, <2>3, <2>4 DEF Onward, Open, Present
<1>4. ASSUME NEW m \in Msg, m \notin Expirable(r, t)
      PROVE  b[m] = r.box[m]
  BY <1>4
<1>5. b \in [Msg -> Entry]
  BY <1>1, <1>3, <1>4
<1> HIDE DEF b
<1>6. ExpireAt(r, t) \in Replica /\ ExpireAt(r, t).box = b /\ ExpireAt(r, t).tomb = r.tomb
  BY <1>1, <1>2, <1>5 DEF Replica
<1> QED
  BY <1>3, <1>4, <1>6 DEF Onward, ExpiredKey

\* One entry of a merge.
LEMMA AppliedEntry ==
  ASSUME NEW mine \in Entry, NEW theirs \in Entry, NEW dead \in BOOLEAN
  PROVE  /\ ApplyOutbox(mine, theirs, dead) \in Entry
         /\ Onward(mine, ApplyOutbox(mine, theirs, dead))
         /\ dead => ApplyOutbox(mine, theirs, dead) = mine
<1>1. CASE ~Present(theirs) \/ dead
  BY <1>1 DEF ApplyOutbox, Onward
<1>2. CASE Present(theirs) /\ ~dead
  <2> DEFINE got == mine.got \cup theirs.got
             x   == "expired" \in {mine.st, theirs.st}
             f   == [st |-> ComputeStatus(got, x), got |-> got, at |-> theirs.at]
  <2>1. ApplyOutbox(mine, theirs, dead) = f
    BY <1>2 DEF ApplyOutbox
  <2>2. got \in SUBSET Peer /\ x \in BOOLEAN /\ theirs.at \in Nat
    BY EntryFacts
  <2>3. /\ f \in Entry /\ Present(f) /\ f.got = got /\ (f.st = "complete" <=> got = Peer)
        /\ (x => f.st \in {"complete", "expired"})
    BY <2>2 DEF Entry, ComputeStatus, Present
  <2>4. /\ mine.got \subseteq got /\ mine.got \in SUBSET Peer
        /\ mine.st \in {"absent", "pending", "partial", "complete", "expired"}
        /\ (mine.st = "complete" <=> mine.got = Peer) /\ (mine.st = "expired" => x)
    BY EntryFacts
  <2> HIDE DEF f, got, x
  <2>5. Onward(mine, f)
    BY <2>2, <2>3, <2>4 DEF Onward, Open, Present
  <2> QED
    BY <1>2, <2>1, <2>3, <2>5
<1> QED
  BY <1>1, <1>2

\* How a replica may change.
Grows(r, q) == /\ r.tomb \subseteq q.tomb
               /\ \A m \in Msg : m \in q.tomb \/ Onward(r.box[m], q.box[m])

\* An operation on a good replica leaves a good one, and only adds.
GoodStep(r, q) == Good(q) /\ Grows(r, q)

\* An acknowledgement of an entry that is there.
LEMMA AckedGood ==
  ASSUME NEW r, Good(r), NEW u \in Pair, Present(r.box[u[1]])
  PROVE  GoodStep(r, Acked(r, u))
<1>1. r \in Replica
  BY DEF Good
<1>2. /\ Acked(r, u) \in Replica /\ Acked(r, u).tomb = r.tomb
      /\ \A m \in Msg : Onward(r.box[m], Acked(r, u).box[m])
      /\ \A m \in Msg \ {u[1]} : Acked(r, u).box[m] = r.box[m]
  BY <1>1, AckedEntry
<1>3. u[1] \notin r.tomb
  BY DEF Good
<1> QED
  BY <1>2, <1>3 DEF Good, Grows, GoodStep, Replica

\* The expiration sweep.
LEMMA ExpiredGood ==
  ASSUME NEW r, Good(r), NEW t \in Nat
  PROVE  GoodStep(r, ExpireAt(r, t))
<1> DEFINE q == ExpireAt(r, t)
<1> HIDE DEF q
<1>1. r \in Replica /\ r.tomb \subseteq Msg /\ \A m \in r.tomb : ~Present(r.box[m])
  BY DEF Good, Replica
<1>2. q \in Replica /\ q.tomb = r.tomb
  BY <1>1, ExpiredEntry DEF q
<1>3. ASSUME NEW m \in Msg
      PROVE  Onward(r.box[m], q.box[m]) /\ (~Present(r.box[m]) => q.box[m] = r.box[m])
  <2>1. ExpiredKey(r, t, q, m)
    BY <1>1, ExpiredEntry DEF q
  <2>2. ~Present(r.box[m]) => m \notin Expirable(r, t)
    BY DEF Expirable, Open, Present
  <2> QED
    BY <2>1, <2>2 DEF ExpiredKey
<1>4. Good(q)
  BY <1>1, <1>2, <1>3 DEF Good
<1>5. Grows(r, q)
  BY <1>2, <1>3 DEF Grows
<1> QED
  BY <1>4, <1>5 DEF GoodStep, q

\* A deletion.
LEMMA DeletedGood ==
  ASSUME NEW r, Good(r), NEW n \in Msg
  PROVE  GoodStep(r, Deleted(r, n)) /\ n \in Deleted(r, n).tomb
<1>1. r.box \in [Msg -> Entry] /\ r.tomb \in SUBSET Msg /\ \A m \in r.tomb : ~Present(r.box[m])
  BY DEF Good, Replica
<1>2. Absent \in Entry /\ ~Present(Absent)
  BY DEF Entry, Absent, Present
<1>3. Deleted(r, n).box = [r.box EXCEPT ![n] = Absent] /\ Deleted(r, n).tomb = r.tomb \cup {n}
  BY DEF Deleted
<1>4. Deleted(r, n) \in Replica
  BY <1>1, <1>2 DEF Deleted, Replica
<1>5. Good(Deleted(r, n))
  BY <1>1, <1>2, <1>3, <1>4 DEF Good
<1>6. Grows(r, Deleted(r, n))
  BY <1>1, <1>3 DEF Grows, Onward
<1> QED
  BY <1>3, <1>5, <1>6 DEF GoodStep

\* A merge: tombstones first, so that no entry comes in beside one.
LEMMA MergedGood ==
  ASSUME NEW r, Good(r), NEW p, Good(p)
  PROVE  GoodStep(r, MergeReplica(r, p))
<1> DEFINE tomb == r.tomb \cup p.tomb
           swept(m) == IF m \in p.tomb THEN Absent ELSE r.box[m]
           q == MergeReplica(r, p)
<1>1. /\ r.box \in [Msg -> Entry] /\ r.tomb \in SUBSET Msg /\ \A m \in r.tomb : ~Present(r.box[m])
      /\ p.box \in [Msg -> Entry] /\ p.tomb \in SUBSET Msg
  BY DEF Good, Replica
<1>2. /\ q.tomb = tomb /\ q.box = [m \in Msg |-> ApplyOutbox(swept(m), p.box[m], m \in tomb)]
      /\ q = [tomb |-> q.tomb, box |-> q.box]
  BY DEF MergeReplica
<1>3. Absent \in Entry /\ ~Present(Absent)
  BY DEF Entry, Absent, Present
<1> HIDE DEF q
<1>4. ASSUME NEW m \in Msg
      PROVE  /\ q.box[m] \in Entry
             /\ m \in tomb => ~Present(q.box[m])
             /\ m \in tomb \/ Onward(r.box[m], q.box[m])
  <2>1. swept(m) \in Entry /\ (m \in tomb => ~Present(swept(m))) /\ (m \notin tomb => swept(m) = r.box[m])
    BY <1>1, <1>3
  <2>2. q.box[m] = ApplyOutbox(swept(m), p.box[m], m \in tomb) /\ p.box[m] \in Entry
    BY <1>1, <1>2
  <2> HIDE DEF swept, tomb
  <2>3. CASE m \in tomb
    <3>1. q.box[m] = swept(m)
      BY <2>2, <2>3 DEF ApplyOutbox
    <3> QED
      BY <2>1, <2>3, <3>1
  <2>4. CASE m \notin tomb
    <3>1. q.box[m] = ApplyOutbox(swept(m), p.box[m], FALSE)
      BY <2>2, <2>4 DEF ApplyOutbox
    <3> QED
      BY <2>1, <2>2, <2>4, <3>1, AppliedEntry
  <2> QED
    BY <2>3, <2>4
<1>5. q \in Replica
  BY <1>1, <1>2, <1>4 DEF Replica
<1>6. Good(q)
  BY <1>2, <1>4, <1>5 DEF Good, Replica
<1>7. Grows(r, q)
  BY <1>2, <1>4 DEF Grows
<1> QED
  BY <1>6, <1>7 DEF GoodStep, q

\* What is live after an operation was live before or did not exist; and the
\* record moves forward.
LEMMA GrowsFacts ==
  ASSUME NEW r, Good(r), NEW q, Good(q), Grows(r, q)
  PROVE  /\ \A u \in Pair : Live(q, u) /\ Present(r.box[u[1]]) => Live(r, u)
         /\ \A u \in Pair : u[1] \in q.tomb => ~Live(q, u)
         /\ \A m \in Msg : Present(r.box[m]) => Present(q.box[m]) \/ m \in q.tomb
         /\ \A m \in Msg : Lifecycle!Forward(RecordIn(r, m), RecordIn(q, m))
<1>1. \A u \in Pair : u[1] \in Msg /\ (u[1] \in q.tomb => ~Live(q, u))
  BY DEF Good, Live, Open, Present, Pair
<1>2. \A u \in Pair : Live(q, u) /\ Present(r.box[u[1]]) => Live(r, u)
  BY <1>1 DEF Grows, Onward, Live
<1>3. \A m \in Msg : Present(r.box[m]) => Present(q.box[m]) \/ m \in q.tomb
  BY DEF Grows, Onward
<1>4. ASSUME NEW m \in Msg PROVE Lifecycle!Forward(RecordIn(r, m), RecordIn(q, m))
  <2>1. CASE m \in q.tomb
    BY <2>1 DEF RecordIn
  <2>2. CASE m \notin q.tomb
    <3> DEFINE a == r.box[m]
               b == q.box[m]
    <3>1. a \in Entry /\ b \in Entry
      BY DEF Good, Replica
    <3>2. /\ a.st \in {"absent", "pending", "partial", "complete", "expired"}
          /\ b.st \in {"absent", "pending", "partial", "complete", "expired"}
      BY <3>1, EntryFacts
    <3>3. m \notin r.tomb /\ Onward(a, b)
      BY <2>2 DEF Grows
    <3>4. /\ RecordIn(r, m) = [stage |-> IF Open(a) THEN "open" ELSE a.st, got |-> a.got]
          /\ RecordIn(q, m) = [stage |-> IF Open(b) THEN "open" ELSE b.st, got |-> b.got]
      BY <2>2, <3>3 DEF RecordIn
    <3> HIDE DEF a, b
    <3>5. CASE a = b
      BY <3>4, <3>5
    <3>6. CASE ~Present(a)
      BY <3>4, <3>6 DEF Present, Open
    <3>7. CASE a # b /\ Present(a)
      BY <3>2, <3>3, <3>4, <3>7 DEF Onward, Present, Open
    <3> QED
      BY <3>5, <3>6, <3>7
  <2> QED
    BY <2>1, <2>2
<1> QED
  BY <1>1, <1>2, <1>3, <1>4

\* Forward is transitive.
LEMMA ForwardTransitive ==
  ASSUME NEW a, NEW b, NEW c, Lifecycle!Forward(a, b), Lifecycle!Forward(b, c)
  PROVE  Lifecycle!Forward(a, c)
  OBVIOUS
----------------------------------------------------------------------------
(***************************************************************************)
(* Types, tombstones, and how the replicas move.                           *)
(***************************************************************************)
USE DEF retryVars, stopVars

TickType == [pc : {"idle", "sending"}, todo : SUBSET Pair, cur : Pair \cup {NoUnit},
             sent : Reports, skip : SUBSET Pair, at : Nat]
TaskType == [stage : {"free", "outcomes", "rungs"}, sent : Reports,
             skip : SUBSET Pair, at : Nat, cand : SUBSET Pair]

TypeReps  == Good(mem) /\ Good(disk) /\ Good(sib)
TypeRetry == inFlight \subseteq Pair /\ tries \in [Pair -> Nat] /\ last \in [Pair -> Nat]
TypeHands == tick \in TickType /\ task \in [Slots -> TaskType]
TypeEnv   ==
  /\ now \in Nat /\ due \in BOOLEAN /\ gate \in BOOLEAN
  /\ stop \in {"run", "stopping", "fencing", "saving", "acked", "late"}
  /\ dropped \subseteq Pair /\ left \in [Events -> Nat]
Types == TypeReps /\ TypeRetry /\ TypeHands /\ TypeEnv

\* TypeOK and TombstonesHold, replica by replica.
LEMMA TypeParts == TypeOK /\ TombstonesHold <=> Types
<1>1. TypeOK /\ TombstonesHold => Types
  BY DEF TypeOK, TombstonesHold, Types, TypeReps, TypeRetry, TypeHands, TypeEnv, Good, TickType,
         TaskType
<1>2. Types => TypeOK
  BY DEF TypeOK, Types, TypeReps, TypeRetry, TypeHands, TypeEnv, Good, TickType, TaskType
<1>3. Types => TombstonesHold
  BY DEF TombstonesHold, Types, TypeReps, Good
<1> QED
  BY <1>1, <1>2, <1>3

\* The types hold initially.
LEMMA TypeInit == Init => Types
<1> SUFFICES ASSUME Init PROVE Types
  OBVIOUS
<1>1. Good(Replica0)
  BY DEF Good, Replica0, Replica, Entry, Absent
<1>2. TypeReps
  BY <1>1 DEF Init, TypeReps
<1>3. TypeRetry
  BY DEF Init, TypeRetry
<1>4. TypeHands
  BY DEF Init, TypeHands, TickType, TaskType, NoTick, NoTask, Reports
<1>5. TypeEnv
  BY ScenarioAssumption DEF Init, TypeEnv
<1> QED
  BY <1>2, <1>3, <1>4, <1>5 DEF Types

\* An event that happens is one less to come.
LEMMA SpendType ==
  ASSUME NEW e \in Events, left \in [Events -> Nat], Spend(e)
  PROVE  left' \in [Events -> Nat]
<1>1. left[e] - 1 \in Nat
  BY DEF Spend
<1> QED
  BY <1>1 DEF Spend

\* A replica that stays.
LEMMA GrowsSame == ASSUME NEW r, Good(r) PROVE GoodStep(r, r)
  BY DEF GoodStep, Grows, Onward

\* No step but a restart takes anything from memory, and the disk takes over what
\* memory has.
RepsMove == /\ GoodStep(sib, sib') /\ Good(mem') /\ Good(disk')
            /\ \/ Grows(mem, mem') /\ disk' = disk
               \/ mem' = mem /\ disk' = mem
               \/ Restart /\ mem' = disk /\ disk' = disk

\* Every step moves the replicas this way.
LEMMA RepsStep == Types /\ [Next]_vars => RepsMove
<1> SUFFICES ASSUME Types, [Next]_vars PROVE RepsMove
  OBVIOUS
<1>0. Good(mem) /\ Good(disk) /\ Good(sib) /\ now \in Nat
  BY DEF Types, TypeReps, TypeEnv
<1>same. GoodStep(mem, mem) /\ GoodStep(sib, sib)
  BY <1>0, GrowsSame
<1>1. ASSUME UNCHANGED <<mem, disk, sib>> PROVE RepsMove
  BY <1>0, <1>1, <1>same DEF RepsMove, GoodStep
<1>2. ASSUME GoodStep(mem, mem'), UNCHANGED <<disk, sib>> PROVE RepsMove
  BY <1>0, <1>2, <1>same DEF RepsMove, GoodStep
<1>3. ASSUME NEW m \in Msg, SendDm(m) PROVE RepsMove
  <2> DEFINE e == [st |-> "pending", got |-> {}, at |-> now]
  <2>1. e \in Entry
    BY <1>0 DEF Entry, ComputeStatus
  <2>2. mem' = [mem EXCEPT !.box[m] = e] /\ ~Present(mem.box[m]) /\ m \notin mem.tomb
    BY <1>3 DEF SendDm, Unused
  <2> HIDE DEF e
  <2>3. mem.box \in [Msg -> Entry] /\ mem \in Replica
    BY <1>0 DEF Good, Replica
  <2>4. mem' \in Replica /\ mem'.tomb = mem.tomb /\ mem'.box = [mem.box EXCEPT ![m] = e]
    BY <2>1, <2>2, <2>3 DEF Replica
  <2>5. \A n \in Msg : n # m => mem'.box[n] = mem.box[n]
    BY <2>3, <2>4
  <2>6. Good(mem')
    BY <1>0, <2>2, <2>4, <2>5 DEF Good, Replica
  <2>7. Grows(mem, mem')
    BY <2>2, <2>4, <2>5 DEF Grows, Onward
  <2> QED
    BY <1>2, <1>3, <2>6, <2>7 DEF SendDm, GoodStep
<1>4. ASSUME NEW m \in Msg, DeleteDm(m) PROVE RepsMove
  BY <1>0, <1>2, <1>4, DeletedGood DEF DeleteDm
<1>5. CASE Save \/ SaveAndAck
  BY <1>0, <1>5, <1>same DEF Save, SaveAndAck, RepsMove
<1>6. CASE MergeIn
  BY <1>0, <1>2, <1>6, MergedGood DEF MergeIn
<1>7. CASE MergeOut
  BY <1>0, <1>7, <1>same, MergedGood DEF MergeOut, RepsMove, GoodStep
<1>8. CASE SiblingStep
  <2>1. GoodStep(sib, sib')
    <3>1. ASSUME NEW u \in Pair, Present(sib.box[u[1]]), sib' = Acked(sib, u) PROVE GoodStep(sib, sib')
      BY <1>0, <3>1, AckedGood
    <3>2. CASE sib' = ExpireAt(sib, now)
      BY <1>0, <3>2, ExpiredGood
    <3>3. ASSUME NEW m \in Msg, sib' = Deleted(sib, m) PROVE GoodStep(sib, sib')
      BY <1>0, <3>3, DeletedGood
    <3> QED
      BY <1>8, <3>1, <3>2, <3>3 DEF SiblingStep
  <2> QED
    BY <1>0, <1>8, <1>same, <2>1 DEF SiblingStep, RepsMove, GoodStep
<1>9. ASSUME NEW s \in Slots, PhaseC(s) PROVE RepsMove
  <2>1. task[s].at \in Nat
    BY DEF Types, TypeHands, TaskType
  <2> QED
    BY <1>0, <1>2, <1>9, <2>1, ExpiredGood DEF PhaseC
<1>10. ASSUME NEW s \in Slots, NEW u \in Pair, RungAcked(s, u) PROVE RepsMove
  <2>1. CASE mem' = mem
    BY <1>1, <1>10, <2>1 DEF RungAcked
  <2>2. CASE mem' # mem
    <3>1. mem' = Acked(mem, u) /\ Present(mem.box[u[1]])
      BY <1>10, <2>2 DEF RungAcked
    <3> QED
      BY <1>0, <1>2, <1>10, <3>1, AckedGood DEF RungAcked
  <2> QED
    BY <2>1, <2>2
<1>11. CASE Restart
  BY <1>0, <1>11, <1>same DEF Restart, RepsMove
<1>12. CASE Clock \/ TickNext \/ StopBegin \/ CloseGate \/ FencePassed \/ StopTimesOut
  BY <1>1, <1>12 DEF Clock, TickNext, TickStart, SkipPhaseC, Recheck, Skip, Sent, Spawn, StopBegin,
                     CloseGate, FencePassed, StopTimesOut
<1>13. ASSUME NEW s \in Slots, TaskEnd(s) \/ (\E u \in Pair : RungFails(s, u)) PROVE RepsMove
  BY <1>1, <1>13 DEF TaskEnd, RungFails
<1>14. CASE UNCHANGED vars
  BY <1>1, <1>14 DEF vars
<1> QED
  BY <1>3, <1>4, <1>5, <1>6, <1>7, <1>8, <1>9, <1>10, <1>11, <1>12, <1>13, <1>14
     DEF Next, StopNext, TaskNext

\* Every step preserves the types.
LEMMA TypeStep == Types /\ [Next]_vars => Types'
<1> SUFFICES ASSUME Types, [Next]_vars PROVE Types'
  OBVIOUS
<1>0. TypeReps'
  BY RepsStep DEF RepsMove, GoodStep, TypeReps
<1> USE DEF Types
<1>1. CASE Clock \/ Save \/ MergeIn \/ MergeOut \/ SiblingStep \/ StopBegin \/ CloseGate \/ FencePassed
           \/ SaveAndAck \/ StopTimesOut
  <2>1. TypeRetry' /\ TypeHands'
    BY <1>1 DEF Clock, Save, MergeIn, MergeOut, SiblingStep, StopBegin, CloseGate, FencePassed,
                SaveAndAck, StopTimesOut, TypeRetry, TypeHands
  <2>2. left' \in [Events -> Nat]
    BY <1>1, SpendType DEF Clock, Save, MergeIn, MergeOut, SiblingStep, StopBegin, CloseGate,
                FencePassed, SaveAndAck, StopTimesOut, TypeEnv, Events
  <2>3. ASSUME Clock \/ Save \/ MergeIn \/ MergeOut PROVE TypeEnv'
    <3>1. now' \in Nat
      BY <2>3 DEF Clock, Save, MergeIn, MergeOut, TypeEnv
    <3>2. due' \in BOOLEAN /\ UNCHANGED <<gate, stop, dropped>>
      BY <2>3 DEF Clock, Save, MergeIn, MergeOut, TypeEnv
    <3> QED
      BY <2>2, <3>1, <3>2 DEF TypeEnv
  <2>4. ASSUME SiblingStep PROVE TypeEnv'
    BY <2>2, <2>4 DEF SiblingStep, TypeEnv
  <2>5. ASSUME StopBegin \/ CloseGate \/ FencePassed \/ SaveAndAck \/ StopTimesOut PROVE TypeEnv'
    BY <2>2, <2>5 DEF StopBegin, CloseGate, FencePassed, SaveAndAck, StopTimesOut, TypeEnv
  <2> QED
    BY <1>0, <1>1, <2>1, <2>3, <2>4, <2>5
<1>2. ASSUME NEW m \in Msg, SendDm(m) \/ DeleteDm(m) PROVE Types'
  <2>1. left' \in [Events -> Nat]
    BY <1>2, SpendType DEF SendDm, DeleteDm, TypeEnv, Events
  <2>2. TypeHands' /\ TypeEnv'
    BY <1>2, <2>1 DEF SendDm, DeleteDm, TypeHands, TypeEnv
  <2>3. TypeRetry'
    BY <1>2 DEF SendDm, DeleteDm, TypeRetry
  <2> QED
    BY <1>0, <2>2, <2>3
<1>3. CASE TickStart
  <2>1. Outstanding(now) \subseteq Pair
    BY DEF Outstanding
  <2>2. TypeRetry' /\ TypeEnv'
    BY <1>3, <2>1 DEF TickStart, TypeRetry, TypeEnv
  <2>3. TypeHands'
    BY <1>3, <2>1 DEF TickStart, TypeHands, TickType, NoTick, Reports, TypeEnv
  <2> QED
    BY <1>0, <2>2, <2>3
<1>4. ASSUME NEW u \in Pair, Recheck(u) \/ Skip(u) PROVE Types'
  <2>1. left' \in [Events -> Nat]
    BY <1>4, SpendType DEF Recheck, Skip, TypeEnv, Events
  <2>2. TypeRetry' /\ TypeEnv'
    BY <1>4, <2>1 DEF Recheck, Skip, TypeRetry, TypeEnv
  <2>3. TypeHands'
    <3>1. tick' \in TickType
      <4>1. CASE Recheck(u)
        BY <4>1 DEF Recheck, TypeHands, TickType
      <4>2. CASE Skip(u)
        BY <4>2 DEF Skip, TypeHands, TickType
      <4> QED
        BY <1>4, <4>1, <4>2
    <3> QED
      BY <1>4, <3>1 DEF Recheck, Skip, TypeHands
  <2> QED
    BY <1>0, <2>2, <2>3
<1>5. ASSUME NEW o \in Outcomes, Sent(o) PROVE Types'
  <2>1. TypeRetry' /\ TypeEnv'
    BY <1>5 DEF Sent, TypeRetry, TypeEnv
  <2>2. tick.cur \in Pair /\ tick.sent \cup {<<tick.cur, o>>} \in Reports
    BY <1>5 DEF Sent, TypeHands, TickType, Reports
  <2>3. TypeHands'
    BY <1>5, <2>2 DEF Sent, TypeHands, TickType
  <2> QED
    BY <1>0, <2>1, <2>3
<1>6. ASSUME NEW s \in Slots, Spawn(s) PROVE Types'
  <2>1. TypeRetry' /\ TypeEnv'
    BY <1>6 DEF Spawn, TypeRetry, TypeEnv
  <2>2. NoTick \in TickType
    BY DEF NoTick, TickType, Reports
  <2>3. [NoTask EXCEPT !.stage = "outcomes", !.sent = tick.sent, !.skip = tick.skip, !.at = tick.at]
          \in TaskType
    BY DEF TypeHands, TickType, TaskType, NoTask
  <2>4. TypeHands'
    BY <1>6, <2>2, <2>3 DEF Spawn, TypeHands
  <2> QED
    BY <1>0, <2>1, <2>4
<1>7. CASE SkipPhaseC
  <2>1. NoTick \in TickType
    BY DEF NoTick, TickType, Reports
  <2> QED
    BY <1>0, <1>7, <2>1 DEF SkipPhaseC, TypeRetry, TypeEnv, TypeHands
<1>8. ASSUME NEW s \in Slots, PhaseC(s) PROVE Types'
  <2>1. TypeRetry'
    BY <1>8 DEF PhaseC, TypeRetry, TypeEnv
  <2>2. TypeEnv'
    BY <1>8 DEF PhaseC, TypeEnv
  <2>3. Candidates(task[s]) \subseteq Pair
    BY DEF Candidates, Bumped, SentPairs, TypeHands, TaskType, Reports
  <2>4. [NoTask EXCEPT !.stage = "rungs", !.cand = Candidates(task[s])] \in TaskType
    BY <2>3 DEF NoTask, TaskType, Reports
  <2>5. TypeHands'
    BY <1>8, <2>4 DEF PhaseC, TypeHands
  <2> QED
    BY <1>0, <2>1, <2>2, <2>5
<1>9. ASSUME NEW s \in Slots, NEW u \in Pair, RungFails(s, u) \/ RungAcked(s, u) PROVE Types'
  <2>1. TypeRetry'
    BY <1>9 DEF RungFails, RungAcked, TypeRetry
  <2>2. left' \in [Events -> Nat]
    BY <1>9, SpendType DEF RungFails, RungAcked, TypeEnv, Events
  <2>3. TypeEnv'
    BY <1>9, <2>2 DEF RungFails, RungAcked, TypeEnv
  <2>4. TypeHands'
    BY <1>9 DEF RungFails, RungAcked, TypeHands, TaskType
  <2> QED
    BY <1>0, <2>1, <2>3, <2>4
<1>10. ASSUME NEW s \in Slots, TaskEnd(s) PROVE Types'
  <2>1. NoTask \in TaskType
    BY DEF NoTask, TaskType, Reports
  <2> QED
    BY <1>0, <1>10, <2>1 DEF TaskEnd, TypeRetry, TypeEnv, TypeHands
<1>11. CASE Restart
  <2>1. NoTask \in TaskType /\ NoTick \in TickType
    BY DEF NoTask, TaskType, NoTick, TickType, Reports
  <2>2. left' \in [Events -> Nat]
    BY <1>11, SpendType DEF Restart, TypeEnv, Events
  <2> QED
    BY <1>0, <1>11, <2>1, <2>2 DEF Restart, TypeRetry, TypeEnv, TypeHands
<1>12. CASE UNCHANGED vars
  BY <1>0, <1>12 DEF vars, TypeRetry, TypeEnv, TypeHands
<1> QED
  BY <1>1, <1>2, <1>3, <1>4, <1>5, <1>6, <1>7, <1>8, <1>9, <1>10, <1>11, <1>12
     DEF Next, TickNext, TaskNext, StopNext
----------------------------------------------------------------------------
(***************************************************************************)
(* Who has a pair in hand: the invariant of one pair.                      *)
(***************************************************************************)
InTasks(u) == \E s \in Slots : u \in TaskHolds(s)
Ahead(u)   == u \in tick.todo \/ (tick.cur = u /\ u # NoUnit)

\* One pair: in one hand at most, marked while in hand and wanted, due while ahead,
\* and in no hand before its entry first exists.
Hand(u) ==
  /\ u \in TickHolds => ~InTasks(u)
  /\ \A s, t \in Slots : u \in TaskHolds(s) /\ u \in TaskHolds(t) => s = t
  /\ Live(mem, u) /\ (u \in TickHolds \/ InTasks(u)) => u \in inFlight
  /\ u \in inFlight => u \in TickHolds \/ InTasks(u) \/ u \in dropped
  /\ Ahead(u) /\ Live(mem, u) => IsDue(u, tick.at)
  /\ \/ Present(mem.box[u[1]]) \/ u[1] \in mem.tomb
     \/ u \notin TickHolds /\ u \notin inFlight /\ ~InTasks(u)

Hands    == \A u \in Pair : Hand(u)
HandsInv == HeldKnown /\ OneHolder /\ MarkersAccounted /\ SendsAreDue

\* What is in hand are pairs.
LEMMA HoldsArePairs ==
  ASSUME Types
  PROVE  TickHolds \subseteq Pair /\ \A s \in Slots : TaskHolds(s) \subseteq Pair
<1>1. TickHolds \subseteq Pair
  BY DEF Types, TypeHands, TickType, TickHolds, SentPairs, Reports
<1>2. \A s \in Slots : TaskHolds(s) \subseteq Pair
  BY DEF Types, TypeHands, TaskType, TaskHolds, SentPairs, Reports
<1> QED
  BY <1>1, <1>2

\* The invariant of every pair is the invariants about hands.
LEMMA HandsParts == Types => (HandsInv <=> Hands)
<1> SUFFICES ASSUME Types PROVE HandsInv <=> Hands
  OBVIOUS
<1>1. ASSUME HandsInv, NEW u \in Pair PROVE Hand(u)
  <2>1. u \in TickHolds => ~InTasks(u)
    BY <1>1 DEF HandsInv, OneHolder, InTasks
  <2>2. \A s, t \in Slots : u \in TaskHolds(s) /\ u \in TaskHolds(t) => s = t
    BY <1>1 DEF HandsInv, OneHolder
  <2>3. Live(mem, u) /\ (u \in TickHolds \/ InTasks(u)) => u \in inFlight
    BY <1>1 DEF HandsInv, OneHolder, InTasks
  <2>4. u \in inFlight => u \in TickHolds \/ InTasks(u) \/ u \in dropped
    BY <1>1 DEF HandsInv, MarkersAccounted, InTasks
  <2>5. Ahead(u) /\ Live(mem, u) => IsDue(u, tick.at)
    BY <1>1 DEF HandsInv, SendsAreDue, Ahead
  <2>6. \/ Present(mem.box[u[1]]) \/ u[1] \in mem.tomb
        \/ u \notin TickHolds /\ u \notin inFlight /\ ~InTasks(u)
    BY <1>1 DEF HandsInv, HeldKnown, InTasks
  <2> QED
    BY <2>1, <2>2, <2>3, <2>4, <2>5, <2>6 DEF Hand
<1>2. ASSUME Hands PROVE HandsInv
  <2> USE <1>2 DEF Hands, Hand
  <2>1. HeldKnown
    BY DEF HeldKnown, InTasks
  <2>2. OneHolder
    BY HoldsArePairs DEF OneHolder, InTasks
  <2>3. MarkersAccounted
    BY DEF MarkersAccounted, InTasks, Types, TypeRetry
  <2>4. SendsAreDue
    BY DEF SendsAreDue, Ahead, Types, TypeHands, TickType
  <2> QED
    BY <2>1, <2>2, <2>3, <2>4 DEF HandsInv
<1> QED
  BY <1>1, <1>2 DEF Hands

\* Memory grows, and the pair stays where it is.
LEMMA HandStays ==
  ASSUME Good(mem), Good(mem'), Grows(mem, mem'), NEW u \in Pair, Hand(u),
         u \in TickHolds' <=> u \in TickHolds,
         \A s \in Slots : u \in TaskHolds(s)' <=> u \in TaskHolds(s),
         u \in dropped => u \in dropped',
         u \in inFlight' => u \in inFlight,
         u \in inFlight /\ Live(mem', u) => u \in inFlight',
         Ahead(u)' => Ahead(u), tick'.at = tick.at,
         tries'[u] = 0 \/ (tries'[u] = tries[u] /\ last'[u] = last[u])
  PROVE  Hand(u)'
<1>0. u[1] \in Msg
  BY DEF Pair
<1>1. InTasks(u)' <=> InTasks(u)
  BY DEF InTasks
<1>2. Live(mem', u) /\ (u \in TickHolds \/ InTasks(u)) => Live(mem, u)
  <2>1. u[1] \in mem.tomb => ~Live(mem', u)
    BY GrowsFacts DEF Grows
  <2>2. Live(mem', u) /\ Present(mem.box[u[1]]) => Live(mem, u)
    BY GrowsFacts
  <2> QED
    BY <2>1, <2>2 DEF Hand
<1>3. Ahead(u) => u \in TickHolds
  BY DEF Ahead, TickHolds
<1>4. IsDue(u, tick.at) => IsDue(u, tick.at)'
  BY DEF IsDue
<1>5. (Ahead(u) /\ Live(mem, u) => IsDue(u, tick.at))'
  BY <1>2, <1>3, <1>4 DEF Hand
<1>6. (\/ Present(mem.box[u[1]]) \/ u[1] \in mem.tomb
       \/ u \notin TickHolds /\ u \notin inFlight /\ ~InTasks(u))'
  <2>1. Present(mem.box[u[1]]) => Present(mem'.box[u[1]]) \/ u[1] \in mem'.tomb
    BY <1>0, GrowsFacts
  <2>2. u[1] \in mem.tomb => u[1] \in mem'.tomb
    BY DEF Grows
  <2> QED
    BY <1>1, <2>1, <2>2 DEF Hand
<1>7. (Live(mem, u) /\ (u \in TickHolds \/ InTasks(u)) => u \in inFlight)'
  BY <1>1, <1>2 DEF Hand
<1>8. (u \in inFlight => u \in TickHolds \/ InTasks(u) \/ u \in dropped)'
  BY <1>1 DEF Hand
<1>9. /\ (u \in TickHolds => ~InTasks(u))'
      /\ (\A s, t \in Slots : u \in TaskHolds(s) /\ u \in TaskHolds(t) => s = t)'
  BY <1>1 DEF Hand
<1> QED
  BY <1>5, <1>6, <1>7, <1>8, <1>9 DEF Hand

\* Nobody has the pair in hand, and it carries no marker.
LEMMA HandFree ==
  ASSUME NEW u \in Pair, u \notin TickHolds', \A s \in Slots : u \notin TaskHolds(s)',
         u \notin inFlight'
  PROVE  Hand(u)'
<1>1. ~InTasks(u)' /\ ~Ahead(u)'
  BY DEF InTasks, Ahead, TickHolds
<1> QED
  BY <1>1 DEF Hand, InTasks

\* Holds depend on the tick and the tasks alone.
LEMMA SameTick == tick' = tick => TickHolds' = TickHolds /\ \A u : Ahead(u)' <=> Ahead(u)
  BY DEF TickHolds, SentPairs, Ahead

\* The same for one task.
LEMMA SameTask ==
  ASSUME NEW s \in Slots, task'[s].sent = task[s].sent, task'[s].skip = task[s].skip
  PROVE  TaskHolds(s)' = TaskHolds(s)
  BY DEF TaskHolds, SentPairs

\* An idle tick, and a task without outcomes, hold nothing.
LEMMA NoHolds ==
  /\ tick = NoTick => TickHolds = {}
  /\ \A s \in Slots : task[s].sent = {} /\ task[s].skip = {} => TaskHolds(s) = {}
<1>1. tick = NoTick => TickHolds = {}
  BY DEF NoTick, TickHolds, SentPairs
<1>2. \A s \in Slots : task[s].sent = {} /\ task[s].skip = {} => TaskHolds(s) = {}
  BY DEF TaskHolds, SentPairs
<1> QED
  BY <1>1, <1>2

\* Outcomes leave a tick with its spawn and a task with its phase C.
LEMMA ShapeStep == Types /\ Shape /\ [Next]_vars => Shape'
<1> SUFFICES ASSUME Types, Shape, [Next]_vars PROVE Shape'
  OBVIOUS
<1> USE DEF Types, TypeHands
<1>1. ASSUME UNCHANGED <<tick, task>> PROVE Shape'
  BY <1>1 DEF Shape
<1>2. CASE TickStart
  BY <1>2 DEF TickStart, Shape, NoTick
<1>3. ASSUME NEW u \in Pair, Recheck(u) \/ Skip(u) PROVE Shape'
  BY <1>3 DEF Recheck, Skip, Shape, TickType
<1>4. ASSUME NEW o \in Outcomes, Sent(o) PROVE Shape'
  <2>1. tick.pc # "idle"
    BY <1>4 DEF Sent, Shape, NoTick
  <2> QED
    BY <1>4, <2>1 DEF Sent, Shape, TickType
<1>5. ASSUME NEW s \in Slots, Spawn(s) PROVE Shape'
  BY <1>5 DEF Spawn, Shape, NoTask, TaskType
<1>6. CASE SkipPhaseC
  BY <1>6 DEF SkipPhaseC, Shape
<1>7. ASSUME NEW s \in Slots, PhaseC(s) \/ TaskEnd(s) PROVE Shape'
  <2>1. tick' = tick /\ \A t \in Slots : t # s => task'[t] = task[t]
    BY <1>7 DEF PhaseC, TaskEnd
  <2>2. task'[s].sent = {} /\ task'[s].skip = {}
    <3>1. CASE PhaseC(s)
      BY <3>1 DEF PhaseC, NoTask
    <3>2. CASE TaskEnd(s)
      BY <3>2 DEF TaskEnd, NoTask
    <3> QED
      BY <1>7, <3>1, <3>2
  <2> QED
    BY <2>1, <2>2 DEF Shape
<1>8. ASSUME NEW s \in Slots, NEW u \in Pair, RungFails(s, u) \/ RungAcked(s, u) PROVE Shape'
  <2>1. tick' = tick /\ task' = [task EXCEPT ![s].cand = @ \ {u}]
    BY <1>8 DEF RungFails, RungAcked
  <2> QED
    BY <2>1 DEF Shape, TaskType
<1>9. CASE Restart
  BY <1>9 DEF Restart, Shape, NoTask
<1>10. CASE \/ Clock \/ Save \/ MergeIn \/ MergeOut \/ SiblingStep \/ StopBegin \/ CloseGate
            \/ FencePassed \/ SaveAndAck \/ StopTimesOut \/ UNCHANGED vars
  BY <1>1, <1>10 DEF Clock, Save, MergeIn, MergeOut, SiblingStep, StopBegin, CloseGate, FencePassed,
                     SaveAndAck, StopTimesOut, vars
<1>11. ASSUME NEW m \in Msg, SendDm(m) \/ DeleteDm(m) PROVE Shape'
  BY <1>1, <1>11 DEF SendDm, DeleteDm
<1> QED
  BY <1>2, <1>3, <1>4, <1>5, <1>6, <1>7, <1>8, <1>9, <1>10, <1>11
     DEF Next, TickNext, TaskNext, StopNext

\* What every action does to one pair.
LEMMA HandsStep ==
  ASSUME Types, Types', Shape, Hands, [Next]_vars, NEW u \in Pair
  PROVE  Hand(u)'
<1>h. Hand(u)
  BY DEF Hands
<1>g. Good(mem) /\ Good(mem')
  BY DEF Types, TypeReps
<1>m. ~Restart => Grows(mem, mem')
  <2>1. Grows(mem, mem)
    BY <1>g, GrowsSame DEF GoodStep
  <2> QED
    BY <2>1, RepsStep DEF RepsMove
<1>u. u[1] \in Msg /\ u \in Pair
  BY DEF Pair
<1> USE DEF Types, TypeHands, TypeRetry
<1>1. ASSUME Grows(mem, mem'), UNCHANGED <<inFlight, tries, last, tick, task, dropped>> PROVE Hand(u)'
  <2>1. u \in TickHolds' <=> u \in TickHolds
    BY <1>1, SameTick
  <2>2. \A s \in Slots : TaskHolds(s)' = TaskHolds(s)
    BY <1>1, SameTask
  <2>3. Ahead(u)' => Ahead(u)
    BY <1>1, SameTick
  <2> QED
    BY <1>1, <1>h, <1>g, <2>1, <2>2, <2>3, HandStays
<1>2. CASE \/ Clock \/ Save \/ MergeIn \/ MergeOut \/ SiblingStep \/ StopBegin \/ CloseGate
           \/ FencePassed \/ SaveAndAck \/ StopTimesOut \/ UNCHANGED vars
  <2>1. UNCHANGED <<inFlight, tries, last, tick, task, dropped>>
    BY <1>2 DEF Clock, Save, MergeIn, MergeOut, SiblingStep, StopBegin, CloseGate, FencePassed,
                SaveAndAck, StopTimesOut, vars
  <2>2. CASE Restart
    <3>1. tick' = NoTick /\ inFlight' = {} /\ task' = [s \in Slots |-> NoTask]
      BY <2>2 DEF Restart
    <3>2. u \notin TickHolds' /\ \A s \in Slots : u \notin TaskHolds(s)'
      BY <3>1 DEF TickHolds, TaskHolds, NoTick, NoTask, SentPairs
    <3> QED
      BY <3>1, <3>2, HandFree
  <2>3. CASE ~Restart
    BY <1>1, <1>m, <2>1, <2>3
  <2> QED
    BY <2>2, <2>3
<1>3. CASE Restart
  <2>1. tick' = NoTick /\ inFlight' = {} /\ task' = [s \in Slots |-> NoTask]
    BY <1>3 DEF Restart
  <2>2. u \notin TickHolds' /\ \A s \in Slots : u \notin TaskHolds(s)'
    BY <2>1 DEF TickHolds, TaskHolds, NoTick, NoTask, SentPairs
  <2> QED
    BY <2>1, <2>2, HandFree
<1>4. ASSUME NEW n \in Msg, SendDm(n), ~Restart PROVE Hand(u)'
  BY <1>1, <1>m, <1>4 DEF SendDm
<1>5. ASSUME NEW n \in Msg, DeleteDm(n), ~Restart PROVE Hand(u)'
  <2>1. u \in TickHolds' <=> u \in TickHolds
    BY <1>5, SameTick DEF DeleteDm
  <2>2. \A s \in Slots : TaskHolds(s)' = TaskHolds(s)
    BY <1>5, SameTask DEF DeleteDm
  <2>3. Ahead(u)' => Ahead(u)
    BY <1>5, SameTick DEF DeleteDm
  <2>4. n \in mem'.tomb
    BY <1>5, <1>g, DeletedGood DEF DeleteDm
  <2>5. u \in inFlight /\ Live(mem', u) => u \in inFlight'
    BY <1>5, <1>g, <1>m, <2>4, GrowsFacts DEF DeleteDm
  <2>6. tries'[u] = 0 \/ (tries'[u] = tries[u] /\ last'[u] = last[u])
    BY <1>5 DEF DeleteDm
  <2> QED
    BY <1>5, <1>h, <1>g, <1>m, <2>1, <2>2, <2>3, <2>5, <2>6, HandStays DEF DeleteDm
<1>6. ASSUME TickStart, ~Restart PROVE Hand(u)'
  <2>1. tick = NoTick /\ TickHolds = {}
    BY <1>6, NoHolds DEF TickStart, Shape
  <2>2. TickHolds' = Outstanding(now) /\ (Ahead(u)' => u \in Outstanding(now)) /\ tick'.at = now
    BY <1>6 DEF TickStart, TickHolds, SentPairs, NoTick, Ahead
  <2>3. \A s \in Slots : TaskHolds(s)' = TaskHolds(s)
    BY <1>6, SameTask DEF TickStart
  <2>4. InTasks(u)' <=> InTasks(u)
    BY <2>3 DEF InTasks
  <2>5. u \in Outstanding(now) => Live(mem, u) /\ u \notin inFlight /\ IsDue(u, now)
    BY DEF Outstanding
  <2>6. u \in Outstanding(now) => ~InTasks(u) /\ Present(mem.box[u[1]])
    BY <1>h, <2>5 DEF Hand, Live, Open, Present
  <2>7. IsDue(u, now) => IsDue(u, tick.at)'
    BY <1>6, <2>2 DEF IsDue, TickStart
  <2>8. mem' = mem /\ inFlight' = inFlight \cup Outstanding(now) /\ dropped' = dropped
    BY <1>6 DEF TickStart
  <2> QED
    BY <1>h, <2>1, <2>2, <2>3, <2>4, <2>5, <2>6, <2>7, <2>8 DEF Hand
<1>7. ASSUME NEW v \in Pair, Recheck(v) \/ Skip(v), ~Restart PROVE Hand(u)'
  <2>0. tick' \in TickType /\ tick \in TickType /\ v # NoUnit
    OBVIOUS
  <2>1. u \in TickHolds' <=> u \in TickHolds
    <3>1. CASE Recheck(v)
      BY <3>1, <2>0 DEF Recheck, TickHolds, SentPairs, TickType
    <3>2. CASE Skip(v)
      BY <3>2, <2>0 DEF Skip, TickHolds, SentPairs, TickType
    <3> QED
      BY <1>7, <3>1, <3>2
  <2>2. (Ahead(u)' => Ahead(u)) /\ tick'.at = tick.at
    <3>1. CASE Recheck(v)
      BY <3>1, <2>0 DEF Recheck, Ahead, TickType
    <3>2. CASE Skip(v)
      BY <3>2, <2>0 DEF Skip, Ahead, TickType
    <3> QED
      BY <1>7, <3>1, <3>2
  <2>3. UNCHANGED <<mem, inFlight, tries, last, task, dropped>>
    BY <1>7 DEF Recheck, Skip
  <2>4. \A s \in Slots : TaskHolds(s)' = TaskHolds(s)
    BY <2>3, SameTask
  <2> QED
    BY <1>h, <1>g, <1>m, <1>7, <2>1, <2>2, <2>3, <2>4, HandStays
<1>8. ASSUME NEW o \in Outcomes, Sent(o), ~Restart PROVE Hand(u)'
  <2>1. tick' = [tick EXCEPT !.cur = NoUnit, !.sent = @ \cup {<<tick.cur, o>>}] /\ tick.cur # NoUnit
    BY <1>8 DEF Sent
  <2>2. /\ tick'.todo = tick.todo /\ tick'.skip = tick.skip /\ tick'.cur = NoUnit
        /\ tick'.sent = tick.sent \cup {<<tick.cur, o>>} /\ tick'.at = tick.at
    BY <2>1 DEF TickType
  <2>3. SentPairs(tick') = SentPairs(tick) \cup {tick.cur}
    <3>1. <<tick.cur, o>>[1] = tick.cur
      OBVIOUS
    <3>2. \A v \in SentPairs(tick') : v \in SentPairs(tick) \cup {tick.cur}
      BY <2>2, <3>1, Zenon DEF SentPairs
    <3>3. \A v \in SentPairs(tick) : v \in SentPairs(tick')
      BY <2>2, Zenon DEF SentPairs
    <3>4. tick.cur \in SentPairs(tick')
      BY <2>2, <3>1, Zenon DEF SentPairs
    <3> QED
      BY <3>2, <3>3, <3>4
  <2>4. TickHolds' = TickHolds
    BY <2>1, <2>2, <2>3 DEF TickHolds
  <2>5. Ahead(u)' => Ahead(u)
    BY <2>2 DEF Ahead
  <2>6. UNCHANGED <<mem, inFlight, tries, last, task, dropped>>
    BY <1>8 DEF Sent
  <2>7. \A s \in Slots : TaskHolds(s)' = TaskHolds(s)
    BY <2>6, SameTask
  <2> QED
    BY <1>h, <1>g, <1>m, <1>8, <2>2, <2>4, <2>5, <2>6, <2>7, HandStays
<1>9. ASSUME NEW s \in Slots, Spawn(s) PROVE Hand(u)'
  <2>1. TickHolds' = {} /\ ~Ahead(u)'
    BY <1>9 DEF Spawn, NoTick, TickHolds, SentPairs, Ahead
  <2>2. TaskHolds(s) = {}
    BY <1>9, NoHolds DEF Spawn, PermitFree, Shape
  <2>3. task'[s].sent = tick.sent /\ task'[s].skip = tick.skip
    BY <1>9 DEF Spawn, NoTask
  <2>4. TaskHolds(s)' = TickHolds
    BY <1>9, <2>3 DEF Spawn, TickOver, TaskHolds, TickHolds, SentPairs
  <2>5. \A t \in Slots : t # s => TaskHolds(t)' = TaskHolds(t)
    BY <1>9, SameTask DEF Spawn
  <2>6. InTasks(u)' <=> u \in TickHolds \/ InTasks(u)
    BY <2>2, <2>4, <2>5 DEF InTasks
  <2>7. UNCHANGED <<mem, inFlight, dropped>>
    BY <1>9 DEF Spawn
  <2>8. (\A t1, t2 \in Slots : u \in TaskHolds(t1) /\ u \in TaskHolds(t2) => t1 = t2)'
    BY <1>h, <2>2, <2>4, <2>5 DEF Hand, InTasks
  <2> QED
    BY <1>h, <2>1, <2>6, <2>7, <2>8 DEF Hand
<1>10. CASE SkipPhaseC
  <2>1. TickHolds' = {} /\ ~Ahead(u)'
    BY <1>10 DEF SkipPhaseC, NoTick, TickHolds, SentPairs, Ahead
  <2>2. UNCHANGED <<mem, inFlight, task>> /\ dropped' = dropped \cup (TickHolds \cap inFlight)
    BY <1>10 DEF SkipPhaseC
  <2>3. \A s \in Slots : TaskHolds(s)' = TaskHolds(s)
    BY <2>2, SameTask
  <2>4. InTasks(u)' <=> InTasks(u)
    BY <2>3 DEF InTasks
  <2> QED
    BY <1>h, <2>1, <2>2, <2>3, <2>4 DEF Hand
<1>11. ASSUME NEW s \in Slots, PhaseC(s), ~Restart PROVE Hand(u)'
  <2>1. TaskHolds(s)' = {}
    BY <1>11 DEF PhaseC, NoTask, TaskHolds, SentPairs
  <2>2. \A t \in Slots : t # s => TaskHolds(t)' = TaskHolds(t)
    BY <1>11, SameTask DEF PhaseC
  <2>3. u \in TickHolds' <=> u \in TickHolds
    BY <1>11, SameTick DEF PhaseC
  <2>4. Released(task[s]) = TaskHolds(s)
    BY DEF Released, TaskHolds
  <2>5. inFlight' = {v \in inFlight \ TaskHolds(s) : Open(mem'.box[v[1]])}
    BY <1>11, <2>4 DEF PhaseC
  <2>6. CASE u \in TaskHolds(s)
    <3>1. u \notin TickHolds' /\ \A t \in Slots : u \notin TaskHolds(t)'
      BY <1>h, <2>1, <2>2, <2>3, <2>6 DEF Hand, InTasks
    <3> QED
      BY <2>5, <2>6, <3>1, HandFree
  <2>7. CASE u \notin TaskHolds(s)
    <3>1. \A t \in Slots : u \in TaskHolds(t)' <=> u \in TaskHolds(t)
      BY <2>1, <2>2, <2>7
    <3>2. u \notin Bumped(task[s])
      BY <2>7 DEF Bumped, TaskHolds
    <3>3. tries'[u] = 0 \/ (tries'[u] = tries[u] /\ last'[u] = last[u])
      BY <1>11, <3>2 DEF PhaseC
    <3>4. (Ahead(u)' => Ahead(u)) /\ tick'.at = tick.at /\ dropped' = dropped
      BY <1>11, SameTick DEF PhaseC
    <3>5. u \in inFlight /\ Live(mem', u) => u \in inFlight'
      BY <2>5, <2>7 DEF Live
    <3> QED
      BY <1>h, <1>g, <1>m, <1>11, <2>3, <2>5, <3>1, <3>3, <3>4, <3>5, HandStays
  <2> QED
    BY <2>6, <2>7
<1>12. ASSUME NEW s \in Slots, TaskEnd(s), ~Restart PROVE Hand(u)'
  <2>1. task[s].sent = {} /\ task[s].skip = {} /\ task' = [task EXCEPT ![s] = NoTask]
    BY <1>12 DEF TaskEnd, Shape
  <2>2. \A t \in Slots : TaskHolds(t)' = TaskHolds(t)
    BY <2>1, SameTask DEF NoTask
  <2>3. UNCHANGED <<mem, inFlight, tries, last, tick, dropped>>
    BY <1>12 DEF TaskEnd
  <2> QED
    BY <1>h, <1>g, <1>m, <1>12, <2>2, <2>3, SameTick, HandStays
<1>13. ASSUME NEW s \in Slots, NEW v \in Pair, RungFails(s, v) \/ RungAcked(s, v), ~Restart PROVE Hand(u)'
  <2>1. task' = [task EXCEPT ![s].cand = @ \ {v}] /\ UNCHANGED <<tick, dropped>>
    BY <1>13 DEF RungFails, RungAcked
  <2>2. \A t \in Slots : TaskHolds(t)' = TaskHolds(t)
    BY <2>1, SameTask DEF TaskType
  <2>3. tries'[u] = 0 \/ (tries'[u] = tries[u] /\ last'[u] = last[u])
    BY <1>13 DEF RungFails, RungAcked
  <2>4. inFlight' \subseteq inFlight /\ (u \in inFlight /\ u # v => u \in inFlight')
    BY <1>13 DEF RungFails, RungAcked
  <2>5. v \in inFlight /\ Live(mem', v) => v \in inFlight'
    <3>1. CASE inFlight' = inFlight
      BY <3>1
    <3>2. CASE inFlight' # inFlight
      <4>1. mem' = Acked(mem, v)
        BY <1>13, <3>2 DEF RungFails, RungAcked
      <4>2. v[2] \in mem'.box[v[1]].got
        BY <4>1, <1>g DEF Acked, Good, Replica, Pair
      <4> QED
        BY <4>2 DEF Live
    <3> QED
      BY <3>1, <3>2
  <2> QED
    BY <1>h, <1>g, <1>m, <1>13, <2>1, <2>2, <2>3, <2>4, <2>5, SameTick, HandStays
<1> QED
  BY <1>2, <1>3, <1>4, <1>5, <1>6, <1>7, <1>8, <1>9, <1>10, <1>11, <1>12, <1>13
     DEF Next, TickNext, TaskNext, StopNext
----------------------------------------------------------------------------
(***************************************************************************)
(* The shutdown.                                                           *)
(***************************************************************************)
\* Nothing becomes busy, and no tick begins.
LEMMA StragglersStay ==
  ASSUME OneStraggler, tick'.pc = "idle" \/ tick'.pc = tick.pc, \A s \in Slots : Busy(s)' => Busy(s),
         stop' \in {"saving", "acked"} => stop \in {"saving", "acked"}
  PROVE  OneStraggler'
  BY DEF OneStraggler

\* A tick that could still begin would need the gate open; the fence is passed
\* when every permit is back; and the one tick that may be left becomes one task.
LEMMA StopStep == Types /\ Shape /\ GateClosed /\ OneStraggler /\ [Next]_vars => GateClosed' /\ OneStraggler'
<1> SUFFICES ASSUME Types, Shape, GateClosed, OneStraggler, [Next]_vars PROVE GateClosed' /\ OneStraggler'
  OBVIOUS
<1> USE DEF Types, TypeHands
<1>same. ASSUME UNCHANGED stop, UNCHANGED gate PROVE GateClosed'
  BY <1>same DEF GateClosed
<1>1. CASE \/ Clock \/ Save \/ MergeIn \/ MergeOut \/ SiblingStep \/ UNCHANGED vars
           \/ \E m \in Msg : SendDm(m) \/ DeleteDm(m)
  <2>1. UNCHANGED <<gate, stop, tick, task>>
    BY <1>1 DEF Clock, Save, MergeIn, MergeOut, SiblingStep, vars, SendDm, DeleteDm
  <2> QED
    BY <1>same, <2>1, StragglersStay DEF Busy
<1>2. CASE TickStart
  <2>1. ~gate /\ UNCHANGED <<gate, stop>>
    BY <1>2 DEF TickStart
  <2> QED
    BY <1>same, <2>1 DEF GateClosed, OneStraggler
<1>3. ASSUME NEW u \in Pair, Recheck(u) \/ Skip(u) PROVE GateClosed' /\ OneStraggler'
  <2>1. UNCHANGED <<gate, stop, task>> /\ tick'.pc = tick.pc
    BY <1>3 DEF Recheck, Skip, TickType
  <2> QED
    BY <1>same, <2>1, StragglersStay DEF Busy
<1>4. ASSUME NEW o \in Outcomes, Sent(o) PROVE GateClosed' /\ OneStraggler'
  <2>1. UNCHANGED <<gate, stop, task>> /\ tick'.pc = tick.pc
    BY <1>4 DEF Sent, TickType
  <2> QED
    BY <1>same, <2>1, StragglersStay DEF Busy
<1>5. ASSUME NEW s \in Slots, Spawn(s) PROVE GateClosed' /\ OneStraggler'
  <2>1. UNCHANGED <<gate, stop>> /\ tick.pc = "sending" /\ tick'.pc = "idle"
    BY <1>5 DEF Spawn, TickOver, NoTick
  <2>2. \A t \in Slots : t # s => task'[t] = task[t]
    BY <1>5 DEF Spawn
  <2>3. stop \in {"saving", "acked"} => \A t \in Slots : ~Busy(t)
    BY <2>1 DEF OneStraggler
  <2>4. stop \in {"saving", "acked"} => \A t \in Slots : Busy(t)' => t = s
    BY <2>2, <2>3 DEF Busy
  <2>5. OneStraggler'
    BY <2>1, <2>4 DEF OneStraggler
  <2> QED
    BY <1>same, <2>1, <2>5
<1>6. CASE SkipPhaseC
  <2>1. UNCHANGED <<gate, stop, task>> /\ tick'.pc = "idle"
    BY <1>6 DEF SkipPhaseC, NoTick
  <2> QED
    BY <1>same, <2>1, StragglersStay DEF Busy
<1>7. ASSUME NEW s \in Slots, TaskNext(s) PROVE GateClosed' /\ OneStraggler'
  <2>1. UNCHANGED <<gate, stop, tick>> /\ Busy(s)
    BY <1>7 DEF TaskNext, PhaseC, TaskEnd, RungFails, RungAcked, Busy
  <2>2. \A t \in Slots : t # s => task'[t] = task[t]
    BY <1>7 DEF TaskNext, PhaseC, TaskEnd, RungFails, RungAcked
  <2>3. \A t \in Slots : Busy(t)' => Busy(t)
    BY <2>1, <2>2 DEF Busy
  <2> QED
    BY <1>same, <2>1, <2>3, StragglersStay
<1>8. CASE FencePassed
  <2>1. gate /\ gate' = gate
    BY <1>8 DEF FencePassed, GateClosed
  <2>2. \A s \in Slots : ~Busy(s)'
    BY <1>8 DEF FencePassed, Busy
  <2> QED
    BY <2>1, <2>2 DEF GateClosed, OneStraggler
<1>9. CASE SaveAndAck
  <2>1. stop = "saving" /\ UNCHANGED <<gate, tick, task>>
    BY <1>9 DEF SaveAndAck
  <2>2. OneStraggler'
    BY <2>1, StragglersStay DEF Busy
  <2> QED
    BY <2>1, <2>2 DEF GateClosed
<1>10. CASE StopBegin \/ CloseGate \/ StopTimesOut \/ Restart
  BY <1>10 DEF StopBegin, CloseGate, StopTimesOut, Restart, GateClosed, OneStraggler
<1> QED
  BY <1>1, <1>2, <1>3, <1>4, <1>5, <1>6, <1>7, <1>8, <1>9, <1>10 DEF Next, TickNext, StopNext
----------------------------------------------------------------------------
(***************************************************************************)
(* Memory and disk.                                                        *)
(***************************************************************************)
\* Nothing unsaved without a write ahead, except expired invitations.
Owed == /\ mem.tomb = disk.tomb
        /\ \A m \in Msg : \/ mem.box[m] = disk.box[m]
                          \/ m \in Invites /\ mem.box[m] = [disk.box[m] EXCEPT !.st = "expired"]

\* The sweep is the one change to memory that may leave no write ahead, and only
\* when all it expires are invitations.
LEMMA OwedStep == Types /\ UnsavedIsOwed /\ [Next]_vars => UnsavedIsOwed'
<1> SUFFICES ASSUME Types, UnsavedIsOwed, [Next]_vars, ~due' PROVE Owed'
  BY DEF UnsavedIsOwed, Owed
<1>same. ASSUME UNCHANGED <<mem, disk>>, due' = due PROVE Owed'
  BY <1>same DEF UnsavedIsOwed, Owed
<1>saved. ASSUME mem' = disk' PROVE Owed'
  BY <1>saved DEF Owed
<1>1. CASE Clock \/ MergeOut \/ SiblingStep \/ TickNext \/ StopBegin \/ CloseGate \/ FencePassed
           \/ StopTimesOut \/ UNCHANGED vars
  BY <1>1, <1>same DEF Clock, MergeOut, SiblingStep, TickNext, TickStart, SkipPhaseC, Recheck, Skip, Sent,
                       Spawn, StopBegin, CloseGate, FencePassed, StopTimesOut, vars
<1>2. CASE Save \/ SaveAndAck \/ Restart
  BY <1>2, <1>saved DEF Save, SaveAndAck, Restart
<1>3. CASE MergeIn \/ \E m \in Msg : SendDm(m) \/ DeleteDm(m)
  BY <1>3 DEF MergeIn, SendDm, DeleteDm
<1>4. ASSUME NEW s \in Slots, PhaseC(s) PROVE Owed'
  <2>1. /\ mem' = ExpireAt(mem, task[s].at) /\ disk' = disk /\ ~due
        /\ Expirable(mem, task[s].at) \subseteq Invites
    BY <1>4 DEF PhaseC, Reported
  <2>2. Owed
    BY <2>1 DEF UnsavedIsOwed, Owed
  <2>3. mem \in Replica /\ task[s].at \in Nat
    BY DEF Types, TypeReps, TypeHands, TaskType, Good
  <2>4. mem'.tomb = mem.tomb /\ \A m \in Msg : ExpiredKey(mem, task[s].at, mem', m)
    BY <2>1, <2>3, ExpiredEntry
  <2>5. ASSUME NEW m \in Msg
        PROVE  \/ mem'.box[m] = disk.box[m]
               \/ m \in Invites /\ mem'.box[m] = [disk.box[m] EXCEPT !.st = "expired"]
    <3>1. CASE m \notin Expirable(mem, task[s].at)
      BY <2>2, <2>4, <3>1 DEF ExpiredKey, Owed
    <3>2. CASE m \in Expirable(mem, task[s].at)
      <4>1. /\ mem'.box[m] = [mem.box[m] EXCEPT !.st = "expired"] /\ Open(mem.box[m])
            /\ m \in Invites
        BY <2>1, <2>4, <3>2 DEF ExpiredKey
      <4>2. CASE mem.box[m] = disk.box[m]
        BY <4>1, <4>2
      <4>3. CASE mem.box[m] = [disk.box[m] EXCEPT !.st = "expired"]
        <5>1. disk.box[m] \in Entry
          BY DEF Types, TypeReps, Good, Replica
        <5>2. mem.box[m].st = "expired"
          BY <4>3, <5>1 DEF Entry, Absent
        <5> QED
          BY <4>1, <5>2 DEF Open
      <4> QED
        BY <2>2, <4>2, <4>3 DEF Owed
    <3> QED
      BY <3>1, <3>2
  <2> QED
    BY <2>1, <2>2, <2>4, <2>5 DEF Owed
<1>5. ASSUME NEW s \in Slots, TaskEnd(s) \/ \E u \in Pair : RungFails(s, u) \/ RungAcked(s, u) PROVE Owed'
  <2>1. CASE TaskEnd(s)
    BY <1>same, <2>1 DEF TaskEnd
  <2>2. ASSUME NEW u \in Pair, RungFails(s, u) PROVE Owed'
    BY <1>same, <2>2 DEF RungFails
  <2>3. ASSUME NEW u \in Pair, RungAcked(s, u) PROVE Owed'
    <3> DEFINE news == Present(mem.box[u[1]]) /\ u[2] \notin mem.box[u[1]].got
    <3>1. due' = (due \/ news) /\ disk' = disk /\ mem' = IF news THEN Acked(mem, u) ELSE mem
      BY <2>3 DEF RungAcked
    <3> HIDE DEF news
    <3>2. ~due /\ ~news
      BY <3>1
    <3>3. UNCHANGED <<mem, disk>>
      BY <3>1, <3>2
    <3> QED
      BY <3>2, <3>3 DEF UnsavedIsOwed, Owed
  <2> QED
    BY <1>5, <2>1, <2>2, <2>3
<1> QED
  BY <1>1, <1>2, <1>3, <1>4, <1>5 DEF Next, TaskNext, StopNext

\* Memory only moves forward, or falls back to what is on disk.
LEMMA BehindStep == Types /\ DiskBehind /\ [Next]_vars => DiskBehind'
<1> SUFFICES ASSUME Types, DiskBehind, [Next]_vars, NEW m \in Msg
             PROVE  Lifecycle!Forward(RecordIn(disk', m), RecordIn(mem', m))
  BY DEF DiskBehind, RecordIn
<1>0. Good(mem) /\ Good(mem')
  BY RepsStep DEF RepsMove, Types, TypeReps
<1>1. CASE disk' = mem'
  BY <1>1
<1>2. CASE Grows(mem, mem') /\ disk' = disk
  <2>1. Lifecycle!Forward(RecordIn(mem, m), RecordIn(mem', m))
    BY <1>0, <1>2, GrowsFacts
  <2>2. Lifecycle!Forward(RecordIn(disk, m), RecordIn(mem, m))
    BY DEF DiskBehind
  <2>3. Lifecycle!Forward(RecordIn(disk, m), RecordIn(mem', m))
    BY <2>1, <2>2, ForwardTransitive
  <2> QED
    BY <1>2, <2>3
<1> QED
  BY <1>1, <1>2, RepsStep DEF RepsMove
----------------------------------------------------------------------------
(***************************************************************************)
(* The theorems.                                                           *)
(***************************************************************************)
Rest == Shape /\ UnsavedIsOwed /\ GateClosed /\ OneStraggler /\ DiskBehind

\* The conjuncts of IInv, grouped by argument.
LEMMA InvParts == IInv <=> Types /\ HandsInv /\ Rest
  BY TypeParts DEF IInv, HandsInv, Rest

\* The invariant holds initially.
LEMMA RestInit == Init => Rest
<1> SUFFICES ASSUME Init PROVE Rest
  OBVIOUS
<1>1. Shape
  BY DEF Init, Shape, NoTask
<1>2. UnsavedIsOwed
  BY DEF Init, UnsavedIsOwed
<1>3. GateClosed /\ OneStraggler
  BY DEF Init, GateClosed, OneStraggler
<1>4. DiskBehind
  BY DEF Init, DiskBehind
<1> QED
  BY <1>1, <1>2, <1>3, <1>4 DEF Rest

\* Initially nobody holds anything.
LEMMA HandsInit == Init => Hands
<1> SUFFICES ASSUME Init, NEW u \in Pair PROVE Hand(u)
  BY DEF Hands
<1>1. TickHolds = {} /\ ~Ahead(u)
  BY DEF Init, NoTick, TickHolds, SentPairs, Ahead
<1>2. \A s \in Slots : TaskHolds(s) = {}
  BY NoHolds DEF Init, NoTask
<1>3. inFlight = {}
  BY DEF Init
<1> QED
  BY <1>1, <1>2, <1>3 DEF Hand, InTasks

\* Every action preserves the invariant.
THEOREM Inductive == Spec => []IInv
<1>1. Init => IInv
  BY TypeInit, RestInit, HandsInit, HandsParts, InvParts
<1>2. IInv /\ [Next]_vars => IInv'
  <2> SUFFICES ASSUME IInv, [Next]_vars PROVE IInv'
    OBVIOUS
  <2>1. Types /\ HandsInv /\ Rest
    BY InvParts
  <2>2. Hands
    BY <2>1, HandsParts
  <2>3. Types'
    BY <2>1, TypeStep
  <2>4. Hands'
    BY <2>1, <2>2, <2>3, HandsStep DEF Hands, Rest
  <2>5. Shape'
    BY <2>1, ShapeStep DEF Rest
  <2>6. GateClosed' /\ OneStraggler'
    BY <2>1, StopStep DEF Rest
  <2>7. UnsavedIsOwed' /\ DiskBehind'
    BY <2>1, OwedStep, BehindStep DEF Rest
  <2>8. Rest'
    BY <2>5, <2>6, <2>7 DEF Rest
  <2>9. HandsInv'
    BY <2>3, <2>4, HandsParts, PTL
  <2> QED
    BY <2>3, <2>8, <2>9, InvParts, PTL
<1> QED
  BY <1>1, <1>2, PTL DEF Spec

\* Types, and in every replica each stored delivery_status is the one
\* compute_status derives.
THEOREM TypeCorrect == Spec => []TypeOK
<1>1. IInv => TypeOK
  BY DEF IInv
<1> QED
  BY <1>1, Inductive, PTL

\* No replica has an entry together with its tombstone, whatever is merged.
THEOREM DeletedStaysDeleted == Spec => []TombstonesHold
<1>1. IInv => TombstonesHold
  BY DEF IInv
<1> QED
  BY <1>1, Inductive, PTL

\* No pair is in two hands, and a live one in hand is marked in in_flight.
THEOREM SingleHolder == Spec => []OneHolder
<1>1. IInv => OneHolder
  BY DEF IInv
<1> QED
  BY <1>1, Inductive, PTL

\* A marker nobody answers for was left by a tick that found no permit.
THEOREM MarkersHaveOwners == Spec => []MarkersAccounted
<1>1. IInv => MarkersAccounted
  BY DEF IInv
<1> QED
  BY <1>1, Inductive, PTL

\* Between phase A and the send no attempt of the pair is recorded.
THEOREM BackoffHolds == Spec => []SendsAreDue
<1>1. IInv => SendsAreDue
  BY DEF IInv
<1> QED
  BY <1>1, Inductive, PTL

\* Every change of memory has a write ahead of it, but for expired invitations.
THEOREM ChangesAreOwed == Spec => []UnsavedIsOwed
<1>1. IInv => UnsavedIsOwed
  BY DEF IInv
<1> QED
  BY <1>1, Inductive, PTL

\* After the fence at most one tick or task is left.
THEOREM AtMostOneStraggler == Spec => []OneStraggler
<1>1. IInv => OneStraggler
  BY DEF IInv
<1> QED
  BY <1>1, Inductive, PTL

\* What is on disk is a record of the abstract specification.
Stored == OnDisk \in [Msg -> Lifecycle!Record]

\* A good replica has a record of every message.
LEMMA RecordsOnDisk == Types => Stored
<1> SUFFICES ASSUME Types, NEW m \in Msg PROVE RecordIn(disk, m) \in Lifecycle!Record
  BY DEF Stored, OnDisk
<1>1. CASE m \in disk.tomb
  BY <1>1 DEF RecordIn, Lifecycle!Record, Lifecycle!Stages
<1>2. CASE m \notin disk.tomb
  <2> DEFINE e == disk.box[m]
             stage == IF Open(e) THEN "open" ELSE e.st
  <2>1. e \in Entry
    BY DEF Types, TypeReps, Good, Replica
  <2>2. e.got \in SUBSET Peer /\ (e.st = "complete" <=> e.got = Peer)
        /\ e.st \in {"absent", "pending", "partial", "complete", "expired"}
    BY <2>1, EntryFacts
  <2>3. stage \in Lifecycle!Stages /\ (stage = "complete" <=> e.st = "complete")
    BY <2>2 DEF Open, Lifecycle!Stages
  <2>4. RecordIn(disk, m) = [stage |-> stage, got |-> e.got]
    BY <1>2 DEF RecordIn
  <2> HIDE DEF e, stage
  <2> QED
    BY <2>2, <2>3, <2>4 DEF Lifecycle!Record
<1> QED
  BY <1>1, <1>2

\* Every step advances the records on disk or leaves them.
LEMMA DiskStep == IInv /\ IInv' /\ [Next]_vars => [Lifecycle!Advance]_OnDisk
<1> SUFFICES ASSUME IInv, IInv', [Next]_vars PROVE [Lifecycle!Advance]_OnDisk
  OBVIOUS
<1>1. Types /\ DiskBehind
  BY InvParts DEF Rest
<1>2. Types'
  BY <1>1, TypeStep
<1>3. Stored'
  BY <1>2, RecordsOnDisk, PTL
<1>4. CASE disk' = disk
  BY <1>4 DEF OnDisk, RecordIn
<1>5. CASE disk' = mem
  <2>1. ASSUME NEW m \in Msg PROVE Lifecycle!Forward(OnDisk[m], OnDisk'[m])
    <3>1. OnDisk[m] = RecordIn(disk, m) /\ OnDisk'[m] = RecordIn(mem, m)
      BY <1>5 DEF OnDisk, RecordIn
    <3>2. Lifecycle!Forward(RecordIn(disk, m), RecordIn(mem, m))
      BY <1>1 DEF DiskBehind
    <3> QED
      BY <3>1, <3>2
  <2> QED
    BY <1>3, <2>1 DEF Lifecycle!Advance, Stored
<1> QED
  BY <1>1, <1>4, <1>5, RepsStep DEF RepsMove

\* The disk implements DmLifecycle.
THEOREM ImplementsLifecycle == Spec => DiskMovesForward
<1>1. Init => Lifecycle!Init
  BY DEF Init, Lifecycle!Init, Lifecycle!Nobody, OnDisk, RecordIn, Replica0, Absent, Open
<1>2. IInv /\ IInv' /\ [Next]_vars => [Lifecycle!Advance]_OnDisk
  BY DiskStep
<1> QED
  BY <1>1, <1>2, Inductive, PTL DEF Spec, DiskMovesForward, Lifecycle!Spec
----------------------------------------------------------------------------
(***************************************************************************)
(* merge_remote_into_local is a join.  Replicas that share the envelope of *)
(* every entry can be merged in any order and any number of times: this is *)
(* what FleetSync takes for granted of a dataset.                          *)
(***************************************************************************)
\* What the entries a and b of two replicas become.
Join(a, b) ==
  IF ~Present(b) THEN a
  ELSE IF ~Present(a) THEN b
  ELSE [st |-> ComputeStatus(a.got \cup b.got, "expired" \in {a.st, b.st}),
        got |-> a.got \cup b.got, at |-> b.at]

\* Two copies of one entry have one envelope.
Agree(a, b) == Present(a) /\ Present(b) => a.at = b.at
SameEnvelopes(r, p) == \A m \in Msg : Agree(r.box[m], p.box[m])

\* The joined entries are entries, and present if one of them was.
LEMMA JoinType ==
  ASSUME NEW a \in Entry, NEW b \in Entry
  PROVE  /\ Join(a, b) \in Entry
         /\ Present(Join(a, b)) <=> Present(a) \/ Present(b)
         /\ Join(a, b) = ApplyOutbox(a, b, FALSE)
<1>1. CASE ~Present(b)
  BY <1>1 DEF Join, ApplyOutbox
<1>2. CASE Present(b) /\ ~Present(a)
  <2>1. a = Absent /\ b \in Filed
    BY <1>2, EntryFacts DEF Present, Absent
  <2>2. b = [st |-> b.st, got |-> b.got, at |-> b.at] /\ b.st = ComputeStatus(b.got, b.st = "expired")
    BY <2>1 DEF Filed
  <2>3. Absent.got \cup b.got = b.got /\ ("expired" \in {Absent.st, b.st}) = (b.st = "expired")
    BY DEF Absent
  <2>4. ApplyOutbox(Absent, b, FALSE) = [st |-> b.st, got |-> b.got, at |-> b.at]
    BY <1>2, <2>2, <2>3 DEF ApplyOutbox
  <2> QED
    BY <1>2, <2>1, <2>2, <2>4 DEF Join
<1>3. CASE Present(b) /\ Present(a)
  <2>1. Join(a, b) = ApplyOutbox(a, b, FALSE)
    BY <1>3 DEF Join, ApplyOutbox
  <2>2. Join(a, b) \in Entry
    <3>1. ApplyOutbox(a, b, FALSE) \in Entry
      BY FALSE \in BOOLEAN, AppliedEntry, Zenon
    <3> QED
      BY <2>1, <3>1
  <2>3. Present(Join(a, b))
    BY <1>3 DEF Join, ComputeStatus, Present
  <2> QED
    BY <1>3, <2>1, <2>2, <2>3
<1> QED
  BY <1>1, <1>2, <1>3

\* The join of two present entries.
LEMMA JoinPresent ==
  ASSUME NEW a, NEW b, Present(a), Present(b)
  PROVE  /\ Join(a, b).st = ComputeStatus(a.got \cup b.got, "expired" \in {a.st, b.st})
         /\ Join(a, b).got = a.got \cup b.got /\ Join(a, b).at = b.at
         /\ Join(a, b) = [st |-> Join(a, b).st, got |-> Join(a, b).got, at |-> Join(a, b).at]
  BY DEF Join

\* It does not matter who merges whom.
LEMMA JoinCommutes ==
  ASSUME NEW a \in Entry, NEW b \in Entry, Agree(a, b)
  PROVE  Join(a, b) = Join(b, a)
<1>1. CASE ~Present(a) \/ ~Present(b)
  BY <1>1, EntryFacts DEF Join, Present
<1>2. CASE Present(a) /\ Present(b)
  <2>1. a.got \cup b.got = b.got \cup a.got /\ {a.st, b.st} = {b.st, a.st} /\ a.at = b.at
    BY <1>2 DEF Agree
  <2> QED
    BY <1>2, <2>1 DEF Join
<1> QED
  BY <1>1, <1>2

\* Merging what one has changes nothing.
LEMMA JoinIdempotent == ASSUME NEW a \in Entry PROVE Join(a, a) = a
<1>1. CASE Present(a)
  <2>1. a \in Filed
    BY <1>1, EntryFacts DEF Present, Absent
  <2>2. a = [st |-> a.st, got |-> a.got, at |-> a.at] /\ a.st = ComputeStatus(a.got, a.st = "expired")
    BY <2>1 DEF Filed
  <2>3. a.got \cup a.got = a.got /\ ("expired" \in {a.st, a.st}) = (a.st = "expired")
    OBVIOUS
  <2> QED
    BY <1>1, <2>2, <2>3 DEF Join
<1> QED
  BY <1>1 DEF Join

\* An expiry survives a merge unless the merged entry is complete.
LEMMA JoinExpired ==
  ASSUME NEW a \in Entry, NEW b \in Entry, Present(a), Present(b), Join(a, b).got # Peer
  PROVE  Join(a, b).st = "expired" <=> a.st = "expired" \/ b.st = "expired"
  BY JoinPresent DEF ComputeStatus

\* The status of a join is decided by who has the message and by the expiries.
LEMMA StatusDecided ==
  ASSUME NEW got \in SUBSET Peer, NEW x \in BOOLEAN, NEW y \in BOOLEAN, got # Peer => (x <=> y)
  PROVE  ComputeStatus(got, x) = ComputeStatus(got, y)
  BY DEF ComputeStatus

\* It does not matter in which order three replicas come together.
LEMMA JoinAssociates ==
  ASSUME NEW a \in Entry, NEW b \in Entry, NEW c \in Entry, Agree(a, b), Agree(b, c), Agree(a, c)
  PROVE  Join(Join(a, b), c) = Join(a, Join(b, c))
<1>0. /\ Present(Join(a, b)) <=> Present(a) \/ Present(b)
      /\ Present(Join(b, c)) <=> Present(b) \/ Present(c)
      /\ Join(a, b) \in Entry /\ Join(b, c) \in Entry
  BY JoinType
<1>1. CASE ~Present(c)
  BY <1>0, <1>1 DEF Join
<1>2. CASE Present(c) /\ ~Present(a)
  <2>1. Join(a, Join(b, c)) = Join(b, c)
    BY <1>0, <1>2 DEF Join
  <2>2. CASE Present(b)
    BY <1>2, <2>1, <2>2 DEF Join
  <2>3. CASE ~Present(b)
    BY <1>2, <2>1, <2>3 DEF Join
  <2> QED
    BY <2>2, <2>3
<1>3. CASE Present(c) /\ Present(a) /\ ~Present(b)
  BY <1>3 DEF Join
<1>4. CASE Present(a) /\ Present(b) /\ Present(c)
  <2> DEFINE ab == Join(a, b)
             bc == Join(b, c)
             l == Join(ab, c)
             r == Join(a, bc)
             got == a.got \cup b.got \cup c.got
             x == "expired" \in {ab.st, c.st}
             y == "expired" \in {a.st, bc.st}
  <2>1. /\ ab.got = a.got \cup b.got /\ bc.got = b.got \cup c.got /\ bc.at = c.at
        /\ Present(ab) /\ Present(bc)
    BY <1>0, <1>4, JoinPresent
  <2>2. /\ a.got \in SUBSET Peer /\ b.got \in SUBSET Peer /\ c.got \in SUBSET Peer
    BY EntryFacts
  <2>3. got \in SUBSET Peer /\ x \in BOOLEAN /\ y \in BOOLEAN
    BY <2>2
  <2>4. ab.got # Peer => (ab.st = "expired" <=> a.st = "expired" \/ b.st = "expired")
    BY <1>4, JoinExpired
  <2>5. bc.got # Peer => (bc.st = "expired" <=> b.st = "expired" \/ c.st = "expired")
    BY <1>4, JoinExpired
  <2> HIDE DEF ab, bc
  <2>6. /\ l.st = ComputeStatus(ab.got \cup c.got, x) /\ l.got = ab.got \cup c.got /\ l.at = c.at
        /\ l = [st |-> l.st, got |-> l.got, at |-> l.at]
    BY <1>4, <2>1, JoinPresent
  <2>7. /\ r.st = ComputeStatus(a.got \cup bc.got, y) /\ r.got = a.got \cup bc.got /\ r.at = bc.at
        /\ r = [st |-> r.st, got |-> r.got, at |-> r.at]
    BY <1>4, <2>1, JoinPresent
  <2>8. ab.got \cup c.got = got /\ a.got \cup bc.got = got
    BY <2>1
  <2> HIDE DEF l, r
  <2>9. got # Peer => ab.got # Peer /\ bc.got # Peer
    BY <2>1, <2>2
  <2>10. got # Peer => (x <=> y)
    BY <2>4, <2>5, <2>9
  <2> HIDE DEF got, x, y
  <2>11. l.st = r.st
    BY <2>3, <2>6, <2>7, <2>8, <2>10, StatusDecided
  <2>12. l = r
    BY <2>1, <2>6, <2>7, <2>8, <2>11
  <2> QED
    BY <2>12 DEF l, r, ab, bc
<1> QED
  BY <1>1, <1>2, <1>3, <1>4

\* Replicas with the same tombstones and entries are the same.
LEMMA ReplicasEqual ==
  ASSUME NEW r \in Replica, NEW p \in Replica, r.tomb = p.tomb, \A m \in Msg : r.box[m] = p.box[m]
  PROVE  r = p
<1>1. /\ r = [box |-> r.box, tomb |-> r.tomb] /\ p = [box |-> p.box, tomb |-> p.tomb]
      /\ r.box \in [Msg -> Entry] /\ p.box \in [Msg -> Entry]
  BY DEF Replica
<1>2. r.box = p.box
  BY <1>1
<1> QED
  BY <1>1, <1>2

\* A merge, entry by entry: gone if either has the tombstone, else joined.
Merged(q, r, p) ==
  /\ Good(q) /\ q.tomb = r.tomb \cup p.tomb
  /\ \A m \in Msg : q.box[m] = IF m \in r.tomb \cup p.tomb THEN Absent ELSE Join(r.box[m], p.box[m])

\* That is what merge_remote_into_local does.
LEMMA MergeMerges ==
  ASSUME NEW r, Good(r), NEW p, Good(p)
  PROVE  Merged(MergeReplica(r, p), r, p)
<1> DEFINE q == MergeReplica(r, p)
           tomb == r.tomb \cup p.tomb
           swept(m) == IF m \in p.tomb THEN Absent ELSE r.box[m]
<1>1. /\ r.box \in [Msg -> Entry] /\ p.box \in [Msg -> Entry]
      /\ \A m \in r.tomb : ~Present(r.box[m])
  BY DEF Good, Replica
<1>2. q.tomb = tomb /\ q.box = [m \in Msg |-> ApplyOutbox(swept(m), p.box[m], m \in tomb)]
  BY DEF MergeReplica
<1>3. Good(q)
  BY MergedGood DEF GoodStep
<1> HIDE DEF q
<1>4. ASSUME NEW m \in Msg
      PROVE  q.box[m] = IF m \in tomb THEN Absent ELSE Join(r.box[m], p.box[m])
  <2>1. q.box[m] = ApplyOutbox(swept(m), p.box[m], m \in tomb)
    BY <1>2
  <2>2. CASE m \in tomb
    <3>1. swept(m) = Absent
      BY <1>1, <2>2, EntryFacts DEF Present
    <3>2. q.box[m] = swept(m)
      BY <2>1, <2>2 DEF ApplyOutbox
    <3> QED
      BY <2>2, <3>1, <3>2
  <2>3. CASE m \notin tomb
    <3>1. swept(m) = r.box[m]
      BY <2>3
    <3>2. q.box[m] = ApplyOutbox(r.box[m], p.box[m], FALSE)
      BY <2>1, <2>3, <3>1 DEF ApplyOutbox
    <3> QED
      BY <1>1, <2>3, <3>2, JoinType
  <2> QED
    BY <2>2, <2>3
<1> QED
  BY <1>2, <1>3, <1>4 DEF Merged, q

\* The entries of a good replica.
LEMMA GoodEntries ==
  ASSUME NEW r, Good(r)
  PROVE  r \in Replica /\ \A m \in Msg : r.box[m] \in Entry /\ (m \in r.tomb => r.box[m] = Absent)
  BY EntryFacts DEF Good, Replica, Present

\* Two devices that merge one another's roots agree.
LEMMA MergeCommutes ==
  ASSUME NEW r, Good(r), NEW p, Good(p), SameEnvelopes(r, p)
  PROVE  MergeReplica(r, p) = MergeReplica(p, r)
<1> DEFINE a == MergeReplica(r, p)
           b == MergeReplica(p, r)
<1>1. Merged(a, r, p) /\ Merged(b, p, r)
  BY MergeMerges
<1> HIDE DEF a, b
<1>2. a.tomb = b.tomb /\ a \in Replica /\ b \in Replica
  BY <1>1, GoodEntries DEF Merged
<1>3. ASSUME NEW m \in Msg PROVE a.box[m] = b.box[m]
  <2>1. Join(r.box[m], p.box[m]) = Join(p.box[m], r.box[m])
    BY GoodEntries, JoinCommutes DEF SameEnvelopes
  <2> QED
    BY <1>1, <2>1 DEF Merged
<1> QED
  BY <1>2, <1>3, ReplicasEqual DEF a, b

\* A root that arrives again changes nothing.
LEMMA MergeRepeats ==
  ASSUME NEW r, Good(r), NEW p, Good(p)
  PROVE  MergeReplica(MergeReplica(r, p), p) = MergeReplica(r, p)
<1> DEFINE a == MergeReplica(r, p)
           b == MergeReplica(a, p)
<1>1. Merged(a, r, p)
  BY MergeMerges
<1>2. Good(a)
  BY <1>1 DEF Merged
<1> HIDE DEF a
<1>3. Merged(b, a, p)
  BY <1>2, MergeMerges
<1> HIDE DEF b
<1>4. a.tomb = b.tomb /\ a \in Replica /\ b \in Replica
  BY <1>1, <1>3, GoodEntries DEF Merged
<1>5. ASSUME NEW m \in Msg PROVE a.box[m] = b.box[m]
  <2> DEFINE x == r.box[m]
             y == p.box[m]
  <2>1. x \in Entry /\ y \in Entry
    BY GoodEntries
  <2>2. CASE m \in a.tomb
    BY <1>1, <1>3, <1>4, <2>2 DEF Merged
  <2>3. CASE m \notin a.tomb
    <3>1. a.box[m] = Join(x, y) /\ b.box[m] = Join(Join(x, y), y)
      BY <1>1, <1>3, <1>4, <2>3 DEF Merged
    <3> HIDE DEF x, y
    <3>2. Join(Join(x, y), y) = Join(x, y)
      <4>1. CASE ~Present(y)
        BY <4>1 DEF Join
      <4>2. CASE Present(y) /\ ~Present(x)
        BY <2>1, <4>2, JoinIdempotent DEF Join
      <4>3. CASE Present(y) /\ Present(x)
        <5> DEFINE j == Join(x, y)
                   k == Join(j, y)
        <5>1. j \in Entry /\ Present(j) /\ j.got = x.got \cup y.got /\ j.at = y.at
              /\ j = [st |-> j.st, got |-> j.got, at |-> j.at]
          BY <2>1, <4>3, JoinType, JoinPresent
        <5>2. /\ j.st = ComputeStatus(x.got \cup y.got, "expired" \in {x.st, y.st})
              /\ j.got # Peer => (j.st = "expired" <=> x.st = "expired" \/ y.st = "expired")
          BY <2>1, <4>3, JoinPresent, JoinExpired
        <5> HIDE DEF j
        <5>3. /\ k.st = ComputeStatus(j.got \cup y.got, "expired" \in {j.st, y.st})
              /\ k.got = j.got \cup y.got /\ k.at = y.at
              /\ k = [st |-> k.st, got |-> k.got, at |-> k.at]
          BY <4>3, <5>1, JoinPresent
        <5>4. k.got = j.got /\ j.got \in SUBSET Peer /\ j.got \cup y.got = j.got
          BY <5>1, <5>3, EntryFacts
        <5> HIDE DEF k
        <5> DEFINE v == "expired" \in {j.st, y.st}
                   w == "expired" \in {x.st, y.st}
        <5>5. v \in BOOLEAN /\ w \in BOOLEAN /\ (j.got # Peer => (v <=> w))
          BY <5>2
        <5>6. k.st = ComputeStatus(j.got, v) /\ j.st = ComputeStatus(j.got, w)
          BY <5>1, <5>2, <5>3, <5>4
        <5> HIDE DEF v, w
        <5>7. k.st = j.st
          BY <5>4, <5>5, <5>6, StatusDecided
        <5> QED
          BY <5>1, <5>3, <5>4, <5>7 DEF j, k
      <4> QED
        BY <4>1, <4>2, <4>3
    <3> QED
      BY <3>1, <3>2
  <2> QED
    BY <2>2, <2>3
<1> QED
  BY <1>4, <1>5, ReplicasEqual DEF a, b

\* Roots may be merged in any order, and merged before they are passed on.
LEMMA MergeAssociates ==
  ASSUME NEW r, Good(r), NEW p, Good(p), NEW q, Good(q),
         SameEnvelopes(r, p), SameEnvelopes(p, q), SameEnvelopes(r, q)
  PROVE  MergeReplica(MergeReplica(r, p), q) = MergeReplica(r, MergeReplica(p, q))
<1> DEFINE rp == MergeReplica(r, p)
           pq == MergeReplica(p, q)
           a  == MergeReplica(rp, q)
           b  == MergeReplica(r, pq)
<1>1. Merged(rp, r, p) /\ Merged(pq, p, q)
  BY MergeMerges
<1> HIDE DEF rp, pq
<1>2. Good(rp) /\ Good(pq)
  BY <1>1 DEF Merged
<1>3. Merged(a, rp, q) /\ Merged(b, r, pq)
  BY <1>2, MergeMerges
<1> HIDE DEF a, b
<1>4. a.tomb = b.tomb /\ a \in Replica /\ b \in Replica
  BY <1>1, <1>3, GoodEntries DEF Merged
<1>5. ASSUME NEW m \in Msg PROVE a.box[m] = b.box[m]
  <2>1. CASE m \in a.tomb
    BY <1>3, <1>4, <2>1 DEF Merged
  <2>2. CASE m \notin a.tomb
    <3>1. a.box[m] = Join(Join(r.box[m], p.box[m]), q.box[m])
      BY <1>1, <1>3, <2>2 DEF Merged
    <3>2. b.box[m] = Join(r.box[m], Join(p.box[m], q.box[m]))
      BY <1>1, <1>3, <1>4, <2>2 DEF Merged
    <3>3. Join(Join(r.box[m], p.box[m]), q.box[m]) = Join(r.box[m], Join(p.box[m], q.box[m]))
      BY GoodEntries, JoinAssociates DEF SameEnvelopes
    <3> QED
      BY <3>1, <3>2, <3>3
  <2> QED
    BY <2>1, <2>2
<1>6. a = b
  BY <1>4, <1>5, ReplicasEqual
<1> QED
  BY <1>6 DEF a, b, rp, pq

\* The copies of an entry in memory, on disk and at the sibling share the
\* created_at of the envelope.
OneEnvelope == \A r, p \in {mem, disk, sib} : SameEnvelopes(r, p)

\* Every entry of q is a copy of one that some replica has.
Copied(q) ==
  \A m \in Msg : Present(q.box[m]) =>
    \E r \in {mem, disk, sib} : Present(r.box[m]) /\ r.box[m].at = q.box[m].at

\* Acknowledgement, expiry and deletion leave the envelope alone.
LEMMA CopiesOf ==
  ASSUME NEW r \in {mem, disk, sib}, Good(r)
  PROVE  /\ Copied(r)
         /\ \A u \in Pair : Present(r.box[u[1]]) => Copied(Acked(r, u))
         /\ \A t \in Nat : Copied(ExpireAt(r, t))
         /\ \A m \in Msg : Copied(Deleted(r, m))
<1>1. r.box \in [Msg -> Entry] /\ r \in Replica
  BY DEF Good, Replica
<1>2. Copied(r)
  BY DEF Copied
<1>3. ASSUME NEW u \in Pair, Present(r.box[u[1]]) PROVE Copied(Acked(r, u))
  <2> DEFINE q == Acked(r, u)
  <2>1. q.box[u[1]].at = r.box[u[1]].at /\ u[1] \in Msg
    BY <1>1 DEF Acked, Pair, Replica
  <2>2. \A m \in Msg \ {u[1]} : q.box[m] = r.box[m]
    BY <1>1, <1>3, AckedEntry
  <2> HIDE DEF q
  <2>3. Copied(q)
    BY <1>3, <2>1, <2>2 DEF Copied
  <2> QED
    BY <2>3 DEF q
<1>4. ASSUME NEW t \in Nat PROVE Copied(ExpireAt(r, t))
  <2> DEFINE q == ExpireAt(r, t)
  <2>1. q.box = [m \in Msg |-> IF m \in Expirable(r, t) THEN [r.box[m] EXCEPT !.st = "expired"]
                               ELSE r.box[m]]
    BY <1>1 DEF ExpireAt, Replica
  <2> HIDE DEF q
  <2>2. ASSUME NEW m \in Msg
        PROVE  (Present(q.box[m]) => Present(r.box[m])) /\ q.box[m].at = r.box[m].at
    <3>1. CASE m \in Expirable(r, t)
      <4>1. Present(r.box[m])
        BY <3>1 DEF Expirable, Open, Present
      <4>2. r.box[m] \in Filed
        BY <1>1, <4>1, EntryFacts DEF Present, Absent
      <4> QED
        BY <2>1, <3>1, <4>1, <4>2 DEF Filed
    <3>2. CASE m \notin Expirable(r, t)
      BY <2>1, <3>2
    <3> QED
      BY <3>1, <3>2
  <2>3. Copied(q)
    BY <2>2 DEF Copied
  <2> QED
    BY <2>3 DEF q
<1>5. ASSUME NEW n \in Msg PROVE Copied(Deleted(r, n))
  <2>1. Deleted(r, n).box = [r.box EXCEPT ![n] = Absent] /\ ~Present(Absent)
    BY DEF Deleted, Absent, Present
  <2>2. \A m \in Msg : Present(Deleted(r, n).box[m]) => Deleted(r, n).box[m] = r.box[m]
    BY <1>1, <2>1
  <2> QED
    BY <2>2 DEF Copied
<1> QED
  BY <1>2, <1>3, <1>4, <1>5

\* So does a merge.
LEMMA CopiesMerged ==
  ASSUME NEW r \in {mem, disk, sib}, NEW p \in {mem, disk, sib}, Good(r), Good(p)
  PROVE  Copied(MergeReplica(r, p))
<1> DEFINE q == MergeReplica(r, p)
<1>1. Merged(q, r, p)
  BY MergeMerges
<1> HIDE DEF q
<1>2. ASSUME NEW m \in Msg, Present(q.box[m])
      PROVE  \E x \in {r, p} : Present(x.box[m]) /\ x.box[m].at = q.box[m].at
  <2>1. q.box[m] = Join(r.box[m], p.box[m])
    BY <1>1, <1>2 DEF Merged, Absent, Present
  <2>2. CASE ~Present(p.box[m])
    BY <1>2, <2>1, <2>2 DEF Join
  <2>3. CASE Present(p.box[m])
    BY <1>2, <2>1, <2>3 DEF Join
  <2> QED
    BY <2>2, <2>3
<1>3. Copied(q)
  BY <1>2 DEF Copied
<1> QED
  BY <1>3 DEF q

\* Every step but a send copies.
LEMMA StepCopies ==
  ASSUME Types, [Next]_vars, \A m \in Msg : ~SendDm(m)
  PROVE  Copied(mem') /\ Copied(disk') /\ Copied(sib')
<1>0. Good(mem) /\ Good(disk) /\ Good(sib) /\ now \in Nat
  BY DEF Types, TypeReps, TypeEnv
<1>same. Copied(mem) /\ Copied(disk) /\ Copied(sib)
  BY <1>0, CopiesOf
<1>4. ASSUME NEW m \in Msg, DeleteDm(m) PROVE Copied(mem') /\ Copied(disk') /\ Copied(sib')
  BY <1>0, <1>same, <1>4, CopiesOf DEF DeleteDm
<1>5. CASE Save \/ SaveAndAck \/ Restart
  BY <1>same, <1>5 DEF Save, SaveAndAck, Restart
<1>6. CASE MergeIn
  BY <1>0, <1>same, <1>6, CopiesMerged DEF MergeIn
<1>7. CASE MergeOut
  BY <1>0, <1>same, <1>7, CopiesMerged DEF MergeOut
<1>8. CASE SiblingStep
  BY <1>0, <1>same, <1>8, CopiesOf DEF SiblingStep
<1>9. ASSUME NEW s \in Slots, PhaseC(s) PROVE Copied(mem') /\ Copied(disk') /\ Copied(sib')
  <2>1. task[s].at \in Nat
    BY DEF Types, TypeHands, TaskType
  <2> QED
    BY <1>0, <1>same, <1>9, <2>1, CopiesOf DEF PhaseC
<1>10. ASSUME NEW s \in Slots, NEW u \in Pair, RungAcked(s, u)
       PROVE  Copied(mem') /\ Copied(disk') /\ Copied(sib')
  <2>1. mem' = mem \/ (mem' = Acked(mem, u) /\ Present(mem.box[u[1]]))
    BY <1>10 DEF RungAcked
  <2> QED
    BY <1>0, <1>same, <1>10, <2>1, CopiesOf DEF RungAcked
<1>12. CASE Clock \/ TickNext \/ StopBegin \/ CloseGate \/ FencePassed \/ StopTimesOut
  BY <1>same, <1>12 DEF Clock, TickNext, TickStart, SkipPhaseC, Recheck, Skip, Sent, Spawn, StopBegin,
                     CloseGate, FencePassed, StopTimesOut
<1>13. ASSUME NEW s \in Slots, TaskEnd(s) \/ (\E u \in Pair : RungFails(s, u))
       PROVE  Copied(mem') /\ Copied(disk') /\ Copied(sib')
  BY <1>same, <1>13 DEF TaskEnd, RungFails
<1>14. CASE UNCHANGED vars
  BY <1>same, <1>14 DEF vars
<1> QED
  BY <1>4, <1>5, <1>6, <1>7, <1>8, <1>9, <1>10, <1>12, <1>13, <1>14 DEF Next, StopNext, TaskNext

\* OneEnvelope is inductive.
LEMMA EnvelopeStep == Types /\ OneEnvelope /\ [Next]_vars => OneEnvelope'
<1> SUFFICES ASSUME Types, OneEnvelope, [Next]_vars PROVE OneEnvelope'
  OBVIOUS
<1>1. CASE \A m \in Msg : ~SendDm(m)
  <2>1. Copied(mem') /\ Copied(disk') /\ Copied(sib')
    BY <1>1, StepCopies
  <2>2. ASSUME NEW r, NEW p, Copied(r), Copied(p) PROVE SameEnvelopes(r, p)
    <3> SUFFICES ASSUME NEW m \in Msg, Present(r.box[m]), Present(p.box[m])
                 PROVE  r.box[m].at = p.box[m].at
      BY DEF SameEnvelopes, Agree
    <3>1. PICK x \in {mem, disk, sib} : Present(x.box[m]) /\ x.box[m].at = r.box[m].at
      BY <2>2 DEF Copied
    <3>2. PICK y \in {mem, disk, sib} : Present(y.box[m]) /\ y.box[m].at = p.box[m].at
      BY <2>2 DEF Copied
    <3>3. x.box[m].at = y.box[m].at
      BY <3>1, <3>2 DEF OneEnvelope, SameEnvelopes, Agree
    <3> QED
      BY <3>1, <3>2, <3>3
  <2> QED
    BY <2>1, <2>2 DEF OneEnvelope
<1>2. ASSUME NEW n \in Msg, SendDm(n) PROVE OneEnvelope'
  <2>0. mem \in Replica /\ mem.box \in [Msg -> Entry]
    BY DEF Types, TypeReps, Good, Replica
  <2>1. /\ \A m \in Msg \ {n} : mem'.box[m] = mem.box[m]
        /\ disk' = disk /\ sib' = sib
        /\ ~Present(disk.box[n]) /\ ~Present(sib.box[n])
    BY <1>2, <2>0 DEF SendDm, Unused, Replica
  <2>2. ASSUME NEW m \in Msg, NEW r \in {mem', disk', sib'}, NEW p \in {mem', disk', sib'}
        PROVE  Agree(r.box[m], p.box[m])
    <3>1. CASE m = n
      BY <2>1, <2>2, <3>1 DEF Agree
    <3>2. CASE m # n
      BY <2>1, <2>2, <3>2 DEF Agree, OneEnvelope, SameEnvelopes
    <3> QED
      BY <3>1, <3>2
  <2> QED
    BY <2>2 DEF OneEnvelope, SameEnvelopes
<1> QED
  BY <1>1, <1>2

\* Memory, disk and sibling can be merged in any order, in any grouping and any
\* number of times, with the same outcome.
MergeOrderFree ==
  \A r, p, q \in {mem, disk, sib} :
    /\ MergeReplica(r, p) = MergeReplica(p, r)
    /\ MergeReplica(MergeReplica(r, p), p) = MergeReplica(r, p)
    /\ MergeReplica(MergeReplica(r, p), q) = MergeReplica(r, MergeReplica(p, q))

\* The roots of sibling devices may arrive in any order and again:
\* merge_remote_into_local, with its tombstone sweep and its recomputed
\* statuses, is a join of the replicas that occur.
THEOREM MergeIsJoin == Spec => []MergeOrderFree
<1>1. Init => OneEnvelope
  BY DEF Init, OneEnvelope, SameEnvelopes, Agree
<1>2. Types /\ OneEnvelope => MergeOrderFree
  <2> SUFFICES ASSUME Types, OneEnvelope, NEW r \in {mem, disk, sib}, NEW p \in {mem, disk, sib},
                      NEW q \in {mem, disk, sib}
               PROVE  /\ MergeReplica(r, p) = MergeReplica(p, r)
                      /\ MergeReplica(MergeReplica(r, p), p) = MergeReplica(r, p)
                      /\ MergeReplica(MergeReplica(r, p), q) = MergeReplica(r, MergeReplica(p, q))
    BY DEF MergeOrderFree
  <2>1. Good(r) /\ Good(p) /\ Good(q)
    BY DEF Types, TypeReps
  <2>2. SameEnvelopes(r, p) /\ SameEnvelopes(p, q) /\ SameEnvelopes(r, q)
    BY DEF OneEnvelope
  <2> QED
    BY <2>1, <2>2, MergeCommutes, MergeRepeats, MergeAssociates
<1>3. IInv => Types
  BY InvParts
<1>4. Types /\ OneEnvelope /\ [Next]_vars => OneEnvelope'
  BY EnvelopeStep
<1> QED
  BY Inductive, <1>1, <1>2, <1>3, <1>4, PTL DEF Spec
============================================================================
