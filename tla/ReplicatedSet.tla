--------------------------- MODULE ReplicatedSet ---------------------------
(***************************************************************************)
(* What the fleet makes of a dataset: a set that users add to on any       *)
(* device, copies of which are saved, sent and merged.  Every step here is *)
(* atomic: what a device saves or sends it has at that moment, and at      *)
(* least what it saved, or sent in this session, before.  Operations come  *)
(* from users and from nowhere else; only a crash takes some away, and     *)
(* only a damaged file saved ones.                                         *)
(*                                                                         *)
(* FleetSync implements this specification, with snapshots that are used   *)
(* after other steps, frames that come late and files written in pieces.   *)
(***************************************************************************)
EXTENDS Naturals

CONSTANTS Device, Ops

VARIABLES
  running,  \* the device runs
  session,  \* how many times it was started
  live,     \* its copy of the set
  stored,   \* what it finds when it starts
  sent      \* every copy ever sent

vars == <<running, session, live, stored, sent>>

Init ==
  /\ running = [d \in Device |-> TRUE] /\ session = [d \in Device |-> 0]
  /\ live = [d \in Device |-> {}] /\ stored = [d \in Device |-> {}]
  /\ sent = {}

Perform(d, o) ==
  /\ running[d]
  /\ live' = [live EXCEPT ![d] = @ \cup {o}]
  /\ UNCHANGED <<running, session, stored, sent>>

Learn(d, s) ==
  /\ running[d]
  /\ live' = [live EXCEPT ![d] = @ \cup s.content]
  /\ UNCHANGED <<running, session, stored, sent>>

Send(d, c) ==
  /\ running[d] /\ c \subseteq live[d]
  /\ \A s \in sent : s.from = d /\ s.session = session[d] => s.content \subseteq c
  /\ sent' = sent \cup {[from |-> d, session |-> session[d], content |-> c]}
  /\ UNCHANGED <<running, session, live, stored>>

Save(d, c) ==
  /\ running[d] /\ stored[d] \subseteq c /\ c \subseteq live[d]
  /\ stored' = [stored EXCEPT ![d] = c]
  /\ UNCHANGED <<running, session, live, sent>>

Crash(d) ==
  /\ running[d]
  /\ running' = [running EXCEPT ![d] = FALSE]
  /\ live' = [live EXCEPT ![d] = {}]
  /\ UNCHANGED <<session, stored, sent>>

\* Start from what was saved, or from nothing if that is damaged.
Start(d, c) ==
  /\ ~running[d] /\ c \in {stored[d], {}}
  /\ running' = [running EXCEPT ![d] = TRUE]
  /\ session' = [session EXCEPT ![d] = @ + 1]
  /\ stored' = [stored EXCEPT ![d] = c]
  /\ live' = [live EXCEPT ![d] = c]
  /\ UNCHANGED sent

Next ==
  \E d \in Device :
    \/ \E o \in Ops : Perform(d, o)
    \/ \E s \in sent : Learn(d, s)
    \/ \E c \in SUBSET live[d] : Send(d, c) \/ Save(d, c)
    \/ Crash(d)
    \/ \E c \in {stored[d], {}} : Start(d, c)

Spec == Init /\ [][Next]_vars
============================================================================
