---------------------------- MODULE DmLifecycle ----------------------------
(***************************************************************************)
(* What an outbox promises about the messages entrusted to it, whatever    *)
(* crashes, siblings and late acknowledgements do: the record of a message *)
(* only moves forward.  Acknowledgements are never forgotten, a message    *)
(* that was given up on is not taken up again (it may still turn out to    *)
(* have reached everybody), and a deleted message does not come back.      *)
(*                                                                         *)
(* DmOutbox implements this specification with what it has on disk.        *)
(***************************************************************************)
EXTENDS Naturals

CONSTANTS
  Msg,   \* the messages
  Peer   \* the owners they are for

VARIABLE
  record  \* of each message: its stage and who acknowledged it

Stages == {"absent", "open", "expired", "complete", "deleted"}

\* Everybody has it exactly when it is complete.
Record == {r \in [stage : Stages, got : SUBSET Peer] :
             r.stage \in {"open", "expired", "complete"} => (r.stage = "complete" <=> r.got = Peer)}

Nobody == [stage |-> "absent", got |-> {}]

\* A record may move from a to b, in one or in several steps.
Forward(a, b) ==
  \/ a = b
  \/ a.stage = "absent"
  \/ b.stage = "deleted"
  \/ /\ a.stage = "open" /\ a.got \subseteq b.got
     /\ b.stage \in {"open", "expired", "complete"}
  \/ /\ a.stage = "expired" /\ a.got \subseteq b.got
     /\ b.stage \in {"expired", "complete"}

Init == record = [m \in Msg |-> Nobody]

\* Any number of messages move forward together: a write saves them all.
Advance ==
  /\ record' \in [Msg -> Record]
  /\ \A m \in Msg : Forward(record[m], record'[m])

Spec == Init /\ [][Advance]_record
============================================================================
