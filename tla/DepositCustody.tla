--------------------------- MODULE DepositCustody ---------------------------
(***************************************************************************)
(* What an owner's devices promise a sender together.  A deposit that was  *)
(* acknowledged has a durable copy with one of them until it is done: taken*)
(* in by every device, or too old.  No device destroys a copy before that, *)
(* whatever it was acknowledged by, and none has a copy of what nobody     *)
(* deposited.                                                              *)
(*                                                                         *)
(* DmInbox implements this specification with what its devices would find  *)
(* on their disks if they all started again.                               *)
(***************************************************************************)
CONSTANTS
  Msg,  \* the deposits
  Dev   \* the devices that keep them

VARIABLES
  given,   \* what was deposited with some device
  acked,   \* what was acknowledged
  copies,  \* of each device: what it keeps, durably
  done     \* what need not be kept any more

vars == <<given, acked, copies, done>>

Init == given = {} /\ acked = {} /\ copies = [d \in Dev |-> {}] /\ done = {}

Offer(m) == given' = given \cup {m} /\ UNCHANGED <<acked, copies, done>>

\* Device d replaces its copies, and then acknowledges A.
Write(d, A) ==
  /\ \A e \in Dev \ {d} : copies'[e] = copies[e]
  /\ copies'[d] \subseteq given
  /\ copies[d] \ copies'[d] \subseteq done
  /\ A \subseteq copies'[d] \cup done
  /\ acked' = acked \cup A
  /\ UNCHANGED <<given, done>>

\* A device takes deposits in, or time passes.  What is done may come back.
Finish ==
  /\ done \subseteq done' /\ done' \subseteq Msg
  /\ \A d \in Dev : copies[d] \subseteq copies'[d] /\ copies'[d] \subseteq copies[d] \cup (done \cap given)
  /\ UNCHANGED <<given, acked>>

Next ==
  \/ \E m \in Msg : Offer(m)
  \/ \E d \in Dev : \E A \in SUBSET given : Write(d, A)
  \/ Finish

Spec == Init /\ [][Next]_vars
============================================================================
