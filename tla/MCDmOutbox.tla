----------------------------- MODULE MCDmOutbox -----------------------------
(***************************************************************************)
(* DmOutbox for TLC.  A scenario says how often each kind of event may     *)
(* happen; what it does not name does not happen.                          *)
(***************************************************************************)
EXTENDS DmOutbox, TLC

Never == [e \in Events |-> 0]

\* One message or one invitation, and one group of troubles.
SafetyScenarios ==
  { ("send" :> 1 @@ "deposit" :> 1 @@ "crash" :> 1 @@ "contend" :> 1) @@ Never,
    ("invite" :> 1 @@ "deposit" :> 1 @@ "stop" :> 1) @@ Never,
    ("send" :> 1 @@ "deposit" :> 1 @@ "delete" :> 1 @@ "merge" :> 2) @@ Never,
    ("send" :> 1 @@ "deposit" :> 1 @@ "merge" :> 2 @@ "sibling" :> 1) @@ Never }
============================================================================
