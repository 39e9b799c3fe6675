----------------------------- MODULE MCDmInbox -----------------------------
(***************************************************************************)
(* DmInbox for TLC.  A scenario says how often each kind of event may      *)
(* happen; what it does not name does not happen.                          *)
(***************************************************************************)
EXTENDS DmInbox, TLC

CONSTANT alice

Never     == [e \in Events |-> 0]
OneSender == [m \in Msg |-> alice]

\* The butler's clock runs ahead of the other devices'.
FastButler == [x \in Dev |-> IF x \in Butlers THEN Skew ELSE 0]

\* One group of troubles each.  A second deposit is a redelivery of the same key.
SafetyScenarios ==
  { ("deposit" :> 1 @@ "day" :> 2 @@ "reject" :> 1 @@ "crash" :> 1) @@ Never,
    ("deposit" :> 1 @@ "day" :> 1 @@ "diskfail" :> 1 @@ "crash" :> 1) @@ Never,
    ("deposit" :> 1 @@ "day" :> 1 @@ "loss" :> 1) @@ Never,
    ("deposit" :> 1 @@ "day" :> 4 @@ "reject" :> 1 @@ "diskfail" :> 1) @@ Never,
    ("deposit" :> 2 @@ "day" :> 2 @@ "reject" :> 1) @@ Never,
    ("deposit" :> 2 @@ "refuse" :> 1) @@ Never }

\* As many deposits as there is room for, and one more.
FullScenarios == { ("deposit" :> 3 @@ "day" :> 4) @@ Never }
============================================================================
