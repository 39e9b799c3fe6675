---------------------------- MODULE MCFleetSync ----------------------------
(***************************************************************************)
(* FleetSync for TLC.  A scenario says how often each kind of event may    *)
(* happen; what it does not name does not happen.                          *)
(***************************************************************************)
EXTENDS FleetSync, TLC

Never == [e \in Events |-> 0]

\* Two mutations, by one device or by both, and one group of troubles.
SafetyScenarios ==
  { ("mutate" :> 2 @@ "crash" :> 1) @@ Never,
    ("mutate" :> 2 @@ "save" :> 1 @@ "fail" :> 1) @@ Never,
    ("mutate" :> 2 @@ "flush" :> 1 @@ "miss" :> 1 @@ "drop" :> 1) @@ Never,
    ("mutate" :> 2 @@ "serve" :> 1 @@ "tick" :> 1 @@ "stepback" :> 1) @@ Never }

\* What the fleet recovers from by itself.
RecoveryScenarios ==
  { ("mutate" :> 1 @@ "crash" :> 1 @@ "corrupt" :> 1) @@ Never,
    ("mutate" :> 2 @@ "linkdown" :> 1) @@ Never,
    ("mutate" :> 2 @@ "fail" :> 1) @@ Never,
    ("mutate" :> 2 @@ "miss" :> 1) @@ Never }

\* A crash between publishing a mutation and persisting it.
CrashScenarios == { ("mutate" :> 2 @@ "crash" :> 1) @@ Never }

\* A mutation during the publish of another one, and a sibling that answers.
OverlapScenarios == { ("mutate" :> 2 @@ "flush" :> 1) @@ Never }

Symmetry == Permutations(Device) \cup Permutations(Ops)
============================================================================
