----------------------- MODULE MCReconnectSupervisor -----------------------
(***************************************************************************)
(* ReconnectSupervisor for TLC.  A scenario says how often each kind of    *)
(* event may happen; what it does not name does not happen.                *)
(***************************************************************************)
EXTENDS ReconnectSupervisor, TLC

Never == [e \in Events |-> 0]

\* One or two peers are learned, and one group of events strikes at any moment.
SafetyScenarios ==
  { ("learn" :> 1 @@ "connect" :> 1 @@ "drop" :> 1 @@ "fail" :> 1) @@ Never,
    ("learn" :> 1 @@ "depart" :> 1 @@ "connect" :> 1 @@ "drop" :> 1 @@ "fail" :> 1) @@ Never,
    ("learn" :> 1 @@ "deny" :> 1 @@ "bridge" :> 1 @@ "connect" :> 1 @@ "drop" :> 1) @@ Never,
    ("learn" :> 1 @@ "depart" :> 1 @@ "deny" :> 1 @@ "bridge" :> 1) @@ Never,
    ("learn" :> 1 @@ "deny" :> 1 @@ "bridge" :> 1 @@ "lapse" :> 1 @@ "admit" :> 1 @@ "sweep" :> 1)
      @@ Never,
    ("learn" :> 2 @@ "sweep" :> 1 @@ "parole" :> 1 @@ "fail" :> 1) @@ Never }

\* Two peers compete, one of them may be denied for good.
LiveScenarios ==
  { ("learn" :> 2 @@ "fail" :> 1 @@ "deny" :> 1) @@ Never }

\* A member leaves and comes back.
ReturnScenarios == { ("learn" :> 2 @@ "depart" :> 1) @@ Never }

Symmetry == Permutations(Peer) \cup Permutations(Permits)
============================================================================
