--------------------------- MODULE RebuildDispatchMC ---------------------------
(* Small instances of RebuildDispatch: one tenant, reports that overlap or    *)
(* follow one another on up to three days.                                    *)
EXTENDS RebuildDispatch, TLC

CONSTANTS a, b, c, t1

MCTenantOf == (a :> t1) @@ (b :> t1) @@ (c :> t1)
MCDaysOf == (a :> {1}) @@ (b :> {1, 3}) @@ (c :> {2})
ShortDaysOf == (a :> {1}) @@ (b :> {2})
ShortTenantOf == (a :> t1) @@ (b :> t1)
LoneDaysOf == (a :> {1}) @@ (b :> {1}) @@ (c :> {1})
OncePerReport == [p \in Report |-> 1]
TwiceTheFirst == (a :> 2) @@ (b :> 0) @@ (c :> 0)
OrchestratorSymmetry == Permutations(Orchestrator)
=============================================================================
