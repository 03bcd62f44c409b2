---------------------------- MODULE MCBuildPlan ----------------------------
(***************************************************************************)
(* Three packages for host and target, and every choice of dependencies    *)
(* out of nine candidates: a target needing its own host tool, cycles by    *)
(* package but not by node and by both, and a name that nothing defines.   *)
(***************************************************************************)
EXTENDS BuildPlan

MCPackages == {"a", "b", "c"}
MCUnknown == {"u"}
MCTargets == {"host", "target"}

H(p) == <<p, "host">>
T(p) == <<p, "target">>

CandidateEdges ==
    { <<T("a"), T("b")>>, <<T("a"), H("c")>>, <<T("b"), T("a")>>,
      <<T("b"), H("b")>>, <<H("b"), H("c")>>, <<H("c"), H("b")>>,
      <<T("c"), T("b")>>, <<H("c"), T("u")>>, <<T("b"), T("u")>> }

MCDependencyMaps ==
    {[n \in MCPackages \X MCTargets |-> {e[2] : e \in {f \in E : f[1] = n}}] :
        E \in SUBSET CandidateEdges}

MCTriggerLists == {<<T("a")>>, <<T("c"), H("b")>>, <<T("a"), T("b")>>}
===========================================================================
