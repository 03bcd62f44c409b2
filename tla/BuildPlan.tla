----------------------------- MODULE BuildPlan -----------------------------
(***************************************************************************)
(* How scripts/genbuildplan.py turns the packages of the repository into   *)
(* the plan that scripts/pkgbuilder.py works off: processPackages culls    *)
(* the packages nothing wants, validates the dependencies of the rest and  *)
(* builds a graph of package:target nodes; get_build_steps resolves the    *)
(* build triggers depth first with dep_resolve.                            *)
(*                                                                         *)
(* The order in which packages and their dependencies are listed is left   *)
(* open.  --ignore-invalid and --warn-invalid, which the multi-threaded    *)
(* build never passes, and the build/install label of a step are left out. *)
(***************************************************************************)
EXTENDS Integers, Sequences, FiniteSets

CONSTANTS
    Packages,       \* the packages loadPackages found, without the root
    Unknown,        \* names that dependencies mention and nothing defines
    Targets,        \* bootstrap, init, host, target
    DependencyMaps, \* the dependency maps to consider
    TriggerLists    \* the --build lists to consider

Root == "__root__"

Names == Packages \union Unknown
Nodes == Names \X Targets

\* deps maps a package:target to what PKG_DEPENDS_<target> lists; every build
\* trigger names a package, or the root package would fail validation.
ASSUME InputAssumption ==
    /\ Root \notin Names
    /\ Packages \intersect Unknown = {}
    /\ DependencyMaps \subseteq [Packages \X Targets -> SUBSET Nodes]
    /\ TriggerLists \subseteq Seq(Packages \X Targets)

VARIABLES
    deps,        \* PKG_DEPENDS_* of every package
    triggers,    \* args.build
    phase,       \* "cull", "resolve", "done", "invalid" or "circular"
    wantedby,    \* LibreELEC_Package.wantedby, references pruned so far
    next,        \* the trigger get_build_steps resolves next
    stack,       \* the active calls of dep_resolve: node, edges still to visit
    resolved     \* the nodes resolved so far, in order: the plan

inputVars == <<deps, triggers>>
resolveVars == <<next, stack, resolved>>
vars == <<inputVars, phase, wantedby, resolveVars>>

----------------------------------------------------------------------------
(* Packages and nodes.                                                     *)

TriggerNodes == {triggers[i] : i \in 1..Len(triggers)}

\* The packages that the targets of a package depend on.
DependsOn(p) ==
    IF p = Root THEN {n[1] : n \in TriggerNodes}
    ELSE {n[1] : n \in UNION {deps[<<p, t>>] : t \in Targets}}

\* LibreELEC_Package.wants: a package never wants itself.
WantsOf(p) == DependsOn(p) \ {p}

IsWanted(p) == wantedby[p] # {}

\* needed_map, without the root.
Needed == {p \in Packages : IsWanted(p)}

\* Every dependency of a needed package must be needed (and so known) itself.
\* The checks that follow while the graph is built then find nothing more.
Invalid ==
    \E p \in Needed : \E t \in Targets : \E n \in deps[<<p, t>>] : n[1] \notin Needed

\* Node.edges
FaultyEdges(n) == {d \in deps[n] : d[2] = n[2]}
Edges(n) == deps[n]

\* The elements of a sequence.
Elements(s) == {s[i] : i \in 1..Len(s)}

----------------------------------------------------------------------------
Init ==
    /\ deps \in DependencyMaps
    /\ triggers \in TriggerLists
    /\ phase = "cull"
    /\ wantedby = [p \in Packages |-> {o \in Packages \union {Root} : p \in WantsOf(o)}]
    /\ next = 1 /\ stack = <<>> /\ resolved = <<>>

\* One reference from a package that nobody wants any more is dropped.  The
\* loops of processPackages repeat until a pass drops none.
FaultyUnwantedReference(o) == o = Root \/ ~IsWanted(o)
UnwantedReference(o) == o # Root /\ ~IsWanted(o)

FaultyWithoutReference(p, o) == wantedby
WithoutReference(p, o) == [wantedby EXCEPT ![p] = @ \ {o}]

DropReference(p, o) ==
    /\ phase = "cull"
    /\ o \in wantedby[p]
    /\ UnwantedReference(o)
    /\ wantedby' = WithoutReference(p, o)
    /\ UNCHANGED <<inputVars, phase, resolveVars>>

\* A pass over all packages dropped nothing.
FaultyNothingDropped == \E p \in Packages : \A o \in wantedby[p] : ~UnwantedReference(o)
NothingDropped == \A p \in Packages : \A o \in wantedby[p] : ~UnwantedReference(o)

\* Validate what is needed, and go on to resolve the triggers.
CullDone ==
    /\ phase = "cull"
    /\ NothingDropped
    /\ phase' = IF Invalid THEN "invalid" ELSE "resolve"
    /\ UNCHANGED <<inputVars, wantedby, resolveVars>>

----------------------------------------------------------------------------
(* get_build_steps and dep_resolve.                                        *)

Top == stack[Len(stack)]
Below == SubSeq(stack, 1, Len(stack) - 1)

\* The unresolved list: the nodes of the active calls.
Unresolved == {stack[i].node : i \in 1..Len(stack)}

\* A trigger is resolved even when an earlier one already pulled it in.
ResolveTrigger ==
    /\ phase = "resolve" /\ stack = <<>> /\ next <= Len(triggers)
    /\ stack' = <<[node |-> triggers[next], rest |-> Edges(triggers[next])]>>
    /\ next' = next + 1
    /\ UNCHANGED <<inputVars, phase, wantedby, resolved>>

\* The next edge of the innermost call: nothing to do, a cycle, or a call.
FaultyCycle(e) == \E n \in Unresolved : n[1] = e[1]
Cycle(e) == e \in Unresolved

VisitEdge(e) ==
    /\ phase = "resolve" /\ stack # <<>>
    /\ e \in Top.rest
    /\ LET popped == Append(Below, [Top EXCEPT !.rest = @ \ {e}]) IN
       \/ /\ e \in Elements(resolved)
          /\ stack' = popped
          /\ UNCHANGED phase
       \/ /\ e \notin Elements(resolved) /\ Cycle(e)
          /\ phase' = "circular"
          /\ UNCHANGED stack
       \/ /\ e \notin Elements(resolved) /\ ~Cycle(e)
          /\ stack' = Append(popped, [node |-> e, rest |-> Edges(e)])
          /\ UNCHANGED phase
    /\ UNCHANGED <<inputVars, wantedby, next, resolved>>

\* All edges of the innermost call are resolved, and so is its node.
FaultyResolvedWith(n) == Append(resolved, n)
ResolvedWith(n) == IF n \in Elements(resolved) THEN resolved ELSE Append(resolved, n)

ReturnFromNode ==
    /\ phase = "resolve" /\ stack # <<>>
    /\ Top.rest = {}
    /\ resolved' = ResolvedWith(Top.node)
    /\ stack' = Below
    /\ UNCHANGED <<inputVars, phase, wantedby, next>>

PlanDone ==
    /\ phase = "resolve" /\ stack = <<>> /\ next > Len(triggers)
    /\ phase' = "done"
    /\ UNCHANGED <<inputVars, wantedby, resolveVars>>

\* The plan is written, or genbuildplan.py aborted with an exception.
Ended == phase \in {"done", "invalid", "circular"} /\ UNCHANGED vars

Next ==
    \/ \E p \in Packages : \E o \in wantedby[p] : DropReference(p, o)
    \/ CullDone \/ ResolveTrigger
    \/ stack # <<>> /\ \E e \in Top.rest : VisitEdge(e)
    \/ ReturnFromNode \/ PlanDone \/ Ended

Spec == Init /\ [][Next]_vars /\ WF_vars(Next)

----------------------------------------------------------------------------
(* Properties.                                                             *)

PackageNodes == Packages \X Targets

\* Validation keeps unknown packages out of the recursion: every active call
\* and every step of the plan is about a package that exists.
TypeOK ==
    /\ deps \in DependencyMaps
    /\ triggers \in TriggerLists
    /\ phase \in {"cull", "resolve", "done", "invalid", "circular"}
    /\ wantedby \in [Packages -> SUBSET (Packages \union {Root})]
    /\ \A p \in Packages : p \notin wantedby[p]
    /\ next \in 1..(Len(triggers) + 1)
    /\ stack \in Seq([node : PackageNodes, rest : SUBSET PackageNodes])
    /\ resolved \in Seq(PackageNodes)

\* What the triggers transitively depend on, by package and by node: the
\* smallest set that holds them and whatever its members depend on.
ClosedNames(S) ==
    /\ DependsOn(Root) \subseteq S
    /\ \A p \in S \intersect Packages : DependsOn(p) \subseteq S
Required == {p \in Names : \A S \in SUBSET Names : ClosedNames(S) => p \in S}

ClosedNodes(S) ==
    /\ TriggerNodes \subseteq S
    /\ \A n \in S : deps[n] \subseteq S

\* Culling never drops a package that the triggers depend on, in whatever
\* order it drops references from lists it is iterating over.
KeepsRequired == Required \intersect Packages \subseteq Needed

\* A package that survives the culling without being required is wanted by
\* another such package: only packages that depend on each other in a cycle
\* (and what they want) are left over.
LeftoversWanted ==
    phase # "cull" =>
        \A p \in Needed \ Required :
            \E o \in Needed \ Required : o # p /\ p \in DependsOn(o)

\* Every step of the plan comes once, after everything it wants: what the
\* scheduler assumes of its plan (PlanAssumption in BuildScheduler).
Topological ==
    \A i \in 1..Len(resolved) :
        /\ \A j \in 1..Len(resolved) : resolved[i] = resolved[j] => i = j
        /\ \A d \in deps[resolved[i]] : \E j \in 1..(i - 1) : resolved[j] = d

\* The plan holds the triggers and all they depend on, and nothing else.
PlanComplete ==
    phase = "done" =>
        /\ ClosedNodes(Elements(resolved))
        /\ \A S \in SUBSET PackageNodes : ClosedNodes(S) => Elements(resolved) \subseteq S

\* genbuildplan.py reports a circular dependency exactly when the nodes it has
\* to build contain one, that is, some of them each depend on another of them.
Circular(S) == \E X \in SUBSET S : X # {} /\ \A n \in X : deps[n] \intersect X # {}
CircularExact ==
    /\ phase = "done" => ~Circular(Elements(resolved))
    /\ phase = "circular" =>
        \A S \in SUBSET PackageNodes : ClosedNodes(S) => Circular(S)

\* The culling reaches a fixpoint and the recursion ends.
Termination == <>(phase \in {"done", "invalid", "circular"})
===========================================================================
