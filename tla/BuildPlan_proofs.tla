-------------------------- MODULE BuildPlan_proofs --------------------------
(***************************************************************************)
(* Proofs about BuildPlan, for every set of packages, every dependency map *)
(* and every list of triggers.                                             *)
(***************************************************************************)
EXTENDS BuildPlan, SequenceTheorems, WellFoundedInduction, TLAPS

----------------------------------------------------------------------------
(* Sequences.                                                              *)

\* What Append returns, element by element.
LEMMA AppendFacts ==
    ASSUME NEW S, NEW s \in Seq(S), NEW e \in S
    PROVE  /\ Append(s, e) \in Seq(S)
           /\ Len(Append(s, e)) = Len(s) + 1
           /\ \A i \in 1..Len(s) : Append(s, e)[i] = s[i]
           /\ Append(s, e)[Len(s) + 1] = e
           /\ Elements(Append(s, e)) = Elements(s) \union {e}
<1>1. /\ Append(s, e) \in Seq(S)
      /\ Len(Append(s, e)) = Len(s) + 1
      /\ \A i \in 1..Len(s) : Append(s, e)[i] = s[i]
      /\ Append(s, e)[Len(s) + 1] = e
  OBVIOUS
<1>2. Elements(Append(s, e)) = Elements(s) \union {e}
  BY <1>1 DEF Elements
<1> QED BY <1>1, <1>2

\* What is left of a stack once its top is popped.
LEMMA BelowFacts ==
    ASSUME NEW S, NEW s \in Seq(S), s # <<>>
    PROVE  /\ SubSeq(s, 1, Len(s) - 1) \in Seq(S)
           /\ Len(s) \in Nat \ {0}
           /\ Len(SubSeq(s, 1, Len(s) - 1)) = Len(s) - 1
           /\ \A i \in 1..(Len(s) - 1) : SubSeq(s, 1, Len(s) - 1)[i] = s[i]
           /\ s[Len(s)] \in S
<1>1. Len(s) \in Nat \ {0}
  OBVIOUS
<1>2. /\ SubSeq(s, 1, Len(s) - 1) \in Seq(S)
      /\ Len(SubSeq(s, 1, Len(s) - 1)) = Len(s) - 1
      /\ \A i \in 1..(Len(s) - 1) : SubSeq(s, 1, Len(s) - 1)[i] = s[i]
  <2>1. PICK n \in Nat : n = Len(s) - 1
    BY <1>1
  <2>2. \A i \in 1..n : s[i] \in S
    BY <2>1
  <2>3. /\ SubSeq(s, 1, n) \in Seq(S)
        /\ Len(SubSeq(s, 1, n)) = IF 1 <= n THEN n - 1 + 1 ELSE 0
        /\ \A i \in 1..(n - 1 + 1) : SubSeq(s, 1, n)[i] = s[1 + i - 1]
    BY <2>2, SubSeqProperties
  <2>4. \A i \in 1..n : 1 + i - 1 = i
    OBVIOUS
  <2> QED BY <2>1, <2>3, <2>4
<1>3. s[Len(s)] \in S
  BY <1>1
<1> QED BY <1>1, <1>2, <1>3

----------------------------------------------------------------------------
(* The packages the triggers require.                                      *)

InputType == deps \in DependencyMaps /\ triggers \in TriggerLists

\* What packages and triggers name are names, and triggers name packages.
LEMMA InputFacts ==
    ASSUME InputType
    PROVE  /\ DependsOn(Root) \subseteq Packages
           /\ \A p \in Packages : DependsOn(p) \subseteq Names
           /\ TriggerNodes \subseteq PackageNodes
           /\ \A n \in PackageNodes : deps[n] \subseteq Nodes
           /\ Root \notin Names
<1>1. /\ deps \in [Packages \X Targets -> SUBSET Nodes]
      /\ triggers \in Seq(Packages \X Targets)
      /\ Root \notin Names
  BY InputAssumption DEF InputType
<1>2. TriggerNodes \subseteq PackageNodes
  BY <1>1 DEF TriggerNodes, PackageNodes
<1>3. DependsOn(Root) \subseteq Packages
  BY <1>2 DEF DependsOn, PackageNodes
<1>4. ASSUME NEW p \in Packages PROVE DependsOn(p) \subseteq Names
  <2>1. p # Root
    BY <1>1 DEF Names
  <2>2. \A t \in Targets : deps[<<p, t>>] \subseteq Nodes
    BY <1>1
  <2>3. \A n \in UNION {deps[<<p, t>>] : t \in Targets} : n \in Nodes
    BY <2>2
  <2>4. \A n \in Nodes : n[1] \in Names
    BY DEF Nodes
  <2> QED BY <2>1, <2>3, <2>4 DEF DependsOn
<1>5. \A n \in PackageNodes : deps[n] \subseteq Nodes
  BY <1>1 DEF PackageNodes
<1> QED BY <1>1, <1>2, <1>3, <1>4, <1>5

\* The smallest closed set is itself closed.
LEMMA RequiredClosed ==
    ASSUME InputType PROVE Required \subseteq Names /\ ClosedNames(Required)
<1>1. Required \subseteq Names
  BY DEF Required
<1>2. DependsOn(Root) \subseteq Required
  <2>1. DependsOn(Root) \subseteq Names
    BY InputFacts DEF Names
  <2> QED BY <2>1 DEF Required, ClosedNames
<1>3. ASSUME NEW p \in Required \intersect Packages PROVE DependsOn(p) \subseteq Required
  <2>1. DependsOn(p) \subseteq Names
    BY InputFacts
  <2>2. ASSUME NEW S \in SUBSET Names, ClosedNames(S) PROVE DependsOn(p) \subseteq S
    BY <2>2 DEF Required, ClosedNames
  <2> QED BY <2>1, <2>2 DEF Required
<1> QED BY <1>1, <1>2, <1>3 DEF ClosedNames

\* Whatever is required is wanted by the triggers or by something required.
LEMMA RequiredWanted ==
    ASSUME InputType, NEW p \in Required
    PROVE  \E o \in (Required \intersect Packages) \union {Root} : p \in WantsOf(o)
<1> SUFFICES ASSUME \A o \in (Required \intersect Packages) \union {Root} : p \notin WantsOf(o)
             PROVE  FALSE
  OBVIOUS
<1> DEFINE S == Required \ {p}
<1>1. S \in SUBSET Names
  BY RequiredClosed
<1>2. p # Root
  BY RequiredClosed, InputFacts
<1>3. DependsOn(Root) \subseteq S
  BY RequiredClosed, <1>2 DEF ClosedNames, WantsOf, DependsOn
<1>4. ASSUME NEW q \in S \intersect Packages PROVE DependsOn(q) \subseteq S
  <2>1. DependsOn(q) \subseteq Required
    BY RequiredClosed DEF ClosedNames
  <2>2. p \notin DependsOn(q)
    BY DEF WantsOf
  <2> QED BY <2>1, <2>2
<1>5. ClosedNames(S)
  BY <1>3, <1>4 DEF ClosedNames
<1> QED BY <1>1, <1>5 DEF Required

----------------------------------------------------------------------------
(* The inductive invariant.                                                *)

\* The references to a package come from packages that want it, and those
\* from required packages are never dropped.
CullInv ==
    /\ \A p \in Packages : \A o \in wantedby[p] : p \in WantsOf(o)
    /\ \A p \in Packages : \A o \in (Required \intersect Packages) \union {Root} :
            p \in WantsOf(o) => o \in wantedby[p]
    /\ phase # "cull" => NothingDropped

\* The recursion starts only once the needed packages are validated.
PhaseInv ==
    /\ phase \in {"resolve", "done", "circular"} => ~Invalid
    /\ phase \in {"cull", "invalid"} => stack = <<>> /\ resolved = <<>> /\ next = 1

\* Each active call is for a needed package, has called the one above it for
\* an edge, and has all edges it no longer has to visit resolved.
StackInv ==
    \A i \in 1..Len(stack) :
        /\ stack[i].node[1] \in Needed
        /\ stack[i].rest \subseteq deps[stack[i].node]
        /\ i < Len(stack) => stack[i + 1].node \in deps[stack[i].node]
        /\ \A d \in deps[stack[i].node] \ stack[i].rest :
              d \in Elements(resolved) \/ (i < Len(stack) /\ d = stack[i + 1].node)

\* What is resolved or being resolved belongs to every closed set; the
\* triggers passed so far are resolved, up to the one at the bottom.
PlanInv ==
    /\ \A S \in SUBSET PackageNodes :
          ClosedNodes(S) => Elements(resolved) \subseteq S /\ Unresolved \subseteq S
    /\ \A i \in 1..(next - 1) :
          triggers[i] \in Elements(resolved) \/ (stack # <<>> /\ triggers[i] = stack[1].node)
    /\ phase = "done" => stack = <<>> /\ next > Len(triggers)
    /\ phase = "circular" =>
          stack # <<>> /\ \E e \in deps[stack[Len(stack)].node] : e \in Unresolved

Inv == TypeOK /\ CullInv /\ PhaseInv /\ StackInv /\ Topological /\ PlanInv

\* Required packages are needed: each is wanted by another, or by the triggers.
LEMMA RequiredNeeded ==
    ASSUME TypeOK, CullInv PROVE Required \intersect Packages \subseteq Needed
<1> SUFFICES ASSUME NEW p \in Required \intersect Packages PROVE wantedby[p] # {}
  BY DEF Needed, IsWanted
<1>1. PICK o \in (Required \intersect Packages) \union {Root} : p \in WantsOf(o)
  BY RequiredWanted DEF TypeOK, InputType
<1> QED BY <1>1 DEF CullInv

\* The inputs decide what is required.
LEMMA InputsStay ==
    ASSUME UNCHANGED inputVars
    PROVE  /\ Required' = Required
           /\ \A p : WantsOf(p)' = WantsOf(p)
           /\ TriggerNodes' = TriggerNodes
           /\ \A S : ClosedNodes(S)' = ClosedNodes(S)
<1>1. TriggerNodes' = TriggerNodes
  BY DEF TriggerNodes, inputVars
<1>2. \A p : DependsOn(p)' = DependsOn(p)
  BY <1>1 DEF DependsOn, inputVars
<1>3. \A S : ClosedNames(S)' = ClosedNames(S)
  BY <1>2 DEF ClosedNames
<1>4. \A p : WantsOf(p)' = WantsOf(p)
  BY <1>2 DEF WantsOf
<1>5. \A S : ClosedNodes(S)' = ClosedNodes(S)
  BY <1>1 DEF ClosedNodes, inputVars
<1> QED BY <1>1, <1>3, <1>4, <1>5 DEF Required

\* The invariant holds initially.
LEMMA InvInit == Init => Inv
<1> SUFFICES ASSUME Init PROVE Inv
  OBVIOUS
<1>0. InputType
  BY DEF Init, InputType
<1>1. TypeOK
  <2>1. \A p \in Packages : p \notin wantedby[p]
    BY InputFacts, <1>0 DEF Init, WantsOf, Names
  <2>2. Len(triggers) \in Nat
    BY InputAssumption DEF Init
  <2> QED BY <2>1, <2>2 DEF Init, TypeOK
<1>2. CullInv
  BY DEF Init, CullInv
<1>3. PhaseInv
  BY DEF Init, PhaseInv
<1>4. StackInv
  BY DEF Init, StackInv
<1>5. Topological
  BY DEF Init, Topological
<1>6. PlanInv
  BY DEF Init, PlanInv, Elements, Unresolved
<1> QED BY <1>1, <1>2, <1>3, <1>4, <1>5, <1>6 DEF Inv

\* Dropping a reference never concerns a required package.
LEMMA DropInv ==
    ASSUME Inv, NEW p \in Packages, NEW o \in wantedby[p], DropReference(p, o)
    PROVE  Inv'
<1> USE DEF Inv
<1>1. /\ deps' = deps /\ triggers' = triggers /\ phase' = phase /\ phase = "cull"
      /\ next' = next /\ stack' = stack /\ resolved' = resolved
      /\ UNCHANGED inputVars
  BY DEF DropReference, inputVars, resolveVars
<1>2. /\ wantedby' = [wantedby EXCEPT ![p] = @ \ {o}]
      /\ o # Root /\ wantedby[o] = {}
  BY DEF DropReference, WithoutReference, UnwantedReference, IsWanted
<1>3. wantedby \in [Packages -> SUBSET (Packages \union {Root})]
  BY DEF TypeOK
<1>4. TypeOK'
  BY <1>1, <1>2, <1>3 DEF TypeOK, PackageNodes
<1>5. o \notin Required
  BY <1>2, <1>3, RequiredNeeded DEF Needed, IsWanted
<1>6. CullInv'
  <2>1. \A q \in Packages : wantedby'[q] \subseteq wantedby[q]
    BY <1>2, <1>3
  <2>2. \A q \in Packages : \A r \in wantedby'[q] : q \in WantsOf(r)'
    BY <1>1, <2>1, InputsStay DEF CullInv
  <2>3. ASSUME NEW q \in Packages, NEW r \in ((Required \intersect Packages) \union {Root})',
               q \in WantsOf(r)'
        PROVE  r \in wantedby'[q]
    <3>1. r \in (Required \intersect Packages) \union {Root} /\ q \in WantsOf(r)
      BY <1>1, <2>3, InputsStay
    <3>2. r \in wantedby[q]
      BY <3>1 DEF CullInv
    <3> QED BY <3>1, <3>2, <1>2, <1>3, <1>5
  <2> QED BY <1>1, <2>2, <2>3 DEF CullInv
<1>7. PhaseInv'
  BY <1>1 DEF PhaseInv
<1>8. stack = <<>> /\ resolved = <<>> /\ next = 1
  BY <1>1 DEF PhaseInv
<1>9. StackInv'
  BY <1>1, <1>8 DEF StackInv
<1>10. Topological'
  BY <1>1, <1>8 DEF Topological
<1>11. PlanInv'
  BY <1>1, <1>8 DEF PlanInv, Elements, Unresolved
<1> QED BY <1>4, <1>6, <1>7, <1>9, <1>10, <1>11

\* What the culling established stays as long as no reference is dropped.
LEMMA CullStays ==
    ASSUME CullInv, UNCHANGED <<inputVars, wantedby>>,
           phase' = phase \/ phase # "cull" \/ NothingDropped
    PROVE  CullInv' /\ Needed' = Needed /\ (Invalid' <=> Invalid)
<1>1. Needed' = Needed
  BY DEF Needed, IsWanted
<1>2. NothingDropped' <=> NothingDropped
  BY DEF NothingDropped, UnwantedReference, IsWanted
<1>3. Invalid' <=> Invalid
  BY <1>1 DEF Invalid, inputVars
<1>4. \A p \in Packages : \A o \in wantedby'[p] : p \in WantsOf(o)'
  BY InputsStay DEF CullInv
<1>5. \A p \in Packages : \A o \in ((Required \intersect Packages) \union {Root})' :
            p \in WantsOf(o)' => o \in wantedby'[p]
  BY InputsStay DEF CullInv
<1>6. phase' # "cull" => NothingDropped'
  BY <1>2 DEF CullInv
<1> QED BY <1>1, <1>3, <1>4, <1>5, <1>6 DEF CullInv

\* The order stays as long as no node is resolved.
LEMMA TopologicalStays ==
    ASSUME Topological, deps' = deps, resolved' = resolved PROVE Topological'
BY DEF Topological

\* Once validated, needed packages depend on needed packages only.
LEMMA NeededEdges ==
    ASSUME TypeOK, ~Invalid, NEW n \in PackageNodes, n[1] \in Needed
    PROVE  deps[n] \subseteq PackageNodes /\ \A d \in deps[n] : d[1] \in Needed
<1>1. deps[n] \subseteq Nodes
  BY InputFacts DEF TypeOK, InputType
<1>2. n = <<n[1], n[2]>> /\ n[2] \in Targets
  BY DEF PackageNodes
<1>3. \A d \in deps[n] : d[1] \in Needed
  BY <1>2 DEF Invalid
<1>4. \A d \in Nodes : d[1] \in Packages => d \in PackageNodes
  BY DEF Nodes, PackageNodes
<1> QED BY <1>1, <1>3, <1>4 DEF Needed

\* A trigger names a needed package.
LEMMA TriggerNeeded ==
    ASSUME Inv, NEW i \in 1..Len(triggers)
    PROVE  triggers[i] \in PackageNodes /\ triggers[i][1] \in Needed
<1>0. InputType /\ TypeOK /\ CullInv
  BY DEF Inv, TypeOK, InputType
<1>1. triggers[i] \in TriggerNodes /\ triggers[i][1] \in DependsOn(Root)
  BY DEF TriggerNodes, DependsOn
<1>2. triggers[i][1] \in Required \intersect Packages
  BY <1>0, <1>1, RequiredClosed, InputFacts DEF ClosedNames
<1> QED BY <1>0, <1>1, <1>2, RequiredNeeded, InputFacts

\* Validation ends the culling with the recursion not started yet.
LEMMA CullDoneInv == ASSUME Inv, CullDone PROVE Inv'
<1> USE DEF Inv
<1>1. /\ UNCHANGED <<inputVars, wantedby>> /\ NothingDropped /\ phase = "cull"
      /\ deps' = deps /\ triggers' = triggers /\ wantedby' = wantedby
      /\ next' = next /\ stack' = stack /\ resolved' = resolved
      /\ phase' = IF Invalid THEN "invalid" ELSE "resolve"
  BY DEF CullDone, inputVars, resolveVars
<1>2. stack = <<>> /\ resolved = <<>> /\ next = 1
  BY <1>1 DEF PhaseInv
<1>3. TypeOK'
  BY <1>1 DEF TypeOK, PackageNodes
<1>4. CullInv' /\ (Invalid' <=> Invalid)
  BY <1>1, CullStays
<1>5. PhaseInv'
  BY <1>1, <1>2, <1>4 DEF PhaseInv
<1>6. StackInv'
  BY <1>1, <1>2 DEF StackInv
<1>7. Topological'
  BY <1>1, <1>2 DEF Topological
<1>8. PlanInv'
  BY <1>1, <1>2 DEF PlanInv, Elements, Unresolved
<1> QED BY <1>3, <1>4, <1>5, <1>6, <1>7, <1>8

\* A trigger starts a recursion of one call with all its edges to visit.
LEMMA ResolveTriggerInv == ASSUME Inv, ResolveTrigger PROVE Inv'
<1> USE DEF Inv
<1>1. /\ UNCHANGED <<inputVars, wantedby>> /\ phase = "resolve" /\ phase' = phase
      /\ deps' = deps /\ triggers' = triggers /\ wantedby' = wantedby
      /\ next <= Len(triggers) /\ next' = next + 1 /\ stack = <<>> /\ resolved' = resolved
      /\ stack' = <<[node |-> triggers[next], rest |-> deps[triggers[next]]]>>
  BY DEF ResolveTrigger, inputVars, resolveVars, Edges
<1>2. next \in 1..Len(triggers) /\ Len(triggers) \in Nat
  BY <1>1, InputAssumption DEF TypeOK
<1>3. PICK n : n = triggers[next]
  OBVIOUS
<1>4. n \in PackageNodes /\ n[1] \in Needed
  BY <1>2, <1>3, TriggerNeeded
<1>5. ~Invalid
  BY <1>1 DEF PhaseInv
<1>6. deps[n] \subseteq PackageNodes
  BY <1>4, <1>5, NeededEdges
<1>7. CullInv' /\ Needed' = Needed /\ (Invalid' <=> Invalid)
  BY <1>1, CullStays
<1>8. TypeOK'
  <2>1. [node |-> n, rest |-> deps[n]] \in [node : PackageNodes, rest : SUBSET PackageNodes]
    BY <1>4, <1>6
  <2>2. stack' \in Seq([node : PackageNodes, rest : SUBSET PackageNodes])
    BY <2>1, <1>1, <1>3
  <2> QED BY <1>1, <1>2, <2>2 DEF TypeOK, PackageNodes
<1>9. PhaseInv'
  BY <1>1, <1>5, <1>7 DEF PhaseInv
<1>10. Len(stack') = 1 /\ stack'[1].node = n /\ stack'[1].rest = deps[n]
  BY <1>1, <1>3
<1>11. StackInv'
  BY <1>1, <1>4, <1>7, <1>10 DEF StackInv
<1>12. Topological'
  BY <1>1, TopologicalStays
<1>13. PlanInv'
  <2>1. Unresolved' = {n}
    BY <1>10 DEF Unresolved
  <2>2. n \in TriggerNodes
    BY <1>2, <1>3 DEF TriggerNodes
  <2>3. \A S \in SUBSET PackageNodes :
          ClosedNodes(S)' => Elements(resolved)' \subseteq S /\ Unresolved' \subseteq S
    BY <1>1, <2>1, <2>2, InputsStay DEF PlanInv, ClosedNodes, Elements
  <2>4. \A i \in 1..(next - 1) : triggers[i] \in Elements(resolved)
    BY <1>1 DEF PlanInv
  <2>5. \A i \in 1..(next' - 1) :
          triggers[i] \in Elements(resolved) \/ triggers[i] = stack'[1].node
    BY <1>1, <1>2, <1>3, <1>10, <2>4
  <2>6. stack' # <<>> /\ Elements(resolved)' = Elements(resolved)
    BY <1>1 DEF Elements
  <2> QED BY <1>1, <2>3, <2>5, <2>6 DEF PlanInv, PackageNodes
<1> QED BY <1>7, <1>8, <1>9, <1>11, <1>12, <1>13

\* A step to a recorded end changes no more than the phase.
LEMMA PlanDoneInv == ASSUME Inv, PlanDone PROVE Inv'
<1> USE DEF Inv
<1>1. /\ UNCHANGED <<inputVars, wantedby>> /\ phase = "resolve" /\ phase' = "done"
      /\ deps' = deps /\ triggers' = triggers /\ wantedby' = wantedby
      /\ next' = next /\ stack' = stack /\ resolved' = resolved
      /\ stack = <<>> /\ next > Len(triggers)
  BY DEF PlanDone, inputVars, resolveVars
<1>2. TypeOK'
  BY <1>1 DEF TypeOK, PackageNodes
<1>3. CullInv' /\ (Invalid' <=> Invalid)
  BY <1>1, CullStays
<1>4. PhaseInv'
  BY <1>1, <1>3 DEF PhaseInv
<1>5. StackInv'
  BY <1>1 DEF StackInv
<1>6. Topological'
  BY <1>1, TopologicalStays
<1>7. PlanInv'
  BY <1>1, InputsStay DEF PlanInv, Elements, Unresolved, PackageNodes
<1> QED BY <1>2, <1>3, <1>4, <1>5, <1>6, <1>7

\* The state of a nonempty stack, with its top apart.
LEMMA TopFacts ==
    ASSUME Inv, stack # <<>>
    PROVE  /\ Len(stack) \in Nat \ {0}
           /\ Top.node \in PackageNodes /\ Top.node[1] \in Needed
           /\ Top.rest \subseteq deps[Top.node]
           /\ \A d \in deps[Top.node] \ Top.rest : d \in Elements(resolved)
           /\ Top \in [node : PackageNodes, rest : SUBSET PackageNodes]
           /\ Below \in Seq([node : PackageNodes, rest : SUBSET PackageNodes])
           /\ Len(Below) = Len(stack) - 1
           /\ \A i \in 1..(Len(stack) - 1) : Below[i] = stack[i]
<1> DEFINE Frames == [node : PackageNodes, rest : SUBSET PackageNodes]
<1>1. stack \in Seq(Frames)
  BY DEF Inv, TypeOK
<1>2. /\ Len(stack) \in Nat \ {0}
      /\ Top \in Frames
      /\ Below \in Seq(Frames)
      /\ Len(Below) = Len(stack) - 1
      /\ \A i \in 1..(Len(stack) - 1) : Below[i] = stack[i]
  <2> HIDE DEF Frames
  <2> QED BY <1>1, BelowFacts DEF Top, Below
<1>3. Top.node \in PackageNodes
  BY <1>2
<1>4. Len(stack) \in 1..Len(stack)
  BY <1>2
<1>5. /\ Top.node[1] \in Needed
      /\ Top.rest \subseteq deps[Top.node]
      /\ \A d \in deps[Top.node] \ Top.rest : d \in Elements(resolved)
  BY <1>2, <1>4 DEF Inv, StackInv, Top
<1> QED BY <1>2, <1>3, <1>5

\* An edge to visit: resolved already, on the stack, or called.
LEMMA VisitEdgeInv ==
    ASSUME Inv, NEW e \in Top.rest, VisitEdge(e) PROVE Inv'
<1> USE DEF Inv
<1>1. /\ UNCHANGED <<inputVars, wantedby>> /\ phase = "resolve"
      /\ deps' = deps /\ triggers' = triggers /\ wantedby' = wantedby
      /\ next' = next /\ resolved' = resolved /\ stack # <<>>
  BY DEF VisitEdge, inputVars
<1>2. /\ Len(stack) \in Nat \ {0}
      /\ Top.node \in PackageNodes /\ Top.node[1] \in Needed
      /\ Top.rest \subseteq deps[Top.node]
      /\ \A d \in deps[Top.node] \ Top.rest : d \in Elements(resolved)
      /\ Top \in [node : PackageNodes, rest : SUBSET PackageNodes]
      /\ Below \in Seq([node : PackageNodes, rest : SUBSET PackageNodes])
      /\ Len(Below) = Len(stack) - 1
      /\ \A i \in 1..(Len(stack) - 1) : Below[i] = stack[i]
  BY <1>1, TopFacts
<1>3. ~Invalid
  BY <1>1 DEF PhaseInv
<1>4. e \in PackageNodes /\ e[1] \in Needed /\ deps[e] \subseteq PackageNodes
  BY <1>2, <1>3, NeededEdges
<1>5. CullInv' /\ Needed' = Needed /\ (Invalid' <=> Invalid)
  BY <1>1, CullStays
<1>6. Topological'
  BY <1>1, TopologicalStays
<1>7. PICK n \in Nat \ {0} : n = Len(stack)
  BY <1>2
<1>8. PICK t : t = Top
  OBVIOUS
<1>9. PICK frame : frame = [t EXCEPT !.rest = @ \ {e}]
  OBVIOUS
<1>10. /\ frame.node = t.node /\ frame.rest = t.rest \ {e}
       /\ frame \in [node : PackageNodes, rest : SUBSET PackageNodes]
  BY <1>2, <1>8, <1>9
<1>11. PICK popped : popped = Append(Below, frame)
  OBVIOUS
<1>12. /\ popped \in Seq([node : PackageNodes, rest : SUBSET PackageNodes])
       /\ Len(popped) = n
       /\ \A i \in 1..(n - 1) : popped[i] = stack[i]
       /\ popped[n] = frame /\ stack[n] = t
  <2> DEFINE Frames == [node : PackageNodes, rest : SUBSET PackageNodes]
  <2>1. /\ popped \in Seq(Frames) /\ Len(popped) = Len(Below) + 1
        /\ \A i \in 1..Len(Below) : popped[i] = Below[i]
        /\ popped[Len(Below) + 1] = frame
    <3>1. frame \in Frames /\ Below \in Seq(Frames)
      BY <1>2, <1>10
    <3> HIDE DEF Frames
    <3> QED BY <3>1, <1>11, AppendFacts
  <2> QED BY <2>1, <1>2, <1>7, <1>8 DEF Top
<1>13. Elements(resolved)' = Elements(resolved)
  BY <1>1 DEF Elements
<1>14. \A S \in SUBSET PackageNodes :
         ClosedNodes(S) => Elements(resolved) \subseteq S /\ Unresolved \subseteq S
  BY DEF PlanInv
<1>15. CASE e \in Elements(resolved) /\ stack' = popped /\ phase' = phase
  <2>1. TypeOK'
    BY <1>1, <1>12, <1>15 DEF TypeOK, PackageNodes
  <2>2. PhaseInv'
    BY <1>1, <1>3, <1>5, <1>15 DEF PhaseInv
  <2>3. StackInv'
    <3> SUFFICES ASSUME NEW i \in 1..n
                 PROVE  /\ popped[i].node[1] \in Needed
                        /\ popped[i].rest \subseteq deps[popped[i].node]
                        /\ i < n => popped[i + 1].node \in deps[popped[i].node]
                        /\ \A d \in deps[popped[i].node] \ popped[i].rest :
                             d \in Elements(resolved) \/ (i < n /\ d = popped[i + 1].node)
      BY <1>1, <1>5, <1>12, <1>13, <1>15 DEF StackInv
    <3>1. CASE i = n
      BY <3>1, <1>2, <1>8, <1>10, <1>12, <1>15
    <3>2. CASE i < n
      <4>1. popped[i] = stack[i] /\ popped[i + 1].node = stack[i + 1].node
        BY <3>2, <1>10, <1>12
      <4> QED BY <3>2, <4>1, <1>7 DEF StackInv
    <3> QED BY <3>1, <3>2
  <2>4. PlanInv'
    <3>1. \A i \in 1..n : popped[i].node = stack[i].node
      BY <1>10, <1>12
    <3>2. Unresolved' = Unresolved /\ stack'[1].node = stack[1].node /\ stack' # <<>>
      BY <3>1, <1>7, <1>12, <1>15 DEF Unresolved
    <3> QED BY <3>2, <1>1, <1>13, <1>15, InputsStay DEF PlanInv, PackageNodes
  <2> QED BY <2>1, <2>2, <2>3, <2>4, <1>5, <1>6
<1>16. CASE e \notin Elements(resolved) /\ e \in Unresolved /\ phase' = "circular" /\ stack' = stack
  <2>1. TypeOK'
    BY <1>1, <1>16 DEF TypeOK, PackageNodes
  <2>2. PhaseInv'
    BY <1>1, <1>3, <1>5, <1>16 DEF PhaseInv
  <2>3. StackInv'
    BY <1>1, <1>5, <1>13, <1>16 DEF StackInv
  <2>4. PlanInv'
    <3>1. Unresolved' = Unresolved
      BY <1>16 DEF Unresolved
    <3>2. \E d \in deps[stack[Len(stack)].node] : d \in Unresolved
      BY <1>2, <1>16 DEF Top
    <3> QED BY <3>1, <3>2, <1>1, <1>13, <1>16, InputsStay DEF PlanInv, PackageNodes
  <2> QED BY <2>1, <2>2, <2>3, <2>4, <1>5, <1>6
<1>17. CASE e \notin Elements(resolved) /\ phase' = phase
            /\ stack' = Append(popped, [node |-> e, rest |-> deps[e]])
  <2>1. PICK call : call = [node |-> e, rest |-> deps[e]]
    OBVIOUS
  <2>2. /\ call.node = e /\ call.rest = deps[e]
        /\ call \in [node : PackageNodes, rest : SUBSET PackageNodes]
    BY <2>1, <1>4
  <2>3. /\ stack' \in Seq([node : PackageNodes, rest : SUBSET PackageNodes])
        /\ Len(stack') = n + 1
        /\ \A i \in 1..n : stack'[i] = popped[i]
        /\ stack'[n + 1] = call
    <3> DEFINE Frames == [node : PackageNodes, rest : SUBSET PackageNodes]
    <3>1. call \in Frames /\ popped \in Seq(Frames) /\ stack' = Append(popped, call)
      BY <1>12, <1>17, <2>1, <2>2
    <3> HIDE DEF Frames
    <3>2. /\ stack' \in Seq(Frames) /\ Len(stack') = Len(popped) + 1
          /\ \A i \in 1..Len(popped) : stack'[i] = popped[i]
          /\ stack'[Len(popped) + 1] = call
      BY <3>1, AppendFacts
    <3> QED BY <3>2, <1>12 DEF Frames
  <2>4. TypeOK'
    BY <1>1, <2>3, <1>17 DEF TypeOK, PackageNodes
  <2>5. PhaseInv'
    BY <1>1, <1>3, <1>5, <1>17 DEF PhaseInv
  <2>6. StackInv'
    <3> SUFFICES ASSUME NEW i \in 1..(n + 1)
                 PROVE  /\ stack'[i].node[1] \in Needed
                        /\ stack'[i].rest \subseteq deps[stack'[i].node]
                        /\ i < n + 1 => stack'[i + 1].node \in deps[stack'[i].node]
                        /\ \A d \in deps[stack'[i].node] \ stack'[i].rest :
                             d \in Elements(resolved) \/ (i < n + 1 /\ d = stack'[i + 1].node)
      BY <1>1, <1>5, <1>13, <2>3 DEF StackInv
    <3>1. CASE i = n + 1
      BY <3>1, <2>2, <2>3, <1>4
    <3>2. CASE i = n
      <4>1. stack'[i] = frame /\ stack'[i + 1] = call
        BY <3>2, <2>3, <1>12
      <4> QED BY <4>1, <3>2, <1>2, <1>8, <1>10, <2>2
    <3>3. CASE i < n
      <4>1. i \in 1..(n - 1) /\ i \in 1..n /\ i + 1 \in 1..n
        BY <3>3
      <4>2. popped[i] = stack[i] /\ popped[i + 1].node = stack[i + 1].node
        BY <4>1, <1>10, <1>12
      <4>3. stack'[i] = stack[i] /\ stack'[i + 1].node = stack[i + 1].node
        BY <4>1, <4>2, <2>3
      <4> QED BY <3>3, <4>3, <1>7 DEF StackInv
    <3> QED BY <3>1, <3>2, <3>3
  <2>7. PlanInv'
    <3>1. \A i \in 1..n : stack'[i].node = stack[i].node
      BY <1>10, <1>12, <2>3
    <3>2. Unresolved' = Unresolved \union {e}
      BY SMTT(30), <3>1, <1>7, <2>2, <2>3 DEF Unresolved
    <3>3. stack'[1].node = stack[1].node /\ stack' # <<>>
      BY <3>1, <2>3
    <3>4. \A S \in SUBSET PackageNodes : ClosedNodes(S) => e \in S
      <4>1. Top.node \in Unresolved
        BY <1>2 DEF Top, Unresolved
      <4> QED BY <4>1, <1>2, <1>14 DEF ClosedNodes
    <3>5. \A S \in SUBSET PackageNodes :
            ClosedNodes(S)' => Elements(resolved)' \subseteq S /\ Unresolved' \subseteq S
      BY <3>2, <3>4, <1>1, <1>13, <1>14, InputsStay
    <3> QED BY <3>3, <3>5, <1>1, <1>13, <1>17 DEF PlanInv, PackageNodes
  <2> QED BY <2>4, <2>5, <2>6, <2>7, <1>5, <1>6
<1> QED BY <1>8, <1>9, <1>11, <1>15, <1>16, <1>17 DEF VisitEdge, Cycle, Edges

\* A node that returns is appended to the plan unless it is there already.
LEMMA ReturnFromNodeInv == ASSUME Inv, ReturnFromNode PROVE Inv'
<1> USE DEF Inv
<1>1. /\ UNCHANGED <<inputVars, wantedby>> /\ phase = "resolve" /\ phase' = phase
      /\ deps' = deps /\ triggers' = triggers /\ wantedby' = wantedby
      /\ next' = next /\ stack # <<>> /\ Top.rest = {}
      /\ resolved' = ResolvedWith(Top.node) /\ stack' = Below
  BY DEF ReturnFromNode, inputVars
<1>2. /\ Len(stack) \in Nat \ {0}
      /\ Top.node \in PackageNodes /\ Top.node[1] \in Needed
      /\ \A d \in deps[Top.node] \ Top.rest : d \in Elements(resolved)
      /\ Below \in Seq([node : PackageNodes, rest : SUBSET PackageNodes])
      /\ Len(Below) = Len(stack) - 1
      /\ \A i \in 1..(Len(stack) - 1) : Below[i] = stack[i]
  BY <1>1, TopFacts
<1>3. PICK n \in Nat \ {0} : n = Len(stack)
  BY <1>2
<1>4. PICK r : r = Top.node
  OBVIOUS
<1>5. stack[n].node = r
  BY <1>3, <1>4 DEF Top
<1>6. /\ stack' \in Seq([node : PackageNodes, rest : SUBSET PackageNodes])
      /\ Len(stack') = n - 1
      /\ \A i \in 1..(n - 1) : stack'[i] = stack[i]
  BY <1>1, <1>2, <1>3
<1>7. CullInv' /\ Needed' = Needed /\ (Invalid' <=> Invalid)
  BY <1>1, CullStays
<1>8. /\ Len(resolved) \in Nat /\ resolved \in Seq(PackageNodes)
      /\ r \in PackageNodes /\ deps[r] \subseteq Elements(resolved)
  BY <1>1, <1>2, <1>4 DEF TypeOK
<1>9. /\ resolved' \in Seq(PackageNodes)
      /\ Elements(resolved)' = Elements(resolved) \union {r}
      /\ Topological'
  <2>1. CASE r \in Elements(resolved)
    <3>1. resolved' = resolved
      BY <2>1, <1>1, <1>4 DEF ResolvedWith
    <3> QED BY <3>1, <2>1, <1>1, <1>8, TopologicalStays DEF Elements
  <2>2. CASE r \notin Elements(resolved)
    <3>1. resolved' = Append(resolved, r)
      BY <2>2, <1>1, <1>4 DEF ResolvedWith
    <3>2. PICK m \in Nat : m = Len(resolved)
      BY <1>8
    <3>3. /\ resolved' \in Seq(PackageNodes) /\ Len(resolved') = m + 1
          /\ \A i \in 1..m : resolved'[i] = resolved[i]
          /\ resolved'[m + 1] = r
          /\ Elements(resolved') = Elements(resolved) \union {r}
      BY <3>1, <3>2, <1>8, AppendFacts
    <3>4. ASSUME NEW i \in 1..(m + 1)
          PROVE  /\ \A j \in 1..(m + 1) : resolved'[i] = resolved'[j] => i = j
                 /\ \A d \in deps[resolved'[i]] : \E j \in 1..(i - 1) : resolved'[j] = d
      <4>1. \A j \in 1..m : resolved[j] # r
        BY <2>2, <3>2 DEF Elements
      <4>2. CASE i = m + 1
        <5>1. \A d \in deps[r] : \E j \in 1..m : resolved[j] = d
          BY <1>8, <3>2 DEF Elements
        <5>2. \A d \in deps[r] : \E j \in 1..(i - 1) : resolved'[j] = d
          BY <5>1, <4>2, <3>3
        <5> QED BY <4>1, <4>2, <5>2, <3>3
      <4>3. CASE i \in 1..m
        <5>1. \A d \in deps[resolved[i]] : \E j \in 1..(i - 1) : resolved[j] = d
          BY <4>3, <3>2 DEF Topological
        <5>2. \A d \in deps[resolved'[i]] : \E j \in 1..(i - 1) : resolved'[j] = d
          BY <5>1, <4>3, <3>3
        <5>3. \A j \in 1..m : resolved[i] = resolved[j] => i = j
          BY <4>3, <3>2 DEF Topological
        <5>4. \A j \in 1..(m + 1) : resolved'[i] = resolved'[j] => i = j
          BY <5>3, <4>1, <4>3, <3>3
        <5> QED BY <5>2, <5>4
      <4> QED BY <4>2, <4>3
    <3>5. Topological'
      BY <3>3, <3>4, <1>1 DEF Topological
    <3> QED BY <3>3, <3>5 DEF Elements
  <2> QED BY <2>1, <2>2
<1>10. TypeOK'
  BY <1>1, <1>6, <1>9 DEF TypeOK, PackageNodes
<1>11. PhaseInv'
  BY <1>1, <1>7 DEF PhaseInv
<1>12. StackInv'
  <2>1. ASSUME NEW i \in 1..(n - 1)
        PROVE  /\ stack'[i].node[1] \in Needed'
               /\ stack'[i].rest \subseteq deps'[stack'[i].node]
               /\ i < n - 1 => stack'[i + 1].node \in deps'[stack'[i].node]
               /\ \A d \in deps'[stack'[i].node] \ stack'[i].rest :
                    d \in Elements(resolved)' \/ (i < n - 1 /\ d = stack'[i + 1].node)
    <3>1. /\ stack[i].node[1] \in Needed
          /\ stack[i].rest \subseteq deps[stack[i].node]
          /\ i < n => stack[i + 1].node \in deps[stack[i].node]
          /\ \A d \in deps[stack[i].node] \ stack[i].rest :
                d \in Elements(resolved) \/ (i < n /\ d = stack[i + 1].node)
      BY <1>3 DEF StackInv
    <3>2. i = n - 1 => stack[i + 1].node = r
      BY <1>5
    <3>3. stack'[i] = stack[i] /\ (i < n - 1 => stack'[i + 1] = stack[i + 1])
      BY <1>6
    <3> QED BY <3>1, <3>2, <3>3, <1>1, <1>7, <1>9
  <2> QED BY <2>1, <1>6 DEF StackInv
<1>13. PlanInv'
  <2>1. Unresolved' \subseteq Unresolved /\ r \in Unresolved
    BY <1>3, <1>5, <1>6 DEF Unresolved
  <2>2. \A S \in SUBSET PackageNodes :
          ClosedNodes(S)' => Elements(resolved)' \subseteq S /\ Unresolved' \subseteq S
    BY <2>1, <1>1, <1>9, InputsStay DEF PlanInv
  <2>3. \A i \in 1..(next - 1) :
          triggers[i] \in Elements(resolved)' \/ (stack' # <<>> /\ triggers[i] = stack'[1].node)
    <3>1. CASE n = 1
      BY <3>1, <1>1, <1>5, <1>9 DEF PlanInv
    <3>2. CASE n # 1
      <4>1. stack' # <<>> /\ stack'[1] = stack[1]
        BY <3>2, <1>6
      <4> QED BY <4>1, <1>9 DEF PlanInv
    <3> QED BY <3>1, <3>2
  <2> QED BY <2>2, <2>3, <1>1 DEF PlanInv, PackageNodes
<1> QED BY <1>7, <1>9, <1>10, <1>11, <1>12, <1>13

\* A run that has ended changes nothing.
LEMMA StutterInv == ASSUME Inv, UNCHANGED vars PROVE Inv'
<1> USE DEF Inv
<1>1. /\ UNCHANGED <<inputVars, wantedby>> /\ phase' = phase
      /\ deps' = deps /\ triggers' = triggers /\ wantedby' = wantedby
      /\ next' = next /\ stack' = stack /\ resolved' = resolved
  BY DEF vars, inputVars, resolveVars
<1>2. TypeOK'
  BY <1>1 DEF TypeOK, PackageNodes
<1>3. CullInv' /\ Needed' = Needed /\ (Invalid' <=> Invalid)
  BY <1>1, CullStays DEF CullInv
<1>4. PhaseInv'
  BY <1>1, <1>3 DEF PhaseInv
<1>5. StackInv'
  BY <1>1, <1>3 DEF StackInv, Elements
<1>6. Topological'
  BY <1>1, TopologicalStays
<1>7. PlanInv'
  BY <1>1, InputsStay DEF PlanInv, Elements, Unresolved, PackageNodes
<1> QED BY <1>2, <1>3, <1>4, <1>5, <1>6, <1>7

\* Every step keeps the invariant.
LEMMA InvStep == Inv /\ [Next]_vars => Inv'
<1> SUFFICES ASSUME Inv, [Next]_vars PROVE Inv'
  OBVIOUS
<1>1. ASSUME NEW p \in Packages, NEW o \in wantedby[p], DropReference(p, o) PROVE Inv'
  BY <1>1, DropInv
<1>2. CASE CullDone
  BY <1>2, CullDoneInv
<1>3. CASE ResolveTrigger
  BY <1>3, ResolveTriggerInv
<1>4. ASSUME NEW e \in Top.rest, VisitEdge(e) PROVE Inv'
  BY <1>4, VisitEdgeInv
<1>5. CASE ReturnFromNode
  BY <1>5, ReturnFromNodeInv
<1>6. CASE PlanDone
  BY <1>6, PlanDoneInv
<1>7. CASE UNCHANGED vars
  BY <1>7, StutterInv
<1> QED BY <1>1, <1>2, <1>3, <1>4, <1>5, <1>6, <1>7 DEF Next, Ended

----------------------------------------------------------------------------
(* What the invariant gives.                                               *)

\* The inductive invariant holds in every behaviour of genbuildplan.py.
THEOREM Invariant == Spec => []Inv
BY InvInit, InvStep, PTL DEF Spec

\* Nodes on the stack and in the plan are always about existing packages.
THEOREM TypeCorrect == Spec => []TypeOK
<1>1. Inv => TypeOK
  BY DEF Inv
<1> QED BY <1>1, Invariant, PTL

\* Whatever the dependencies and the order of the culling, no package that
\* the triggers depend on is dropped.
THEOREM KeepsRequiredHolds == Spec => []KeepsRequired
<1>1. Inv => KeepsRequired
  BY RequiredNeeded DEF Inv, KeepsRequired
<1> QED BY <1>1, Invariant, PTL

\* A package left over by the culling is wanted by another one left over.
THEOREM LeftoversWantedHolds == Spec => []LeftoversWanted
<1>1. Inv => LeftoversWanted
  <2> SUFFICES ASSUME Inv, phase # "cull", NEW p \in Needed \ Required
               PROVE  \E o \in Needed \ Required : o # p /\ p \in DependsOn(o)
    BY DEF LeftoversWanted
  <2>0. InputType /\ p \in Packages
    BY DEF Inv, TypeOK, InputType, Needed
  <2>1. PICK o \in wantedby[p] : TRUE
    BY DEF Needed, IsWanted
  <2>2. p \in WantsOf(o) /\ o \in Packages \union {Root}
    BY <2>0 DEF Inv, CullInv, TypeOK
  <2>3. o = Root \/ IsWanted(o)
    BY <2>0 DEF Inv, CullInv, NothingDropped, UnwantedReference
  <2>4. o # Root
    BY <2>0, <2>2, RequiredClosed DEF ClosedNames, WantsOf
  <2>5. o \notin Required
    BY <2>0, <2>2, <2>4, RequiredClosed DEF ClosedNames, WantsOf
  <2> QED BY <2>2, <2>3, <2>4, <2>5 DEF Needed, WantsOf
<1> QED BY <1>1, Invariant, PTL

\* For every dependency graph the plan is in dependency order without
\* repetition: BuildScheduler may assume PlanAssumption.
THEOREM TopologicalHolds == Spec => []Topological
<1>1. Inv => Topological
  BY DEF Inv
<1> QED BY <1>1, Invariant, PTL

\* A finished plan holds exactly the triggers and all they depend on.
THEOREM PlanCompleteHolds == Spec => []PlanComplete
<1>1. Inv => PlanComplete
  <2> SUFFICES ASSUME Inv, phase = "done" PROVE PlanComplete
    BY DEF PlanComplete
  <2>1. stack = <<>> /\ next > Len(triggers)
    BY DEF Inv, PlanInv
  <2>2. TriggerNodes \subseteq Elements(resolved)
    <3>1. Len(triggers) \in Nat /\ next \in Nat
      BY InputAssumption DEF Inv, TypeOK
    <3> QED BY <2>1, <3>1 DEF Inv, PlanInv, TriggerNodes
  <2>3. \A n \in Elements(resolved) : deps[n] \subseteq Elements(resolved)
    <3>1. Len(resolved) \in Nat
      BY DEF Inv, TypeOK
    <3>2. ASSUME NEW i \in 1..Len(resolved) PROVE deps[resolved[i]] \subseteq Elements(resolved)
      BY <3>1 DEF Inv, Topological, Elements
    <3> QED BY <3>2 DEF Elements
  <2> QED BY <2>2, <2>3 DEF Inv, PlanInv, PlanComplete, ClosedNodes
<1> QED BY <1>1, Invariant, PTL

\* A cycle is reported exactly when the nodes to build contain one.
THEOREM CircularExactHolds == Spec => []CircularExact
<1>1. ASSUME Inv PROVE ~Circular(Elements(resolved))
  <2> SUFFICES ASSUME NEW X \in SUBSET Elements(resolved), X # {},
                      \A n \in X : deps[n] \intersect X # {}
               PROVE  FALSE
    BY DEF Circular
  <2> DEFINE I == {i \in 1..Len(resolved) : resolved[i] \in X}
  <2>1. Len(resolved) \in Nat
    BY <1>1 DEF Inv, TypeOK
  <2>2. I \subseteq Nat /\ I # {}
    BY <2>1 DEF Elements
  <2>3. PICK i \in I : \A j \in I : ~(<<j, i>> \in OpToRel(<, Nat))
    BY <2>2, NatLessThanWellFounded, WFMin
  <2>4. PICK d \in deps[resolved[i]] : d \in X
    OBVIOUS
  <2>5. PICK j \in 1..(i - 1) : resolved[j] = d
    BY <1>1 DEF Inv, Topological
  <2>6. j \in I /\ j < i /\ i \in Nat /\ j \in Nat
    BY <2>1, <2>4, <2>5
  <2> QED BY <2>3, <2>6 DEF OpToRel
<1>2. ASSUME Inv, phase = "circular", NEW S \in SUBSET PackageNodes, ClosedNodes(S)
      PROVE  Circular(S)
  <2>1. Unresolved \subseteq S
    BY <1>2 DEF Inv, PlanInv
  <2>2. PICK e \in deps[stack[Len(stack)].node] : e \in Unresolved
    BY <1>2 DEF Inv, PlanInv
  <2>3. stack # <<>> /\ Len(stack) \in Nat \ {0}
    BY <1>2, TopFacts DEF Inv, PlanInv
  <2>4. ASSUME NEW i \in 1..Len(stack)
        PROVE  deps[stack[i].node] \intersect Unresolved # {}
    <3>1. CASE i = Len(stack)
      BY <3>1, <2>2
    <3>2. CASE i < Len(stack)
      <4>1. i + 1 \in 1..Len(stack)
        BY <3>2, <2>3
      <4>2. stack[i + 1].node \in deps[stack[i].node]
        BY <1>2, <3>2 DEF Inv, StackInv
      <4> QED BY <4>1, <4>2 DEF Unresolved
    <3> QED BY <3>1, <3>2, <2>3
  <2>5. \A n \in Unresolved : deps[n] \intersect Unresolved # {}
    BY <2>4 DEF Unresolved
  <2> QED BY <2>1, <2>2, <2>5 DEF Circular
<1>3. Inv => CircularExact
  BY <1>1, <1>2 DEF CircularExact
<1> QED BY <1>3, Invariant, PTL
=============================================================================
