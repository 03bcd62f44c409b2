----------------------- MODULE BuildScheduler_proofs -----------------------
(***************************************************************************)
(* Theorems about BuildScheduler, for every plan, number of threads and    *)
(* setting of its options.                                                 *)
(***************************************************************************)
EXTENDS BuildScheduler, SequenceTheorems, FunctionTheorems, FiniteSetTheorems,
        TLAPS

----------------------------------------------------------------------------
(* The inductive invariant.                                                *)

\* Every job is still to be handed out, active or built.
Partition ==
    /\ work \union building \union built = Jobs
    /\ work \intersect (building \union built) = {}
    /\ building \intersect built = {}

\* Nothing is handed out before what it wants.
WantsBuilt == \A j \in building \union built : Wants[j] \subseteq built

\* Positions of the two queues and threads never share a job, and hold only
\* active jobs.
WorkQueueInv ==
    /\ \A i \in 1..Len(workQ) : workQ[i] # None => workQ[i] \in building
    /\ \A i, k \in 1..Len(workQ) : workQ[i] # None /\ workQ[i] = workQ[k] => i = k

CompleteQueueInv ==
    /\ \A i \in 1..Len(completeQ) : completeQ[i] \in building
    /\ \A i, k \in 1..Len(completeQ) : completeQ[i] = completeQ[k] => i = k
    /\ \A i \in 1..Len(workQ), k \in 1..Len(completeQ) : workQ[i] # completeQ[k]

ThreadInv ==
    /\ \A w \in Workers : Busy(w) => job[w] \in building
    /\ \A v, w \in Workers : Busy(v) /\ job[v] = job[w] => v = w
    /\ \A w \in Workers : Busy(w) =>
          /\ \A i \in 1..Len(workQ) : workQ[i] # job[w]
          /\ \A i \in 1..Len(completeQ) : completeQ[i] # job[w]

\* What a thread's process may be, and that it fails after a failed want.
ProcessInv ==
    \A w \in Workers :
        /\ pc[w] \in {"register", "run"} <=> proc[w] # "none"
        /\ child[w] => pc[w] = "run"
        /\ proc[w] = "ok" => FailedWants(job[w]) = {}

\* A job is known to have failed only once its thread has reported it.
FailureInv ==
    /\ failed = built \intersect jobFailed
    /\ \A j \in jobFailed : j \in built \/ Reported(j) # {}

\* Until a shutdown begins no thread is told to stop and no job is dropped.
StopInv ==
    /\ main \in {"signal", "kill", "exited"} <=> ending # "none"
    /\ \A w \in Workers : stopping[w] => ending # "none"
    /\ ending = "none" =>
          \A j \in building : Queued(j) # {} \/ Held(j) # {} \/ Reported(j) # {}

Inv == /\ TypeOK /\ Partition /\ WantsBuilt
       /\ WorkQueueInv /\ CompleteQueueInv /\ ThreadInv
       /\ ProcessInv /\ FailureInv /\ StopInv

----------------------------------------------------------------------------
(* Sequences.                                                              *)

\* Appending to a queue keeps what was there and adds one element at the end.
LEMMA AppendFacts ==
    ASSUME NEW S, NEW q \in Seq(S), NEW e \in S
    PROVE  /\ Append(q, e) \in Seq(S)
           /\ Len(Append(q, e)) = Len(q) + 1
           /\ \A i \in 1..Len(q) : Append(q, e)[i] = q[i]
           /\ Append(q, e)[Len(q) + 1] = e
  BY AppendProperties

\* Taking the head of a queue shifts every other element by one position.
LEMMA TailFacts ==
    ASSUME NEW S, NEW q \in Seq(S), q # <<>>
    PROVE  /\ Len(q) \in Nat \ {0}
           /\ Head(q) \in S
           /\ Head(q) = q[1]
           /\ Tail(q) \in Seq(S)
           /\ Len(Tail(q)) = Len(q) - 1
           /\ \A i \in 1..Len(Tail(q)) : Tail(q)[i] = q[i + 1]
  BY HeadTailProperties

----------------------------------------------------------------------------
(* The chains of packages to unpack.                                       *)

\* Chains are sequences of packages, no longer than there are packages.
LEMMA ChainType ==
    /\ Cardinality(Packages) \in Nat
    /\ \A c \in UnpackChains : /\ Len(c) \in 1..Cardinality(Packages)
                               /\ c \in [1..Len(c) -> Packages]
  <1>1. Cardinality(Packages) \in Nat
    BY PackageAssumption, FS_CardinalityType
  <1>2. ASSUME NEW n \in 1..Cardinality(Packages), NEW c \in [1..n -> Packages]
        PROVE  Len(c) = n
    <2>1. n \in Nat
      BY <1>1
    <2> QED
      BY <2>1, SeqDef, LenProperties
  <1> QED
    BY <1>1, <1>2 DEF UnpackChains

\* Every package is the chain of itself alone: the reference a job holds to
\* its own source directory is counted.
LEMMA OwnChain ==
    ASSUME NEW p \in Packages
    PROVE  <<p>> \in UnpackChains /\ Len(<<p>>) = 1 /\ <<p>>[1] = p
  <1>1. 1 \in 1..Cardinality(Packages)
    BY ChainType, PackageAssumption, FS_EmptySet
  <1>2. <<p>> \in [1..1 -> Packages] /\ Len(<<p>>) = 1 /\ <<p>>[1] = p
    OBVIOUS
  <1>3. IsChain(<<p>>)
    BY <1>2 DEF IsChain
  <1> QED
    BY <1>1, <1>2, <1>3 DEF UnpackChains

\* Finitely many packages have finitely many chains: a chain is determined by
\* the set of its positions paired with what is there.
LEMMA ChainsFinite == IsFiniteSet(UnpackChains)
  <1> DEFINE D == (1..Cardinality(Packages)) \X Packages
             Pairs(c) == {<<i, c[i]>> : i \in 1..Len(c)}
             F == [c \in UnpackChains |-> Pairs(c)]
  <1>1. IsFiniteSet(SUBSET D)
    <2>1. IsFiniteSet(1..Cardinality(Packages))
      BY ChainType, FS_Interval
    <2>2. IsFiniteSet(D)
      BY <2>1, PackageAssumption, FS_Product
    <2> QED
      BY <2>2, FS_SUBSET
  <1>2. F \in [UnpackChains -> SUBSET D]
    BY ChainType
  <1>3. ASSUME NEW a \in UnpackChains, NEW b \in UnpackChains, F[a] = F[b]
        PROVE  a = b
    <2>1. Pairs(a) = Pairs(b)
      BY <1>3
    <2>2. ASSUME NEW c, NEW d, Pairs(c) = Pairs(d), NEW i \in 1..Len(c)
          PROVE  i \in 1..Len(d) /\ c[i] = d[i]
      <3>1. <<i, c[i]>> \in Pairs(d)
        BY <2>2
      <3>2. PICK k \in 1..Len(d) : <<i, c[i]>> = <<k, d[k]>>
        BY <3>1
      <3> QED
        BY <3>2
    <2>3. /\ \A i \in 1..Len(a) : i \in 1..Len(b) /\ a[i] = b[i]
          /\ \A i \in 1..Len(b) : i \in 1..Len(a)
      BY <2>1, <2>2
    <2>4. /\ Len(a) \in Nat \ {0} /\ Len(b) \in Nat \ {0}
          /\ a \in [1..Len(a) -> Packages] /\ b \in [1..Len(b) -> Packages]
      BY ChainType
    <2>5. Len(a) = Len(b)
      <3>1. Len(a) \in 1..Len(a) /\ Len(b) \in 1..Len(b)
        BY <2>4
      <3>2. Len(a) \in 1..Len(b) /\ Len(b) \in 1..Len(a)
        BY <2>3, <3>1
      <3>3. ASSUME NEW m \in Nat, NEW n \in Nat, m \in 1..n, n \in 1..m
            PROVE  m = n
        BY <3>3
      <3> QED
        BY <2>4, <3>2, <3>3
    <2> QED
      BY <2>3, <2>4, <2>5
  <1>4. F \in Injection(UnpackChains, SUBSET D)
    BY <1>2, <1>3, Fun_IsInj
  <1> QED
    BY <1>1, <1>4, FS_Injection

----------------------------------------------------------------------------
(* Type correctness.                                                       *)

\* The references of a job are finitely many, so they can be counted.
LEMMA ReferencesFinite ==
    ASSUME NEW j, NEW p
    PROVE  /\ IsFiniteSet(ReleasedRefs(j, p))
           /\ Cardinality(ReleasedRefs(j, p)) \in Nat
  <1>1. ReleasedRefs(j, p) \subseteq UnpackChains
    BY DEF ReleasedRefs, RefsTo, References
  <1> QED
    BY <1>1, ChainsFinite, FS_Subset, FS_CardinalityType

\* The initial state is well typed.
LEMMA TypeInit == Init => TypeOK
  <1> SUFFICES ASSUME Init PROVE TypeOK
    OBVIOUS
  <1>1. IsFiniteSet(Jobs \X UnpackChains)
    <2>1. IsFiniteSet(Jobs)
      BY PlanAssumption, FS_Interval DEF Jobs
    <2> QED
      BY <2>1, ChainsFinite, FS_Product
  <1>2. refcount \in [Packages -> Int]
    <2>1. ASSUME NEW S \in SUBSET (Jobs \X UnpackChains)
          PROVE  Cardinality(S) \in Int
      BY <1>1, FS_Subset, FS_CardinalityType
    <2> QED
      BY <2>1 DEF Init
  <1> QED
    BY <1>2, ThreadsAssumption
    DEF Init, TypeOK, Jobs, Workers, None, Busy

\* Every step keeps the state well typed.
LEMMA TypeStep == TypeOK /\ [Next]_vars => TypeOK'
  <1> SUFFICES ASSUME TypeOK, [Next]_vars PROVE TypeOK'
    OBVIOUS
  <1> USE ThreadsAssumption DEF TypeOK, Workers, Jobs, None, Busy
  <1>1. ASSUME NEW j \in Jobs, SubmitJob(j) PROVE TypeOK'
    BY <1>1, AppendFacts DEF SubmitJob, mainVars, threadVars, IsNextJob
  <1>2. CASE AwaitActive
    BY <1>2 DEF AwaitActive, generatorVars, queueVars, threadVars
  <1>3. CASE FinishBuild
    BY <1>3 DEF FinishBuild, generatorVars, queueVars, threadVars
  <1>4. CASE CollectJob
    <2>1. Head(completeQ) \in Jobs /\ Tail(completeQ) \in Seq(Jobs)
      BY <1>4, TailFacts DEF CollectJob
    <2>2. refcount' \in [Packages -> Int]
      BY <1>4, ReferencesFinite DEF CollectJob
    <2>3. /\ current' \in Jobs /\ built' \subseteq Jobs /\ building' \subseteq Jobs
          /\ failed' \subseteq built'
      BY <1>4, <2>1 DEF CollectJob
    <2> QED
      BY <1>4, <2>1, <2>2, <2>3 DEF CollectJob, threadVars
  <1>5. ASSUME NEW p \in Packages, RemovePackage(p) PROVE TypeOK'
    BY <1>5 DEF RemovePackage, queueVars, mainVars, threadVars
  <1>6. CASE RemoveDone
    BY <1>6 DEF RemoveDone, generatorVars, queueVars, threadVars
  <1>7. CASE StopSignal
    BY <1>7, AppendFacts DEF StopSignal, generatorVars
  <1>8. CASE StopKill
    <2>1. stopAt' \in 1..(Threads + 1) /\ main' = "signal"
      BY <1>8 DEF StopKill
    <2>2. proc' \in [Workers -> {"none", "running", "ok", "fail"}]
      BY <1>8 DEF StopKill
    <2> QED
      BY <1>8, <2>1, <2>2 DEF StopKill, generatorVars, queueVars
  <1>9. CASE Exit
    BY <1>9 DEF Exit, generatorVars, queueVars, threadVars
  <1>10. CASE Interrupt
    BY <1>10 DEF Interrupt, generatorVars, queueVars, threadVars
  <1>11. ASSUME NEW w \in Workers, TakeJob(w) PROVE TypeOK'
    BY <1>11, TailFacts DEF TakeJob, generatorVars, mainVars
  <1>12. ASSUME NEW w \in Workers, Leave(w) PROVE TypeOK'
    BY <1>12, TailFacts DEF Leave, generatorVars, mainVars
  <1>13. ASSUME NEW w \in Workers, Spawn(w) PROVE TypeOK'
    BY <1>13 DEF Spawn, generatorVars, queueVars, mainVars
  <1>14. ASSUME NEW w \in Workers, Register(w) PROVE TypeOK'
    BY <1>14 DEF Register, generatorVars, queueVars, mainVars
  <1>15. ASSUME NEW w \in Workers, ReportJob(w) PROVE TypeOK'
    <2>1. job[w] \in Jobs
      BY <1>15 DEF ReportJob
    <2>2. completeQ' \in Seq(Jobs)
      BY <1>15, <2>1, AppendFacts DEF ReportJob
    <2>3. jobFailed' \subseteq Jobs
      BY <1>15, <2>1 DEF ReportJob
    <2>4. pc' \in [Workers -> {"get", "taken", "launch", "register", "run", "dead"}]
          /\ pc'[w] \in {"get", "dead"}
          /\ \A v \in Workers : v # w => pc'[v] = pc[v]
      BY <1>15 DEF ReportJob
    <2> QED
      BY <1>15, <2>2, <2>3, <2>4 DEF ReportJob, generatorVars, mainVars
  <1>16. ASSUME NEW w \in Workers, NEW outcome \in {"ok", "fail"},
                ProcessEnds(w, outcome)
         PROVE  TypeOK'
    BY <1>16 DEF ProcessEnds, generatorVars, queueVars, mainVars
  <1>17. CASE UNCHANGED vars
    BY <1>17 DEF vars, generatorVars, queueVars, mainVars, threadVars
  <1>18. ASSUME NEW w \in Workers, DropJob(w) \/ BeginJob(w) PROVE TypeOK'
    BY <1>18 DEF DropJob, BeginJob, generatorVars, queueVars, mainVars
  <1> QED
    BY <1>1, <1>2, <1>3, <1>4, <1>5, <1>6, <1>7, <1>8, <1>9, <1>10, <1>11,
       <1>12, <1>13, <1>14, <1>15, <1>16, <1>17, <1>18
    DEF Next, Main, Thread, Process, Gone

\* Spec keeps every state well typed.
THEOREM TypeCorrect == Spec => []TypeOK
  <1> QED
    BY TypeInit, TypeStep, PTL DEF Spec

----------------------------------------------------------------------------
(* The other conjuncts of the inductive invariant.                         *)

\* The part of the invariant that only concerns jobs, queues and threads.
JobsInv == /\ Partition /\ WantsBuilt
           /\ WorkQueueInv /\ CompleteQueueInv /\ ThreadInv
           /\ ProcessInv /\ FailureInv

\* The initial state satisfies the invariant.
LEMMA InvInit == Init => Inv
  <1> SUFFICES ASSUME Init PROVE Inv
    OBVIOUS
  <1>1. TypeOK
    BY TypeInit
  <1>2. Len(workQ) = 0 /\ Len(completeQ) = 0
    BY DEF Init
  <1> QED
    BY <1>1, <1>2
    DEF Init, Inv, Partition, WantsBuilt, WorkQueueInv, CompleteQueueInv,
        ThreadInv, ProcessInv, FailureInv, StopInv, Busy, FailedWants

\* A step that leaves jobs, queues and threads alone keeps JobsInv.
LEMMA MainOnly ==
    ASSUME JobsInv, UNCHANGED <<work, building, built, failed>>,
           UNCHANGED queueVars, UNCHANGED threadVars
    PROVE  JobsInv'
  BY DEF JobsInv, queueVars, threadVars, Partition, WantsBuilt, WorkQueueInv,
         CompleteQueueInv, ThreadInv, ProcessInv, FailureInv, Busy, FailedWants,
         Reported

\* Handing a job out: it is in work, so nowhere else, and its wants are built.
LEMMA SubmitInv ==
    ASSUME Inv, TypeOK', NEW j \in Jobs, SubmitJob(j)
    PROVE  Inv'
  <1>1. /\ j \in work /\ Wants[j] \subseteq built
        /\ j \notin building /\ j \notin built
    BY DEF Inv, SubmitJob, IsNextJob, Candidates, WithoutWants, Buildable, Partition
  <1>2. /\ workQ \in Seq(Jobs \union {None})
        /\ Len(workQ) \in Nat
        /\ Len(workQ') = Len(workQ) + 1
        /\ \A i \in 1..Len(workQ) : workQ'[i] = workQ[i]
        /\ workQ'[Len(workQ) + 1] = j
    BY AppendFacts DEF Inv, TypeOK, SubmitJob
  <1>3. Partition'
    BY <1>1 DEF Inv, SubmitJob, Partition
  <1>4. WantsBuilt'
    BY <1>1 DEF Inv, SubmitJob, WantsBuilt
  <1>5. WorkQueueInv'
    BY <1>1, <1>2 DEF Inv, SubmitJob, WorkQueueInv
  <1>6. CompleteQueueInv'
    BY <1>1, <1>2 DEF Inv, SubmitJob, CompleteQueueInv
  <1>7. ThreadInv'
    BY <1>1, <1>2 DEF Inv, SubmitJob, ThreadInv, threadVars, Busy
  <1>8. ProcessInv' /\ FailureInv'
    BY DEF Inv, SubmitJob, ProcessInv, FailureInv, threadVars, FailedWants, Reported
  <1>9. StopInv'
    <2>1. Queued(j)' # {}
      BY <1>2 DEF Queued
    <2>2. \A k \in Jobs : Queued(k) \subseteq Queued(k)'
      BY <1>2 DEF Queued
    <2>3. \A k \in Jobs : Held(k)' = Held(k) /\ Reported(k)' = Reported(k)
      BY DEF SubmitJob, threadVars, Held, Busy, Reported
    <2> QED
      BY <2>1, <2>2, <2>3 DEF Inv, SubmitJob, mainVars, threadVars, StopInv, TypeOK
  <1> QED
    BY <1>3, <1>4, <1>5, <1>6, <1>7, <1>8, <1>9 DEF Inv

\* Collecting a job takes it off the completion queue, where it was once.
LEMMA CollectInv ==
    ASSUME Inv, TypeOK', CollectJob
    PROVE  Inv'
  <1> DEFINE j == Head(completeQ)
  <1>1. /\ Len(completeQ) \in Nat \ {0}
        /\ j = completeQ[1]
        /\ Len(completeQ') = Len(completeQ) - 1
        /\ \A i \in 1..Len(completeQ') : completeQ'[i] = completeQ[i + 1]
    BY TailFacts DEF Inv, TypeOK, CollectJob
  <1>2. /\ built' = built \union {j}
        /\ building' = building \ {j}
        /\ failed' = IF j \in jobFailed THEN failed \union {j} ELSE failed
        /\ UNCHANGED <<work, workQ, jobFailed, pc, job, proc, child, stopping>>
    BY DEF CollectJob, threadVars
  <1> HIDE DEF j
  <1>3. /\ j \in building
        /\ \A i \in 1..Len(completeQ') : completeQ'[i] # j
    BY <1>1 DEF Inv, CompleteQueueInv
  <1>4. Partition'
    BY <1>2, <1>3 DEF Inv, Partition
  <1>5. WantsBuilt'
    BY <1>2, <1>3 DEF Inv, WantsBuilt
  <1>6. WorkQueueInv'
    BY <1>1, <1>2 DEF Inv, WorkQueueInv, CompleteQueueInv
  <1>7. CompleteQueueInv'
    BY <1>1, <1>2, <1>3 DEF Inv, CompleteQueueInv
  <1>8. ThreadInv'
    BY <1>1, <1>2 DEF Inv, ThreadInv, Busy
  <1>9. ProcessInv'
    <2>1. ASSUME NEW w \in Workers, proc[w] = "ok"
          PROVE  j \notin Wants[job[w]]
      <3>1. job[w] \in building
        BY <2>1 DEF Inv, ThreadInv, ProcessInv, Busy, TypeOK
      <3> QED
        BY <3>1, <1>3 DEF Inv, WantsBuilt, Partition
    <2> QED
      BY <1>2, <2>1 DEF Inv, ProcessInv, FailedWants
  <1>10. FailureInv'
    <2>1. failed' = (built \intersect jobFailed)'
      BY <1>2 DEF Inv, FailureInv
    <2>2. ASSUME NEW k \in jobFailed, k # j, Reported(k) # {}
          PROVE  Reported(k)' # {}
      <3>1. PICK i \in 1..Len(completeQ) : completeQ[i] = k
        BY <2>2 DEF Reported
      <3>2. i # 1 /\ i - 1 \in 1..Len(completeQ')
        BY <3>1, <2>2, <1>1
      <3>3. completeQ'[i - 1] = k
        BY <3>1, <3>2, <1>1
      <3> QED
        BY <3>2, <3>3 DEF Reported
    <2> QED
      BY <2>1, <2>2, <1>2 DEF Inv, FailureInv
  <1>11. StopInv'
    <2>1. ASSUME NEW k \in Jobs, k # j, Reported(k) # {}
          PROVE  Reported(k)' # {}
      <3>1. PICK i \in 1..Len(completeQ) : completeQ[i] = k
        BY <2>1 DEF Reported
      <3>2. i # 1 /\ i - 1 \in 1..Len(completeQ')
        BY <3>1, <2>1, <1>1
      <3>3. completeQ'[i - 1] = k
        BY <3>1, <3>2, <1>1
      <3> QED
        BY <3>2, <3>3 DEF Reported
    <2>2. \A k \in Jobs : Queued(k)' = Queued(k) /\ Held(k)' = Held(k)
      BY <1>2 DEF Queued, Held, Busy
    <2>3. ending' = ending /\ main \notin {"signal", "kill", "exited"}
          /\ main' \notin {"signal", "kill", "exited"}
      BY DEF CollectJob
    <2> QED
      BY <1>2, <2>1, <2>2, <2>3 DEF Inv, StopInv, TypeOK
  <1> QED
    BY <1>4, <1>5, <1>6, <1>7, <1>8, <1>9, <1>10, <1>11 DEF Inv

\* Queueing a None for a thread disturbs no job.
LEMMA StopSignalInv ==
    ASSUME Inv, TypeOK', StopSignal
    PROVE  Inv'
  <1>1. /\ Len(workQ) \in Nat
        /\ Len(workQ') = Len(workQ) + 1
        /\ \A i \in 1..Len(workQ) : workQ'[i] = workQ[i]
        /\ workQ'[Len(workQ) + 1] = None
    BY AppendFacts DEF Inv, TypeOK, StopSignal
  <1>2. /\ UNCHANGED <<work, building, built, failed, completeQ, jobFailed>>
        /\ UNCHANGED <<pc, job, proc, child>>
        /\ ending # "none" /\ ending' = ending /\ main' = "kill"
    BY DEF Inv, StopInv, StopSignal, generatorVars
  <1>3. /\ \A k \in 1..Len(completeQ) : completeQ[k] # None
        /\ \A w \in Workers : Busy(w) => job[w] # None
    BY DEF Inv, CompleteQueueInv, TypeOK, None, Jobs
  <1>4. Partition' /\ WantsBuilt' /\ ProcessInv' /\ FailureInv'
    BY <1>2 DEF Inv, Partition, WantsBuilt, ProcessInv, FailureInv, FailedWants,
                Reported
  <1>5. WorkQueueInv'
    BY <1>1, <1>2 DEF Inv, WorkQueueInv
  <1>6. CompleteQueueInv'
    <2>1. ASSUME NEW i \in 1..Len(workQ'), NEW k \in 1..Len(completeQ)
          PROVE  workQ'[i] # completeQ[k]
      <3>1. CASE i \in 1..Len(workQ)
        BY <1>1, <3>1 DEF Inv, CompleteQueueInv
      <3>2. CASE i = Len(workQ) + 1
        BY <1>1, <1>3, <3>2
      <3> QED
        BY <1>1, <3>1, <3>2
    <2> QED
      BY <1>2, <2>1 DEF Inv, CompleteQueueInv
  <1>7. ThreadInv'
    <2>1. \A w \in Workers : Busy(w)' = Busy(w) /\ job'[w] = job[w]
      BY <1>2 DEF Busy
    <2>2. ASSUME NEW w \in Workers, Busy(w), NEW i \in 1..Len(workQ')
          PROVE  workQ'[i] # job[w]
      BY <2>2, <1>1, <1>3 DEF Inv, ThreadInv
    <2> QED
      BY <1>2, <2>1, <2>2 DEF Inv, ThreadInv
  <1>8. StopInv'
    BY <1>2 DEF StopInv
  <1> QED
    BY <1>4, <1>5, <1>6, <1>7, <1>8 DEF Inv

\* Killing a recorded child makes it a failed one.
LEMMA StopKillInv ==
    ASSUME Inv, TypeOK', StopKill
    PROVE  Inv'
  <1>1. /\ UNCHANGED <<work, building, built, failed, workQ, completeQ, jobFailed>>
        /\ UNCHANGED <<pc, job, child, stopping, ending>>
        /\ main = "kill" /\ main' = "signal"
    BY DEF StopKill, generatorVars, queueVars
  <1>2. Partition' /\ WantsBuilt' /\ WorkQueueInv' /\ CompleteQueueInv'
        /\ ThreadInv' /\ FailureInv'
    BY <1>1 DEF Inv, Partition, WantsBuilt, WorkQueueInv, CompleteQueueInv,
                ThreadInv, FailureInv, Busy, Reported
  <1>3. ProcessInv'
    BY <1>1 DEF Inv, ProcessInv, FailedWants, StopKill, Killed, TypeOK
  <1>4. StopInv'
    BY <1>1 DEF Inv, StopInv
  <1> QED
    BY <1>2, <1>3, <1>4 DEF Inv

\* A thread takes the only queued copy of a job.
LEMMA TakeInv ==
    ASSUME Inv, TypeOK', NEW w \in Workers, TakeJob(w)
    PROVE  Inv'
  <1> PICK j : j = Head(workQ)
    OBVIOUS
  <1>1. /\ Len(workQ) \in Nat \ {0}
        /\ j = workQ[1]
        /\ Len(workQ') = Len(workQ) - 1
        /\ \A i \in 1..Len(workQ') : workQ'[i] = workQ[i + 1]
    BY TailFacts DEF Inv, TypeOK, TakeJob
  <1>2. /\ j # None /\ pc[w] = "get"
        /\ job' = [job EXCEPT ![w] = j]
        /\ pc' = [pc EXCEPT ![w] = "taken"]
        /\ UNCHANGED <<work, building, built, failed, completeQ, jobFailed>>
        /\ UNCHANGED <<proc, child, stopping, main, ending>>
    BY DEF TakeJob, generatorVars, mainVars
  <1>3. /\ j \in building
        /\ \A i \in 1..Len(workQ') : workQ'[i] # j
        /\ \A i \in 1..Len(completeQ) : completeQ[i] # j
        /\ \A v \in Workers : Busy(v) => job[v] # j
    BY <1>1, <1>2 DEF Inv, WorkQueueInv, CompleteQueueInv, ThreadInv
  <1>4. /\ Busy(w)' /\ job'[w] = j /\ ~Busy(w)
        /\ \A v \in Workers : v # w => Busy(v)' = Busy(v) /\ job'[v] = job[v]
    BY <1>2 DEF Inv, TypeOK, Busy
  <1>5. Partition' /\ WantsBuilt' /\ FailureInv'
    BY <1>2 DEF Inv, Partition, WantsBuilt, FailureInv, Reported
  <1>6. WorkQueueInv'
    BY <1>1, <1>2 DEF Inv, WorkQueueInv
  <1>7. CompleteQueueInv'
    BY <1>1, <1>2 DEF Inv, CompleteQueueInv
  <1>8. ThreadInv'
    <2>1. \A v \in Workers : v # w => job'[v] # j
      <3>1. \A v \in Workers : job[v] # j
        BY <1>2, <1>3 DEF Inv, TypeOK
      <3> QED
        BY <3>1, <1>4
    <2>2. ASSUME NEW i \in 1..Len(workQ'), NEW v \in Workers, Busy(v)
          PROVE  workQ'[i] # job[v]
      BY <2>2, <1>1 DEF Inv, ThreadInv
    <2>3. \A v \in Workers : Busy(v)' => job'[v] \in building'
      BY <1>2, <1>3, <1>4 DEF Inv, ThreadInv
    <2>4. \A v, u \in Workers : Busy(v)' /\ job'[v] = job'[u] => v = u
      BY <1>4, <2>1 DEF Inv, ThreadInv
    <2>5. ASSUME NEW v \in Workers, Busy(v)'
          PROVE  /\ \A i \in 1..Len(workQ') : workQ'[i] # job'[v]
                 /\ \A i \in 1..Len(completeQ') : completeQ'[i] # job'[v]
      BY <2>5, <1>2, <1>3, <1>4, <2>2 DEF Inv, ThreadInv
    <2> QED
      BY <2>3, <2>4, <2>5 DEF ThreadInv
  <1>9. ProcessInv'
    <2>1. proc[w] = "none" /\ ~child[w]
      BY <1>2 DEF Inv, ProcessInv, TypeOK
    <2> QED
      BY <1>2, <2>1 DEF Inv, ProcessInv, FailedWants, TypeOK
  <1>10. StopInv'
    <2>1. ASSUME NEW k \in Jobs
          PROVE  Held(k) \subseteq Held(k)' /\ Reported(k)' = Reported(k)
      <3>1. \A v \in Workers : Busy(v) /\ job[v] = k => Busy(v)' /\ job'[v] = k
        BY <1>4
      <3> QED
        BY <3>1, <1>2 DEF Held, Reported
    <2>2. w \in Held(j)'
      BY <1>4 DEF Held
    <2>3. ASSUME NEW k \in Jobs, k # j, Queued(k) # {}
          PROVE  Queued(k)' # {}
      <3>1. PICK i \in 1..Len(workQ) : workQ[i] = k
        BY <2>3 DEF Queued
      <3>2. i # 1 /\ i - 1 \in 1..Len(workQ') /\ workQ'[i - 1] = k
        BY <3>1, <2>3, <1>1
      <3> QED
        BY <3>2 DEF Queued
    <2>4. ASSUME NEW k \in building, ending = "none"
          PROVE  Queued(k)' # {} \/ Held(k)' # {} \/ Reported(k)' # {}
      <3>1. k \in Jobs /\ (Queued(k) # {} \/ Held(k) # {} \/ Reported(k) # {})
        BY <2>4 DEF Inv, StopInv, TypeOK
      <3>2. CASE k = j
        BY <3>2, <2>2
      <3>3. CASE k # j
        BY <3>1, <3>3, <2>1, <2>3
      <3> QED
        BY <3>2, <3>3
    <2> QED
      BY <1>2, <2>4 DEF Inv, StopInv
  <1> QED
    BY <1>5, <1>6, <1>7, <1>8, <1>9, <1>10 DEF Inv

\* A thread that leaves drops the None it took.
LEMMA LeaveInv ==
    ASSUME Inv, TypeOK', NEW w \in Workers, Leave(w)
    PROVE  Inv'
  <1>1. /\ Len(workQ) \in Nat \ {0}
        /\ Head(workQ) = workQ[1]
        /\ Len(workQ') = Len(workQ) - 1
        /\ \A i \in 1..Len(workQ') : workQ'[i] = workQ[i + 1]
    BY TailFacts DEF Inv, TypeOK, Leave
  <1>2. /\ workQ[1] = None
        /\ pc[w] = "get" /\ pc' = [pc EXCEPT ![w] = "dead"]
        /\ UNCHANGED <<work, building, built, failed, completeQ, jobFailed>>
        /\ UNCHANGED <<job, proc, child, stopping, main, ending>>
    BY <1>1 DEF Leave, generatorVars, mainVars
  <1>3. \A v \in Workers : Busy(v)' = Busy(v)
    BY <1>2 DEF Inv, TypeOK, Busy
  <1>4. Partition' /\ WantsBuilt' /\ FailureInv'
    BY <1>2 DEF Inv, Partition, WantsBuilt, FailureInv, Reported
  <1>5. WorkQueueInv'
    BY <1>1, <1>2 DEF Inv, WorkQueueInv
  <1>6. CompleteQueueInv'
    BY <1>1, <1>2 DEF Inv, CompleteQueueInv
  <1>7. ThreadInv'
    BY <1>1, <1>2, <1>3 DEF Inv, ThreadInv
  <1>8. ProcessInv'
    BY <1>2 DEF Inv, ProcessInv, FailedWants, TypeOK
  <1>9. StopInv'
    <2>1. \A k \in Jobs : Held(k)' = Held(k) /\ Reported(k)' = Reported(k)
      BY <1>2, <1>3 DEF Held, Reported
    <2>2. ASSUME NEW k \in Jobs, workQ[1] = None, Queued(k) # {}
          PROVE  Queued(k)' # {}
      <3>1. PICK i \in 1..Len(workQ) : workQ[i] = k
        BY <2>2 DEF Queued
      <3>2. i # 1
        BY <3>1, <2>2 DEF None, Jobs
      <3>3. i - 1 \in 1..Len(workQ') /\ workQ'[i - 1] = k
        BY <3>1, <3>2, <1>1
      <3> QED
        BY <3>3 DEF Queued
    <2> QED
      BY <1>2, <2>1, <2>2 DEF Inv, StopInv, TypeOK
  <1> QED
    BY <1>4, <1>5, <1>6, <1>7, <1>8, <1>9 DEF Inv

\* A thread drops a job only during a shutdown.
LEMMA DropInv ==
    ASSUME Inv, TypeOK', NEW w \in Workers, DropJob(w)
    PROVE  Inv'
  <1>1. /\ pc[w] = "taken" /\ ending # "none"
        /\ pc' = [pc EXCEPT ![w] = "dead"]
        /\ job' = [job EXCEPT ![w] = None]
        /\ UNCHANGED <<work, building, built, failed, workQ, completeQ, jobFailed>>
        /\ UNCHANGED <<proc, child, stopping, main, ending>>
    BY DEF Inv, StopInv, DropJob, GivesUp, generatorVars, queueVars, mainVars
  <1>2. /\ ~Busy(w)' /\ job'[w] = None
        /\ \A v \in Workers : v # w => Busy(v)' = Busy(v) /\ job'[v] = job[v]
    BY <1>1 DEF Inv, TypeOK, Busy
  <1>3. Partition' /\ WantsBuilt' /\ WorkQueueInv' /\ CompleteQueueInv' /\ FailureInv'
    BY <1>1 DEF Inv, Partition, WantsBuilt, WorkQueueInv, CompleteQueueInv,
                FailureInv, Reported
  <1>4. ThreadInv'
    <2>1. \A v \in Workers : Busy(v)' => v # w /\ Busy(v) /\ job'[v] = job[v] /\ job[v] # None
      BY <1>2 DEF Inv, TypeOK
    <2> QED
      BY <1>1, <1>2, <2>1 DEF Inv, ThreadInv
  <1>5. ProcessInv'
    <2>1. proc[w] = "none" /\ ~child[w]
      BY <1>1 DEF Inv, ProcessInv, TypeOK
    <2> QED
      BY <1>1, <2>1 DEF Inv, ProcessInv, FailedWants, TypeOK
  <1>6. StopInv'
    BY <1>1 DEF Inv, StopInv
  <1> QED
    BY <1>3, <1>4, <1>5, <1>6 DEF Inv

\* Going on with a job, starting its process and recording it move no job.
LEMMA SpawnInv ==
    ASSUME Inv, TypeOK', NEW w \in Workers, BeginJob(w) \/ Spawn(w) \/ Register(w)
    PROVE  Inv'
  <1>1. /\ UNCHANGED <<work, building, built, failed, workQ, completeQ, jobFailed>>
        /\ UNCHANGED <<job, stopping, main, ending>>
        /\ pc[w] \in {"taken", "launch", "register"}
        /\ \E next \in {"launch", "register", "run"} : pc' = [pc EXCEPT ![w] = next]
    BY DEF BeginJob, Spawn, Register, generatorVars, queueVars, mainVars
  <1>2. \A v \in Workers : Busy(v)' = Busy(v)
    BY <1>1 DEF Inv, TypeOK, Busy
  <1>3. Partition' /\ WantsBuilt' /\ WorkQueueInv' /\ CompleteQueueInv' /\ FailureInv'
    BY <1>1 DEF Inv, Partition, WantsBuilt, WorkQueueInv, CompleteQueueInv,
                FailureInv, Reported
  <1>4. ThreadInv'
    BY <1>1, <1>2 DEF Inv, ThreadInv
  <1>5. ProcessInv'
    BY DEF Inv, ProcessInv, FailedWants, TypeOK, BeginJob, Spawn, Register, generatorVars,
           queueVars, mainVars
  <1>6. StopInv'
    <2>1. \A k \in Jobs : /\ Held(k)' = Held(k)
                          /\ Queued(k)' = Queued(k) /\ Reported(k)' = Reported(k)
      BY <1>1, <1>2 DEF Held, Queued, Reported
    <2>2. ASSUME NEW k \in building, ending = "none"
          PROVE  Queued(k)' # {} \/ Held(k)' # {} \/ Reported(k)' # {}
      BY <2>1, <2>2 DEF Inv, StopInv, TypeOK
    <2> QED
      BY <1>1, <2>2 DEF Inv, StopInv
  <1> QED
    BY <1>3, <1>4, <1>5, <1>6 DEF Inv

\* A process ends well only after all the jobs its job wants.
LEMMA ProcessEndsInv ==
    ASSUME Inv, TypeOK', NEW w \in Workers, NEW outcome \in {"ok", "fail"},
           ProcessEnds(w, outcome)
    PROVE  Inv'
  <1>1. /\ UNCHANGED <<work, building, built, failed, workQ, completeQ, jobFailed>>
        /\ UNCHANGED <<pc, job, child, stopping, main, ending>>
    BY DEF ProcessEnds, generatorVars, queueVars, mainVars
  <1>2. Partition' /\ WantsBuilt' /\ WorkQueueInv' /\ CompleteQueueInv'
        /\ ThreadInv' /\ FailureInv'
    BY <1>1 DEF Inv, Partition, WantsBuilt, WorkQueueInv, CompleteQueueInv,
                ThreadInv, FailureInv, Busy, Reported
  <1>3. ProcessInv'
    BY <1>1 DEF Inv, ProcessInv, FailedWants, ProcessEnds, TypeOK
  <1>4. StopInv'
    BY <1>1 DEF Inv, StopInv, Queued, Held, Reported, Busy
  <1> QED
    BY <1>2, <1>3, <1>4 DEF Inv

\* Reporting a job moves it from its thread to the completion queue.
LEMMA ReportInv ==
    ASSUME Inv, TypeOK', NEW w \in Workers, ReportJob(w)
    PROVE  Inv'
  <1> PICK j : j = job[w]
    OBVIOUS
  <1>1. /\ Busy(w) /\ j \in Jobs /\ j \in building
    BY DEF Inv, ThreadInv, TypeOK, ReportJob, Busy, None
  <1>2. /\ Len(completeQ) \in Nat
        /\ Len(completeQ') = Len(completeQ) + 1
        /\ \A i \in 1..Len(completeQ) : completeQ'[i] = completeQ[i]
        /\ completeQ'[Len(completeQ) + 1] = j
    BY <1>1, AppendFacts DEF Inv, TypeOK, ReportJob
  <1>3. /\ jobFailed' = jobFailed \/ jobFailed' = jobFailed \union {j}
        /\ job' = [job EXCEPT ![w] = None]
        /\ proc' = [proc EXCEPT ![w] = "none"]
        /\ child' = [child EXCEPT ![w] = FALSE]
        /\ UNCHANGED <<work, building, built, failed, workQ, stopping, main, ending>>
    BY DEF ReportJob, generatorVars, mainVars
  <1>4. /\ ~Busy(w)' /\ pc'[w] \notin {"register", "run"}
        /\ \A v \in Workers : v # w =>
              Busy(v)' = Busy(v) /\ job'[v] = job[v] /\ pc'[v] = pc[v]
    BY DEF Inv, TypeOK, ReportJob, Busy
  <1>5. /\ \A i \in 1..Len(workQ) : workQ[i] # j
        /\ \A i \in 1..Len(completeQ) : completeQ[i] # j
        /\ \A v \in Workers : Busy(v) /\ job[v] = j => v = w
    BY <1>1 DEF Inv, ThreadInv
  <1>6. Partition' /\ WantsBuilt' /\ WorkQueueInv'
    BY <1>3 DEF Inv, Partition, WantsBuilt, WorkQueueInv
  <1>7. CompleteQueueInv'
    <2>1. ASSUME NEW i \in 1..Len(completeQ')
          PROVE  completeQ'[i] \in building /\ (completeQ'[i] = j <=> i = Len(completeQ) + 1)
      BY <1>1, <1>2, <1>5 DEF Inv, CompleteQueueInv
    <2>2. ASSUME NEW i \in 1..Len(completeQ'), NEW k \in 1..Len(completeQ'),
                 completeQ'[i] = completeQ'[k]
          PROVE  i = k
      BY <2>1, <2>2, <1>2 DEF Inv, CompleteQueueInv
    <2>3. ASSUME NEW i \in 1..Len(workQ), NEW k \in 1..Len(completeQ')
          PROVE  workQ[i] # completeQ'[k]
      BY <1>2, <1>5 DEF Inv, CompleteQueueInv
    <2> QED
      BY <2>1, <2>2, <2>3, <1>3 DEF CompleteQueueInv
  <1>8. ThreadInv'
    <2>1. \A v \in Workers : Busy(v)' => v # w /\ Busy(v) /\ job'[v] = job[v] /\ job[v] # j
      BY <1>4, <1>5
    <2>2. job'[w] = None /\ \A v \in Workers : Busy(v) => job[v] # None
      BY <1>3 DEF Inv, TypeOK
    <2>3. \A v, u \in Workers : Busy(v)' /\ job'[v] = job'[u] => v = u
      BY <1>4, <2>1, <2>2 DEF Inv, ThreadInv
    <2>4. ASSUME NEW v \in Workers, Busy(v)', NEW i \in 1..Len(completeQ')
          PROVE  completeQ'[i] # job'[v]
      BY <2>1, <2>4, <1>2 DEF Inv, ThreadInv
    <2> QED
      BY <1>3, <2>1, <2>3, <2>4 DEF Inv, ThreadInv
  <1>9. ProcessInv'
    BY <1>3, <1>4 DEF Inv, ProcessInv, FailedWants, TypeOK
  <1>10. FailureInv'
    <2>1. j \notin built
      BY <1>1 DEF Inv, Partition
    <2>2. Reported(j)' # {}
      BY <1>2 DEF Reported
    <2>3. \A k : Reported(k) \subseteq Reported(k)'
      BY <1>2 DEF Reported
    <2> QED
      BY <1>3, <2>1, <2>2, <2>3 DEF Inv, FailureInv
  <1>11. StopInv'
    <2>1. Reported(j)' # {}
      BY <1>2 DEF Reported
    <2>2. \A k \in Jobs : Reported(k) \subseteq Reported(k)' /\ Queued(k)' = Queued(k)
      BY <1>2, <1>3 DEF Reported, Queued
    <2>3. ASSUME NEW k \in Jobs, k # j
          PROVE  Held(k) \subseteq Held(k)'
      <3>1. \A v \in Workers : Busy(v) /\ job[v] = k => Busy(v)' /\ job'[v] = k
        BY <2>3, <1>4
      <3> QED
        BY <3>1 DEF Held
    <2>4. ASSUME NEW k \in building, ending = "none"
          PROVE  Queued(k)' # {} \/ Held(k)' # {} \/ Reported(k)' # {}
      <3>1. k \in Jobs /\ (Queued(k) # {} \/ Held(k) # {} \/ Reported(k) # {})
        BY <2>4 DEF Inv, StopInv, TypeOK
      <3> QED
        BY <3>1, <2>1, <2>2, <2>3
    <2> QED
      BY <1>3, <2>4 DEF Inv, StopInv
  <1> QED
    BY <1>6, <1>7, <1>8, <1>9, <1>10, <1>11 DEF Inv

\* Every step keeps the invariant.
LEMMA InvStep == Inv /\ [Next]_vars => Inv'
  <1> SUFFICES ASSUME Inv, [Next]_vars PROVE Inv'
    OBVIOUS
  <1>1. TypeOK'
    BY TypeStep DEF Inv
  <1>2. ASSUME NEW j \in Jobs, SubmitJob(j) PROVE Inv'
    BY <1>1, <1>2, SubmitInv
  <1>3. CASE \/ AwaitActive \/ FinishBuild \/ RemoveDone \/ Exit \/ Interrupt
             \/ \E p \in Packages : RemovePackage(p)
             \/ UNCHANGED vars
    <2>1. /\ UNCHANGED <<work, building, built, failed>>
          /\ UNCHANGED queueVars /\ UNCHANGED threadVars
      BY <1>3 DEF AwaitActive, FinishBuild, RemoveDone, Exit, Interrupt,
                  RemovePackage, vars, generatorVars
    <2>2. JobsInv'
      BY <2>1, MainOnly DEF Inv, JobsInv
    <2>3. main' \in {"signal", "kill", "exited"} <=> ending' # "none"
      BY <1>3 DEF Inv, StopInv, TypeOK, AwaitActive, FinishBuild, RemoveDone, Exit,
                  Interrupt, RemovePackage, vars, mainVars
    <2>4. ending = "none" \/ ending' # "none"
      BY <1>3 DEF AwaitActive, FinishBuild, RemoveDone, Exit, Interrupt,
                  RemovePackage, vars, mainVars
    <2>5. StopInv'
      BY <2>1, <2>3, <2>4 DEF Inv, StopInv, queueVars, threadVars, Queued, Held,
                              Reported, Busy
    <2> QED
      BY <1>1, <2>2, <2>5 DEF Inv, JobsInv
  <1>4. CASE CollectJob
    BY <1>1, <1>4, CollectInv
  <1>5. CASE StopSignal
    BY <1>1, <1>5, StopSignalInv
  <1>6. CASE StopKill
    BY <1>1, <1>6, StopKillInv
  <1>7. ASSUME NEW w \in Workers, Thread(w) PROVE Inv'
    <2>1. CASE TakeJob(w)
      BY <1>1, <2>1, TakeInv
    <2>2. CASE Leave(w)
      BY <1>1, <2>2, LeaveInv
    <2>3. CASE BeginJob(w) \/ Spawn(w) \/ Register(w)
      BY <1>1, <2>3, SpawnInv
    <2>5. CASE DropJob(w)
      BY <1>1, <2>5, DropInv
    <2>4. CASE ReportJob(w)
      BY <1>1, <2>4, ReportInv
    <2> QED
      BY <1>7, <2>1, <2>2, <2>3, <2>4, <2>5 DEF Thread
  <1>8. ASSUME NEW w \in Workers, Process(w) PROVE Inv'
    <2>1. PICK outcome \in {"ok", "fail"} : ProcessEnds(w, outcome)
      BY <1>8 DEF Process
    <2> QED
      BY <1>1, <2>1, ProcessEndsInv
  <1> QED
    BY <1>2, <1>3, <1>4, <1>5, <1>6, <1>7, <1>8 DEF Next, Main, Gone

\* Inv is an invariant of the specification.
THEOREM Invariant == Spec => []Inv
  <1> QED
    BY InvInit, InvStep, PTL DEF Spec

----------------------------------------------------------------------------
(* Consequences.                                                           *)

\* No job is lost or run twice between the queues and the threads.
THEOREM OnePlace == Spec => []EveryJobInOnePlace
  <1>1. Inv => EveryJobInOnePlace
    <2> SUFFICES ASSUME Inv PROVE EveryJobInOnePlace
      OBVIOUS
    <2>1. ASSUME NEW j \in Jobs, NEW p \in Places(j), NEW q \in Places(j)
          PROVE  p = q /\ j \in building
      <3>1. j # None
        BY DEF Jobs, None
      <3>2. \A i, k \in Queued(j) : i = k /\ j \in building
        BY <3>1 DEF Inv, WorkQueueInv, Queued
      <3>3. \A v, w \in Held(j) : v = w /\ j \in building
        BY DEF Inv, ThreadInv, Held
      <3>4. \A i, k \in Reported(j) : i = k /\ j \in building
        BY DEF Inv, CompleteQueueInv, Reported
      <3>5. /\ Queued(j) = {} \/ Held(j) = {}
            /\ Queued(j) = {} \/ Reported(j) = {}
            /\ Held(j) = {} \/ Reported(j) = {}
        BY DEF Inv, ThreadInv, CompleteQueueInv, Queued, Held, Reported
      <3> QED
        BY <3>2, <3>3, <3>4, <3>5 DEF Places
    <2>2. ASSUME ending = "none", NEW j \in building
          PROVE  Places(j) # {}
      BY <2>2 DEF Inv, StopInv, Places
    <2> QED
      BY <2>1, <2>2 DEF Inv, Partition, EveryJobInOnePlace
  <1> QED
    BY <1>1, Invariant, PTL

\* When the build reports success, or has drained its active jobs, nothing is
\* active any more; after a success nothing is left and nothing has failed.
FinalInv ==
    /\ ending = "done" \/ (ending = "failed" /\ ~FailImmediately) => building = {}
    /\ ending = "done" => work = {} /\ jobFailed = {}

\* FinalInv is inductive relative to Inv: what a reported end says stays true.
LEMMA FinalStep == Inv /\ FinalInv /\ [Next]_vars => FinalInv'
  <1> SUFFICES ASSUME Inv, FinalInv, [Next]_vars PROVE FinalInv'
    OBVIOUS
  <1>1. CASE FinishBuild
    <2>1. /\ UNCHANGED <<work, building, failed, jobFailed>>
          /\ ending' = IF failed = {} THEN "done" ELSE "failed"
          /\ BuildOver
      BY <1>1 DEF FinishBuild, generatorVars, queueVars
    <2>2. CASE failed = {}
      <3>1. work = {} /\ building = {}
        BY <2>1, <2>2 DEF BuildOver, Halted
      <3>2. jobFailed = {}
        BY <2>2, <3>1 DEF Inv, FailureInv, CompleteQueueInv, Reported
      <3> QED
        BY <2>1, <3>1, <3>2 DEF FinalInv
    <2>3. CASE failed # {}
      <3>1. building = {} \/ FailImmediately
        BY <2>1 DEF BuildOver
      <3> QED
        BY <2>1, <2>3, <3>1 DEF FinalInv
    <2> QED
      BY <2>2, <2>3
  <1>2. CASE CollectJob \/ \E j \in Jobs : SubmitJob(j)
    <2>1. ending = "none" /\ ending' = "none"
      BY <1>2 DEF Inv, StopInv, CollectJob, SubmitJob, mainVars
    <2> QED
      BY <2>1 DEF FinalInv
  <1>3. ASSUME NEW w \in Workers, ReportJob(w) PROVE FinalInv'
    <2>1. building # {}
      BY <1>3 DEF Inv, ThreadInv, ReportJob, Busy
    <2>2. UNCHANGED <<building, ending>>
      BY <1>3 DEF ReportJob, generatorVars, mainVars
    <2> QED
      BY <2>1, <2>2 DEF FinalInv
  <1>4. CASE Interrupt
    BY <1>4 DEF Interrupt, FinalInv
  <1>5. CASE UNCHANGED <<work, building, jobFailed, ending>>
    BY <1>5 DEF FinalInv
  <1>6. ASSUME \/ AwaitActive \/ RemoveDone \/ Exit \/ StopSignal \/ StopKill
               \/ \E p \in Packages : RemovePackage(p)
               \/ \E w \in Workers : TakeJob(w) \/ Leave(w) \/ DropJob(w) \/ BeginJob(w)
               \/ \E w \in Workers : Spawn(w) \/ Register(w)
               \/ \E w \in Workers : \E o \in {"ok", "fail"} : ProcessEnds(w, o)
               \/ UNCHANGED vars
        PROVE  UNCHANGED <<work, building, jobFailed, ending>>
    BY <1>6 DEF AwaitActive, RemoveDone, Exit, StopSignal, StopKill, RemovePackage,
        TakeJob, Leave, DropJob, BeginJob, Spawn, Register, ProcessEnds, vars, generatorVars,
        queueVars, mainVars
  <1> QED
    BY <1>1, <1>2, <1>3, <1>4, <1>5, <1>6 DEF Next, Main, Thread, Process, Gone

\* Success is reported only for a complete build without a failure.
THEOREM ExitStatusHolds == Spec => []ExitStatus
  <1>1. Init => FinalInv
    BY DEF Init, FinalInv
  <1>2. Inv /\ FinalInv => ExitStatus
    BY DEF Inv, Partition, FinalInv, ExitStatus
  <1> QED
    BY <1>1, <1>2, FinalStep, Invariant, PTL DEF Spec

\* With --fail-after-active a failure is reported only after the active jobs.
THEOREM DrainedHolds == Spec => []DrainedBeforeExit
  <1>1. Init => FinalInv
    BY DEF Init, FinalInv
  <1>2. Inv /\ FinalInv => DrainedBeforeExit
    <2> SUFFICES ASSUME Inv, FinalInv, ~FailImmediately, ending \in {"done", "failed"}
                 PROVE  /\ \A w \in Workers : ~Busy(w) /\ proc[w] = "none"
                        /\ \A j \in Jobs : Queued(j) = {} /\ Reported(j) = {}
      BY DEF DrainedBeforeExit
    <2>1. building = {}
      BY DEF FinalInv
    <2> QED
      BY <2>1 DEF Inv, ThreadInv, ProcessInv, WorkQueueInv, CompleteQueueInv, Busy,
                  Queued, Reported, Jobs, None
  <1> QED
    BY <1>1, <1>2, FinalStep, Invariant, PTL DEF Spec

----------------------------------------------------------------------------
(* Source directories.                                                     *)

\* The references to p nobody has given back: all those of a job still to be
\* collected, and a collected job's except what completed() took off.
HeldRefs(p) ==
    {r \in Jobs \X UnpackChains :
        /\ r[2] \in RefsTo(r[1], p)
        /\ r[1] \in built => r[2] \notin ReleasedRefs(r[1], p)}

\* The counter of a package counts them.
CountInv == \A p \in Packages : refcount[p] = Cardinality(HeldRefs(p))

\* What has been removed was a collected job's and is referenced no more.
RemovedInv ==
    /\ main = "remove" => current \in built
    /\ \A p \in removed :
           /\ p \notin Virtual /\ refcount[p] = 0
           /\ \E j \in built : p \in SourcesOf(j)

\* A directory whose counter reached zero is removed, or about to be.
Removing == IF main = "remove" THEN SourcesOf(current) ELSE {}
LeftInv ==
    AutoRemove /\ main \in {"queue", "collect", "remove"} =>
        \A j \in built : \A p \in SourcesOf(j) \ Virtual :
            refcount[p] = 0 => p \in removed \union Removing

SourceInv == CountInv /\ RemovedInv /\ LeftInv

\* There are finitely many references to count.
LEMMA HeldFinite ==
    ASSUME NEW S \in SUBSET (Jobs \X UnpackChains)
    PROVE  IsFiniteSet(S) /\ Cardinality(S) \in Nat
  <1>1. IsFiniteSet(Jobs)
    BY PlanAssumption, FS_Interval DEF Jobs
  <1>2. IsFiniteSet(Jobs \X UnpackChains)
    BY <1>1, ChainsFinite, FS_Product
  <1> QED
    BY <1>2, FS_Subset, FS_CardinalityType

\* A job has sources in Packages only.
LEMMA SourceIsPackage ==
    ASSUME NEW j
    PROVE  /\ SourcesOf(j) \subseteq Packages
           /\ \A p \in SourcesOf(j) : \E c \in UnpackChains : c \in RefsTo(j, p)
  BY ChainType DEF SourcesOf, RefsTo, References

\* A package with counter zero is no source of a job still to be collected,
\* nor the package of a failed job.
LEMMA ZeroCount ==
    ASSUME Inv, CountInv, NEW p \in Packages, refcount[p] = 0
    PROVE  /\ \A j \in Jobs \ built : p \notin SourcesOf(j)
           /\ \A j \in failed : p # PkgOf[j]
  <1>1. HeldRefs(p) = {}
    <2>1. HeldRefs(p) \subseteq Jobs \X UnpackChains
      BY DEF HeldRefs
    <2> QED
      BY <2>1, HeldFinite, FS_EmptySet DEF CountInv
  <1>2. ASSUME NEW j \in Jobs \ built, p \in SourcesOf(j)
        PROVE  FALSE
    <2>1. PICK c \in UnpackChains : c \in RefsTo(j, p)
      BY <1>2, SourceIsPackage
    <2>2. <<j, c>> \in HeldRefs(p)
      BY <2>1 DEF HeldRefs
    <2> QED
      BY <1>1, <2>2
  <1>3. ASSUME NEW j \in failed, p = PkgOf[j]
        PROVE  FALSE
    <2>1. j \in Jobs /\ j \in jobFailed
      BY DEF Inv, TypeOK, FailureInv
    <2>2. <<p>> \in RefsTo(j, p) /\ <<p>> \notin ReleasedRefs(j, p)
      BY <1>3, <2>1, OwnChain DEF RefsTo, References, ReleasedRefs
    <2>3. <<j, <<p>>>> \in HeldRefs(p)
      BY <2>1, <2>2, OwnChain DEF HeldRefs
    <2> QED
      BY <1>1, <2>3
  <1> QED
    BY <1>2, <1>3

\* Conversely the package of failed jobs only is all that stays counted.
LEMMA AllCollected ==
    ASSUME Inv, CountInv, built = Jobs, NEW p \in Packages,
           \A j \in failed : p # PkgOf[j]
    PROVE  refcount[p] = 0
  <1>1. ASSUME NEW r \in HeldRefs(p)
        PROVE  FALSE
    <2>1. /\ r[1] \in Jobs /\ r[2] \in UnpackChains
          /\ r[2] \in RefsTo(r[1], p) /\ r[2] \notin ReleasedRefs(r[1], p)
      BY DEF HeldRefs
    <2>2. Len(r[2]) = 1 /\ r[1] \in jobFailed
      BY <2>1 DEF ReleasedRefs
    <2>3. r[1] \in failed /\ p = PkgOf[r[1]]
      BY <2>1, <2>2 DEF Inv, FailureInv, RefsTo, References
    <2> QED
      BY <2>3
  <1> QED
    BY <1>1, FS_EmptySet DEF CountInv

\* At the start every reference is held and nothing has been removed.
LEMMA SourceInit == Init => SourceInv
  <1> SUFFICES ASSUME Init PROVE SourceInv
    OBVIOUS
  <1>1. ASSUME NEW p \in Packages
        PROVE  HeldRefs(p) = {r \in Jobs \X UnpackChains : r[2] \in RefsTo(r[1], p)}
    BY DEF Init, HeldRefs
  <1> QED
    BY <1>1 DEF Init, SourceInv, CountInv, RemovedInv, LeftInv

\* Collecting a job takes exactly the references it gives back off the counts,
\* and only a package of the job can reach zero by it.
LEMMA CollectSource ==
    ASSUME Inv, SourceInv, CollectJob
    PROVE  SourceInv'
  <1> DEFINE j == Head(completeQ)
             Back(p) == {j} \X ReleasedRefs(j, p)
  <1>1. /\ j \in building /\ j \in Jobs /\ j \notin built
        /\ built' = built \union {j} /\ current' = j
        /\ \A p \in Packages :
              refcount'[p] = refcount[p] - Cardinality(ReleasedRefs(j, p))
        /\ UNCHANGED <<removed, jobFailed>>
        /\ main = "collect"
        /\ main' = IF AutoRemove THEN "remove" ELSE "queue"
    BY TailFacts DEF Inv, TypeOK, CollectJob, CompleteQueueInv, Partition
  <1> HIDE DEF j
  <1>2. \A k, p : ReleasedRefs(k, p)' = ReleasedRefs(k, p)
    BY <1>1 DEF ReleasedRefs
  <1>3. ASSUME NEW p \in Packages
        PROVE  /\ Back(p) \subseteq HeldRefs(p)
               /\ HeldRefs(p)' = HeldRefs(p) \ Back(p)
               /\ Cardinality(Back(p)) = Cardinality(ReleasedRefs(j, p))
               /\ refcount[p] \in Nat
               /\ IsFiniteSet(ReleasedRefs(j, p))
    <2>1. ReleasedRefs(j, p) \subseteq RefsTo(j, p) /\ RefsTo(j, p) \subseteq UnpackChains
      BY DEF ReleasedRefs, RefsTo, References
    <2>2. Back(p) \subseteq HeldRefs(p)
      BY <1>1, <2>1 DEF HeldRefs
    <2>3. HeldRefs(p)' = HeldRefs(p) \ Back(p)
      <3>1. ASSUME NEW r \in Jobs \X UnpackChains
            PROVE  r \in Back(p) <=> r[1] = j /\ r[2] \in ReleasedRefs(j, p)
        OBVIOUS
      <3> QED
        BY <1>1, <1>2, <3>1 DEF HeldRefs
    <2>4. IsFiniteSet({j}) /\ Cardinality({j}) = 1
      BY FS_Singleton
    <2>5. /\ IsFiniteSet(ReleasedRefs(j, p))
          /\ Cardinality(ReleasedRefs(j, p)) \in Nat
      BY ReferencesFinite
    <2>6. Cardinality(Back(p)) = Cardinality(ReleasedRefs(j, p))
      <3>1. Cardinality({j} \X ReleasedRefs(j, p))
              = Cardinality({j}) * Cardinality(ReleasedRefs(j, p))
        BY <2>4, <2>5, FS_Product
      <3> QED
        BY <2>4, <2>5, <3>1
    <2>7. HeldRefs(p) \subseteq Jobs \X UnpackChains
      BY DEF HeldRefs
    <2> QED
      BY <2>2, <2>3, <2>5, <2>6, <2>7, HeldFinite DEF SourceInv, CountInv
  <1>4. CountInv'
    <2>1. ASSUME NEW p \in Packages
          PROVE  refcount'[p] = Cardinality(HeldRefs(p)')
      <3>1. HeldRefs(p) \subseteq Jobs \X UnpackChains
        BY DEF HeldRefs
      <3>2. IsFiniteSet(HeldRefs(p))
        BY <3>1, HeldFinite
      <3>3. HeldRefs(p) \intersect Back(p) = Back(p)
        BY <1>3
      <3>4. Cardinality(HeldRefs(p) \ Back(p))
              = Cardinality(HeldRefs(p)) - Cardinality(Back(p))
        BY <3>2, <3>3, FS_Difference
      <3> QED
        BY <1>1, <1>3, <3>4 DEF SourceInv, CountInv
    <2> QED
      BY <2>1 DEF CountInv
  <1>5. ASSUME NEW p \in Packages, refcount[p] = 0
        PROVE  refcount'[p] = 0 /\ p \notin SourcesOf(j)
    <2>1. p \notin SourcesOf(j)
      BY <1>1, <1>5, ZeroCount DEF SourceInv
    <2>2. ReleasedRefs(j, p) = {}
      BY <2>1 DEF ReleasedRefs, RefsTo, SourcesOf
    <2> QED
      BY <1>1, <1>5, <2>1, <2>2, FS_EmptySet
  <1>6. RemovedInv'
    BY <1>1, <1>5 DEF Inv, TypeOK, SourceInv, RemovedInv, SourcesOf, References
  <1>7. ASSUME NEW p \in Packages, p \notin SourcesOf(j)
        PROVE  refcount'[p] = refcount[p]
    <2>1. ReleasedRefs(j, p) = {}
      BY <1>7 DEF ReleasedRefs, RefsTo, SourcesOf
    <2> QED
      <3>1. Cardinality(ReleasedRefs(j, p)) = 0
        BY <2>1, FS_EmptySet
      <3>2. refcount[p] \in Nat
        BY <1>3
      <3> QED
        BY <1>1, <3>1, <3>2
  <1>8. LeftInv'
    <2> SUFFICES ASSUME AutoRemove, NEW k \in built', NEW p \in SourcesOf(k) \ Virtual,
                        refcount'[p] = 0
                 PROVE  p \in (removed \union Removing)'
      BY DEF LeftInv, SourcesOf, References
    <2>1. p \in Packages
      BY SourceIsPackage
    <2>2. Removing' = SourcesOf(j)
      BY <1>1 DEF Removing, SourcesOf, References
    <2>3. CASE p \in SourcesOf(j)
      BY <2>2, <2>3
    <2>4. CASE p \notin SourcesOf(j)
      <3>1. k \in built /\ refcount[p] = 0
        BY <1>1, <1>7, <2>1, <2>4
      <3> QED
        BY <1>1, <3>1 DEF SourceInv, LeftInv, Removing
    <2> QED
      BY <2>3, <2>4
  <1> QED
    BY <1>4, <1>6, <1>8 DEF SourceInv

\* A failure that is reported concerns a job not collected yet: what collected
\* jobs have given back stays what it was.
LEMMA ReportSource ==
    ASSUME Inv, SourceInv, NEW w \in Workers, ReportJob(w)
    PROVE  SourceInv'
  <1>1. job[w] \in building /\ job[w] \notin built
    BY DEF Inv, ThreadInv, Partition, ReportJob, Busy
  <1>2. /\ UNCHANGED <<built, refcount, removed, main, current>>
        /\ jobFailed' \in {jobFailed, jobFailed \union {job[w]}}
    BY DEF ReportJob, generatorVars, mainVars
  <1>3. ASSUME NEW p \in Packages
        PROVE  HeldRefs(p)' = HeldRefs(p)
    <2>1. \A k \in built : ReleasedRefs(k, p)' = ReleasedRefs(k, p)
      BY <1>1, <1>2 DEF ReleasedRefs
    <2> QED
      BY <1>2, <2>1 DEF HeldRefs
  <1>4. CountInv'
    BY <1>2, <1>3 DEF SourceInv, CountInv
  <1> QED
    BY <1>2, <1>4 DEF SourceInv, RemovedInv, LeftInv, Removing

\* A step that leaves the collected jobs, the counters and what has been
\* removed alone, and starts or ends no removal, keeps SourceInv.
LEMMA SourceFrame ==
    ASSUME SourceInv, UNCHANGED <<built, refcount, removed, jobFailed, current>>,
           \/ main' = main
           \/ main' \in {"queue", "collect"} /\ main \in {"queue", "collect"}
           \/ main' \notin {"queue", "collect", "remove"}
    PROVE  SourceInv'
  <1>1. CountInv'
    BY DEF SourceInv, CountInv, HeldRefs, ReleasedRefs
  <1>2. RemovedInv'
    BY DEF SourceInv, RemovedInv
  <1>3. LeftInv'
    BY DEF SourceInv, LeftInv, Removing
  <1> QED
    BY <1>1, <1>2, <1>3 DEF SourceInv

\* SourceInv is inductive relative to Inv.
LEMMA SourceStep == Inv /\ SourceInv /\ [Next]_vars => SourceInv'
  <1> SUFFICES ASSUME Inv, SourceInv, [Next]_vars PROVE SourceInv'
    OBVIOUS
  <1>1. CASE CollectJob
    BY <1>1, CollectSource
  <1>2. ASSUME NEW p \in Packages, RemovePackage(p) PROVE SourceInv'
    <2>1. /\ main = "remove" /\ p \in PackagesToRemove(current)
          /\ removed' = removed \union {p}
          /\ UNCHANGED <<built, refcount, jobFailed, main, current>>
      BY <1>2 DEF RemovePackage, queueVars, mainVars
    <2>2. CountInv'
      BY <2>1 DEF SourceInv, CountInv, HeldRefs, ReleasedRefs
    <2>3. RemovedInv'
      BY <2>1 DEF SourceInv, RemovedInv, PackagesToRemove
    <2>4. LeftInv'
      BY <2>1 DEF SourceInv, LeftInv, Removing
    <2> QED
      BY <2>2, <2>3, <2>4 DEF SourceInv
  <1>3. CASE RemoveDone
    <2>1. /\ main = "remove" /\ main' = "queue" /\ PackagesToRemove(current) = {}
          /\ UNCHANGED <<built, refcount, removed, jobFailed, current>>
      BY <1>3 DEF RemoveDone, generatorVars, queueVars
    <2>2. CountInv' /\ RemovedInv'
      BY <2>1 DEF SourceInv, CountInv, HeldRefs, ReleasedRefs, RemovedInv
    <2>3. LeftInv'
      BY <2>1 DEF SourceInv, LeftInv, Removing, PackagesToRemove
    <2> QED
      BY <2>2, <2>3 DEF SourceInv
  <1>4. ASSUME NEW w \in Workers, ReportJob(w) PROVE SourceInv'
    BY <1>4, ReportSource
  <1>5. CASE AwaitActive \/ FinishBuild \/ Exit \/ Interrupt \/ StopSignal \/ StopKill
    <2>1. UNCHANGED <<built, refcount, removed, jobFailed, current>>
      BY <1>5 DEF AwaitActive, FinishBuild, Exit, Interrupt, StopSignal, StopKill,
                  generatorVars, queueVars
    <2>2. \/ main' \in {"queue", "collect"} /\ main \in {"queue", "collect"}
          \/ main' \notin {"queue", "collect", "remove"}
      BY <1>5 DEF AwaitActive, FinishBuild, Exit, Interrupt, StopSignal, StopKill
    <2> QED
      BY <2>1, <2>2, SourceFrame
  <1>6. ASSUME \/ \E j \in Jobs : SubmitJob(j)
               \/ \E w \in Workers : TakeJob(w) \/ Leave(w) \/ DropJob(w) \/ BeginJob(w)
               \/ \E w \in Workers : Spawn(w) \/ Register(w)
               \/ \E w \in Workers : \E o \in {"ok", "fail"} : ProcessEnds(w, o)
               \/ UNCHANGED vars
        PROVE  UNCHANGED <<built, refcount, removed, jobFailed, current, main>>
    BY <1>6 DEF SubmitJob, TakeJob, Leave, DropJob, BeginJob, Spawn, Register, ProcessEnds, vars,
                generatorVars, queueVars, mainVars
  <1> QED
    BY <1>1, <1>2, <1>3, <1>4, <1>5, <1>6, SourceFrame
    DEF Next, Main, Thread, Process, Gone

\* SourceInv holds in every state.
THEOREM SourceInvariant == Spec => []SourceInv
  <1> QED
    BY SourceInit, SourceStep, Invariant, PTL DEF Spec

\* Removal takes no directory that a job still to be collected unpacks, nor
\* the one of a failed job.
THEOREM SourcesKeptHolds == Spec => []SourcesKept
  <1>1. Inv /\ SourceInv => SourcesKept
    <2> SUFFICES ASSUME Inv, SourceInv PROVE SourcesKept
      OBVIOUS
    <2>1. ASSUME NEW p \in removed
          PROVE  /\ \A j \in Jobs \ built : p \notin SourcesOf(j)
                 /\ \A j \in failed : p # PkgOf[j]
      BY ZeroCount DEF SourceInv, RemovedInv, Inv, TypeOK
    <2> QED
      BY <2>1 DEF SourcesKept
  <1> QED
    BY <1>1, SourceInvariant, Invariant, PTL

\* When every job has been collected, exactly the directories of virtual
\* packages and of failed jobs are left.
THEOREM RemovalExactHolds == Spec => []RemovalExact
  <1>1. Inv /\ SourceInv => RemovalExact
    <2> SUFFICES ASSUME Inv, SourceInv, AutoRemove, main = "queue",
                        work = {}, building = {}
                 PROVE  removed = (UNION {SourcesOf(j) : j \in Jobs})
                                    \ (Virtual \union {PkgOf[j] : j \in failed})
      BY DEF RemovalExact
    <2>1. built = Jobs
      BY DEF Inv, Partition
    <2>2. ASSUME NEW p \in removed
          PROVE  /\ p \in UNION {SourcesOf(j) : j \in Jobs}
                 /\ p \notin Virtual /\ \A j \in failed : p # PkgOf[j]
      BY <2>1, ZeroCount DEF SourceInv, RemovedInv, Inv, TypeOK
    <2>3. ASSUME NEW j \in Jobs, NEW p \in SourcesOf(j), p \notin Virtual,
                 \A k \in failed : p # PkgOf[k]
          PROVE  p \in removed
      <3>1. p \in Packages
        BY SourceIsPackage
      <3>2. refcount[p] = 0
        BY <2>1, <2>3, <3>1, AllCollected DEF SourceInv
      <3> QED
        BY <2>1, <2>3, <3>2 DEF SourceInv, LeftInv, Removing
    <2> QED
      BY <2>2, <2>3
  <1> QED
    BY <1>1, SourceInvariant, Invariant, PTL

----------------------------------------------------------------------------
(* Threads that stop, and the refinement.                                  *)

\* A thread that stop() has dealt with has been told to stop, and if it was
\* not in the gap then, it runs no process and never comes to start one again.
StoppedInv ==
    /\ \A w \in Workers : w < stopAt \/ (w = stopAt /\ main = "kill") => stopping[w]
    /\ \A w \in Workers : pc[w] = "run" => child[w]
    /\ \A w \in Workers : w < stopAt /\ w \notin unseen =>
          ~InGap(w) /\ proc[w] # "running"
    /\ main = "exited" => stopAt \notin Workers

\* What a step of a thread or process does to StoppedInv is about that thread.
LEMMA StoppedThread ==
    ASSUME Inv, StoppedInv, NEW w \in Workers, UNCHANGED <<stopping, mainVars>>,
           \A v \in Workers \ {w} : pc'[v] = pc[v] /\ proc'[v] = proc[v] /\ child'[v] = child[v],
           pc'[w] = "run" => child'[w],
           w < stopAt /\ w \notin unseen => ~InGap(w)' /\ proc'[w] # "running"
    PROVE  StoppedInv'
  <1>1. UNCHANGED <<main, stopAt, unseen>>
    BY DEF mainVars
  <1>2. \A v \in Workers \ {w} : InGap(v)' = InGap(v)
    BY DEF InGap
  <1> QED
    BY <1>1, <1>2 DEF StoppedInv

\* Every step keeps StoppedInv: the flag is raised before stop() looks for a
\* child, and a thread that has not passed its check by then sees it.
LEMMA StoppedStep == Inv /\ StoppedInv /\ [Next]_vars => StoppedInv'
  <1> SUFFICES ASSUME Inv, StoppedInv, [Next]_vars PROVE StoppedInv'
    OBVIOUS
  <1> USE ThreadsAssumption DEF Workers
  <1>t. TypeOK /\ ProcessInv
    BY DEF Inv
  <1>1. ASSUME NEW w \in Workers, TakeJob(w) \/ Leave(w) \/ DropJob(w) \/ Register(w)
        PROVE  StoppedInv'
    <2>1. UNCHANGED <<stopping, mainVars, proc>>
      BY <1>1 DEF TakeJob, Leave, DropJob, Register
    <2>2. /\ \A v \in Workers \ {w} : pc'[v] = pc[v] /\ child'[v] = child[v]
          /\ ~InGap(w)' /\ (pc'[w] = "run" => child'[w])
      BY <1>1, <1>t DEF TakeJob, Leave, DropJob, Register, InGap, TypeOK
    <2>3. w < stopAt /\ w \notin unseen => proc'[w] # "running"
      BY <2>1 DEF StoppedInv
    <2> QED
      BY <2>1, <2>2, <2>3, StoppedThread
  <1>2. ASSUME NEW w \in Workers, BeginJob(w) PROVE StoppedInv'
    <2>1. UNCHANGED <<stopping, mainVars, proc, child>> /\ ~stopping[w]
          /\ pc' = [pc EXCEPT ![w] = "launch"]
      BY <1>2 DEF BeginJob, GivesUp
    <2>2. ~(w < stopAt)
      BY <2>1 DEF StoppedInv
    <2> QED
      BY <1>t, <2>1, <2>2, StoppedThread DEF TypeOK
  <1>3. ASSUME NEW w \in Workers, Spawn(w) PROVE StoppedInv'
    <2>1. UNCHANGED <<stopping, mainVars, child>> /\ InGap(w)
          /\ pc' = [pc EXCEPT ![w] = "register"] /\ proc' = [proc EXCEPT ![w] = "running"]
      BY <1>3 DEF Spawn, InGap
    <2>2. ~(w < stopAt /\ w \notin unseen)
      BY <2>1 DEF StoppedInv
    <2> QED
      BY <1>t, <2>1, <2>2, StoppedThread DEF TypeOK
  <1>4. ASSUME NEW w \in Workers, ReportJob(w) PROVE StoppedInv'
    <2>1. UNCHANGED <<stopping, mainVars>>
          /\ proc' = [proc EXCEPT ![w] = "none"] /\ child' = [child EXCEPT ![w] = FALSE]
          /\ \E next \in {"dead", "get"} : pc' = [pc EXCEPT ![w] = next]
      BY <1>4 DEF ReportJob
    <2>2. /\ ~InGap(w)' /\ pc'[w] # "run" /\ proc'[w] # "running"
          /\ \A v \in Workers \ {w} : pc'[v] = pc[v] /\ proc'[v] = proc[v] /\ child'[v] = child[v]
      BY <1>t, <2>1 DEF TypeOK, InGap
    <2> QED
      BY <2>1, <2>2, StoppedThread
  <1>5. ASSUME NEW w \in Workers, NEW outcome \in {"ok", "fail"}, ProcessEnds(w, outcome)
        PROVE  StoppedInv'
    <2>1. UNCHANGED <<stopping, mainVars, pc, child>> /\ proc' = [proc EXCEPT ![w] = outcome]
      BY <1>5 DEF ProcessEnds
    <2>2. /\ proc'[w] # "running" /\ (pc'[w] = "run" => child'[w])
          /\ \A v \in Workers \ {w} : pc'[v] = pc[v] /\ proc'[v] = proc[v] /\ child'[v] = child[v]
      BY <1>t, <2>1 DEF TypeOK, StoppedInv
    <2>3. w < stopAt /\ w \notin unseen => ~InGap(w)'
      BY <2>1 DEF StoppedInv, InGap
    <2> QED
      BY <2>1, <2>2, <2>3, StoppedThread
  <1>6. CASE StopSignal
    <2>1. /\ UNCHANGED <<pc, proc, child, stopAt, unseen>>
          /\ stopping' = [stopping EXCEPT ![stopAt] = TRUE]
          /\ main' = "kill" /\ stopAt \in Workers
      BY <1>6 DEF StopSignal
    <2>2. \A w \in Workers : /\ stopping[w] \/ w = stopAt => stopping'[w]
                             /\ InGap(w)' = InGap(w)
      BY <1>t, <2>1 DEF TypeOK, InGap
    <2> QED
      BY <1>t, <2>1, <2>2 DEF StoppedInv, TypeOK
  <1>7. CASE StopKill
    <2>1. /\ UNCHANGED <<pc, child, stopping>> /\ main = "kill" /\ main' = "signal"
          /\ stopAt' = stopAt + 1 /\ stopAt \in Workers
          /\ proc' = IF Killed(stopAt) THEN [proc EXCEPT ![stopAt] = "fail"] ELSE proc
          /\ unseen' = IF InGap(stopAt) THEN unseen \union {stopAt} ELSE unseen
      BY <1>7, <1>t DEF StopKill, TypeOK
    <2>2. \A w \in Workers : InGap(w)' = InGap(w)
      BY <2>1 DEF InGap
    <2>3. ~InGap(stopAt) => proc'[stopAt] # "running"
      <3>1. CASE Killed(stopAt)
        BY <1>t, <2>1, <3>1 DEF TypeOK
      <3>2. CASE ~Killed(stopAt) /\ ~InGap(stopAt)
        <4>1. proc[stopAt] = "running" => pc[stopAt] = "run"
          BY <1>t, <2>1, <3>2 DEF ProcessInv, InGap
        <4> QED
          BY <2>1, <3>2, <4>1 DEF Killed, StoppedInv
      <3> QED
        BY <3>1, <3>2
    <2>4. \A w \in Workers : w # stopAt => proc'[w] = proc[w]
      BY <1>t, <2>1 DEF TypeOK
    <2>5. ASSUME NEW w \in Workers, w < stopAt', w \notin unseen'
          PROVE  ~InGap(w)' /\ proc'[w] # "running"
      <3>1. CASE w = stopAt
        BY <2>1, <2>2, <2>3, <2>5, <3>1
      <3>2. CASE w # stopAt
        <4>1. w < stopAt /\ w \notin unseen
          BY <1>t, <2>1, <2>5, <3>2 DEF TypeOK
        <4> QED
          BY <2>2, <2>4, <3>2, <4>1 DEF StoppedInv
      <3> QED
        BY <3>1, <3>2
    <2>6. ASSUME NEW w \in Workers, w < stopAt' PROVE stopping'[w]
      BY <1>t, <2>1, <2>6 DEF StoppedInv, TypeOK
    <2> QED
      BY <2>1, <2>5, <2>6 DEF StoppedInv
  <1>8. CASE Exit
    BY <1>8 DEF Exit, threadVars, StoppedInv, InGap
  <1>9. CASE \/ AwaitActive \/ FinishBuild \/ CollectJob \/ RemoveDone \/ Interrupt
             \/ \E j \in Jobs : SubmitJob(j)
             \/ \E p \in Packages : RemovePackage(p)
             \/ UNCHANGED vars
    <2>1. UNCHANGED <<pc, proc, child, stopping, stopAt, unseen>>
          /\ (main' = main \/ main' \notin {"kill", "exited"})
      BY <1>9 DEF AwaitActive, FinishBuild, CollectJob, RemoveDone, Interrupt, SubmitJob,
          RemovePackage, vars, mainVars, threadVars
    <2> QED
      BY <2>1 DEF StoppedInv, InGap
  <1> QED
    BY <1>1, <1>2, <1>3, <1>4, <1>5, <1>6, <1>7, <1>8, <1>9
    DEF Next, Main, Thread, Process, Gone

\* Whoever interrupts the builder whenever, a build step outlives it only if
\* its thread was between its check of the flag and the record of its process
\* when stop() looked: for every plan and number of threads.
THEOREM OnlyUnseenSurviveHolds == Spec => []OnlyUnseenSurvive
  <1>1. Init => StoppedInv
    BY ThreadsAssumption DEF Init, StoppedInv, Workers
  <1>2. Inv /\ StoppedInv => OnlyUnseenSurvive
    <2> SUFFICES ASSUME Inv, StoppedInv, main = "exited", NEW w \in Workers, w \notin unseen
                 PROVE  proc[w] # "running"
      BY DEF OnlyUnseenSurvive
    <2>1. w < stopAt
      BY ThreadsAssumption DEF Inv, TypeOK, StoppedInv, Workers
    <2> QED
      BY <2>1 DEF StoppedInv
  <1> QED
    BY <1>1, <1>2, StoppedStep, Invariant, PTL DEF Spec

----------------------------------------------------------------------------
(* The threads and queues implement TaskGraph.                             *)

\* The state the refinement mapping gives a job, case by case.
JobStateCases ==
    \A j \in Jobs :
        /\ Reported(j) # {} \/ j \in built =>
              /\ HeldBy(j) = {}
              /\ JobState(j) = IF j \in jobFailed THEN "fail" ELSE "ok"
        /\ \A w \in HeldBy(j) : JobState(j) = proc[w] /\ j \notin jobFailed
        /\ HeldBy(j) = {} /\ Reported(j) = {} /\ j \notin built => JobState(j) = "todo"

\* The cases of the state of a job.
LEMMA JobStateLemma == Inv => JobStateCases
  <1> SUFFICES ASSUME Inv, NEW j \in Jobs
               PROVE  /\ Reported(j) # {} \/ j \in built => HeldBy(j) = {}
                      /\ \A w \in HeldBy(j) : JobState(j) = proc[w] /\ j \notin jobFailed
    BY DEF JobStateCases, JobState
  <1>1. ASSUME NEW w \in HeldBy(j)
        PROVE  /\ Reported(j) = {} /\ j \notin built /\ j \notin jobFailed
               /\ HeldBy(j) = {w}
    <2>1. Busy(w) /\ job[w] = j /\ w \in Workers
      BY <1>1 DEF HeldBy, Busy
    <2>2. Reported(j) = {} /\ j \notin built
      BY <2>1 DEF Inv, ThreadInv, Partition, Reported
    <2>3. HeldBy(j) = {w}
      BY <1>1, <2>1 DEF Inv, ThreadInv, HeldBy, Busy
    <2> QED
      BY <2>2, <2>3 DEF Inv, FailureInv
  <1>2. ASSUME NEW w \in HeldBy(j)
        PROVE  JobState(j) = proc[w]
    <2>1. (CHOOSE v \in HeldBy(j) : TRUE) = w
      BY <1>1, <1>2
    <2> QED
      BY <1>1, <1>2, <2>1 DEF JobState
  <1> QED
    BY <1>1, <1>2

\* The initial state is TaskGraph's: no job has been taken or reported.
LEMMA RefineInit == Init => Tasks!Init
  <1> SUFFICES ASSUME Init, NEW j \in Jobs PROVE JobState(j) = "todo"
    BY DEF Tasks!Init
  <1> QED
    BY DEF Init, JobState, HeldBy, Reported

\* Steps that neither start nor end a process nor report a job.
LEMMA RefineStutter ==
    ASSUME JobStateCases, JobStateCases',
           \A j \in Jobs : HeldBy(j)' = HeldBy(j),
           UNCHANGED <<built, completeQ, jobFailed, proc>>
    PROVE  UNCHANGED [j \in Jobs |-> JobState(j)]
  <1>1. ASSUME NEW j \in Jobs PROVE JobState(j)' = JobState(j)
    <2>1. Reported(j)' = Reported(j)
      BY DEF Reported
    <2>2. CASE HeldBy(j) # {}
      <3>1. PICK w : w \in HeldBy(j)
        BY <2>2
      <3> QED
        BY <3>1 DEF JobStateCases
    <2>3. CASE HeldBy(j) = {}
      BY <2>1, <2>3 DEF JobStateCases
    <2> QED
      BY <2>2, <2>3
  <1> QED
    BY <1>1

\* Spawning the process of a job is the abstract Start.
LEMMA RefineSpawn ==
    ASSUME Inv, JobStateCases, JobStateCases', NEW w \in Workers, Spawn(w)
    PROVE  Tasks!Start(job[w])
  <1> PICK j : j = job[w]
    OBVIOUS
  <1>1. /\ pc[w] = "launch" /\ Busy(w) /\ j \in Jobs /\ j \in building
        /\ Reported(j) = {} /\ j \notin built
        /\ \A v \in Workers : Busy(v) /\ job[v] = j => v = w
    BY DEF Inv, TypeOK, Spawn, Busy, None, ThreadInv, Partition, Reported
  <1>2. /\ UNCHANGED <<built, completeQ, jobFailed, job>>
        /\ proc' = [proc EXCEPT ![w] = "running"]
        /\ pc' = [pc EXCEPT ![w] = "register"]
    BY DEF Spawn, generatorVars, queueVars
  <1>3. HeldBy(j) = {} /\ JobState(j) = "todo"
    BY <1>1 DEF HeldBy, Busy, JobStateCases
  <1>4. JobState(j)' = "running"
    <2>1. w \in HeldBy(j)' /\ proc'[w] = "running"
      BY <1>1, <1>2 DEF HeldBy, Inv, TypeOK
    <2> QED
      BY <2>1, <1>1 DEF JobStateCases
  <1>5. ASSUME NEW k \in Jobs, k # j PROVE JobState(k)' = JobState(k)
    <2>1. HeldBy(k)' = HeldBy(k) /\ Reported(k)' = Reported(k)
      BY <1>2, <1>5 DEF HeldBy, Reported, Inv, TypeOK
    <2>2. ASSUME NEW v \in HeldBy(k) PROVE JobState(k)' = JobState(k)
      <3>1. v # w /\ v \in Workers
        BY <1>5, <2>2 DEF HeldBy
      <3>2. proc'[v] = proc[v]
        BY <1>2, <3>1 DEF Inv, TypeOK
      <3> QED
        BY <2>1, <2>2, <3>2 DEF JobStateCases
    <2>3. CASE HeldBy(k) = {}
      BY <1>2, <2>1, <2>3 DEF JobStateCases
    <2> QED
      BY <2>2, <2>3
  <1>6. ASSUME NEW d \in Wants[j] PROVE JobState(d) \in Tasks!Finished
    <2>1. d \in built /\ d \in Jobs
      BY <1>1, <1>6 DEF Inv, WantsBuilt, TypeOK
    <2> QED
      BY <2>1 DEF JobStateCases, Tasks!Finished
  <1>7. [k \in Jobs |-> JobState(k)]' = [[k \in Jobs |-> JobState(k)] EXCEPT ![j] = "running"]
    BY <1>1, <1>4, <1>5
  <1>8. \A d \in Wants[j] : [k \in Jobs |-> JobState(k)][d] \in Tasks!Finished
    BY <1>1, <1>6, PlanAssumption
  <1> QED
    BY <1>1, <1>3, <1>7, <1>8 DEF Tasks!Start

\* The end of a process, by itself or killed, is the abstract Succeed or Fail.
LEMMA RefineEnd ==
    ASSUME Inv, JobStateCases, JobStateCases', NEW w \in Workers,
           NEW outcome \in {"ok", "fail"},
           proc[w] = "running", outcome = "ok" => FailedWants(job[w]) = {},
           proc' = [proc EXCEPT ![w] = outcome],
           UNCHANGED <<built, completeQ, jobFailed, pc, job>>
    PROVE  Tasks!Succeed(job[w]) \/ Tasks!Fail(job[w])
  <1> PICK j : j = job[w]
    OBVIOUS
  <1>1. /\ w \in HeldBy(j) /\ Busy(w) /\ j \in Jobs /\ j \in building
    BY DEF Inv, TypeOK, ProcessInv, HeldBy, Busy, None, ThreadInv
  <1>2. w \in HeldBy(j)' /\ proc'[w] = outcome
    BY <1>1 DEF HeldBy, Inv, TypeOK
  <1>3. JobState(j) = "running" /\ JobState(j)' = outcome
    BY <1>1, <1>2 DEF JobStateCases
  <1>4. ASSUME NEW k \in Jobs, k # j PROVE JobState(k)' = JobState(k)
    <2>1. HeldBy(k)' = HeldBy(k) /\ Reported(k)' = Reported(k)
      BY DEF HeldBy, Reported
    <2>2. ASSUME NEW v \in HeldBy(k) PROVE JobState(k)' = JobState(k)
      <3>1. v # w /\ v \in Workers
        BY <1>4, <2>2 DEF HeldBy
      <3>2. proc'[v] = proc[v]
        BY <3>1 DEF Inv, TypeOK
      <3> QED
        BY <2>1, <2>2, <3>2 DEF JobStateCases
    <2>3. CASE HeldBy(k) = {}
      BY <2>1, <2>3 DEF JobStateCases
    <2> QED
      BY <2>2, <2>3
  <1>5. [k \in Jobs |-> JobState(k)]' = [[k \in Jobs |-> JobState(k)] EXCEPT ![j] = outcome]
    BY <1>1, <1>3, <1>4
  <1>6. CASE outcome = "ok"
    <2>1. ASSUME NEW d \in Wants[j]
          PROVE  d \in Jobs /\ JobState(d) = "ok"
      <3>1. d \in built /\ d \in Jobs
        BY <1>1, <2>1 DEF Inv, WantsBuilt, TypeOK
      <3>2. d \notin jobFailed
        BY <1>6, <2>1, <3>1 DEF FailedWants, Inv, FailureInv
      <3> QED
        BY <3>1, <3>2 DEF JobStateCases
    <2> QED
      BY <1>1, <1>3, <1>5, <1>6, <2>1 DEF Tasks!Succeed
  <1>7. CASE outcome = "fail"
    BY <1>1, <1>3, <1>5, <1>7 DEF Tasks!Fail
  <1> QED
    BY <1>6, <1>7

\* Reporting a job says what its process said; collecting it changes nothing.
LEMMA RefineReport ==
    ASSUME Inv, JobStateCases, JobStateCases', NEW w \in Workers, ReportJob(w)
    PROVE  UNCHANGED [j \in Jobs |-> JobState(j)]
  <1> PICK j : j = job[w]
    OBVIOUS
  <1>1. /\ w \in HeldBy(j) /\ Busy(w) /\ j \in Jobs /\ proc[w] \in {"ok", "fail"}
    BY DEF Inv, TypeOK, HeldBy, ReportJob, Busy, None
  <1>2. /\ Len(completeQ) \in Nat
        /\ Len(completeQ') = Len(completeQ) + 1
        /\ \A i \in 1..Len(completeQ) : completeQ'[i] = completeQ[i]
        /\ completeQ'[Len(completeQ) + 1] = j
    BY <1>1, AppendFacts DEF Inv, TypeOK, ReportJob
  <1>3. /\ jobFailed' = IF proc[w] = "ok" THEN jobFailed ELSE jobFailed \union {j}
        /\ built' = built
        /\ job' = [job EXCEPT ![w] = None]
        /\ \A v \in Workers : v # w => pc'[v] = pc[v] /\ proc'[v] = proc[v]
        /\ pc'[w] \in {"dead", "get"}
    BY DEF ReportJob, generatorVars, Inv, TypeOK
  <1>4. JobState(j)' = JobState(j)
    <2>1. Reported(j)' # {}
      BY <1>2 DEF Reported
    <2>2. JobState(j) = proc[w] /\ j \notin jobFailed
      BY <1>1 DEF JobStateCases
    <2> QED
      BY <1>1, <1>3, <2>1, <2>2 DEF JobStateCases
  <1>5. ASSUME NEW k \in Jobs, k # j PROVE JobState(k)' = JobState(k)
    <2>1. Reported(k)' = {} <=> Reported(k) = {}
      BY <1>2, <1>5 DEF Reported
    <2>2. \A v \in Workers : v \in HeldBy(k) => v \in HeldBy(k)' /\ proc'[v] = proc[v]
      BY <1>3, <1>5 DEF HeldBy, Inv, TypeOK
    <2>3. \A v \in Workers : v \in HeldBy(k)' => v \in HeldBy(k)
      BY <1>3, <1>5 DEF HeldBy, Inv, TypeOK
    <2>4. ASSUME NEW v \in HeldBy(k) PROVE JobState(k)' = JobState(k)
      BY <2>2, <2>4 DEF JobStateCases, HeldBy
    <2>5. CASE HeldBy(k) = {}
      <3>1. HeldBy(k)' = {}
        BY <2>3, <2>5 DEF HeldBy
      <3> QED
        BY <1>3, <1>5, <2>1, <2>5, <3>1 DEF JobStateCases
    <2> QED
      BY <2>4, <2>5
  <1> QED
    BY <1>4, <1>5

\* Collecting a completed job leaves the state of TaskGraph unchanged: the job
\* was decided when its process ended.
LEMMA RefineCollect ==
    ASSUME Inv, JobStateCases, JobStateCases', CollectJob
    PROVE  UNCHANGED [j \in Jobs |-> JobState(j)]
  <1> PICK j : j = Head(completeQ)
    OBVIOUS
  <1>1. /\ Len(completeQ) \in Nat \ {0}
        /\ j = completeQ[1] /\ j \in Jobs
        /\ Len(completeQ') = Len(completeQ) - 1
        /\ \A i \in 1..Len(completeQ') : completeQ'[i] = completeQ[i + 1]
    BY TailFacts DEF Inv, TypeOK, CollectJob
  <1>2. built' = built \union {j} /\ UNCHANGED <<jobFailed, pc, job, proc>>
    BY DEF CollectJob, threadVars
  <1>3. JobState(j)' = JobState(j)
    <2>1. Reported(j) # {}
      BY <1>1 DEF Reported
    <2> QED
      BY <1>1, <1>2, <2>1 DEF JobStateCases
  <1>4. ASSUME NEW k \in Jobs, k # j PROVE JobState(k)' = JobState(k)
    <2>1. Reported(k)' = {} <=> Reported(k) = {}
      <3>1. ASSUME NEW i \in 1..Len(completeQ), completeQ[i] = k
            PROVE  i - 1 \in 1..Len(completeQ') /\ completeQ'[i - 1] = k
        BY <1>1, <1>4, <3>1
      <3>2. ASSUME NEW i \in 1..Len(completeQ'), completeQ'[i] = k
            PROVE  i + 1 \in 1..Len(completeQ) /\ completeQ[i + 1] = k
        BY <1>1, <3>2
      <3> QED
        BY <3>1, <3>2 DEF Reported
    <2>2. HeldBy(k)' = HeldBy(k)
      BY <1>2 DEF HeldBy
    <2>3. ASSUME NEW v \in HeldBy(k) PROVE JobState(k)' = JobState(k)
      BY <1>2, <2>2, <2>3 DEF JobStateCases
    <2>4. CASE HeldBy(k) = {}
      BY <1>2, <1>4, <2>1, <2>2, <2>4 DEF JobStateCases
    <2> QED
      BY <2>3, <2>4
  <1> QED
    BY <1>3, <1>4

\* Every step is a TaskGraph step or leaves TaskGraph's state alone.
LEMMA RefineStep ==
    Inv /\ Inv' /\ JobStateCases /\ JobStateCases' /\ [Next]_vars
        => [Tasks!Next]_([j \in Jobs |-> JobState(j)])
  <1> SUFFICES ASSUME Inv, Inv', JobStateCases, JobStateCases', [Next]_vars
               PROVE  Tasks!Next \/ UNCHANGED [j \in Jobs |-> JobState(j)]
    OBVIOUS
  <1>1. ASSUME NEW w \in Workers, Spawn(w) PROVE Tasks!Next
    <2>1. job[w] \in Jobs
      BY <1>1 DEF Inv, TypeOK, Spawn, Busy
    <2> QED
      BY <1>1, <2>1, RefineSpawn DEF Tasks!Next
  <1>2. ASSUME NEW w \in Workers, NEW outcome \in {"ok", "fail"},
               proc[w] = "running", outcome = "ok" => FailedWants(job[w]) = {},
               proc' = [proc EXCEPT ![w] = outcome],
               UNCHANGED <<built, completeQ, jobFailed, pc, job>>
        PROVE  Tasks!Next
    <2>1. job[w] \in Jobs
      BY <1>2 DEF Inv, TypeOK, ProcessInv, Busy
    <2>2. Tasks!Succeed(job[w]) \/ Tasks!Fail(job[w])
      BY <1>2, RefineEnd
    <2> QED
      BY <2>1, <2>2 DEF Tasks!Next
  <1>3. ASSUME NEW w \in Workers, NEW outcome \in {"ok", "fail"}, ProcessEnds(w, outcome)
        PROVE  Tasks!Next
    BY <1>2, <1>3 DEF ProcessEnds, generatorVars, queueVars
  <1>4. ASSUME NEW w \in Workers, ReportJob(w)
        PROVE  UNCHANGED [j \in Jobs |-> JobState(j)]
    BY <1>4, RefineReport
  <1>5. ASSUME CollectJob
        PROVE  UNCHANGED [j \in Jobs |-> JobState(j)]
    BY <1>5, RefineCollect
  <1>6. ASSUME StopKill
        PROVE  Tasks!Next \/ UNCHANGED [j \in Jobs |-> JobState(j)]
    <2>1. UNCHANGED <<built, completeQ, jobFailed, pc, job>> /\ stopAt \in Workers
      BY <1>6 DEF StopKill, generatorVars, queueVars, Inv, TypeOK
    <2>2. CASE Killed(stopAt)
      BY <1>2, <1>6, <2>1, <2>2 DEF StopKill, Killed
    <2>3. CASE ~Killed(stopAt)
      <3>1. UNCHANGED proc
        BY <1>6, <2>3 DEF StopKill
      <3>2. \A j \in Jobs : HeldBy(j)' = HeldBy(j)
        BY <2>1 DEF HeldBy
      <3> QED
        BY <2>1, <3>1, <3>2, RefineStutter
    <2> QED
      BY <2>2, <2>3
  <1>7. ASSUME NEW w \in Workers,
               TakeJob(w) \/ Leave(w) \/ DropJob(w) \/ BeginJob(w) \/ Register(w)
        PROVE  UNCHANGED [j \in Jobs |-> JobState(j)]
    <2>1. UNCHANGED <<built, completeQ, jobFailed, proc>>
      BY <1>7 DEF TakeJob, Leave, DropJob, BeginJob, Register, generatorVars, queueVars
    <2>2. \A j \in Jobs : HeldBy(j)' = HeldBy(j)
      BY <1>7 DEF TakeJob, Leave, DropJob, BeginJob, Register, HeldBy, Inv, TypeOK
    <2> QED
      BY <2>1, <2>2, RefineStutter
  <1>8. ASSUME \/ AwaitActive \/ FinishBuild \/ RemoveDone \/ StopSignal \/ Exit
               \/ Interrupt \/ UNCHANGED vars
               \/ \E j \in Jobs : SubmitJob(j)
               \/ \E p \in Packages : RemovePackage(p)
        PROVE  UNCHANGED [j \in Jobs |-> JobState(j)]
    <2>1. UNCHANGED <<built, completeQ, jobFailed, proc, pc, job>>
      BY <1>8 DEF AwaitActive, FinishBuild, RemoveDone, StopSignal, Exit, Interrupt,
          vars, SubmitJob, RemovePackage, generatorVars, queueVars, threadVars
    <2>2. \A j \in Jobs : HeldBy(j)' = HeldBy(j)
      BY <2>1 DEF HeldBy
    <2> QED
      BY <2>1, <2>2, RefineStutter
  <1> QED
    BY <1>1, <1>3, <1>4, <1>5, <1>6, <1>7, <1>8 DEF Next, Main, Thread, Process, Gone

\* The build runs every job at most once, after what it wants, and a job
\* succeeds only if everything it wants did.
THEOREM Refinement == Spec => ImplementsTaskGraph
  <1> QED
    BY Invariant, JobStateLemma, RefineInit, RefineStep, PTL
    DEF Spec, ImplementsTaskGraph, Tasks!Spec

============================================================================
