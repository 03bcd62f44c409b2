-------------------------- MODULE BuildScheduler --------------------------
(***************************************************************************)
(* The parallel builder of scripts/pkgbuilder.py: the Generator that       *)
(* hands out the jobs of a build plan, the Builder (main thread) that      *)
(* fills the work queue, collects completed jobs and removes source        *)
(* directories nobody needs any more, the BuildProcess threads that run    *)
(* scripts/pkgbuild for a job, and the shutdown that stops them.           *)
(*                                                                         *)
(* A job is its position in the plan.  Logs, statistics, progress output   *)
(* and which root failure a log names are left out.                        *)
(***************************************************************************)
EXTENDS Integers, Sequences, FiniteSets

CONSTANTS
    JobCount,         \* number of jobs in the plan
    Wants,            \* job["wants"]: the jobs a job waits for
    Packages,         \* package names, with or without a job of their own
    PkgOf,            \* the package of a job (host and target jobs share it)
    Unpacks,          \* Generator.unpacks; empty for a package without a job
    Virtual,          \* the packages of section "virtual"
    Threads,          \* Builder.threadcount
    HaltOnError,      \* --halt-on-error / --continue-on-error
    FailImmediately,  \* --fail-immediately / --fail-after-active
    AutoRemove        \* --auto-remove

Jobs == 1..JobCount
Workers == 1..Threads
None == 0             \* the None that BuildProcess.stop puts in the work queue

\* Builder.__init__ computes a thread count of at least one (lines 370-380).
ASSUME ThreadsAssumption == Threads \in Nat \ {0}

\* genbuildplan.py emits a job after everything it wants (module BuildPlan).
ASSUME PlanAssumption ==
    /\ JobCount \in Nat
    /\ Wants \in [Jobs -> SUBSET Jobs]
    /\ \A j \in Jobs : \A d \in Wants[j] : d < j

ASSUME PackageAssumption ==
    /\ IsFiniteSet(Packages)
    /\ PkgOf \in [Jobs -> Packages]
    /\ Unpacks \in [Packages -> SUBSET Packages]
    /\ Virtual \subseteq Packages

ASSUME OptionAssumption ==
    /\ HaltOnError \in BOOLEAN
    /\ FailImmediately \in BOOLEAN
    /\ AutoRemove \in BOOLEAN

VARIABLES
    work, building, built, failed,   \* Generator: jobs by their fate
    refcount, removed,               \* Generator: references, removedPackages
    workQ, completeQ,                \* Builder.work, Builder.complete
    jobFailed,                       \* the jobs with job["failed"] set
    main,                            \* what the main thread is about to do
    current,                         \* the job it collected last
    stopAt,                          \* the next process stopProcesses stops
    ending,                          \* why it stops: sys.exit(0), sys.exit(1), ^C
    pc, job,                         \* per thread: its step, its job
    proc,                            \* per thread: its pkgbuild process
    child, stopping,                 \* BuildProcess.child (set?), .stopping
    \* History: the threads in which stop() saw no process, although they were
    \* past the check of the flag and about to start one.
    unseen

generatorVars == <<work, building, built, failed, refcount, removed>>
queueVars == <<workQ, completeQ, jobFailed>>
mainVars == <<main, current, stopAt, ending, unseen>>
threadVars == <<pc, job, proc, child, stopping>>
vars == <<generatorVars, queueVars, mainVars, threadVars>>

\* A thread has taken a job and not reported it yet.
Busy(w) == pc[w] \in {"taken", "launch", "register", "run"}

\* A definition named Faulty... is a plausible mistake in the definition that
\* follows it; no action uses it.  The properties must tell the two apart.

----------------------------------------------------------------------------
(* References to source directories.                                       *)

\* The chains p1, p2, ... where each package needs the next one unpacked.
\* addRefCounts and addUnpackPackages visit one chain per call; in an acyclic
\* PKG_DEPENDS_UNPACK graph none is longer than the set of packages.
IsChain(c) == \A i \in 1..(Len(c) - 1) : c[i + 1] \in Unpacks[c[i]]

\* A set constructor, not a filter alone: TLC then lists the chains only once.
UnpackChains ==
    {c : c \in {s \in UNION {[1..n -> Packages] : n \in 1..Cardinality(Packages)} :
                    IsChain(s)}}

\* The references job j holds: one to its own source directory, and one for
\* every chain of packages it needs unpacked.
References(j) == {c \in UnpackChains : c[1] = PkgOf[j]}

RefsTo(j, p) == {c \in References(j) : c[Len(c)] = p}

\* What a completed job gives back: a failed job keeps the reference to its
\* own source directory.
FaultyReleaseDirectOnly(j, p) ==
    {c \in RefsTo(j, p) : Len(c) <= 2 /\ (Len(c) = 1 => j \notin jobFailed)}
ReleasedRefs(j, p) ==
    {c \in RefsTo(j, p) : Len(c) = 1 => j \notin jobFailed}

\* addUnpackPackages: everything the job had unpacked.
SourcesOf(j) == {c[Len(c)] : c \in References(j)}

FaultyRemoveAtOne(j) ==
    {p \in SourcesOf(j) :
        refcount[p] <= 1 /\ p \notin Virtual /\ p \notin removed}
PackagesToRemove(j) ==
    {p \in SourcesOf(j) :
        refcount[p] = 0 /\ p \notin Virtual /\ p \notin removed}

----------------------------------------------------------------------------
(* Generator.getNextJob: jobs without wants first (check_no_deps need not  *)
(* be remembered: once no such job is left, none comes back), then the     *)
(* first job whose wants are all built.                                    *)

WithoutWants == {j \in work : Wants[j] = {}}

Buildable == {j \in work : Wants[j] \subseteq built}

Candidates == IF WithoutWants # {} THEN WithoutWants ELSE Buildable

IsNextJob(j) == j \in Candidates /\ \A k \in Candidates : j <= k

\* getAllFailedJobs, up to which root failures it names.  The jobs a job
\* wants are built when it is handed out, so the answer never changes after.
FaultyFailedWants(j) == {d \in Wants[j] : d \in failed /\ Wants[d] = {}}
FailedWants(j) == Wants[j] \intersect failed

----------------------------------------------------------------------------
Init ==
    /\ work = Jobs
    /\ building = {} /\ built = {} /\ failed = {}
    /\ refcount = [p \in Packages |->
                     Cardinality({r \in Jobs \X UnpackChains :
                                     r[2] \in RefsTo(r[1], p)})]
    /\ removed = {}
    /\ workQ = <<>> /\ completeQ = <<>> /\ jobFailed = {}
    /\ main = "queue" /\ current = None /\ stopAt = 1 /\ ending = "none" /\ unseen = {}
    /\ pc = [w \in Workers |-> "get"]
    /\ job = [w \in Workers |-> None]
    /\ proc = [w \in Workers |-> "none"]
    /\ child = [w \in Workers |-> FALSE]
    /\ stopping = [w \in Workers |-> FALSE]

----------------------------------------------------------------------------
(* The main thread: Builder.build and Builder.queueWork.                   *)

Halted == HaltOnError /\ failed # {}

\* The loop of queueWork starts at the number of active jobs: a job takes a
\* slot from the moment it is queued until it is collected.
FaultyFreeSlot ==
    Cardinality({w \in Workers : Busy(w)}) + Len(workQ) < Threads
FreeSlot == Cardinality(building) < Threads

\* queueWork puts one more job on the work queue.
SubmitJob(j) ==
    /\ main = "queue" /\ ~Halted
    /\ FreeSlot
    /\ IsNextJob(j)
    /\ work' = work \ {j}
    /\ building' = building \union {j}
    /\ workQ' = Append(workQ, j)
    /\ UNCHANGED <<built, failed, refcount, removed, completeQ, jobFailed,
                   mainVars, threadVars>>

\* queueWork returns True: slots full, generator stalled, or nothing left to
\* queue but jobs active; after a failure, only to wait for active jobs.
AwaitActive ==
    /\ main = "queue"
    /\ \/ Halted /\ ~FailImmediately /\ building # {}
       \/ ~Halted /\ ~FreeSlot
       \/ ~Halted /\ work # {} /\ Candidates = {}
       \/ ~Halted /\ work = {} /\ building # {}
    /\ main' = "collect"
    /\ UNCHANGED <<generatorVars, queueVars, current, stopAt, ending, unseen,
                   threadVars>>

\* queueWork returns False.
FaultyBuildOverNoDrain == Halted \/ (work = {} /\ building = {})
FaultyBuildOverNoWait == ~Halted /\ work = {}
BuildOver ==
    \/ Halted /\ (FailImmediately \/ building = {})
    \/ ~Halted /\ work = {} /\ building = {}

\* build() returns whether no job failed; sys.exit raises SystemExit, whose
\* handler cleans up.
FinishBuild ==
    /\ main = "queue"
    /\ BuildOver
    /\ main' = "signal"
    /\ ending' = IF failed = {} THEN "done" ELSE "failed"
    /\ UNCHANGED <<generatorVars, queueVars, current, stopAt, unseen, threadVars>>

\* getCompletedJob and Generator.completed.
CollectJob ==
    /\ main = "collect" /\ completeQ # <<>>
    /\ LET j == Head(completeQ) IN
       /\ current' = j
       /\ built' = built \union {j}
       /\ building' = building \ {j}
       /\ failed' = IF j \in jobFailed THEN failed \union {j} ELSE failed
       /\ refcount' = [p \in Packages |->
                         refcount[p] - Cardinality(ReleasedRefs(j, p))]
    /\ completeQ' = Tail(completeQ)
    /\ main' = IF AutoRemove THEN "remove" ELSE "queue"
    /\ UNCHANGED <<work, removed, workQ, jobFailed, stopAt, ending, unseen,
                   threadVars>>

\* autoRemovePackages waits for one scripts/autoremove after the other; the
\* threads keep building meanwhile.
RemovePackage(p) ==
    /\ main = "remove"
    /\ p \in PackagesToRemove(current)
    /\ removed' = removed \union {p}
    /\ UNCHANGED <<work, building, built, failed, refcount, queueVars,
                   mainVars, threadVars>>

RemoveDone ==
    /\ main = "remove"
    /\ PackagesToRemove(current) = {}
    /\ main' = "queue"
    /\ UNCHANGED <<generatorVars, queueVars, current, stopAt, ending, unseen,
                   threadVars>>

\* KeyboardInterrupt while the main loop runs.
Interrupt ==
    /\ main \in {"queue", "collect", "remove"}
    /\ main' = "signal"
    /\ ending' = "interrupted"
    /\ UNCHANGED <<generatorVars, queueVars, current, stopAt, unseen, threadVars>>

\* stopProcesses, one BuildProcess.stop after the other: raise the flag and
\* queue a None, then look for a child to kill and wait for.
StopSignal ==
    /\ main = "signal" /\ stopAt \in Workers
    /\ stopping' = [stopping EXCEPT ![stopAt] = TRUE]
    /\ workQ' = Append(workQ, None)
    /\ main' = "kill"
    /\ UNCHANGED <<generatorVars, completeQ, jobFailed, current, stopAt,
                   ending, unseen, pc, job, proc, child>>

Killed(w) == child[w] /\ proc[w] = "running"

\* Past the check of the flag, and no child recorded yet.
InGap(w) == pc[w] \in {"launch", "register"}

StopKill ==
    /\ main = "kill"
    /\ proc' = IF Killed(stopAt) THEN [proc EXCEPT ![stopAt] = "fail"] ELSE proc
    /\ unseen' = IF InGap(stopAt) THEN unseen \union {stopAt} ELSE unseen
    /\ stopAt' = stopAt + 1
    /\ main' = "signal"
    /\ UNCHANGED <<generatorVars, queueVars, current, ending, pc, job, child,
                   stopping>>

\* The interpreter exits; the daemon threads die wherever they are.
Exit ==
    /\ main = "signal" /\ stopAt \notin Workers
    /\ main' = "exited"
    /\ UNCHANGED <<generatorVars, queueVars, current, stopAt, ending, unseen,
                   threadVars>>

----------------------------------------------------------------------------
(* The threads: BuildProcess.run, execute and rusage_run.                  *)

\* A thread takes the next job; a None ends it.
TakeJob(w) ==
    /\ main # "exited"
    /\ pc[w] = "get" /\ workQ # <<>>
    /\ Head(workQ) # None
    /\ workQ' = Tail(workQ)
    /\ job' = [job EXCEPT ![w] = Head(workQ)]
    /\ pc' = [pc EXCEPT ![w] = "taken"]
    /\ UNCHANGED <<generatorVars, completeQ, jobFailed, mainVars, proc, child,
                   stopping>>

Leave(w) ==
    /\ main # "exited"
    /\ pc[w] = "get" /\ workQ # <<>>
    /\ Head(workQ) = None
    /\ workQ' = Tail(workQ)
    /\ pc' = [pc EXCEPT ![w] = "dead"]
    /\ UNCHANGED <<generatorVars, completeQ, jobFailed, mainVars, job, proc,
                   child, stopping>>

\* So does a stop that it sees now; the job it took is dropped.
FaultyGivesUpNoFlag(w) == FALSE
GivesUp(w) == stopping[w]

DropJob(w) ==
    /\ main # "exited"
    /\ pc[w] = "taken"
    /\ GivesUp(w)
    /\ job' = [job EXCEPT ![w] = None]
    /\ pc' = [pc EXCEPT ![w] = "dead"]
    /\ UNCHANGED <<generatorVars, queueVars, mainVars, proc, child, stopping>>

\* Without one it goes on, and does not look at the flag again before the job ends.
BeginJob(w) ==
    /\ main # "exited"
    /\ pc[w] = "taken"
    /\ ~GivesUp(w)
    /\ pc' = [pc EXCEPT ![w] = "launch"]
    /\ UNCHANGED <<generatorVars, queueVars, mainVars, job, proc, child, stopping>>

\* Popen starts pkgbuild in a session of its own ...
Spawn(w) ==
    /\ main # "exited"
    /\ pc[w] = "launch"
    /\ proc' = [proc EXCEPT ![w] = "running"]
    /\ pc' = [pc EXCEPT ![w] = "register"]
    /\ UNCHANGED <<generatorVars, queueVars, mainVars, job, child, stopping>>

\* ... and only then is it recorded where stop() can find it.
Register(w) ==
    /\ main # "exited"
    /\ pc[w] = "register"
    /\ child' = [child EXCEPT ![w] = TRUE]
    /\ pc' = [pc EXCEPT ![w] = "run"]
    /\ UNCHANGED <<generatorVars, queueVars, mainVars, job, proc, stopping>>

\* pkgbuild ends.  It fails at once when a wanted job failed before.
ProcessEnds(w, outcome) ==
    /\ proc[w] = "running"
    /\ outcome = "ok" => FailedWants(job[w]) = {}
    /\ proc' = [proc EXCEPT ![w] = outcome]
    /\ UNCHANGED <<generatorVars, queueVars, mainVars, pc, job, child, stopping>>

\* A thread ends after a failed job unless the build continues on errors.
ThreadEnds(w, ok) == stopping[w] \/ (~ok /\ HaltOnError)

\* The thread sees its process end, reports the job and goes on or ends.
ReportJob(w) ==
    /\ main # "exited"
    /\ pc[w] = "run" /\ proc[w] \in {"ok", "fail"}
    /\ LET ok == proc[w] = "ok" IN
       /\ jobFailed' = IF ok THEN jobFailed ELSE jobFailed \union {job[w]}
       /\ pc' = [pc EXCEPT ![w] = IF ThreadEnds(w, ok) THEN "dead" ELSE "get"]
    /\ completeQ' = Append(completeQ, job[w])
    /\ job' = [job EXCEPT ![w] = None]
    /\ proc' = [proc EXCEPT ![w] = "none"]
    /\ child' = [child EXCEPT ![w] = FALSE]
    /\ UNCHANGED <<generatorVars, workQ, mainVars, stopping>>

----------------------------------------------------------------------------
Main == \/ \E j \in Jobs : SubmitJob(j)
        \/ AwaitActive \/ FinishBuild \/ CollectJob
        \/ \E p \in Packages : RemovePackage(p)
        \/ RemoveDone \/ StopSignal \/ StopKill \/ Exit

Thread(w) ==
    \/ TakeJob(w) \/ Leave(w) \/ DropJob(w) \/ BeginJob(w)
    \/ Spawn(w) \/ Register(w) \/ ReportJob(w)

Process(w) == \E outcome \in {"ok", "fail"} : ProcessEnds(w, outcome)

\* Nothing is left to happen: not a state in which the builder hangs.
Gone ==
    /\ main = "exited" /\ \A w \in Workers : proc[w] # "running"
    /\ UNCHANGED vars

Next == \/ Main \/ Interrupt
        \/ \E w \in Workers : Thread(w) \/ Process(w)
        \/ Gone

\* The operating system keeps running every thread, and a build step ends.
Fairness == /\ WF_vars(Main)
            /\ \A w \in Workers : WF_vars(Thread(w)) /\ WF_vars(Process(w))

Spec == Init /\ [][Next]_vars /\ Fairness

----------------------------------------------------------------------------
(* Properties.                                                             *)

TypeOK ==
    /\ work \subseteq Jobs /\ building \subseteq Jobs
    /\ built \subseteq Jobs /\ failed \subseteq built
    /\ refcount \in [Packages -> Int]
    /\ removed \subseteq Packages
    /\ workQ \in Seq(Jobs \union {None})
    /\ completeQ \in Seq(Jobs)
    /\ jobFailed \subseteq Jobs
    /\ main \in {"queue", "collect", "remove", "signal", "kill", "exited"}
    /\ current \in Jobs \union {None}
    /\ stopAt \in 1..(Threads + 1)
    /\ main = "kill" => stopAt \in Workers
    /\ ending \in {"none", "done", "failed", "interrupted"}
    /\ unseen \subseteq Workers
    /\ pc \in [Workers -> {"get", "taken", "launch", "register", "run", "dead"}]
    /\ job \in [Workers -> Jobs \union {None}]
    /\ \A w \in Workers : Busy(w) <=> job[w] # None
    /\ proc \in [Workers -> {"none", "running", "ok", "fail"}]
    /\ child \in [Workers -> BOOLEAN]
    /\ stopping \in [Workers -> BOOLEAN]

\* Where a job that was handed out can be.
Queued(j) == {i \in 1..Len(workQ) : workQ[i] = j}
Held(j) == {w \in Workers : Busy(w) /\ job[w] = j}
Reported(j) == {i \in 1..Len(completeQ) : completeQ[i] = j}
Places(j) == {<<"work", i>> : i \in Queued(j)}
                \union {<<"thread", w>> : w \in Held(j)}
                \union {<<"complete", i>> : i \in Reported(j)}

(* No job is lost or run twice on its way through two queues and the       *)
(* threads: an active job is in exactly one place in one of them (in none, *)
(* once a shutdown has dropped it), any other job in none.                 *)
EveryJobInOnePlace ==
    /\ work \union building \union built = Jobs
    /\ work \intersect (building \union built) = {}
    /\ building \intersect built = {}
    /\ \A j \in Jobs : \A p, q \in Places(j) : p = q
    /\ \A j \in Jobs \ building : Places(j) = {}
    /\ ending = "none" => \A j \in building : Places(j) # {}

(* Automatic removal never takes a source directory that a job still to be *)
(* finished will unpack or is using, nor the one of a failed job.          *)
SourcesKept ==
    /\ \A j \in Jobs \ built : removed \intersect SourcesOf(j) = {}
    /\ \A j \in failed : PkgOf[j] \notin removed

(* ... and it leaves nothing behind: when every job has been collected the *)
(* directories still there are those of virtual packages and failed jobs.  *)
RemovalExact ==
    AutoRemove /\ main = "queue" /\ work = {} /\ building = {} =>
        removed = (UNION {SourcesOf(j) : j \in Jobs})
                    \ (Virtual \union {PkgOf[j] : j \in failed})

(* The exit status tells the truth: success is reported only when every    *)
(* job of the plan was built and none failed, in whatever order threads    *)
(* ended and failures were collected.                                      *)
ExitStatus ==
    ending = "done" => built = Jobs /\ jobFailed = {}

(* --fail-after-active: the builder reports a failure only after every job *)
(* that was queued or running when it happened has been collected.         *)
DrainedBeforeExit ==
    ~FailImmediately /\ ending \in {"done", "failed"} =>
        /\ \A w \in Workers : ~Busy(w) /\ proc[w] = "none"
        /\ \A j \in Jobs : Queued(j) = {} /\ Reported(j) = {}

(* A shutdown leaves no build step behind, although jobs may still be      *)
(* queued ahead of the None and threads go on while others are stopped:    *)
(* only a thread that had passed its check of the flag and not yet         *)
(* recorded its process, when stop() looked for one, lets one survive.     *)
OnlyUnseenSurvive ==
    main = "exited" => \A w \in Workers : proc[w] = "running" => w \in unseen

(* Whatever fails and whenever the user interrupts, the builder exits: the *)
(* main thread waits for queued jobs without a timeout, so the threads that*)
(* end after failed jobs must leave enough others to take what is queued.  *)
Termination == <>(main = "exited")

(* The threads and queues implement TaskGraph: a job runs from the moment  *)
(* its process is spawned until the process ends.                          *)
HeldBy(j) == {w \in Workers : pc[w] \in {"register", "run"} /\ job[w] = j}
JobState(j) ==
    IF Reported(j) # {} \/ j \in built
    THEN IF j \in jobFailed THEN "fail" ELSE "ok"
    ELSE IF HeldBy(j) = {} THEN "todo"
    ELSE LET w == CHOOSE w \in HeldBy(j) : TRUE IN proc[w]

Tasks == INSTANCE TaskGraph WITH state <- [j \in Jobs |-> JobState(j)]

ImplementsTaskGraph == Tasks!Spec
============================================================================
