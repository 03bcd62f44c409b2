----------------------------- MODULE UnpackLock -----------------------------
(***************************************************************************)
(* Jobs of a multi-threaded build that unpack packages: scripts/unpack     *)
(* under the lock of config/functions (pkg_lock), which is a kernel flock  *)
(* together with an owner file that says who holds it.  The same package   *)
(* is unpacked by its host and its target job, and by the jobs of other    *)
(* packages that list it in PKG_DEPENDS_UNPACK, which unpack it while they *)
(* hold their own lock.  acquire_exclusive_lock is the same protocol under *)
(* another file name; scripts/autoreconf takes it around a check of        *)
(* .autoreconf-done as scripts/unpack does around a check of its stamp.    *)
(*                                                                         *)
(* A script that fails ends its job: config/path runs them under set -e.   *)
(* Left out: log and dashboard output, virtual packages (no stamp), and    *)
(* the build that follows the unpacking.                                   *)
(***************************************************************************)
EXTENDS Integers, Sequences, FiniteSets

CONSTANTS
    Jobs,         \* the jobs of the plan
    Packages,     \* package names
    JobPkg,       \* the package a job builds
    UnpackDeps,   \* PKG_DEPENDS_UNPACK
    NoJob,        \* no owner file, or nobody holds the flock
    MaxBuilds,    \* bound: builds one after the other
    MaxFailures   \* bound: scripts that fail or are killed

ASSUME UnpackAssumption ==
    /\ JobPkg \in [Jobs -> Packages]
    /\ UnpackDeps \in [Packages -> SUBSET Packages]
    /\ NoJob \notin Jobs
    /\ MaxBuilds \in Nat /\ MaxFailures \in Nat

VARIABLES
    builds,    \* the number of builds started so far
    failures,  \* the number of failures so far
    result,    \* per job: "todo", "running", "dying", "ok" or "failed"
    scripts,   \* per job: the nested scripts/unpack processes
    flock,     \* who holds the flock on <package>.unpack
    owner,     \* who <package>.unpack.owner names
    dir        \* PKG_BUILD: "absent", "partial" (no stamp), "stale" (the stamp
               \* of an older package.mk) or "unpacked"

vars == <<builds, failures, result, scripts, flock, owner, dir>>

----------------------------------------------------------------------------
\* One scripts/unpack process: its package, the next thing it does, whether
\* it got the flock itself, and the PKG_DEPENDS_UNPACK it still has to unpack.
Script(p) == [pkg |-> p, at |-> "read", mine |-> FALSE, rest |-> UnpackDeps[p]]

Top(j) == scripts[j][Len(scripts[j])]
Below(j) == SubSeq(scripts[j], 1, Len(scripts[j]) - 1)

\* Job j runs, and its innermost script is at the named place.
At(j, place) == result[j] = "running" /\ scripts[j] # <<>> /\ Top(j).at = place

GoTo(j, place) == scripts' = [scripts EXCEPT ![j] = Append(Below(j), [Top(j) EXCEPT !.at = place])]

\* _unpack_recursive_cnt, exported to nested scripts.
RecursiveCount(j) ==
    Cardinality({i \in 1..Len(scripts[j]) : UnpackDeps[scripts[j][i].pkg] # {}})
RecursiveLimit == 2

Init ==
    /\ builds = 1 /\ failures = 0
    /\ result = [j \in Jobs |-> "todo"]
    /\ scripts = [j \in Jobs |-> <<>>]
    /\ flock = [p \in Packages |-> NoJob]
    /\ owner = [p \in Packages |-> NoJob]
    /\ dir = [p \in Packages |-> "absent"]

Start(j) ==
    /\ result[j] = "todo"
    /\ result' = [result EXCEPT ![j] = "running"]
    /\ scripts' = [scripts EXCEPT ![j] = <<Script(JobPkg[j])>>]
    /\ UNCHANGED <<builds, failures, flock, owner, dir>>

----------------------------------------------------------------------------
(* pkg_lock                                                                *)

\* Without an owner, wait for the flock for a second; with the job itself as
\* owner, assume to have the lock; with another owner, wait for the flock.
FaultyAssumesHeld(j, p) == owner[p] # NoJob
FaultyNeverHeld(j, p) == FALSE
AssumesHeld(j, p) == owner[p] = j

ReadOwner(j) ==
    /\ At(j, "read")
    /\ LET p == Top(j).pkg IN
       \/ owner[p] = NoJob /\ GoTo(j, "try")
       \/ AssumesHeld(j, p) /\ GoTo(j, "claim")
       \/ owner[p] # NoJob /\ ~AssumesHeld(j, p) /\ GoTo(j, "wait")
    /\ UNCHANGED <<builds, failures, result, flock, owner, dir>>

\* flock --exclusive, by either wait.
GetFlock(j) ==
    /\ At(j, "try") \/ At(j, "wait")
    /\ flock[Top(j).pkg] = NoJob
    /\ flock' = [flock EXCEPT ![Top(j).pkg] = j]
    /\ scripts' = [scripts EXCEPT ![j] =
                     Append(Below(j), [Top(j) EXCEPT !.at = "claim", !.mine = TRUE])]
    /\ UNCHANGED <<builds, failures, result, owner, dir>>

\* flock --wait 1 gives up; the owner may be known by now.
Timeout(j) ==
    /\ At(j, "try")
    /\ flock[Top(j).pkg] # NoJob
    /\ GoTo(j, "read")
    /\ UNCHANGED <<builds, failures, result, flock, owner, dir>>

\* pkg_lock_status LOCKED
FaultyClaimedBy(j, p) == [owner EXCEPT ![p] = IF @ = NoJob THEN j ELSE @]
ClaimedBy(j, p) == [owner EXCEPT ![p] = j]

Claim(j) ==
    /\ At(j, "claim")
    /\ owner' = ClaimedBy(j, Top(j).pkg)
    /\ GoTo(j, "deps")
    /\ UNCHANGED <<builds, failures, result, flock, dir>>

----------------------------------------------------------------------------
(* scripts/unpack                                                          *)

\* Unpack what the package needs unpacked first, unless the recursion has
\* become too deep.
UnpackDependency(j) ==
    /\ At(j, "deps") /\ Top(j).rest # {}
    /\ RecursiveCount(j) <= RecursiveLimit
    /\ \E q \in Top(j).rest :
          scripts' = [scripts EXCEPT ![j] =
                        Append(Append(Below(j), [Top(j) EXCEPT !.rest = @ \ {q}]), Script(q))]
    /\ UNCHANGED <<builds, failures, result, flock, owner, dir>>

TooDeep(j) ==
    /\ At(j, "deps") /\ Top(j).rest # {}
    /\ RecursiveCount(j) > RecursiveLimit
    /\ result' = [result EXCEPT ![j] = "dying"]
    /\ UNCHANGED <<builds, failures, scripts, flock, owner, dir>>

\* What has no stamp, or an old one, is cleaned; a current stamp means that
\* there is nothing to do.
FaultyTrusts(p) == dir[p] \in {"partial", "unpacked"}
FaultyUnpacksAgain(p) == FALSE
NothingToDo(p) == dir[p] = "unpacked"

CheckStamp(j) ==
    /\ At(j, "deps") /\ Top(j).rest = {}
    /\ LET p == Top(j).pkg IN
       \/ NothingToDo(p) /\ GoTo(j, "unlock") /\ UNCHANGED dir
       \/ /\ ~NothingToDo(p) /\ GoTo(j, "transfer")
          /\ dir' = [dir EXCEPT ![p] = "absent"]
    /\ UNCHANGED <<builds, failures, result, flock, owner>>

\* The sources, unpacked aside, are moved to PKG_BUILD and patched there.
Transfer(j) ==
    /\ At(j, "transfer")
    /\ dir' = [dir EXCEPT ![Top(j).pkg] = "partial"]
    /\ GoTo(j, "patch")
    /\ UNCHANGED <<builds, failures, result, flock, owner>>

WriteStamp(j) ==
    /\ At(j, "patch")
    /\ dir' = [dir EXCEPT ![Top(j).pkg] = "unpacked"]
    /\ GoTo(j, "unlock")
    /\ UNCHANGED <<builds, failures, result, flock, owner>>

\* pkg_lock_status UNLOCK; rm would fail without an owner file (OwnerIsHolder).
Unlock(j) ==
    /\ At(j, "unlock")
    /\ owner' = [owner EXCEPT ![Top(j).pkg] = NoJob]
    /\ GoTo(j, "exit")
    /\ UNCHANGED <<builds, failures, result, flock, dir>>

\* The end of a process closes its lock file.
Closed(j) == IF Top(j).mine THEN [flock EXCEPT ![Top(j).pkg] = NoJob] ELSE flock

\* Only the outermost script ends the job.
Result(j, r) == IF Len(scripts[j]) = 1 THEN r ELSE result[j]

Exit(j) ==
    /\ At(j, "exit")
    /\ scripts' = [scripts EXCEPT ![j] = Below(j)]
    /\ flock' = Closed(j)
    /\ result' = [result EXCEPT ![j] = Result(j, "ok")]
    /\ UNCHANGED <<builds, failures, owner, dir>>

----------------------------------------------------------------------------
(* Failures                                                                *)

\* Any command of a script fails, scripts/get included, or it is killed.
Fail(j) ==
    /\ result[j] = "running" /\ failures < MaxFailures
    /\ failures' = failures + 1
    /\ result' = [result EXCEPT ![j] = "dying"]
    /\ UNCHANGED <<builds, scripts, flock, owner, dir>>

\* The scripts of the job end from the innermost one outwards.  Owner files
\* and whatever is in PKG_BUILD stay.
Unwind(j) ==
    /\ result[j] = "dying"
    /\ scripts' = [scripts EXCEPT ![j] = Below(j)]
    /\ flock' = Closed(j)
    /\ result' = [result EXCEPT ![j] = Result(j, "failed")]
    /\ UNCHANGED <<builds, failures, owner, dir>>

\* start_multithread_build once more, with an empty locks directory.  Some
\* packages may have been edited in between, so that their stamps are old.
Rebuild ==
    /\ \A j \in Jobs : result[j] \in {"ok", "failed"}
    /\ builds < MaxBuilds
    /\ builds' = builds + 1
    /\ result' = [j \in Jobs |-> "todo"]
    /\ owner' = [p \in Packages |-> NoJob]
    /\ \E edited \in SUBSET Packages :
          dir' = [p \in Packages |->
                    IF p \in edited /\ dir[p] = "unpacked" THEN "stale" ELSE dir[p]]
    /\ UNCHANGED <<failures, scripts, flock>>

Over ==
    /\ \A j \in Jobs : result[j] \in {"ok", "failed"}
    /\ builds = MaxBuilds
    /\ UNCHANGED vars

Step(j) ==
    \/ Start(j)
    \/ ReadOwner(j) \/ GetFlock(j) \/ Timeout(j) \/ Claim(j)
    \/ UnpackDependency(j) \/ TooDeep(j) \/ CheckStamp(j)
    \/ Transfer(j) \/ WriteStamp(j) \/ Unlock(j) \/ Exit(j)
    \/ Unwind(j)

Next == (\E j \in Jobs : Step(j) \/ Fail(j)) \/ Rebuild \/ Over

\* Processes run; nobody has to start another build, and nothing has to fail.
Spec == Init /\ [][Next]_vars /\ \A j \in Jobs : WF_vars(Step(j))

----------------------------------------------------------------------------
(* Properties                                                              *)

ScriptSet ==
    [pkg : Packages,
     at : {"read", "try", "wait", "claim", "deps", "transfer", "patch", "unlock", "exit"},
     mine : BOOLEAN,
     rest : SUBSET Packages]

TypeOK ==
    /\ builds \in 1..(MaxBuilds + 1) /\ failures \in 0..MaxFailures
    /\ result \in [Jobs -> {"todo", "running", "dying", "ok", "failed"}]
    /\ scripts \in [Jobs -> Seq(ScriptSet)]
    /\ flock \in [Packages -> Jobs \union {NoJob}]
    /\ owner \in [Packages -> Jobs \union {NoJob}]
    /\ dir \in [Packages -> {"absent", "partial", "stale", "unpacked"}]
    /\ \A j \in Jobs : result[j] \in {"running", "dying"} <=> scripts[j] # <<>>

\* Job j is between LOCKED and UNLOCK for package p.
Inside(j, p) ==
    \E i \in 1..Len(scripts[j]) :
        /\ scripts[j][i].pkg = p
        /\ scripts[j][i].at \in {"claim", "deps", "transfer", "patch", "unlock"}

\* Two jobs are never inside the lock of the same package, whatever owner
\* files failed jobs left behind.
MutualExclusion ==
    \A p \in Packages : \A j, k \in Jobs : Inside(j, p) /\ Inside(k, p) => j = k

\* Whoever is about to remove the owner file finds it there, with its name.
OwnerIsHolder ==
    \A j \in Jobs : At(j, "unlock") => owner[Top(j).pkg] = j

\* A job that goes on to build has its package completely unpacked, from the
\* current package.mk, and so has everything its package needs unpacked.
UnpackedForUse ==
    \A j \in Jobs : result[j] = "ok" =>
        \A p \in {JobPkg[j]} \union UnpackDeps[JobPkg[j]] : dir[p] = "unpacked"

\* During a build a package that is completely unpacked stays so: no job
\* unpacks it again or cleans it while another one may be using it.
StaysUnpacked ==
    [][\A p \in Packages :
          dir[p] = "unpacked" /\ builds' = builds => dir'[p] = "unpacked"]_vars

\* Every job that starts to unpack ends, with or without success: failures
\* never leave a lock that nobody can get, and nested locks never deadlock.
JobsEnd == \A j \in Jobs : result[j] = "running" ~> result[j] \in {"ok", "failed"}
===========================================================================
