----------------------------- MODULE TaskGraph -----------------------------
(***************************************************************************)
(* What the parallel build promises about the jobs of a plan, whatever     *)
(* threads, queues and shutdowns implement it: a job runs at most once,    *)
(* it starts only when every job it wants has finished, and it succeeds    *)
(* only if all of them succeeded.  A job that is running when the build is *)
(* abandoned fails.                                                        *)
(***************************************************************************)
EXTENDS Integers

CONSTANTS Jobs,    \* the jobs of the plan
          Wants    \* Wants[j]: the jobs that must be finished before j starts

VARIABLE state     \* state[j]: what has become of job j

Finished == {"ok", "fail"}

TypeOK == state \in [Jobs -> {"todo", "running"} \union Finished]

Init == state = [j \in Jobs |-> "todo"]

Start(j) ==
    /\ state[j] = "todo"
    /\ \A d \in Wants[j] : state[d] \in Finished
    /\ state' = [state EXCEPT ![j] = "running"]

Succeed(j) ==
    /\ state[j] = "running"
    /\ \A d \in Wants[j] : state[d] = "ok"
    /\ state' = [state EXCEPT ![j] = "ok"]

Fail(j) ==
    /\ state[j] = "running"
    /\ state' = [state EXCEPT ![j] = "fail"]

Next == \E j \in Jobs : Start(j) \/ Succeed(j) \/ Fail(j)

Spec == Init /\ [][Next]_state
============================================================================
