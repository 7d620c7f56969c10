---------------------------- MODULE JobLifecycle ----------------------------
(***************************************************************************)
(* What the runnerJob table promises to the runners and to the video, one  *)
(* state per job and no handlers, tokens or saves: a job is offered, taken *)
(* by a runner, given back or failed, and ends once, successfully or not;  *)
(* a child follows its parent.                                             *)
(***************************************************************************)
EXTENDS Naturals

CONSTANTS
    Job,          \* runner jobs that may be created
    Parent,       \* the job each one waits for, None for a main job
    Runner,       \* remote runners
    None,         \* no parent, no runner
    MaxFailures   \* attempts a job is given

VARIABLES
    phase,     \* where each job is in its life
    holder,    \* the runner that has it, None when nobody does
    failures   \* attempts that failed

vars == <<phase, holder, failures>>

Phase == { "absent", "waiting", "offered", "held", "ending", "done", "dead" }

\* A job an administrator may still take back.
Open == { "waiting", "offered", "held" }

TypeOK ==
    /\ phase \in [Job -> Phase]
    /\ holder \in [Job -> Runner \cup {None}]
    /\ failures \in [Job -> 0..MaxFailures]

-----------------------------------------------------------------------------
Enter(j, p) == phase' = [phase EXCEPT ![j] = p]

\* A main job is offered at once, a child waits for its parent.
Create(j) ==
    /\ phase[j] = "absent"
    /\ Parent[j] = None \/ phase[Parent[j]] # "absent"
    /\ Enter(j, IF Parent[j] = None THEN "offered" ELSE "waiting")
    /\ UNCHANGED <<holder, failures>>

\* The output of the parent is there: every child is offered.
Release(p) ==
    /\ phase[p] = "done"
    /\ phase' = [k \in Job |-> IF Parent[k] = p /\ phase[k] = "waiting"
                               THEN "offered" ELSE phase[k]]
    /\ UNCHANGED <<holder, failures>>

Take(j, r) ==
    /\ phase[j] = "offered"
    /\ Enter(j, "held")
    /\ holder' = [holder EXCEPT ![j] = r]
    /\ UNCHANGED failures

\* The runner is deleted: its jobs stay held, by nobody.
Desert(r) ==
    /\ holder' = [j \in Job |-> IF holder[j] = r THEN None ELSE holder[j]]
    /\ UNCHANGED <<phase, failures>>

\* The runner aborts, or says nothing for too long: no attempt is counted.
GiveBack(j) ==
    /\ phase[j] = "held"
    /\ Enter(j, "offered")
    /\ holder' = [holder EXCEPT ![j] = None]
    /\ UNCHANGED failures

\* An attempt fails: the job is offered again until it had MaxFailures.  A
\* dead job keeps the runner it had last.
Fail(j) ==
    /\ phase[j] = "held"
    /\ failures' = [failures EXCEPT ![j] = @ + 1]
    /\ IF failures'[j] < MaxFailures
       THEN Enter(j, "offered") /\ holder' = [holder EXCEPT ![j] = None]
       ELSE Enter(j, "dead") /\ UNCHANGED holder

\* Only a held job succeeds, and nothing stops it then.
Succeed(j) ==
    /\ phase[j] = "held"
    /\ Enter(j, "ending")
    /\ UNCHANGED <<holder, failures>>

End(j) ==
    /\ phase[j] = "ending"
    /\ Enter(j, "done")
    /\ UNCHANGED <<holder, failures>>

\* An administrator gives up a main job; a child dies after its parent only.
GiveUp(j) ==
    /\ phase[j] \in Open
    /\ Parent[j] = None \/ phase[Parent[j]] = "dead"
    /\ Enter(j, "dead")
    /\ UNCHANGED <<holder, failures>>

-----------------------------------------------------------------------------
Init ==
    /\ phase = [j \in Job |-> "absent"]
    /\ holder = [j \in Job |-> None]
    /\ failures = [j \in Job |-> 0]

Next ==
    \/ \E j \in Job : \/ Create(j) \/ Release(j) \/ GiveBack(j) \/ Fail(j)
                      \/ Succeed(j) \/ End(j) \/ GiveUp(j)
    \/ \E j \in Job, r \in Runner : Take(j, r)
    \/ \E r \in Runner : Desert(r)

Spec == Init /\ [][Next]_vars
=============================================================================
