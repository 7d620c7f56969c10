------------------------- MODULE RunnerJobsLifecycle -------------------------
(* The runnerJob table with its handlers implements JobLifecycle, as long as *)
(* handlers of one job do not overlap and administrators leave children      *)
(* alone.                                                                    *)
EXTENDS RunnerJobs

PhaseOf(state) ==
    CASE state \in Absent -> "absent"
      [] state = "WAITING_FOR_PARENT_JOB" -> "waiting"
      [] state = "PENDING" -> "offered"
      [] state = "PROCESSING" -> "held"
      [] state = "COMPLETING" -> "ending"
      [] state = "COMPLETED" -> "done"
      [] OTHER -> "dead"

Lifecycle ==
    INSTANCE JobLifecycle
    WITH phase <- [j \in Job |-> PhaseOf(job[j].state)],
         holder <- [j \in Job |-> job[j].runner],
         failures <- [j \in Job |-> job[j].failures]

\* Every statement of every handler is a step of the job's life or changes
\* nothing of it: the rows lead each job from its offer to one end, count its
\* failed attempts and nothing else, and let a child follow its parent.
ImplementsLifecycle == Lifecycle!Spec
=============================================================================
