---------------------------- MODULE MCRunnerJobs ----------------------------
(* Small instances of RunnerJobs for TLC: the main job m and its children,   *)
(* and possibly other main jobs, which a new transcoding creates.            *)
EXTENDS RunnerJobsLifecycle, TLC

CONSTANTS m, Child

MCParent == [j \in Job |-> IF j \in Child THEN m ELSE None]

\* Handlers of one job overlap in every way.
Racing == {"overlap", "abort", "error", "cancel", "watchdog", "watchdogFails"}

\* Jobs and the video are deleted while it is transcoded, statements of the
\* handlers and of the builder reject, the server restarts at any point.
Faults == {"overlap", "duringBuild", "delete", "deleteVideo", "builderFails",
           "completeFails", "handlerFails", "crash"}

MCSymmetry ==
    Permutations(Child) \cup Permutations(Runner) \cup Permutations(Request)
      \cup Permutations(Token)
=============================================================================
