--------------------------- MODULE MCRunnerClient ---------------------------
(* Small instances of RunnerClient for TLC.                                  *)
EXTENDS RunnerClient, TLC

CONSTANTS i1, j1

\* j1 is a job of i1, the others are jobs of the other instance, if any.
MCInstanceOf ==
    [j \in Job |-> IF j = j1 \/ Instance = {i1} THEN i1
                   ELSE CHOOSE i \in Instance : i # i1]

\* Messages are lost, the program dies or exits, its registration is deleted,
\* jobs of silent processes are taken back.
Anything == EnvEvents

\* Other runners take jobs; every message arrives.
Orderly == {"others"}
=============================================================================
