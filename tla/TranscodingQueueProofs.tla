------------------------ MODULE TranscodingQueueProofs ------------------------
(***************************************************************************)
(* Proofs about TranscodingQueue, for any finite set of resolutions, any   *)
(* concurrency and any number of faults.                                   *)
(*                                                                         *)
(* The invariant Inv has five parts.  Stages and Flow say which jobs exist *)
(* and have run when a builder is where it is.  Inputs says which files    *)
(* the jobs still to run will find: a copy into HLS of a lower resolution  *)
(* runs after the web job of it, and the job that removes the web videos   *)
(* runs once.  Account says that, while nothing failed, the counter is the *)
(* number of jobs that have still to subtract themselves, but for those    *)
(* their builder has yet to add; and that no builder is at work once a job *)
(* may move the video on.  NoMove says that nothing is moved before.       *)
(***************************************************************************)
EXTENDS TranscodingQueue, FiniteSetTheorems, TLAPS

-----------------------------------------------------------------------------
(* The invariant.                                                          *)

HlsJob(r) == <<"hls", r>>

WebJob(r) == <<"web", r>>

\* Jobs that will still subtract themselves from the counter,
Pending == { "children", "ready", "load", "input", "encode", "removeWeb",
             "decrease", "failState" }

Owed == { j \in Transcoding : job[j] \in Pending }

\* and those their builder has not added yet.
Uncounted ==
    (IF job[Start] = "increase" THEN {Main} ELSE {})
        \cup (IF job[Build] = "increase" THEN Sequence(adding) ELSE {})

Created(j) == job[j] # "absent"

\* The steps each kind of job has.
Stages ==
    /\ job[Prepare] \in {"ready", "done", "failed"}
    /\ job[Start] \in {"children", "ready", "add", "increase", "done", "failed"}
    /\ job[Build] \in {"absent", "children", "ready", "add", "increase", "done",
                       "failed"}
    /\ \A j \in Transcoding : job[j] \notin Building

\* The order in which the jobs are created and run.
Flow ==
    /\ job[Start] \in {"ready", "add", "increase", "done"} =>
          job[Prepare] = "done"
    /\ job[Start] \in {"children", "ready", "add"} =>
          job[Build] = "absent" /\ \A j \in Transcoding : ~Created(j)
    /\ job[Build] = "absent" => ~Created(Main)
    /\ job[Build] = "children" => job[Main] \notin {"absent", "done", "failed"}
    /\ job[Build] \in {"ready", "add", "increase", "done"} => job[Main] = "done"
    /\ \A j \in Transcoding \ {Main} :
          Created(j) => /\ job[Build] \notin {"absent", "children", "ready"}
                        /\ j[2] \in Sequences /\ j \in Sequence(j[2])
                        /\ job[Build] \in Building => j[2] \notin left
    /\ left \subseteq Sequences
    /\ job[Build] = "increase" => adding \in Sequences

\* An HLS job that was not run yet, or is before the end of its run.
BeforeRemoval == {"absent", "children", "ready", "load", "input", "encode",
                  "removeWeb"}

\* The HLS job of a lower resolution runs after the web job of it.
WebBeforeHls ==
    setting.web => \A r \in Lower :
        job[HlsJob(r)] \notin {"absent", "children", "failed"} =>
           job[WebJob(r)] = "done"

\* The files the jobs still to run will read.
FilesKept ==
    /\ webFiles \cup hlsFiles # {}
    /\ job[HlsJob(Max)] = "removeWeb" => Max \in hlsFiles
    /\ setting.web => Max \in webFiles
    /\ \A r \in Lower :
          job[WebJob(r)] \in {"decrease", "next", "done"} => r \in webFiles
    /\ ~disturbed /\ ~setting.quick /\ job[HlsJob(Max)] \in BeforeRemoval =>
          Max \in webFiles

Inputs ==
    /\ \A j \in Transcoding :
          job[j] = "removeWeb" => j = HlsJob(Max) /\ ~setting.web
    /\ WebBeforeHls
    /\ video # "DELETED" => FilesKept

\* What the counter is, and which jobs may look at it next.
Balanced ==
    /\ pending = Cardinality(Owed \ Uncounted)
    /\ Uncounted \subseteq Owed
    /\ Owed \ Uncounted # {} => infoRow
    /\ \A j \in Job : job[j] \notin {"failDecrease", "failed"}
    /\ \A j \in Transcoding :
          job[j] = "next" =>
             /\ job[Start] = "done"
             /\ \/ job[Build] = "done"
                \/ j = Main /\ Sequences = {} /\ job[Build] = "children"

Account == ~disturbed /\ video = "TO_TRANSCODE" => Balanced

NoMove == video = "TO_TRANSCODE" => moveJobs = 0 /\ move = "idle"

Inv == TypeOK /\ Stages /\ Flow /\ Inputs /\ Account /\ NoMove

\* Job j goes on, or ends and frees the job that waits for it, or fails with it.
Ends == {"done", "failed"}

Moves(j, next) ==
    /\ job' \in [Job -> Step]
    /\ job'[j] = next
    /\ \A p \in Job \ {j} :
          job'[p] = IF next \in Ends /\ p \in Waiting(j)
                    THEN IF next = "done" THEN "ready" ELSE "failed"
                    ELSE job[p]

\* A transcoding job does a step of its life.
TranscodingMove(j, next) ==
    /\ Moves(j, next)
    /\ job[j] \in {"ready", "load"} \cup Working \cup Catching
    /\ next \in {"load"} \cup Working \cup Catching \cup Ends
    /\ next \in BeforeRemoval => job[j] \in BeforeRemoval
    /\ UNCHANGED <<setting, left, adding>>

-----------------------------------------------------------------------------
(* Jobs and flows.                                                         *)

\* The jobs of the video, which are told apart by kind and resolution.
LEMMA JobFacts ==
    /\ Prepare \in Job /\ Start \in Job /\ Build \in Job /\ Main \in Job
    /\ Transcoding \subseteq Job
    /\ Main \in Transcoding /\ HlsJob(Max) \in Transcoding
    /\ \A r \in Resolution : HlsJob(r) \in Transcoding
    /\ \A r \in Lower : WebJob(r) \in Transcoding /\ HlsJob(r) # HlsJob(Max)
    /\ Prepare \notin Transcoding /\ Start \notin Transcoding
    /\ Build \notin Transcoding
    /\ Prepare # Start /\ Prepare # Build /\ Start # Build
    /\ \A r, q : HlsJob(r) # WebJob(q)
    /\ \A r : HlsJob(r) # Main /\ WebJob(r) # Main
    /\ \A r, q : HlsJob(r) = HlsJob(q) => r = q
    /\ \A r, q : WebJob(r) = WebJob(q) => r = q
    /\ \A r : HlsJob(r)[1] = "hls" /\ HlsJob(r)[2] = r
    /\ \A r : WebJob(r)[1] = "web" /\ WebJob(r)[2] = r
<1>1. \A r \in Lower : HlsJob(r) # HlsJob(Max)
    BY QueueAssumption DEF HlsJob
<1>2. QED
    BY <1>1 DEF Job, Transcoding, Prepare, Start, Build, Main, HlsJob, WebJob,
       Resolution

\* The kinds of transcoding jobs.
LEMMA TranscodingCases ==
    ASSUME NEW j \in Transcoding
    PROVE  \/ j = Main
           \/ \E r \in Lower : j = WebJob(r)
           \/ \E r \in Resolution : j = HlsJob(r)
BY DEF Transcoding, WebJob, HlsJob

\* The parents and children of the flows.
LEMMA ChildOf ==
    ASSUME NEW p \in Job, NEW j \in Child(p)
    PROVE  \/ p = Start /\ j = Prepare
           \/ p = Build /\ j = Main
           \/ \E r \in Lower : p = HlsJob(r) /\ j = WebJob(r)
<1>1. CASE p = Start
    <2>1. Child(p) = {Prepare}
        BY <1>1 DEF Child, Start, Build
    <2>2. QED
        BY <1>1, <2>1
<1>2. CASE p = Build
    <2>1. Child(p) = {Main}
        BY <1>2 DEF Child, Start, Build
    <2>2. QED
        BY <1>2, <2>1
<1>3. CASE p \in Transcoding
    <2>1. CASE p = Main
        BY <2>1, JobFacts DEF Child, Main
    <2>2. CASE \E r \in Lower : p = WebJob(r)
        BY <1>3, <2>2, JobFacts DEF Child
    <2>3. CASE \E r \in Resolution : p = HlsJob(r)
        <3>1. PICK r \in Resolution : p = HlsJob(r)
            BY <2>3
        <3>2. j \in Sequence(r) \ {p}
            BY <1>3, <3>1, JobFacts DEF Child
        <3>3. j = WebJob(r) /\ r # Max
            BY <3>1, <3>2 DEF Sequence, HlsJob, WebJob
        <3>4. QED
            BY <3>1, <3>3 DEF Resolution
    <2>4. QED
        BY <1>3, <2>1, <2>2, <2>3, TranscodingCases
<1>4. CASE p = Prepare
    BY <1>4 DEF Child, Prepare, Start, Build
<1>5. QED
    BY <1>1, <1>2, <1>3, <1>4 DEF Job

\* Which job waits for which: start for the upload's jobs, the second builder
\* for main, the HLS job of a lower resolution for the web job of it.
LEMMA WaitingFacts ==
    /\ \A j : Waiting(j) \subseteq { p \in Job : job[p] = "children" }
    /\ \A j \in Job : j \notin Waiting(j)
    /\ \A j \in Transcoding : \A p \in Waiting(j) :
          \/ j = Main /\ p = Build
          \/ \E r \in Lower : j = WebJob(r) /\ p = HlsJob(r)
    /\ Waiting(Prepare) = IF job[Start] = "children" THEN {Start} ELSE {}
    /\ Waiting(Start) = {} /\ Waiting(Build) = {}
    /\ job[Build] = "children" => Build \in Waiting(Main)
    /\ setting.web => \A r \in Lower :
          job[HlsJob(r)] = "children" => HlsJob(r) \in Waiting(WebJob(r))
<1>1. \A j : \A p \in Waiting(j) : p \in Job /\ job[p] = "children" /\ j \in Child(p)
    BY DEF Waiting
<1>2. Prepare \in Child(Start) /\ Main \in Child(Build)
    BY DEF Child, Start, Build
<1>3. ASSUME NEW r \in Lower, setting.web PROVE WebJob(r) \in Child(HlsJob(r))
    <2>1. HlsJob(r) # Start /\ HlsJob(r) # Build /\ HlsJob(r)[1] = "hls"
             /\ HlsJob(r)[2] = r
        BY DEF HlsJob, Start, Build
    <2>2. WebJob(r) \in Sequence(r) \ {HlsJob(r)}
        BY <1>3, QueueAssumption DEF Sequence, WebJob, HlsJob
    <2>3. QED
        BY <2>1, <2>2 DEF Child
<1>4. \A r \in Lower : WebJob(r) # Prepare /\ WebJob(r) # Start /\ WebJob(r) # Build
    BY DEF WebJob, Prepare, Start, Build
<1>5. Main # Prepare /\ Main # Start /\ Main # Build
    BY DEF Main, Prepare, Start, Build
<1>6. \A j \in Job : j \notin Waiting(j)
    BY <1>1, ChildOf, JobFacts, <1>5
<1>7. \A j \in Transcoding : \A p \in Waiting(j) :
          \/ j = Main /\ p = Build
          \/ \E r \in Lower : j = WebJob(r) /\ p = HlsJob(r)
    BY <1>1, ChildOf, JobFacts
<1>8. Waiting(Prepare) = IF job[Start] = "children" THEN {Start} ELSE {}
    BY <1>1, <1>2, <1>4, <1>5, ChildOf, JobFacts DEF Waiting
<1>9. Waiting(Start) = {} /\ Waiting(Build) = {}
    BY <1>1, <1>4, <1>5, ChildOf, JobFacts
<1>10. job[Build] = "children" => Build \in Waiting(Main)
    BY <1>2, JobFacts DEF Waiting
<1>11. setting.web => \A r \in Lower :
          job[HlsJob(r)] = "children" => HlsJob(r) \in Waiting(WebJob(r))
    BY <1>3, JobFacts DEF Waiting, Resolution
<1>12. QED
    BY <1>1, <1>6, <1>7, <1>8, <1>9, <1>10, <1>11

\* The steps by name.
LEMMA StepFacts ==
    /\ Outside \subseteq Step /\ Catching \subseteq Step /\ Working \subseteq Step
    /\ Building \subseteq Step /\ "load" \in Step
BY DEF Step

\* A job that goes on leaves the others alone.
LEMMA GotoMoves ==
    ASSUME job \in [Job -> Step], NEW j \in Job, NEW next \in Step \ Ends,
           Goto(j, next)
    PROVE  Moves(j, next)
BY DEF Goto, Moves

\* A job that is completed makes the job that waits for it ready.
LEMMA CompletedMoves ==
    ASSUME job \in [Job -> Step], NEW j \in Job, job' = Completed(j)
    PROVE  Moves(j, "done")
BY WaitingFacts DEF Completed, Moves, Ends, Step, Outside

\* A job that fails fails it.
LEMMA FailedMoves ==
    ASSUME job \in [Job -> Step], NEW j \in Job, job' = Failed(j)
    PROVE  Moves(j, "failed")
BY WaitingFacts DEF Failed, Moves, Ends, Step, Outside

-----------------------------------------------------------------------------
(* Types.                                                                  *)

\* A sequence has two jobs at most, so the second builder adds a number to
\* the counter.
LEMMA SequenceFinite ==
    \A r : IsFiniteSet(Sequence(r)) /\ Cardinality(Sequence(r)) \in Nat
<1>1. TAKE r
<1>2. IsFiniteSet({HlsJob(r)} \cup {WebJob(r)})
    BY FS_Singleton, FS_Union
<1>3. Sequence(r) \subseteq {HlsJob(r)} \cup {WebJob(r)}
    BY DEF Sequence, HlsJob, WebJob
<1>4. QED
    BY <1>2, <1>3, FS_Subset, FS_CardinalityType

\* Adding to the counter keeps its type.
LEMMA IncreaseTyped ==
    ASSUME TypeOK, NEW n \in Nat, IncreaseOrCreate(n)
    PROVE  pending' \in Int /\ infoRow' \in BOOLEAN
<1>1. CASE video = "DELETED"
    BY <1>1 DEF IncreaseOrCreate, counterVars, TypeOK
<1>2. CASE video # "DELETED"
    BY <1>2 DEF IncreaseOrCreate, TypeOK
<1>3. QED
    BY <1>1, <1>2

\* Moving the video on keeps the types of what it changes.
LEMMA MoveToNextStateTyped ==
    ASSUME TypeOK, MoveToNextState
    PROVE  /\ video' \in VideoState /\ infoRow' \in BOOLEAN
           /\ pendingMove' \in Int /\ moveJobs' \in Nat
<1>1. \/ video' = "PUBLISHED" /\ UNCHANGED <<infoRow, pendingMove, moveJobs>>
      \/ /\ video' = "TO_MOVE_TO_EXTERNAL_STORAGE" /\ infoRow' = TRUE
         /\ pendingMove' = pendingMove + 1 /\ moveJobs' = moveJobs + 1
      \/ UNCHANGED <<video, infoRow, pendingMove, moveJobs>>
    BY DEF MoveToNextState
<1>2. infoRow' \in BOOLEAN
    BY <1>1 DEF TypeOK
<1>3. video' \in VideoState
    BY <1>1 DEF TypeOK, VideoState
<1>4. pendingMove' \in Int /\ moveJobs' \in Nat
    BY <1>1 DEF TypeOK
<1>5. QED
    BY <1>2, <1>3, <1>4

\* Every step keeps the types.
LEMMA TypeOKNext ==
    ASSUME TypeOK, [Next]_vars
    PROVE  TypeOK'
<1> USE QueueAssumption
<1>1. ASSUME PrepareEnds PROVE TypeOK'
    <2>1. job' \in [Job -> Step]
        BY <1>1, CompletedMoves, JobFacts DEF PrepareEnds, Moves, TypeOK
    <2>2. QED
        BY <1>1, <2>1
        DEF TypeOK, PrepareEnds, buildVars, counterVars, fileVars, moveVars
<1>2. ASSUME NEW b \in {Start, Build}, TakeBuilder(b) PROVE TypeOK'
    <2>1. job' \in [Job -> Step]
        BY <1>2, JobFacts, StepFacts DEF TakeBuilder, Goto, Building, TypeOK
    <2>2. QED
        BY <1>2, <2>1
        DEF TypeOK, TakeBuilder, counterVars, fileVars, moveVars, Sequences,
            Setting, Resolution
<1>3. ASSUME CreateOptimizeJobs PROVE TypeOK'
    <2>1. job' \in [Job -> Step]
        BY <1>3, FailedMoves, JobFacts, StepFacts
        DEF CreateOptimizeJobs, Building, Outside, Moves, TypeOK
    <2>2. QED
        BY <1>3, <2>1
        DEF TypeOK, CreateOptimizeJobs, buildVars, counterVars, fileVars,
            moveVars
<1>4. ASSUME CountOptimizeJob PROVE TypeOK'
    <2>1. job' \in [Job -> Step]
        BY <1>4, FailedMoves, CompletedMoves, JobFacts
        DEF CountOptimizeJob, Moves, TypeOK
    <2>2. pending' \in Int /\ infoRow' \in BOOLEAN
        BY <1>4, SequenceFinite, IncreaseTyped DEF CountOptimizeJob
    <2>3. QED
        BY <1>4, <2>1, <2>2
        DEF TypeOK, CountOptimizeJob, buildVars, fileVars, moveVars
<1>5. ASSUME CountSequence PROVE TypeOK'
    <2>1. job' \in [Job -> Step]
        BY <1>5, FailedMoves, JobFacts, StepFacts
        DEF CountSequence, Goto, Building, Moves, TypeOK
    <2>2. pending' \in Int /\ infoRow' \in BOOLEAN
        BY <1>5, SequenceFinite, IncreaseTyped DEF CountSequence
    <2>3. QED
        BY <1>5, <2>1, <2>2 DEF TypeOK, CountSequence, fileVars, moveVars
<1>6. ASSUME EndBuild PROVE TypeOK'
    <2>1. job' \in [Job -> Step]
        BY <1>6, CompletedMoves, JobFacts DEF EndBuild, Moves, TypeOK
    <2>2. QED
        BY <1>6, <2>1
        DEF TypeOK, EndBuild, buildVars, counterVars, fileVars, moveVars
<1>7. ASSUME NEW r \in Resolution, CreateSequentialJobFlow(r) PROVE TypeOK'
    <2>1. job' \in [Job -> Step]
        BY <1>7, StepFacts
        DEF CreateSequentialJobFlow, Building, Outside, TypeOK
    <2>2. QED
        BY <1>7, <2>1
        DEF TypeOK, CreateSequentialJobFlow, counterVars, fileVars, moveVars
<1>8. ASSUME NEW j \in Transcoding, Take(j) PROVE TypeOK'
    <2>1. job' \in [Job -> Step]
        BY <1>8, JobFacts, StepFacts DEF Take, Goto, TypeOK
    <2>2. QED
        BY <1>8, <2>1
        DEF TypeOK, Take, buildVars, counterVars, fileVars, moveVars
<1>9. ASSUME NEW j \in Transcoding, LoadVideo(j) PROVE TypeOK'
    <2>1. job' \in [Job -> Step]
        BY <1>9, CompletedMoves, JobFacts, StepFacts
        DEF LoadVideo, Goto, Moves, Working, TypeOK
    <2>2. QED
        BY <1>9, <2>1
        DEF TypeOK, LoadVideo, buildVars, counterVars, fileVars, moveVars
<1>10. ASSUME NEW j \in Transcoding, StartFFmpeg(j) PROVE TypeOK'
    <2>1. job' \in [Job -> Step]
        BY <1>10, JobFacts, StepFacts
        DEF StartFFmpeg, Goto, Working, Catching, TypeOK
    <2>2. QED
        BY <1>10, <2>1
        DEF TypeOK, StartFFmpeg, buildVars, counterVars, moveVars, Goto
<1>11. ASSUME NEW j \in Transcoding, SaveFile(j) PROVE TypeOK'
    <2>1. job' \in [Job -> Step]
        BY <1>11, JobFacts, StepFacts
        DEF SaveFile, Goto, Working, Catching, TypeOK
    <2>2. j[2] \in Resolution
        BY DEF Transcoding, Main, Resolution
    <2>3. hlsFiles' \subseteq Resolution /\ webFiles' \subseteq Resolution
        BY <1>11, <2>2 DEF SaveFile, TypeOK
    <2>4. QED
        BY <1>11, <2>1, <2>3
        DEF TypeOK, SaveFile, buildVars, counterVars, moveVars, Goto,
            Transcoding, Resolution
<1>12. ASSUME NEW j \in Transcoding, RemoveAllWebVideoFiles(j) PROVE TypeOK'
    <2>1. job' \in [Job -> Step]
        BY <1>12, JobFacts, StepFacts
        DEF RemoveAllWebVideoFiles, Goto, Working, TypeOK
    <2>2. QED
        BY <1>12, <2>1
        DEF TypeOK, RemoveAllWebVideoFiles, buildVars, counterVars, moveVars
<1>13. ASSUME NEW j \in Transcoding, OnTranscodingEnded(j) PROVE TypeOK'
    <2>1. job' \in [Job -> Step]
        BY <1>13, CompletedMoves, JobFacts, StepFacts
        DEF OnTranscodingEnded, Goto, Moves, Working, TypeOK
    <2>2. QED
        BY <1>13, <2>1
        DEF TypeOK, OnTranscodingEnded, buildVars, fileVars, moveVars, Decrease
<1>14. ASSUME NEW j \in Transcoding, NextState(j) PROVE TypeOK'
    <2>1. job' \in [Job -> Step]
        BY <1>14, CompletedMoves, JobFacts DEF NextState, Moves, TypeOK
    <2>2. QED
        BY <1>14, <2>1, MoveToNextStateTyped
        DEF TypeOK, NextState, buildVars, fileVars
<1>15. ASSUME NEW j \in Transcoding, MoveToFailedTranscodingState(j) PROVE TypeOK'
    <2>1. job' \in [Job -> Step]
        BY <1>15, JobFacts, StepFacts
        DEF MoveToFailedTranscodingState, Goto, Catching, TypeOK
    <2>2. QED
        BY <1>15, <2>1
        DEF TypeOK, MoveToFailedTranscodingState, buildVars, counterVars,
            fileVars, moveVars, VideoState
<1>16. ASSUME NEW j \in Transcoding, FailDecrease(j) PROVE TypeOK'
    <2>1. job' \in [Job -> Step]
        BY <1>16, FailedMoves, JobFacts DEF FailDecrease, Moves, TypeOK
    <2>2. QED
        BY <1>16, <2>1
        DEF TypeOK, FailDecrease, buildVars, fileVars, moveVars, Decrease
<1>17. ASSUME TakeMove PROVE TypeOK'
    BY <1>17 DEF TypeOK, TakeMove, buildVars, counterVars, fileVars, MoveStep
<1>18. ASSUME MoveFiles PROVE TypeOK'
    BY <1>18 DEF TypeOK, MoveFiles, buildVars, counterVars, fileVars, MoveStep
<1>19. ASSUME DecreasePendingMove PROVE TypeOK'
    BY <1>19
    DEF TypeOK, DecreasePendingMove, buildVars, counterVars, fileVars, MoveStep
<1>20. ASSUME DoAfterLastMove PROVE TypeOK'
    BY <1>20, MoveToNextStateTyped
    DEF TypeOK, DoAfterLastMove, buildVars, fileVars, MoveStep
<1>21. ASSUME NEW b \in {Prepare, Start, Build}, BuildFails(b) PROVE TypeOK'
    <2>1. job' \in [Job -> Step]
        BY <1>21, FailedMoves, JobFacts DEF BuildFails, Moves, TypeOK
    <2>2. QED
        BY <1>21, <2>1
        DEF TypeOK, BuildFails, buildVars, counterVars, fileVars, moveVars,
            Fault
<1>22. ASSUME NEW j \in Transcoding, TranscodingFails(j) PROVE TypeOK'
    <2>1. job' \in [Job -> Step]
        BY <1>22, FailedMoves, JobFacts, StepFacts
        DEF TranscodingFails, Goto, Catching, Moves, TypeOK
    <2>2. QED
        BY <1>22, <2>1
        DEF TypeOK, TranscodingFails, buildVars, counterVars, fileVars,
            moveVars, Fault
<1>23. ASSUME MoveFails PROVE TypeOK'
    BY <1>23
    DEF TypeOK, MoveFails, buildVars, counterVars, fileVars, MoveStep, Fault,
        VideoState
<1>24. ASSUME Restart PROVE TypeOK'
    <2>1. job' \in [Job -> Step]
        BY <1>24, StepFacts DEF Restart, Outside, TypeOK
    <2>2. QED
        BY <1>24, <2>1
        DEF TypeOK, Restart, buildVars, counterVars, fileVars, Fault, MoveStep
<1>25. ASSUME DeleteVideo PROVE TypeOK'
    <2>1. video' \in VideoState /\ infoRow' \in BOOLEAN
        BY <1>25 DEF DeleteVideo, VideoState
    <2>2. faults' \in 0 .. MaxFaults
        BY <1>25 DEF DeleteVideo, Fault, TypeOK
    <2>3. QED
        BY <1>25, <2>1, <2>2 DEF DeleteVideo, TypeOK, buildVars
<1>26. ASSUME UNCHANGED vars PROVE TypeOK'
    BY <1>26 DEF TypeOK, vars, buildVars, counterVars, fileVars, moveVars
<1>27. ASSUME NEW j \in Transcoding, MoveJobNotQueued(j) PROVE TypeOK'
    <2>1. job' \in [Job -> Step]
        BY <1>27, CompletedMoves, JobFacts DEF MoveJobNotQueued, Moves, TypeOK
    <2>2. /\ video' \in VideoState
          /\ \/ infoRow' = TRUE /\ pendingMove' = pendingMove + 1
             \/ UNCHANGED <<infoRow, pendingMove>>
        BY <1>27 DEF MoveJobNotQueued, VideoState
    <2>3. infoRow' \in BOOLEAN
        BY <2>2 DEF TypeOK
    <2>4. pendingMove' \in Int
        BY <2>2 DEF TypeOK
    <2>5. faults' \in 0 .. MaxFaults /\ disturbed' \in BOOLEAN
        BY <1>27 DEF MoveJobNotQueued, Fault, TypeOK
    <2>6. QED
        BY <1>27, <2>1, <2>2, <2>3, <2>4, <2>5
        DEF TypeOK, MoveJobNotQueued, buildVars, fileVars
<1>28. QED
    BY <1>1, <1>2, <1>3, <1>4, <1>5, <1>6, <1>7, <1>8, <1>9, <1>10, <1>11,
        <1>12, <1>13, <1>14, <1>15, <1>16, <1>17, <1>18, <1>19, <1>20, <1>21,
        <1>22, <1>23, <1>24, <1>25, <1>26, <1>27
    DEF Next, BuilderStep, TranscodingStep, MoveJobStep

-----------------------------------------------------------------------------
(* Moves of the jobs.                                                      *)

\* Each step of a transcoding job, a failing one included, moves that job.
LEMMA TranscodingMoves ==
    ASSUME TypeOK, NEW j \in Transcoding,
           \/ Take(j) \/ TranscodingStep(j)
           \/ TranscodingFails(j) \/ MoveJobNotQueued(j)
    PROVE  \E next : TranscodingMove(j, next)
<1> USE JobFacts, StepFacts DEF TypeOK, buildVars, Working, Catching, Ends,
        BeforeRemoval
<1>1. ASSUME NEW next \in Step \ Ends, Goto(j, next) PROVE Moves(j, next)
    BY <1>1, GotoMoves
<1>2. job' = Completed(j) => Moves(j, "done")
    BY CompletedMoves
<1>3. job' = Failed(j) => Moves(j, "failed")
    BY FailedMoves
<1>4. CASE Take(j)
    <2>1. Moves(j, "load")
        BY <1>1, <1>4 DEF Take
    <2>2. TranscodingMove(j, "load")
        BY <1>4, <2>1 DEF Take, TranscodingMove
    <2>3. QED
        BY <2>2
<1>5. CASE LoadVideo(j)
    <2>1. Moves(j, "done") \/ Moves(j, "input")
        BY <1>1, <1>2, <1>5 DEF LoadVideo
    <2>2. TranscodingMove(j, "done") \/ TranscodingMove(j, "input")
        BY <1>5, <2>1 DEF LoadVideo, TranscodingMove
    <2>3. QED
        BY <2>2
<1>6. CASE StartFFmpeg(j)
    <2>1. Moves(j, "encode") \/ Moves(j, "failState")
        BY <1>1, <1>6 DEF StartFFmpeg
    <2>2. TranscodingMove(j, "encode") \/ TranscodingMove(j, "failState")
        BY <1>6, <2>1 DEF StartFFmpeg, TranscodingMove
    <2>3. QED
        BY <2>2
<1>7. CASE SaveFile(j)
    <2>1. Moves(j, "removeWeb") \/ Moves(j, "decrease") \/ Moves(j, "failState")
        BY <1>1, <1>7 DEF SaveFile
    <2>2. \/ TranscodingMove(j, "removeWeb") \/ TranscodingMove(j, "decrease")
          \/ TranscodingMove(j, "failState")
        BY <1>7, <2>1 DEF SaveFile, TranscodingMove
    <2>3. QED
        BY <2>2
<1>8. CASE RemoveAllWebVideoFiles(j)
    <2>1. Moves(j, "decrease")
        BY <1>1, <1>8 DEF RemoveAllWebVideoFiles
    <2>2. TranscodingMove(j, "decrease")
        BY <1>8, <2>1 DEF RemoveAllWebVideoFiles, TranscodingMove
    <2>3. QED
        BY <2>2
<1>9. CASE OnTranscodingEnded(j)
    <2>1. Moves(j, "next") \/ Moves(j, "done")
        BY <1>1, <1>2, <1>9 DEF OnTranscodingEnded
    <2>2. TranscodingMove(j, "next") \/ TranscodingMove(j, "done")
        BY <1>9, <2>1 DEF OnTranscodingEnded, TranscodingMove
    <2>3. QED
        BY <2>2
<1>10. CASE NextState(j)
    <2>1. Moves(j, "done")
        BY <1>2, <1>10 DEF NextState
    <2>2. TranscodingMove(j, "done")
        BY <1>10, <2>1 DEF NextState, TranscodingMove
    <2>3. QED
        BY <2>2
<1>11. CASE MoveToFailedTranscodingState(j)
    <2>1. Moves(j, "failDecrease")
        BY <1>1, <1>11 DEF MoveToFailedTranscodingState
    <2>2. TranscodingMove(j, "failDecrease")
        BY <1>11, <2>1 DEF MoveToFailedTranscodingState, TranscodingMove
    <2>3. QED
        BY <2>2
<1>12. CASE FailDecrease(j)
    <2>1. Moves(j, "failed")
        BY <1>3, <1>12 DEF FailDecrease
    <2>2. TranscodingMove(j, "failed")
        BY <1>12, <2>1 DEF FailDecrease, TranscodingMove
    <2>3. QED
        BY <2>2
<1>13. CASE TranscodingFails(j)
    <2>1. Moves(j, "failState") \/ Moves(j, "failed")
        BY <1>1, <1>3, <1>13 DEF TranscodingFails
    <2>2. TranscodingMove(j, "failState") \/ TranscodingMove(j, "failed")
        BY <1>13, <2>1 DEF TranscodingFails, TranscodingMove
    <2>3. QED
        BY <2>2
<1>14. CASE MoveJobNotQueued(j)
    <2>1. Moves(j, "done")
        BY <1>2, <1>14 DEF MoveJobNotQueued
    <2>2. TranscodingMove(j, "done")
        BY <1>14, <2>1 DEF MoveJobNotQueued, TranscodingMove
    <2>3. QED
        BY <2>2
<1>15. QED
    BY <1>4, <1>5, <1>6, <1>7, <1>8, <1>9, <1>10, <1>11, <1>12, <1>13, <1>14
    DEF TranscodingStep

\* What such a move does to the other jobs.
LEMMA MoveFrees ==
    ASSUME NEW j \in Transcoding, NEW next, Moves(j, next)
    PROVE  /\ job'[Prepare] = job[Prepare] /\ job'[Start] = job[Start]
           /\ job'[Build] = IF j = Main /\ next \in Ends /\ job[Build] = "children"
                            THEN IF next = "done" THEN "ready" ELSE "failed"
                            ELSE job[Build]
           /\ \A k \in Transcoding \ {j} :
                 \/ job'[k] = job[k]
                 \/ /\ job[k] = "children"
                    /\ \E r \in Lower : j = WebJob(r) /\ k = HlsJob(r)
                    /\ \/ next = "done" /\ job'[k] = "ready"
                       \/ next = "failed" /\ job'[k] = "failed"
           /\ setting.web => \A r \in Lower :
                 j = WebJob(r) /\ job[HlsJob(r)] = "children" =>
                    /\ next = "done" => job'[HlsJob(r)] = "ready"
                    /\ next = "failed" => job'[HlsJob(r)] = "failed"
<1>1. job'[Prepare] = job[Prepare] /\ job'[Start] = job[Start]
    BY JobFacts, WaitingFacts DEF Moves, Resolution
<1>2. job'[Build] = IF j = Main /\ next \in Ends /\ job[Build] = "children"
                    THEN IF next = "done" THEN "ready" ELSE "failed"
                    ELSE job[Build]
    BY JobFacts, WaitingFacts DEF Moves, Resolution
<1>3. ASSUME NEW k \in Transcoding \ {j}, job'[k] # job[k]
      PROVE  /\ job[k] = "children"
             /\ \E r \in Lower : j = WebJob(r) /\ k = HlsJob(r)
             /\ \/ next = "done" /\ job'[k] = "ready"
                \/ next = "failed" /\ job'[k] = "failed"
    BY <1>3, JobFacts, WaitingFacts DEF Moves, Ends
<1>4. ASSUME setting.web, NEW r \in Lower, j = WebJob(r),
             job[HlsJob(r)] = "children"
      PROVE  /\ next = "done" => job'[HlsJob(r)] = "ready"
             /\ next = "failed" => job'[HlsJob(r)] = "failed"
    BY <1>4, JobFacts, WaitingFacts DEF Moves, Ends, Resolution
<1>5. QED
    BY <1>1, <1>2, <1>3, <1>4

\* The jobs of a sequence.
LEMMA SequenceFacts ==
    ASSUME NEW r \in Resolution
    PROVE  /\ Sequence(r) \subseteq Transcoding \ {Main}
           /\ \A k \in Sequence(r) : k[2] = r
           /\ \A k \in Sequence(r) : k = WebJob(r) \/ k = HlsJob(r)
           /\ HlsJob(r) \in Sequence(r) <=> setting.hls
           /\ WebJob(r) \in Sequence(r) <=> setting.web /\ r # Max
<1>1. \A k \in Sequence(r) : \/ k = WebJob(r) /\ r # Max
                             \/ k = HlsJob(r)
    BY DEF Sequence, WebJob, HlsJob
<1>2. HlsJob(r) \in Sequence(r) <=> setting.hls
    BY DEF Sequence, HlsJob
<1>3. WebJob(r) \in Sequence(r) <=> setting.web /\ r # Max
    BY DEF Sequence, WebJob
<1>4. QED
    BY <1>1, <1>2, <1>3, JobFacts DEF Resolution

\* What a move of a builder does to the other jobs.
LEMMA BuilderFrees ==
    ASSUME NEW b \in {Prepare, Start, Build}, NEW next, Moves(b, next)
    PROVE  /\ \A k \in Transcoding : job'[k] = job[k]
           /\ b # Prepare => job'[Prepare] = job[Prepare]
           /\ b # Build => job'[Build] = job[Build]
           /\ b = Build => job'[Start] = job[Start]
           /\ b = Prepare =>
                 job'[Start] = IF next \in Ends /\ job[Start] = "children"
                               THEN IF next = "done" THEN "ready" ELSE "failed"
                               ELSE job[Start]
BY JobFacts, WaitingFacts DEF Moves

\* The configuration does not change.
LEMMA SettingKept ==
    ASSUME [Next]_vars
    PROVE  setting' = setting
BY DEF Next, vars, BuilderStep, TranscodingStep, MoveJobStep, PrepareEnds,
   TakeBuilder, CreateOptimizeJobs, CountOptimizeJob, CountSequence, EndBuild,
   CreateSequentialJobFlow, Take, LoadVideo, StartFFmpeg, SaveFile,
   RemoveAllWebVideoFiles, OnTranscodingEnded, NextState,
   MoveToFailedTranscodingState, FailDecrease, TakeMove, MoveFiles,
   DecreasePendingMove, DoAfterLastMove, BuildFails, TranscodingFails,
   MoveJobNotQueued, MoveFails, Restart, DeleteVideo

\* What the builders' steps do to the jobs.
BuilderMove(b, next) ==
    /\ Moves(b, next)
    /\ b # Build => adding' = adding
    /\ \/ b = Prepare /\ job[b] = "ready" /\ next \in Ends /\ left' = left
       \/ b = Start /\ job[b] = "ready" /\ next = "add" /\ left' = left
       \/ b = Start /\ job[b] \in Building /\ next = "failed" /\ left' = left
       \/ b = Start /\ job[b] = "increase" /\ next = "done" /\ left' = left
       \/ b = Build /\ job[b] = "ready" /\ next = "add" /\ left' = Sequences
       \/ b = Build /\ job[b] \in Building /\ next = "failed" /\ left' = left
       \/ b = Build /\ job[b] = "increase" /\ next = "add" /\ left' = left
       \/ b = Build /\ job[b] = "add" /\ next = "done" /\ left' = left

\* The steps of the builders but those that create jobs.
LEMMA BuilderMoves ==
    ASSUME TypeOK, Stages,
           \/ PrepareEnds \/ CountOptimizeJob \/ CountSequence \/ EndBuild
           \/ CreateOptimizeJobs /\ video = "DELETED"
           \/ \E b \in {Start, Build} : TakeBuilder(b)
           \/ \E b \in {Prepare, Start, Build} : BuildFails(b)
    PROVE  \E b \in {Prepare, Start, Build}, next \in Step : BuilderMove(b, next)
<1> USE JobFacts, StepFacts DEF TypeOK, buildVars, Building, Ends
<1>1. ASSUME NEW b \in Job, NEW next \in Step \ Ends, Goto(b, next)
      PROVE  Moves(b, next)
    BY <1>1, GotoMoves
<1>2. \A b \in Job : job' = Completed(b) => Moves(b, "done")
    BY CompletedMoves
<1>3. \A b \in Job : job' = Failed(b) => Moves(b, "failed")
    BY FailedMoves
<1>4. "done" \in Step /\ "failed" \in Step
    BY DEF Step, Outside
<1>5. CASE PrepareEnds
    <2>1. BuilderMove(Prepare, "done")
        BY <1>2, <1>5 DEF PrepareEnds, BuilderMove
    <2>2. QED
        BY <1>4, <2>1
<1>6. CASE CountOptimizeJob
    <2>1. BuilderMove(Start, "done") \/ BuilderMove(Start, "failed")
        BY <1>2, <1>3, <1>6 DEF CountOptimizeJob, BuilderMove
    <2>2. QED
        BY <1>4, <2>1
<1>7. CASE CountSequence
    <2>1. BuilderMove(Build, "add") \/ BuilderMove(Build, "failed")
        BY <1>1, <1>3, <1>7 DEF CountSequence, BuilderMove
    <2>2. QED
        BY <1>4, <2>1
<1>8. CASE EndBuild
    <2>1. BuilderMove(Build, "done")
        BY <1>2, <1>8 DEF EndBuild, BuilderMove
    <2>2. QED
        BY <1>4, <2>1
<1>9. CASE CreateOptimizeJobs /\ video = "DELETED"
    <2>1. BuilderMove(Start, "failed")
        BY <1>3, <1>9 DEF CreateOptimizeJobs, BuilderMove
    <2>2. QED
        BY <1>4, <2>1
<1>10. ASSUME NEW b \in {Start, Build}, TakeBuilder(b)
       PROVE  \E next \in Step : BuilderMove(b, next)
    <2>1. BuilderMove(b, "add")
        BY <1>1, <1>10 DEF TakeBuilder, BuilderMove
    <2>2. QED
        BY <2>1
<1>11. ASSUME NEW b \in {Prepare, Start, Build}, BuildFails(b)
       PROVE  \E next \in Step : BuilderMove(b, next)
    <2>1. Moves(b, "failed")
        BY <1>3, <1>11 DEF BuildFails
    <2>2. job[Prepare] \notin Building
        BY DEF Stages
    <2>3. BuilderMove(b, "failed")
        BY <1>11, <2>1, <2>2 DEF BuildFails, BuilderMove
    <2>4. QED
        BY <1>4, <2>3
<1>12. QED
    BY <1>5, <1>6, <1>7, <1>8, <1>9, <1>10, <1>11

-----------------------------------------------------------------------------
(* Stages and flows.                                                       *)

\* Every step keeps Stages.
LEMMA StagesNext ==
    ASSUME TypeOK, Stages, Flow, [Next]_vars
    PROVE  Stages'
<1> USE JobFacts DEF Building
<1>1. ASSUME NEW b \in {Prepare, Start, Build}, NEW next, BuilderMove(b, next)
      PROVE  Stages'
    <2>1. Moves(b, next)
        BY <1>1 DEF BuilderMove
    <2>2. QED
        BY <1>1, <2>1, BuilderFrees DEF BuilderMove, Moves, Stages, Ends
<1>2. ASSUME CreateOptimizeJobs, video # "DELETED" PROVE Stages'
    <2>1. /\ job'[Prepare] = job[Prepare] /\ job'[Start] = "increase"
          /\ job'[Build] = "children" /\ job'[Main] = "ready"
          /\ \A k \in Transcoding \ {Main} : job'[k] = job[k]
        BY <1>2 DEF CreateOptimizeJobs, TypeOK
    <2>2. QED
        BY <2>1 DEF Stages
<1>3. ASSUME NEW r \in Resolution, CreateSequentialJobFlow(r) PROVE Stages'
    <2>1. /\ job'[Prepare] = job[Prepare] /\ job'[Start] = job[Start]
          /\ job'[Build] = "increase"
          /\ \A k \in Transcoding : job'[k] \in {job[k], "ready", "children"}
        BY <1>3, SequenceFacts DEF CreateSequentialJobFlow
    <2>2. QED
        BY <2>1 DEF Stages
<1>4. ASSUME NEW j \in Transcoding,
             \/ Take(j) \/ TranscodingStep(j)
             \/ TranscodingFails(j) \/ MoveJobNotQueued(j)
      PROVE  Stages'
    <2>1. PICK next : TranscodingMove(j, next)
        BY <1>4, TranscodingMoves
    <2>2. Moves(j, next) /\ next \notin Building
        BY <2>1 DEF TranscodingMove, Working, Catching, Ends
    <2>3. QED
        BY <2>2, MoveFrees DEF Moves, Stages
<1>5. ASSUME Restart PROVE Stages'
    <2>1. \A j \in Job : job'[j] = IF Active(j) THEN "ready" ELSE job[j]
        BY <1>5 DEF Restart
    <2>2. job[Build] # "absent" => job'[Build] # "absent"
        BY <2>1
    <2>3. QED
        BY <2>1 DEF Stages, Active, Outside
<1>6. ASSUME UNCHANGED job PROVE Stages'
    BY <1>6 DEF Stages
<1>7. ASSUME MoveJobStep \/ MoveFails \/ DeleteVideo \/ UNCHANGED vars
      PROVE  UNCHANGED job
    BY <1>7 DEF MoveJobStep, TakeMove, MoveFiles, DecreasePendingMove,
       DoAfterLastMove, MoveFails, DeleteVideo, vars
<1>8. QED
    BY <1>1, <1>2, <1>3, <1>4, <1>5, <1>6, <1>7, BuilderMoves
    DEF Next, BuilderStep

\* Every step keeps Flow.
LEMMA FlowNext ==
    ASSUME TypeOK, Stages, Flow, [Next]_vars
    PROVE  Flow'
<1> USE JobFacts DEF Building
<1>1. setting' = setting
    BY SettingKept
<1>2. ASSUME NEW b \in {Prepare, Start, Build}, NEW next, BuilderMove(b, next)
      PROVE  Flow'
    <2>1. Moves(b, next)
        BY <1>2 DEF BuilderMove
    <2>2. /\ \A k \in Transcoding : job'[k] = job[k]
          /\ b # Prepare => job'[Prepare] = job[Prepare]
          /\ b # Build => job'[Build] = job[Build]
          /\ b = Build => job'[Start] = job[Start]
          /\ b = Prepare =>
                 job'[Start] = IF next \in Ends /\ job[Start] = "children"
                               THEN IF next = "done" THEN "ready" ELSE "failed"
                               ELSE job[Start]
          /\ job'[b] = next
        BY <2>1, BuilderFrees DEF Moves
    <2>3. /\ b = Start => job[Start] # "children" /\ next # "ready"
          /\ job'[Build] = "absent" <=> job[Build] = "absent"
          /\ job'[Build] = "children" <=> job[Build] = "children"
          /\ job'[Build] = "ready" => job[Build] = "ready"
          /\ job'[Build] = "increase" => job[Build] = "increase" /\ adding' = adding
          /\ left' \in {left, Sequences}
          /\ left' # left => job[Build] = "ready"
        BY <1>2, <2>2 DEF BuilderMove, Ends, Stages
    <2>4. \/ b = Prepare /\ next \in Ends
          \/ b = Start /\ next \in Ends \cup {"add"}
          \/ b = Build /\ next \in Ends \cup {"add"}
        BY <1>2 DEF BuilderMove, Ends
    <2>5. b = Prepare => job[Start] \in {"children", "failed"}
        BY <1>2 DEF BuilderMove, Stages, Flow
    <2>6. (job[Start] \in {"ready", "add", "increase", "done"} =>
              job[Prepare] = "done")'
        BY <2>2, <2>4, <2>5, <1>2 DEF BuilderMove, Ends, Flow, Stages
    <2>7. job'[Start] \in {"children", "ready", "add"} =>
             job[Start] \in {"children", "ready", "add"}
        BY <2>2, <2>3, <1>2 DEF BuilderMove, Ends
    <2>8. (job[Start] \in {"children", "ready", "add"} =>
              job[Build] = "absent" /\ \A j \in Transcoding : ~Created(j))'
        BY <2>2, <2>3, <2>7 DEF Flow, Created
    <2>9. (job[Build] = "children" => job[Main] \notin {"absent", "done", "failed"})'
        BY <2>2, <2>3 DEF Flow
    <2>10. job'[Build] \in {"ready", "add", "increase", "done"} =>
              job[Build] \in {"ready", "add", "increase", "done"}
        BY <2>2, <1>2 DEF BuilderMove
    <2>11. (job[Build] \in {"ready", "add", "increase", "done"} =>
               job[Main] = "done")'
        BY <2>2, <2>10 DEF Flow
    <2>12. ASSUME NEW j \in Transcoding \ {Main}, Created(j)
           PROVE  /\ job'[Build] \notin {"absent", "children", "ready"}
                  /\ j[2] \in Sequences' /\ j \in Sequence(j[2])'
                  /\ job'[Build] \in Building => j[2] \notin left'
        <3>1. /\ job[Build] \notin {"absent", "children", "ready"}
              /\ j[2] \in Sequences /\ j \in Sequence(j[2])
              /\ job[Build] \in Building => j[2] \notin left
            BY <2>12 DEF Flow
        <3>2. job'[Build] \in Building => job[Build] \in Building
            BY <1>2, <2>2, <3>1 DEF BuilderMove
        <3>3. left' = left
            BY <2>3, <3>1
        <3>4. j[2] \in Sequences' /\ j \in Sequence(j[2])'
            BY <1>1, <3>1 DEF Sequences, Sequence
        <3>5. QED
            BY <2>3, <3>1, <3>2, <3>3, <3>4
    <2>13. left' \subseteq Sequences'
        BY <1>1, <2>3 DEF Flow, Sequences
    <2>14. (job[Build] = "increase" => adding \in Sequences)'
        BY <1>1, <2>3 DEF Flow, Sequences
    <2>15. \A j \in Transcoding : Created(j)' => Created(j)
        BY <2>2 DEF Created
    <2>16. (job[Build] = "absent" => ~Created(Main))'
        BY <2>2, <2>3 DEF Flow, Created
    <2>17. QED
        BY <2>16, <2>6, <2>8, <2>9, <2>11, <2>12, <2>13, <2>14, <2>15 DEF Flow
<1>3. ASSUME CreateOptimizeJobs, video # "DELETED" PROVE Flow'
    <2>1. /\ job'[Prepare] = job[Prepare] /\ job'[Start] = "increase"
          /\ job'[Build] = "children" /\ job'[Main] = "ready"
          /\ \A k \in Transcoding \ {Main} : job'[k] = job[k]
          /\ job[Start] = "add" /\ left' = left
        BY <1>3 DEF CreateOptimizeJobs, TypeOK, buildVars
    <2>2. job[Prepare] = "done" /\ \A k \in Transcoding : job[k] = "absent"
        BY <2>1 DEF Flow, Created
    <2>3. left' \subseteq Sequences'
        BY <1>1, <2>1 DEF Flow, Sequences
    <2>4. QED
        BY <2>1, <2>2, <2>3 DEF Flow, Created
<1>4. ASSUME NEW r \in Resolution, CreateSequentialJobFlow(r) PROVE Flow'
    <2>1. /\ job'[Prepare] = job[Prepare] /\ job'[Start] = job[Start]
          /\ job[Build] = "add" /\ job'[Build] = "increase"
          /\ job'[Main] = job[Main]
          /\ \A k \in Transcoding : k \notin Sequence(r) => job'[k] = job[k]
          /\ \A k \in Transcoding : job'[k] \in {job[k], "ready", "children"}
          /\ r \in left /\ left' = left \ {r} /\ adding' = r
        BY <1>4, SequenceFacts DEF CreateSequentialJobFlow
    <2>2. job[Start] \notin {"children", "ready", "add"} /\ job[Main] = "done"
        BY <2>1 DEF Flow
    <2>3. left' \subseteq Sequences' /\ r \in Sequences'
        BY <1>1, <2>1 DEF Flow, Sequences
    <2>4. ASSUME NEW k \in Transcoding \ {Main}, job'[k] # "absent"
          PROVE  /\ k[2] \in Sequences' /\ k \in Sequence(k[2])'
                 /\ k[2] \notin left'
        <3>1. CASE k \in Sequence(r)
            <4>1. k[2] = r /\ k \in Sequence(k[2])
                BY <3>1, SequenceFacts
            <4>2. QED
                BY <1>1, <2>1, <2>3, <4>1 DEF Sequence
        <3>2. CASE k \notin Sequence(r)
            <4>1. k[2] \in Sequences /\ k \in Sequence(k[2]) /\ k[2] \notin left
                BY <2>1, <2>4, <3>2 DEF Flow, Created
            <4>2. QED
                BY <1>1, <2>1, <4>1 DEF Sequences, Sequence
        <3>3. QED
            BY <3>1, <3>2
    <2>5. QED
        BY <2>1, <2>2, <2>3, <2>4 DEF Flow, Created
<1>5. ASSUME NEW j \in Transcoding,
             \/ Take(j) \/ TranscodingStep(j)
             \/ TranscodingFails(j) \/ MoveJobNotQueued(j)
      PROVE  Flow'
    <2>1. PICK next : TranscodingMove(j, next)
        BY <1>5, TranscodingMoves
    <2>2. /\ Moves(j, next) /\ job'[j] = next
          /\ job[j] \notin {"absent", "children", "done", "failed"}
          /\ next \notin {"absent", "children", "ready"}
          /\ left' = left /\ adding' = adding
        BY <2>1 DEF TranscodingMove, Moves, Working, Catching, Ends
    <2>3. /\ job'[Prepare] = job[Prepare] /\ job'[Start] = job[Start]
          /\ job'[Build] = IF j = Main /\ next \in Ends /\ job[Build] = "children"
                            THEN IF next = "done" THEN "ready" ELSE "failed"
                            ELSE job[Build]
          /\ \A k \in Transcoding : job'[k] # "absent" => job[k] # "absent"
          /\ j # Main => job'[Main] = job[Main]
        BY <2>2, MoveFrees
    <2>4. job[Build] \in {"absent", "ready", "add", "increase", "done"} => j # Main
        BY <2>2 DEF Flow, Created, Stages
    <2>5. ASSUME NEW k \in Transcoding \ {Main}, job'[k] # "absent"
          PROVE  /\ job'[Build] \notin {"absent", "children", "ready"}
                 /\ k[2] \in Sequences' /\ k \in Sequence(k[2])'
                 /\ job'[Build] \in Building => k[2] \notin left'
        <3>1. /\ job[Build] \notin {"absent", "children", "ready"}
              /\ k[2] \in Sequences /\ k \in Sequence(k[2])
              /\ job[Build] \in Building => k[2] \notin left
            BY <2>3, <2>5 DEF Flow, Created
        <3>2. k[2] \in Sequences' /\ k \in Sequence(k[2])'
            BY <1>1, <3>1 DEF Sequences, Sequence
        <3>3. QED
            BY <2>2, <2>3, <3>1, <3>2
    <2>6. left' \subseteq Sequences' /\ (job[Build] = "increase" => adding \in Sequences)'
        BY <1>1, <2>2, <2>3 DEF Flow, Sequences
    <2>7. job[Start] \notin {"children", "ready", "add"}
        BY <2>2 DEF Flow, Created
    <2>8. (job[Build] = "children" => job[Main] \notin {"absent", "done", "failed"})'
        BY <2>2, <2>3 DEF Flow, Ends
    <2>9. (job[Build] \in {"ready", "add", "increase", "done"} =>
              job[Main] = "done")'
        BY <2>2, <2>3, <2>4 DEF Flow
    <2>10. (job[Build] = "absent" => ~Created(Main))'
        BY <2>3, <2>4 DEF Flow, Created
    <2>11. QED
        BY <2>3, <2>5, <2>6, <2>7, <2>8, <2>9, <2>10 DEF Flow, Created
<1>6. ASSUME Restart PROVE Flow'
    <2>1. /\ \A j \in Job : job'[j] = IF job[j] \in Outside THEN job[j] ELSE "ready"
          /\ job[Start] # "increase" /\ job[Build] # "increase"
          /\ job[Build] = "add" => left = Sequences
          /\ left' = left
        BY <1>6 DEF Restart, Active, buildVars
    <2>2. job[Build] = "add" => \A k \in Transcoding \ {Main} : job[k] = "absent"
        BY <2>1 DEF Flow, Created
    <2>3. /\ job'[Prepare] = job[Prepare]
          /\ job'[Start] = IF job[Start] = "add" THEN "ready" ELSE job[Start]
          /\ job'[Build] = IF job[Build] = "add" THEN "ready" ELSE job[Build]
          /\ \A k \in Transcoding :
                job'[k] = IF job[k] \in Outside THEN job[k] ELSE "ready"
        BY <2>1 DEF Stages, Outside
    <2>4. ASSUME NEW k \in Transcoding \ {Main}, job'[k] # "absent"
          PROVE  /\ job'[Build] \notin {"absent", "children", "ready"}
                 /\ k[2] \in Sequences' /\ k \in Sequence(k[2])'
                 /\ job'[Build] \notin Building
        <3>1. /\ job[Build] \notin {"absent", "children", "ready", "add", "increase"}
              /\ k[2] \in Sequences /\ k \in Sequence(k[2])
            BY <2>1, <2>2, <2>3, <2>4 DEF Flow, Created, Outside
        <3>2. k[2] \in Sequences' /\ k \in Sequence(k[2])'
            BY <1>1, <3>1 DEF Sequences, Sequence
        <3>3. QED
            BY <2>3, <3>1, <3>2
    <2>5. left' \subseteq Sequences'
        BY <1>1, <2>1 DEF Flow, Sequences
    <2>6. job'[Build] # "increase"
        BY <2>1, <2>3
    <2>7. QED
        BY <2>3, <2>4, <2>5, <2>6 DEF Flow, Created, Outside
<1>7. ASSUME UNCHANGED <<job, left, adding>> PROVE Flow'
    BY <1>1, <1>7 DEF Flow, Created, Sequences, Sequence
<1>8. ASSUME MoveJobStep \/ MoveFails \/ DeleteVideo \/ UNCHANGED vars
      PROVE  UNCHANGED <<job, left, adding>>
    BY <1>8 DEF MoveJobStep, TakeMove, MoveFiles, DecreasePendingMove,
       DoAfterLastMove, MoveFails, DeleteVideo, vars, buildVars
<1>9. QED
    BY <1>2, <1>3, <1>4, <1>5, <1>6, <1>7, <1>8, BuilderMoves
    DEF Next, BuilderStep

-----------------------------------------------------------------------------
(* Files.                                                                  *)

\* A transcoding step that removes no file keeps Inputs.
LEMMA InputsKept ==
    ASSUME TypeOK, Stages, Flow, Inputs, NEW j \in Transcoding, NEW next,
           TranscodingMove(j, next), disturbed => disturbed',
           webFiles \subseteq webFiles', hlsFiles \subseteq hlsFiles',
           video' # "DELETED" => video # "DELETED",
           next = "removeWeb" =>
              j = HlsJob(Max) /\ ~setting.web /\ Max \in hlsFiles',
           video # "DELETED" /\ next \in {"decrease", "next", "done"} =>
              \/ job[j] \in {"decrease", "next", "removeWeb"}
              \/ j[1] = "hls" \/ j[2] \in webFiles'
    PROVE  Inputs'
<1> USE JobFacts
<1>1. /\ Moves(j, next) /\ job'[j] = next /\ setting' = setting
      /\ job[j] \notin {"absent", "children", "done", "failed"}
      /\ next \notin {"absent", "children", "ready"}
      /\ next \in BeforeRemoval => job[j] \in BeforeRemoval
    BY DEF TranscodingMove, Moves, Working, Catching, Ends
<1>2. \A k \in Transcoding \ {j} :
         \/ job'[k] = job[k]
         \/ /\ job[k] = "children" /\ job'[k] \in {"ready", "failed"}
            /\ \E r \in Lower : j = WebJob(r) /\ k = HlsJob(r)
    BY <1>1, MoveFrees
<1>3. \A k \in Transcoding : job'[k] = "removeWeb" =>
         \/ k = j /\ next = "removeWeb"
         \/ job[k] = "removeWeb"
    BY <1>1, <1>2
<1>4. WebBeforeHls'
    <2>1. SUFFICES ASSUME setting.web, NEW r \in Lower,
                          job'[HlsJob(r)] \notin {"absent", "children", "failed"}
                   PROVE  job'[WebJob(r)] = "done"
        BY <1>1 DEF WebBeforeHls
    <2>2. HlsJob(r) \in Transcoding
        BY DEF Resolution
    <2>3. CASE j = WebJob(r)
        <3>1. job[HlsJob(r)] \in {"absent", "children", "failed"}
            BY <1>1, <2>1, <2>3 DEF Inputs, WebBeforeHls
        <3>2. job[HlsJob(r)] = "children" /\ job'[HlsJob(r)] = "ready"
            BY <1>2, <2>1, <2>2, <2>3, <3>1
        <3>3. next = "done"
            BY <1>1, <2>2, <2>3, <3>2, MoveFrees
        <3>4. QED
            BY <1>1, <2>3, <3>3
    <2>4. CASE j # WebJob(r)
        <3>1. \A q \in Lower : j = WebJob(q) => HlsJob(r) # HlsJob(q)
            BY <2>4
        <3>2. job'[WebJob(r)] = job[WebJob(r)]
            BY <1>2, <2>4
        <3>3. job'[HlsJob(r)] = job[HlsJob(r)] \/ j = HlsJob(r)
            BY <1>2, <2>2, <3>1
        <3>4. job[WebJob(r)] = "done"
            BY <1>1, <2>1, <3>3 DEF Inputs, WebBeforeHls
        <3>5. QED
            BY <3>2, <3>4
    <2>5. QED
        BY <2>3, <2>4
<1>5. ASSUME video' # "DELETED" PROVE FilesKept'
    <2>1. FilesKept
        BY <1>5 DEF Inputs
    <2>2. job'[HlsJob(Max)] \in BeforeRemoval => job[HlsJob(Max)] \in BeforeRemoval
        BY <1>1, <1>2
    <2>3. \A r \in Lower : job'[WebJob(r)] \in {"decrease", "next", "done"} =>
                              \/ job[WebJob(r)] \in {"decrease", "next", "done"}
                              \/ r \in webFiles'
        <3>1. TAKE r \in Lower
        <3>2. job[WebJob(r)] # "removeWeb"
            BY DEF Inputs
        <3>3. QED
            BY <1>1, <1>2, <1>5, <3>2
    <2>4. job'[HlsJob(Max)] = "removeWeb" => Max \in hlsFiles'
        BY <1>3, <2>1 DEF FilesKept
    <2>5. QED
        BY <1>1, <2>1, <2>2, <2>3, <2>4 DEF FilesKept
<1>6. QED
    BY <1>1, <1>3, <1>4, <1>5 DEF Inputs

-----------------------------------------------------------------------------
(* The counter.                                                            *)

\* Every step keeps Inputs.
LEMMA InputsNext ==
    ASSUME TypeOK, Stages, Flow, Inputs, [Next]_vars
    PROVE  Inputs'
<1> USE JobFacts DEF fileVars
<1>1. setting' = setting
    BY SettingKept
<1>2. ASSUME UNCHANGED <<webFiles, hlsFiles>>, video' = video,
             disturbed => disturbed',
             \A k \in Transcoding : job'[k] = job[k]
      PROVE  Inputs'
    <2>1. \A r \in Lower : HlsJob(r) \in Transcoding
        BY DEF Resolution
    <2>2. QED
        BY <1>1, <1>2, <2>1 DEF Inputs, WebBeforeHls, FilesKept
<1>3. ASSUME NEW b \in {Prepare, Start, Build}, NEW next, BuilderMove(b, next)
      PROVE  \A k \in Transcoding : job'[k] = job[k]
    BY <1>3, BuilderFrees DEF BuilderMove
<1>4. CASE \/ PrepareEnds \/ CountOptimizeJob \/ CountSequence \/ EndBuild
           \/ CreateOptimizeJobs /\ video = "DELETED"
           \/ \E b \in {Start, Build} : TakeBuilder(b)
           \/ \E b \in {Prepare, Start, Build} : BuildFails(b)
    <2>1. \A k \in Transcoding : job'[k] = job[k]
        BY <1>3, <1>4, BuilderMoves
    <2>2. UNCHANGED <<webFiles, hlsFiles>> /\ video' = video
             /\ (disturbed => disturbed')
        BY <1>4 DEF PrepareEnds, CountOptimizeJob, CountSequence, EndBuild,
           CreateOptimizeJobs, TakeBuilder, BuildFails
    <2>3. QED
        BY <1>2, <2>1, <2>2
<1>5. ASSUME CreateOptimizeJobs, video # "DELETED" PROVE Inputs'
    <2>1. /\ job'[Main] = "ready" /\ job[Main] = "absent"
          /\ \A k \in Transcoding \ {Main} : job'[k] = job[k]
          /\ UNCHANGED <<webFiles, hlsFiles, video, disturbed>>
        BY <1>5 DEF CreateOptimizeJobs, TypeOK, Flow, Created
    <2>2. \A r \in Lower : HlsJob(r) \in Transcoding
        BY DEF Resolution
    <2>3. QED
        BY <1>1, <2>1, <2>2 DEF Inputs, WebBeforeHls, FilesKept
<1>6. ASSUME NEW r \in Resolution, CreateSequentialJobFlow(r) PROVE Inputs'
    <2>1. /\ \A k \in Transcoding : k \notin Sequence(r) => job'[k] = job[k]
          /\ \A k \in Sequence(r) :
                job'[k] = IF Child(k) = {} THEN "ready" ELSE "children"
          /\ UNCHANGED <<webFiles, hlsFiles, video, disturbed>>
          /\ job[Build] = "add" /\ r \in left
        BY <1>6, SequenceFacts DEF CreateSequentialJobFlow
    <2>2. \A k \in Sequence(r) : job[k] = "absent"
        <3>1. TAKE k \in Sequence(r)
        <3>2. k \in Transcoding \ {Main} /\ k[2] = r
            BY SequenceFacts
        <3>3. QED
            BY <2>1, <3>2 DEF Flow, Created, Building
    <2>3. WebBeforeHls'
        <3>1. SUFFICES ASSUME setting.web, NEW q \in Lower,
                              job'[HlsJob(q)] \notin {"absent", "children", "failed"}
                       PROVE  job'[WebJob(q)] = "done"
            BY <1>1 DEF WebBeforeHls
        <3>2. HlsJob(q) \in Transcoding /\ q \in Resolution /\ q # Max
            BY QueueAssumption DEF Resolution
        <3>3. HlsJob(q) \notin Sequence(r)
            <4>1. SUFFICES ASSUME HlsJob(q) \in Sequence(r) PROVE FALSE
                OBVIOUS
            <4>2. q = r
                BY <4>1, SequenceFacts
            <4>3. WebJob(q) \in Sequence(q) \ {HlsJob(q)}
                BY <3>1, <3>2, SequenceFacts
            <4>4. WebJob(q) \in Child(HlsJob(q))
                BY <4>3 DEF Child, HlsJob, Start, Build
            <4>5. QED
                BY <2>1, <3>1, <4>1, <4>4
        <3>4. job[WebJob(q)] = "done"
            BY <2>1, <3>1, <3>2, <3>3 DEF Inputs, WebBeforeHls
        <3>5. WebJob(q) \notin Sequence(r)
            BY <2>2, <3>4
        <3>6. QED
            BY <2>1, <3>4, <3>5
    <2>4. \A k \in Transcoding : \/ job'[k] = job[k]
                                 \/ /\ job[k] = "absent"
                                    /\ job'[k] \in {"ready", "children"}
        BY <2>1, <2>2
    <2>5. QED
        BY <1>1, <2>1, <2>3, <2>4 DEF Inputs, FilesKept, BeforeRemoval
<1>7. ASSUME NEW j \in Transcoding,
             \/ Take(j) \/ LoadVideo(j) \/ StartFFmpeg(j) \/ SaveFile(j)
             \/ OnTranscodingEnded(j) \/ NextState(j)
             \/ MoveToFailedTranscodingState(j) \/ FailDecrease(j)
             \/ TranscodingFails(j) \/ MoveJobNotQueued(j)
      PROVE  Inputs'
    <2>1. PICK next : TranscodingMove(j, next)
        BY <1>7, TranscodingMoves DEF TranscodingStep
    <2>2. job'[j] = next
        BY <2>1 DEF TranscodingMove, Moves
    <2>3. webFiles \subseteq webFiles' /\ hlsFiles \subseteq hlsFiles'
        <3>1. CASE SaveFile(j)
            BY <3>1 DEF SaveFile
        <3>2. CASE ~SaveFile(j)
            BY <1>7, <3>2 DEF Take, LoadVideo, StartFFmpeg, OnTranscodingEnded,
               NextState, MoveToFailedTranscodingState, FailDecrease,
               TranscodingFails, MoveJobNotQueued
        <3>3. QED
            BY <3>1, <3>2
    <2>10. disturbed => disturbed'
        BY <1>7 DEF Take, LoadVideo, StartFFmpeg, SaveFile, OnTranscodingEnded,
           NextState, MoveToFailedTranscodingState, FailDecrease,
           TranscodingFails, MoveJobNotQueued
    <2>4. video' # "DELETED" => video # "DELETED"
        BY <1>7 DEF Take, LoadVideo, StartFFmpeg, SaveFile, OnTranscodingEnded,
           NextState, MoveToNextState, MoveToFailedTranscodingState,
           FailDecrease, TranscodingFails, MoveJobNotQueued
    <2>5. /\ Take(j) => next = "load"
          /\ LoadVideo(j) =>
                next = "input" \/ (next = "done" /\ video = "DELETED")
          /\ StartFFmpeg(j) => next \in {"encode", "failState"}
          /\ SaveFile(j) => \/ next = "failState"
                            \/ /\ next = "removeWeb" /\ j[1] = "hls"
                               /\ j[2] = Max /\ ~setting.web
                               /\ Max \in hlsFiles'
                            \/ /\ next = "decrease"
                               /\ j[1] = "hls" \/ j[2] \in webFiles'
          /\ OnTranscodingEnded(j) =>
                job[j] = "decrease" /\ next \in {"next", "done"}
          /\ NextState(j) => job[j] = "next" /\ next = "done"
          /\ MoveToFailedTranscodingState(j) => next = "failDecrease"
          /\ FailDecrease(j) => next = "failed"
          /\ TranscodingFails(j) => next \in {"failState", "failed"}
          /\ MoveJobNotQueued(j) => job[j] = "next" /\ next = "done"
        <3>1. /\ \A s : Goto(j, s) => next = s
              /\ job' = Completed(j) => next = "done"
              /\ job' = Failed(j) => next = "failed"
            BY <2>2 DEF Goto, Completed, Failed, TypeOK
        <3>2. SaveFile(j) => \/ next = "failState"
                            \/ /\ next = "removeWeb" /\ j[1] = "hls"
                               /\ j[2] = Max /\ ~setting.web
                               /\ Max \in hlsFiles'
                            \/ /\ next = "decrease"
                               /\ j[1] = "hls" \/ j[2] \in webFiles'
            BY <3>1 DEF SaveFile, DeletesWebVideos
        <3>3. Take(j) => next = "load"
            BY <3>1 DEF Take
        <3>6. LoadVideo(j) =>
                 next = "input" \/ (next = "done" /\ video = "DELETED")
            BY <3>1 DEF LoadVideo
        <3>7. StartFFmpeg(j) => next \in {"encode", "failState"}
            BY <3>1 DEF StartFFmpeg
        <3>4. /\ OnTranscodingEnded(j) =>
                    job[j] = "decrease" /\ next \in {"next", "done"}
              /\ NextState(j) => job[j] = "next" /\ next = "done"
              /\ MoveJobNotQueued(j) => job[j] = "next" /\ next = "done"
            BY <3>1 DEF OnTranscodingEnded, NextState, MoveJobNotQueued
        <3>5. /\ MoveToFailedTranscodingState(j) => next = "failDecrease"
              /\ FailDecrease(j) => next = "failed"
              /\ TranscodingFails(j) => next \in {"failState", "failed"}
            BY <3>1 DEF MoveToFailedTranscodingState, FailDecrease,
               TranscodingFails, MoveJobNotQueued
        <3>8. QED
            BY <3>2, <3>3, <3>4, <3>5, <3>6, <3>7
    <2>6. j[1] = "hls" /\ j[2] = Max => j = HlsJob(Max)
        BY TranscodingCases DEF Main
    <2>7. next = "removeWeb" =>
             j = HlsJob(Max) /\ ~setting.web /\ Max \in hlsFiles'
        BY <1>7, <2>5, <2>6
    <2>8. video # "DELETED" /\ next \in {"decrease", "next", "done"} =>
             \/ job[j] \in {"decrease", "next", "removeWeb"}
             \/ j[1] = "hls" \/ j[2] \in webFiles'
        BY <1>7, <2>5
    <2>9. QED
        BY <2>1, <2>3, <2>4, <2>7, <2>8, <2>10, InputsKept
<1>8. ASSUME NEW j \in Transcoding, RemoveAllWebVideoFiles(j) PROVE Inputs'
    <2>1. /\ job[j] = "removeWeb" /\ job'[j] = "decrease"
          /\ \A k \in Transcoding \ {j} : job'[k] = job[k]
          /\ UNCHANGED <<hlsFiles, video>>
        BY <1>8 DEF RemoveAllWebVideoFiles, Goto, TypeOK
    <2>2. j = HlsJob(Max) /\ ~setting.web
        BY <2>1 DEF Inputs
    <2>3. \A r \in Lower : job[WebJob(r)] = "absent"
        BY <2>2, SequenceFacts DEF Flow, Created, Resolution
    <2>4. video # "DELETED" => Max \in hlsFiles
        BY <2>1, <2>2 DEF Inputs, FilesKept
    <2>5. QED
        BY <1>1, <2>1, <2>2, <2>3, <2>4
        DEF Inputs, WebBeforeHls, FilesKept, BeforeRemoval
<1>9. ASSUME Restart PROVE Inputs'
    <2>1. /\ \A k \in Transcoding :
                job'[k] = IF job[k] \in Outside THEN job[k] ELSE "ready"
          /\ UNCHANGED <<webFiles, hlsFiles, video>>
          /\ ~disturbed' => /\ ~disturbed
                            /\ \A k \in Transcoding : ~RunTwice(k)
        BY <1>9 DEF Restart, Active
    <2>2. \A r \in Lower : HlsJob(r) \in Transcoding
        BY DEF Resolution
    <2>3. WebBeforeHls'
        BY <1>1, <2>1, <2>2 DEF Inputs, WebBeforeHls, Outside
    <2>4. ASSUME ~disturbed', ~setting.quick, job'[HlsJob(Max)] \in BeforeRemoval,
                 job[HlsJob(Max)] \notin BeforeRemoval
          PROVE  Max \in webFiles
        <3>1. job[HlsJob(Max)] \notin Outside
            BY <2>1, <2>4
        <3>2. HasInput(HlsJob(Max))
            BY <2>1, <2>4, <3>1 DEF RunTwice, Active
        <3>3. QED
            BY <2>4, <3>2 DEF HasInput, CopyCodecs
    <2>5. \A k \in Transcoding : job'[k] # "removeWeb"
        BY <2>1 DEF Outside
    <2>6. ASSUME video' # "DELETED" PROVE FilesKept'
        <3>1. FilesKept
            BY <2>1, <2>6 DEF Inputs
        <3>2. \A r \in Lower : job'[WebJob(r)] \in {"decrease", "next", "done"} =>
                                  job[WebJob(r)] = "done"
            BY <2>1 DEF Outside
        <3>3. QED
            BY <1>1, <2>1, <2>4, <2>5, <3>1, <3>2 DEF FilesKept
    <2>7. QED
        BY <2>3, <2>5, <2>6 DEF Inputs
<1>10. ASSUME DeleteVideo PROVE Inputs'
    BY <1>1, <1>10 DEF DeleteVideo, Inputs, WebBeforeHls
<1>11. CASE MoveJobStep \/ MoveFails \/ UNCHANGED vars
    <2>1. UNCHANGED <<job, webFiles, hlsFiles, disturbed>>
        BY <1>11 DEF MoveJobStep, TakeMove, MoveFiles, DecreasePendingMove,
           DoAfterLastMove, MoveFails, vars
    <2>2. video' # "DELETED" => video # "DELETED"
        BY <1>11 DEF MoveJobStep, TakeMove, MoveFiles, DecreasePendingMove,
           DoAfterLastMove, MoveToNextState, MoveFails, vars
    <2>3. QED
        BY <1>1, <2>1, <2>2 DEF Inputs, WebBeforeHls, FilesKept
<1>12. QED
    BY <1>4, <1>5, <1>6, <1>7, <1>8, <1>9, <1>10, <1>11
    DEF Next, BuilderStep, TranscodingStep
\* Every step keeps NoMove; a video does not return to its first state, nor a
\* history to an undisturbed one.
LEMMA NoMoveNext ==
    ASSUME TypeOK, NoMove, [Next]_vars
    PROVE  /\ NoMove'
           /\ video' = "TO_TRANSCODE" => video = "TO_TRANSCODE"
           /\ ~disturbed' => ~disturbed
<1>1. CASE BuilderStep
    BY <1>1 DEF BuilderStep, PrepareEnds, TakeBuilder, CreateOptimizeJobs,
       CountOptimizeJob, CountSequence, EndBuild, CreateSequentialJobFlow,
       NoMove, moveVars
<1>2. ASSUME NEW j \in Transcoding, Take(j) \/ TranscodingStep(j), ~NextState(j)
      PROVE  /\ UNCHANGED moveVars /\ (~disturbed' => ~disturbed)
             /\ video' = "TO_TRANSCODE" => video = "TO_TRANSCODE"
    <2>1. UNCHANGED moveVars
        BY <1>2 DEF TranscodingStep, Take, LoadVideo, StartFFmpeg, SaveFile,
           RemoveAllWebVideoFiles, OnTranscodingEnded,
           MoveToFailedTranscodingState, FailDecrease
    <2>2. ~disturbed' => ~disturbed
        BY <1>2 DEF TranscodingStep, Take, LoadVideo, StartFFmpeg, SaveFile,
           RemoveAllWebVideoFiles, OnTranscodingEnded,
           MoveToFailedTranscodingState, FailDecrease
    <2>3. video' = "TO_TRANSCODE" => video = "TO_TRANSCODE"
        BY <1>2 DEF TranscodingStep, Take, LoadVideo, StartFFmpeg, SaveFile,
           RemoveAllWebVideoFiles, OnTranscodingEnded,
           MoveToFailedTranscodingState, FailDecrease
    <2>4. QED
        BY <2>1, <2>2, <2>3
<1>3. ASSUME NEW j \in Transcoding, NextState(j)
      PROVE  /\ video' = "TO_TRANSCODE" =>
                   video = "TO_TRANSCODE" /\ UNCHANGED <<moveJobs, move>>
             /\ disturbed' = disturbed
    BY <1>3 DEF NextState, MoveToNextState
<1>4. CASE TakeMove
    BY <1>4 DEF TakeMove, NoMove, TypeOK
<1>5. CASE MoveFiles \/ DecreasePendingMove
    BY <1>5 DEF MoveFiles, DecreasePendingMove, NoMove
<1>6. CASE DoAfterLastMove
    BY <1>6 DEF DoAfterLastMove, MoveToNextState, NoMove
<1>7. ASSUME NEW b \in {Prepare, Start, Build}, BuildFails(b)
      PROVE  UNCHANGED <<video, moveVars>> /\ (~disturbed' => ~disturbed)
    BY <1>7 DEF BuildFails
<1>8. ASSUME NEW j \in Transcoding, TranscodingFails(j)
      PROVE  UNCHANGED <<video, moveVars>> /\ (~disturbed' => ~disturbed)
    BY <1>8 DEF TranscodingFails
<1>9. CASE MoveFails \/ DeleteVideo
    BY <1>9 DEF MoveFails, DeleteVideo, NoMove
<1>10. CASE Restart
    BY <1>10 DEF Restart, NoMove, Locked
<1>11. CASE UNCHANGED vars
    BY <1>11 DEF vars, moveVars, NoMove
<1>12. ASSUME NEW j \in Transcoding, MoveJobNotQueued(j)
      PROVE  video' # "TO_TRANSCODE" /\ disturbed'
    BY <1>12 DEF MoveJobNotQueued
<1>13. QED
    BY <1>1, <1>2, <1>3, <1>4, <1>5, <1>6, <1>7, <1>8, <1>9, <1>10, <1>11,
       <1>12
    DEF Next, MoveJobStep, TranscodingStep, NoMove, moveVars

\* Sets of transcoding jobs are finite, so they can be counted.
LEMMA OwedFinite ==
    ASSUME NEW S \in SUBSET Transcoding
    PROVE  IsFiniteSet(S)
<1>1. IsFiniteSet(Lower) /\ IsFiniteSet(Resolution)
    BY QueueAssumption, FS_AddElement DEF Resolution
<1>2. IsFiniteSet({"web"} \X Lower) /\ IsFiniteSet({"hls"} \X Resolution)
    BY <1>1, FS_Singleton, FS_Product
<1>3. IsFiniteSet({Main} \cup ({"web"} \X Lower))
    BY <1>2, FS_Singleton, FS_Union
<1>4. IsFiniteSet(Transcoding)
    BY <1>2, <1>3, FS_Union DEF Transcoding
<1>5. QED
    BY <1>4, FS_Subset

\* A job that goes on or ends changes who is still to be subtracted by itself
\* alone: its parent is so before and after.
LEMMA OwedMoves ==
    ASSUME NEW j \in Transcoding, NEW next, Moves(j, next), next # "failed"
    PROVE  Owed' = (Owed \ {j}) \cup (IF next \in Pending THEN {j} ELSE {})
<1>1. job'[j] = next
    BY DEF Moves
<1>2. \A k \in Transcoding \ {j} : job'[k] \in Pending <=> job[k] \in Pending
    BY MoveFrees DEF Pending
<1>3. QED
    BY <1>1, <1>2 DEF Owed

\* A job of transcoding goes on, and no builder is at work when it ends: the
\* counter is right if it is for the jobs it leaves.
LEMMA BalancedMove ==
    ASSUME Stages, Flow, Balanced, NEW j \in Transcoding, NEW next,
           TranscodingMove(j, next), next \notin {"failed", "failDecrease"},
           next = "next" =>
              /\ job[Start] = "done"
              /\ \/ job[Build] = "done"
                 \/ j = Main /\ Sequences = {} /\ job[Build] = "children",
           pending' = Cardinality(Owed' \ Uncounted),
           Uncounted \subseteq Owed',
           Owed' \ Uncounted # {} => infoRow'
    PROVE  Balanced'
<1> USE JobFacts
<1>1. /\ Moves(j, next) /\ job'[j] = next /\ setting' = setting
      /\ adding' = adding /\ job[j] \notin {"absent", "children", "done"}
    BY DEF TranscodingMove, Moves, Working, Catching
<1>2. /\ job'[Prepare] = job[Prepare] /\ job'[Start] = job[Start]
      /\ job'[Build] = IF j = Main /\ next \in Ends /\ job[Build] = "children"
                       THEN IF next = "done" THEN "ready" ELSE "failed"
                       ELSE job[Build]
      /\ \A k \in Transcoding \ {j} :
            job'[k] = job[k] \/ job'[k] = "ready"
    BY <1>1, MoveFrees
<1>3. Uncounted' = Uncounted
    BY <1>1, <1>2 DEF Uncounted, Sequence
<1>4. ASSUME NEW k \in Job PROVE job'[k] \notin {"failDecrease", "failed"}
    BY <1>1, <1>2 DEF Job, Balanced, Ends
<1>5. ASSUME NEW k \in Transcoding, job'[k] = "next"
      PROVE  /\ job'[Start] = "done"
             /\ \/ job'[Build] = "done"
                \/ k = Main /\ Sequences' = {} /\ job'[Build] = "children"
    <2>1. /\ job[Start] = "done"
          /\ \/ job[Build] = "done"
             \/ k = Main /\ Sequences = {} /\ job[Build] = "children"
        BY <1>1, <1>2, <1>5 DEF Balanced
    <2>2. job[Build] = "children" => job'[Build] = job[Build]
        BY <1>1, <1>2, <1>5, <2>1 DEF Ends
    <2>3. Sequences' = Sequences
        BY <1>1 DEF Sequences
    <2>4. QED
        BY <1>2, <2>1, <2>2, <2>3
<1>6. QED
    BY <1>3, <1>4, <1>5 DEF Balanced

\* Every step keeps Account.
LEMMA AccountNext ==
    ASSUME TypeOK, Stages, Flow, Inputs, Account, NoMove, [Next]_vars
    PROVE  Account'
<1> USE JobFacts DEF counterVars
<1>1. SUFFICES ASSUME ~disturbed', video' = "TO_TRANSCODE"
               PROVE  Balanced'
    BY DEF Account
<1>2. setting' = setting /\ video = "TO_TRANSCODE" /\ ~disturbed
    BY <1>1, SettingKept, NoMoveNext
<1>3. Balanced /\ moveJobs = 0 /\ move = "idle"
    BY <1>2 DEF Account, NoMove
<1>4. /\ Sequences' = Sequences
      /\ \A r : Sequence(r)' = Sequence(r)
    BY <1>2 DEF Sequences, Sequence
<1>5. /\ \A S \in SUBSET Transcoding : IsFiniteSet(S) /\ Cardinality(S) \in Nat
      /\ Owed \in SUBSET Transcoding
    BY OwedFinite, FS_CardinalityType DEF Owed
<1>6. job[Build] \in {"ready", "add", "increase", "done"} => job[Start] # "increase"
    <2>1. job[Main] = "done" => Main \notin Owed
        BY DEF Owed, Pending
    <2>2. QED
        BY <1>3, <2>1 DEF Balanced, Uncounted, Flow
\* A step of a builder that leaves the transcoding jobs alone.
<1>7. ASSUME \A k \in Transcoding : job'[k] = job[k],
             \A k \in {Prepare, Start, Build} : job'[k] # "failed",
             pending' = Cardinality(Owed \ Uncounted'),
             Uncounted' \subseteq Owed,
             Owed \ Uncounted' # {} => infoRow',
             \A k \in Transcoding : job[k] = "next" =>
                job'[Start] = job[Start] /\ job'[Build] = job[Build]
      PROVE  Balanced'
    <2>1. Owed' = Owed
        BY <1>7 DEF Owed
    <2>2. \A k \in Job : job'[k] \notin {"failDecrease", "failed"}
        BY <1>3, <1>7, StagesNext DEF Balanced, Job, Stages
    <2>3. QED
        BY <1>3, <1>4, <1>7, <2>1, <2>2 DEF Balanced
<1>8. ASSUME PrepareEnds PROVE Balanced'
    <2>1. Moves(Prepare, "done")
        BY <1>8, CompletedMoves DEF PrepareEnds, TypeOK
    <2>2. /\ \A k \in Transcoding : job'[k] = job[k]
          /\ job'[Build] = job[Build] /\ job'[Prepare] = "done"
          /\ job'[Start] = IF job[Start] = "children" THEN "ready" ELSE job[Start]
        BY <2>1, BuilderFrees DEF Moves, Ends
    <2>3. Uncounted' = Uncounted /\ pending' = pending /\ infoRow' = infoRow
        BY <1>4, <1>8, <2>2 DEF PrepareEnds, Uncounted, buildVars
    <2>4. QED
        BY <1>3, <1>7, <2>2, <2>3 DEF Balanced
<1>9. ASSUME NEW b \in {Start, Build}, TakeBuilder(b) PROVE Balanced'
    <2>1. job[b] = "ready" /\ job' = [job EXCEPT ![b] = "add"]
          /\ UNCHANGED <<adding, pending, infoRow>>
        BY <1>9 DEF TakeBuilder, Goto
    <2>2. /\ job'[b] = "add" /\ \A k \in Job \ {b} : job'[k] = job[k]
        BY <2>1 DEF TypeOK
    <2>3. Uncounted' = Uncounted
        BY <1>4, <2>1, <2>2 DEF Uncounted
    <2>4. \A k \in Transcoding : job[k] # "next"
        BY <1>3, <2>1 DEF Balanced
    <2>5. QED
        BY <1>3, <1>7, <2>1, <2>2, <2>3, <2>4 DEF Balanced
<1>10. ASSUME CreateOptimizeJobs PROVE Balanced'
    <2>1. /\ job[Start] = "add" /\ job'[Start] = "increase"
          /\ job'[Build] = "children" /\ job'[Main] = "ready"
          /\ \A k \in Job \ {Start, Build, Main} : job'[k] = job[k]
          /\ UNCHANGED <<adding, pending, infoRow>>
        BY <1>2, <1>10 DEF CreateOptimizeJobs, TypeOK, buildVars
    <2>2. job[Build] = "absent" /\ \A k \in Transcoding : job[k] = "absent"
        BY <2>1 DEF Flow, Created
    <2>3. Owed = {} /\ Uncounted = {}
        BY <2>1, <2>2 DEF Owed, Pending, Uncounted
    <2>4. Owed' = {Main} /\ Uncounted' = {Main}
        BY <2>1, <2>2 DEF Owed, Pending, Uncounted
    <2>5. Owed' \ Uncounted' = Owed \ Uncounted
        BY <2>3, <2>4
    <2>6. \A k \in Job : job'[k] \notin {"failDecrease", "failed"}
        BY <1>3, <2>1 DEF Balanced
    <2>7. \A k \in Transcoding : job'[k] # "next"
        BY <2>1, <2>2
    <2>8. QED
        BY <1>3, <2>1, <2>4, <2>5, <2>6, <2>7 DEF Balanced
<1>11. ASSUME CountOptimizeJob PROVE Balanced'
    <2>1. job[Start] = "increase" /\ pending' = pending + 1 /\ infoRow' = TRUE
        BY <1>2, <1>11 DEF CountOptimizeJob, IncreaseOrCreate
    <2>2. Moves(Start, "done") /\ adding' = adding
        BY <1>2, <1>11, CompletedMoves DEF CountOptimizeJob, TypeOK, buildVars
    <2>3. /\ \A k \in Transcoding : job'[k] = job[k]
          /\ job'[Build] = job[Build] /\ job'[Prepare] = job[Prepare]
          /\ job'[Start] = "done"
        BY <2>2, BuilderFrees DEF Moves
    <2>4. job[Build] # "increase"
        BY <1>6, <2>1
    <2>5. Uncounted = {Main} /\ Uncounted' = {} /\ Main \in Owed
        BY <1>3, <2>1, <2>3, <2>4 DEF Uncounted, Balanced
    <2>6. Cardinality(Owed \ {Main}) = Cardinality(Owed) - 1
        BY <1>5, <2>5, FS_RemoveElement
    <2>7. pending' = Cardinality(Owed \ Uncounted')
        <3>1. Owed \ {} = Owed
            OBVIOUS
        <3>2. pending = Cardinality(Owed \ {Main})
            BY <1>3, <2>5 DEF Balanced
        <3>3. QED
            BY <1>5, <2>1, <2>5, <2>6, <3>1, <3>2
    <2>8. \A k \in Transcoding : job[k] # "next"
        BY <1>3, <2>1 DEF Balanced
    <2>9. \A k \in {Prepare, Start, Build} : job'[k] # "failed"
        BY <1>3, <2>3 DEF Balanced
    <2>10. QED
        BY <1>7, <2>1, <2>3, <2>5, <2>7, <2>8, <2>9
<1>12. ASSUME CountSequence PROVE Balanced'
    <2>1. /\ job[Build] = "increase" /\ infoRow' = TRUE
          /\ pending' = pending + Cardinality(Sequence(adding))
          /\ job' = [job EXCEPT ![Build] = "add"]
        BY <1>2, <1>12 DEF CountSequence, IncreaseOrCreate, Goto
    <2>2. job'[Build] = "add" /\ \A k \in Job \ {Build} : job'[k] = job[k]
        BY <2>1 DEF TypeOK
    <2>3. job[Start] # "increase"
        BY <1>6, <2>1
    <2>4. /\ Uncounted = Sequence(adding) /\ Uncounted' = {}
          /\ Sequence(adding) \subseteq Owed
        BY <1>3, <2>1, <2>2, <2>3 DEF Uncounted, Balanced
    <2>5. /\ pending = Cardinality(Owed \ Sequence(adding))
          /\ Cardinality(Owed \ Sequence(adding)) =
                Cardinality(Owed) - Cardinality(Owed \cap Sequence(adding))
        BY <1>3, <1>5, <2>4, FS_Difference DEF Balanced
    <2>6. Owed \cap Sequence(adding) = Sequence(adding) /\ Owed \ {} = Owed
        BY <2>4
    <2>7. pending' = Cardinality(Owed \ Uncounted')
        <3>1. /\ Cardinality(Owed) \in Nat
              /\ Cardinality(Sequence(adding)) \in Nat
            BY <1>5, SequenceFinite
        <3>2. pending = Cardinality(Owed) - Cardinality(Sequence(adding))
            BY <2>5, <2>6
        <3>3. pending' = Cardinality(Owed)
            BY <2>1, <3>1, <3>2
        <3>4. QED
            BY <2>4, <2>6, <3>3
    <2>8. \A k \in Transcoding : job[k] # "next"
        BY <1>3, <2>1 DEF Balanced
    <2>9. \A k \in {Prepare, Start, Build} : job'[k] # "failed"
        BY <1>3, <2>2 DEF Balanced
    <2>10. QED
        BY <1>7, <2>1, <2>2, <2>4, <2>7, <2>8, <2>9
<1>13. ASSUME EndBuild PROVE Balanced'
    <2>1. job[Build] = "add" /\ UNCHANGED <<adding, pending, infoRow>>
        BY <1>13 DEF EndBuild, buildVars
    <2>2. Moves(Build, "done")
        BY <1>13, CompletedMoves DEF EndBuild, TypeOK
    <2>3. /\ \A k \in Transcoding : job'[k] = job[k]
          /\ job'[Start] = job[Start] /\ job'[Prepare] = job[Prepare]
          /\ job'[Build] = "done"
        BY <2>2, BuilderFrees DEF Moves
    <2>4. Uncounted' = Uncounted
        BY <1>4, <2>1, <2>3 DEF Uncounted
    <2>5. \A k \in Transcoding : job[k] # "next"
        BY <1>3, <2>1 DEF Balanced
    <2>6. \A k \in {Prepare, Start, Build} : job'[k] # "failed"
        BY <1>3, <2>3 DEF Balanced
    <2>7. QED
        BY <1>3, <1>7, <2>1, <2>3, <2>4, <2>5, <2>6 DEF Balanced
<1>14. ASSUME NEW r \in Resolution, CreateSequentialJobFlow(r) PROVE Balanced'
    <2>1. /\ job[Build] = "add" /\ job'[Build] = "increase" /\ adding' = r
          /\ job'[Prepare] = job[Prepare] /\ job'[Start] = job[Start]
          /\ r \in left /\ UNCHANGED <<pending, infoRow>>
          /\ \A k \in Transcoding : k \notin Sequence(r) => job'[k] = job[k]
          /\ \A k \in Sequence(r) : job'[k] \in {"ready", "children"}
        BY <1>14, SequenceFacts DEF CreateSequentialJobFlow
    <2>2. \A k \in Sequence(r) : k \in Transcoding /\ job[k] = "absent"
        <3>1. TAKE k \in Sequence(r)
        <3>2. k \in Transcoding \ {Main} /\ k[2] = r
            BY SequenceFacts
        <3>3. QED
            BY <2>1, <3>2 DEF Flow, Created, Building
    <2>3. Uncounted = {} /\ Uncounted' = Sequence(r)
        BY <1>4, <1>6, <2>1 DEF Uncounted
    <2>4. Owed' = Owed \cup Sequence(r) /\ Owed \cap Sequence(r) = {}
        BY <2>1, <2>2 DEF Owed, Pending
    <2>5. Owed' \ Uncounted' = Owed \ Uncounted
        BY <2>3, <2>4
    <2>6. \A k \in Job : job'[k] \notin {"failDecrease", "failed"}
        BY <1>3, <2>1 DEF Balanced, Job
    <2>7. \A k \in Transcoding : job'[k] # "next"
        BY <1>3, <2>1 DEF Balanced
    <2>8. QED
        BY <1>3, <2>1, <2>3, <2>4, <2>5, <2>6, <2>7 DEF Balanced
<1>15. ASSUME NEW j \in Transcoding,
              \/ Take(j) \/ LoadVideo(j) \/ StartFFmpeg(j) \/ SaveFile(j)
              \/ RemoveAllWebVideoFiles(j) \/ OnTranscodingEnded(j)
              \/ NextState(j) \/ MoveToFailedTranscodingState(j)
              \/ FailDecrease(j) \/ TranscodingFails(j)
       PROVE  Balanced'
    <2>1. PICK next : TranscodingMove(j, next)
        BY <1>15, TranscodingMoves DEF TranscodingStep
    <2>2. Moves(j, next) /\ job'[j] = next
        BY <2>1 DEF TranscodingMove, Moves
    <2>3. /\ \A s : Goto(j, s) => next = s
          /\ job' = Completed(j) => next = "done"
          /\ job' = Failed(j) => next = "failed"
        BY <2>2 DEF Goto, Completed, Failed, TypeOK
    <2>4. ASSUME job[j] \in Pending, next \in Pending,
                 UNCHANGED <<pending, infoRow>>
          PROVE  Balanced'
        <3>1. Owed' = Owed
            BY <2>2, <2>4, OwedMoves DEF Pending, Owed
        <3>2. next \notin {"failed", "failDecrease", "next"}
            BY <2>4 DEF Pending
        <3>3. QED
            BY <1>3, <2>1, <2>4, <3>1, <3>2, BalancedMove DEF Balanced
    <2>5. CASE Take(j)
        BY <2>3, <2>4, <2>5 DEF Take, Pending
    <2>6. CASE LoadVideo(j)
        BY <1>2, <2>3, <2>4, <2>6 DEF LoadVideo, Pending
    <2>7. CASE StartFFmpeg(j)
        BY <2>3, <2>4, <2>7 DEF StartFFmpeg, Pending
    <2>8. CASE SaveFile(j)
        BY <2>3, <2>4, <2>8 DEF SaveFile, Pending
    <2>9. CASE RemoveAllWebVideoFiles(j)
        BY <2>3, <2>4, <2>9 DEF RemoveAllWebVideoFiles, Pending
    <2>10. CASE OnTranscodingEnded(j)
        <3>1. /\ job[j] = "decrease" /\ pending' = IF infoRow THEN pending - 1 ELSE pending
              /\ infoRow' = infoRow /\ ~BuilderAtWork
              /\ next = IF MovesToNext(j) THEN "next" ELSE "done"
            BY <1>1, <2>3, <2>10 DEF OnTranscodingEnded, Decrease
        <3>2. /\ job[Start] \in {"children", "done"}
              /\ job[Build] \in {"absent", "children", "done"}
            BY <1>3, <3>1 DEF BuilderAtWork, Over, Stages, Balanced
        <3>3. Uncounted = {} /\ j \in Owed
            BY <3>1, <3>2 DEF Uncounted, Owed, Pending
        <3>4. pending = Cardinality(Owed) /\ infoRow
            BY <1>3, <3>3 DEF Balanced
        <3>5. Owed' = Owed \ {j}
            BY <2>2, <3>1, OwedMoves DEF Pending
        <3>6. Cardinality(Owed \ {j}) = Cardinality(Owed) - 1
            BY <1>5, <3>3, FS_RemoveElement
        <3>7. pending' = Cardinality(Owed' \ Uncounted)
            BY <3>1, <3>3, <3>4, <3>5, <3>6
        <3>8. job[Start] = "done"
            BY <3>1, <3>2 DEF Flow, Created
        <3>9. next = "next" => \/ job[Build] = "done"
                               \/ /\ j = Main /\ Sequences = {}
                                  /\ job[Build] = "children"
            <4>1. CASE j = Main
                <5>1. job[Build] # "absent"
                    BY <3>1, <4>1 DEF Flow, Created
                <5>2. QED
                    BY <3>1, <3>2, <4>1, <5>1 DEF MovesToNext, HasChildren
            <4>2. CASE j # Main
                BY <3>1, <3>2, <4>2 DEF Flow, Created
            <4>3. QED
                BY <4>1, <4>2
        <3>10. next \notin {"failed", "failDecrease"}
            BY <3>1
        <3>11. QED
            BY <1>3, <2>1, <3>1, <3>3, <3>4, <3>7, <3>8, <3>9, <3>10,
                BalancedMove
    <2>11. CASE NextState(j)
        <3>1. /\ job[j] = "next" /\ next = "done"
              /\ UNCHANGED <<pending, infoRow>>
            BY <1>1, <1>2, <2>3, <2>11 DEF NextState, MoveToNextState
        <3>2. Owed' = Owed
            BY <2>2, <3>1, OwedMoves DEF Pending, Owed
        <3>3. QED
            BY <1>3, <2>1, <3>1, <3>2, BalancedMove DEF Balanced
    <2>12. CASE MoveToFailedTranscodingState(j)
        BY <1>1, <1>2, <2>12 DEF MoveToFailedTranscodingState
    <2>13. CASE FailDecrease(j)
        BY <1>3, <2>13 DEF FailDecrease, Balanced
    <2>14. CASE TranscodingFails(j)
        BY <1>1, <2>3, <2>4, <2>14 DEF TranscodingFails, Working, Pending
    <2>15. QED
        BY <1>15, <2>5, <2>6, <2>7, <2>8, <2>9, <2>10, <2>11, <2>12, <2>13,
            <2>14
<1>16. ASSUME Restart PROVE Balanced'
    <2>1. /\ \A k \in Job : job'[k] = IF job[k] \in Outside THEN job[k] ELSE "ready"
          /\ job[Start] # "increase" /\ job[Build] # "increase"
          /\ \A k \in Transcoding : job[k] \notin {"next", "failDecrease"}
          /\ UNCHANGED <<adding, pending, infoRow>>
        BY <1>1, <1>16 DEF Restart, Active, RunTwice, buildVars
    <2>2. Uncounted = {} /\ Uncounted' = {}
        BY <2>1 DEF Uncounted
    <2>3. \A k \in Transcoding : job[k] \in Step \ Building
        BY DEF TypeOK, Stages
    <2>4. \A k \in Transcoding : job'[k] \in Pending <=> job[k] \in Pending
        BY <2>1, <2>3 DEF Step, Outside, Catching, Working, Pending
    <2>5. Owed' = Owed
        BY <2>4 DEF Owed
    <2>6. \A k \in Job : job'[k] \notin {"failDecrease", "failed"}
        BY <1>3, <2>1 DEF Balanced
    <2>7. \A k \in Transcoding : job'[k] # "next"
        BY <2>1
    <2>8. QED
        BY <1>3, <2>1, <2>2, <2>5, <2>6, <2>7 DEF Balanced
<1>17. CASE \/ MoveJobStep \/ MoveFails \/ DeleteVideo \/ UNCHANGED vars
            \/ \E b \in {Prepare, Start, Build} : BuildFails(b)
    <2>1. UNCHANGED <<job, adding, pending, infoRow>>
        BY <1>1, <1>2, <1>3, <1>17 DEF MoveJobStep, TakeMove, MoveFiles,
           DecreasePendingMove, DoAfterLastMove, MoveFails, DeleteVideo,
           BuildFails, Locked, vars, buildVars
    <2>2. Owed' = Owed /\ Uncounted' = Uncounted
        BY <1>4, <2>1 DEF Owed, Uncounted
    <2>3. QED
        BY <1>3, <1>4, <2>1, <2>2 DEF Balanced
<1>18. ASSUME NEW j \in Transcoding, MoveJobNotQueued(j) PROVE Balanced'
    BY <1>1, <1>18 DEF MoveJobNotQueued
<1>19. QED
    BY <1>8, <1>9, <1>10, <1>11, <1>12, <1>13, <1>14, <1>15, <1>16, <1>17,
       <1>18
    DEF Next, BuilderStep, TranscodingStep

-----------------------------------------------------------------------------
(* The theorems.                                                           *)

\* The invariant holds at the start.
LEMMA Initially == Init => Inv
<1> SUFFICES ASSUME Init PROVE Inv
    OBVIOUS
<1> USE JobFacts
<1>1. /\ job \in [Job -> Step] /\ job[Prepare] = "ready" /\ job[Start] = "children"
      /\ job[Build] = "absent" /\ \A j \in Transcoding : job[j] = "absent"
    BY DEF Init, Step, Outside
<1>2. TypeOK
    <2>1. seen \in [Resolution -> SUBSET Resolution]
        BY DEF Init
    <2>2. webFiles \subseteq Resolution
        BY DEF Init, Resolution
    <2>3. 0 \in 0 .. MaxFaults
        BY QueueAssumption
    <2>4. infoRow \in BOOLEAN /\ disturbed \in BOOLEAN
        BY DEF Init
    <2>5. /\ setting \in Setting /\ left \subseteq Resolution
          /\ adding \in Resolution \cup {None} /\ pending \in Int
          /\ video \in VideoState /\ hlsFiles \subseteq Resolution
          /\ pendingMove \in Int /\ moveJobs \in Nat /\ move \in MoveStep
          /\ faults \in 0 .. MaxFaults
        BY <2>3 DEF Init, VideoState, MoveStep
    <2>6. QED
        BY <1>1, <2>1, <2>2, <2>4, <2>5 DEF TypeOK
<1>3. Stages /\ Flow
    BY <1>1 DEF Init, Stages, Flow, Building, Created
<1>4. \A r \in Lower : HlsJob(r) \in Transcoding
    BY DEF Resolution
<1>5. Inputs
    BY <1>1, <1>4 DEF Init, Inputs, WebBeforeHls, FilesKept
<1>6. Owed = {} /\ Uncounted = {}
    BY <1>1 DEF Owed, Pending, Uncounted
<1>7. \A j \in Job : job[j] \notin {"failDecrease", "failed"}
    BY <1>1 DEF Job
<1>8. pending = Cardinality(Owed \ Uncounted)
    BY <1>6, FS_EmptySet DEF Init
<1>9. Account
    BY <1>1, <1>6, <1>7, <1>8 DEF Account, Balanced
<1>10. NoMove
    BY DEF Init, NoMove
<1>11. QED
    BY <1>2, <1>3, <1>5, <1>9, <1>10 DEF Inv

\* Every step keeps the invariant.
LEMMA Inductive == Inv /\ [Next]_vars => Inv'
BY TypeOKNext, StagesNext, FlowNext, InputsNext, AccountNext, NoMoveNext
DEF Inv

\* The invariant always holds.
LEMMA InvHolds == Spec => []Inv
BY Initially, Inductive, PTL DEF Spec

\* TypeOK always holds.
THEOREM TypeInvariant == Spec => []TypeOK
<1>1. Inv => TypeOK
    BY DEF Inv
<1>2. QED
    BY <1>1, InvHolds, PTL

\* A transcoding job finds the file it reads, whatever the other jobs removed
\* or failed to make, unless the history is disturbed (transcoding-job queue,
\* hls-transcoding.ts and the builders' flows).
THEOREM InputsAreThere == Spec => []HlsHasInput
<1>1. ASSUME Inv PROVE HlsHasInput
    <2>1. SUFFICES ASSUME NEW j \in Transcoding, job[j] = "input",
                          video # "DELETED", ~disturbed
                   PROVE  HasInput(j)
        BY DEF HlsHasInput
    <2>2. FilesKept
        BY <1>1, <2>1 DEF Inv, Inputs
    <2>3. CASE ~(j[1] = "hls" /\ CopyCodecs(j[2]))
        BY <2>2, <2>3 DEF HasInput, FilesKept
    <2>4. CASE j[1] = "hls" /\ CopyCodecs(j[2])
        <3>1. PICK r \in Resolution : j = HlsJob(r)
            BY <2>4, JobFacts, TranscodingCases DEF Main
        <3>2. r \in webFiles
            <4>1. CASE r = Max
                BY <2>1, <2>2, <2>4, <3>1, <4>1, JobFacts
                DEF CopyCodecs, FilesKept, BeforeRemoval
            <4>2. CASE r # Max
                <5>1. r \in Lower /\ setting.web
                    BY <2>4, <3>1, <4>2, JobFacts DEF CopyCodecs, Resolution
                <5>2. job[WebJob(r)] = "done"
                    BY <1>1, <2>1, <3>1, <5>1 DEF Inv, Inputs, WebBeforeHls
                <5>3. QED
                    BY <2>2, <5>1, <5>2 DEF FilesKept
            <4>3. QED
                BY <4>1, <4>2
        <3>3. QED
            BY <3>1, <3>2, JobFacts DEF HasInput
    <2>5. QED
        BY <2>3, <2>4
<1>2. QED
    BY <1>1, InvHolds, PTL

\* The step that moves a transcoded video to object storage is taken when the
\* counter is 0, so when no job is still to be subtracted, and by a job that
\* no builder is at work beside.
LEMMA MoveStepIsLast ==
    ASSUME Inv, [Next]_vars, video # "TO_MOVE_TO_EXTERNAL_STORAGE",
           video' = "TO_MOVE_TO_EXTERNAL_STORAGE", ~disturbed, NEW j \in Job
    PROVE  \/ Over(j) \/ job[j] = "next"
           \/ j = Build /\ Sequences = {}
<1> USE JobFacts
<1>1. \/ \E k \in Transcoding : NextState(k) \/ MoveJobNotQueued(k)
      \/ DoAfterLastMove
    BY DEF Next, BuilderStep, TranscodingStep, MoveJobStep, PrepareEnds,
       TakeBuilder, CreateOptimizeJobs, CountOptimizeJob, CountSequence,
       EndBuild, CreateSequentialJobFlow, Take, LoadVideo, StartFFmpeg, SaveFile,
       RemoveAllWebVideoFiles, OnTranscodingEnded, MoveToFailedTranscodingState,
       FailDecrease, TakeMove, MoveFiles, DecreasePendingMove, BuildFails,
       TranscodingFails, MoveFails, Restart, DeleteVideo, vars
<1>2. MoveToNextState \/ \E k \in Transcoding : MoveJobNotQueued(k)
    BY <1>1 DEF NextState, DoAfterLastMove
<1>3. video = "TO_TRANSCODE" /\ pending = 0
    BY <1>2 DEF MoveToNextState, MoveJobNotQueued, TranscodingEnded
<1>4. Balanced /\ move = "idle"
    BY <1>3 DEF Inv, Account, NoMove
<1>5. PICK k \in Transcoding : job[k] = "next"
    BY <1>1, <1>4 DEF NextState, MoveJobNotQueued, DoAfterLastMove
<1>6. /\ job[Start] = "done" /\ job[Prepare] = "done"
      /\ job[Build] = "done" \/ (Sequences = {} /\ job[Build] = "children")
    BY <1>4, <1>5 DEF Balanced, Inv, Flow
<1>7. Owed = {}
    <2>1. Uncounted = {}
        BY <1>6 DEF Uncounted
    <2>2. Owed \ Uncounted = Owed /\ IsFiniteSet(Owed)
        BY <2>1, OwedFinite DEF Owed
    <2>3. Cardinality(Owed) = 0
        BY <1>3, <1>4, <2>2 DEF Balanced
    <2>4. QED
        BY <2>2, <2>3, FS_EmptySet
<1>8. ASSUME j \in Transcoding PROVE Over(j) \/ job[j] = "next"
    <2>1. job[j] \notin Pending \cup Building \cup {"failDecrease"}
        BY <1>4, <1>7, <1>8 DEF Owed, Balanced, Inv, Stages
    <2>2. job[j] \in Step
        BY DEF Inv, TypeOK
    <2>3. QED
        BY <2>1, <2>2 DEF Step, Outside, Catching, Working, Pending, Over
<1>9. QED
    BY <1>6, <1>8 DEF Job, Over

\* The video is moved to object storage only when every transcoding job is
\* over, although the counter sums what two builders add and every job
\* subtracts (move-to-next-state of lib/video-state.ts), unless the history
\* is disturbed.
THEOREM MovedWhenTranscoded == Spec => MoveAfterAll
<1>1. Inv /\ [Next]_vars
      => [video # "TO_MOVE_TO_EXTERNAL_STORAGE"
            /\ video' = "TO_MOVE_TO_EXTERNAL_STORAGE" /\ ~disturbed
          => \A j \in Job : \/ Over(j) \/ job[j] = "next"
                            \/ j = Build /\ Sequences = {}]_vars
    BY MoveStepIsLast
<1>2. QED
    BY <1>1, InvHolds, PTL DEF Spec, MoveAfterAll
=============================================================================
