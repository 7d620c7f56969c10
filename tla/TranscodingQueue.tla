-------------------------- MODULE TranscodingQueue --------------------------
(***************************************************************************)
(* Local transcoding of an uploaded video by the server's own job queue:   *)
(* flows of jobs that build each other, the pendingTranscode counter they  *)
(* share with the video's state, and the move to object storage.           *)
(*                                                                         *)
(* A job's handler is a sequence of awaited steps, and its action runs     *)
(* from one to the next.  The lock on the video's files is held from the   *)
(* choice of an input to the start of ffmpeg, and while an output is       *)
(* saved: one action each, with the move job's lock as their guard.        *)
(***************************************************************************)
EXTENDS Integers, FiniteSets

CONSTANTS
    Max,          \* resolution of the uploaded file
    Lower,        \* resolutions it may also be transcoded to
    None,         \* no resolution
    Concurrency,  \* CONFIG.TRANSCODING.CONCURRENCY
    MaxFaults     \* bound: steps that fail and restarts

ASSUME QueueAssumption ==
    /\ IsFiniteSet(Lower) /\ Max \notin Lower /\ None \notin Lower \cup {Max}
    /\ Concurrency \in Nat \ {0} /\ MaxFaults \in Nat

VARIABLES
    setting,     \* the configuration of transcoding and storage
    job,         \* where each job of the video is
    left,        \* sequences the second builder job has still to create
    adding,      \* the sequence it created and did not count yet
    pending,     \* videoJobInfo.pendingTranscode
    infoRow,     \* whether the video has its videoJobInfo row
    video,       \* video.state
    webFiles,    \* resolutions of the video's web video files
    hlsFiles,    \* resolutions of its HLS files
    seen,        \* web video files the instance of an HLS job loaded
    pendingMove, \* videoJobInfo.pendingMove
    moveJobs,    \* move jobs waiting in the queue
    move,        \* step of the move job being executed
    faults,      \* failed steps and restarts so far
    disturbed    \* history: a fault no later step makes up for, see below

buildVars == <<left, adding>>
counterVars == <<pending, infoRow>>
fileVars == <<webFiles, hlsFiles, seen>>
moveVars == <<pendingMove, moveJobs, move>>
vars == <<setting, job, buildVars, counterVars, video, fileVars, moveVars,
          faults, disturbed>>

-----------------------------------------------------------------------------
Resolution == Lower \cup {Max}

\* What is enabled: web videos and HLS, the lower resolutions, object storage;
\* quick: the upload need not be encoded again.
Setting == { s \in [ web : BOOLEAN, hls : BOOLEAN, lower : SUBSET Lower,
                     quick : BOOLEAN, storage : BOOLEAN ] : s.web \/ s.hls }

\* prepare stands for the four jobs the upload's flow runs before start, the
\* first builder job; main optimizes the upload, build is the second builder.
Prepare == <<"prepare", Max>>
Start == <<"start", Max>>
Main == <<"main", Max>>
Build == <<"build", Max>>

Transcoding ==
    {Main} \cup ({"web"} \X Lower) \cup ({"hls"} \X Resolution)

Job == {Prepare, Start, Build} \cup Transcoding

Outside == { "absent", "children", "ready", "done", "failed" }

\* Past the try block of processVideoTranscoding.
Catching == { "failState", "failDecrease" }

\* Inside it.
Working == { "input", "encode", "removeWeb", "decrease", "next" }

Building == { "add", "increase" }

Step == Outside \cup Catching \cup Working \cup Building \cup {"load"}

MoveStep == { "idle", "moveFiles", "decrease", "afterLast" }

VideoState == { "TO_TRANSCODE", "TO_MOVE_TO_EXTERNAL_STORAGE", "PUBLISHED",
                "TRANSCODING_FAILED", "TO_MOVE_TO_EXTERNAL_STORAGE_FAILED",
                "DELETED" }

Over(j) == job[j] \in {"absent", "done", "failed"}

Active(j) == job[j] \notin Outside

BuilderAtWork ==
    \E b \in {Start, Build} : ~Over(b) /\ job[b] # "children"

Locked == move # "idle"

-----------------------------------------------------------------------------
(* Flows.  A parent runs after its child, and fails with it.                *)

\* The sequences of jobs that follow main: HLS of its output first.
Sequences == (IF setting.hls THEN {Max} ELSE {}) \cup setting.lower

\* The jobs of the sequence of resolution r.
Sequence(r) ==
    { j \in {"web", "hls"} \X {r} :
        IF j[1] = "web" THEN setting.web /\ r # Max ELSE setting.hls }

Child(p) ==
    CASE p = Start -> {Prepare}
      [] p = Build -> {Main}
      [] p[1] = "hls" -> Sequence(p[2]) \ {p}
      [] OTHER -> {}

Waiting(j) == { p \in Job : job[p] = "children" /\ j \in Child(p) }

\* failParentOnFailure: the parent is not run.
Failed(j) ==
    [p \in Job |-> IF p = j \/ p \in Waiting(j) THEN "failed" ELSE job[p]]

Completed(j) ==
    [p \in Job |-> IF p = j THEN "done"
                   ELSE IF p \in Waiting(j) THEN "ready" ELSE job[p]]

Goto(j, step) == job' = [job EXCEPT ![j] = step]

\* increaseOrCreate, which inserts nothing without a video.
IncreaseOrCreate(n) ==
    IF video = "DELETED"
    THEN UNCHANGED counterVars
    ELSE pending' = pending + n /\ infoRow' = TRUE

-----------------------------------------------------------------------------
(* Building.                                                                *)

\* manage-video-torrent, generate-video-storyboard, notify and federate-video.
PrepareEnds ==
    /\ job[Prepare] = "ready"
    /\ job' = Completed(Prepare)
    /\ UNCHANGED <<setting, buildVars, counterVars, video, fileVars, moveVars,
                   faults, disturbed>>

\* The builder jobs: one worker.
TakeBuilder(b) ==
    /\ job[b] = "ready"
    /\ Goto(b, "add")
    /\ left' = IF b = Build THEN Sequences ELSE left
    /\ UNCHANGED <<setting, adding, counterVars, video, fileVars, moveVars,
                   faults, disturbed>>

\* createOptimizeOrMergeAudioJobs: main, then the second builder job.  The job
\* throws when the video was deleted.
CreateOptimizeJobs ==
    /\ job[Start] = "add"
    /\ IF video = "DELETED"
       THEN job' = Failed(Start)
       ELSE job' = [job EXCEPT ![Start] = "increase", ![Main] = "ready",
                               ![Build] = "children"]
    /\ UNCHANGED <<setting, buildVars, counterVars, video, fileVars, moveVars,
                   faults, disturbed>>

CountOptimizeJob ==
    /\ job[Start] = "increase"
    /\ IncreaseOrCreate(1)
    /\ job' = IF video = "DELETED" THEN Failed(Start) ELSE Completed(Start)
    /\ UNCHANGED <<setting, buildVars, video, fileVars, moveVars, faults,
                   disturbed>>

\* processTranscodingJobBuilder: one flow per sequence, in their order.
CreateSequentialJobFlow(r) ==
    /\ job[Build] = "add"
    /\ r \in left /\ (Max \in left => r = Max)
    /\ job' = [j \in Job |->
                 IF j = Build THEN "increase"
                 ELSE IF j \notin Sequence(r) THEN job[j]
                      ELSE IF Child(j) = {} THEN "ready" ELSE "children"]
    /\ left' = left \ {r} /\ adding' = r
    /\ UNCHANGED <<setting, counterVars, video, fileVars, moveVars, faults,
                   disturbed>>

CountSequence ==
    /\ job[Build] = "increase"
    /\ IncreaseOrCreate(Cardinality(Sequence(adding)))
    /\ adding' = None
    /\ IF video = "DELETED" THEN job' = Failed(Build) ELSE Goto(Build, "add")
    /\ UNCHANGED <<setting, left, video, fileVars, moveVars, faults, disturbed>>

EndBuild ==
    /\ job[Build] = "add" /\ left = {}
    /\ job' = Completed(Build)
    /\ UNCHANGED <<setting, buildVars, counterVars, video, fileVars, moveVars,
                   faults, disturbed>>

-----------------------------------------------------------------------------
(* Transcoding.                                                             *)

Take(j) ==
    /\ job[j] = "ready"
    /\ Cardinality({ k \in Transcoding : Active(k) }) < Concurrency
    /\ Goto(j, "load")
    /\ UNCHANGED <<setting, buildVars, counterVars, video, fileVars, moveVars,
                   faults, disturbed>>

LoadVideo(j) ==
    /\ job[j] = "load"
    /\ IF video = "DELETED" THEN job' = Completed(j) ELSE Goto(j, "input")
    /\ UNCHANGED <<setting, buildVars, counterVars, video, fileVars, moveVars,
                   faults, disturbed>>

CopyCodecs(r) == IF r = Max THEN ~setting.quick ELSE setting.web

\* getWebVideoFile of the resolution, or getMaxQualityFile.
HasInput(j) ==
    IF j[1] = "hls" /\ CopyCodecs(j[2])
    THEN j[2] \in webFiles
    ELSE webFiles \cup hlsFiles # {}

\* With the lock: the input is chosen and ffmpeg started.
StartFFmpeg(j) ==
    /\ job[j] = "input" /\ ~Locked
    /\ IF video # "DELETED" /\ HasInput(j)
       THEN /\ Goto(j, "encode")
            /\ seen' = IF j[1] = "hls" THEN [seen EXCEPT ![j[2]] = webFiles]
                       ELSE seen
       ELSE Goto(j, "failState") /\ UNCHANGED seen
    /\ UNCHANGED <<setting, buildVars, counterVars, video, webFiles, hlsFiles,
                   moveVars, faults, disturbed>>

\* Mutant: the web videos are removed once there is an HLS version.
DeletesAnyWebVideo(r) == r = Max

DeletesWebVideos(r) == r = Max /\ ~setting.web

\* With the lock: the output becomes a file of the video.
SaveFile(j) ==
    /\ job[j] = "encode" /\ ~Locked
    /\ IF video = "DELETED"
       THEN Goto(j, "failState") /\ UNCHANGED <<webFiles, hlsFiles>>
       ELSE IF j[1] = "hls"
            THEN /\ Goto(j, IF DeletesWebVideos(j[2]) THEN "removeWeb"
                                                      ELSE "decrease")
                 /\ hlsFiles' = hlsFiles \cup {j[2]} /\ UNCHANGED webFiles
            ELSE /\ Goto(j, "decrease")
                 /\ webFiles' = webFiles \cup {j[2]} /\ UNCHANGED hlsFiles
    /\ UNCHANGED <<setting, buildVars, counterVars, video, seen, moveVars,
                   faults, disturbed>>

\* The web video files the instance of the job knew.
RemoveAllWebVideoFiles(j) ==
    /\ job[j] = "removeWeb" /\ ~Locked
    /\ webFiles' = webFiles \ seen[j[2]]
    /\ Goto(j, "decrease")
    /\ UNCHANGED <<setting, buildVars, counterVars, video, hlsFiles, seen,
                   moveVars, faults, disturbed>>

HasChildren == Sequences # {}

\* Mutant: the main job asks for the next state as well.
MovesToNextAlways(j) == TRUE

MovesToNext(j) == j # Main \/ ~HasChildren

\* Mutant: the counter takes what decrease returns.
DecreaseUndefined == pending' = IF infoRow THEN pending - 1 ELSE None

Decrease == pending' = IF infoRow THEN pending - 1 ELSE pending

\* A job that ends before its builder has counted it disturbs the counter.
OnTranscodingEnded(j) ==
    /\ job[j] = "decrease"
    /\ Decrease
    /\ IF MovesToNext(j) THEN Goto(j, "next") ELSE job' = Completed(j)
    /\ disturbed' = (disturbed \/ BuilderAtWork)
    /\ UNCHANGED <<setting, buildVars, infoRow, video, fileVars, moveVars,
                   faults>>

TranscodingEnded == pending = 0

\* moveToNextState, one transaction; a failed state leads to TO_TRANSCODE,
\* which it does not handle.
MoveToNextState ==
    IF \/ video = "TO_MOVE_TO_EXTERNAL_STORAGE"
       \/ video = "TO_TRANSCODE" /\ ~setting.storage
    THEN video' = "PUBLISHED" /\ UNCHANGED <<infoRow, pendingMove, moveJobs>>
    ELSE IF video = "TO_TRANSCODE" /\ TranscodingEnded
         THEN /\ video' = "TO_MOVE_TO_EXTERNAL_STORAGE"
              /\ infoRow' = TRUE
              /\ pendingMove' = pendingMove + 1 /\ moveJobs' = moveJobs + 1
         ELSE UNCHANGED <<video, infoRow, pendingMove, moveJobs>>

NextState(j) ==
    /\ job[j] = "next"
    /\ MoveToNextState
    /\ job' = Completed(j)
    /\ UNCHANGED <<setting, buildVars, pending, fileVars, move, faults,
                   disturbed>>

MoveToFailedTranscodingState(j) ==
    /\ job[j] = "failState"
    /\ video' = IF video = "DELETED" THEN video ELSE "TRANSCODING_FAILED"
    /\ Goto(j, "failDecrease")
    /\ UNCHANGED <<setting, buildVars, counterVars, fileVars, moveVars, faults,
                   disturbed>>

\* The only attempt failed.
FailDecrease(j) ==
    /\ job[j] = "failDecrease"
    /\ Decrease
    /\ job' = Failed(j)
    /\ disturbed' = (disturbed \/ BuilderAtWork)
    /\ UNCHANGED <<setting, buildVars, infoRow, video, fileVars, moveVars,
                   faults>>

-----------------------------------------------------------------------------
(* Moving to object storage: one worker.                                    *)

TakeMove ==
    /\ moveJobs > 0 /\ move = "idle"
    /\ moveJobs' = moveJobs - 1
    /\ move' = IF video = "DELETED" THEN "idle" ELSE "moveFiles"
    /\ UNCHANGED <<setting, job, buildVars, counterVars, video, fileVars,
                   pendingMove, faults, disturbed>>

MoveFiles ==
    /\ move = "moveFiles"
    /\ move' = "decrease"
    /\ UNCHANGED <<setting, job, buildVars, counterVars, video, fileVars,
                   pendingMove, moveJobs, faults, disturbed>>


LastMove == infoRow /\ pendingMove' = 0

DecreasePendingMove ==
    /\ move = "decrease"
    /\ pendingMove' = IF infoRow THEN pendingMove - 1 ELSE pendingMove
    /\ move' = IF LastMove THEN "afterLast" ELSE "idle"
    /\ UNCHANGED <<setting, job, buildVars, counterVars, video, fileVars,
                   moveJobs, faults, disturbed>>

DoAfterLastMove ==
    /\ move = "afterLast"
    /\ MoveToNextState
    /\ move' = "idle"
    /\ UNCHANGED <<setting, job, buildVars, pending, fileVars, faults,
                   disturbed>>

-----------------------------------------------------------------------------
(* Faults.                                                                  *)

Fault == faults < MaxFaults /\ faults' = faults + 1

\* An awaited step of a builder, or of a job before it, rejects.
BuildFails(b) ==
    /\ Fault
    /\ \/ job[b] \in Building
       \/ b = Prepare /\ job[b] = "ready"
    /\ job' = Failed(b)
    /\ disturbed' = TRUE
    /\ UNCHANGED <<setting, buildVars, counterVars, video, fileVars, moveVars>>

\* A step of a transcoding job rejects: inside the try block the job goes to
\* its catch, which subtracts it a second time if it had been; outside it the
\* job fails at once and may leave state and counter alone.
TranscodingFails(j) ==
    /\ Fault
    /\ job[j] \in Working \cup Catching \cup {"load"}
    /\ IF job[j] \in Working THEN Goto(j, "failState") ELSE job' = Failed(j)
    /\ disturbed' = (disturbed \/ job[j] \notin Working \ {"next"})
    /\ UNCHANGED <<setting, buildVars, counterVars, video, fileVars, moveVars>>

\* moveToExternalStorageState catches what building the move job or adding it
\* to the queue throws, and its false is dropped: the state is committed without
\* a job, counted in pendingMove or not.
MoveJobNotQueued(j) ==
    /\ Fault
    /\ job[j] = "next"
    /\ video = "TO_TRANSCODE" /\ setting.storage /\ TranscodingEnded
    /\ video' = "TO_MOVE_TO_EXTERNAL_STORAGE"
    /\ \/ infoRow' = TRUE /\ pendingMove' = pendingMove + 1
       \/ UNCHANGED <<infoRow, pendingMove>>
    /\ job' = Completed(j)
    /\ disturbed' = TRUE
    /\ UNCHANGED <<setting, buildVars, pending, fileVars, moveJobs, move>>

\* onMoveToStorageFailure; the job is tried again, unless it was its last
\* attempt.
MoveFails ==
    /\ Fault
    /\ Locked
    /\ video' = IF video = "DELETED" THEN video
                 ELSE "TO_MOVE_TO_EXTERNAL_STORAGE_FAILED"
    /\ pendingMove' = 0
    /\ move' = "idle" /\ moveJobs' \in {moveJobs, moveJobs + 1}
    /\ UNCHANGED <<setting, job, buildVars, counterVars, fileVars, disturbed>>

\* A second run of the job would repeat its effect on the counter, or miss the
\* input its first run removed.
RunTwice(j) ==
    \/ job[j] \in {"next", "failDecrease"}
    \/ Active(j) /\ ~HasInput(j)

\* A restart: the queue runs interrupted jobs again from their start.  A
\* builder job that created flows would create them again: such a restart is
\* left out.
Restart ==
    /\ Fault
    /\ job[Start] # "increase" /\ job[Build] # "increase"
    /\ job[Build] = "add" => left = Sequences
    /\ job' = [j \in Job |-> IF Active(j) THEN "ready" ELSE job[j]]
    /\ disturbed' = \/ disturbed
                    \/ \E j \in Transcoding : RunTwice(j)
                    \/ move = "afterLast"
    /\ moveJobs' = IF Locked THEN moveJobs + 1 ELSE moveJobs
    /\ move' = "idle"
    /\ UNCHANGED <<setting, buildVars, counterVars, video, fileVars,
                   pendingMove>>

DeleteVideo ==
    /\ Fault
    /\ video # "DELETED"
    /\ video' = "DELETED" /\ webFiles' = {} /\ hlsFiles' = {}
    /\ infoRow' = FALSE /\ pending' = 0 /\ pendingMove' = 0
    /\ UNCHANGED <<setting, job, buildVars, seen, moveJobs, move, disturbed>>

-----------------------------------------------------------------------------
Init ==
    /\ setting \in Setting
    /\ job = [j \in Job |-> CASE j = Prepare -> "ready" [] j = Start -> "children"
                              [] OTHER -> "absent"]
    /\ left = {} /\ adding = None
    /\ pending = 0 /\ infoRow = FALSE
    /\ video = "TO_TRANSCODE"
    /\ webFiles = {Max} /\ hlsFiles = {}
    /\ seen = [r \in Resolution |-> {}]
    /\ pendingMove = 0 /\ moveJobs = 0 /\ move = "idle"
    /\ faults = 0 /\ disturbed = FALSE

BuilderStep ==
    \/ PrepareEnds \/ TakeBuilder(Start) \/ TakeBuilder(Build)
    \/ CreateOptimizeJobs \/ CountOptimizeJob
    \/ CountSequence \/ EndBuild
    \/ \E r \in Resolution : CreateSequentialJobFlow(r)

TranscodingStep(j) ==
    \/ LoadVideo(j) \/ StartFFmpeg(j) \/ SaveFile(j)
    \/ RemoveAllWebVideoFiles(j) \/ OnTranscodingEnded(j) \/ NextState(j)
    \/ MoveToFailedTranscodingState(j) \/ FailDecrease(j)

MoveJobStep == TakeMove \/ MoveFiles \/ DecreasePendingMove \/ DoAfterLastMove

Next ==
    \/ BuilderStep
    \/ \E j \in Transcoding : Take(j) \/ TranscodingStep(j)
    \/ MoveJobStep
    \/ \E b \in {Prepare, Start, Build} : BuildFails(b)
    \/ \E j \in Transcoding : TranscodingFails(j) \/ MoveJobNotQueued(j)
    \/ MoveFails \/ Restart \/ DeleteVideo

Spec == Init /\ [][Next]_vars
-----------------------------------------------------------------------------
\* The values of each variable; the counters have no floor.
TypeOK ==
    /\ setting \in Setting
    /\ job \in [Job -> Step]
    /\ left \subseteq Resolution /\ adding \in Resolution \cup {None}
    /\ pending \in Int /\ infoRow \in BOOLEAN
    /\ video \in VideoState
    /\ webFiles \subseteq Resolution /\ hlsFiles \subseteq Resolution
    /\ seen \in [Resolution -> SUBSET Resolution]
    /\ pendingMove \in Int /\ moveJobs \in Nat /\ move \in MoveStep
    /\ faults \in 0..MaxFaults /\ disturbed \in BOOLEAN

\* The properties below hold unless, in disturbed, a builder job failed, the
\* move job could not be queued, a transcoding job ended before its builder had
\* counted it, it failed where it changes neither state nor counter or changed
\* it already, or a restart struck after it changed the counter or removed its
\* own input.

\* A transcoding job finds the file it reads, whatever the other jobs of the
\* video removed or failed to make: a copy into HLS needs the web video of its
\* resolution, and the job that removes the web videos is one of them.
HlsHasInput ==
    \A j \in Transcoding :
        job[j] = "input" /\ video # "DELETED" /\ ~disturbed => HasInput(j)

\* "We want to wait all transcoding jobs before moving the video on an external
\* storage": no job has still to run or to be counted, although the counter is
\* the sum of what two builders add and every job subtracts, the main job
\* before the second builder runs.
MoveAfterAll ==
    [][video # "TO_MOVE_TO_EXTERNAL_STORAGE"
         /\ video' = "TO_MOVE_TO_EXTERNAL_STORAGE" /\ ~disturbed
       => \A j \in Job : \/ Over(j) \/ job[j] = "next"
                         \/ j = Build /\ Sequences = {}]_vars

-----------------------------------------------------------------------------
(* Liveness: the job queue runs its jobs to their end.                      *)

Fairness ==
    /\ WF_vars(BuilderStep) /\ WF_vars(MoveJobStep)
    /\ \A j \in Transcoding : WF_vars(Take(j) \/ TranscodingStep(j))

FairSpec == Spec /\ Fairness

Settled == { "PUBLISHED", "TRANSCODING_FAILED",
             "TO_MOVE_TO_EXTERNAL_STORAGE_FAILED", "DELETED" }

=============================================================================
