----------------------------- MODULE RunnerJobs -----------------------------
(***************************************************************************)
(* The server side of remote transcoding: the runnerJob table of one video *)
(* and every handler that reads or writes it.                              *)
(*                                                                         *)
(* A handler is a sequence of awaited database statements.  It works on    *)
(* Sequelize instances it loaded earlier and may be interleaved with every *)
(* other handler between two statements, so each statement is one action   *)
(* and each request slot carries the instances it holds.                   *)
(***************************************************************************)
EXTENDS Integers, FiniteSets

CONSTANTS
    Job,            \* runner jobs that may be created for the video
    Parent,         \* dependsOnRunnerJobId of each job, None for a main job
    Runner,         \* registered remote runners
    Token,          \* processing job tokens
    Request,        \* slots for requests the server is executing
    Builder,        \* slots for builds the server is executing
    None,           \* SQL NULL
    MaxFailures,    \* RUNNER_JOBS.MAX_FAILURES
    ObjectStorage,  \* CONFIG.OBJECT_STORAGE.ENABLED
    Env,            \* what the environment may do, a subset of EnvEvents
    FailureCap,     \* bound: no error report is sent for a job beyond it
    DebtCap         \* bound: no request starts while pending is below -DebtCap

EnvEvents == { "overlap", "duringBuild", "abort", "error", "cancel",
               "cancelChild", "delete", "deleteRunner", "watchdog",
               "watchdogFails", "crash", "completeFails", "handlerFails",
               "builderFails", "transcode", "force", "deleteVideo",
               "moveFails", "queueFails" }

\* Handlers of one job do not overlap, administrators leave children alone,
\* nothing is deleted but runners, nothing crashes and no statement rejects.
Ordered == { "abort", "error", "cancel", "deleteRunner", "watchdog" }

OrderedTwice == Ordered \cup { "transcode", "moveFails", "queueFails" }

\* The builders make every job of a batch depend on the batch's main job, so
\* the dependency forest has two levels.
ASSUME TreeAssumption ==
    /\ None \notin Job \cup Runner \cup Token
    /\ Parent \in [Job -> Job \cup {None}]
    /\ \A j \in Job : Parent[j] # None => Parent[Parent[j]] = None

ASSUME BoundAssumption ==
    /\ IsFiniteSet(Job)
    /\ MaxFailures \in Nat \ {0}
    /\ FailureCap \in Nat
    /\ DebtCap \in Nat
    /\ ObjectStorage \in BOOLEAN
    /\ Env \subseteq EnvEvents

VARIABLES
    job,        \* the runnerJob table
    pending,    \* videoJobInfo.pendingTranscode (0 while there is no row)
    infoRow,    \* whether the video has its videoJobInfo row
    video,      \* video.state
    files,      \* jobs whose output was attached to the video
    pendingMove, \* videoJobInfo.pendingMove
    moveJobs,   \* move-to-object-storage jobs waiting in the job queue
    afterMove,  \* whether a move job is in its doAfterLastMove
    request,    \* requests being executed
    stalled,    \* instances the watchdog listed and has not aborted yet
    builder,    \* transcoding job builds being executed
    released,   \* history: jobs whose completion ran updateDependantJobsOf
    orphaned    \* history: jobs whose completion was cut short, by a restart
                \* or because its last save rejected

moveVars == <<pendingMove, moveJobs, afterMove>>
videoVars == <<pending, infoRow, video, files, moveVars>>
vars == <<job, videoVars, request, stalled, builder, released, orphaned>>

-----------------------------------------------------------------------------
JobState == { "PENDING", "PROCESSING", "COMPLETED", "ERRORED",
              "WAITING_FOR_PARENT_JOB", "CANCELLED", "PARENT_ERRORED",
              "PARENT_CANCELLED", "COMPLETING" }

Absent == { "NOT_CREATED", "DELETED" }

Cancellable == { "PENDING", "PROCESSING", "WAITING_FOR_PARENT_JOB" }

VideoState == { "TO_TRANSCODE", "TO_MOVE_TO_EXTERNAL_STORAGE", "PUBLISHED",
                "TRANSCODING_FAILED", "TO_MOVE_TO_EXTERNAL_STORAGE_FAILED",
                "DELETED" }

\* The columns of a runnerJob row the handlers decide on.
Row == [ state : JobState \cup Absent, token : Token \cup {None},
         runner : Runner \cup {None}, failures : Nat ]

NoRow(s) == [state |-> s, token |-> None, runner |-> None, failures |-> 0]

Exists(j) == job[j].state \notin Absent

Kids(j) == { k \in Job : Parent[k] = j }

Mains == { j \in Job : Parent[j] = None }

\* Mutant: the query finds no row.
ChildrenOfNone(j) == {}

MainOf(j) == IF Parent[j] = None THEN j ELSE Parent[j]

ChildrenOf(j) == { k \in Kids(j) : Exists(k) }

-----------------------------------------------------------------------------
(* Model.save(): an UPDATE of the fields that changed on the instance since
   it was loaded, whatever the row holds by now; no row, no effect.         *)
Merge(db, was, now) == IF now = was THEN db ELSE now

Save(row, was, now) ==
    IF row.state \in Absent
    THEN row
    ELSE [ state    |-> Merge(row.state, was.state, now.state),
           token    |-> Merge(row.token, was.token, now.token),
           runner   |-> Merge(row.runner, was.runner, now.runner),
           failures |-> Merge(row.failures, was.failures, now.failures) ]

ResetToPending(r) ==
    [r EXCEPT !.state = "PENDING", !.token = None, !.runner = None]

SetToErrorOrCancel(r, s) == [r EXCEPT !.state = s, !.token = None]

-----------------------------------------------------------------------------
(* The video side: the pendingTranscode counter and the video's state.      *)

\* Mutants: the query of abortAllTasks; the wait dropped from
\* moveToExternalStorageState.
DecreaseToZero == pending' = 0
TranscodingEndedAlways == pending \in Int

TranscodingEnded == pending = 0

Decrease == pending' = IF infoRow THEN pending - 1 ELSE pending

BuildNextVideoState(v) ==
    IF v \notin {"TO_TRANSCODE", "TO_MOVE_TO_EXTERNAL_STORAGE"}
    THEN "TO_TRANSCODE"
    ELSE IF v = "TO_TRANSCODE" /\ ObjectStorage
         THEN "TO_MOVE_TO_EXTERNAL_STORAGE"
         ELSE "PUBLISHED"

MoveToPublishedState ==
    video' = "PUBLISHED" /\ UNCHANGED <<infoRow, pendingMove, moveJobs>>

\* buildMoveJob counts the job, which is queued then.  A failure of either is
\* caught and the new state of the video committed all the same.
CreateMoveJob ==
    \/ /\ infoRow' = TRUE /\ pendingMove' = pendingMove + 1
       /\ \/ moveJobs' = moveJobs + 1
          \/ "queueFails" \in Env /\ moveJobs' = moveJobs
    \/ "queueFails" \in Env /\ UNCHANGED <<infoRow, pendingMove, moveJobs>>

\* Waits for the transcoding jobs, otherwise asks for the move.
MoveToExternalStorageState ==
    IF TranscodingEnded
    THEN video' = "TO_MOVE_TO_EXTERNAL_STORAGE" /\ CreateMoveJob
    ELSE UNCHANGED <<infoRow, video, pendingMove, moveJobs>>

\* One serializable transaction.
MoveToNextState ==
    LET next == BuildNextVideoState(video)
    IN IF video \in {"PUBLISHED", "DELETED"} \/ next = "TO_TRANSCODE"
       THEN UNCHANGED <<infoRow, video, pendingMove, moveJobs>>
       ELSE IF next = "PUBLISHED" THEN MoveToPublishedState
                                  ELSE MoveToExternalStorageState

MoveToFailedTranscodingState == video' = "TRANSCODING_FAILED"

-----------------------------------------------------------------------------
(* Requests.  root is the job the request names, cur the job its handler is
   on (root, or a child it cascades to), kids the children left, inst the
   instances it loaded and destroy whether it is a DELETE.                  *)

NotLoaded == [j \in Job |-> NoRow("NOT_CREATED")]

IdleRequest == [ pc |-> "idle", root |-> None, cur |-> None, kids |-> {},
                 inst |-> NotLoaded, destroy |-> FALSE ]

RunnerPC == { "saveCompleting", "attach", "decrease", "nextState",
              "saveCompleted", "saveErrored", "release",
              "abortSave", "errorFail", "errorDecrease", "errorSave" }

CascadePC == { "errorList", "errorKids", "cancelDecrease", "cancelNext",
               "cancelSave", "cancelList", "cancelKids", "destroy" }

RequestRow == [ pc : {"idle"} \cup RunnerPC \cup CascadePC,
                root : Job \cup {None}, cur : Job \cup {None},
                kids : SUBSET Job, inst : [Job -> Row], destroy : BOOLEAN ]

CompletingPC == { "attach", "decrease", "nextState", "saveCompleted",
                  "saveErrored" }

Goto(q, label) == request' = [request EXCEPT ![q].pc = label]

\* After its last save an instance is not used again.
DropAndGoto(q, j, label) ==
    request' = [request EXCEPT ![q].pc = label,
                               ![q].inst[j] = NoRow("NOT_CREATED")]

Finish(q) == request' = [request EXCEPT ![q] = IdleRequest]

IdleBuilder ==
    [pc |-> "idle", todo |-> {}, seen |-> "TO_TRANSCODE", upload |-> FALSE]

BuilderPC == {"idle", "reset", "state", "row", "increase"}

BuildRow == [ pc : BuilderPC, todo : SUBSET Job, seen : VideoState,
              upload : BOOLEAN ]

NoBuild == \A b \in Builder : builder[b].pc = "idle"

\* Someone holds an instance of j or of a relative of j it will cascade to.
Busy(j) ==
    \/ stalled[j] # NoRow("NOT_CREATED")
    \/ \E q \in Request : /\ request[q].pc # "idle"
                          /\ \/ request[q].root \in {j, Parent[j]}
                             \/ request[q].root \in Kids(j)

Start(q, label, j, destroy) ==
    /\ request[q].pc = "idle"
    /\ pending >= -DebtCap
    /\ "overlap" \in Env \/ ~Busy(j)
    /\ "duringBuild" \in Env \/ NoBuild
    /\ request' = [request EXCEPT ![q] =
                     [ pc |-> label, root |-> j, cur |-> j, kids |-> {},
                       inst |-> [NotLoaded EXCEPT ![j] = job[j]],
                       destroy |-> destroy ]]
    /\ UNCHANGED <<job, videoVars, stalled, builder, released, orphaned>>

\* jobOfRunnerGetValidator: the row is looked up by the tokens of the job and
\* of its runner, which only the runner that holds the job knows.
\* Mutant: the states the update route allows are allowed for every route.
HeldByRunnerDone(j) == /\ job[j].state \in {"PROCESSING", "COMPLETED"}
                       /\ job[j].token # None
                       /\ job[j].runner # None

HeldByRunner(j) == /\ job[j].state = "PROCESSING"
                   /\ job[j].token # None
                   /\ job[j].runner # None

-----------------------------------------------------------------------------
(* Accept.  The transaction reloads the row, so only its guard decides.     *)

TokensInUse ==
    { job[j].token : j \in Job }
      \cup { request[q].inst[j].token : q \in Request, j \in Job }
      \cup { stalled[j].token : j \in Job }

\* Mutant: only the validator's earlier look at the state is trusted.
CanAcceptUnchecked(j) == job[j].state \in {"PENDING", "PROCESSING"}

CanAccept(j) == job[j].state = "PENDING"

AcceptRunnerJob(r, j) ==
    /\ CanAccept(j)
    /\ "duringBuild" \in Env \/ NoBuild
    /\ \E fresh \in Token \ TokensInUse :
         job' = [job EXCEPT ![j].state = "PROCESSING",
                            ![j].token = fresh,
                            ![j].runner = r]
    /\ UNCHANGED <<videoVars, request, stalled, builder, released, orphaned>>

-----------------------------------------------------------------------------
(* Success: AbstractJobHandler.complete.                                    *)

StartComplete(q, j) == HeldByRunner(j) /\ Start(q, "saveCompleting", j, FALSE)

SaveCompleting(q) ==
    LET j == request[q].root
        was == request[q].inst[j]
        now == [was EXCEPT !.state = "COMPLETING"]
    IN /\ request[q].pc = "saveCompleting"
       /\ job' = [job EXCEPT ![j] = Save(job[j], was, now)]
       /\ request' = [request EXCEPT ![q].pc = "attach", ![q].inst[j] = now]
       /\ UNCHANGED <<videoVars, stalled, builder, released, orphaned>>

\* The transcoded file becomes a file of the video, if there is a video.
AttachFile(q) ==
    /\ request[q].pc = "attach"
    /\ IF video = "DELETED"
       THEN files' = files /\ Goto(q, "saveCompleted")
       ELSE files' = files \cup {request[q].root} /\ Goto(q, "decrease")
    /\ UNCHANGED <<job, pending, infoRow, video, moveVars, stalled,
                   builder, released, orphaned>>

OnTranscodingEnded(q) ==
    /\ request[q].pc = "decrease"
    /\ Decrease
    /\ Goto(q, "nextState")
    /\ UNCHANGED <<job, infoRow, video, files, moveVars, stalled, builder,
                   released, orphaned>>

CompleteNextState(q) ==
    /\ request[q].pc = "nextState"
    /\ MoveToNextState
    /\ Goto(q, "saveCompleted")
    /\ UNCHANGED <<job, pending, files, afterMove, stalled, builder,
                   released, orphaned>>

\* Any statement of specificComplete may throw; complete catches it.
CompleteThrows(q) ==
    /\ "completeFails" \in Env
    /\ request[q].pc \in {"attach", "decrease", "nextState", "saveCompleted"}
    /\ Goto(q, "saveErrored")
    /\ UNCHANGED <<job, videoVars, stalled, builder, released, orphaned>>

\* Mutants: the catch reports success, the catch leaves the state alone.
CompletionStateCaught(label) == "COMPLETED"
CompletionStateKept(label) ==
    IF label = "saveCompleted" THEN "COMPLETED" ELSE "COMPLETING"

CompletionState(label) ==
    IF label = "saveCompleted" THEN "COMPLETED" ELSE "ERRORED"

SaveCompletion(q) ==
    LET j == request[q].root
        was == request[q].inst[j]
        now == [was EXCEPT !.state = CompletionState(request[q].pc)]
    IN /\ request[q].pc \in {"saveCompleted", "saveErrored"}
       /\ job' = [job EXCEPT ![j] = Save(job[j], was, now)]
       /\ DropAndGoto(q, j, "release")
       /\ UNCHANGED <<videoVars, stalled, builder, released, orphaned>>

\* updateDependantJobsOf: every child row, whatever its state.
ReleaseChildren(q) ==
    LET j == request[q].root
    IN /\ request[q].pc = "release"
       /\ job' = [k \in Job |-> IF k \in ChildrenOf(j)
                                THEN [job[k] EXCEPT !.state = "PENDING"]
                                ELSE job[k]]
       /\ released' = released \cup {j}
       /\ Finish(q)
       /\ UNCHANGED <<videoVars, stalled, builder, orphaned>>

\* Outside specificComplete nothing is caught: a statement that rejects ends
\* the request.  The last save of a completion leaves the job COMPLETING.
HandlerFails(q) ==
    LET r == request[q]
    IN /\ "handlerFails" \in Env
       /\ r.pc \notin {"idle", "attach", "decrease", "nextState"}
       /\ orphaned' = IF r.pc \in CompletingPC THEN orphaned \cup {r.root}
                      ELSE orphaned
       /\ Finish(q)
       /\ UNCHANGED <<job, videoVars, stalled, builder, released>>

-----------------------------------------------------------------------------
(* Abort by the runner.                                                     *)

StartAbort(q, j) == /\ "abort" \in Env
                    /\ HeldByRunner(j)
                    /\ Start(q, "abortSave", j, FALSE)

AbortSave(q) ==
    LET j == request[q].root
        was == request[q].inst[j]
    IN /\ request[q].pc = "abortSave"
       /\ job' = [job EXCEPT ![j] = Save(job[j], was, ResetToPending(was))]
       /\ Finish(q)
       /\ UNCHANGED <<videoVars, stalled, builder, released, orphaned>>

-----------------------------------------------------------------------------
(* Error reported by the runner: AbstractJobHandler.error.  failures is
   incremented on the instance and reaches the row with the final save.     *)

StartError(q, j) == /\ "error" \in Env
                    /\ HeldByRunner(j)
                    /\ job[j].failures < FailureCap
                    /\ Start(q, "errorFail", j, FALSE)

\* Mutants: one failure too many, remaining attempts counted down.
ExhaustedLate(row) == row.failures + 1 > MaxFailures
CountFailureDown(row) == [row EXCEPT !.failures = @ - 1]

Exhausted(row) == row.failures + 1 >= MaxFailures

CountFailure(row) == [row EXCEPT !.failures = @ + 1]

ErrorFail(q) ==
    /\ request[q].pc = "errorFail"
    /\ IF Exhausted(request[q].inst[request[q].root]) /\ video # "DELETED"
       THEN MoveToFailedTranscodingState /\ Goto(q, "errorDecrease")
       ELSE video' = video /\ Goto(q, "errorSave")
    /\ UNCHANGED <<job, pending, infoRow, files, moveVars, stalled,
                   builder, released, orphaned>>

ErrorDecrease(q) ==
    /\ request[q].pc = "errorDecrease"
    /\ Decrease
    /\ Goto(q, "errorSave")
    /\ UNCHANGED <<job, infoRow, video, files, moveVars, stalled, builder,
                   released, orphaned>>

ErrorSave(q) ==
    LET j == request[q].root
        was == request[q].inst[j]
        failed == CountFailure(was)
    IN /\ request[q].pc = "errorSave"
       /\ IF Exhausted(was)
          THEN /\ job' = [job EXCEPT ![j] =
                           Save(job[j], was,
                                SetToErrorOrCancel(failed, "ERRORED"))]
               /\ DropAndGoto(q, j, "errorList")
          ELSE /\ job' = [job EXCEPT ![j] =
                           Save(job[j], was, ResetToPending(failed))]
               /\ Finish(q)
       /\ UNCHANGED <<videoVars, stalled, builder, released, orphaned>>

\* listChildrenOf: the children are loaded together, handled one by one.
LoadChildren(q) ==
    LET kids == ChildrenOf(request[q].root)
    IN [request[q] EXCEPT !.kids = kids,
          !.inst = [j \in Job |-> IF j \in kids THEN job[j]
                                  ELSE request[q].inst[j]]]

ErrorListChildren(q) ==
    /\ request[q].pc = "errorList"
    /\ request' = [request EXCEPT ![q] = [LoadChildren(q) EXCEPT
                                            !.pc = "errorKids"]]
    /\ UNCHANGED <<job, videoVars, stalled, builder, released, orphaned>>

\* error({ fromParent: true }) on a child, whose specificError does nothing.
ErrorChild(q, k) ==
    LET was == request[q].inst[k]
    IN /\ request[q].pc = "errorKids"
       /\ k \in request[q].kids
       /\ job' = [job EXCEPT ![k] =
                    Save(job[k], was, SetToErrorOrCancel(was, "PARENT_ERRORED"))]
       /\ request' = [request EXCEPT ![q].kids = @ \ {k},
                                     ![q].inst[k] = NoRow("NOT_CREATED")]
       /\ UNCHANGED <<videoVars, stalled, builder, released, orphaned>>

ErrorEnd(q) ==
    /\ request[q].pc = "errorKids"
    /\ request[q].kids = {}
    /\ Finish(q)
    /\ UNCHANGED <<job, videoVars, stalled, builder, released, orphaned>>

-----------------------------------------------------------------------------
(* Cancel and delete by an administrator.                                   *)

StartCancel(q, j) ==
    /\ "cancel" \in Env /\ (Parent[j] = None \/ "cancelChild" \in Env)
    /\ job[j].state \in Cancellable
    /\ Start(q, "cancelDecrease", j, FALSE)

StartDelete(q, j) ==
    /\ "delete" \in Env
    /\ Exists(j)
    /\ Start(q, IF job[j].state \in Cancellable
                THEN "cancelDecrease" ELSE "destroy", j, TRUE)

\* Mutant: off by one.
LastTranscodeLate == infoRow /\ pending' < 0

\* decrease returned 0, and not undefined.
LastTranscode == infoRow /\ pending' = 0

\* specificCancel on the current job (the root or a child).
CancelDecrease(q) ==
    /\ request[q].pc = "cancelDecrease"
    /\ Decrease
    /\ Goto(q, IF LastTranscode THEN "cancelNext" ELSE "cancelSave")
    /\ UNCHANGED <<job, infoRow, video, files, moveVars, stalled, builder,
                   released, orphaned>>

CancelNextState(q) ==
    /\ request[q].pc = "cancelNext"
    /\ MoveToNextState
    /\ Goto(q, "cancelSave")
    /\ UNCHANGED <<job, pending, files, afterMove, stalled, builder,
                   released, orphaned>>

CancelSave(q) ==
    LET j == request[q].cur
        was == request[q].inst[j]
        isRoot == j = request[q].root
        state == IF isRoot THEN "CANCELLED" ELSE "PARENT_CANCELLED"
    IN /\ request[q].pc = "cancelSave"
       /\ job' = [job EXCEPT ![j] =
                    Save(job[j], was, SetToErrorOrCancel(was, state))]
       /\ DropAndGoto(q, j, IF isRoot THEN "cancelList" ELSE "cancelKids")
       /\ UNCHANGED <<videoVars, stalled, builder, released, orphaned>>

CancelListChildren(q) ==
    /\ request[q].pc = "cancelList"
    /\ request' = [request EXCEPT ![q] = [LoadChildren(q) EXCEPT
                                            !.pc = "cancelKids"]]
    /\ UNCHANGED <<job, videoVars, stalled, builder, released, orphaned>>

CancelChild(q, k) ==
    /\ request[q].pc = "cancelKids"
    /\ k \in request[q].kids
    /\ request' = [request EXCEPT ![q].pc = "cancelDecrease", ![q].cur = k,
                                  ![q].kids = @ \ {k}]
    /\ UNCHANGED <<job, videoVars, stalled, builder, released, orphaned>>

CancelEnd(q) ==
    /\ request[q].pc = "cancelKids"
    /\ request[q].kids = {}
    /\ IF request[q].destroy THEN Goto(q, "destroy") ELSE Finish(q)
    /\ UNCHANGED <<job, videoVars, stalled, builder, released, orphaned>>

\* dependsOnRunnerJobId is ON DELETE CASCADE.
Destroy(q) ==
    LET j == request[q].root
    IN /\ request[q].pc = "destroy"
       /\ job' = [k \in Job |-> IF k \in {j} \cup ChildrenOf(j)
                                THEN NoRow("DELETED") ELSE job[k]]
       /\ Finish(q)
       /\ UNCHANGED <<videoVars, stalled, builder, released, orphaned>>

-----------------------------------------------------------------------------
(* A runner unregisters or is deleted: runnerId is ON DELETE SET NULL.  A
   runner that registers again is a new row, so the model keeps the name.   *)

DeleteRunner(r) ==
    /\ "deleteRunner" \in Env
    /\ job' = [j \in Job |-> IF job[j].runner = r
                             THEN [job[j] EXCEPT !.runner = None] ELSE job[j]]
    /\ job' # job
    /\ UNCHANGED <<videoVars, request, stalled, builder, released, orphaned>>

-----------------------------------------------------------------------------
(* The watchdog lists the jobs whose updatedAt is too old, then aborts the
   instances one after the other.  Any processing job may be silent.        *)

NoneStalled == \A j \in Job : stalled[j] = NoRow("NOT_CREATED")

ListStalledJobs(S) ==
    /\ "watchdog" \in Env
    /\ NoneStalled
    /\ S # {}
    /\ \A j \in S : /\ job[j].state = "PROCESSING"
                    /\ "overlap" \in Env \/ ~Busy(j)
    /\ stalled' = [j \in Job |-> IF j \in S THEN job[j] ELSE stalled[j]]
    /\ UNCHANGED <<job, videoVars, request, builder, released, orphaned>>

AbortStalled(j) ==
    /\ stalled[j] # NoRow("NOT_CREATED")
    /\ job' = [job EXCEPT ![j] =
                 Save(job[j], stalled[j], ResetToPending(stalled[j]))]
    /\ stalled' = [stalled EXCEPT ![j] = NoRow("NOT_CREATED")]
    /\ UNCHANGED <<videoVars, request, builder, released, orphaned>>

\* An abort rejects: the watchdog gives up the instances that are left.
WatchdogFails ==
    /\ "watchdogFails" \in Env
    /\ ~NoneStalled
    /\ stalled' = NotLoaded
    /\ UNCHANGED <<job, videoVars, request, builder, released, orphaned>>

-----------------------------------------------------------------------------
(* The builder: TranscodingRunnerJobBuilder, run by an upload (Init) or by
   an administrator who asks for a new transcoding of the video.            *)

UploadBuild(m) ==
    [pc |-> "row", todo |-> {m} \cup Kids(m), seen |-> "TO_TRANSCODE",
     upload |-> TRUE]

\* A build gives its jobs new uuids.
FreshMains ==
    { m \in Mains : /\ job[m].state = "NOT_CREATED"
                    /\ \A b \in Builder : m \notin builder[b].todo }

\* Mutant: off by one.
AlreadyTranscodingLate == pending > 1

AlreadyTranscoding == pending > 0

CreateTranscoding(b, m) ==
    /\ "transcode" \in Env
    /\ builder[b].pc = "idle"
    /\ "duringBuild" \in Env \/ NoBuild
    /\ m \in FreshMains
    /\ video # "DELETED"
    /\ AlreadyTranscoding => "force" \in Env
    /\ builder' = [builder EXCEPT ![b] =
                     [pc |-> "reset", todo |-> {m} \cup Kids(m), seen |-> video,
                      upload |-> FALSE]]
    /\ UNCHANGED <<job, videoVars, request, stalled, released, orphaned>>

AbortAllTasks(b) ==
    /\ builder[b].pc = "reset"
    /\ pending' = 0
    /\ builder' = [builder EXCEPT ![b].pc = "state"]
    /\ UNCHANGED <<job, infoRow, video, files, moveVars, request, stalled,
                   released, orphaned>>

SetToTranscode(b) ==
    /\ builder[b].pc = "state"
    /\ video' = IF video = "DELETED" THEN video
                 ELSE Merge(video, builder[b].seen, "TO_TRANSCODE")
    /\ builder' = [builder EXCEPT ![b].pc = "row"]
    /\ UNCHANGED <<job, pending, infoRow, files, moveVars, request,
                   stalled, released, orphaned>>

\* Mutant: a child is available at once.
InitialStatePending(j) == "PENDING"

InitialState(j) ==
    IF Parent[j] = None THEN "PENDING" ELSE "WAITING_FOR_PARENT_JOB"

EndBuild(b) == builder' = [builder EXCEPT ![b] = IdleBuilder]

\* createRunnerJob: the main job first; a child needs its parent's row.
CreateRunnerJob(b, j) ==
    /\ builder[b].pc = "row"
    /\ j \in builder[b].todo
    /\ Parent[j] \notin builder[b].todo
    /\ IF Parent[j] = None \/ Exists(Parent[j])
       THEN /\ job' = [job EXCEPT ![j].state = InitialState(j)]
            /\ builder' = [builder EXCEPT ![b].pc = "increase",
                                          ![b].todo = @ \ {j}]
       ELSE job' = job /\ EndBuild(b)
    /\ UNCHANGED <<videoVars, request, stalled, released, orphaned>>

\* increaseOrCreate, after the job's row; it throws without a video.
IncreaseOrCreate(b) ==
    /\ builder[b].pc = "increase"
    /\ IF video = "DELETED"
       THEN EndBuild(b) /\ UNCHANGED <<pending, infoRow>>
       ELSE /\ pending' = pending + 1
            /\ infoRow' = TRUE
            /\ IF builder[b].todo = {}
               THEN EndBuild(b)
               ELSE builder' = [builder EXCEPT ![b].pc = "row"]
    /\ UNCHANGED <<job, video, files, moveVars, request, stalled,
                   released, orphaned>>

BuilderThrows(b) ==
    /\ "builderFails" \in Env
    /\ builder[b].pc # "idle"
    /\ EndBuild(b)
    /\ UNCHANGED <<job, videoVars, request, stalled, released, orphaned>>

-----------------------------------------------------------------------------
(* The video's other actors.                                                *)

\* A move job moves the files that are left and, when it is the last one, asks
\* for the next state.  The lock on the video's files keeps jobs apart.
MoveFiles ==
    /\ moveJobs > 0 /\ ~afterMove
    /\ moveJobs' = moveJobs - 1
    /\ pendingMove' = IF infoRow THEN pendingMove - 1 ELSE pendingMove
    /\ afterMove' = (infoRow /\ pendingMove' = 0)
    /\ UNCHANGED <<job, pending, infoRow, video, files, request, stalled,
                   builder, released, orphaned>>

DoAfterLastMove ==
    /\ afterMove
    /\ afterMove' = FALSE
    /\ MoveToNextState
    /\ UNCHANGED <<job, pending, files, request, stalled, builder,
                   released, orphaned>>

\* A move job throws: the queue tries it again, unless it was its last attempt.
MoveFails ==
    LET left == IF afterMove THEN moveJobs + 1 ELSE moveJobs
    IN /\ "moveFails" \in Env
       /\ left > 0
       /\ moveJobs' \in {left, left - 1}
       /\ afterMove' = FALSE
       /\ video' = IF video = "DELETED" THEN video
                    ELSE "TO_MOVE_TO_EXTERNAL_STORAGE_FAILED"
       /\ pendingMove' = 0
       /\ UNCHANGED <<job, pending, infoRow, files, request, stalled, builder,
                      released, orphaned>>

\* The videoJobInfo row goes with the video, the runner jobs stay.
DeleteVideo ==
    /\ "deleteVideo" \in Env
    /\ video # "DELETED"
    /\ video' = "DELETED"
    /\ infoRow' = FALSE /\ pending' = 0 /\ pendingMove' = 0
    /\ UNCHANGED <<job, files, moveJobs, afterMove, request, stalled, builder,
                   released, orphaned>>

\* A restart loses every handler, whatever it had still to do.  The job queue
\* runs an interrupted upload build again from its start, unless it stalled too
\* often; a build an administrator asked for is lost.
Restart ==
    /\ "crash" \in Env
    /\ request' = [q \in Request |-> IdleRequest]
    /\ stalled' = NotLoaded
    /\ \/ builder' = [b \in Builder |-> IdleBuilder]
       \/ \E b \in Builder, m \in Mains :
            /\ builder[b].upload /\ video # "DELETED"
            /\ job[m].state = "NOT_CREATED"
            /\ builder' = [c \in Builder |-> IF c = b THEN UploadBuild(m)
                                             ELSE IdleBuilder]
    /\ orphaned' = orphaned \cup { request[q].root : q \in
                                  { p \in Request : request[p].pc \in CompletingPC } }
    \* The queue runs an interrupted move job again.
    /\ moveJobs' = IF afterMove THEN moveJobs + 1 ELSE moveJobs
    /\ afterMove' = FALSE
    /\ UNCHANGED <<job, pending, infoRow, video, files, pendingMove, released>>

-----------------------------------------------------------------------------
Init ==
    /\ job = NotLoaded
    /\ pending = 0 /\ infoRow = FALSE
    /\ video = "TO_TRANSCODE"
    /\ files = {} /\ pendingMove = 0 /\ moveJobs = 0 /\ afterMove = FALSE
    /\ request = [q \in Request |-> IdleRequest]
    /\ stalled = NotLoaded
    /\ \E b \in Builder, m \in Mains :
         builder = [c \in Builder |-> IF c = b THEN UploadBuild(m)
                                      ELSE IdleBuilder]
    /\ released = {} /\ orphaned = {}

CompleteStep(q) ==
    \/ SaveCompleting(q) \/ AttachFile(q) \/ OnTranscodingEnded(q)
    \/ CompleteNextState(q) \/ SaveCompletion(q) \/ ReleaseChildren(q)

ErrorStep(q) ==
    \/ ErrorFail(q) \/ ErrorDecrease(q) \/ ErrorSave(q)
    \/ ErrorListChildren(q) \/ ErrorEnd(q)
    \/ \E k \in Job : ErrorChild(q, k)

CancelStep(q) ==
    \/ CancelDecrease(q) \/ CancelNextState(q) \/ CancelSave(q)
    \/ CancelListChildren(q) \/ CancelEnd(q) \/ Destroy(q)
    \/ \E k \in Job : CancelChild(q, k)

HandlerStep(q) ==
    CompleteStep(q) \/ AbortSave(q) \/ ErrorStep(q) \/ CancelStep(q)

NewRequest(q, j) ==
    \/ StartComplete(q, j) \/ StartAbort(q, j) \/ StartError(q, j)
    \/ StartCancel(q, j) \/ StartDelete(q, j)

BuilderStep(b) ==
    \/ AbortAllTasks(b) \/ SetToTranscode(b) \/ IncreaseOrCreate(b)
    \/ \E j \in Job : CreateRunnerJob(b, j)

Next ==
    \/ \E q \in Request : HandlerStep(q) \/ CompleteThrows(q) \/ HandlerFails(q)
    \/ \E q \in Request, j \in Job : NewRequest(q, j)
    \/ \E r \in Runner, j \in Job : AcceptRunnerJob(r, j)
    \/ \E r \in Runner : DeleteRunner(r)
    \/ \E S \in SUBSET Job : ListStalledJobs(S)
    \/ WatchdogFails \/ \E j \in Job : AbortStalled(j)
    \/ \E b \in Builder : BuilderStep(b) \/ BuilderThrows(b)
    \/ \E b \in Builder, m \in Job : CreateTranscoding(b, m)
    \/ MoveFiles \/ DoAfterLastMove \/ MoveFails \/ DeleteVideo \/ Restart

Spec == Init /\ [][Next]_vars

-----------------------------------------------------------------------------
RowsTyped == job \in [Job -> Row] /\ stalled \in [Job -> Row]

VideoTyped ==
    /\ pending \in Int /\ infoRow \in BOOLEAN
    /\ video \in VideoState
    /\ files \subseteq Job
    /\ pendingMove \in Int /\ moveJobs \in Nat /\ afterMove \in BOOLEAN

RequestsTyped ==
    /\ request \in [Request -> RequestRow]
    /\ \A q \in Request : request[q].pc # "idle" =>
         request[q].root \in Job /\ request[q].cur \in Job

BuildsTyped == builder \in [Builder -> BuildRow]

HistoryTyped == released \subseteq Job /\ orphaned \subseteq Job

\* The state each variable ranges over: in particular a request being executed
\* names a job.
TypeOK ==
    RowsTyped /\ VideoTyped /\ RequestsTyped /\ BuildsTyped /\ HistoryTyped

(* Safety under every interleaving of the handlers. *)

\* A job is COMPLETED only when its output was attached to the video or there
\* was no video left to attach it to: a completion that throws, or a stale
\* instance saved late, never reports success.
CompletedHasFile ==
    \A j \in Job : job[j].state = "COMPLETED" => j \in files \/ video = "DELETED"

\* A child becomes available, runs or ends on its own only after a completion
\* of its parent: low resolutions use the output of the main job.
KidAfterParent ==
    \A k \in Job :
        /\ Parent[k] # None
        /\ job[k].state \in { "PENDING", "PROCESSING", "COMPLETING",
                              "COMPLETED", "ERRORED" }
        => Parent[k] \in released

\* COMPLETING is refused by every validator, so such a job can only be moved
\* on by the handler that is completing it.  Whatever its attachment, counter
\* or next state throw, the handler does move it on; only a restart, or the
\* failure of the handler's last save, leaves it COMPLETING for ever.
CompletingHasHandler ==
    \A j \in Job : job[j].state = "COMPLETING" =>
        \/ j \in orphaned
        \/ \E q \in Request : /\ request[q].root = j
                            /\ request[q].pc \in CompletingPC

\* A job being processed is never handed to another runner: it is first given
\* back, cancelled or finished.
NoStolenJob ==
    [][\A j \in Job :
         job[j].state = "PROCESSING" /\ job'[j].state = "PROCESSING"
         => /\ job'[j].token \in {job[j].token, None}
            /\ job'[j].runner \in {job[j].runner, None}]_vars

(* Safety when handlers of one job do not overlap. *)

Final == { "COMPLETED", "ERRORED", "CANCELLED", "PARENT_ERRORED",
           "PARENT_CANCELLED" }

\* Work a runner still has to do.
Unfinished(j) == Exists(j) /\ job[j].state \notin Final

\* No handler and no builder is at work.
Quiet == NoBuild /\ \A q \in Request : request[q].pc = "idle"

\* A job that ended stays as it ended until an administrator deletes it.
FinalIsFinal ==
    [][\A j \in Job : job[j].state \in Final =>
         job'[j].state \in {job[j].state, "DELETED"}]_vars

\* Between handlers, pendingTranscode is the number of unfinished jobs plus
\* the jobs their parent's error ended: those are never subtracted.
CounterAccounts ==
    Quiet => pending = Cardinality({ j \in Job : Unfinished(j) })
                       + Cardinality({ j \in Job : job[j].state = "PARENT_ERRORED" })

\* Without forceTranscoding a new batch is only created once the jobs of the
\* previous one have all ended.
OneBatch ==
    LET Left(j) == Unfinished(j) /\ \A q \in Request : request[q].cur # j
    IN \A i, j \in Job : Left(i) /\ Left(j) => MainOf(i) = MainOf(j)

\* "We want to wait all transcoding jobs before moving the video on an
\* external storage": no job is left to run when the move is asked for, but
\* the one whose cancellation or completion asks for it.
MoveWaitsForAll ==
    [][video # "TO_MOVE_TO_EXTERNAL_STORAGE"
         /\ video' = "TO_MOVE_TO_EXTERNAL_STORAGE"
       => \A j \in Job :
            Unfinished(j) =>
              \/ j \in files /\ job[j].state = "COMPLETING"
              \/ \E q \in Request : request[q].cur = j
                                  /\ request[q].pc = "cancelNext"]_vars

-----------------------------------------------------------------------------
(* Liveness.  The event loop runs every handler, the builder and the watchdog
   to their end.  Some runner accepts what it is offered, and does not fail
   for ever: a job accepted again and again is completed in the end.  The job
   queue runs its jobs.                                                     *)

Fairness ==
    /\ \A q \in Request : WF_vars(HandlerStep(q))
    /\ \A b \in Builder : WF_vars(BuilderStep(b))
    /\ \A j \in Job : /\ WF_vars(AbortStalled(j))
                       /\ WF_vars(\E r \in Runner : AcceptRunnerJob(r, j))
                       /\ SF_vars(\E q \in Request : StartComplete(q, j))
                       /\ WF_vars(ListStalledJobs({j}))
    /\ WF_vars(MoveFiles) /\ WF_vars(DoAfterLastMove)

FairSpec == Spec /\ Fairness

\* Every job that was created ends, released or given up with its parent.
EveryJobEnds ==
    \A j \in Job : Exists(j) ~> ~Unfinished(j)

\* The video does not stay in a transitional state, as long as its move job can
\* be queued: it is published, or its owner sees that it failed.
VideoSettles == <>[](video \in {"PUBLISHED", "TRANSCODING_FAILED"})
=============================================================================
