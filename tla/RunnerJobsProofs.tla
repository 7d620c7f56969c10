-------------------------- MODULE RunnerJobsProofs --------------------------
(***************************************************************************)
(* Proofs about RunnerJobs for every set of jobs, runners, tokens, request *)
(* and builder slots and for every environment.                            *)
(***************************************************************************)
EXTENDS RunnerJobs, TLAPS

-----------------------------------------------------------------------------
(* Lemmas about the operators.                                              *)

\* A row that does not exist is a row.
LEMMA NoRowType ==
    ASSUME NEW s \in JobState \cup Absent
    PROVE  NoRow(s) \in Row
  BY DEF NoRow, Row

LEMMA NotLoadedType == NotLoaded \in [Job -> Row]
  BY NoRowType DEF NotLoaded, Absent

\* A save of an instance leaves a row.
LEMMA SaveType ==
    ASSUME NEW row \in Row, NEW was \in Row, NEW now \in Row
    PROVE  Save(row, was, now) \in Row
  BY DEF Save, Merge, Row

LEMMA ResetType ==
    ASSUME NEW r \in Row
    PROVE  ResetToPending(r) \in Row
  BY DEF ResetToPending, Row, JobState

LEMMA SetToErrorOrCancelType ==
    ASSUME NEW r \in Row, NEW s \in JobState
    PROVE  SetToErrorOrCancel(r, s) \in Row
  BY DEF SetToErrorOrCancel, Row

LEMMA StateType ==
    ASSUME NEW r \in Row, NEW s \in JobState
    PROVE  [r EXCEPT !.state = s] \in Row
  BY DEF Row

LEMMA CountFailureType ==
    ASSUME NEW r \in Row
    PROVE  CountFailure(r) \in Row
  BY DEF CountFailure, Row

\* A save changes a column only if the instance changed it.
LEMMA SaveColumns ==
    ASSUME NEW row \in Row, NEW was \in Row, NEW now \in Row
    PROVE  LET saved == Save(row, was, now)
           IN /\ saved.state \in {row.state, now.state}
              /\ was.state # now.state /\ row.state \notin Absent
                   => saved.state = now.state
              /\ was.state = now.state => saved.state = row.state
              /\ row.state \in Absent => saved.state = row.state
              /\ now.token \in {was.token, None}
                   => saved.token \in {row.token, None}
              /\ now.runner \in {was.runner, None}
                   => saved.runner \in {row.runner, None}
  BY DEF Save, Merge, Row

\* moveToNextState leaves the video alone, publishes it or starts a move.
LEMMA MoveToNextStateCases ==
    ASSUME MoveToNextState
    PROVE  \/ UNCHANGED <<infoRow, video, pendingMove, moveJobs>>
           \/ /\ video # "DELETED" /\ video' = "PUBLISHED"
              /\ UNCHANGED <<infoRow, pendingMove, moveJobs>>
           \/ /\ video # "DELETED" /\ video' = "TO_MOVE_TO_EXTERNAL_STORAGE"
              /\ \/ infoRow' = TRUE /\ pendingMove' = pendingMove + 1
                 \/ infoRow' = infoRow /\ pendingMove' = pendingMove
              /\ moveJobs' = moveJobs + 1 \/ moveJobs' = moveJobs
  <1>1. CASE video \in {"PUBLISHED", "DELETED"}
            \/ BuildNextVideoState(video) = "TO_TRANSCODE"
    BY <1>1 DEF MoveToNextState
  <1>2. CASE ~(video \in {"PUBLISHED", "DELETED"}
               \/ BuildNextVideoState(video) = "TO_TRANSCODE")
    <2>1. MoveToPublishedState \/ MoveToExternalStorageState
      BY <1>2 DEF MoveToNextState
    <2>2. video # "DELETED"
      BY <1>2
    <2>. QED
      BY <2>1, <2>2 DEF MoveToPublishedState, MoveToExternalStorageState,
                        CreateMoveJob
  <1>. QED
    BY <1>1, <1>2

-----------------------------------------------------------------------------
(* Who writes what: a variable changes only in the actions named here.      *)

HandlerWritesJob(q) ==
    \/ SaveCompleting(q) \/ SaveCompletion(q) \/ ReleaseChildren(q)
    \/ AbortSave(q) \/ ErrorSave(q) \/ CancelSave(q) \/ Destroy(q)
    \/ \E k \in Job : ErrorChild(q, k)

JobWriters ==
    \/ \E q \in Request : HandlerWritesJob(q)
    \/ \E r \in Runner, j \in Job : AcceptRunnerJob(r, j)
    \/ \E r \in Runner : DeleteRunner(r)
    \/ \E j \in Job : AbortStalled(j)
    \/ \E b \in Builder, j \in Job : CreateRunnerJob(b, j)

LEMMA WritesJob ==
    ASSUME [Next]_vars
    PROVE  UNCHANGED job \/ JobWriters
  <1>1. ASSUME NEW q \in Request, HandlerStep(q)
        PROVE  UNCHANGED job \/ HandlerWritesJob(q)
    <2>1. CASE CompleteStep(q)
      BY <2>1 DEF HandlerWritesJob, CompleteStep, AttachFile,
                  OnTranscodingEnded, CompleteNextState
    <2>2. CASE ErrorStep(q)
      BY <2>2 DEF HandlerWritesJob, ErrorStep, ErrorFail, ErrorDecrease,
                  ErrorListChildren, ErrorEnd
    <2>3. CASE CancelStep(q)
      BY <2>3 DEF HandlerWritesJob, CancelStep, CancelDecrease,
                  CancelNextState, CancelListChildren, CancelEnd, CancelChild
    <2>. QED
      BY <1>1, <2>1, <2>2, <2>3 DEF HandlerStep, HandlerWritesJob
  <1>2. ASSUME NEW q \in Request, NEW j \in Job, NewRequest(q, j)
        PROVE  UNCHANGED job
    BY <1>2 DEF NewRequest, StartComplete, StartAbort, StartError, StartCancel,
                StartDelete, Start
  <1>3. ASSUME NEW b \in Builder, BuilderStep(b)
        PROVE  UNCHANGED job \/ \E j \in Job : CreateRunnerJob(b, j)
    BY <1>3 DEF BuilderStep, AbortAllTasks, SetToTranscode, IncreaseOrCreate
  <1>4. ASSUME NEW q \in Request, CompleteThrows(q) \/ HandlerFails(q)
        PROVE  UNCHANGED job
    BY <1>4 DEF CompleteThrows, HandlerFails
  <1>5. ASSUME NEW S \in SUBSET Job, ListStalledJobs(S) PROVE UNCHANGED job
    BY <1>5 DEF ListStalledJobs
  <1>6. ASSUME NEW b \in Builder, BuilderThrows(b) PROVE UNCHANGED job
    BY <1>6 DEF BuilderThrows
  <1>7. ASSUME NEW b \in Builder, NEW m \in Job, CreateTranscoding(b, m)
        PROVE  UNCHANGED job
    BY <1>7 DEF CreateTranscoding
  <1>8. CASE \/ MoveFiles \/ DoAfterLastMove \/ MoveFails \/ DeleteVideo \/ Restart
             \/ WatchdogFails
    BY <1>8 DEF MoveFiles, DoAfterLastMove, MoveFails, DeleteVideo, Restart,
                WatchdogFails
  <1>9. CASE UNCHANGED vars
    BY <1>9 DEF vars
  <1>. QED
    BY <1>1, <1>2, <1>3, <1>4, <1>5, <1>6, <1>7, <1>8, <1>9 DEF Next, JobWriters

-----------------------------------------------------------------------------
(* Type correctness, one group of variables at a time.                      *)

\* What a request being executed holds.
LEMMA RequestHolds ==
    ASSUME RequestsTyped, NEW q \in Request, request[q].pc # "idle"
    PROVE  /\ request[q].root \in Job /\ request[q].cur \in Job
           /\ request[q].kids \subseteq Job
           /\ \A j \in Job : request[q].inst[j] \in Row
  BY DEF RequestsTyped, RequestRow

\* A statement of a handler writes rows.
LEMMA HandlerJobType ==
    ASSUME RowsTyped, RequestsTyped, NEW q \in Request, HandlerWritesJob(q)
    PROVE  job' \in [Job -> Row]
  <1>0. job \in [Job -> Row]
    BY DEF RowsTyped
  <1>1. \A j \in Job, was \in Row, now \in Row :
          [job EXCEPT ![j] = Save(job[j], was, now)] \in [Job -> Row]
    BY <1>0, SaveType
  <1>2. CASE SaveCompleting(q)
    <2>1. [request[q].inst[request[q].root] EXCEPT !.state = "COMPLETING"] \in Row
      BY <1>2, RequestHolds, StateType DEF SaveCompleting, JobState
    <2>. QED
      BY <1>1, <1>2, <2>1, RequestHolds DEF SaveCompleting
  <1>3. CASE SaveCompletion(q)
    <2>1. CompletionState(request[q].pc) \in JobState
      BY DEF CompletionState, JobState
    <2>2. [request[q].inst[request[q].root] EXCEPT
            !.state = CompletionState(request[q].pc)] \in Row
      BY <1>3, <2>1, RequestHolds, StateType DEF SaveCompletion
    <2>. QED
      BY <1>1, <1>3, <2>2, RequestHolds DEF SaveCompletion
  <1>4. CASE ReleaseChildren(q)
    BY <1>0, <1>4 DEF ReleaseChildren, Row, JobState
  <1>5. CASE AbortSave(q)
    BY <1>1, <1>5, RequestHolds, ResetType DEF AbortSave
  <1>6. CASE ErrorSave(q)
    <2>1. request[q].root \in Job /\ request[q].inst[request[q].root] \in Row
      BY <1>6, RequestHolds DEF ErrorSave
    <2>2. CountFailure(request[q].inst[request[q].root]) \in Row
      BY <2>1, CountFailureType
    <2>3. /\ ResetToPending(CountFailure(request[q].inst[request[q].root])) \in Row
          /\ SetToErrorOrCancel(CountFailure(request[q].inst[request[q].root]),
                                "ERRORED") \in Row
      BY <2>2, ResetType, SetToErrorOrCancelType DEF JobState
    <2>4. PICK now \in Row :
            job' = [job EXCEPT ![request[q].root] =
                      Save(job[request[q].root],
                           request[q].inst[request[q].root], now)]
      BY ONLY <1>6, <2>3 DEF ErrorSave
    <2>. QED
      BY <1>1, <2>1, <2>4
  <1>7. CASE CancelSave(q)
    BY <1>1, <1>7, RequestHolds, SetToErrorOrCancelType DEF CancelSave, JobState
  <1>8. CASE Destroy(q)
    BY <1>0, <1>8, NoRowType DEF Destroy, Absent
  <1>9. ASSUME NEW k \in Job, ErrorChild(q, k) PROVE job' \in [Job -> Row]
    BY <1>1, <1>9, RequestHolds, SetToErrorOrCancelType DEF ErrorChild, JobState
  <1>. QED
    BY <1>2, <1>3, <1>4, <1>5, <1>6, <1>7, <1>8, <1>9 DEF HandlerWritesJob

\* Every step leaves rows in the table.
LEMMA JobType ==
    ASSUME RowsTyped, RequestsTyped, [Next]_vars
    PROVE  job' \in [Job -> Row]
  <1>0. job \in [Job -> Row] /\ stalled \in [Job -> Row]
    BY DEF RowsTyped
  <1>1. ASSUME NEW r \in Runner, NEW j \in Job, AcceptRunnerJob(r, j)
        PROVE  job' \in [Job -> Row]
    <2>1. PICK fresh \in Token : job' = [job EXCEPT ![j].state = "PROCESSING",
                                                     ![j].token = fresh,
                                                     ![j].runner = r]
      BY <1>1 DEF AcceptRunnerJob
    <2>2. [job[j] EXCEPT !.state = "PROCESSING", !.token = fresh, !.runner = r]
            \in Row
      BY <1>0, <2>1 DEF Row, JobState
    <2>. QED
      BY <1>0, <2>1, <2>2
  <1>2. ASSUME NEW r \in Runner, DeleteRunner(r) PROVE job' \in [Job -> Row]
    BY <1>0, <1>2 DEF DeleteRunner, Row
  <1>3. ASSUME NEW j \in Job, AbortStalled(j) PROVE job' \in [Job -> Row]
    BY <1>0, <1>3, SaveType, ResetType DEF AbortStalled
  <1>4. ASSUME NEW b \in Builder, NEW j \in Job, CreateRunnerJob(b, j)
        PROVE  job' \in [Job -> Row]
    <2>1. InitialState(j) \in JobState
      BY DEF InitialState, JobState
    <2>2. job' = job \/ job' = [job EXCEPT ![j].state = InitialState(j)]
      BY <1>4 DEF CreateRunnerJob
    <2>3. [job[j] EXCEPT !.state = InitialState(j)] \in Row
      BY <1>0, <2>1, StateType
    <2>. QED
      BY <1>0, <2>2, <2>3
  <1>. QED
    BY <1>0, <1>1, <1>2, <1>3, <1>4, WritesJob, HandlerJobType DEF JobWriters

\* The watchdog and a restart are the only writers of stalled.
LEMMA WritesStalled ==
    ASSUME [Next]_vars
    PROVE  \/ UNCHANGED stalled
           \/ \E S \in SUBSET Job : ListStalledJobs(S)
           \/ \E j \in Job : AbortStalled(j)
           \/ Restart \/ WatchdogFails
  <1>1. ASSUME NEW q \in Request, HandlerStep(q) PROVE UNCHANGED stalled
    <2>1. CASE CompleteStep(q)
      BY <2>1 DEF CompleteStep, SaveCompleting, AttachFile, OnTranscodingEnded,
                  CompleteNextState, SaveCompletion, ReleaseChildren
    <2>2. CASE ErrorStep(q)
      BY <2>2 DEF ErrorStep, ErrorFail, ErrorDecrease, ErrorSave,
                  ErrorListChildren, ErrorEnd, ErrorChild
    <2>3. CASE CancelStep(q)
      BY <2>3 DEF CancelStep, CancelDecrease, CancelNextState, CancelSave,
                  CancelListChildren, CancelEnd, CancelChild, Destroy
    <2>4. CASE AbortSave(q)
      BY <2>4 DEF AbortSave
    <2>. QED
      BY <1>1, <2>1, <2>2, <2>3, <2>4 DEF HandlerStep
  <1>2. ASSUME NEW q \in Request, NEW j \in Job, NewRequest(q, j)
        PROVE  UNCHANGED stalled
    BY <1>2 DEF NewRequest, StartComplete, StartAbort, StartError, StartCancel,
                StartDelete, Start
  <1>3. ASSUME NEW b \in Builder, BuilderStep(b) PROVE UNCHANGED stalled
    BY <1>3 DEF BuilderStep, AbortAllTasks, SetToTranscode, IncreaseOrCreate,
                CreateRunnerJob
  <1>4. ASSUME NEW q \in Request, CompleteThrows(q) \/ HandlerFails(q)
        PROVE  UNCHANGED stalled
    BY <1>4 DEF CompleteThrows, HandlerFails
  <1>5. ASSUME NEW b \in Builder, BuilderThrows(b) PROVE UNCHANGED stalled
    BY <1>5 DEF BuilderThrows
  <1>6. ASSUME NEW b \in Builder, NEW m \in Job, CreateTranscoding(b, m)
        PROVE  UNCHANGED stalled
    BY <1>6 DEF CreateTranscoding
  <1>7. ASSUME NEW r \in Runner, NEW j \in Job, AcceptRunnerJob(r, j)
        PROVE  UNCHANGED stalled
    BY <1>7 DEF AcceptRunnerJob
  <1>8. ASSUME NEW r \in Runner, DeleteRunner(r) PROVE UNCHANGED stalled
    BY <1>8 DEF DeleteRunner
  <1>9. CASE MoveFiles \/ DoAfterLastMove \/ MoveFails \/ DeleteVideo
    BY <1>9 DEF MoveFiles, DoAfterLastMove, MoveFails, DeleteVideo
  <1>10. CASE UNCHANGED vars
    BY <1>10 DEF vars
  <1>. QED
    BY <1>1, <1>2, <1>3, <1>4, <1>5, <1>6, <1>7, <1>8, <1>9, <1>10, Zenon
    DEF Next

LEMMA RowsType ==
    ASSUME RowsTyped, RequestsTyped, [Next]_vars
    PROVE  RowsTyped'
  <1>0. job \in [Job -> Row] /\ stalled \in [Job -> Row]
    BY DEF RowsTyped
  <1>1. ASSUME NEW S \in SUBSET Job, ListStalledJobs(S)
        PROVE  stalled' \in [Job -> Row]
    BY <1>0, <1>1 DEF ListStalledJobs
  <1>2. ASSUME NEW j \in Job, AbortStalled(j) PROVE stalled' \in [Job -> Row]
    BY <1>0, <1>2, NoRowType DEF AbortStalled, Absent
  <1>3. CASE Restart
    BY <1>3, NotLoadedType, JobType DEF Restart, RowsTyped
  <1>4. CASE WatchdogFails
    BY <1>4, NotLoadedType DEF WatchdogFails, RowsTyped
  <1>. QED
    BY <1>0, <1>1, <1>2, <1>3, <1>4, WritesStalled, JobType DEF RowsTyped

\* The writers of the video and of its counters.
VideoWriters ==
    \/ \E q \in Request :
         \/ AttachFile(q) \/ OnTranscodingEnded(q) \/ CompleteNextState(q)
         \/ ErrorFail(q) \/ ErrorDecrease(q) \/ CancelDecrease(q)
         \/ CancelNextState(q)
    \/ \E b \in Builder : AbortAllTasks(b) \/ SetToTranscode(b) \/ IncreaseOrCreate(b)
    \/ MoveFiles \/ DoAfterLastMove \/ MoveFails \/ DeleteVideo \/ Restart

LEMMA WritesVideo ==
    ASSUME [Next]_vars
    PROVE  UNCHANGED videoVars \/ VideoWriters
  <1>1. ASSUME NEW q \in Request, HandlerStep(q)
        PROVE  UNCHANGED videoVars \/ VideoWriters
    <2>1. CASE CompleteStep(q)
      BY <2>1 DEF VideoWriters, CompleteStep, SaveCompleting, SaveCompletion,
                  ReleaseChildren
    <2>2. CASE ErrorStep(q)
      BY <2>2 DEF VideoWriters, ErrorStep, ErrorSave, ErrorListChildren,
                  ErrorEnd, ErrorChild
    <2>3. CASE CancelStep(q)
      BY <2>3 DEF VideoWriters, CancelStep, CancelSave, CancelListChildren,
                  CancelEnd, CancelChild, Destroy
    <2>4. CASE AbortSave(q)
      BY <2>4 DEF AbortSave
    <2>. QED
      BY <1>1, <2>1, <2>2, <2>3, <2>4 DEF HandlerStep
  <1>2. ASSUME NEW q \in Request, NEW j \in Job, NewRequest(q, j)
        PROVE  UNCHANGED videoVars
    BY <1>2 DEF NewRequest, StartComplete, StartAbort, StartError, StartCancel,
                StartDelete, Start
  <1>3. ASSUME NEW b \in Builder, BuilderStep(b)
        PROVE  UNCHANGED videoVars \/ VideoWriters
    BY <1>3 DEF BuilderStep, CreateRunnerJob, VideoWriters
  <1>4. ASSUME NEW q \in Request, CompleteThrows(q) \/ HandlerFails(q)
        PROVE  UNCHANGED videoVars
    BY <1>4 DEF CompleteThrows, HandlerFails
  <1>5. ASSUME NEW b \in Builder, BuilderThrows(b) PROVE UNCHANGED videoVars
    BY <1>5 DEF BuilderThrows
  <1>6. ASSUME NEW b \in Builder, NEW m \in Job, CreateTranscoding(b, m)
        PROVE  UNCHANGED videoVars
    BY <1>6 DEF CreateTranscoding
  <1>7. ASSUME NEW r \in Runner, NEW j \in Job, AcceptRunnerJob(r, j)
        PROVE  UNCHANGED videoVars
    BY <1>7 DEF AcceptRunnerJob
  <1>8. ASSUME NEW r \in Runner, DeleteRunner(r) PROVE UNCHANGED videoVars
    BY <1>8 DEF DeleteRunner
  <1>9. ASSUME NEW S \in SUBSET Job, ListStalledJobs(S)
        PROVE  UNCHANGED videoVars
    BY <1>9 DEF ListStalledJobs
  <1>10. ASSUME NEW j \in Job, AbortStalled(j) PROVE UNCHANGED videoVars
    BY <1>10 DEF AbortStalled
  <1>13. ASSUME WatchdogFails PROVE UNCHANGED videoVars
    BY <1>13 DEF WatchdogFails
  <1>11. CASE MoveFiles \/ DoAfterLastMove \/ MoveFails \/ DeleteVideo \/ Restart
    BY <1>11 DEF VideoWriters
  <1>12. CASE UNCHANGED vars
    BY <1>12 DEF vars
  <1>. QED
    BY <1>1, <1>2, <1>3, <1>4, <1>5, <1>6, <1>7, <1>8, <1>9, <1>10, <1>11,
       <1>12, <1>13, Zenon DEF Next

\* Only a move, an increase or a deletion of the video writes whether there is
\* a row of counters; only move jobs and a restart write afterMove.
LEMMA FlagsType ==
    ASSUME VideoTyped, [Next]_vars
    PROVE  infoRow' \in BOOLEAN /\ afterMove' \in BOOLEAN
  <1>0. infoRow \in BOOLEAN /\ afterMove \in BOOLEAN
    BY Zenon DEF VideoTyped
  <1>1. CASE UNCHANGED videoVars
    BY <1>0, <1>1, Zenon DEF videoVars, moveVars
  <1>2. MoveToNextState => infoRow' = infoRow \/ infoRow' = TRUE
    BY MoveToNextStateCases, Zenon
  <1>3. ASSUME NEW q \in Request,
               \/ AttachFile(q) \/ OnTranscodingEnded(q) \/ CompleteNextState(q)
               \/ ErrorFail(q) \/ ErrorDecrease(q) \/ CancelDecrease(q)
               \/ CancelNextState(q)
        PROVE  (infoRow' = infoRow \/ infoRow' = TRUE) /\ afterMove' = afterMove
    <2>1. CASE AttachFile(q) \/ OnTranscodingEnded(q) \/ CompleteNextState(q)
      BY <1>2, <2>1, Zenon
      DEF moveVars, AttachFile, OnTranscodingEnded, CompleteNextState
    <2>2. CASE \/ ErrorFail(q) \/ ErrorDecrease(q) \/ CancelDecrease(q)
               \/ CancelNextState(q)
      BY <1>2, <2>2, Zenon
      DEF moveVars, ErrorFail, ErrorDecrease, CancelDecrease, CancelNextState
    <2>. QED
      BY <1>3, <2>1, <2>2, Zenon
  <1>4. ASSUME NEW b \in Builder,
               AbortAllTasks(b) \/ SetToTranscode(b) \/ IncreaseOrCreate(b)
        PROVE  (infoRow' = infoRow \/ infoRow' = TRUE) /\ afterMove' = afterMove
    BY <1>4, Zenon DEF moveVars, AbortAllTasks, SetToTranscode, IncreaseOrCreate
  <1>5. CASE MoveFiles
    BY <1>0, <1>5, Zenon DEF MoveFiles
  <1>6. CASE DoAfterLastMove \/ MoveFails \/ DeleteVideo \/ Restart
    <2>1. infoRow' = infoRow \/ infoRow' = TRUE \/ infoRow' = FALSE
      BY <1>2, <1>6, Zenon DEF DoAfterLastMove, MoveFails, DeleteVideo, Restart
    <2>2. afterMove' = FALSE \/ afterMove' = afterMove
      BY <1>6, Zenon DEF DoAfterLastMove, MoveFails, DeleteVideo, Restart
    <2>. QED
      BY <1>0, <2>1, <2>2, Zenon
  <1>. QED
    BY <1>0, <1>1, <1>3, <1>4, <1>5, <1>6, WritesVideo, Zenon DEF VideoWriters

\* moveToNextState leaves the video in a state and its counters integers.
LEMMA MoveToNextStateType ==
    ASSUME VideoTyped, MoveToNextState
    PROVE  video' \in VideoState /\ pendingMove' \in Int /\ moveJobs' \in Nat
  <1>0. video \in VideoState /\ pendingMove \in Int /\ moveJobs \in Nat
    BY Zenon DEF VideoTyped
  <1>1. \/ video' = video /\ pendingMove' = pendingMove /\ moveJobs' = moveJobs
        \/ video' = "PUBLISHED" /\ pendingMove' = pendingMove /\ moveJobs' = moveJobs
        \/ /\ video' = "TO_MOVE_TO_EXTERNAL_STORAGE"
           /\ pendingMove' = pendingMove + 1 \/ pendingMove' = pendingMove
           /\ moveJobs' = moveJobs + 1 \/ moveJobs' = moveJobs
    BY MoveToNextStateCases, Zenon
  <1>. QED
    BY <1>0, <1>1 DEF VideoState

\* A statement of a handler keeps the video's type.
LEMMA HandlerVideoType ==
    ASSUME VideoTyped, RequestsTyped, NEW q \in Request,
           \/ AttachFile(q) \/ OnTranscodingEnded(q) \/ CompleteNextState(q)
           \/ ErrorFail(q) \/ ErrorDecrease(q) \/ CancelDecrease(q)
           \/ CancelNextState(q)
    PROVE  /\ pending' \in Int /\ video' \in VideoState /\ files' \subseteq Job
           /\ pendingMove' \in Int /\ moveJobs' \in Nat
  <1>0. /\ pending \in Int /\ video \in VideoState /\ files \subseteq Job
        /\ pendingMove \in Int /\ moveJobs \in Nat
    BY Zenon DEF VideoTyped
  <1>1. Decrease => pending' = pending - 1 \/ pending' = pending
    BY Zenon DEF Decrease
  <1>2. CASE AttachFile(q)
    <2>1. request[q].root \in Job
      BY <1>2, RequestHolds DEF AttachFile
    <2>2. /\ pending' = pending /\ video' = video /\ pendingMove' = pendingMove
          /\ moveJobs' = moveJobs
          /\ files' = files \/ files' = files \cup {request[q].root}
      BY <1>2, Zenon DEF AttachFile, moveVars
    <2>. QED
      BY <1>0, <2>1, <2>2
  <1>3. CASE OnTranscodingEnded(q) \/ ErrorDecrease(q) \/ CancelDecrease(q)
    <2>1. /\ video' = video /\ pendingMove' = pendingMove
          /\ moveJobs' = moveJobs /\ files' = files
          /\ pending' = pending - 1 \/ pending' = pending
      BY <1>1, <1>3, Zenon
      DEF OnTranscodingEnded, ErrorDecrease, CancelDecrease, moveVars
    <2>. QED
      BY <1>0, <2>1
  <1>4. CASE CompleteNextState(q) \/ CancelNextState(q)
    <2>1. MoveToNextState /\ pending' = pending /\ files' = files
      BY <1>4, Zenon DEF CompleteNextState, CancelNextState
    <2>. QED
      BY <1>0, <2>1, MoveToNextStateType, Zenon
  <1>5. CASE ErrorFail(q)
    <2>1. /\ pending' = pending /\ pendingMove' = pendingMove
          /\ moveJobs' = moveJobs /\ files' = files
          /\ video' = video \/ video' = "TRANSCODING_FAILED"
      BY <1>5, Zenon DEF ErrorFail, MoveToFailedTranscodingState, moveVars
    <2>. QED
      BY <1>0, <2>1 DEF VideoState
  <1>. QED
    BY <1>2, <1>3, <1>4, <1>5, Zenon

\* A statement of a build keeps the video's type.
LEMMA BuilderVideoType ==
    ASSUME VideoTyped, NEW b \in Builder,
           AbortAllTasks(b) \/ SetToTranscode(b) \/ IncreaseOrCreate(b)
    PROVE  /\ pending' \in Int /\ video' \in VideoState /\ files' \subseteq Job
           /\ pendingMove' \in Int /\ moveJobs' \in Nat
  <1>0. /\ pending \in Int /\ video \in VideoState /\ files \subseteq Job
        /\ pendingMove \in Int /\ moveJobs \in Nat
    BY Zenon DEF VideoTyped
  <1>1. /\ pending' = 0 \/ pending' = pending \/ pending' = pending + 1
        /\ video' = video \/ video' = "TO_TRANSCODE"
        /\ files' = files /\ pendingMove' = pendingMove /\ moveJobs' = moveJobs
    BY Zenon DEF AbortAllTasks, SetToTranscode, IncreaseOrCreate, Merge, moveVars
  <1>. QED
    BY <1>0, <1>1 DEF VideoState

LEMMA VideoType ==
    ASSUME VideoTyped, RequestsTyped, [Next]_vars
    PROVE  VideoTyped'
  <1>0. /\ pending \in Int /\ video \in VideoState /\ files \subseteq Job
        /\ pendingMove \in Int /\ moveJobs \in Nat
    BY Zenon DEF VideoTyped
  <1> DEFINE Typed ==
        /\ pending' \in Int /\ video' \in VideoState /\ files' \subseteq Job
        /\ pendingMove' \in Int /\ moveJobs' \in Nat
  <1>1. ASSUME UNCHANGED videoVars PROVE Typed
    BY <1>0, <1>1, Zenon DEF videoVars, moveVars
  <1>2. ASSUME MoveFiles PROVE Typed
    <2>1. /\ pending' = pending /\ video' = video /\ files' = files
          /\ moveJobs > 0 /\ moveJobs' = moveJobs - 1
          /\ pendingMove' = pendingMove - 1 \/ pendingMove' = pendingMove
      BY <1>2, Zenon DEF MoveFiles
    <2>. QED
      BY <1>0, <2>1
  <1>3. ASSUME DoAfterLastMove PROVE Typed
    <2>1. MoveToNextState /\ pending' = pending /\ files' = files
      BY <1>3, Zenon DEF DoAfterLastMove
    <2>. QED
      BY <1>0, <2>1, MoveToNextStateType, Zenon
  <1>4. ASSUME MoveFails PROVE Typed
    <2>1. /\ pending' = pending /\ files' = files /\ pendingMove' = 0
          /\ video' \in {video, "TO_MOVE_TO_EXTERNAL_STORAGE_FAILED"}
      BY <1>4, Zenon DEF MoveFails
    <2>2. PICK left \in {moveJobs, moveJobs + 1} :
            left > 0 /\ moveJobs' \in {left, left - 1}
      BY <1>4, Zenon DEF MoveFails
    <2>. QED
      BY <1>0, <2>1, <2>2 DEF VideoState
  <1>5. ASSUME DeleteVideo PROVE Typed
    <2>1. /\ pending' = 0 /\ files' = files /\ pendingMove' = 0
          /\ video' = "DELETED" /\ moveJobs' = moveJobs
      BY <1>5, Zenon DEF DeleteVideo
    <2>. QED
      BY <1>0, <2>1 DEF VideoState
  <1>6. ASSUME Restart PROVE Typed
    <2>1. /\ pending' = pending /\ files' = files /\ pendingMove' = pendingMove
          /\ video' = video
          /\ moveJobs' = moveJobs + 1 \/ moveJobs' = moveJobs
      BY <1>6, Zenon DEF Restart
    <2>. QED
      BY <1>0, <2>1
  <1>7. Typed
    BY <1>1, <1>2, <1>3, <1>4, <1>5, <1>6, WritesVideo, HandlerVideoType,
       BuilderVideoType, Zenon DEF VideoWriters
  <1>. QED
    BY <1>7, FlagsType, Zenon DEF VideoTyped

\* A request slot is replaced by a request that names a job.
LEMMA ReplaceRequest ==
    ASSUME RequestsTyped, NEW q \in Request, NEW r \in RequestRow,
           r.pc # "idle" => r.root \in Job /\ r.cur \in Job,
           request' = [request EXCEPT ![q] = r]
    PROVE  RequestsTyped'
  BY DEF RequestsTyped

LEMMA IdleRequestType == IdleRequest \in RequestRow /\ IdleRequest.pc = "idle"
  BY NotLoadedType DEF IdleRequest, RequestRow

LEMMA FinishType ==
    ASSUME RequestsTyped, NEW q \in Request, Finish(q)
    PROVE  RequestsTyped'
  BY ReplaceRequest, IdleRequestType DEF Finish

\* A request being executed goes to its next statement, perhaps on another job
\* and with other instances.
LEMMA StepType ==
    ASSUME RequestsTyped, NEW q \in Request, request[q].pc # "idle",
           NEW label \in RunnerPC \cup CascadePC, NEW c \in Job,
           NEW kids \in SUBSET Job, NEW inst \in [Job -> Row],
           request' = [request EXCEPT ![q] =
                         [request[q] EXCEPT !.pc = label, !.cur = c,
                                            !.kids = kids, !.inst = inst]]
    PROVE  RequestsTyped'
  <1>1. request[q] \in RequestRow /\ request[q].root \in Job
    BY DEF RequestsTyped
  <1>2. [request[q] EXCEPT !.pc = label, !.cur = c, !.kids = kids,
                           !.inst = inst] \in RequestRow
    BY <1>1 DEF RequestRow
  <1>3. [request[q] EXCEPT !.pc = label, !.cur = c, !.kids = kids,
                           !.inst = inst].root \in Job
    BY <1>1 DEF RequestRow
  <1>4. [request[q] EXCEPT !.pc = label, !.cur = c, !.kids = kids,
                           !.inst = inst].cur \in Job
    BY <1>1 DEF RequestRow
  <1>. QED
    BY <1>2, <1>3, <1>4, ReplaceRequest

\* The fields a step leaves alone, written out.
LEMMA GotoType ==
    ASSUME RequestsTyped, NEW q \in Request, request[q].pc # "idle",
           NEW label \in RunnerPC \cup CascadePC, Goto(q, label)
    PROVE  RequestsTyped'
  <1>1. /\ request[q] \in RequestRow /\ request[q].cur \in Job
        /\ request[q].kids \in SUBSET Job /\ request[q].inst \in [Job -> Row]
    BY DEF RequestsTyped, RequestRow
  <1>2. [request[q] EXCEPT !.pc = label] =
          [request[q] EXCEPT !.pc = label, !.cur = request[q].cur,
                             !.kids = request[q].kids, !.inst = request[q].inst]
    BY <1>1 DEF RequestRow
  <1>3. request' = [request EXCEPT ![q] = [request[q] EXCEPT !.pc = label]]
    BY DEF Goto
  <1>4. request' = [request EXCEPT ![q] =
          [request[q] EXCEPT !.pc = label, !.cur = request[q].cur,
                             !.kids = request[q].kids, !.inst = request[q].inst]]
    BY <1>2, <1>3, Zenon
  <1>. QED
    BY <1>1, <1>4, StepType, Zenon

LEMMA DropAndGotoType ==
    ASSUME RequestsTyped, NEW q \in Request, request[q].pc # "idle",
           NEW j \in Job, NEW label \in RunnerPC \cup CascadePC,
           DropAndGoto(q, j, label)
    PROVE  RequestsTyped'
  <1> DEFINE inst == [request[q].inst EXCEPT ![j] = NoRow("NOT_CREATED")]
  <1>1. /\ request[q] \in RequestRow /\ request[q].cur \in Job
        /\ request[q].kids \in SUBSET Job /\ request[q].inst \in [Job -> Row]
    BY DEF RequestsTyped, RequestRow
  <1>2. inst \in [Job -> Row]
    BY <1>1, NoRowType DEF Absent
  <1>3. request' = [request EXCEPT ![q] =
                      [request[q] EXCEPT !.pc = label, !.inst = inst]]
    BY <1>1 DEF DropAndGoto, RequestsTyped, RequestRow
  <1> HIDE DEF inst
  <1>4. [request[q] EXCEPT !.pc = label, !.inst = inst] =
          [request[q] EXCEPT !.pc = label, !.cur = request[q].cur,
                             !.kids = request[q].kids, !.inst = inst]
    BY <1>1 DEF RequestRow
  <1>5. request' = [request EXCEPT ![q] =
          [request[q] EXCEPT !.pc = label, !.cur = request[q].cur,
                             !.kids = request[q].kids, !.inst = inst]]
    BY <1>3, <1>4, Zenon
  <1>. QED
    BY <1>1, <1>2, <1>5, StepType, Zenon

\* Loading the children of the job.
LEMMA LoadChildrenType ==
    ASSUME RowsTyped, RequestsTyped, NEW q \in Request,
           ErrorListChildren(q) \/ CancelListChildren(q)
    PROVE  RequestsTyped'
  <1> DEFINE kids == ChildrenOf(request[q].root)
             inst == [j \in Job |-> IF j \in kids THEN job[j]
                                    ELSE request[q].inst[j]]
  <1>0. request[q].pc # "idle"
    BY DEF ErrorListChildren, CancelListChildren
  <1>1. /\ request[q] \in RequestRow /\ request[q].cur \in Job
        /\ request[q].inst \in [Job -> Row]
    BY <1>0 DEF RequestsTyped, RequestRow
  <1>2. kids \in SUBSET Job
    BY DEF ChildrenOf, Kids
  <1>3. inst \in [Job -> Row]
    BY <1>1 DEF RowsTyped
  <1>4. PICK label \in {"errorKids", "cancelKids"} :
          request' = [request EXCEPT ![q] =
                        [[request[q] EXCEPT !.kids = kids, !.inst = inst]
                           EXCEPT !.pc = label]]
    BY DEF ErrorListChildren, CancelListChildren, LoadChildren
  <1> HIDE DEF kids, inst
  <1>5. [[request[q] EXCEPT !.kids = kids, !.inst = inst] EXCEPT !.pc = label] =
          [request[q] EXCEPT !.pc = label, !.cur = request[q].cur,
                             !.kids = kids, !.inst = inst]
    BY <1>1 DEF RequestRow
  <1>6. label \in RunnerPC \cup CascadePC
    BY DEF RunnerPC, CascadePC
  <1>7. request' = [request EXCEPT ![q] =
          [request[q] EXCEPT !.pc = label, !.cur = request[q].cur,
                             !.kids = kids, !.inst = inst]]
    BY <1>4, <1>5, Zenon
  <1>. QED
    BY <1>0, <1>1, <1>2, <1>3, <1>6, <1>7, StepType, Zenon

LEMMA StartType ==
    ASSUME RowsTyped, RequestsTyped, NEW q \in Request, NEW j \in Job,
           NEW label \in RunnerPC \cup CascadePC, NEW destroy \in BOOLEAN,
           Start(q, label, j, destroy)
    PROVE  RequestsTyped'
  <1> DEFINE inst == [NotLoaded EXCEPT ![j] = job[j]]
             r == [ pc |-> label, root |-> j, cur |-> j, kids |-> {},
                    inst |-> inst, destroy |-> destroy ]
  <1>1. inst \in [Job -> Row]
    BY NotLoadedType DEF RowsTyped
  <1>2. r \in RequestRow /\ r.root \in Job /\ r.cur \in Job
    <2> HIDE DEF inst
    <2>. QED
      BY <1>1 DEF RequestRow
  <1>3. request' = [request EXCEPT ![q] = r]
    BY DEF Start
  <1> HIDE DEF r
  <1>. QED
    BY <1>2, <1>3, ReplaceRequest

\* Every statement of a handler leaves well-formed requests.
LEMMA HandlerRequestType ==
    ASSUME RowsTyped, RequestsTyped, NEW q \in Request,
           HandlerStep(q) \/ CompleteThrows(q)
    PROVE  RequestsTyped'
  <1> USE DEF RunnerPC, CascadePC
  <1>1. request[q].pc # "idle" =>
          /\ request[q] \in RequestRow
          /\ request[q].root \in Job /\ request[q].cur \in Job
          /\ request[q].kids \in SUBSET Job /\ request[q].inst \in [Job -> Row]
    BY DEF RequestsTyped, RequestRow
  <1>2. CASE SaveCompleting(q)
    <2> DEFINE now == [request[q].inst[request[q].root] EXCEPT
                         !.state = "COMPLETING"]
               inst == [request[q].inst EXCEPT ![request[q].root] = now]
    <2>0. request[q].pc # "idle"
      BY <1>2 DEF SaveCompleting
    <2>1. now \in Row
      BY <1>1, <2>0, StateType DEF JobState
    <2>2. inst \in [Job -> Row]
      <3> HIDE DEF now
      <3>. QED
        BY <1>1, <2>0, <2>1
    <2>3. request' = [request EXCEPT ![q] =
                        [request[q] EXCEPT !.pc = "attach", !.inst = inst]]
      BY <1>1, <1>2, <2>0 DEF SaveCompleting, RequestsTyped, RequestRow
    <2> HIDE DEF inst
    <2>4. [request[q] EXCEPT !.pc = "attach", !.inst = inst] =
            [request[q] EXCEPT !.pc = "attach", !.cur = request[q].cur,
                               !.kids = request[q].kids, !.inst = inst]
      BY <1>1, <2>0 DEF RequestRow
    <2>5. request' = [request EXCEPT ![q] =
            [request[q] EXCEPT !.pc = "attach", !.cur = request[q].cur,
                               !.kids = request[q].kids, !.inst = inst]]
      BY <2>3, <2>4, Zenon
    <2>. QED
      BY <1>1, <2>0, <2>2, <2>5, StepType, Zenon
  <1>3. CASE \/ AttachFile(q) \/ OnTranscodingEnded(q) \/ CompleteNextState(q)
             \/ CompleteThrows(q) \/ ErrorFail(q) \/ ErrorDecrease(q)
             \/ CancelDecrease(q) \/ CancelNextState(q)
    <2>1. /\ request[q].pc # "idle"
          /\ \E label \in RunnerPC \cup CascadePC : Goto(q, label)
      BY <1>3 DEF AttachFile, OnTranscodingEnded, CompleteNextState,
                  CompleteThrows, ErrorFail, ErrorDecrease, CancelDecrease,
                  CancelNextState
    <2>. QED
      BY <2>1, GotoType, Zenon
  <1>4. CASE SaveCompletion(q) \/ CancelSave(q)
    <2>1. /\ request[q].pc # "idle"
          /\ \E label \in RunnerPC \cup CascadePC :
               \/ DropAndGoto(q, request[q].root, label)
               \/ DropAndGoto(q, request[q].cur, label)
      BY <1>4 DEF SaveCompletion, CancelSave
    <2>. QED
      BY <1>1, <2>1, DropAndGotoType, Zenon
  <1>5. CASE ErrorSave(q)
    <2>1. /\ request[q].pc # "idle"
          /\ DropAndGoto(q, request[q].root, "errorList") \/ Finish(q)
      BY <1>5 DEF ErrorSave
    <2>. QED
      BY <1>1, <2>1, DropAndGotoType, FinishType
  <1>6. CASE ReleaseChildren(q) \/ AbortSave(q) \/ ErrorEnd(q) \/ Destroy(q)
    BY <1>6, FinishType DEF ReleaseChildren, AbortSave, ErrorEnd, Destroy
  <1>7. CASE ErrorListChildren(q) \/ CancelListChildren(q)
    BY <1>7, LoadChildrenType
  <1>8. CASE CancelEnd(q)
    BY <1>8, FinishType, GotoType DEF CancelEnd
  <1>9. ASSUME NEW k \in Job, ErrorChild(q, k) PROVE RequestsTyped'
    <2> DEFINE kids == request[q].kids \ {k}
               inst == [request[q].inst EXCEPT ![k] = NoRow("NOT_CREATED")]
    <2>0. request[q].pc = "errorKids"
      BY <1>9 DEF ErrorChild
    <2>1. kids \in SUBSET Job /\ inst \in [Job -> Row]
      BY <1>1, <2>0, NoRowType DEF Absent
    <2>2. request' = [request EXCEPT ![q] =
                        [request[q] EXCEPT !.kids = kids, !.inst = inst]]
      BY <1>1, <1>9, <2>0 DEF ErrorChild, RequestsTyped, RequestRow
    <2> HIDE DEF kids, inst
    <2>3. [request[q] EXCEPT !.kids = kids, !.inst = inst] =
            [request[q] EXCEPT !.pc = "errorKids", !.cur = request[q].cur,
                               !.kids = kids, !.inst = inst]
      BY <1>1, <2>0 DEF RequestRow
    <2>4. request' = [request EXCEPT ![q] =
            [request[q] EXCEPT !.pc = "errorKids", !.cur = request[q].cur,
                               !.kids = kids, !.inst = inst]]
      BY <2>2, <2>3, Zenon
    <2>5. request[q].pc # "idle" /\ request[q].cur \in Job
      BY <1>1, <2>0
    <2>6. "errorKids" \in RunnerPC \cup CascadePC
      OBVIOUS
    <2>. QED
      BY <2>1, <2>4, <2>5, <2>6, StepType, Zenon
  <1>10. ASSUME NEW k \in Job, CancelChild(q, k) PROVE RequestsTyped'
    <2> DEFINE kids == request[q].kids \ {k}
    <2>0. request[q].pc # "idle"
      BY <1>10 DEF CancelChild
    <2>1. kids \in SUBSET Job
      BY <1>1, <2>0
    <2>2. request' = [request EXCEPT ![q] =
                        [request[q] EXCEPT !.pc = "cancelDecrease", !.cur = k,
                                           !.kids = kids]]
      BY <1>1, <1>10, <2>0 DEF CancelChild, RequestsTyped, RequestRow
    <2> HIDE DEF kids
    <2>3. [request[q] EXCEPT !.pc = "cancelDecrease", !.cur = k, !.kids = kids] =
            [request[q] EXCEPT !.pc = "cancelDecrease", !.cur = k,
                               !.kids = kids, !.inst = request[q].inst]
      BY <1>1, <2>0 DEF RequestRow
    <2>4. request' = [request EXCEPT ![q] =
            [request[q] EXCEPT !.pc = "cancelDecrease", !.cur = k,
                               !.kids = kids, !.inst = request[q].inst]]
      BY <2>2, <2>3, Zenon
    <2>5. "cancelDecrease" \in RunnerPC \cup CascadePC
      OBVIOUS
    <2>. QED
      BY <1>1, <2>0, <2>1, <2>4, <2>5, StepType, Zenon
  <1>. QED
    BY <1>2, <1>3, <1>4, <1>5, <1>6, <1>7, <1>8, <1>9, <1>10, Zenon
    DEF HandlerStep, CompleteStep, ErrorStep, CancelStep

\* Handlers, new requests and a restart are the only writers of request.
LEMMA WritesRequest ==
    ASSUME [Next]_vars
    PROVE  \/ UNCHANGED request
           \/ \E q \in Request :
                HandlerStep(q) \/ CompleteThrows(q) \/ HandlerFails(q)
           \/ \E q \in Request, j \in Job : NewRequest(q, j)
           \/ Restart
  <1>1. ASSUME NEW b \in Builder, BuilderStep(b) PROVE UNCHANGED request
    BY <1>1 DEF BuilderStep, AbortAllTasks, SetToTranscode, IncreaseOrCreate,
                CreateRunnerJob
  <1>2. ASSUME NEW S \in SUBSET Job, ListStalledJobs(S) PROVE UNCHANGED request
    BY <1>2 DEF ListStalledJobs
  <1>3. ASSUME NEW b \in Builder, BuilderThrows(b) PROVE UNCHANGED request
    BY <1>3 DEF BuilderThrows
  <1>4. ASSUME NEW b \in Builder, NEW m \in Job, CreateTranscoding(b, m)
        PROVE  UNCHANGED request
    BY <1>4 DEF CreateTranscoding
  <1>5. ASSUME NEW r \in Runner, NEW j \in Job, AcceptRunnerJob(r, j)
        PROVE  UNCHANGED request
    BY <1>5 DEF AcceptRunnerJob
  <1>6. ASSUME NEW r \in Runner, DeleteRunner(r) PROVE UNCHANGED request
    BY <1>6 DEF DeleteRunner
  <1>7. ASSUME NEW j \in Job, AbortStalled(j) PROVE UNCHANGED request
    BY <1>7 DEF AbortStalled
  <1>8. CASE \/ MoveFiles \/ DoAfterLastMove \/ MoveFails \/ DeleteVideo
             \/ WatchdogFails
    BY <1>8 DEF MoveFiles, DoAfterLastMove, MoveFails, DeleteVideo, WatchdogFails
  <1>9. CASE UNCHANGED vars
    BY <1>9 DEF vars
  <1>. QED
    BY <1>1, <1>2, <1>3, <1>4, <1>5, <1>6, <1>7, <1>8, <1>9, Zenon DEF Next

LEMMA RequestsType ==
    ASSUME RowsTyped, RequestsTyped, [Next]_vars
    PROVE  RequestsTyped'
  <1>1. CASE UNCHANGED request
    BY <1>1 DEF RequestsTyped
  <1>2. ASSUME NEW q \in Request, NEW j \in Job, NewRequest(q, j)
        PROVE  RequestsTyped'
    <2>1. \E label \in RunnerPC \cup CascadePC, destroy \in BOOLEAN :
            Start(q, label, j, destroy)
      BY <1>2 DEF NewRequest, StartComplete, StartAbort, StartError,
                  StartCancel, StartDelete, RunnerPC, CascadePC
    <2>. QED
      BY <2>1, StartType, Zenon
  <1>3. CASE Restart
    BY <1>3, IdleRequestType DEF Restart, RequestsTyped
  <1>4. ASSUME NEW q \in Request, HandlerFails(q) PROVE RequestsTyped'
    BY <1>4, IdleRequestType DEF HandlerFails, Finish, RequestsTyped, IdleRequest
  <1>. QED
    BY <1>1, <1>2, <1>3, <1>4, WritesRequest, HandlerRequestType, Zenon

\* Builds, their requests and a restart are the only writers of builder.
LEMMA WritesBuilder ==
    ASSUME [Next]_vars
    PROVE  \/ UNCHANGED builder
           \/ \E b \in Builder : BuilderStep(b) \/ BuilderThrows(b)
           \/ \E b \in Builder, m \in Job : CreateTranscoding(b, m)
           \/ Restart
  <1>1. ASSUME NEW q \in Request, HandlerStep(q) PROVE UNCHANGED builder
    <2>1. CASE CompleteStep(q)
      BY <2>1 DEF CompleteStep, SaveCompleting, AttachFile, OnTranscodingEnded,
                  CompleteNextState, SaveCompletion, ReleaseChildren
    <2>2. CASE ErrorStep(q)
      BY <2>2 DEF ErrorStep, ErrorFail, ErrorDecrease, ErrorSave,
                  ErrorListChildren, ErrorEnd, ErrorChild
    <2>3. CASE CancelStep(q)
      BY <2>3 DEF CancelStep, CancelDecrease, CancelNextState, CancelSave,
                  CancelListChildren, CancelEnd, CancelChild, Destroy
    <2>4. CASE AbortSave(q)
      BY <2>4 DEF AbortSave
    <2>. QED
      BY <1>1, <2>1, <2>2, <2>3, <2>4 DEF HandlerStep
  <1>2. ASSUME NEW q \in Request, NEW j \in Job, NewRequest(q, j)
        PROVE  UNCHANGED builder
    BY <1>2 DEF NewRequest, StartComplete, StartAbort, StartError, StartCancel,
                StartDelete, Start
  <1>3. ASSUME NEW q \in Request, CompleteThrows(q) \/ HandlerFails(q)
        PROVE  UNCHANGED builder
    BY <1>3 DEF CompleteThrows, HandlerFails
  <1>4. ASSUME NEW S \in SUBSET Job, ListStalledJobs(S) PROVE UNCHANGED builder
    BY <1>4 DEF ListStalledJobs
  <1>5. ASSUME NEW r \in Runner, NEW j \in Job, AcceptRunnerJob(r, j)
        PROVE  UNCHANGED builder
    BY <1>5 DEF AcceptRunnerJob
  <1>6. ASSUME NEW r \in Runner, DeleteRunner(r) PROVE UNCHANGED builder
    BY <1>6 DEF DeleteRunner
  <1>7. ASSUME NEW j \in Job, AbortStalled(j) PROVE UNCHANGED builder
    BY <1>7 DEF AbortStalled
  <1>8. CASE \/ MoveFiles \/ DoAfterLastMove \/ MoveFails \/ DeleteVideo
             \/ WatchdogFails
    BY <1>8 DEF MoveFiles, DoAfterLastMove, MoveFails, DeleteVideo, WatchdogFails
  <1>9. CASE UNCHANGED vars
    BY <1>9 DEF vars
  <1>. QED
    BY <1>1, <1>2, <1>3, <1>4, <1>5, <1>6, <1>7, <1>8, <1>9, Zenon DEF Next

LEMMA BuildRowTypes ==
    /\ IdleBuilder \in BuildRow
    /\ \A m \in Job : UploadBuild(m) \in BuildRow
  BY DEF IdleBuilder, UploadBuild, BuildRow, BuilderPC, VideoState, Kids

LEMMA BuildsType ==
    ASSUME BuildsTyped, VideoTyped, [Next]_vars
    PROVE  BuildsTyped'
  <1>0. builder \in [Builder -> BuildRow]
    BY DEF BuildsTyped
  <1>1. ASSUME NEW b \in Builder, EndBuild(b) PROVE BuildsTyped'
    BY <1>0, <1>1, BuildRowTypes DEF EndBuild, BuildsTyped
  <1>3. ASSUME NEW b \in Builder, BuilderStep(b) PROVE BuildsTyped'
    <2>1. CASE AbortAllTasks(b)
      BY <1>0, <2>1 DEF AbortAllTasks, BuildsTyped, BuildRow, BuilderPC
    <2>2. CASE SetToTranscode(b)
      BY <1>0, <2>2 DEF SetToTranscode, BuildsTyped, BuildRow, BuilderPC
    <2>3. CASE IncreaseOrCreate(b)
      <3>1. EndBuild(b) \/ builder' = [builder EXCEPT ![b].pc = "row"]
        BY <2>3 DEF IncreaseOrCreate
      <3>2. CASE builder' = [builder EXCEPT ![b].pc = "row"]
        BY <1>0, <3>2 DEF BuildsTyped, BuildRow, BuilderPC
      <3>. QED
        BY <1>1, <3>1, <3>2
    <2>4. ASSUME NEW j \in Job, CreateRunnerJob(b, j) PROVE BuildsTyped'
      <3>1. \/ EndBuild(b)
            \/ builder' = [builder EXCEPT ![b].pc = "increase",
                                          ![b].todo = @ \ {j}]
        BY <2>4 DEF CreateRunnerJob
      <3>2. CASE builder' = [builder EXCEPT ![b].pc = "increase",
                                            ![b].todo = @ \ {j}]
        BY <1>0, <3>2 DEF BuildsTyped, BuildRow, BuilderPC
      <3>. QED
        BY <1>1, <3>1, <3>2
    <2>. QED
      BY <1>3, <2>1, <2>2, <2>3, <2>4 DEF BuilderStep
  <1>4. ASSUME NEW b \in Builder, BuilderThrows(b) PROVE BuildsTyped'
    BY <1>1, <1>4 DEF BuilderThrows
  <1>5. ASSUME NEW b \in Builder, NEW m \in Job, CreateTranscoding(b, m)
        PROVE  BuildsTyped'
    <2>1. [pc |-> "reset", todo |-> {m} \cup Kids(m), seen |-> video,
           upload |-> FALSE] \in BuildRow
      BY DEF BuildRow, BuilderPC, Kids, VideoTyped
    <2>2. builder' = [builder EXCEPT ![b] =
            [pc |-> "reset", todo |-> {m} \cup Kids(m), seen |-> video,
             upload |-> FALSE]]
      BY <1>5, Zenon DEF CreateTranscoding
    <2>. QED
      BY <1>0, <2>1, <2>2 DEF BuildsTyped
  <1>6. CASE Restart
    BY <1>6, BuildRowTypes DEF Restart, Mains, BuildsTyped
  <1>. QED
    BY <1>0, <1>3, <1>4, <1>5, <1>6, WritesBuilder DEF BuildsTyped

\* A completion's last statement, a statement that rejects and a restart are
\* the only writers of the history variables.
LEMMA WritesHistory ==
    ASSUME [Next]_vars
    PROVE  \/ UNCHANGED <<released, orphaned>>
           \/ \E q \in Request : ReleaseChildren(q) \/ HandlerFails(q)
           \/ Restart
  <1>1. ASSUME NEW q \in Request, HandlerStep(q)
        PROVE  UNCHANGED <<released, orphaned>> \/ ReleaseChildren(q)
    <2>1. CASE CompleteStep(q)
      BY <2>1 DEF CompleteStep, SaveCompleting, AttachFile, OnTranscodingEnded,
                  CompleteNextState, SaveCompletion
    <2>2. CASE ErrorStep(q)
      BY <2>2 DEF ErrorStep, ErrorFail, ErrorDecrease, ErrorSave,
                  ErrorListChildren, ErrorEnd, ErrorChild
    <2>3. CASE CancelStep(q)
      BY <2>3 DEF CancelStep, CancelDecrease, CancelNextState, CancelSave,
                  CancelListChildren, CancelEnd, CancelChild, Destroy
    <2>4. CASE AbortSave(q)
      BY <2>4 DEF AbortSave
    <2>. QED
      BY <1>1, <2>1, <2>2, <2>3, <2>4 DEF HandlerStep
  <1>2. ASSUME NEW q \in Request, NEW j \in Job, NewRequest(q, j)
        PROVE  UNCHANGED <<released, orphaned>>
    BY <1>2 DEF NewRequest, StartComplete, StartAbort, StartError, StartCancel,
                StartDelete, Start
  <1>3. ASSUME NEW b \in Builder, BuilderStep(b)
        PROVE  UNCHANGED <<released, orphaned>>
    BY <1>3 DEF BuilderStep, AbortAllTasks, SetToTranscode, IncreaseOrCreate,
                CreateRunnerJob
  <1>4. ASSUME NEW q \in Request, CompleteThrows(q)
        PROVE  UNCHANGED <<released, orphaned>>
    BY <1>4 DEF CompleteThrows
  <1>5. ASSUME NEW b \in Builder, BuilderThrows(b)
        PROVE  UNCHANGED <<released, orphaned>>
    BY <1>5 DEF BuilderThrows
  <1>6. ASSUME NEW b \in Builder, NEW m \in Job, CreateTranscoding(b, m)
        PROVE  UNCHANGED <<released, orphaned>>
    BY <1>6 DEF CreateTranscoding
  <1>7. ASSUME NEW r \in Runner, NEW j \in Job, AcceptRunnerJob(r, j)
        PROVE  UNCHANGED <<released, orphaned>>
    BY <1>7 DEF AcceptRunnerJob
  <1>8. ASSUME NEW r \in Runner, DeleteRunner(r)
        PROVE  UNCHANGED <<released, orphaned>>
    BY <1>8 DEF DeleteRunner
  <1>9. ASSUME NEW S \in SUBSET Job, ListStalledJobs(S)
        PROVE  UNCHANGED <<released, orphaned>>
    BY <1>9 DEF ListStalledJobs
  <1>10. ASSUME NEW j \in Job, AbortStalled(j)
         PROVE  UNCHANGED <<released, orphaned>>
    BY <1>10 DEF AbortStalled
  <1>11. CASE \/ MoveFiles \/ DoAfterLastMove \/ MoveFails \/ DeleteVideo
              \/ WatchdogFails
    BY <1>11 DEF MoveFiles, DoAfterLastMove, MoveFails, DeleteVideo, WatchdogFails
  <1>12. CASE UNCHANGED vars
    BY <1>12 DEF vars
  <1>. QED
    BY <1>1, <1>2, <1>3, <1>4, <1>5, <1>6, <1>7, <1>8, <1>9, <1>10, <1>11,
       <1>12, Zenon DEF Next

LEMMA HistoryType ==
    ASSUME HistoryTyped, RequestsTyped, [Next]_vars
    PROVE  HistoryTyped'
  <1>1. ASSUME NEW q \in Request, ReleaseChildren(q) PROVE HistoryTyped'
    BY <1>1, RequestHolds DEF ReleaseChildren, HistoryTyped
  <1>2. CASE Restart
    <2>1. \A q \in Request :
            request[q].pc \in CompletingPC => request[q].root \in Job
      BY RequestHolds DEF CompletingPC
    <2>. QED
      BY <1>2, <2>1 DEF Restart, HistoryTyped
  <1>3. ASSUME NEW q \in Request, HandlerFails(q) PROVE HistoryTyped'
    <2>1. request[q].pc \in CompletingPC => request[q].root \in Job
      BY RequestHolds DEF CompletingPC
    <2>2. /\ released' = released
          /\ \/ orphaned' = orphaned
             \/ /\ request[q].pc \in CompletingPC
                /\ orphaned' = orphaned \cup {request[q].root}
      BY <1>3 DEF HandlerFails
    <2>. QED
      BY <2>1, <2>2 DEF HistoryTyped
  <1>. QED
    BY <1>1, <1>2, <1>3, WritesHistory DEF HistoryTyped

LEMMA TypeInit == Init => TypeOK
  <1> SUFFICES ASSUME Init PROVE TypeOK
    OBVIOUS
  <1>1. RowsTyped
    BY NotLoadedType DEF Init, RowsTyped
  <1>2. infoRow \in BOOLEAN /\ afterMove \in BOOLEAN
    BY Zenon DEF Init
  <1>3. /\ pending \in Int /\ video \in VideoState /\ files \subseteq Job
        /\ pendingMove \in Int /\ moveJobs \in Nat
    <2>1. /\ pending = 0 /\ video = "TO_TRANSCODE" /\ files = {}
          /\ pendingMove = 0 /\ moveJobs = 0
      BY Zenon DEF Init
    <2>. QED
      BY <2>1 DEF VideoState
  <1>4. RequestsTyped
    BY IdleRequestType DEF Init, RequestsTyped
  <1>5. BuildsTyped
    <2>1. PICK b \in Builder, m \in Mains :
            builder = [c \in Builder |-> IF c = b THEN UploadBuild(m)
                                         ELSE IdleBuilder]
      BY DEF Init
    <2>. QED
      BY <2>1, BuildRowTypes DEF BuildsTyped, Mains
  <1>6. HistoryTyped
    BY Zenon DEF Init, HistoryTyped
  <1>. QED
    BY <1>1, <1>2, <1>3, <1>4, <1>5, <1>6, Zenon DEF TypeOK, VideoTyped

LEMMA TypeStep == TypeOK /\ [Next]_vars => TypeOK'
  BY RowsType, VideoType, RequestsType, BuildsType, HistoryType, Zenon DEF TypeOK

\* Every reachable state is well typed: a request being executed names a job,
\* and no sequence of partial saves makes a row the table could not hold.
THEOREM TypeInvariant == Spec => []TypeOK
  BY TypeInit, TypeStep, PTL DEF Spec

-----------------------------------------------------------------------------
(* How the state of a job changes, and at whose hands.                      *)

\* The states a job is given by the end of a cascade, a cancel or a deletion.
Ended == { "CANCELLED", "PARENT_CANCELLED", "PARENT_ERRORED", "DELETED" }

\* The instance a handler saves gives the row the state the handler chose, or
\* leaves the row's state alone.
LEMMA SavedState ==
    ASSUME job \in [Job -> Row], NEW i \in Job, NEW was \in Row, NEW now \in Row,
           job' = [job EXCEPT ![i] = Save(job[i], was, now)], NEW j \in Job
    PROVE  \/ job'[j].state = job[j].state
           \/ i = j /\ job'[j].state = now.state
  BY SaveColumns

LEMMA HandlerStateChange ==
    ASSUME RowsTyped, RequestsTyped, NEW q \in Request, HandlerWritesJob(q),
           NEW j \in Job
    PROVE  \/ job'[j].state = job[j].state
           \/ job'[j].state \in Ended
           \/ request[q].root = j /\ SaveCompleting(q)
           \/ /\ request[q].root = j /\ SaveCompletion(q)
              /\ job'[j].state = CompletionState(request[q].pc)
           \/ /\ request[q].root = j /\ (AbortSave(q) \/ ErrorSave(q))
              /\ job'[j].state \in {"PENDING", "ERRORED"}
           \/ /\ ReleaseChildren(q) /\ Parent[j] = request[q].root
              /\ job'[j].state = "PENDING"
  <1>0. job \in [Job -> Row]
    BY DEF RowsTyped
  <1>1. CASE SaveCompleting(q)
    <2>1. request[q].root \in Job
      BY <1>1, RequestHolds DEF SaveCompleting
    <2>2. request[q].root # j => job'[j] = job[j]
      BY <1>0, <1>1, <2>1 DEF SaveCompleting
    <2>. QED
      BY <1>1, <2>2
  <1>2. CASE SaveCompletion(q)
    <2> DEFINE root == request[q].root
               was == request[q].inst[root]
               now == [was EXCEPT !.state = CompletionState(request[q].pc)]
    <2>1. root \in Job /\ was \in Row
      BY <1>2, RequestHolds DEF SaveCompletion
    <2>2. CompletionState(request[q].pc) \in JobState
      BY DEF CompletionState, JobState
    <2>3. now \in Row /\ now.state = CompletionState(request[q].pc)
      <3> HIDE DEF was
      <3>. QED
        BY <2>1, <2>2, StateType DEF Row
    <2>4. job' = [job EXCEPT ![root] = Save(job[root], was, now)]
      BY <1>2 DEF SaveCompletion
    <2> HIDE DEF root, was, now
    <2>5. job'[j].state = job[j].state \/ (root = j /\ job'[j].state = now.state)
      BY ZenonT(30), <1>0, <2>1, <2>3, <2>4, SavedState
    <2>. QED
      BY <1>2, <2>3, <2>5 DEF root
  <1>3. CASE ReleaseChildren(q)
    <2>1. job'[j] = IF j \in ChildrenOf(request[q].root)
                    THEN [job[j] EXCEPT !.state = "PENDING"] ELSE job[j]
      BY <1>3 DEF ReleaseChildren
    <2>2. [job[j] EXCEPT !.state = "PENDING"].state = "PENDING"
      BY <1>0 DEF Row
    <2>3. j \in ChildrenOf(request[q].root) => Parent[j] = request[q].root
      BY DEF ChildrenOf, Kids
    <2>. QED
      BY <1>3, <2>1, <2>2, <2>3
  <1>4. CASE AbortSave(q)
    <2> DEFINE root == request[q].root
               was == request[q].inst[root]
               now == ResetToPending(was)
    <2>1. root \in Job /\ was \in Row
      BY <1>4, RequestHolds DEF AbortSave
    <2>2. now \in Row /\ now.state = "PENDING"
      <3> HIDE DEF was
      <3>. QED
        BY <2>1, ResetType DEF ResetToPending, Row
    <2>3. job' = [job EXCEPT ![root] = Save(job[root], was, now)]
      BY <1>4 DEF AbortSave
    <2> HIDE DEF root, was, now
    <2>4. job'[j].state = job[j].state \/ (root = j /\ job'[j].state = now.state)
      BY ZenonT(30), <1>0, <2>1, <2>2, <2>3, SavedState
    <2>. QED
      BY <1>4, <2>2, <2>4 DEF root
  <1>5. CASE ErrorSave(q)
    <2> DEFINE root == request[q].root
               was == request[q].inst[root]
               failed == CountFailure(was)
    <2>1. root \in Job /\ was \in Row
      BY <1>5, RequestHolds DEF ErrorSave
    <2>2. failed \in Row
      BY <2>1, CountFailureType
    <2>3. /\ ResetToPending(failed) \in Row
          /\ ResetToPending(failed).state = "PENDING"
          /\ SetToErrorOrCancel(failed, "ERRORED") \in Row
          /\ SetToErrorOrCancel(failed, "ERRORED").state = "ERRORED"
      <3> HIDE DEF failed
      <3>. QED
        BY <2>2, ResetType, SetToErrorOrCancelType
        DEF ResetToPending, SetToErrorOrCancel, Row, JobState
    <2>4. PICK now \in {ResetToPending(failed),
                        SetToErrorOrCancel(failed, "ERRORED")} :
            job' = [job EXCEPT ![root] = Save(job[root], was, now)]
      BY ONLY <1>5 DEF ErrorSave
    <2> HIDE DEF root, was, failed
    <2>5. now \in Row /\ now.state \in {"PENDING", "ERRORED"}
      BY <2>3, <2>4
    <2>6. job'[j].state = job[j].state \/ (root = j /\ job'[j].state = now.state)
      BY ONLY ZenonT(30), <1>0, <2>1, <2>4, <2>5, SavedState
    <2>. QED
      BY <1>5, <2>5, <2>6 DEF root
  <1>6. CASE CancelSave(q)
    <2> DEFINE cur == request[q].cur
               was == request[q].inst[cur]
               s == IF cur = request[q].root THEN "CANCELLED"
                                             ELSE "PARENT_CANCELLED"
    <2>1. cur \in Job /\ was \in Row
      BY <1>6, RequestHolds DEF CancelSave
    <2>2. SetToErrorOrCancel(was, s) \in Row /\ SetToErrorOrCancel(was, s).state = s
      <3> HIDE DEF was, cur
      <3>. QED
        BY ZenonT(30), <2>1, SetToErrorOrCancelType DEF SetToErrorOrCancel, Row, JobState
    <2>3. job' = [job EXCEPT ![cur] =
                    Save(job[cur], was, SetToErrorOrCancel(was, s))]
      BY <1>6 DEF CancelSave
    <2> HIDE DEF cur, was, s
    <2>4. job'[j].state = job[j].state \/ job'[j].state = s
      BY ZenonT(30), <1>0, <2>1, <2>2, <2>3, SavedState
    <2>. QED
      BY <2>4 DEF s, Ended
  <1>7. CASE Destroy(q)
    BY <1>0, <1>7 DEF Destroy, NoRow, Ended
  <1>8. ASSUME NEW k \in Job, ErrorChild(q, k)
        PROVE  job'[j].state = job[j].state \/ job'[j].state \in Ended
    <2> DEFINE was == request[q].inst[k]
               now == SetToErrorOrCancel(was, "PARENT_ERRORED")
    <2>1. was \in Row
      BY <1>8, RequestHolds DEF ErrorChild
    <2>2. now \in Row /\ now.state = "PARENT_ERRORED"
      <3> HIDE DEF was
      <3>. QED
        BY <2>1, SetToErrorOrCancelType DEF SetToErrorOrCancel, Row, JobState
    <2>3. job' = [job EXCEPT ![k] = Save(job[k], was, now)]
      BY <1>8 DEF ErrorChild
    <2> HIDE DEF was, now
    <2>4. job'[j].state = job[j].state \/ job'[j].state = now.state
      BY <1>0, <2>1, <2>2, <2>3, SavedState
    <2>. QED
      BY <2>2, <2>4 DEF Ended
  <1>. QED
    BY <1>1, <1>2, <1>3, <1>4, <1>5, <1>6, <1>7, <1>8, Zenon DEF HandlerWritesJob

LEMMA StateChange ==
    ASSUME RowsTyped, RequestsTyped, [Next]_vars, NEW j \in Job
    PROVE  \/ job'[j].state = job[j].state
           \/ job'[j].state \in Ended
           \/ \E q \in Request : request[q].root = j /\ SaveCompleting(q)
           \/ \E q \in Request :
                /\ request[q].root = j /\ SaveCompletion(q)
                /\ job'[j].state = CompletionState(request[q].pc)
           \/ \E q \in Request :
                /\ request[q].root = j /\ (AbortSave(q) \/ ErrorSave(q))
                /\ job'[j].state \in {"PENDING", "ERRORED"}
           \/ \E q \in Request :
                /\ ReleaseChildren(q) /\ Parent[j] = request[q].root
                /\ job'[j].state = "PENDING"
           \/ job[j].state = "PENDING" /\ job'[j].state = "PROCESSING"
           \/ AbortStalled(j) /\ job'[j].state = "PENDING"
           \/ job'[j].state = InitialState(j)
  <1>0. job \in [Job -> Row] /\ stalled \in [Job -> Row]
    BY DEF RowsTyped
  <1>1. ASSUME NEW r \in Runner, NEW i \in Job, AcceptRunnerJob(r, i)
        PROVE  \/ job'[j].state = job[j].state
               \/ job[j].state = "PENDING" /\ job'[j].state = "PROCESSING"
    <2>1. PICK fresh \in Token : job' = [job EXCEPT ![i].state = "PROCESSING",
                                                     ![i].token = fresh,
                                                     ![i].runner = r]
      BY <1>1 DEF AcceptRunnerJob
    <2>2. job[i].state = "PENDING"
      BY <1>1 DEF AcceptRunnerJob, CanAccept
    <2>3. job[j] \in Row
      BY <1>0
    <2>. QED
      BY <1>0, <2>1, <2>2, <2>3 DEF Row
  <1>2. ASSUME NEW r \in Runner, DeleteRunner(r)
        PROVE  job'[j].state = job[j].state
    BY <1>0, <1>2 DEF DeleteRunner, Row
  <1>3. ASSUME NEW i \in Job, AbortStalled(i)
        PROVE  \/ job'[j].state = job[j].state
               \/ AbortStalled(j) /\ job'[j].state = "PENDING"
    <2> DEFINE was == stalled[i]
               now == ResetToPending(was)
    <2>1. was \in Row
      BY <1>0
    <2>2. now \in Row /\ now.state = "PENDING"
      <3> HIDE DEF was
      <3>. QED
        BY <2>1, ResetType DEF ResetToPending, Row
    <2>3. job' = [job EXCEPT ![i] = Save(job[i], was, now)]
      BY <1>3 DEF AbortStalled
    <2> HIDE DEF was, now
    <2>4. job'[j].state = job[j].state \/ (i = j /\ job'[j].state = now.state)
      BY <1>0, <2>1, <2>2, <2>3, SavedState
    <2>. QED
      BY <1>3, <2>2, <2>4
  <1>4. ASSUME NEW b \in Builder, NEW i \in Job, CreateRunnerJob(b, i)
        PROVE  job'[j].state = job[j].state \/ job'[j].state = InitialState(j)
    <2>1. job' = job \/ job' = [job EXCEPT ![i].state = InitialState(i)]
      BY <1>4 DEF CreateRunnerJob
    <2>. QED
      BY <1>0, <2>1 DEF Row
  <1>. QED
    BY <1>1, <1>2, <1>3, <1>4, WritesJob, HandlerStateChange, Zenon DEF JobWriters

-----------------------------------------------------------------------------
(* How a request moves from one statement to the next.                      *)

\* The statements before which the output has been attached.
AttachedPC == { "decrease", "nextState", "saveCompleted" }

\* A handler goes on with the same root.  It never enters the runner's side of
\* a handler from a cascade, nor the completion's statements but in order.
LEMMA HandlerFlow ==
    ASSUME RowsTyped, RequestsTyped, NEW q \in Request,
           HandlerStep(q) \/ CompleteThrows(q)
    PROVE  \/ request'[q].pc = "idle"
           \/ /\ request'[q].root = request[q].root
              /\ request[q].pc # "idle"
              /\ request'[q].pc \in RunnerPC => request[q].pc \in RunnerPC
              /\ request'[q].pc \in CompletingPC =>
                   \/ SaveCompleting(q)
                   \/ request[q].pc \in CompletingPC
                      /\ request'[q].inst = request[q].inst
              /\ request'[q].pc \in AttachedPC =>
                   \/ AttachFile(q)
                   \/ request[q].pc \in AttachedPC
  <1> DEFINE Flow ==
        \/ request'[q].pc = "idle"
        \/ /\ request'[q].root = request[q].root
           /\ request[q].pc # "idle"
           /\ request'[q].pc \in RunnerPC => request[q].pc \in RunnerPC
           /\ request'[q].pc \in CompletingPC =>
                \/ SaveCompleting(q)
                \/ request[q].pc \in CompletingPC
                   /\ request'[q].inst = request[q].inst
           /\ request'[q].pc \in AttachedPC =>
                \/ AttachFile(q)
                \/ request[q].pc \in AttachedPC
  <1> USE DEF RunnerPC, CompletingPC, AttachedPC
  <1>0. request \in [Request -> RequestRow]
    BY DEF RequestsTyped
  <1>1. ASSUME NEW label, Goto(q, label)
        PROVE  /\ request'[q].pc = label /\ request'[q].root = request[q].root
               /\ request'[q].inst = request[q].inst
    BY <1>0, <1>1 DEF Goto, RequestRow
  <1>2. ASSUME NEW label, NEW j, DropAndGoto(q, j, label)
        PROVE  request'[q].pc = label /\ request'[q].root = request[q].root
    BY <1>0, <1>2 DEF DropAndGoto, RequestRow
  <1>3. Finish(q) => request'[q].pc = "idle"
    BY <1>0 DEF Finish, IdleRequest
  <1>4. ASSUME SaveCompleting(q) PROVE Flow
    BY <1>0, <1>4 DEF SaveCompleting, RequestRow
  <1>5. ASSUME AttachFile(q) \/ OnTranscodingEnded(q) \/ CompleteNextState(q)
        PROVE  Flow
    BY <1>1, <1>5 DEF AttachFile, OnTranscodingEnded, CompleteNextState
  <1>6. ASSUME CompleteThrows(q) PROVE Flow
    BY <1>1, <1>6 DEF CompleteThrows
  <1>7. ASSUME SaveCompletion(q) PROVE Flow
    BY <1>2, <1>7 DEF SaveCompletion
  <1>8. ASSUME ReleaseChildren(q) \/ AbortSave(q) \/ ErrorEnd(q) \/ Destroy(q)
        PROVE  Flow
    BY <1>3, <1>8 DEF ReleaseChildren, AbortSave, ErrorEnd, Destroy
  <1>9. ASSUME ErrorFail(q) \/ ErrorDecrease(q) PROVE Flow
    BY <1>1, <1>9 DEF ErrorFail, ErrorDecrease
  <1>10. ASSUME ErrorSave(q) PROVE Flow
    <2>1. request[q].pc = "errorSave"
          /\ (DropAndGoto(q, request[q].root, "errorList") \/ Finish(q))
      BY <1>10 DEF ErrorSave
    <2>. QED
      BY <1>2, <1>3, <2>1
  <1>11. ASSUME ErrorListChildren(q) \/ CancelListChildren(q) PROVE Flow
    <2>1. ASSUME NEW label,
                 request' = [request EXCEPT
                               ![q] = [LoadChildren(q) EXCEPT !.pc = label]]
          PROVE  request'[q].pc = label /\ request'[q].root = request[q].root
      BY <1>0, <2>1 DEF LoadChildren, RequestRow
    <2>2. CASE ErrorListChildren(q)
      <3>1. /\ request[q].pc = "errorList"
            /\ request' = [request EXCEPT
                             ![q] = [LoadChildren(q) EXCEPT !.pc = "errorKids"]]
        BY <2>2 DEF ErrorListChildren
      <3>2. request'[q].pc = "errorKids" /\ request'[q].root = request[q].root
        BY <2>1, <3>1
      <3>. QED
        BY <3>1, <3>2
    <2>3. CASE CancelListChildren(q)
      <3>1. /\ request[q].pc = "cancelList"
            /\ request' = [request EXCEPT
                             ![q] = [LoadChildren(q) EXCEPT !.pc = "cancelKids"]]
        BY <2>3 DEF CancelListChildren
      <3>2. request'[q].pc = "cancelKids" /\ request'[q].root = request[q].root
        BY <2>1, <3>1
      <3>. QED
        BY <3>1, <3>2
    <2>. QED
      BY <1>11, <2>2, <2>3
  <1>12. ASSUME NEW k \in Job, ErrorChild(q, k) PROVE Flow
    BY <1>0, <1>12 DEF ErrorChild, RequestRow
  <1>13. ASSUME CancelDecrease(q) \/ CancelNextState(q) PROVE Flow
    BY <1>1, <1>13 DEF CancelDecrease, CancelNextState
  <1>14. ASSUME CancelSave(q) PROVE Flow
    BY <1>2, <1>14 DEF CancelSave
  <1>15. ASSUME NEW k \in Job, CancelChild(q, k) PROVE Flow
    BY <1>0, <1>15 DEF CancelChild, RequestRow
  <1>16. ASSUME CancelEnd(q) PROVE Flow
    BY <1>1, <1>3, <1>16 DEF CancelEnd
  <1> HIDE DEF Flow
  <1>17. Flow
    BY <1>4, <1>5, <1>6, <1>7, <1>8, <1>9, <1>10, <1>11, <1>12, <1>13, <1>14,
       <1>15, <1>16, Zenon DEF HandlerStep, CompleteStep, ErrorStep, CancelStep
  <1>. QED
    BY <1>17, Zenon DEF Flow

\* A request moves only in its own statements.
LEMMA OthersStay ==
    ASSUME RequestsTyped, NEW p \in Request,
           \/ HandlerStep(p) \/ CompleteThrows(p) \/ HandlerFails(p)
           \/ \E j \in Job : NewRequest(p, j),
           NEW q \in Request, q # p
    PROVE  request'[q] = request[q]
  <1> USE DEF RequestsTyped, Goto, DropAndGoto, Finish
  <1>1. CASE \/ CompleteStep(p) \/ CompleteThrows(p) \/ AbortSave(p)
             \/ HandlerFails(p)
    BY <1>1 DEF CompleteStep, SaveCompleting, AttachFile, OnTranscodingEnded,
                CompleteNextState, SaveCompletion, ReleaseChildren,
                CompleteThrows, AbortSave, HandlerFails
  <1>2. CASE ErrorStep(p)
    BY <1>2 DEF ErrorStep, ErrorFail, ErrorDecrease, ErrorSave,
                ErrorListChildren, ErrorEnd, ErrorChild
  <1>3. CASE CancelStep(p)
    BY <1>3 DEF CancelStep, CancelDecrease, CancelNextState, CancelSave,
                CancelListChildren, CancelEnd, CancelChild, Destroy
  <1>4. ASSUME NEW j \in Job, NewRequest(p, j) PROVE request'[q] = request[q]
    BY <1>4 DEF NewRequest, StartComplete, StartAbort, StartError,
                StartCancel, StartDelete, Start
  <1>. QED
    BY <1>1, <1>2, <1>3, <1>4 DEF HandlerStep

\* A runner's request starts on a job that runner holds; an administrator's
\* goes through a cascade.
LEMMA StartFlow ==
    ASSUME RequestsTyped, NEW q \in Request, NEW j \in Job, NewRequest(q, j)
    PROVE  /\ request'[q].root = j
           /\ request'[q].pc \notin CompletingPC \cup AttachedPC
           /\ request'[q].pc \in RunnerPC => job[j].state = "PROCESSING"
  <1>1. request \in [Request -> RequestRow]
    BY DEF RequestsTyped
  <1>2. ASSUME NEW label, NEW destroy, Start(q, label, j, destroy)
        PROVE  request'[q].pc = label /\ request'[q].root = j
    BY <1>1, <1>2 DEF Start
  <1>3. PICK label \in {"saveCompleting", "abortSave", "errorFail",
                         "cancelDecrease", "destroy"}, destroy \in BOOLEAN :
          /\ Start(q, label, j, destroy)
          /\ HeldByRunner(j) \/ label \in {"cancelDecrease", "destroy"}
    BY DEF NewRequest, StartComplete, StartAbort, StartError, StartCancel,
           StartDelete
  <1>4. request'[q].pc = label /\ request'[q].root = j
    BY <1>2, <1>3
  <1>. QED
    BY <1>3, <1>4 DEF HeldByRunner, CompletingPC, AttachedPC, RunnerPC

\* What a request was before a step, and what moved it.
LEMMA RequestChange ==
    ASSUME RequestsTyped, [Next]_vars, NEW q \in Request
    PROVE  \/ request'[q] = request[q]
           \/ HandlerStep(q) \/ CompleteThrows(q)
           \/ \E j \in Job : NewRequest(q, j)
           \/ request'[q].pc = "idle"
  <1>1. CASE Restart
    BY <1>1 DEF Restart, IdleRequest
  <1>2. CASE HandlerFails(q)
    BY <1>2 DEF HandlerFails, Finish, IdleRequest, RequestsTyped
  <1>. QED
    BY <1>1, <1>2, WritesRequest, OthersStay, Zenon

-----------------------------------------------------------------------------
(* Children wait for their parent.                                          *)

\* Inductive: a handler that can make a child available again, and the
\* watchdog's list, only concern children whose parent was completed.
ReleasedInv ==
    /\ KidAfterParent
    /\ \A q \in Request :
         request[q].pc \in RunnerPC /\ Parent[request[q].root] # None
         => Parent[request[q].root] \in released
    /\ \A j \in Job :
         stalled[j] # NoRow("NOT_CREATED") /\ Parent[j] # None
         => Parent[j] \in released

LEMMA ReleasedGrows ==
    ASSUME [Next]_vars
    PROVE  released \subseteq released'
  BY WritesHistory DEF ReleaseChildren, HandlerFails, Restart

LEMMA ReleasedInit == Init => ReleasedInv
  BY DEF Init, ReleasedInv, KidAfterParent, NotLoaded, NoRow, IdleRequest,
         RunnerPC

LEMMA ReleasedKids ==
    ASSUME TypeOK, ReleasedInv, [Next]_vars
    PROVE  KidAfterParent'
  <1> SUFFICES ASSUME NEW j \in Job, Parent[j] # None,
                      job'[j].state \in { "PENDING", "PROCESSING",
                                          "COMPLETING", "COMPLETED", "ERRORED" },
                      Parent[j] \notin released'
               PROVE  FALSE
    BY DEF KidAfterParent
  <1>0. RowsTyped /\ RequestsTyped
    BY DEF TypeOK
  <1>1. Parent[j] \notin released
    BY ReleasedGrows
  <1>2. job[j].state \notin { "PENDING", "PROCESSING", "COMPLETING",
                              "COMPLETED", "ERRORED" }
    BY <1>1 DEF ReleasedInv, KidAfterParent
  <1>3. ASSUME NEW q \in Request, request[q].root = j,
               \/ SaveCompleting(q) \/ SaveCompletion(q)
               \/ AbortSave(q) \/ ErrorSave(q)
        PROVE  FALSE
    <2>1. request[q].pc \in RunnerPC
      BY <1>3 DEF SaveCompleting, SaveCompletion, AbortSave, ErrorSave, RunnerPC
    <2>. QED
      BY <1>1, <1>3, <2>1 DEF ReleasedInv
  <1>4. ASSUME NEW q \in Request, ReleaseChildren(q), Parent[j] = request[q].root
        PROVE  FALSE
    BY <1>4 DEF ReleaseChildren
  <1>5. CASE AbortStalled(j)
    BY <1>1, <1>5 DEF AbortStalled, ReleasedInv
  <1>6. InitialState(j) = "WAITING_FOR_PARENT_JOB"
    BY DEF InitialState
  <1>7. /\ job'[j].state # job[j].state /\ job'[j].state \notin Ended
        /\ job'[j].state # InitialState(j) /\ job[j].state # "PENDING"
    BY <1>2, <1>6 DEF Ended
  <1>. QED
    BY <1>0, <1>3, <1>4, <1>5, <1>7, StateChange, Zenon

LEMMA ReleasedStep == TypeOK /\ ReleasedInv /\ [Next]_vars => ReleasedInv'
  <1> SUFFICES ASSUME TypeOK, ReleasedInv, [Next]_vars PROVE ReleasedInv'
    OBVIOUS
  <1>0. RowsTyped /\ RequestsTyped
    BY DEF TypeOK
  <1>1. ASSUME NEW q \in Request, request'[q].pc \in RunnerPC,
               Parent[request'[q].root] # None
        PROVE  Parent[request'[q].root] \in released'
    <2>1. CASE request'[q] = request[q]
      BY <1>1, <2>1, ReleasedGrows DEF ReleasedInv
    <2>2. CASE HandlerStep(q) \/ CompleteThrows(q)
      BY <1>0, <1>1, <2>2, HandlerFlow, ReleasedGrows DEF ReleasedInv, RunnerPC
    <2>3. ASSUME NEW j \in Job, NewRequest(q, j)
          PROVE  Parent[request'[q].root] \in released'
      BY <1>0, <1>1, <2>3, StartFlow, ReleasedGrows
      DEF ReleasedInv, KidAfterParent
    <2>. QED
      BY <1>0, <1>1, <2>1, <2>2, <2>3, RequestChange DEF RunnerPC
  <1>2. ASSUME NEW j \in Job, stalled'[j] # NoRow("NOT_CREATED"),
               Parent[j] # None
        PROVE  Parent[j] \in released'
    <2>1. CASE UNCHANGED stalled
      BY <1>2, <2>1, ReleasedGrows DEF ReleasedInv
    <2>2. ASSUME NEW S \in SUBSET Job, ListStalledJobs(S)
          PROVE  Parent[j] \in released'
      BY <1>2, <2>2, ReleasedGrows
      DEF ListStalledJobs, ReleasedInv, KidAfterParent
    <2>3. ASSUME NEW i \in Job, AbortStalled(i)
          PROVE  Parent[j] \in released'
      BY <1>0, <1>2, <2>3, ReleasedGrows
      DEF AbortStalled, ReleasedInv, RowsTyped
    <2>4. CASE Restart
      BY <1>2, <2>4 DEF Restart, NotLoaded
    <2>5. CASE WatchdogFails
      BY <1>2, <2>5 DEF WatchdogFails, NotLoaded
    <2>. QED
      BY <2>1, <2>2, <2>3, <2>4, <2>5, WritesStalled
  <1>. QED
    BY <1>1, <1>2, ReleasedKids DEF ReleasedInv

\* For every forest of jobs, every number of runners, requests and builds and
\* every environment: a child is offered, run or ended on its own only after a
\* completion of its parent.
THEOREM KidsWait == Spec => []KidAfterParent
  <1>1. ReleasedInv => KidAfterParent
    BY DEF ReleasedInv
  <1>. QED
    BY <1>1, ReleasedInit, ReleasedStep, TypeInvariant, PTL DEF Spec

-----------------------------------------------------------------------------
(* COMPLETED jobs have their file.                                          *)

\* Inductive: past the statement that attaches the output, the output is
\* attached or the video is gone.
AttachedInv ==
    /\ CompletedHasFile
    /\ \A q \in Request : request[q].pc \in AttachedPC =>
         request[q].root \in files \/ video = "DELETED"

LEMMA MoveToNextStateKeepsDeleted ==
    MoveToNextState /\ video = "DELETED" => video' = "DELETED"
  BY MoveToNextStateCases, Zenon

\* No step takes a file away or brings a deleted video back.
LEMMA FilesStay ==
    ASSUME [Next]_vars
    PROVE  /\ files \subseteq files'
           /\ video = "DELETED" => video' = "DELETED"
  <1>1. CASE UNCHANGED videoVars
    BY <1>1 DEF videoVars
  <1>2. ASSUME NEW q \in Request,
               AttachFile(q) \/ OnTranscodingEnded(q) \/ ErrorDecrease(q)
                 \/ CancelDecrease(q)
        PROVE  files \subseteq files' /\ video' = video
    <2>1. /\ video' = video
          /\ files' = files \/ files' = files \cup {request[q].root}
      BY <1>2, Zenon
      DEF AttachFile, OnTranscodingEnded, ErrorDecrease, CancelDecrease
    <2>. QED
      BY <2>1
  <1>3. ASSUME NEW q \in Request, CompleteNextState(q) \/ CancelNextState(q)
        PROVE  files' = files /\ (video = "DELETED" => video' = "DELETED")
    BY <1>3, MoveToNextStateKeepsDeleted, Zenon
    DEF CompleteNextState, CancelNextState
  <1>4. ASSUME NEW q \in Request, ErrorFail(q)
        PROVE  files' = files /\ (video = "DELETED" => video' = "DELETED")
    BY <1>4, Zenon DEF ErrorFail
  <1>5. ASSUME NEW b \in Builder,
               AbortAllTasks(b) \/ SetToTranscode(b) \/ IncreaseOrCreate(b)
        PROVE  files' = files /\ (video = "DELETED" => video' = "DELETED")
    BY <1>5, Zenon DEF AbortAllTasks, SetToTranscode, IncreaseOrCreate
  <1>6. ASSUME MoveFiles \/ DoAfterLastMove \/ MoveFails \/ DeleteVideo \/ Restart
        PROVE  files' = files /\ (video = "DELETED" => video' = "DELETED")
    BY <1>6, MoveToNextStateKeepsDeleted, Zenon
    DEF MoveFiles, DoAfterLastMove, MoveFails, DeleteVideo, Restart
  <1>. QED
    BY <1>1, <1>2, <1>3, <1>4, <1>5, <1>6, WritesVideo DEF VideoWriters

LEMMA AttachedInit == Init => AttachedInv
  BY DEF Init, AttachedInv, CompletedHasFile, NotLoaded, NoRow, IdleRequest,
         AttachedPC

LEMMA AttachedStep == TypeOK /\ AttachedInv /\ [Next]_vars => AttachedInv'
  <1> SUFFICES ASSUME TypeOK, AttachedInv, [Next]_vars PROVE AttachedInv'
    OBVIOUS
  <1>0. RowsTyped /\ RequestsTyped
    BY DEF TypeOK
  <1>1. ASSUME NEW j \in Job, job'[j].state = "COMPLETED"
        PROVE  j \in files' \/ video' = "DELETED"
    <2>1. CASE job[j].state = "COMPLETED"
      BY <2>1, FilesStay DEF AttachedInv, CompletedHasFile
    <2>2. ASSUME NEW q \in Request, request[q].root = j, SaveCompletion(q),
                 job'[j].state = CompletionState(request[q].pc)
          PROVE  j \in files' \/ video' = "DELETED"
      <3>1. request[q].pc = "saveCompleted"
        BY <1>1, <2>2 DEF CompletionState
      <3>. QED
        BY <2>2, <3>1, FilesStay DEF AttachedInv, AttachedPC
    <2>3. ASSUME NEW q \in Request, request[q].root = j, SaveCompleting(q),
                 job[j].state # "COMPLETED"
          PROVE  FALSE
      <3> DEFINE was == request[q].inst[j]
                 now == [was EXCEPT !.state = "COMPLETING"]
      <3>1. was \in Row /\ job \in [Job -> Row]
        BY <1>0, <2>3, RequestHolds DEF SaveCompleting, RowsTyped
      <3>2. now \in Row /\ now.state = "COMPLETING"
        <4> HIDE DEF was
        <4>. QED
          BY <3>1, StateType DEF Row, JobState
      <3>3. job' = [job EXCEPT ![j] = Save(job[j], was, now)]
        BY <2>3 DEF SaveCompleting
      <3> HIDE DEF was, now
      <3>4. job'[j].state \in {job[j].state, "COMPLETING"}
        BY <3>1, <3>2, <3>3, SavedState
      <3>. QED
        BY <1>1, <2>3, <3>4
    <2>4. job'[j].state \notin Ended /\ job'[j].state # InitialState(j)
      BY <1>1 DEF Ended, InitialState
    <2>5. job'[j].state \notin {"PENDING", "ERRORED", "PROCESSING"}
      BY <1>1
    <2>6. job'[j].state # "PENDING" /\ job'[j].state # "PROCESSING"
      BY <1>1
    <2>. QED
      BY <1>0, <1>1, <2>1, <2>2, <2>3, <2>4, <2>5, <2>6, StateChange, Zenon
  <1>2. ASSUME NEW q \in Request, request'[q].pc \in AttachedPC
        PROVE  request'[q].root \in files' \/ video' = "DELETED"
    <2>1. CASE request'[q] = request[q]
      BY <1>2, <2>1, FilesStay DEF AttachedInv
    <2>2. CASE HandlerStep(q) \/ CompleteThrows(q)
      <3>1. /\ request'[q].root = request[q].root
            /\ AttachFile(q) \/ request[q].pc \in AttachedPC
        BY <1>0, <1>2, <2>2, HandlerFlow DEF AttachedPC
      <3>2. CASE AttachFile(q)
        BY <3>1, <3>2, Zenon DEF AttachFile
      <3>3. CASE request[q].pc \in AttachedPC
        BY <3>1, <3>3, FilesStay DEF AttachedInv
      <3>. QED
        BY <3>1, <3>2, <3>3
    <2>3. ASSUME NEW j \in Job, NewRequest(q, j) PROVE FALSE
      BY <1>0, <1>2, <2>3, StartFlow
    <2>. QED
      BY <1>0, <1>2, <2>1, <2>2, <2>3, RequestChange DEF AttachedPC
  <1>. QED
    BY <1>1, <1>2 DEF AttachedInv, CompletedHasFile

\* However handlers overlap, jobs and videos are deleted, statements throw and
\* the server restarts, a COMPLETED job's file was attached to the video or
\* there was no video left.
THEOREM CompletedJobsHaveFile == Spec => []CompletedHasFile
  <1>1. AttachedInv => CompletedHasFile
    BY DEF AttachedInv
  <1>. QED
    BY <1>1, AttachedInit, AttachedStep, TypeInvariant, PTL DEF Spec

-----------------------------------------------------------------------------
(* COMPLETING jobs have a handler.                                          *)

\* Inductive: the handler completing a job holds it as COMPLETING, so that its
\* last save writes the state.
HandledInv ==
    /\ CompletingHasHandler
    /\ \A q \in Request : request[q].pc \in CompletingPC =>
         request[q].inst[request[q].root].state = "COMPLETING"

LEMMA OrphanedGrows ==
    ASSUME [Next]_vars
    PROVE  orphaned \subseteq orphaned'
  BY WritesHistory DEF ReleaseChildren, HandlerFails, Restart

LEMMA HandledInit == Init => HandledInv
  BY DEF Init, HandledInv, CompletingHasHandler, NotLoaded, NoRow, IdleRequest,
         CompletingPC

\* The completion's last save takes the job out of COMPLETING.
LEMMA CompletionEnds ==
    ASSUME RowsTyped, RequestsTyped, HandledInv,
           NEW q \in Request, SaveCompletion(q),
           job'[request[q].root].state = "COMPLETING"
    PROVE  FALSE
  <1> DEFINE root == request[q].root
             was == request[q].inst[root]
             now == [was EXCEPT !.state = CompletionState(request[q].pc)]
  <1>1. root \in Job /\ was \in Row /\ job \in [Job -> Row]
    BY RequestHolds DEF SaveCompletion, RowsTyped
  <1>2. CompletionState(request[q].pc) \in JobState
        /\ CompletionState(request[q].pc) # "COMPLETING"
    BY DEF CompletionState, JobState
  <1>3. was.state = "COMPLETING"
    BY DEF HandledInv, SaveCompletion, CompletingPC
  <1>4. now \in Row /\ now.state = CompletionState(request[q].pc)
    <2> HIDE DEF was
    <2>. QED
      BY <1>1, <1>2, StateType DEF Row
  <1>5. job' = [job EXCEPT ![root] = Save(job[root], was, now)]
    BY DEF SaveCompletion
  <1>6. job'[root].state = "COMPLETING"
    OBVIOUS
  <1> HIDE DEF root, was, now
  <1>7. Save(job[root], was, now).state \in {job[root].state, now.state}
        /\ (job[root].state \notin Absent
              => Save(job[root], was, now).state = now.state)
    BY <1>1, <1>2, <1>3, <1>4, SaveColumns
  <1>. QED
    BY <1>1, <1>2, <1>4, <1>5, <1>6, <1>7 DEF Absent

\* From the statements of a completion a handler only gets to others of them,
\* until the last save.
LEMMA HandlerKeepsCompleting ==
    ASSUME RequestsTyped, NEW q \in Request, request[q].pc \in CompletingPC,
           HandlerStep(q) \/ CompleteThrows(q)
    PROVE  \/ SaveCompletion(q)
           \/ /\ request'[q].root = request[q].root
              /\ request'[q].pc \in CompletingPC
  <1>0. request \in [Request -> RequestRow]
    BY DEF RequestsTyped
  <1>1. \/ AttachFile(q) \/ OnTranscodingEnded(q) \/ CompleteNextState(q)
        \/ CompleteThrows(q) \/ SaveCompletion(q)
    BY DEF CompletingPC, HandlerStep, CompleteStep, ErrorStep, CancelStep,
           SaveCompleting, ReleaseChildren, AbortSave, ErrorFail,
           ErrorDecrease, ErrorSave, ErrorListChildren, ErrorEnd, ErrorChild,
           CancelDecrease, CancelNextState, CancelSave, CancelListChildren,
           CancelEnd, CancelChild, Destroy
  <1>2. \/ SaveCompletion(q)
        \/ \E label \in CompletingPC : Goto(q, label)
    BY <1>1 DEF AttachFile, OnTranscodingEnded, CompleteNextState,
                CompleteThrows, CompletingPC
  <1>3. ASSUME NEW label, Goto(q, label)
        PROVE  request'[q].pc = label /\ request'[q].root = request[q].root
    BY <1>0, <1>3 DEF Goto, RequestRow
  <1>. QED
    BY <1>2, <1>3

LEMMA HandledStep == TypeOK /\ HandledInv /\ [Next]_vars => HandledInv'
  <1> SUFFICES ASSUME TypeOK, HandledInv, [Next]_vars PROVE HandledInv'
    OBVIOUS
  <1>0. RowsTyped /\ RequestsTyped
    BY DEF TypeOK
  <1>1. ASSUME NEW j \in Job, job'[j].state = "COMPLETING", j \notin orphaned'
        PROVE  \E q \in Request : /\ request'[q].root = j
                                  /\ request'[q].pc \in CompletingPC
    <2>1. CASE job[j].state = "COMPLETING"
      <3>1. PICK q \in Request : /\ request[q].root = j
                                 /\ request[q].pc \in CompletingPC
        BY <1>1, <2>1, OrphanedGrows DEF HandledInv, CompletingHasHandler
      <3>2. CASE HandlerStep(q) \/ CompleteThrows(q)
        BY <1>0, <1>1, <3>1, <3>2, HandlerKeepsCompleting, CompletionEnds
      <3>3. ASSUME NEW i \in Job, NewRequest(q, i) PROVE FALSE
        BY <3>1, <3>3 DEF NewRequest, StartComplete, StartAbort, StartError,
                          StartCancel, StartDelete, Start, CompletingPC
      <3>4. CASE request'[q] = request[q]
        BY <3>1, <3>4
      <3>5. CASE Restart
        BY <1>1, <3>1, <3>5 DEF Restart
      <3>6. CASE HandlerFails(q)
        BY <1>1, <3>1, <3>6 DEF HandlerFails
      <3>. QED
        BY <1>0, <3>2, <3>3, <3>4, <3>5, <3>6, WritesRequest, OthersStay, Zenon
    <2>2. ASSUME NEW q \in Request, request[q].root = j, SaveCompleting(q)
          PROVE  request'[q].root = j /\ request'[q].pc \in CompletingPC
      BY <1>0, <2>2 DEF SaveCompleting, RequestsTyped, RequestRow, CompletingPC
    <2>3. ASSUME NEW q \in Request, request[q].root = j, SaveCompletion(q)
          PROVE  FALSE
      BY <1>0, <1>1, <2>3, CompletionEnds
    <2>4. job'[j].state \notin Ended /\ job'[j].state # InitialState(j)
      BY <1>1 DEF Ended, InitialState
    <2>5. job'[j].state \notin {"PENDING", "ERRORED"}
          /\ job'[j].state # "PENDING" /\ job'[j].state # "PROCESSING"
      BY <1>1
    <2>. QED
      BY <1>0, <1>1, <2>1, <2>2, <2>3, <2>4, <2>5, StateChange, Zenon
  <1>2. ASSUME NEW q \in Request, request'[q].pc \in CompletingPC
        PROVE  request'[q].inst[request'[q].root].state = "COMPLETING"
    <2>1. CASE request'[q] = request[q]
      BY <1>2, <2>1 DEF HandledInv
    <2>2. CASE HandlerStep(q) \/ CompleteThrows(q)
      <3>1. /\ request'[q].root = request[q].root
            /\ \/ SaveCompleting(q)
               \/ request[q].pc \in CompletingPC
                  /\ request'[q].inst = request[q].inst
        BY <1>0, <1>2, <2>2, HandlerFlow DEF CompletingPC
      <3>2. CASE SaveCompleting(q)
        <4>1. /\ request[q].root \in Job
              /\ request[q].inst[request[q].root] \in Row
              /\ request \in [Request -> RequestRow]
          BY <1>0, <3>2, RequestHolds DEF SaveCompleting, RequestsTyped
        <4>2. request'[q].inst[request[q].root] =
                [request[q].inst[request[q].root] EXCEPT !.state = "COMPLETING"]
          BY <3>2, <4>1 DEF SaveCompleting, RequestRow
        <4>. QED
          BY <3>1, <4>1, <4>2 DEF Row
      <3>3. CASE /\ request[q].pc \in CompletingPC
                 /\ request'[q].inst = request[q].inst
        BY <3>1, <3>3 DEF HandledInv
      <3>. QED
        BY <3>1, <3>2, <3>3
    <2>3. ASSUME NEW j \in Job, NewRequest(q, j) PROVE FALSE
      BY <1>0, <1>2, <2>3, StartFlow
    <2>. QED
      BY <1>0, <1>2, <2>1, <2>2, <2>3, RequestChange DEF CompletingPC
  <1>. QED
    BY <1>1, <1>2 DEF HandledInv, CompletingHasHandler

\* A job is COMPLETING only while its handler is at work: nothing but a restart
\* or the failure of the handler's last save leaves one behind.
THEOREM CompletingJobsHaveHandler == Spec => []CompletingHasHandler
  <1>1. HandledInv => CompletingHasHandler
    BY DEF HandledInv
  <1>. QED
    BY <1>1, HandledInit, HandledStep, TypeInvariant, PTL DEF Spec

-----------------------------------------------------------------------------
(* A job being processed stays with its runner.                             *)

\* A handler may take a job from its runner, never give it to another.
LEMMA HandlerKeepsRunner ==
    ASSUME RowsTyped, RequestsTyped, NEW q \in Request, HandlerWritesJob(q),
           NEW j \in Job
    PROVE  /\ job'[j].token \in {job[j].token, None}
           /\ job'[j].runner \in {job[j].runner, None}
  <1>0. job \in [Job -> Row]
    BY DEF RowsTyped
  <1>1. ASSUME NEW i \in Job, NEW was \in Row, NEW now \in Row,
               now.token \in {was.token, None},
               now.runner \in {was.runner, None},
               job' = [job EXCEPT ![i] = Save(job[i], was, now)]
        PROVE  /\ job'[j].token \in {job[j].token, None}
               /\ job'[j].runner \in {job[j].runner, None}
    BY <1>0, <1>1, SaveColumns
  <1>2. ASSUME NEW i \in Job, NEW was \in Row, NEW now,
               \/ \E s \in JobState : now = [was EXCEPT !.state = s]
               \/ now = ResetToPending(was)
               \/ now = ResetToPending(CountFailure(was))
               \/ \E s \in JobState : now = SetToErrorOrCancel(was, s)
               \/ now = SetToErrorOrCancel(CountFailure(was), "ERRORED"),
               job' = [job EXCEPT ![i] = Save(job[i], was, now)]
        PROVE  /\ job'[j].token \in {job[j].token, None}
               /\ job'[j].runner \in {job[j].runner, None}
    <2>1. /\ now \in Row /\ now.token \in {was.token, None}
          /\ now.runner \in {was.runner, None}
      <3>1. CASE \E s \in JobState : now = [was EXCEPT !.state = s]
        BY <1>2, <3>1 DEF Row
      <3>2. CASE \E s \in JobState : now = SetToErrorOrCancel(was, s)
        BY <1>2, <3>2 DEF SetToErrorOrCancel, Row
      <3>3. CASE now = ResetToPending(was)
        BY <1>2, <3>3, ResetType DEF ResetToPending, Row
      <3>4. CASE \/ now = ResetToPending(CountFailure(was))
                 \/ now = SetToErrorOrCancel(CountFailure(was), "ERRORED")
        <4> DEFINE failed == CountFailure(was)
        <4>1. failed \in Row
          BY <1>2, CountFailureType
        <4>2. failed.token = was.token /\ failed.runner = was.runner
          BY <1>2 DEF CountFailure, Row
        <4>3. now = ResetToPending(failed) \/ now = SetToErrorOrCancel(failed, "ERRORED")
          BY <3>4
        <4> HIDE DEF failed
        <4>4. now \in Row
          BY <4>1, <4>3, ResetType, SetToErrorOrCancelType DEF JobState
        <4>5. now.token = None /\ now.runner \in {failed.runner, None}
          BY <4>1, <4>3 DEF ResetToPending, SetToErrorOrCancel, Row
        <4>. QED
          BY <4>2, <4>4, <4>5
      <3>. QED
        BY <1>2, <3>1, <3>2, <3>3, <3>4
    <2>. QED
      BY <1>1, <1>2, <2>1
  <1>3. CASE SaveCompleting(q) \/ SaveCompletion(q)
    <2>1. PICK s \in JobState :
            job' = [job EXCEPT ![request[q].root] =
                      Save(job[request[q].root], request[q].inst[request[q].root],
                           [request[q].inst[request[q].root] EXCEPT !.state = s])]
      BY <1>3 DEF SaveCompleting, SaveCompletion, CompletionState, JobState
    <2>2. request[q].root \in Job /\ request[q].inst[request[q].root] \in Row
      BY <1>3, RequestHolds DEF SaveCompleting, SaveCompletion
    <2>. QED
      BY <1>2, <2>1, <2>2, Zenon
  <1>4. CASE AbortSave(q)
    <2>1. request[q].root \in Job /\ request[q].inst[request[q].root] \in Row
      BY <1>4, RequestHolds DEF AbortSave
    <2>. QED
      BY <1>2, <1>4, <2>1, Zenon DEF AbortSave
  <1>5. CASE ErrorSave(q)
    <2>1. request[q].root \in Job /\ request[q].inst[request[q].root] \in Row
      BY <1>5, RequestHolds DEF ErrorSave
    <2>. QED
      BY <1>2, <1>5, <2>1, Zenon DEF ErrorSave
  <1>6. CASE CancelSave(q)
    <2>1. PICK s \in JobState :
            job' = [job EXCEPT ![request[q].cur] =
                      Save(job[request[q].cur], request[q].inst[request[q].cur],
                           SetToErrorOrCancel(request[q].inst[request[q].cur], s))]
      BY <1>6 DEF CancelSave, JobState
    <2>2. request[q].cur \in Job /\ request[q].inst[request[q].cur] \in Row
      BY <1>6, RequestHolds DEF CancelSave
    <2>. QED
      BY <1>2, <2>1, <2>2, Zenon
  <1>7. ASSUME NEW k \in Job, ErrorChild(q, k)
        PROVE  /\ job'[j].token \in {job[j].token, None}
               /\ job'[j].runner \in {job[j].runner, None}
    <2>1. request[q].inst[k] \in Row
      BY <1>7, RequestHolds DEF ErrorChild
    <2>2. "PARENT_ERRORED" \in JobState
      BY DEF JobState
    <2>. QED
      BY <1>2, <1>7, <2>1, <2>2, Zenon DEF ErrorChild
  <1>8. CASE ReleaseChildren(q) \/ Destroy(q)
    BY <1>0, <1>8 DEF ReleaseChildren, Destroy, NoRow, Row
  <1>. QED
    BY <1>3, <1>4, <1>5, <1>6, <1>7, <1>8, Zenon DEF HandlerWritesJob

LEMMA NoStolenJobStep ==
    ASSUME TypeOK, [Next]_vars, NEW j \in Job,
           job[j].state = "PROCESSING", job'[j].state = "PROCESSING"
    PROVE  /\ job'[j].token \in {job[j].token, None}
           /\ job'[j].runner \in {job[j].runner, None}
  <1>0. RowsTyped /\ RequestsTyped /\ job \in [Job -> Row]
    BY DEF TypeOK, RowsTyped
  <1>1. ASSUME NEW r \in Runner, NEW i \in Job, AcceptRunnerJob(r, i)
        PROVE  job'[j] = job[j]
    <2>1. i # j
      BY <1>1 DEF AcceptRunnerJob, CanAccept
    <2>. QED
      BY <1>0, <1>1, <2>1 DEF AcceptRunnerJob
  <1>2. ASSUME NEW r \in Runner, DeleteRunner(r)
        PROVE  /\ job'[j].token = job[j].token
               /\ job'[j].runner \in {job[j].runner, None}
    BY <1>0, <1>2 DEF DeleteRunner, Row
  <1>3. ASSUME NEW i \in Job, AbortStalled(i)
        PROVE  /\ job'[j].token \in {job[j].token, None}
               /\ job'[j].runner \in {job[j].runner, None}
    <2>1. stalled[i] \in Row /\ ResetToPending(stalled[i]) \in Row
      BY <1>0, ResetType DEF RowsTyped
    <2>2. /\ ResetToPending(stalled[i]).token = None
          /\ ResetToPending(stalled[i]).runner = None
      BY <2>1 DEF ResetToPending, Row
    <2>3. job' = [job EXCEPT ![i] =
                    Save(job[i], stalled[i], ResetToPending(stalled[i]))]
      BY <1>3 DEF AbortStalled
    <2>. QED
      BY <1>0, <2>1, <2>2, <2>3, SaveColumns
  <1>4. ASSUME NEW b \in Builder, NEW i \in Job, CreateRunnerJob(b, i)
        PROVE  job'[j].token = job[j].token /\ job'[j].runner = job[j].runner
    BY <1>0, <1>4 DEF CreateRunnerJob, Row
  <1>. QED
    BY <1>0, <1>1, <1>2, <1>3, <1>4, WritesJob, HandlerKeepsRunner
    DEF JobWriters

\* Whatever instances the handlers save late, no step hands a job that is being
\* processed to another runner.
THEOREM NoJobIsStolen == Spec => NoStolenJob
  <1>1. TypeOK /\ [Next]_vars =>
          [\A j \in Job :
             job[j].state = "PROCESSING" /\ job'[j].state = "PROCESSING"
             => /\ job'[j].token \in {job[j].token, None}
                /\ job'[j].runner \in {job[j].runner, None}]_vars
    BY NoStolenJobStep
  <1>. QED
    BY <1>1, TypeInvariant, PTL DEF Spec, NoStolenJob
=============================================================================
