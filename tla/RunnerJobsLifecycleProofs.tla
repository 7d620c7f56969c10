---------------------- MODULE RunnerJobsLifecycleProofs ----------------------
(***************************************************************************)
(* Proofs about RunnerJobs when handlers of one job do not overlap: a job  *)
(* ends once, and the handlers implement JobLifecycle.                     *)
(***************************************************************************)
EXTENDS RunnerJobsLifecycle, RunnerJobsProofs, FiniteSetTheorems

-----------------------------------------------------------------------------
(* What holds between a handler and the rows of its family.                 *)

HeldPC == { "saveCompleting", "abortSave", "errorFail", "errorDecrease",
            "errorSave" }

EndingPC == { "attach", "decrease", "nextState", "saveCompleted" }

GiveUpPC == { "cancelDecrease", "cancelNext", "cancelSave" }

At(q) == request[q].pc # "idle"

Waits(k) == job[k].state \in { "NOT_CREATED", "WAITING_FOR_PARENT_JOB" }

\* The instance of a job a runner holds is the row, but perhaps the runner that
\* was deleted since.
Current(was, row) ==
    /\ row.state = "PROCESSING" /\ was.state = "PROCESSING"
    /\ was.failures = row.failures
    /\ row.runner \in {was.runner, None}

\* A child a handler loaded is as the handler loaded it.
Untouched(r, k) ==
    /\ job[k].state = "WAITING_FOR_PARENT_JOB"
    /\ r.inst[k].state = "WAITING_FOR_PARENT_JOB"

\* The row of the root is where the handler's program counter says it is.
RootOnCourse(r) ==
    LET j == r.root
    IN /\ r.pc \in HeldPC \cup EndingPC => r.cur = j
       /\ r.pc \in HeldPC => Current(r.inst[j], job[j])
       /\ r.pc = "errorDecrease" => Exhausted(r.inst[j])
       /\ r.pc \in EndingPC =>
            job[j].state = "COMPLETING" /\ r.inst[j].state = "COMPLETING"
       /\ r.pc = "release" => job[j].state = "COMPLETED"
       /\ r.pc \in {"errorList", "errorKids"} => job[j].state = "ERRORED"
       /\ r.pc \in {"cancelList", "cancelKids"} => job[j].state = "CANCELLED"
       /\ r.pc \in GiveUpPC /\ r.cur = j =>
            /\ Parent[j] = None
            /\ job[j].state \in Cancellable /\ r.inst[j].state \in Cancellable
       /\ r.pc \in GiveUpPC /\ r.cur # j => job[j].state = "CANCELLED"

\* The children are left to the handler that ends their parent.
KidsOnCourse(r) ==
    LET j == r.root
    IN /\ r.pc \in {"release", "errorList", "cancelList"} =>
            \A k \in Kids(j) : Waits(k)
       /\ r.pc \in GiveUpPC /\ r.cur = j => r.kids = {}
       /\ r.pc \in GiveUpPC /\ r.cur # j =>
            r.cur \in Kids(j) \ r.kids /\ Untouched(r, r.cur)
       /\ r.pc \in {"errorKids", "cancelKids"} \cup GiveUpPC =>
            \A k \in r.kids : k \in Kids(j) /\ Untouched(r, k)

\* No statement throws and nothing is deleted.
NeverFails(r) == r.pc \notin {"saveErrored", "destroy"} /\ ~r.destroy

OnCourse(r) == RootOnCourse(r) /\ KidsOnCourse(r) /\ NeverFails(r)

RequestsOnCourse == \A q \in Request : OnCourse(request[q])

Related(i, j) == i = j \/ Parent[i] = j \/ Parent[j] = i

\* One handler at a time in a family.
Apart ==
    \A p, q \in Request :
        At(p) /\ At(q) /\ p # q => ~Related(request[p].root, request[q].root)

\* A child is not there before its parent and waits until its parent ends.
FamilyInv ==
    \A j \in Job :
        /\ job[j].state # "DELETED"
        /\ \A k \in Kids(j) :
             /\ job[j].state = "NOT_CREATED" => job[k].state = "NOT_CREATED"
             /\ job[j].state \in Cancellable \cup {"COMPLETING"} => Waits(k)

\* The watchdog's instances are of jobs no handler is on.
StalledInv ==
    \A j \in Job : stalled[j] # NoRow("NOT_CREATED") =>
        /\ job[j].state = "PROCESSING" /\ stalled[j].state = "PROCESSING"
        /\ job[j].runner \in {stalled[j].runner, None}
        /\ \A q \in Request : At(q) => request[q].root # j

\* One build at a time, of new jobs.
BuildInv ==
    /\ \A b \in Builder : builder[b].pc = "idle" => builder[b].todo = {}
    /\ \A b, c \in Builder :
         builder[b].pc # "idle" /\ builder[c].pc # "idle" => b = c
    /\ \A b \in Builder, j \in Job :
         j \in builder[b].todo => job[j].state = "NOT_CREATED"

\* Inductive together with TypeOK.
OrderInv ==
    RequestsOnCourse /\ Apart /\ FamilyInv /\ StalledInv /\ BuildInv

-----------------------------------------------------------------------------
(* The steps that are left when handlers do not overlap.                    *)

OrderedNext ==
    \/ \E q \in Request : HandlerStep(q)
    \/ \E q \in Request, j \in Job :
         NewRequest(q, j) /\ ~Busy(j) /\ NoBuild /\ ~StartDelete(q, j)
    \/ \E r \in Runner, j \in Job : AcceptRunnerJob(r, j)
    \/ \E r \in Runner : DeleteRunner(r)
    \/ \E S \in SUBSET Job : ListStalledJobs(S)
    \/ \E j \in Job : AbortStalled(j)
    \/ \E b \in Builder : BuilderStep(b)
    \/ \E b \in Builder, m \in Job : CreateTranscoding(b, m)
    \/ MoveFiles \/ DoAfterLastMove \/ MoveFails

\* The steps that are left in these environments.
LEMMA OrderedStep ==
    ASSUME Env \subseteq OrderedTwice, [Next]_vars
    PROVE  OrderedNext \/ UNCHANGED vars
  <1>1. \A e \in { "overlap", "duringBuild", "cancelChild", "delete", "crash",
                   "completeFails", "handlerFails", "watchdogFails",
                   "builderFails", "force", "deleteVideo" } :
          e \notin Env
    BY DEF OrderedTwice, Ordered
  <1>2. /\ \A q \in Request : ~CompleteThrows(q) /\ ~HandlerFails(q)
        /\ ~WatchdogFails
        /\ \A b \in Builder : ~BuilderThrows(b)
        /\ \A q \in Request, j \in Job : ~StartDelete(q, j)
        /\ ~DeleteVideo /\ ~Restart
    BY <1>1 DEF CompleteThrows, HandlerFails, WatchdogFails, BuilderThrows,
                StartDelete, DeleteVideo, Restart
  <1>3. ASSUME NEW q \in Request, NEW j \in Job, NewRequest(q, j)
        PROVE  ~Busy(j) /\ NoBuild
    <2>1. PICK label, destroy : Start(q, label, j, destroy)
      BY <1>3 DEF NewRequest, StartComplete, StartAbort, StartError,
                  StartCancel, StartDelete
    <2>. QED
      BY <1>1, <2>1 DEF Start
  <1>. QED
    BY <1>2, <1>3, Zenon DEF Next, OrderedNext

-----------------------------------------------------------------------------
(* What a statement does to the rows.                                       *)

\* The row of j goes to s and nothing else changes but, perhaps, its token,
\* its runner and its failures.
Turns(j, s) ==
    /\ \A i \in Job : i # j => job'[i] = job[i]
    /\ job'[j].state = s

\* The runner and the failures of the row stay.
Keeps(j) ==
    job'[j].runner = job[j].runner /\ job'[j].failures = job[j].failures

\* A save of an instance writes the columns the instance changed.
LEMMA SaveExact ==
    ASSUME job \in [Job -> Row], NEW j \in Job, NEW was \in Row, NEW now \in Row,
           job[j].state \notin Absent,
           job' = [job EXCEPT ![j] = Save(job[j], was, now)]
    PROVE  /\ \A i \in Job : i # j => job'[i] = job[i]
           /\ job'[j].state = Merge(job[j].state, was.state, now.state)
           /\ job'[j].runner = Merge(job[j].runner, was.runner, now.runner)
           /\ job'[j].failures = Merge(job[j].failures, was.failures, now.failures)
  <1>1. job'[j] = Save(job[j], was, now)
    OBVIOUS
  <1>2. job'[j] = [ state    |-> Merge(job[j].state, was.state, now.state),
                    token    |-> Merge(job[j].token, was.token, now.token),
                    runner   |-> Merge(job[j].runner, was.runner, now.runner),
                    failures |-> Merge(job[j].failures, was.failures, now.failures) ]
    BY <1>1 DEF Save
  <1>. QED
    BY <1>2

\* The columns of the instances the handlers save.
LEMMA StateColumns ==
    ASSUME NEW was \in Row, NEW s \in JobState
    PROVE  LET now == [was EXCEPT !.state = s]
           IN /\ now \in Row /\ now.state = s /\ now.runner = was.runner
              /\ now.failures = was.failures
  BY DEF Row

\* What ending a job writes to an instance.
LEMMA EndColumns ==
    ASSUME NEW was \in Row, NEW s \in JobState
    PROVE  LET now == SetToErrorOrCancel(was, s)
           IN /\ now \in Row /\ now.state = s /\ now.runner = was.runner
              /\ now.failures = was.failures
  BY SetToErrorOrCancelType DEF Row, SetToErrorOrCancel

\* What giving a job back writes to an instance.
LEMMA ResetColumns ==
    ASSUME NEW was \in Row
    PROVE  LET now == ResetToPending(was)
           IN /\ now \in Row /\ now.state = "PENDING" /\ now.runner = None
              /\ now.failures = was.failures
  BY ResetType DEF Row, ResetToPending

\* What a failed attempt writes to an instance.
LEMMA FailureColumns ==
    ASSUME NEW was \in Row
    PROVE  LET now == CountFailure(was)
           IN /\ now \in Row /\ now.state = was.state /\ now.runner = was.runner
              /\ now.failures = was.failures + 1
  BY CountFailureType DEF Row, CountFailure

\* The runner's handlers work on the row as they loaded it.
LEMMA SaveCompletingEffect ==
    ASSUME RowsTyped, RequestsTyped, NEW q \in Request, OnCourse(request[q]),
           SaveCompleting(q)
    PROVE  LET j == request[q].root
           IN /\ j \in Job /\ job[j].state = "PROCESSING"
              /\ Turns(j, "COMPLETING") /\ Keeps(j)
  <1> DEFINE j == request[q].root
             was == request[q].inst[j]
             now == [was EXCEPT !.state = "COMPLETING"]
  <1>1. j \in Job /\ was \in Row /\ job \in [Job -> Row]
    BY RequestHolds DEF SaveCompleting, RowsTyped
  <1>2. Current(was, job[j])
    BY DEF SaveCompleting, OnCourse, RootOnCourse, HeldPC
  <1>3. job' = [job EXCEPT ![j] = Save(job[j], was, now)]
    BY DEF SaveCompleting
  <1> HIDE DEF j, was
  <1>4. /\ now \in Row /\ now.state = "COMPLETING"
        /\ now.runner = was.runner /\ now.failures = was.failures
    BY <1>1, StateColumns DEF JobState
  <1> HIDE DEF now
  <1>5. /\ \A i \in Job : i # j => job'[i] = job[i]
        /\ job'[j].state = Merge(job[j].state, was.state, now.state)
        /\ job'[j].runner = Merge(job[j].runner, was.runner, now.runner)
        /\ job'[j].failures = Merge(job[j].failures, was.failures, now.failures)
    BY <1>1, <1>2, <1>3, <1>4, SaveExact DEF Current, Absent
  <1>6. j \in Job /\ job[j].state = "PROCESSING" /\ Turns(j, "COMPLETING") /\ Keeps(j)
    BY <1>1, <1>2, <1>4, <1>5 DEF Current, Merge, Turns, Keeps
  <1>. QED
    BY <1>6 DEF j

\* The save that completes the root of a request.
LEMMA SaveCompletionEffect ==
    ASSUME RowsTyped, RequestsTyped, NEW q \in Request, OnCourse(request[q]),
           SaveCompletion(q)
    PROVE  LET j == request[q].root
           IN /\ j \in Job /\ request[q].pc = "saveCompleted"
              /\ job[j].state = "COMPLETING"
              /\ Turns(j, "COMPLETED") /\ Keeps(j)
  <1> DEFINE j == request[q].root
             was == request[q].inst[j]
             now == [was EXCEPT !.state = "COMPLETED"]
  <1>1. j \in Job /\ was \in Row /\ job \in [Job -> Row]
    BY RequestHolds DEF SaveCompletion, RowsTyped
  <1>2. request[q].pc = "saveCompleted"
    BY DEF SaveCompletion, OnCourse, NeverFails
  <1>3. job[j].state = "COMPLETING" /\ was.state = "COMPLETING"
    BY <1>2 DEF OnCourse, RootOnCourse, EndingPC
  <1>4. job' = [job EXCEPT ![j] = Save(job[j], was, now)]
    BY <1>2 DEF SaveCompletion, CompletionState
  <1> HIDE DEF j, was
  <1>5. /\ now \in Row /\ now.state = "COMPLETED"
        /\ now.runner = was.runner /\ now.failures = was.failures
    BY <1>1, StateColumns DEF JobState
  <1> HIDE DEF now
  <1>6. /\ \A i \in Job : i # j => job'[i] = job[i]
        /\ job'[j].state = Merge(job[j].state, was.state, now.state)
        /\ job'[j].runner = Merge(job[j].runner, was.runner, now.runner)
        /\ job'[j].failures = Merge(job[j].failures, was.failures, now.failures)
    BY <1>1, <1>3, <1>4, <1>5, SaveExact DEF Absent
  <1>7. Turns(j, "COMPLETED") /\ Keeps(j)
    BY <1>1, <1>3, <1>5, <1>6 DEF Merge, Turns, Keeps
  <1>. QED
    BY <1>1, <1>2, <1>3, <1>7 DEF j

\* The save that gives the root back.
LEMMA AbortSaveEffect ==
    ASSUME RowsTyped, RequestsTyped, NEW q \in Request, OnCourse(request[q]),
           AbortSave(q)
    PROVE  LET j == request[q].root
           IN /\ j \in Job /\ job[j].state = "PROCESSING" /\ Turns(j, "PENDING")
              /\ job'[j].runner = None /\ job'[j].failures = job[j].failures
  <1> DEFINE j == request[q].root
             was == request[q].inst[j]
             now == ResetToPending(was)
  <1>1. j \in Job /\ was \in Row /\ job \in [Job -> Row]
    BY RequestHolds DEF AbortSave, RowsTyped
  <1>2. Current(was, job[j])
    BY DEF AbortSave, OnCourse, RootOnCourse, HeldPC
  <1>3. job' = [job EXCEPT ![j] = Save(job[j], was, now)]
    BY DEF AbortSave
  <1> HIDE DEF j, was
  <1>4. /\ now \in Row /\ now.state = "PENDING"
        /\ now.runner = None /\ now.failures = was.failures
    BY <1>1, ResetColumns
  <1> HIDE DEF now
  <1>5. /\ \A i \in Job : i # j => job'[i] = job[i]
        /\ job'[j].state = Merge(job[j].state, was.state, now.state)
        /\ job'[j].runner = Merge(job[j].runner, was.runner, now.runner)
        /\ job'[j].failures = Merge(job[j].failures, was.failures, now.failures)
    BY <1>1, <1>2, <1>3, <1>4, SaveExact DEF Current, Absent
  <1>6. /\ job[j].state = "PROCESSING" /\ Turns(j, "PENDING")
        /\ job'[j].runner = None /\ job'[j].failures = job[j].failures
    BY <1>1, <1>2, <1>4, <1>5 DEF Current, Merge, Turns
  <1>. QED
    BY <1>1, <1>6 DEF j

\* The watchdog gives a job back as its runner does.
LEMMA AbortStalledEffect ==
    ASSUME RowsTyped, NEW j \in Job, StalledInv, AbortStalled(j)
    PROVE  /\ job[j].state = "PROCESSING" /\ Turns(j, "PENDING")
           /\ job'[j].runner = None /\ job'[j].failures = job[j].failures
           /\ \A q \in Request : At(q) => request[q].root # j
  <1> DEFINE was == stalled[j]
             now == ResetToPending(was)
  <1>1. was \in Row /\ job \in [Job -> Row]
    BY DEF RowsTyped
  <1>2. /\ job[j].state = "PROCESSING" /\ was.state = "PROCESSING"
        /\ job[j].runner \in {was.runner, None}
        /\ \A q \in Request : At(q) => request[q].root # j
    BY DEF AbortStalled, StalledInv
  <1>3. job' = [job EXCEPT ![j] = Save(job[j], was, now)]
    BY DEF AbortStalled
  <1> HIDE DEF was
  <1>4. /\ now \in Row /\ now.state = "PENDING"
        /\ now.runner = None /\ now.failures = was.failures
    BY <1>1, ResetColumns
  <1> HIDE DEF now
  <1>5. /\ \A i \in Job : i # j => job'[i] = job[i]
        /\ job'[j].state = Merge(job[j].state, was.state, now.state)
        /\ job'[j].runner = Merge(job[j].runner, was.runner, now.runner)
        /\ job'[j].failures = Merge(job[j].failures, was.failures, now.failures)
    BY <1>1, <1>2, <1>3, <1>4, SaveExact DEF Absent
  <1>. QED
    BY <1>2, <1>4, <1>5 DEF Merge, Turns

\* An error counts one attempt more: the job is offered again or, after the
\* last attempt, errored.
LEMMA ErrorSaveEffect ==
    ASSUME RowsTyped, RequestsTyped, NEW q \in Request, OnCourse(request[q]),
           ErrorSave(q)
    PROVE  LET j == request[q].root
           IN /\ j \in Job /\ job[j].state = "PROCESSING"
              /\ Exhausted(request[q].inst[j]) <=> job[j].failures + 1 >= MaxFailures
              /\ job'[j].failures = job[j].failures + 1
              /\ IF Exhausted(request[q].inst[j])
                 THEN Turns(j, "ERRORED") /\ job'[j].runner = job[j].runner
                 ELSE Turns(j, "PENDING") /\ job'[j].runner = None
  <1> DEFINE j == request[q].root
             was == request[q].inst[j]
             failed == CountFailure(was)
  <1>1. j \in Job /\ was \in Row /\ job \in [Job -> Row]
    BY RequestHolds DEF ErrorSave, RowsTyped
  <1>2. Current(was, job[j])
    BY DEF ErrorSave, OnCourse, RootOnCourse, HeldPC
  <1>3. /\ Exhausted(was) => job' = [job EXCEPT ![j] =
             Save(job[j], was, SetToErrorOrCancel(failed, "ERRORED"))]
        /\ ~Exhausted(was) => job' = [job EXCEPT ![j] =
             Save(job[j], was, ResetToPending(failed))]
    BY DEF ErrorSave
  <1> HIDE DEF j, was
  <1>4. /\ failed \in Row /\ failed.runner = was.runner
        /\ failed.failures = was.failures + 1
    BY <1>1, FailureColumns
  <1>5. was.failures \in Nat /\ job[j].failures \in Nat
    BY <1>1 DEF Row
  <1> HIDE DEF failed
  <1>6. Exhausted(was) <=> job[j].failures + 1 >= MaxFailures
    BY <1>2 DEF Exhausted, Current
  <1>7. CASE Exhausted(was)
    <2> DEFINE now == SetToErrorOrCancel(failed, "ERRORED")
    <2>1. /\ now \in Row /\ now.state = "ERRORED" /\ now.runner = was.runner
          /\ now.failures = was.failures + 1
      BY <1>4, EndColumns DEF JobState
    <2>2. job' = [job EXCEPT ![j] = Save(job[j], was, now)]
      BY <1>3, <1>7
    <2> HIDE DEF now
    <2>3. /\ \A i \in Job : i # j => job'[i] = job[i]
          /\ job'[j].state = Merge(job[j].state, was.state, now.state)
          /\ job'[j].runner = Merge(job[j].runner, was.runner, now.runner)
          /\ job'[j].failures = Merge(job[j].failures, was.failures, now.failures)
      BY <1>1, <1>2, <2>1, <2>2, SaveExact DEF Current, Absent
    <2>4. /\ job'[j].failures = job[j].failures + 1
          /\ Turns(j, "ERRORED") /\ job'[j].runner = job[j].runner
      BY <1>2, <1>5, <2>1, <2>3 DEF Current, Merge, Turns
    <2>. QED
      BY <1>1, <1>2, <1>6, <1>7, <2>4 DEF Current, j, was
  <1>8. CASE ~Exhausted(was)
    <2> DEFINE now == ResetToPending(failed)
    <2>1. /\ now \in Row /\ now.state = "PENDING" /\ now.runner = None
          /\ now.failures = was.failures + 1
      BY <1>4, ResetColumns
    <2>2. job' = [job EXCEPT ![j] = Save(job[j], was, now)]
      BY <1>3, <1>8
    <2> HIDE DEF now
    <2>3. /\ \A i \in Job : i # j => job'[i] = job[i]
          /\ job'[j].state = Merge(job[j].state, was.state, now.state)
          /\ job'[j].runner = Merge(job[j].runner, was.runner, now.runner)
          /\ job'[j].failures = Merge(job[j].failures, was.failures, now.failures)
      BY <1>1, <1>2, <2>1, <2>2, SaveExact DEF Current, Absent
    <2>4. /\ job'[j].failures = job[j].failures + 1
          /\ Turns(j, "PENDING") /\ job'[j].runner = None
      BY <1>2, <1>5, <2>1, <2>3 DEF Current, Merge, Turns
    <2>. QED
      BY <1>1, <1>2, <1>6, <1>8, <2>4 DEF Current, j, was
  <1>. QED
    BY <1>7, <1>8

\* A job that is cancelled could still be, and a child that ends with its
\* parent was still waiting.
LEMMA CancelSaveEffect ==
    ASSUME RowsTyped, RequestsTyped, NEW q \in Request, OnCourse(request[q]),
           CancelSave(q)
    PROVE  LET r == request[q]
           IN /\ r.cur \in Job /\ job[r.cur].state \in Cancellable /\ Keeps(r.cur)
              /\ \/ /\ r.cur = r.root /\ Parent[r.root] = None
                    /\ Turns(r.cur, "CANCELLED")
                 \/ /\ r.cur # r.root /\ Parent[r.cur] = r.root
                    /\ job[r.root].state = "CANCELLED"
                    /\ job[r.cur].state = "WAITING_FOR_PARENT_JOB"
                    /\ Turns(r.cur, "PARENT_CANCELLED")
  <1> DEFINE r == request[q]
             j == r.cur
             was == r.inst[j]
             s == IF j = r.root THEN "CANCELLED" ELSE "PARENT_CANCELLED"
             now == SetToErrorOrCancel(was, s)
  <1>1. j \in Job /\ was \in Row /\ job \in [Job -> Row] /\ r.root \in Job
    BY RequestHolds DEF CancelSave, RowsTyped
  <1>2. /\ job[j].state \in Cancellable /\ was.state \in Cancellable
        /\ \/ j = r.root /\ Parent[r.root] = None
           \/ /\ j # r.root /\ Parent[j] = r.root
              /\ job[r.root].state = "CANCELLED"
              /\ job[j].state = "WAITING_FOR_PARENT_JOB"
    <2>1. r.pc \in GiveUpPC
      BY DEF CancelSave, GiveUpPC
    <2>2. CASE j = r.root
      BY <2>1, <2>2 DEF OnCourse, RootOnCourse
    <2>3. CASE j # r.root
      BY <2>1, <2>3 DEF OnCourse, RootOnCourse, KidsOnCourse, Kids, Untouched,
                        Cancellable
    <2>. QED
      BY <2>2, <2>3
  <1>3. job' = [job EXCEPT ![j] = Save(job[j], was, now)]
    BY DEF CancelSave
  <1> HIDE DEF r, j, was
  <1>4. s \in JobState /\ s \notin Cancellable
    BY DEF JobState, Cancellable
  <1>5. /\ now \in Row /\ now.state = s
        /\ now.runner = was.runner /\ now.failures = was.failures
    <2> HIDE DEF s
    <2>. QED
      BY <1>1, <1>4, EndColumns
  <1> HIDE DEF now
  <1>6. /\ \A i \in Job : i # j => job'[i] = job[i]
        /\ job'[j].state = Merge(job[j].state, was.state, now.state)
        /\ job'[j].runner = Merge(job[j].runner, was.runner, now.runner)
        /\ job'[j].failures = Merge(job[j].failures, was.failures, now.failures)
    BY <1>1, <1>2, <1>3, <1>5, SaveExact DEF Absent, Cancellable
  <1>7. Keeps(j) /\ Turns(j, s)
    BY <1>2, <1>4, <1>5, <1>6 DEF Merge, Turns, Keeps
  <1>8. Turns(j, IF j = r.root THEN "CANCELLED" ELSE "PARENT_CANCELLED")
    BY <1>7
  <1>. QED
    BY <1>1, <1>2, <1>7, <1>8 DEF r, j

\* The save that ends a child of a job in error.
LEMMA ErrorChildEffect ==
    ASSUME RowsTyped, RequestsTyped, NEW q \in Request, OnCourse(request[q]),
           NEW k \in Job, ErrorChild(q, k)
    PROVE  LET r == request[q]
           IN /\ Parent[k] = r.root /\ job[r.root].state = "ERRORED"
              /\ job[k].state = "WAITING_FOR_PARENT_JOB"
              /\ Turns(k, "PARENT_ERRORED") /\ Keeps(k)
  <1> DEFINE r == request[q]
             was == r.inst[k]
             now == SetToErrorOrCancel(was, "PARENT_ERRORED")
  <1>1. was \in Row /\ job \in [Job -> Row] /\ r.root \in Job
    BY RequestHolds DEF ErrorChild, RowsTyped
  <1>2. /\ Parent[k] = r.root /\ job[r.root].state = "ERRORED"
        /\ job[k].state = "WAITING_FOR_PARENT_JOB"
        /\ was.state = "WAITING_FOR_PARENT_JOB"
    BY DEF ErrorChild, OnCourse, RootOnCourse, KidsOnCourse, Kids, Untouched
  <1>3. job' = [job EXCEPT ![k] = Save(job[k], was, now)]
    BY DEF ErrorChild
  <1> HIDE DEF r, was
  <1>4. /\ now \in Row /\ now.state = "PARENT_ERRORED"
        /\ now.runner = was.runner /\ now.failures = was.failures
    BY <1>1, EndColumns DEF JobState
  <1> HIDE DEF now
  <1>5. /\ \A i \in Job : i # k => job'[i] = job[i]
        /\ job'[k].state = Merge(job[k].state, was.state, now.state)
        /\ job'[k].runner = Merge(job[k].runner, was.runner, now.runner)
        /\ job'[k].failures = Merge(job[k].failures, was.failures, now.failures)
    BY <1>1, <1>2, <1>3, <1>4, SaveExact DEF Absent
  <1>6. Turns(k, "PARENT_ERRORED") /\ Keeps(k)
    BY <1>2, <1>4, <1>5 DEF Merge, Turns, Keeps
  <1>. QED
    BY <1>2, <1>6 DEF r

\* The children that are released all wait.
LEMMA ReleaseEffect ==
    ASSUME RowsTyped, RequestsTyped, NEW q \in Request, OnCourse(request[q]),
           ReleaseChildren(q)
    PROVE  LET j == request[q].root
           IN /\ j \in Job /\ job[j].state = "COMPLETED"
              /\ \A i \in Job :
                   IF Parent[i] = j /\ job[i].state # "NOT_CREATED"
                   THEN /\ job[i].state = "WAITING_FOR_PARENT_JOB"
                        /\ job'[i].state = "PENDING" /\ Keeps(i)
                   ELSE job'[i] = job[i]
  <1> DEFINE j == request[q].root
  <1>1. j \in Job /\ job \in [Job -> Row]
    BY RequestHolds DEF ReleaseChildren, RowsTyped
  <1>2. job[j].state = "COMPLETED" /\ \A k \in Kids(j) : Waits(k)
    BY DEF ReleaseChildren, OnCourse, RootOnCourse, KidsOnCourse
  <1>3. \A i \in Job : job'[i] = IF i \in ChildrenOf(j)
                                THEN [job[i] EXCEPT !.state = "PENDING"]
                                ELSE job[i]
    BY DEF ReleaseChildren
  <1>4. ASSUME NEW i \in Job
        PROVE  i \in ChildrenOf(j) <=>
                 Parent[i] = j /\ job[i].state # "NOT_CREATED"
    BY <1>2 DEF ChildrenOf, Kids, Exists, Absent, Waits
  <1>5. ASSUME NEW i \in Job, Parent[i] = j /\ job[i].state # "NOT_CREATED"
        PROVE  job[i].state = "WAITING_FOR_PARENT_JOB"
    BY <1>2, <1>5 DEF Kids, Waits
  <1>6. ASSUME NEW i \in Job
        PROVE  LET new == [job[i] EXCEPT !.state = "PENDING"]
               IN /\ new.state = "PENDING" /\ new.runner = job[i].runner
                  /\ new.failures = job[i].failures
    BY <1>1 DEF Row
  <1> HIDE DEF j
  <1>7. ASSUME NEW i \in Job
        PROVE  IF Parent[i] = j /\ job[i].state # "NOT_CREATED"
               THEN /\ job[i].state = "WAITING_FOR_PARENT_JOB"
                    /\ job'[i].state = "PENDING" /\ Keeps(i)
               ELSE job'[i] = job[i]
    <2>1. CASE Parent[i] = j /\ job[i].state # "NOT_CREATED"
      <3>1. job'[i] = [job[i] EXCEPT !.state = "PENDING"]
        BY <1>3, <1>4, <2>1
      <3>2. job'[i].state = "PENDING" /\ Keeps(i)
        BY <1>6, <3>1 DEF Keeps
      <3>. QED
        BY <1>5, <2>1, <3>2
    <2>2. CASE ~(Parent[i] = j /\ job[i].state # "NOT_CREATED")
      BY <1>3, <1>4, <2>2
    <2>. QED
      BY <2>1, <2>2
  <1>. QED
    BY <1>1, <1>2, <1>7 DEF j

\* An acceptance hands a pending job to a runner.
LEMMA AcceptEffect ==
    ASSUME RowsTyped, NEW r \in Runner, NEW j \in Job, AcceptRunnerJob(r, j)
    PROVE  /\ job[j].state = "PENDING" /\ Turns(j, "PROCESSING")
           /\ job'[j].runner = r /\ job'[j].failures = job[j].failures
  <1>1. PICK fresh \in Token : job' = [job EXCEPT ![j].state = "PROCESSING",
                                                   ![j].token = fresh,
                                                   ![j].runner = r]
    BY DEF AcceptRunnerJob
  <1>2. job \in [Job -> Row]
    BY DEF RowsTyped
  <1>. QED
    BY <1>1, <1>2 DEF AcceptRunnerJob, CanAccept, Turns, Row

\* A deletion takes the runner off its rows and nothing else.
LEMMA DeleteRunnerEffect ==
    ASSUME RowsTyped, NEW r \in Runner, DeleteRunner(r), NEW j \in Job
    PROVE  /\ job'[j].state = job[j].state /\ job'[j].failures = job[j].failures
           /\ job'[j].runner = IF job[j].runner = r THEN None ELSE job[j].runner
  BY DEF RowsTyped, DeleteRunner, Row

\* A builder's row appears in its first state, after its parent's.
LEMMA CreateEffect ==
    ASSUME RowsTyped, BuildInv, FamilyInv, NEW b \in Builder, NEW j \in Job,
           CreateRunnerJob(b, j), TreeAssumption
    PROVE  \/ job' = job
           \/ /\ job[j].state = "NOT_CREATED" /\ Turns(j, InitialState(j))
              /\ Keeps(j)
              /\ Parent[j] # None =>
                   Parent[j] \in Job /\ job[Parent[j]].state # "NOT_CREATED"
  <1>1. job \in [Job -> Row]
    BY DEF RowsTyped
  <1>2. job[j].state = "NOT_CREATED"
    BY DEF CreateRunnerJob, BuildInv
  <1>3. CASE Parent[j] = None \/ Exists(Parent[j])
    <2>1. job' = [job EXCEPT ![j].state = InitialState(j)]
      BY <1>3 DEF CreateRunnerJob
    <2>2. Turns(j, InitialState(j)) /\ Keeps(j)
      BY <1>1, <2>1 DEF Turns, Keeps, Row
    <2>3. Parent[j] # None => Parent[j] \in Job
      BY DEF TreeAssumption
    <2>. QED
      BY <1>2, <1>3, <2>2, <2>3 DEF Exists, Absent
  <1>4. CASE ~(Parent[j] = None \/ Exists(Parent[j]))
    BY <1>4 DEF CreateRunnerJob
  <1>. QED
    BY <1>3, <1>4

-----------------------------------------------------------------------------
(* How the state of a job moves, whoever moves it.                          *)

\* A child's state moves away from waiting once its parent's moved.
FollowsParent(k) ==
    /\ job[k].state = "WAITING_FOR_PARENT_JOB" /\ Parent[k] \in Job
    /\ \/ job[Parent[k]].state = "COMPLETED" /\ job'[k].state = "PENDING"
       \/ /\ job[Parent[k]].state = "CANCELLED"
          /\ job'[k].state = "PARENT_CANCELLED"
       \/ /\ job[Parent[k]].state = "ERRORED"
          /\ job'[k].state = "PARENT_ERRORED"

StateMoves(j) ==
    \/ job'[j].state = job[j].state
    \/ /\ job[j].state = "NOT_CREATED" /\ job'[j].state = InitialState(j)
       /\ Parent[j] # None => job[Parent[j]].state # "NOT_CREATED"
    \/ job[j].state = "PENDING" /\ job'[j].state = "PROCESSING"
    \/ /\ job[j].state = "PROCESSING"
       /\ job'[j].state \in {"PENDING", "COMPLETING", "ERRORED"}
    \/ job[j].state = "COMPLETING" /\ job'[j].state = "COMPLETED"
    \/ /\ job[j].state \in Cancellable /\ job'[j].state = "CANCELLED"
       /\ Parent[j] = None
    \/ FollowsParent(j)

\* A handler writes the row of its root and those of waiting children.
LEMMA HandlerMoves ==
    ASSUME RowsTyped, RequestsTyped, NEW q \in Request, OnCourse(request[q]),
           HandlerWritesJob(q), NEW j \in Job
    PROVE  /\ StateMoves(j)
           /\ \/ job'[j] = job[j]
              \/ j = request[q].root /\ job[j].state # "NOT_CREATED"
              \/ /\ Parent[j] = request[q].root
                 /\ job[j].state = "WAITING_FOR_PARENT_JOB"
  <1> DEFINE Local == \/ job'[j] = job[j]
                      \/ j = request[q].root /\ job[j].state # "NOT_CREATED"
                      \/ /\ Parent[j] = request[q].root
                         /\ job[j].state = "WAITING_FOR_PARENT_JOB"
  <1>0. ~Destroy(q)
    BY DEF Destroy, OnCourse, NeverFails
  <1>1. CASE SaveCompleting(q)
    BY <1>1, SaveCompletingEffect DEF StateMoves, Turns
  <1>2. CASE SaveCompletion(q)
    BY <1>2, SaveCompletionEffect DEF StateMoves, Turns
  <1>3. CASE ReleaseChildren(q)
    BY <1>3, ReleaseEffect DEF FollowsParent, StateMoves
  <1>4. CASE AbortSave(q)
    BY <1>4, AbortSaveEffect DEF StateMoves, Turns
  <1>5. CASE ErrorSave(q)
    BY <1>5, ErrorSaveEffect DEF StateMoves, Turns
  <1>6. CASE CancelSave(q)
    BY <1>6, CancelSaveEffect, RequestHolds
    DEF FollowsParent, CancelSave, StateMoves, Turns, Cancellable
  <1>7. ASSUME NEW k \in Job, ErrorChild(q, k) PROVE StateMoves(j) /\ Local
    <2>1. /\ Parent[k] = request[q].root
          /\ job[request[q].root].state = "ERRORED"
          /\ job[k].state = "WAITING_FOR_PARENT_JOB"
          /\ \A i \in Job : i # k => job'[i] = job[i]
          /\ job'[k].state = "PARENT_ERRORED"
      BY <1>7, ErrorChildEffect DEF Turns
    <2>2. request[q].root \in Job
      BY <1>7, RequestHolds DEF ErrorChild
    <2>. QED
      BY <2>1, <2>2 DEF FollowsParent, StateMoves
  <1>. QED
    BY <1>0, <1>1, <1>2, <1>3, <1>4, <1>5, <1>6, <1>7, Zenon DEF HandlerWritesJob

\* Every step moves the rows along the states' order, children behind parents.
LEMMA AllMove ==
    ASSUME TypeOK, OrderInv, TreeAssumption, [Next]_vars, NEW j \in Job
    PROVE  StateMoves(j)
  <1>0. RowsTyped /\ RequestsTyped
    BY DEF TypeOK
  <1>1. ASSUME NEW q \in Request, HandlerWritesJob(q) PROVE StateMoves(j)
    BY <1>0, <1>1, HandlerMoves DEF OrderInv, RequestsOnCourse
  <1>2. ASSUME NEW r \in Runner, NEW i \in Job, AcceptRunnerJob(r, i)
        PROVE  StateMoves(j)
    BY <1>0, <1>2, AcceptEffect DEF StateMoves, Turns
  <1>3. ASSUME NEW r \in Runner, DeleteRunner(r) PROVE StateMoves(j)
    BY <1>0, <1>3, DeleteRunnerEffect DEF StateMoves
  <1>4. ASSUME NEW i \in Job, AbortStalled(i) PROVE StateMoves(j)
    BY <1>0, <1>4, AbortStalledEffect DEF OrderInv, StateMoves, Turns
  <1>5. ASSUME NEW b \in Builder, NEW i \in Job, CreateRunnerJob(b, i)
        PROVE  StateMoves(j)
    BY <1>0, <1>5, CreateEffect DEF OrderInv, StateMoves, Turns
  <1>6. CASE UNCHANGED job
    BY <1>6 DEF StateMoves
  <1>. QED
    BY <1>1, <1>2, <1>3, <1>4, <1>5, <1>6, WritesJob DEF JobWriters

\* Children wait until their parent ended.
LEMMA FamilyStep ==
    ASSUME TypeOK, OrderInv, TreeAssumption, [Next]_vars
    PROVE  FamilyInv'
  <1> SUFFICES ASSUME NEW j \in Job
               PROVE  /\ job'[j].state # "DELETED"
                      /\ \A k \in Kids(j) :
                           /\ job'[j].state = "NOT_CREATED"
                                => job'[k].state = "NOT_CREATED"
                           /\ job'[j].state \in Cancellable \cup {"COMPLETING"}
                                => Waits(k)'
    BY DEF FamilyInv, Kids
  <1>1. StateMoves(j)
    BY AllMove
  <1>2. /\ job[j].state # "DELETED"
        /\ \A k \in Kids(j) :
             /\ job[j].state = "NOT_CREATED" => job[k].state = "NOT_CREATED"
             /\ job[j].state \in Cancellable \cup {"COMPLETING"} => Waits(k)
    BY DEF OrderInv, FamilyInv
  <1>3. job'[j].state # "DELETED"
    BY <1>1, <1>2 DEF StateMoves, FollowsParent, InitialState
  <1>4. ASSUME NEW k \in Kids(j)
        PROVE  /\ k \in Job /\ Parent[k] = j /\ Parent[k] # None
               /\ StateMoves(k) /\ InitialState(k) = "WAITING_FOR_PARENT_JOB"
    BY AllMove DEF Kids, TreeAssumption, InitialState
  <1>5. ASSUME NEW k \in Kids(j), job'[j].state = "NOT_CREATED"
        PROVE  job'[k].state = "NOT_CREATED"
    <2>1. job[j].state = "NOT_CREATED"
      BY <1>1, <1>5 DEF StateMoves, FollowsParent, InitialState
    <2>. QED
      BY <1>2, <1>4, <2>1 DEF StateMoves, FollowsParent, Cancellable
  <1>6. ASSUME NEW k \in Kids(j),
               job'[j].state \in Cancellable \cup {"COMPLETING"}
        PROVE  Waits(k)'
    <2>1. \/ job[j].state = "NOT_CREATED"
          \/ job[j].state \in Cancellable \cup {"COMPLETING"}
      BY <1>1, <1>6 DEF StateMoves, FollowsParent, InitialState, Cancellable
    <2>2. Waits(k)
      BY <1>2, <2>1 DEF Waits
    <2>. QED
      BY <1>4, <2>1, <2>2 DEF StateMoves, FollowsParent, Cancellable, Waits
  <1>. QED
    BY <1>3, <1>5, <1>6

-----------------------------------------------------------------------------
(* A handler stays on course while others work.                             *)

\* What others may do to a row of a handler's family.
RowStable(i) ==
    \/ /\ job'[i].state = job[i].state /\ job'[i].failures = job[i].failures
       /\ job'[i].runner \in {job[i].runner, None}
    \/ job[i].state = "PENDING" /\ job'[i].state = "PROCESSING"
    \/ job[i].state = "NOT_CREATED" /\ job'[i].state = InitialState(i)

FamilyStable(j) ==
    RowStable(j) /\ \A k \in Kids(j) : Waits(k) => RowStable(k)

\* A child that waits goes on waiting, unless its own family's handler moves it.
LEMMA KidStable ==
    ASSUME TreeAssumption, NEW j \in Job, NEW k \in Kids(j), RowStable(k)
    PROVE  /\ job[k].state = "WAITING_FOR_PARENT_JOB"
                => job'[k].state = "WAITING_FOR_PARENT_JOB"
           /\ Waits(k) => Waits(k)'
  <1>1. InitialState(k) = "WAITING_FOR_PARENT_JOB"
    BY DEF Kids, TreeAssumption, InitialState
  <1>. QED
    BY <1>1 DEF RowStable, Waits

\* A handler stays on course while other families move.
LEMMA OtherOnCourse ==
    ASSUME RequestsTyped, TreeAssumption, NEW q \in Request,
           OnCourse(request[q]), request'[q] = request[q],
           At(q) => FamilyStable(request[q].root)
    PROVE  OnCourse(request[q])'
  <1>1. CASE ~At(q)
    BY <1>1 DEF At, OnCourse, RootOnCourse, KidsOnCourse, NeverFails, HeldPC,
                EndingPC, GiveUpPC
  <1>2. CASE At(q)
    <2> DEFINE r == request[q]
               j == r.root
    <2>0. j \in Job /\ r.cur \in Job /\ r.kids \subseteq Job
      BY <1>2, RequestHolds DEF At
    <2>1. RowStable(j) /\ \A k \in Kids(j) : Waits(k) => RowStable(k)
      BY <1>2 DEF FamilyStable
    <2>2. RootOnCourse(r)
      BY DEF OnCourse
    <2>3. KidsOnCourse(r)
      BY DEF OnCourse
    <2>4. ASSUME NEW k \in Kids(j), job[k].state = "WAITING_FOR_PARENT_JOB"
          PROVE  job'[k].state = "WAITING_FOR_PARENT_JOB"
      BY <2>0, <2>1, <2>4, KidStable DEF Waits
    <2>5. ASSUME NEW k \in Kids(j), Waits(k) PROVE Waits(k)'
      BY <2>0, <2>1, <2>5, KidStable
    <2>6. RootOnCourse(request[q])'
      <3>1. r.pc \in HeldPC => Current(r.inst[j], job'[j])
        BY <2>1, <2>2 DEF RootOnCourse, RowStable, Current
      <3>2. /\ r.pc \in EndingPC =>
                 job'[j].state = "COMPLETING" /\ r.inst[j].state = "COMPLETING"
            /\ r.pc = "release" => job'[j].state = "COMPLETED"
            /\ r.pc \in {"errorList", "errorKids"} => job'[j].state = "ERRORED"
            /\ r.pc \in {"cancelList", "cancelKids"} =>
                 job'[j].state = "CANCELLED"
            /\ r.pc \in GiveUpPC /\ r.cur # j => job'[j].state = "CANCELLED"
            /\ r.pc \in HeldPC \cup EndingPC => r.cur = j
            /\ r.pc = "errorDecrease" => Exhausted(r.inst[j])
        BY <2>1, <2>2 DEF RootOnCourse, RowStable
      <3>3. r.pc \in GiveUpPC /\ r.cur = j =>
              /\ Parent[j] = None /\ job'[j].state \in Cancellable
              /\ r.inst[j].state \in Cancellable
        BY <2>1, <2>2 DEF RootOnCourse, RowStable, Cancellable
      <3> HIDE DEF r, j
      <3>4. request'[q] = r /\ request'[q].root = j
        BY DEF r, j
      <3>. QED
        BY <3>1, <3>2, <3>3, <3>4 DEF RootOnCourse
    <2>7. KidsOnCourse(request[q])'
      <3>1. r.pc \in {"release", "errorList", "cancelList"} =>
              \A k \in Kids(j) : Waits(k)'
        BY <2>3, <2>5 DEF KidsOnCourse
      <3>2. r.pc \in GiveUpPC /\ r.cur = j => r.kids = {}
        BY <2>3 DEF KidsOnCourse
      <3>3. r.pc \in GiveUpPC /\ r.cur # j =>
              /\ r.cur \in Kids(j) \ r.kids
              /\ job'[r.cur].state = "WAITING_FOR_PARENT_JOB"
              /\ r.inst[r.cur].state = "WAITING_FOR_PARENT_JOB"
        BY <2>3, <2>4 DEF KidsOnCourse, Untouched
      <3>4. r.pc \in {"errorKids", "cancelKids"} \cup GiveUpPC =>
              \A k \in r.kids :
                /\ k \in Kids(j)
                /\ job'[k].state = "WAITING_FOR_PARENT_JOB"
                /\ r.inst[k].state = "WAITING_FOR_PARENT_JOB"
        BY <2>3, <2>4 DEF KidsOnCourse, Untouched
      <3> HIDE DEF r, j
      <3>5. request'[q] = r /\ request'[q].root = j
        BY DEF r, j
      <3>. QED
        BY <3>1, <3>2, <3>3, <3>4, <3>5 DEF KidsOnCourse, Untouched, Kids
    <2>8. NeverFails(request[q])'
      BY DEF OnCourse, NeverFails
    <2>. QED
      BY <2>6, <2>7, <2>8 DEF OnCourse
  <1>. QED
    BY <1>1, <1>2

-----------------------------------------------------------------------------
(* A handler stays on course in its own statements.                         *)

\* The fields of a request after a step.
LEMMA GotoFields ==
    ASSUME RequestsTyped, NEW q \in Request, NEW label, Goto(q, label)
    PROVE  LET r == request[q] s == request'[q]
           IN /\ s.pc = label /\ s.root = r.root /\ s.cur = r.cur
              /\ s.kids = r.kids /\ s.inst = r.inst /\ s.destroy = r.destroy
  BY DEF RequestsTyped, RequestRow, Goto

\* What is left of a request that saved an instance and moves on.
LEMMA DropFields ==
    ASSUME RequestsTyped, NEW q \in Request, NEW label, NEW j \in Job,
           DropAndGoto(q, j, label)
    PROVE  LET r == request[q] s == request'[q]
           IN /\ s.pc = label /\ s.root = r.root /\ s.cur = r.cur
              /\ s.kids = r.kids /\ s.destroy = r.destroy
              /\ \A k \in Job : k # j => s.inst[k] = r.inst[k]
  <1> DEFINE r == request[q]
             inst == [r.inst EXCEPT ![j] = NoRow("NOT_CREATED")]
  <1>1. r \in RequestRow /\ q \in DOMAIN request /\ r.inst \in [Job -> Row]
    BY DEF RequestsTyped, RequestRow
  <1>2. request' = [request EXCEPT ![q] = [r EXCEPT !.pc = label, !.inst = inst]]
    BY <1>1 DEF DropAndGoto, RequestsTyped, RequestRow
  <1>3. \A k \in Job : k # j => inst[k] = r.inst[k]
    BY <1>1
  <1> HIDE DEF r, inst
  <1>4. request'[q] = [r EXCEPT !.pc = label, !.inst = inst]
    BY <1>1, <1>2
  <1>5. LET s == request'[q]
        IN /\ s.pc = label /\ s.root = r.root /\ s.cur = r.cur
           /\ s.kids = r.kids /\ s.destroy = r.destroy /\ s.inst = inst
    BY <1>1, <1>4 DEF RequestRow
  <1>. QED
    BY <1>3, <1>5 DEF r

\* A finished handler is on course.
LEMMA FinishOnCourse ==
    ASSUME RequestsTyped, NEW q \in Request, Finish(q)
    PROVE  OnCourse(request[q])'
  <1>1. request'[q].pc = "idle" /\ request'[q].destroy = FALSE
    BY DEF RequestsTyped, Finish, IdleRequest
  <1>. QED
    BY <1>1 DEF OnCourse, RootOnCourse, KidsOnCourse, NeverFails, HeldPC,
                EndingPC, GiveUpPC

\* The statements of a runner's request until the row is saved.
LEMMA RunnerOnCourse ==
    ASSUME RowsTyped, RequestsTyped, NEW q \in Request, OnCourse(request[q]),
           \/ SaveCompleting(q) \/ AttachFile(q) \/ OnTranscodingEnded(q)
           \/ CompleteNextState(q) \/ ErrorFail(q) \/ ErrorDecrease(q)
    PROVE  OnCourse(request[q])'
  <1> DEFINE r == request[q]
             s == request'[q]
             j == r.root
  <1>0. r.destroy \in BOOLEAN /\ r.pc # "idle" => ~r.destroy
    BY DEF OnCourse, NeverFails, RequestsTyped, RequestRow
  <1>1. CASE SaveCompleting(q)
    <2>1. j \in Job /\ job'[j].state = "COMPLETING"
      BY <1>1, SaveCompletingEffect DEF Turns
    <2>2. /\ s.pc = "attach" /\ s.root = j /\ s.inst[j].state = "COMPLETING"
          /\ s.destroy = r.destroy /\ s.cur = r.cur
      BY <1>1, <2>1 DEF SaveCompleting, RequestsTyped, RequestRow, Row
    <2>3. ~s.destroy /\ s.cur = j
      BY <1>1, <2>2 DEF OnCourse, NeverFails, RootOnCourse, SaveCompleting, HeldPC
    <2>. QED
      BY <2>1, <2>2, <2>3
      DEF OnCourse, RootOnCourse, KidsOnCourse, NeverFails, HeldPC, EndingPC,
          GiveUpPC
  <1>2. ASSUME AttachFile(q) \/ OnTranscodingEnded(q) \/ CompleteNextState(q)
        PROVE  OnCourse(request[q])'
    <2>1. PICK label \in EndingPC : Goto(q, label)
      BY <1>2 DEF AttachFile, OnTranscodingEnded, CompleteNextState, EndingPC
    <2>2. r.pc \in EndingPC /\ job' = job
      BY <1>2 DEF AttachFile, OnTranscodingEnded, CompleteNextState, EndingPC
    <2>3. /\ job'[j].state = "COMPLETING" /\ r.inst[j].state = "COMPLETING"
          /\ r.cur = j
      BY <2>2 DEF OnCourse, RootOnCourse
    <2>4. /\ s.pc = label /\ s.root = j /\ s.cur = r.cur /\ s.inst = r.inst
          /\ s.destroy = r.destroy
      BY <2>1, GotoFields
    <2>5. ~s.destroy
      BY <2>4 DEF OnCourse, NeverFails
    <2>. QED
      BY <2>3, <2>4, <2>5
      DEF OnCourse, RootOnCourse, KidsOnCourse, NeverFails, HeldPC, EndingPC,
          GiveUpPC
  <1>3. ASSUME ErrorFail(q) \/ ErrorDecrease(q)
        PROVE  OnCourse(request[q])'
    <2>1. PICK label \in {"errorDecrease", "errorSave"} :
            Goto(q, label) /\ (label = "errorDecrease" => Exhausted(r.inst[j]))
      BY <1>3 DEF ErrorFail, ErrorDecrease
    <2>2. r.pc \in HeldPC /\ job' = job
      BY <1>3 DEF ErrorFail, ErrorDecrease, HeldPC
    <2>3. Current(r.inst[j], job'[j]) /\ r.cur = j
      BY <2>2 DEF OnCourse, RootOnCourse
    <2>4. /\ s.pc = label /\ s.root = j /\ s.cur = r.cur /\ s.inst = r.inst
          /\ s.destroy = r.destroy
      BY <2>1, GotoFields
    <2>5. ~s.destroy
      BY <2>4 DEF OnCourse, NeverFails
    <2>. QED
      BY <2>1, <2>3, <2>4, <2>5
      DEF OnCourse, RootOnCourse, KidsOnCourse, NeverFails, HeldPC, EndingPC,
          GiveUpPC
  <1>. QED
    BY <1>1, <1>2, <1>3

\* When the root has ended, its children still wait.
LEMMA EndOnCourse ==
    ASSUME RowsTyped, RequestsTyped, TreeAssumption, FamilyInv,
           NEW q \in Request, OnCourse(request[q]),
           \/ SaveCompletion(q) \/ ErrorSave(q)
           \/ CancelSave(q) /\ request[q].cur = request[q].root
    PROVE  OnCourse(request[q])'
  <1> DEFINE r == request[q]
             s == request'[q]
             j == r.root
  <1>1. j \in Job
    BY RequestHolds DEF SaveCompletion, ErrorSave, CancelSave
  <1>2. ASSUME job[j].state \in Cancellable \cup {"COMPLETING"},
               \A i \in Job : i # j => job'[i] = job[i],
               NEW label, DropAndGoto(q, j, label),
               \/ label = "release" /\ job'[j].state = "COMPLETED"
               \/ label = "errorList" /\ job'[j].state = "ERRORED"
               \/ label = "cancelList" /\ job'[j].state = "CANCELLED"
        PROVE  OnCourse(request[q])'
    <2>1. /\ s.pc = label /\ s.root = j /\ s.destroy = r.destroy
      BY <1>1, <1>2, DropFields
    <2>2. ASSUME NEW k \in Kids(j) PROVE Waits(k)'
      <3>1. k \in Job /\ k # j /\ Waits(k)
        BY <1>1, <1>2 DEF FamilyInv, Kids, TreeAssumption
      <3>. QED
        BY <1>2, <3>1 DEF Waits
    <2>3. ~s.destroy
      BY <2>1 DEF OnCourse, NeverFails
    <2> HIDE DEF r, s, j
    <2>4. RootOnCourse(request[q])'
      BY <1>2, <2>1 DEF s, RootOnCourse, HeldPC, EndingPC, GiveUpPC
    <2>5. KidsOnCourse(request[q])'
      BY <1>2, <2>1, <2>2 DEF s, KidsOnCourse, Kids, GiveUpPC
    <2>6. NeverFails(request[q])'
      BY <1>2, <2>1, <2>3 DEF s, NeverFails
    <2>. QED
      BY <2>4, <2>5, <2>6 DEF OnCourse
  <1>3. CASE SaveCompletion(q)
    <2>1. DropAndGoto(q, j, "release")
      BY <1>3 DEF SaveCompletion
    <2>. QED
      BY <1>2, <1>3, <2>1, SaveCompletionEffect DEF Turns
  <1>4. CASE ErrorSave(q) /\ Exhausted(r.inst[j])
    <2>1. DropAndGoto(q, j, "errorList")
      BY <1>4 DEF ErrorSave
    <2>. QED
      BY <1>2, <1>4, <2>1, ErrorSaveEffect DEF Turns, Cancellable
  <1>5. CASE ErrorSave(q) /\ ~Exhausted(r.inst[j])
    BY <1>5, FinishOnCourse DEF ErrorSave
  <1>6. CASE CancelSave(q) /\ r.cur = j
    <2>1. DropAndGoto(q, j, "cancelList")
      BY <1>6 DEF CancelSave
    <2>2. /\ job[j].state \in Cancellable
          /\ \A i \in Job : i # j => job'[i] = job[i]
          /\ job'[j].state = "CANCELLED"
      BY <1>6, CancelSaveEffect DEF Turns
    <2>. QED
      BY <1>2, <2>1, <2>2
  <1>. QED
    BY <1>3, <1>4, <1>5, <1>6

\* The children are loaded as they are: those that are there wait.
LEMMA ListOnCourse ==
    ASSUME RowsTyped, RequestsTyped, NEW q \in Request, OnCourse(request[q]),
           ErrorListChildren(q) \/ CancelListChildren(q)
    PROVE  OnCourse(request[q])'
  <1> DEFINE r == request[q]
             s == request'[q]
             j == r.root
  <1>1. /\ job' = job /\ r.pc \in {"errorList", "cancelList"}
        /\ s = [LoadChildren(q) EXCEPT
                  !.pc = IF r.pc = "errorList" THEN "errorKids" ELSE "cancelKids"]
    BY DEF ErrorListChildren, CancelListChildren, RequestsTyped
  <1>2. r \in RequestRow
    BY DEF RequestsTyped
  <1>3. /\ s.pc = IF r.pc = "errorList" THEN "errorKids" ELSE "cancelKids"
        /\ s.root = j /\ s.kids = ChildrenOf(j) /\ s.destroy = r.destroy
        /\ s.inst = [k \in Job |-> IF k \in ChildrenOf(j) THEN job[k]
                                   ELSE r.inst[k]]
    BY <1>1, <1>2 DEF LoadChildren, RequestRow
  <1>4. ASSUME NEW k \in ChildrenOf(j)
        PROVE  /\ k \in Kids(j) /\ s.inst[k] = job[k]
               /\ job[k].state = "WAITING_FOR_PARENT_JOB"
    <2>1. k \in Kids(j) /\ Exists(k) /\ k \in Job
      BY DEF ChildrenOf, Kids
    <2>2. Waits(k)
      BY <1>1, <2>1 DEF OnCourse, KidsOnCourse
    <2>. QED
      BY <1>3, <2>1, <2>2 DEF Waits, Exists, Absent
  <1>5. /\ r.pc = "errorList" => job[j].state = "ERRORED"
        /\ r.pc = "cancelList" => job[j].state = "CANCELLED"
        /\ ~r.destroy
    BY <1>1 DEF OnCourse, RootOnCourse, NeverFails
  <1> HIDE DEF r, s, j
  <1>6. RootOnCourse(request[q])'
    BY <1>1, <1>3, <1>5 DEF s, RootOnCourse, HeldPC, EndingPC, GiveUpPC
  <1>7. KidsOnCourse(request[q])'
    BY <1>1, <1>3, <1>4 DEF s, KidsOnCourse, Kids, GiveUpPC, Untouched
  <1>8. NeverFails(request[q])'
    BY <1>3, <1>5 DEF s, NeverFails
  <1>. QED
    BY <1>6, <1>7, <1>8 DEF OnCourse

\* The children are ended one after the other.
LEMMA ErrorChildOnCourse ==
    ASSUME RowsTyped, RequestsTyped, TreeAssumption, NEW q \in Request,
           OnCourse(request[q]), NEW k \in Job, ErrorChild(q, k)
    PROVE  OnCourse(request[q])'
  <1> DEFINE r == request[q]
             s == request'[q]
             j == r.root
  <1>1. /\ s.pc = "errorKids" /\ s.root = j /\ s.kids = r.kids \ {k}
        /\ s.destroy = r.destroy
        /\ \A i \in Job : i # k => s.inst[i] = r.inst[i]
    <2>1. r \in RequestRow /\ r.inst \in [Job -> Row] /\ r.pc = "errorKids"
      BY DEF ErrorChild, RequestsTyped, RequestRow
    <2>2. s = [r EXCEPT !.kids = @ \ {k}, !.inst[k] = NoRow("NOT_CREATED")]
      BY DEF ErrorChild, RequestsTyped
    <2>. QED
      BY <2>1, <2>2 DEF RequestRow
  <1>2. /\ job[j].state = "ERRORED" /\ ~r.destroy
        /\ \A i \in r.kids : /\ i \in Kids(j)
                             /\ job[i].state = "WAITING_FOR_PARENT_JOB"
                             /\ r.inst[i].state = "WAITING_FOR_PARENT_JOB"
    BY DEF ErrorChild, OnCourse, RootOnCourse, KidsOnCourse, NeverFails, Untouched
  <1>3. /\ j \in Job /\ Parent[k] = j
        /\ \A i \in Job : i # k => job'[i] = job[i]
    BY ErrorChildEffect, RequestHolds DEF ErrorChild, Turns
  <1>4. j # k
    BY <1>3 DEF TreeAssumption
  <1> HIDE DEF r, s, j
  <1>5. RootOnCourse(request[q])'
    BY <1>1, <1>2, <1>3, <1>4 DEF s, RootOnCourse, HeldPC, EndingPC, GiveUpPC
  <1>6. KidsOnCourse(request[q])'
    BY <1>1, <1>2, <1>3 DEF s, KidsOnCourse, Kids, GiveUpPC, Untouched
  <1>7. NeverFails(request[q])'
    BY <1>1, <1>2 DEF s, NeverFails
  <1>. QED
    BY <1>5, <1>6, <1>7 DEF OnCourse

\* A cancellation's statements before its save stay on course.
LEMMA CancelOnCourse ==
    ASSUME RowsTyped, RequestsTyped, NEW q \in Request, OnCourse(request[q]),
           CancelDecrease(q) \/ CancelNextState(q)
    PROVE  OnCourse(request[q])'
  <1> DEFINE r == request[q]
             s == request'[q]
  <1>1. job' = job /\ r.pc \in GiveUpPC
    BY DEF CancelDecrease, CancelNextState, GiveUpPC
  <1>2. PICK label \in {"cancelNext", "cancelSave"} : Goto(q, label)
    BY DEF CancelDecrease, CancelNextState
  <1>3. /\ s.pc = label /\ s.root = r.root /\ s.cur = r.cur /\ s.kids = r.kids
        /\ s.inst = r.inst /\ s.destroy = r.destroy
    BY <1>2, GotoFields
  <1>4. RootOnCourse(r)
    BY DEF OnCourse
  <1>5. KidsOnCourse(r)
    BY DEF OnCourse
  <1>6. NeverFails(r)
    BY DEF OnCourse
  <1> HIDE DEF r, s
  <1>7. RootOnCourse(request[q])'
    BY <1>1, <1>3, <1>4 DEF s, RootOnCourse, HeldPC, EndingPC, GiveUpPC
  <1>8. KidsOnCourse(request[q])'
    BY <1>1, <1>3, <1>5 DEF s, KidsOnCourse, Kids, GiveUpPC, Untouched
  <1>9. NeverFails(request[q])'
    BY <1>3, <1>6 DEF s, NeverFails
  <1>. QED
    BY <1>7, <1>8, <1>9 DEF OnCourse

\* So does its turn to a child.
LEMMA CancelChildOnCourse ==
    ASSUME RowsTyped, RequestsTyped, TreeAssumption, NEW q \in Request,
           OnCourse(request[q]), NEW k \in Job, CancelChild(q, k)
    PROVE  OnCourse(request[q])'
  <1> DEFINE r == request[q]
             s == request'[q]
             j == r.root
  <1>1. /\ s.pc = "cancelDecrease" /\ s.root = j /\ s.cur = k
        /\ s.kids = r.kids \ {k} /\ s.inst = r.inst /\ s.destroy = r.destroy
        /\ job' = job /\ k \in r.kids
    BY DEF CancelChild, RequestsTyped, RequestRow
  <1>2. /\ job[j].state = "CANCELLED" /\ ~r.destroy
        /\ \A i \in r.kids : /\ i \in Kids(j)
                             /\ job[i].state = "WAITING_FOR_PARENT_JOB"
                             /\ r.inst[i].state = "WAITING_FOR_PARENT_JOB"
    BY DEF CancelChild, OnCourse, RootOnCourse, KidsOnCourse, NeverFails, Untouched
  <1>3. j \in Job /\ j # k
    BY <1>1, <1>2, RequestHolds DEF CancelChild, Kids, TreeAssumption
  <1> HIDE DEF r, s, j
  <1>4. RootOnCourse(request[q])'
    BY <1>1, <1>2, <1>3 DEF s, RootOnCourse, HeldPC, EndingPC, GiveUpPC
  <1>5. KidsOnCourse(request[q])'
    BY <1>1, <1>2, <1>3 DEF s, KidsOnCourse, Kids, GiveUpPC, Untouched
  <1>6. NeverFails(request[q])'
    BY <1>1, <1>2 DEF s, NeverFails
  <1>. QED
    BY <1>4, <1>5, <1>6 DEF OnCourse

\* So does its save of the root or of a child.
LEMMA CancelSaveOnCourse ==
    ASSUME RowsTyped, RequestsTyped, NEW q \in Request, OnCourse(request[q]),
           CancelSave(q), request[q].cur # request[q].root
    PROVE  OnCourse(request[q])'
  <1> DEFINE r == request[q]
             s == request'[q]
             j == r.root
             c == r.cur
  <1>1. j \in Job /\ c \in Job /\ DropAndGoto(q, c, "cancelKids")
    BY RequestHolds DEF CancelSave
  <1>2. /\ s.pc = "cancelKids" /\ s.root = j /\ s.kids = r.kids
        /\ s.destroy = r.destroy
        /\ \A i \in Job : i # c => s.inst[i] = r.inst[i]
    BY <1>1, DropFields
  <1>3. r.pc \in GiveUpPC
    BY DEF CancelSave, GiveUpPC
  <1>4. job[j].state = "CANCELLED" /\ ~r.destroy
    BY <1>3 DEF OnCourse, RootOnCourse, NeverFails
  <1>5. /\ c \notin r.kids
        /\ \A i \in r.kids : /\ i \in Kids(j)
                             /\ job[i].state = "WAITING_FOR_PARENT_JOB"
                             /\ r.inst[i].state = "WAITING_FOR_PARENT_JOB"
    BY <1>3 DEF OnCourse, KidsOnCourse, Untouched
  <1>6. \A i \in Job : i # c => job'[i] = job[i]
    BY CancelSaveEffect DEF Turns
  <1>7. c # j
    OBVIOUS
  <1> HIDE DEF r, s, j, c
  <1>8. RootOnCourse(request[q])'
    BY <1>1, <1>2, <1>4, <1>6, <1>7 DEF s, RootOnCourse, HeldPC, EndingPC, GiveUpPC
  <1>9. KidsOnCourse(request[q])'
    BY <1>2, <1>5, <1>6 DEF s, KidsOnCourse, Kids, GiveUpPC, Untouched
  <1>10. NeverFails(request[q])'
    BY <1>2, <1>4 DEF s, NeverFails
  <1>. QED
    BY <1>8, <1>9, <1>10 DEF OnCourse

\* Every statement of a handler keeps the handler on course.
LEMMA HandlerOnCourse ==
    ASSUME RowsTyped, RequestsTyped, TreeAssumption, FamilyInv,
           NEW q \in Request, OnCourse(request[q]), HandlerStep(q)
    PROVE  OnCourse(request[q])'
  <1>1. CASE CompleteStep(q)
    BY <1>1, RunnerOnCourse, EndOnCourse, FinishOnCourse
    DEF CompleteStep, ReleaseChildren
  <1>2. CASE ErrorStep(q)
    BY <1>2, RunnerOnCourse, EndOnCourse, ListOnCourse, ErrorChildOnCourse,
       FinishOnCourse DEF ErrorStep, ErrorEnd
  <1>3. CASE CancelStep(q)
    <2>1. CASE CancelEnd(q)
      BY <2>1, FinishOnCourse DEF CancelEnd, OnCourse, NeverFails
    <2>2. CASE Destroy(q)
      BY <2>2, FinishOnCourse DEF Destroy
    <2>. QED
      BY <1>3, <2>1, <2>2, CancelOnCourse, EndOnCourse, CancelSaveOnCourse,
         ListOnCourse, CancelChildOnCourse DEF CancelStep
  <1>4. CASE AbortSave(q)
    BY <1>4, FinishOnCourse DEF AbortSave
  <1>. QED
    BY <1>1, <1>2, <1>3, <1>4 DEF HandlerStep

\* A request starts with the row it names.
LEMMA StartOnCourse ==
    ASSUME RowsTyped, RequestsTyped, Env \subseteq OrderedTwice,
           NEW q \in Request, NEW j \in Job, NewRequest(q, j)
    PROVE  OnCourse(request[q])'
  <1> DEFINE s == request'[q]
  <1>1. "cancelChild" \notin Env /\ "delete" \notin Env
    BY DEF OrderedTwice, Ordered
  <1>2. PICK label \in {"saveCompleting", "abortSave", "errorFail",
                         "cancelDecrease"} :
          /\ Start(q, label, j, FALSE)
          /\ label # "cancelDecrease" => HeldByRunner(j)
          /\ label = "cancelDecrease" =>
               Parent[j] = None /\ job[j].state \in Cancellable
    BY <1>1 DEF NewRequest, StartComplete, StartAbort, StartError, StartCancel,
                StartDelete
  <1>3. /\ s.pc = label /\ s.root = j /\ s.cur = j /\ s.kids = {}
        /\ s.inst[j] = job[j] /\ s.destroy = FALSE /\ job' = job
    BY <1>2, NotLoadedType DEF Start, RequestsTyped
  <1> HIDE DEF s
  <1>4. RootOnCourse(request[q])'
    BY <1>2, <1>3 DEF s, RootOnCourse, HeldPC, EndingPC, GiveUpPC, Current,
                      HeldByRunner
  <1>5. KidsOnCourse(request[q])'
    BY <1>2, <1>3 DEF s, KidsOnCourse, GiveUpPC
  <1>6. NeverFails(request[q])'
    BY <1>2, <1>3 DEF s, NeverFails
  <1>. QED
    BY <1>4, <1>5, <1>6 DEF OnCourse

-----------------------------------------------------------------------------
(* The invariant is inductive.                                              *)

\* Who does not act on a request's family leaves it on course.
LEMMA OthersStable ==
    ASSUME TypeOK, OrderInv, TreeAssumption, [Next]_vars,
           NEW q \in Request, At(q), ~HandlerWritesJob(q)
    PROVE  FamilyStable(request[q].root)
  <1> DEFINE j == request[q].root
  <1>0. RowsTyped /\ RequestsTyped
    BY DEF TypeOK
  <1>1. j \in Job
    BY <1>0, RequestHolds DEF At
  <1>2. ASSUME NEW i \in Job, job'[i] = job[i] PROVE RowStable(i)
    BY <1>2 DEF RowStable
  <1>3. Kids(j) \subseteq Job
    BY DEF Kids
  <1>4. ASSUME NEW p \in Request, HandlerWritesJob(p) PROVE FamilyStable(j)
    <2>1. p # q
      BY <1>4
    <2>2. At(p)
      BY <1>4 DEF HandlerWritesJob, SaveCompleting, SaveCompletion,
                  ReleaseChildren, AbortSave, ErrorSave, CancelSave, Destroy,
                  ErrorChild, At
    <2>3. ~Related(request[p].root, j)
      BY <2>1, <2>2 DEF OrderInv, Apart
    <2>4. OnCourse(request[p])
      BY DEF OrderInv, RequestsOnCourse
    <2>5. ASSUME NEW i \in {j} \cup Kids(j) PROVE job'[i] = job[i]
      <3>1. i \in Job /\ i # request[p].root /\ Parent[i] # request[p].root
        BY <1>1, <2>3 DEF Related, Kids
      <3>. QED
        BY <1>0, <1>4, <2>4, <3>1, HandlerMoves
    <2>. QED
      BY <1>1, <1>2, <1>3, <2>5 DEF FamilyStable
  <1>5. ASSUME NEW r \in Runner, NEW i \in Job, AcceptRunnerJob(r, i)
        PROVE  FamilyStable(j)
    <2>1. ASSUME NEW k \in Job PROVE RowStable(k)
      BY <1>0, <1>2, <1>5, AcceptEffect DEF RowStable, Turns
    <2>. QED
      BY <1>1, <1>3, <2>1 DEF FamilyStable
  <1>6. ASSUME NEW r \in Runner, DeleteRunner(r) PROVE FamilyStable(j)
    <2>1. ASSUME NEW k \in Job PROVE RowStable(k)
      BY <1>0, <1>6, DeleteRunnerEffect DEF RowStable
    <2>. QED
      BY <1>1, <1>3, <2>1 DEF FamilyStable
  <1>7. ASSUME NEW i \in Job, AbortStalled(i) PROVE FamilyStable(j)
    <2>1. /\ i # j /\ job[i].state = "PROCESSING"
          /\ \A k \in Job : k # i => job'[k] = job[k]
      BY <1>0, <1>7, AbortStalledEffect DEF OrderInv, Turns
    <2>. QED
      BY <1>1, <1>2, <1>3, <2>1 DEF FamilyStable, Waits
  <1>8. ASSUME NEW b \in Builder, NEW i \in Job, CreateRunnerJob(b, i)
        PROVE  FamilyStable(j)
    <2>1. ASSUME NEW k \in Job PROVE RowStable(k)
      BY <1>0, <1>2, <1>8, CreateEffect DEF OrderInv, RowStable, Turns
    <2>. QED
      BY <1>1, <1>3, <2>1 DEF FamilyStable
  <1>9. CASE UNCHANGED job
    BY <1>1, <1>2, <1>3, <1>9 DEF FamilyStable
  <1>. QED
    BY <1>4, <1>5, <1>6, <1>7, <1>8, <1>9, WritesJob DEF JobWriters

\* A statement that writes a row is a statement of the handler.
LEMMA WriterIsHandler ==
    ASSUME NEW q \in Request, HandlerWritesJob(q)
    PROVE  HandlerStep(q)
  BY DEF HandlerWritesJob, HandlerStep, CompleteStep, ErrorStep, CancelStep

\* Every step keeps every handler on course.
LEMMA OnCourseStep ==
    ASSUME TypeOK, OrderInv, TreeAssumption, Env \subseteq OrderedTwice,
           [Next]_vars
    PROVE  RequestsOnCourse'
  <1> SUFFICES ASSUME NEW q \in Request PROVE OnCourse(request[q])'
    BY DEF RequestsOnCourse
  <1>0. RowsTyped /\ RequestsTyped /\ FamilyInv /\ OnCourse(request[q])
    BY DEF TypeOK, OrderInv, RequestsOnCourse
  <1>1. CASE HandlerStep(q)
    BY <1>0, <1>1, HandlerOnCourse
  <1>2. ASSUME NEW j \in Job, NewRequest(q, j) PROVE OnCourse(request[q])'
    BY <1>0, <1>2, StartOnCourse
  <1>3. CASE ~HandlerStep(q) /\ ~\E j \in Job : NewRequest(q, j)
    <2>1. request'[q] = request[q]
      <3>1. CASE OrderedNext
        <4>1. /\ ~Restart
              /\ \A p \in Request : ~CompleteThrows(p) /\ ~HandlerFails(p)
          BY DEF OrderedTwice, Ordered, Restart, CompleteThrows, HandlerFails
        <4>. QED
          BY <1>0, <1>3, <4>1, WritesRequest, OthersStay, Zenon
      <3>2. CASE UNCHANGED vars
        BY <3>2 DEF vars
      <3>. QED
        BY <3>1, <3>2, OrderedStep
    <2>2. At(q) => FamilyStable(request[q].root)
      BY <1>3, OthersStable, WriterIsHandler
    <2>. QED
      BY <1>0, <2>1, <2>2, OtherOnCourse
  <1>. QED
    BY <1>1, <1>2, <1>3

\* A request at work goes on with its root, or starts on a job no other is on.
LEMMA RootsStay ==
    ASSUME TypeOK, Env \subseteq OrderedTwice, [Next]_vars, NEW q \in Request,
           At(q)'
    PROVE  \/ At(q) /\ request'[q].root = request[q].root
           \/ /\ ~Busy(request'[q].root)
              /\ \A p \in Request : p # q => request'[p] = request[p]
  <1>0. RowsTyped /\ RequestsTyped
    BY DEF TypeOK
  <1>1. CASE HandlerStep(q) \/ CompleteThrows(q)
    BY <1>0, <1>1, HandlerFlow DEF At
  <1>2. ASSUME NEW j \in Job, NewRequest(q, j)
        PROVE  /\ ~Busy(request'[q].root)
               /\ \A p \in Request : p # q => request'[p] = request[p]
    <2>1. request'[q].root = j
      BY <1>0, <1>2, StartFlow
    <2>2. \A p \in Request : p # q => request'[p] = request[p]
      BY <1>0, <1>2, OthersStay
    <2>3. PICK label, destroy : Start(q, label, j, destroy)
      BY <1>2 DEF NewRequest, StartComplete, StartAbort, StartError,
                  StartCancel, StartDelete
    <2>4. ~Busy(j)
      BY <2>3 DEF Start, OrderedTwice, Ordered
    <2>. QED
      BY <2>1, <2>2, <2>4
  <1>3. CASE request'[q] = request[q]
    BY <1>3 DEF At
  <1>4. request'[q].pc # "idle"
    BY DEF At
  <1>. QED
    BY <1>0, <1>1, <1>2, <1>3, <1>4, RequestChange

\* Two handlers work on different families.
LEMMA ApartStep ==
    ASSUME TypeOK, OrderInv, Env \subseteq OrderedTwice, [Next]_vars
    PROVE  Apart'
  <1> SUFFICES ASSUME NEW p \in Request, NEW q \in Request, At(p)', At(q)', p # q
               PROVE  ~Related(request'[p].root, request'[q].root)
    BY DEF Apart, Related
  <1>0. request'[p].root \in Job /\ request'[q].root \in Job
    BY TypeStep, RequestHolds DEF TypeOK, RequestsTyped, At
  <1>1. ASSUME NEW a \in Request, NEW b \in Request, a # b, At(b)',
               request'[a].root \in Job, request'[b].root \in Job,
               ~Busy(request'[a].root), request'[b] = request[b]
        PROVE  ~Related(request'[a].root, request'[b].root)
    <2>1. At(b) /\ request'[b].root = request[b].root
      BY <1>1 DEF At
    <2>. QED
      BY <1>1, <2>1 DEF Busy, At, Related, Kids
  <1>2. CASE /\ At(p) /\ request'[p].root = request[p].root
             /\ At(q) /\ request'[q].root = request[q].root
    BY <1>2 DEF OrderInv, Apart
  <1>3. CASE /\ ~Busy(request'[p].root)
             /\ \A r \in Request : r # p => request'[r] = request[r]
    BY <1>0, <1>1, <1>3
  <1>4. CASE /\ ~Busy(request'[q].root)
             /\ \A r \in Request : r # q => request'[r] = request[r]
    BY <1>0, <1>1, <1>4 DEF Related
  <1>. QED
    BY <1>2, <1>3, <1>4, RootsStay

\* The watchdog's instances stay of jobs no handler is on.
LEMMA StalledStep ==
    ASSUME TypeOK, OrderInv, TreeAssumption, Env \subseteq OrderedTwice,
           [Next]_vars
    PROVE  StalledInv'
  <1> SUFFICES ASSUME NEW j \in Job, stalled'[j] # NoRow("NOT_CREATED")
               PROVE  /\ job'[j].state = "PROCESSING"
                      /\ stalled'[j].state = "PROCESSING"
                      /\ job'[j].runner \in {stalled'[j].runner, None}
                      /\ \A q \in Request : At(q)' => request'[q].root # j
    BY DEF StalledInv
  <1>0. RowsTyped /\ RequestsTyped /\ stalled \in [Job -> Row]
    BY DEF TypeOK, RowsTyped
  <1>1. ASSUME NEW S \in SUBSET Job, ListStalledJobs(S), j \in S
        PROVE  /\ job'[j].state = "PROCESSING"
               /\ stalled'[j].state = "PROCESSING"
               /\ job'[j].runner \in {stalled'[j].runner, None}
               /\ \A q \in Request : At(q)' => request'[q].root # j
    <2>1. /\ job' = job /\ request' = request /\ stalled'[j] = job[j]
          /\ job[j].state = "PROCESSING" /\ ~Busy(j)
      BY <1>1 DEF ListStalledJobs, OrderedTwice, Ordered
    <2>. QED
      BY <2>1 DEF Busy, At
  <1>2. CASE ~\E S \in SUBSET Job : ListStalledJobs(S) /\ j \in S
    <2>1. /\ stalled'[j] = stalled[j] /\ stalled[j] # NoRow("NOT_CREATED")
          /\ ~AbortStalled(j)
      <3>1. ~Restart /\ ~WatchdogFails
        BY DEF Restart, WatchdogFails, OrderedTwice, Ordered
      <3>2. ASSUME NEW S \in SUBSET Job, ListStalledJobs(S)
            PROVE  stalled'[j] = stalled[j] /\ ~AbortStalled(j)
        BY <1>2, <3>2 DEF ListStalledJobs, AbortStalled, NoneStalled
      <3>3. ASSUME NEW i \in Job, AbortStalled(i)
            PROVE  i # j /\ stalled'[j] = stalled[j]
        BY <1>0, <3>3 DEF AbortStalled
      <3>. QED
        BY <3>1, <3>2, <3>3, WritesStalled
    <2>2. /\ job[j].state = "PROCESSING" /\ stalled[j].state = "PROCESSING"
          /\ job[j].runner \in {stalled[j].runner, None}
          /\ \A q \in Request : At(q) => request[q].root # j
      BY <2>1 DEF OrderInv, StalledInv
    <2>3. \A q \in Request : At(q)' => request'[q].root # j
      BY <2>1, <2>2, RootsStay DEF Busy
    <2>4. /\ job'[j].state = job[j].state
          /\ job'[j].runner \in {job[j].runner, None}
      <3>1. ASSUME NEW q \in Request, HandlerWritesJob(q)
            PROVE  job'[j] = job[j]
        <4>1. At(q)
          BY <3>1 DEF HandlerWritesJob, SaveCompleting, SaveCompletion,
                      ReleaseChildren, AbortSave, ErrorSave, CancelSave,
                      Destroy, ErrorChild, At
        <4>2. OnCourse(request[q])
          BY DEF OrderInv, RequestsOnCourse
        <4>. QED
          BY <1>0, <2>2, <3>1, <4>1, <4>2, HandlerMoves
      <3>2. ASSUME NEW r \in Runner, NEW i \in Job, AcceptRunnerJob(r, i)
            PROVE  job'[j] = job[j]
        BY <1>0, <2>2, <3>2, AcceptEffect DEF Turns
      <3>3. ASSUME NEW r \in Runner, DeleteRunner(r)
            PROVE  /\ job'[j].state = job[j].state
                   /\ job'[j].runner \in {job[j].runner, None}
        BY <1>0, <3>3, DeleteRunnerEffect
      <3>4. ASSUME NEW i \in Job, AbortStalled(i) PROVE job'[j] = job[j]
        BY <1>0, <2>1, <3>4, AbortStalledEffect DEF OrderInv, Turns
      <3>5. ASSUME NEW b \in Builder, NEW i \in Job, CreateRunnerJob(b, i)
            PROVE  job'[j] = job[j]
        BY <1>0, <2>2, <3>5, CreateEffect DEF OrderInv, Turns
      <3>. QED
        BY <3>1, <3>2, <3>3, <3>4, <3>5, WritesJob DEF JobWriters
    <2>. QED
      BY <2>1, <2>2, <2>3, <2>4
  <1>. QED
    BY <1>1, <1>2

\* A job that is not there is only created by a build.
LEMMA CreatedByBuild ==
    ASSUME TypeOK, OrderInv, TreeAssumption, [Next]_vars, NEW j \in Job,
           job[j].state = "NOT_CREATED", job'[j].state # "NOT_CREATED"
    PROVE  \E b \in Builder : CreateRunnerJob(b, j)
  <1>0. RowsTyped /\ RequestsTyped
    BY DEF TypeOK
  <1>1. ASSUME NEW q \in Request, HandlerWritesJob(q) PROVE FALSE
    <2>1. OnCourse(request[q])
      BY DEF OrderInv, RequestsOnCourse
    <2>. QED
      BY <1>0, <1>1, <2>1, HandlerMoves
  <1>2. ASSUME NEW r \in Runner, NEW i \in Job, AcceptRunnerJob(r, i) PROVE FALSE
    BY <1>0, <1>2, AcceptEffect DEF Turns
  <1>3. ASSUME NEW r \in Runner, DeleteRunner(r) PROVE FALSE
    BY <1>0, <1>3, DeleteRunnerEffect
  <1>4. ASSUME NEW i \in Job, AbortStalled(i) PROVE FALSE
    BY <1>0, <1>4, AbortStalledEffect DEF OrderInv, Turns
  <1>5. ASSUME NEW b \in Builder, NEW i \in Job, CreateRunnerJob(b, i), i # j
        PROVE  FALSE
    BY <1>0, <1>5, CreateEffect DEF OrderInv, Turns
  <1>. QED
    BY <1>1, <1>2, <1>3, <1>4, <1>5, WritesJob DEF JobWriters

\* One build runs at a time, of jobs that are not created yet.
LEMMA BuildStep ==
    ASSUME TypeOK, OrderInv, TreeAssumption, Env \subseteq OrderedTwice,
           [Next]_vars
    PROVE  BuildInv'
  <1>0. RowsTyped /\ builder \in [Builder -> BuildRow] /\ BuildInv /\ FamilyInv
    BY DEF TypeOK, BuildsTyped, OrderInv
  <1>1. ASSUME \A b \in Builder :
                 \/ builder'[b] = IdleBuilder
                 \/ /\ builder'[b].pc # "idle" => builder[b].pc # "idle"
                    /\ builder'[b].pc = "idle" => builder[b].pc = "idle"
                    /\ builder'[b].todo \subseteq builder[b].todo
                    /\ \A j \in Job : CreateRunnerJob(b, j)
                                        => j \notin builder'[b].todo
        PROVE  BuildInv'
    <2>1. ASSUME NEW b \in Builder, NEW j \in Job, j \in builder'[b].todo
          PROVE  job'[j].state = "NOT_CREATED"
      <3>1. j \in builder[b].todo /\ builder[b].pc # "idle"
        BY <1>0, <1>1, <2>1 DEF IdleBuilder, BuildInv
      <3>2. job[j].state = "NOT_CREATED"
        BY <1>0, <3>1 DEF BuildInv
      <3>3. ASSUME NEW c \in Builder, CreateRunnerJob(c, j) PROVE FALSE
        <4>1. c = b
          BY <1>0, <3>1, <3>3 DEF BuildInv, CreateRunnerJob
        <4>. QED
          BY <1>1, <2>1, <3>3, <4>1 DEF IdleBuilder
      <3>. QED
        BY <3>2, <3>3, CreatedByBuild
    <2>2. ASSUME NEW b \in Builder, builder'[b].pc = "idle"
          PROVE  builder'[b].todo = {}
      BY <1>0, <1>1, <2>2 DEF IdleBuilder, BuildInv
    <2>3. ASSUME NEW b \in Builder, NEW c \in Builder,
                 builder'[b].pc # "idle", builder'[c].pc # "idle"
          PROVE  b = c
      <3>1. builder[b].pc # "idle" /\ builder[c].pc # "idle"
        BY <1>1, <2>3 DEF IdleBuilder
      <3>. QED
        BY <1>0, <3>1 DEF BuildInv
    <2>. QED
      BY <2>1, <2>2, <2>3 DEF BuildInv
  <1>2. ASSUME NEW b \in Builder, BuilderStep(b) PROVE BuildInv'
    <2>1. \A c \in Builder : c # b =>
            builder'[c] = builder[c] /\ \A j \in Job : ~CreateRunnerJob(c, j)
      <3>1. builder[b].pc # "idle"
        BY <1>2 DEF BuilderStep, AbortAllTasks, SetToTranscode,
                    IncreaseOrCreate, CreateRunnerJob
      <3>2. ASSUME NEW c \in Builder, c # b PROVE builder'[c] = builder[c]
        BY <1>0, <1>2, <3>2 DEF BuilderStep, AbortAllTasks, SetToTranscode,
                         IncreaseOrCreate, CreateRunnerJob, EndBuild
      <3>3. ASSUME NEW c \in Builder, c # b, NEW j \in Job, CreateRunnerJob(c, j)
            PROVE  FALSE
        BY <1>0, <3>1, <3>3 DEF CreateRunnerJob, BuildInv
      <3>. QED
        BY <3>2, <3>3
    <2>2. CASE AbortAllTasks(b) \/ SetToTranscode(b) \/ IncreaseOrCreate(b)
      <3>1. builder[b].pc \in {"reset", "state", "increase"}
        BY <2>2 DEF AbortAllTasks, SetToTranscode, IncreaseOrCreate
      <3>2. \/ builder'[b] = IdleBuilder
            \/ /\ builder'[b].pc # "idle" /\ builder[b].pc # "idle"
               /\ builder'[b].todo = builder[b].todo
        BY <1>0, <2>2 DEF AbortAllTasks, SetToTranscode, IncreaseOrCreate,
                          EndBuild, BuildRow
      <3>3. \A j \in Job : ~CreateRunnerJob(b, j)
        BY <3>1 DEF CreateRunnerJob
      <3>. QED
        BY <1>1, <2>1, <3>2, <3>3
    <2>3. ASSUME NEW j \in Job, CreateRunnerJob(b, j) PROVE BuildInv'
      <3>1. \/ EndBuild(b)
            \/ builder' = [builder EXCEPT ![b].pc = "increase",
                                          ![b].todo = @ \ {j}]
        BY <2>3 DEF CreateRunnerJob
      <3>2. CASE EndBuild(b)
        <4>1. builder'[b] = IdleBuilder
          BY <1>0, <3>2 DEF EndBuild
        <4>. QED
          BY <1>1, <2>1, <4>1
      <3>3. CASE builder' = [builder EXCEPT ![b].pc = "increase",
                                            ![b].todo = @ \ {j}]
        <4>1. /\ builder[b].pc # "idle" /\ builder'[b].pc # "idle"
              /\ builder'[b].todo = builder[b].todo \ {j}
          BY <1>0, <2>3, <3>3 DEF CreateRunnerJob, BuildRow
        <4>2. \A i \in Job : CreateRunnerJob(b, i) => i \notin builder'[b].todo
          <5> SUFFICES ASSUME NEW i \in Job, CreateRunnerJob(b, i), i # j
                       PROVE  i \notin builder'[b].todo
            BY <4>1
          <5>1. i \in builder[b].todo /\ i \notin builder[b].todo \ {i}
            BY DEF CreateRunnerJob
          <5>2. \/ EndBuild(b)
                \/ builder' = [builder EXCEPT ![b].pc = "increase",
                                              ![b].todo = @ \ {i}]
            BY DEF CreateRunnerJob
          <5>3. EndBuild(b) => builder'[b] = IdleBuilder
            BY <1>0 DEF EndBuild
          <5>4. builder' = [builder EXCEPT ![b].pc = "increase",
                                           ![b].todo = @ \ {i}]
                => builder'[b].todo = builder[b].todo \ {i}
            BY <1>0 DEF BuildRow
          <5>. QED
            BY <5>1, <5>2, <5>3, <5>4 DEF IdleBuilder
        <4>. QED
          BY <1>1, <2>1, <4>1, <4>2
      <3>. QED
        BY <3>1, <3>2, <3>3
    <2>. QED
      BY <1>2, <2>2, <2>3 DEF BuilderStep
  <1>3. ASSUME NEW b \in Builder, NEW m \in Job, CreateTranscoding(b, m)
        PROVE  BuildInv'
    <2>1. /\ job' = job /\ NoBuild /\ m \in FreshMains
          /\ builder'[b].pc = "reset" /\ builder'[b].todo = {m} \cup Kids(m)
          /\ \A c \in Builder : c # b => builder'[c] = builder[c]
      BY <1>0, <1>3 DEF CreateTranscoding, OrderedTwice, Ordered
    <2>2. \A c \in Builder : builder[c].pc = "idle" /\ builder[c].todo = {}
      BY <1>0, <2>1 DEF NoBuild, BuildInv
    <2>3. \A j \in {m} \cup Kids(m) : job[j].state = "NOT_CREATED"
      BY <1>0, <2>1 DEF FreshMains, FamilyInv
    <2>. QED
      BY <2>1, <2>2, <2>3 DEF BuildInv
  <1>4. CASE UNCHANGED builder
    <2>1. ASSUME NEW b \in Builder, BuilderStep(b) PROVE BuildInv'
      BY <1>2, <2>1
    <2>2. CASE \A b \in Builder : ~BuilderStep(b)
      <3>1. \A b \in Builder, j \in Job : ~CreateRunnerJob(b, j)
        BY <2>2 DEF BuilderStep
      <3>. QED
        BY <1>1, <1>4, <3>1
    <2>. QED
      BY <2>1, <2>2
  <1>5. ~Restart /\ \A b \in Builder : ~BuilderThrows(b)
    BY DEF Restart, BuilderThrows, OrderedTwice, Ordered
  <1>. QED
    BY <1>2, <1>3, <1>4, <1>5, WritesBuilder

\* The initial state is in order.
LEMMA OrderInit == Init /\ TreeAssumption => OrderInv
  <1> SUFFICES ASSUME Init, TreeAssumption PROVE OrderInv
    OBVIOUS
  <1>1. /\ \A j \in Job : job[j].state = "NOT_CREATED" /\ stalled[j] = NoRow("NOT_CREATED")
        /\ \A q \in Request : request[q].pc = "idle" /\ request[q].destroy = FALSE
    BY DEF Init, NotLoaded, NoRow, IdleRequest
  <1>2. RequestsOnCourse
    BY <1>1 DEF RequestsOnCourse, OnCourse, RootOnCourse, KidsOnCourse,
                NeverFails, HeldPC, EndingPC, GiveUpPC
  <1>3. Apart /\ StalledInv
    BY <1>1 DEF Apart, At, StalledInv
  <1>4. FamilyInv
    BY <1>1 DEF FamilyInv, Kids, Cancellable
  <1>5. BuildInv
    <2>1. PICK b \in Builder, m \in Mains :
            builder = [c \in Builder |-> IF c = b THEN UploadBuild(m)
                                         ELSE IdleBuilder]
      BY DEF Init
    <2>. QED
      BY <1>1, <2>1 DEF BuildInv, UploadBuild, IdleBuilder
  <1>. QED
    BY <1>2, <1>3, <1>4, <1>5 DEF OrderInv

\* Every step keeps the order.
LEMMA OrderStep ==
    ASSUME Env \subseteq OrderedTwice
    PROVE  TypeOK /\ OrderInv /\ [Next]_vars => OrderInv'
  <1> SUFFICES ASSUME TypeOK, OrderInv, [Next]_vars PROVE OrderInv'
    OBVIOUS
  <1>1. RequestsOnCourse'
    BY OnCourseStep, TreeAssumption
  <1>2. Apart'
    BY ApartStep
  <1>3. FamilyInv'
    BY FamilyStep, TreeAssumption
  <1>4. StalledInv'
    BY StalledStep, TreeAssumption
  <1>5. BuildInv'
    BY BuildStep, TreeAssumption
  <1>. QED
    BY <1>1, <1>2, <1>3, <1>4, <1>5 DEF OrderInv

\* The order is an invariant of these environments.
LEMMA Order ==
    ASSUME Env \subseteq OrderedTwice
    PROVE  Spec => [](TypeOK /\ OrderInv)
  <1>1. Init => TypeOK /\ OrderInv
    BY TypeInit, OrderInit, TreeAssumption
  <1>2. TypeOK /\ OrderInv /\ [Next]_vars => (TypeOK /\ OrderInv)'
    BY TypeStep, OrderStep
  <1>. QED
    BY <1>1, <1>2, PTL DEF Spec

-----------------------------------------------------------------------------
(* A job ends once.                                                         *)

\* When handlers of one job do not overlap, a job that ended stays as it ended:
\* no instance loaded before is saved over it, no cascade reaches it again and
\* no second build takes it for a job of its own.
THEOREM JobsEndOnce ==
    ASSUME Env \subseteq OrderedTwice
    PROVE  Spec => FinalIsFinal
  <1>1. TypeOK /\ OrderInv /\ [Next]_vars =>
          [\A j \in Job : job[j].state \in Final =>
             job'[j].state \in {job[j].state, "DELETED"}]_vars
    <2> SUFFICES ASSUME TypeOK, OrderInv, [Next]_vars, NEW j \in Job,
                        job[j].state \in Final
                 PROVE  job'[j].state = job[j].state
      OBVIOUS
    <2>. QED
      BY AllMove, TreeAssumption
      DEF StateMoves, FollowsParent, Final, Cancellable
  <1>. QED
    BY <1>1, Order, PTL DEF Spec, FinalIsFinal

-----------------------------------------------------------------------------
(* The table implements JobLifecycle.                                       *)

Phases == [j \in Job |-> PhaseOf(job[j].state)]
Holders == [j \in Job |-> job[j].runner]
Attempts == [j \in Job |-> job[j].failures]

\* The phases the states are mapped to.
LEMMA PhaseOfStates ==
    /\ PhaseOf("NOT_CREATED") = "absent"
    /\ PhaseOf("WAITING_FOR_PARENT_JOB") = "waiting"
    /\ PhaseOf("PENDING") = "offered" /\ PhaseOf("PROCESSING") = "held"
    /\ PhaseOf("COMPLETING") = "ending" /\ PhaseOf("COMPLETED") = "done"
    /\ \A s \in {"ERRORED", "CANCELLED", "PARENT_ERRORED", "PARENT_CANCELLED"} :
         PhaseOf(s) = "dead"
  BY DEF PhaseOf, Absent

\* A row that turns changes the phase, the holder and the attempts of its job.
LEMMA TurnsMapped ==
    ASSUME NEW j \in Job, NEW s, Turns(j, s)
    PROVE  /\ Phases' = [Phases EXCEPT ![j] = PhaseOf(s)]
           /\ Holders' = [Holders EXCEPT ![j] = job'[j].runner]
           /\ Attempts' = [Attempts EXCEPT ![j] = job'[j].failures]
           /\ job'[j].runner = job[j].runner => Holders' = Holders
           /\ job'[j].failures = job[j].failures => Attempts' = Attempts
  BY DEF Turns, Phases, Holders, Attempts

\* A job given back is a GiveBack of its life.
LEMMA GiveBackMapped ==
    ASSUME NEW j \in Job, job[j].state = "PROCESSING", Turns(j, "PENDING"),
           job'[j].runner = None, job'[j].failures = job[j].failures
    PROVE  Lifecycle!GiveBack(j)
  <1>1. /\ Phases' = [Phases EXCEPT ![j] = "offered"]
        /\ Holders' = [Holders EXCEPT ![j] = None] /\ Attempts' = Attempts
    BY TurnsMapped, PhaseOfStates
  <1>2. PhaseOf(job[j].state) = "held"
    BY PhaseOfStates
  <1>. QED
    BY <1>1, <1>2
    DEF Lifecycle!GiveBack, Lifecycle!Enter, Phases, Holders, Attempts

LifecycleStep == Lifecycle!Next \/ UNCHANGED <<Phases, Holders, Attempts>>

\* Every save of a handler is a step of the life of a job.
LEMMA HandlerImplements ==
    ASSUME TypeOK, OrderInv, NEW q \in Request, HandlerWritesJob(q)
    PROVE  Lifecycle!Next
  <1> DEFINE j == request[q].root
  <1> USE DEF Lifecycle!Enter
  <1>0. /\ RowsTyped /\ RequestsTyped /\ OnCourse(request[q])
        /\ ~Destroy(q)
    BY DEF TypeOK, OrderInv, RequestsOnCourse, OnCourse, NeverFails, Destroy
  <1>1. CASE SaveCompleting(q)
    <2>1. /\ j \in Job /\ job[j].state = "PROCESSING"
          /\ Turns(j, "COMPLETING") /\ Keeps(j)
      BY <1>0, <1>1, SaveCompletingEffect
    <2> HIDE DEF j
    <2>2. /\ Phases' = [Phases EXCEPT ![j] = "ending"]
          /\ Holders' = Holders /\ Attempts' = Attempts
      BY <2>1, TurnsMapped, PhaseOfStates DEF Keeps
    <2>3. PhaseOf(job[j].state) = "held"
      BY <2>1, PhaseOfStates
    <2>4. Lifecycle!Succeed(j)
      BY <2>1, <2>2, <2>3 DEF Lifecycle!Succeed, Phases, Holders, Attempts
    <2>. QED
      BY <2>1, <2>4 DEF Lifecycle!Next
  <1>2. CASE SaveCompletion(q)
    <2>1. /\ j \in Job /\ job[j].state = "COMPLETING"
          /\ Turns(j, "COMPLETED") /\ Keeps(j)
      BY <1>0, <1>2, SaveCompletionEffect
    <2> HIDE DEF j
    <2>2. /\ Phases' = [Phases EXCEPT ![j] = "done"]
          /\ Holders' = Holders /\ Attempts' = Attempts
      BY <2>1, TurnsMapped, PhaseOfStates DEF Keeps
    <2>3. PhaseOf(job[j].state) = "ending"
      BY <2>1, PhaseOfStates
    <2>4. Lifecycle!End(j)
      BY <2>1, <2>2, <2>3 DEF Lifecycle!End, Phases, Holders, Attempts
    <2>. QED
      BY <2>1, <2>4 DEF Lifecycle!Next
  <1>3. CASE ReleaseChildren(q)
    <2>1. /\ j \in Job /\ job[j].state = "COMPLETED"
          /\ \A i \in Job :
               IF Parent[i] = j /\ job[i].state # "NOT_CREATED"
               THEN /\ job[i].state = "WAITING_FOR_PARENT_JOB"
                    /\ job'[i].state = "PENDING" /\ Keeps(i)
               ELSE job'[i] = job[i]
      BY <1>0, <1>3, ReleaseEffect
    <2> HIDE DEF j
    <2>2. \A i \in Job :
            PhaseOf(job'[i].state) =
              IF Parent[i] = j /\ PhaseOf(job[i].state) = "waiting"
              THEN "offered" ELSE PhaseOf(job[i].state)
      <3> TAKE i \in Job
      <3>1. CASE Parent[i] = j /\ job[i].state # "NOT_CREATED"
        BY <2>1, <3>1, PhaseOfStates
      <3>2. CASE ~(Parent[i] = j /\ job[i].state # "NOT_CREATED")
        BY <2>1, <3>2, PhaseOfStates
      <3>. QED
        BY <3>1, <3>2
    <2>3. \A i \in Job : job'[i].runner = job[i].runner
                         /\ job'[i].failures = job[i].failures
      BY <2>1 DEF Keeps
    <2>4. Lifecycle!Release(j)
      BY <2>1, <2>2, <2>3, PhaseOfStates DEF Lifecycle!Release
    <2>. QED
      BY <2>1, <2>4 DEF Lifecycle!Next
  <1>4. CASE AbortSave(q)
    <2>1. PICK i \in Job :
            /\ job[i].state = "PROCESSING" /\ Turns(i, "PENDING")
            /\ job'[i].runner = None /\ job'[i].failures = job[i].failures
      BY <1>0, <1>4, AbortSaveEffect
    <2>2. Lifecycle!GiveBack(i)
      BY <2>1, GiveBackMapped
    <2>. QED
      BY <2>1, <2>2 DEF Lifecycle!Next
  <1>5. CASE ErrorSave(q)
    <2>1. PICK i \in Job :
            /\ job[i].state = "PROCESSING"
            /\ Exhausted(request[q].inst[i]) <=> job[i].failures + 1 >= MaxFailures
            /\ job'[i].failures = job[i].failures + 1
            /\ IF Exhausted(request[q].inst[i])
               THEN Turns(i, "ERRORED") /\ job'[i].runner = job[i].runner
               ELSE Turns(i, "PENDING") /\ job'[i].runner = None
      BY <1>0, <1>5, ErrorSaveEffect
    <2>2. job[i].failures \in Nat /\ MaxFailures \in Nat
      BY <1>0, <2>1, BoundAssumption DEF RowsTyped, Row
    <2>3. Lifecycle!Fail(i)
      <3>1. Attempts' = [Attempts EXCEPT ![i] = @ + 1]
        BY <2>1, TurnsMapped DEF Attempts
      <3>2. Attempts'[i] < MaxFailures <=> ~Exhausted(request[q].inst[i])
        BY <2>1, <2>2 DEF Attempts
      <3>0. PhaseOf(job[i].state) = "held"
        BY <2>1, PhaseOfStates
      <3>3. CASE Exhausted(request[q].inst[i])
        <4>1. /\ Phases' = [Phases EXCEPT ![i] = "dead"]
              /\ Holders' = Holders
          BY <2>1, <3>3, TurnsMapped, PhaseOfStates
        <4>. QED
          BY <3>0, <3>1, <3>2, <3>3, <4>1
          DEF Lifecycle!Fail, Phases, Holders, Attempts
      <3>4. CASE ~Exhausted(request[q].inst[i])
        <4>1. /\ Phases' = [Phases EXCEPT ![i] = "offered"]
              /\ Holders' = [Holders EXCEPT ![i] = None]
          BY <2>1, <3>4, TurnsMapped, PhaseOfStates
        <4>. QED
          BY <3>0, <3>1, <3>2, <3>4, <4>1
          DEF Lifecycle!Fail, Phases, Holders, Attempts
      <3>. QED
        BY <3>3, <3>4
    <2>. QED
      BY <2>1, <2>3 DEF Lifecycle!Next
  <1>6. CASE CancelSave(q)
    <2> DEFINE c == request[q].cur
    <2>1. /\ c \in Job /\ job[c].state \in Cancellable /\ Keeps(c)
          /\ \/ Parent[c] = None /\ Turns(c, "CANCELLED")
             \/ /\ Parent[c] = j /\ job[j].state = "CANCELLED"
                /\ Turns(c, "PARENT_CANCELLED")
      BY <1>0, <1>6, CancelSaveEffect
    <2>2. j \in Job
      BY <1>0, <1>6, RequestHolds DEF CancelSave
    <2> HIDE DEF j, c
    <2>3. PhaseOf(job[c].state) \in Lifecycle!Open
      BY <2>1, PhaseOfStates DEF Lifecycle!Open, Cancellable
    <2>4. /\ Phases' = [Phases EXCEPT ![c] = "dead"]
          /\ Holders' = Holders /\ Attempts' = Attempts
      BY <2>1, TurnsMapped, PhaseOfStates DEF Keeps
    <2>5. Parent[c] = None \/ PhaseOf(job[Parent[c]].state) = "dead"
      BY <2>1, PhaseOfStates
    <2>6. Lifecycle!GiveUp(c)
      BY <2>1, <2>2, <2>3, <2>4, <2>5
      DEF Lifecycle!GiveUp, Phases, Holders, Attempts
    <2>. QED
      BY <2>1, <2>6 DEF Lifecycle!Next
  <1>7. ASSUME NEW k \in Job, ErrorChild(q, k) PROVE Lifecycle!Next
    <2>1. /\ Parent[k] = j /\ job[j].state = "ERRORED"
          /\ job[k].state = "WAITING_FOR_PARENT_JOB"
          /\ Turns(k, "PARENT_ERRORED") /\ Keeps(k)
      BY <1>0, <1>7, ErrorChildEffect
    <2>2. j \in Job
      BY <1>0, <1>7, RequestHolds DEF ErrorChild
    <2> HIDE DEF j
    <2>3. PhaseOf(job[k].state) \in Lifecycle!Open
      BY <2>1, PhaseOfStates DEF Lifecycle!Open
    <2>4. /\ Phases' = [Phases EXCEPT ![k] = "dead"]
          /\ Holders' = Holders /\ Attempts' = Attempts
      BY <2>1, TurnsMapped, PhaseOfStates DEF Keeps
    <2>5. PhaseOf(job[Parent[k]].state) = "dead"
      BY <2>1, PhaseOfStates
    <2>6. Lifecycle!GiveUp(k)
      BY <2>1, <2>2, <2>3, <2>4, <2>5
      DEF Lifecycle!GiveUp, Phases, Holders, Attempts
    <2>. QED
      BY <2>6 DEF Lifecycle!Next
  <1>. QED
    BY <1>0, <1>1, <1>2, <1>3, <1>4, <1>5, <1>6, <1>7, Zenon DEF HandlerWritesJob

\* Every step maps to a step of the life of a job or to a stutter.
LEMMA StepImplements ==
    ASSUME TypeOK, OrderInv, TreeAssumption, [Next]_vars
    PROVE  LifecycleStep
  <1> USE DEF Lifecycle!Enter
  <1>0. RowsTyped /\ BuildInv /\ FamilyInv /\ StalledInv
    BY DEF TypeOK, OrderInv
  <1>1. ASSUME NEW q \in Request, HandlerWritesJob(q) PROVE LifecycleStep
    BY <1>1, HandlerImplements DEF LifecycleStep
  <1>2. ASSUME NEW r \in Runner, NEW j \in Job, AcceptRunnerJob(r, j)
        PROVE  LifecycleStep
    <2>1. /\ job[j].state = "PENDING" /\ Turns(j, "PROCESSING")
          /\ job'[j].runner = r /\ job'[j].failures = job[j].failures
      BY <1>0, <1>2, AcceptEffect
    <2>2. /\ Phases' = [Phases EXCEPT ![j] = "held"]
          /\ Holders' = [Holders EXCEPT ![j] = r] /\ Attempts' = Attempts
      BY <2>1, TurnsMapped, PhaseOfStates
    <2>3. PhaseOf(job[j].state) = "offered"
      BY <2>1, PhaseOfStates
    <2>4. Lifecycle!Take(j, r)
      BY <2>2, <2>3 DEF Lifecycle!Take, Phases, Holders, Attempts
    <2>. QED
      BY <2>4 DEF Lifecycle!Next, LifecycleStep
  <1>3. ASSUME NEW r \in Runner, DeleteRunner(r) PROVE LifecycleStep
    <2>1. \A j \in Job :
            /\ job'[j].state = job[j].state
            /\ job'[j].failures = job[j].failures
            /\ job'[j].runner = IF job[j].runner = r THEN None ELSE job[j].runner
      BY <1>0, <1>3, DeleteRunnerEffect
    <2>2. Lifecycle!Desert(r)
      BY <2>1 DEF Lifecycle!Desert
    <2>. QED
      BY <2>2 DEF Lifecycle!Next, LifecycleStep
  <1>4. ASSUME NEW j \in Job, AbortStalled(j) PROVE LifecycleStep
    <2>1. /\ job[j].state = "PROCESSING" /\ Turns(j, "PENDING")
          /\ job'[j].runner = None /\ job'[j].failures = job[j].failures
      BY <1>0, <1>4, AbortStalledEffect
    <2>2. Lifecycle!GiveBack(j)
      BY <2>1, GiveBackMapped
    <2>. QED
      BY <2>2 DEF Lifecycle!Next, LifecycleStep
  <1>5. ASSUME NEW b \in Builder, NEW j \in Job, CreateRunnerJob(b, j)
        PROVE  LifecycleStep
    <2>1. CASE job' = job
      BY <2>1 DEF LifecycleStep, Phases, Holders, Attempts
    <2>2. CASE job' # job
      <3>1. /\ job[j].state = "NOT_CREATED" /\ Turns(j, InitialState(j))
            /\ Keeps(j)
            /\ Parent[j] # None =>
                 Parent[j] \in Job /\ job[Parent[j]].state # "NOT_CREATED"
        BY <1>0, <1>5, <2>2, CreateEffect
      <3>2. PhaseOf(InitialState(j)) =
              IF Parent[j] = None THEN "offered" ELSE "waiting"
        BY PhaseOfStates DEF InitialState
      <3>3. Parent[j] # None => PhaseOf(job[Parent[j]].state) # "absent"
        <4>1. ASSUME Parent[j] # None
              PROVE  job[Parent[j]].state \notin Absent
          BY <1>0, <3>1, <4>1 DEF FamilyInv, Absent
        <4>. QED
          BY <4>1 DEF PhaseOf
      <3>4. /\ Phases' = [Phases EXCEPT ![j] = PhaseOf(InitialState(j))]
            /\ Holders' = Holders /\ Attempts' = Attempts
        BY <3>1, TurnsMapped DEF Keeps
      <3>5. Lifecycle!Create(j)
        BY <3>1, <3>2, <3>3, <3>4, PhaseOfStates
        DEF Lifecycle!Create, Phases, Holders, Attempts
      <3>. QED
        BY <3>5 DEF Lifecycle!Next, LifecycleStep
    <2>. QED
      BY <2>1, <2>2
  <1>6. CASE UNCHANGED job
    BY <1>6 DEF LifecycleStep, Phases, Holders, Attempts
  <1>. QED
    BY <1>1, <1>2, <1>3, <1>4, <1>5, <1>6, WritesJob DEF JobWriters

\* When handlers of one job do not overlap, the table with its handlers
\* implements the life of a job: no statement of a handler, no partial save and
\* no instance loaded before can lead a job where JobLifecycle does not.
THEOREM HandlersImplementLifecycle ==
    ASSUME Env \subseteq OrderedTwice
    PROVE  Spec => ImplementsLifecycle
  <1>1. Init => Lifecycle!Init
    BY PhaseOfStates DEF Init, NotLoaded, NoRow, Lifecycle!Init
  <1>2. TypeOK /\ OrderInv /\ [Next]_vars => [Lifecycle!Next]_(Lifecycle!vars)
    BY StepImplements, TreeAssumption
    DEF LifecycleStep, Lifecycle!vars, Phases, Holders, Attempts
  <1>. QED
    BY <1>1, <1>2, Order, PTL DEF Spec, ImplementsLifecycle, Lifecycle!Spec
=============================================================================
