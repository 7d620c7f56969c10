---------------------- MODULE RunnerJobsAccountProofs ----------------------
(***************************************************************************)
(* Proofs about pendingTranscode when handlers of one job do not overlap:  *)
(* the counter accounts for the jobs, batches do not mix and the video is  *)
(* moved after the last job.                                               *)
(***************************************************************************)
EXTENDS RunnerJobsLifecycleProofs

-----------------------------------------------------------------------------
(* What the counter counts.                                                 *)

\* The states of the jobs that were added to the counter and that no handler
\* took off it: the last one ends with its parent, which is taken off alone.
DueState == { "PENDING", "PROCESSING", "WAITING_FOR_PARENT_JOB", "COMPLETING",
              "PARENT_ERRORED" }

Due(j) == job[j].state \in DueState

\* The handler took j off the counter and has not saved j's end yet.
Takes(r, j) ==
    \/ r.root = j /\ r.pc \in {"nextState", "saveCompleted"}
    \/ r.root = j /\ r.pc = "errorSave" /\ Exhausted(r.inst[j])
    \/ r.cur = j /\ r.pc \in {"cancelNext", "cancelSave"}

Owed == { j \in Job : Due(j) /\ \A q \in Request : ~Takes(request[q], j) }

Todo == { j \in Job : \E b \in Builder : j \in builder[b].todo }

\* A job's row was created and the counter not increased yet.
Adding == \E b \in Builder : builder[b].pc = "increase"

CountInv == pending + (IF Adding THEN 1 ELSE 0) = Cardinality(Owed)

\* The counter has its row before anyone decreases it.
RowInv ==
    ~infoRow => /\ \A q \in Request : ~At(q)
                /\ \A j \in Job : Exists(j) => Adding

BatchInv == \A i, j \in Owed \cup Todo : MainOf(i) = MainOf(j)

\* abortAllTasks has nothing to abort.
ResetInv == \A b \in Builder : builder[b].pc = "reset" => pending = 0

\* Inductive together with TypeOK and OrderInv.
AccountInv ==
    CountInv /\ RowInv /\ BatchInv /\ ResetInv /\ video # "DELETED"

-----------------------------------------------------------------------------
(* What a handler takes off the counter.                                    *)

TakingPC == { "nextState", "saveCompleted", "errorSave", "cancelNext",
              "cancelSave" }

\* At most labels a handler has taken nothing off the counter.
LEMMA TakesNone ==
    ASSUME NEW r, NEW j, r.pc \notin TakingPC
    PROVE  ~Takes(r, j)
  BY DEF Takes, TakingPC

\* A handler takes off jobs of its root's family.
LEMMA TakesFamily ==
    ASSUME NEW q \in Request, OnCourse(request[q]), NEW j \in Job,
           Takes(request[q], j)
    PROVE  At(q) /\ (j = request[q].root \/ Parent[j] = request[q].root)
  BY DEF Takes, At, OnCourse, RootOnCourse, KidsOnCourse, GiveUpPC, Kids

\* The counter stays and, as far as q is concerned, counts the same jobs.
Settled(q) ==
    /\ pending' = pending
    /\ \A j \in Job : Due(j)' /\ ~Takes(request'[q], j)
                        <=> Due(j) /\ ~Takes(request[q], j)

\* The counter is decreased for j alone.
TakesOff(q, j) ==
    /\ Decrease /\ job' = job
    /\ Due(j) /\ (j = request[q].root \/ Parent[j] = request[q].root)
    /\ \A i \in Job : ~Takes(request[q], i) /\ (Takes(request'[q], i) <=> i = j)

\* A statement that saves no row and moves from one label to another.
LEMMA GotoSettles ==
    ASSUME RequestsTyped, NEW q \in Request, NEW label,
           job' = job, pending' = pending, Goto(q, label),
           \/ /\ request[q].pc \notin TakingPC
              /\ label \notin TakingPC
           \/ request[q].pc = "errorFail" /\ label = "errorSave"
              /\ ~Exhausted(request[q].inst[request[q].root])
           \/ request[q].pc = "nextState" /\ label = "saveCompleted"
           \/ request[q].pc = "cancelNext" /\ label = "cancelSave"
    PROVE  Settled(q)
  <1>1. LET r == request[q] s == request'[q]
        IN /\ s.pc = label /\ s.root = r.root /\ s.cur = r.cur
           /\ s.inst = r.inst
    BY GotoFields
  <1>2. \A j \in Job : Takes(request'[q], j) <=> Takes(request[q], j)
    BY <1>1 DEF Takes, TakingPC
  <1>. QED
    BY <1>2 DEF Settled, Due

\* A handler that finishes is idle.
LEMMA FinishPC ==
    ASSUME RequestsTyped, NEW q \in Request, Finish(q)
    PROVE  request'[q].pc = "idle"
  BY DEF RequestsTyped, Finish, IdleRequest

\* A completion: the job is taken off before its row is saved.
LEMMA CompleteSettles ==
    ASSUME RowsTyped, RequestsTyped, NEW q \in Request, OnCourse(request[q]),
           video # "DELETED",
           \/ SaveCompleting(q) \/ AttachFile(q) \/ CompleteNextState(q)
           \/ SaveCompletion(q) \/ ReleaseChildren(q) \/ AbortSave(q)
    PROVE  Settled(q)
  <1> DEFINE r == request[q]
             s == request'[q]
             x == r.root
  <1>1. CASE SaveCompleting(q)
    <2>1. /\ job[x].state = "PROCESSING" /\ job'[x].state = "COMPLETING"
          /\ \A i \in Job : i # x => job'[i] = job[i]
      BY <1>1, SaveCompletingEffect DEF Turns
    <2>2. r.pc = "saveCompleting" /\ s.pc = "attach" /\ pending' = pending
      BY <1>1 DEF SaveCompleting, RequestsTyped, RequestRow, videoVars
    <2>3. \A i \in Job : ~Takes(r, i) /\ ~Takes(s, i)
      BY <2>2 DEF Takes
    <2>. QED
      BY <2>1, <2>2, <2>3 DEF Settled, Due, DueState
  <1>2. CASE AttachFile(q)
    <2>1. r.pc = "attach" /\ Goto(q, "decrease") /\ job' = job /\ pending' = pending
      BY <1>2 DEF AttachFile
    <2>. QED
      BY <2>1, GotoSettles DEF TakingPC
  <1>3. CASE CompleteNextState(q)
    BY <1>3, GotoSettles DEF CompleteNextState
  <1>4. CASE SaveCompletion(q)
    <2>1. /\ x \in Job /\ r.pc = "saveCompleted" /\ job'[x].state = "COMPLETED"
          /\ \A i \in Job : i # x => job'[i] = job[i]
      BY <1>4, SaveCompletionEffect DEF Turns
    <2>2. DropAndGoto(q, x, "release") /\ pending' = pending
      BY <1>4 DEF SaveCompletion, videoVars
    <2>3. s.pc = "release"
      BY <2>1, <2>2, DropFields
    <2>4. \A i \in Job : ~Takes(s, i) /\ (Takes(r, i) <=> i = x)
      BY <2>1, <2>3 DEF Takes
    <2>. QED
      BY <2>1, <2>2, <2>4 DEF Settled, Due, DueState
  <1>5. CASE ReleaseChildren(q)
    <2>1. \A i \in Job : \/ /\ job[i].state = "WAITING_FOR_PARENT_JOB"
                            /\ job'[i].state = "PENDING"
                         \/ job'[i] = job[i]
      BY <1>5, ReleaseEffect
    <2>2. r.pc = "release" /\ s.pc = "idle" /\ pending' = pending
      BY <1>5, FinishPC DEF ReleaseChildren, videoVars
    <2>3. \A i \in Job : ~Takes(r, i) /\ ~Takes(s, i)
      BY <2>2 DEF Takes
    <2>. QED
      BY <2>1, <2>2, <2>3 DEF Settled, Due, DueState
  <1>6. CASE AbortSave(q)
    <2>1. /\ job[x].state = "PROCESSING" /\ job'[x].state = "PENDING"
          /\ \A i \in Job : i # x => job'[i] = job[i]
      BY <1>6, AbortSaveEffect DEF Turns
    <2>2. r.pc = "abortSave" /\ s.pc = "idle" /\ pending' = pending
      BY <1>6, FinishPC DEF AbortSave, videoVars
    <2>3. \A i \in Job : ~Takes(r, i) /\ ~Takes(s, i)
      BY <2>2 DEF Takes
    <2>. QED
      BY <2>1, <2>2, <2>3 DEF Settled, Due, DueState
  <1>. QED
    BY <1>1, <1>2, <1>3, <1>4, <1>5, <1>6

\* An error: the job is taken off with its last attempt, its children never.
LEMMA ErrorSettles ==
    ASSUME RowsTyped, RequestsTyped, NEW q \in Request, OnCourse(request[q]),
           video # "DELETED",
           \/ ErrorFail(q) \/ ErrorSave(q) \/ ErrorListChildren(q)
           \/ ErrorEnd(q) \/ \E k \in Job : ErrorChild(q, k)
    PROVE  Settled(q)
  <1> DEFINE r == request[q]
             s == request'[q]
             x == r.root
  <1>1. CASE ErrorFail(q)
    <2>1. /\ r.pc = "errorFail" /\ job' = job /\ pending' = pending
          /\ \/ Goto(q, "errorDecrease")
             \/ Goto(q, "errorSave") /\ ~Exhausted(r.inst[x])
      BY <1>1 DEF ErrorFail
    <2>. QED
      BY <2>1, GotoSettles DEF TakingPC
  <1>2. CASE ErrorSave(q)
    <2>0. /\ x \in Job /\ job[x].state = "PROCESSING" /\ r.pc = "errorSave"
          /\ pending' = pending
      BY <1>2, ErrorSaveEffect DEF ErrorSave, videoVars
    <2>1. CASE Exhausted(r.inst[x])
      <3>1. job'[x].state = "ERRORED" /\ \A i \in Job : i # x => job'[i] = job[i]
        BY <1>2, <2>1, ErrorSaveEffect DEF Turns
      <3>2. DropAndGoto(q, x, "errorList")
        BY <1>2, <2>1 DEF ErrorSave
      <3>3. s.pc = "errorList"
        BY <2>0, <3>2, DropFields
      <3>4. \A i \in Job : ~Takes(s, i) /\ (Takes(r, i) <=> i = x)
        BY <2>0, <2>1, <3>3 DEF Takes
      <3>. QED
        BY <2>0, <3>1, <3>4 DEF Settled, Due, DueState
    <2>2. CASE ~Exhausted(r.inst[x])
      <3>1. job'[x].state = "PENDING" /\ \A i \in Job : i # x => job'[i] = job[i]
        BY <1>2, <2>2, ErrorSaveEffect DEF Turns
      <3>2. s.pc = "idle"
        BY <1>2, <2>2, FinishPC DEF ErrorSave
      <3>3. \A i \in Job : ~Takes(s, i) /\ ~Takes(r, i)
        BY <2>0, <2>2, <3>2 DEF Takes
      <3>. QED
        BY <2>0, <3>1, <3>3 DEF Settled, Due, DueState
    <2>. QED
      BY <2>1, <2>2
  <1>3. CASE ErrorListChildren(q) \/ ErrorEnd(q)
    <2>1. /\ r.pc \in {"errorList", "errorKids"} /\ job' = job
          /\ s.pc \in {"errorKids", "idle"} /\ pending' = pending
      BY <1>3, FinishPC DEF ErrorListChildren, ErrorEnd, LoadChildren,
                            RequestsTyped, RequestRow, videoVars
    <2>2. \A i \in Job : ~Takes(r, i) /\ ~Takes(s, i)
      BY <2>1 DEF Takes
    <2>. QED
      BY <2>1, <2>2 DEF Settled, Due
  <1>4. ASSUME NEW k \in Job, ErrorChild(q, k) PROVE Settled(q)
    <2>1. /\ job[k].state = "WAITING_FOR_PARENT_JOB"
          /\ job'[k].state = "PARENT_ERRORED"
          /\ \A i \in Job : i # k => job'[i] = job[i]
      BY <1>4, ErrorChildEffect DEF Turns
    <2>2. r.pc = "errorKids" /\ s.pc = "errorKids" /\ pending' = pending
      <3>1. r \in RequestRow /\ r.pc = "errorKids" /\ pending' = pending
        BY <1>4 DEF ErrorChild, RequestsTyped, videoVars
      <3>2. s = [r EXCEPT !.kids = @ \ {k}, !.inst[k] = NoRow("NOT_CREATED")]
        BY <1>4 DEF ErrorChild, RequestsTyped
      <3>. QED
        BY <3>1, <3>2 DEF RequestRow
    <2>3. \A i \in Job : ~Takes(r, i) /\ ~Takes(s, i)
      BY <2>2 DEF Takes
    <2>. QED
      BY <2>1, <2>2, <2>3 DEF Settled, Due, DueState
  <1>. QED
    BY <1>1, <1>2, <1>3, <1>4

\* A cancellation: the job and then each of its children are taken off.
LEMMA CancelSettles ==
    ASSUME RowsTyped, RequestsTyped, NEW q \in Request, OnCourse(request[q]),
           \/ CancelNextState(q) \/ CancelSave(q) \/ CancelListChildren(q)
           \/ CancelEnd(q) \/ \E k \in Job : CancelChild(q, k)
    PROVE  Settled(q)
  <1> DEFINE r == request[q]
             s == request'[q]
             x == r.cur
  <1>1. CASE CancelNextState(q)
    BY <1>1, GotoSettles DEF CancelNextState
  <1>2. CASE CancelSave(q)
    <2>1. /\ x \in Job /\ job'[x].state \in {"CANCELLED", "PARENT_CANCELLED"}
          /\ \A i \in Job : i # x => job'[i] = job[i]
      BY <1>2, CancelSaveEffect DEF Turns
    <2>2. /\ r.pc = "cancelSave" /\ pending' = pending
          /\ DropAndGoto(q, x, IF x = r.root THEN "cancelList" ELSE "cancelKids")
      BY <1>2 DEF CancelSave, videoVars
    <2>3. s.pc = IF x = r.root THEN "cancelList" ELSE "cancelKids"
      BY <2>1, <2>2, DropFields
    <2>4. \A i \in Job : ~Takes(s, i) /\ (Takes(r, i) <=> i = x)
      BY <2>2, <2>3 DEF Takes
    <2>. QED
      BY <2>1, <2>2, <2>4 DEF Settled, Due, DueState
  <1>3. CASE CancelListChildren(q) \/ CancelEnd(q) \/ \E k \in Job : CancelChild(q, k)
    <2>1. /\ r.pc \in {"cancelList", "cancelKids"} /\ job' = job
          /\ pending' = pending
      BY <1>3 DEF CancelListChildren, CancelEnd, CancelChild, videoVars
    <2>2. s.pc \in {"cancelKids", "cancelDecrease", "destroy", "idle"}
      <3>1. CASE CancelListChildren(q)
        BY <3>1 DEF CancelListChildren, LoadChildren, RequestsTyped, RequestRow
      <3>2. CASE CancelEnd(q)
        BY <3>2, FinishPC, GotoFields DEF CancelEnd
      <3>3. ASSUME NEW k \in Job, CancelChild(q, k) PROVE s.pc = "cancelDecrease"
        <4>1. r \in RequestRow
          BY DEF RequestsTyped
        <4>2. s = [r EXCEPT !.pc = "cancelDecrease", !.cur = k, !.kids = @ \ {k}]
          BY <3>3 DEF CancelChild, RequestsTyped
        <4>. QED
          BY <4>1, <4>2 DEF RequestRow
      <3>. QED
        BY <1>3, <3>1, <3>2, <3>3
    <2>3. \A i \in Job : ~Takes(r, i) /\ ~Takes(s, i)
      BY <2>1, <2>2 DEF Takes
    <2>. QED
      BY <2>1, <2>3 DEF Settled, Due
  <1>. QED
    BY <1>1, <1>2, <1>3

\* The three statements that decrease the counter take one due job off.
LEMMA DecreaseTakesOff ==
    ASSUME RowsTyped, RequestsTyped, NEW q \in Request, OnCourse(request[q]),
           OnTranscodingEnded(q) \/ ErrorDecrease(q) \/ CancelDecrease(q)
    PROVE  \E j \in Job : TakesOff(q, j)
  <1> DEFINE r == request[q]
             s == request'[q]
  <1>1. CASE OnTranscodingEnded(q)
    <2>1. /\ r.pc = "decrease" /\ Decrease /\ job' = job /\ Goto(q, "nextState")
          /\ r.root \in Job
      BY <1>1, RequestHolds DEF OnTranscodingEnded
    <2>2. s.pc = "nextState" /\ s.root = r.root
      BY <2>1, GotoFields
    <2>3. job[r.root].state = "COMPLETING"
      BY <2>1 DEF OnCourse, RootOnCourse, EndingPC
    <2>4. \A i \in Job : ~Takes(r, i) /\ (Takes(s, i) <=> i = r.root)
      BY <2>1, <2>2 DEF Takes
    <2>5. TakesOff(q, r.root)
      BY <2>1, <2>3, <2>4 DEF TakesOff, Due, DueState
    <2>. QED
      BY <2>1, <2>5
  <1>2. CASE ErrorDecrease(q)
    <2>1. /\ r.pc = "errorDecrease" /\ Decrease /\ job' = job
          /\ Goto(q, "errorSave") /\ r.root \in Job
      BY <1>2, RequestHolds DEF ErrorDecrease
    <2>2. s.pc = "errorSave" /\ s.root = r.root /\ s.inst = r.inst
      BY <2>1, GotoFields
    <2>3. job[r.root].state = "PROCESSING" /\ Exhausted(r.inst[r.root])
      BY <2>1 DEF OnCourse, RootOnCourse, HeldPC, Current
    <2>4. \A i \in Job : ~Takes(r, i) /\ (Takes(s, i) <=> i = r.root)
      BY <2>1, <2>2, <2>3 DEF Takes
    <2>5. TakesOff(q, r.root)
      BY <2>1, <2>3, <2>4 DEF TakesOff, Due, DueState
    <2>. QED
      BY <2>1, <2>5
  <1>3. CASE CancelDecrease(q)
    <2>1. PICK label \in {"cancelNext", "cancelSave"} : Goto(q, label)
      BY <1>3 DEF CancelDecrease
    <2>2. /\ r.pc = "cancelDecrease" /\ Decrease /\ job' = job /\ r.cur \in Job
      BY <1>3, RequestHolds DEF CancelDecrease
    <2>3. s.pc = label /\ s.cur = r.cur
      BY <2>1, GotoFields
    <2>4. /\ r.cur = r.root \/ Parent[r.cur] = r.root
          /\ job[r.cur].state \in Cancellable
      BY <2>2 DEF OnCourse, RootOnCourse, KidsOnCourse, Kids, GiveUpPC,
                  Untouched, Cancellable
    <2>5. \A i \in Job : ~Takes(r, i) /\ (Takes(s, i) <=> i = r.cur)
      BY <2>2, <2>3 DEF Takes
    <2>6. TakesOff(q, r.cur)
      BY <2>2, <2>4, <2>5 DEF TakesOff, Due, DueState, Cancellable
    <2>. QED
      BY <2>2, <2>6
  <1>. QED
    BY <1>1, <1>2, <1>3

\* Every statement of a handler does one or the other.
LEMMA HandlerSettles ==
    ASSUME RowsTyped, RequestsTyped, NEW q \in Request, OnCourse(request[q]),
           video # "DELETED", HandlerStep(q)
    PROVE  At(q) /\ (Settled(q) \/ \E j \in Job : TakesOff(q, j))
  <1>1. At(q)
    BY DEF At, HandlerStep, CompleteStep, SaveCompleting, AttachFile,
           OnTranscodingEnded, CompleteNextState, SaveCompletion,
           ReleaseChildren, AbortSave, ErrorStep, ErrorFail, ErrorDecrease,
           ErrorSave, ErrorListChildren, ErrorEnd, ErrorChild, CancelStep,
           CancelDecrease, CancelNextState, CancelSave, CancelListChildren,
           CancelEnd, CancelChild, Destroy
  <1>2. ~Destroy(q)
    BY DEF Destroy, OnCourse, NeverFails
  <1>. QED
    BY <1>1, <1>2, CompleteSettles, ErrorSettles, CancelSettles,
       DecreaseTakesOff, Zenon
    DEF HandlerStep, CompleteStep, ErrorStep, CancelStep

-----------------------------------------------------------------------------
(* How a step moves the account.                                            *)

\* What a handler took off was due.
LEMMA TakesDue ==
    ASSUME NEW q \in Request, OnCourse(request[q]), NEW j \in Job,
           Takes(request[q], j)
    PROVE  Due(j)
  BY DEF Takes, Due, DueState, OnCourse, RootOnCourse, KidsOnCourse, HeldPC,
         EndingPC, GiveUpPC, Current, Untouched, Cancellable

\* Handlers take off jobs of different families.
LEMMA OthersTakeNone ==
    ASSUME OrderInv, NEW q \in Request, At(q), NEW j \in Job,
           j = request[q].root \/ Parent[j] = request[q].root,
           NEW p \in Request, p # q
    PROVE  ~Takes(request[p], j)
  <1> SUFFICES ASSUME Takes(request[p], j) PROVE FALSE
    OBVIOUS
  <1>1. OnCourse(request[p])
    BY DEF OrderInv, RequestsOnCourse
  <1>2. At(p) /\ (j = request[p].root \/ Parent[j] = request[p].root)
    BY <1>1, TakesFamily
  <1>3. ~Related(request[p].root, request[q].root)
    BY <1>2 DEF OrderInv, Apart
  <1>. QED
    BY <1>2, <1>3 DEF Related

\* A handler's statement that takes nothing off keeps the jobs owed.
LEMMA OwedSettled ==
    ASSUME RequestsTyped, NEW q \in Request, Settled(q),
           \A p \in Request : p # q => request'[p] = request[p]
    PROVE  Owed' = Owed
  <1>1. ASSUME NEW j \in Job
        PROVE  /\ Due(j)' /\ (\A p \in Request : ~Takes(request'[p], j))
               <=> Due(j) /\ (\A p \in Request : ~Takes(request[p], j))
    <2>1. \A p \in Request : p # q =>
            (Takes(request'[p], j) <=> Takes(request[p], j))
      OBVIOUS
    <2>2. Due(j)' /\ ~Takes(request'[q], j) <=> Due(j) /\ ~Takes(request[q], j)
      BY DEF Settled
    <2>. QED
      BY <2>1, <2>2, Zenon
  <1>. QED
    BY <1>1 DEF Owed

\* One that takes a job off removes exactly that job from those owed.
LEMMA OwedTaken ==
    ASSUME OrderInv, NEW q \in Request, At(q), NEW j \in Job, TakesOff(q, j),
           \A p \in Request : p # q => request'[p] = request[p]
    PROVE  j \in Owed /\ Owed' = Owed \ {j}
  <1>1. \A p \in Request : p # q => ~Takes(request[p], j)
    BY OthersTakeNone DEF TakesOff
  <1>2. j \in Owed
    BY <1>1 DEF TakesOff, Owed
  <1>3. \A i \in Job : Due(i)' <=> Due(i)
    BY DEF TakesOff, Due
  <1>4. ASSUME NEW i \in Job
        PROVE  /\ Due(i)' /\ (\A p \in Request : ~Takes(request'[p], i))
               <=> /\ Due(i) /\ (\A p \in Request : ~Takes(request[p], i))
                   /\ i # j
    <2>1. \A p \in Request : p # q =>
            (Takes(request'[p], i) <=> Takes(request[p], i))
      OBVIOUS
    <2>2. ~Takes(request[q], i) /\ (Takes(request'[q], i) <=> i = j)
      BY DEF TakesOff
    <2>. QED
      BY <1>3, <2>1, <2>2, Zenon
  <1>. QED
    BY <1>2, <1>4 DEF Owed

\* A step that changes neither rows nor handlers keeps the jobs owed.
LEMMA OwedSame ==
    ASSUME request' = request, \A j \in Job : Due(j)' <=> Due(j)
    PROVE  Owed' = Owed
  BY DEF Owed

\* Handlers leave the builds alone.
LEMMA HandlerKeepsBuilder ==
    ASSUME NEW q \in Request, HandlerStep(q)
    PROVE  builder' = builder
  <1>1. CASE CompleteStep(q)
    BY <1>1 DEF CompleteStep, SaveCompleting, AttachFile, OnTranscodingEnded,
                CompleteNextState, SaveCompletion, ReleaseChildren
  <1>2. CASE ErrorStep(q)
    BY <1>2 DEF ErrorStep, ErrorFail, ErrorDecrease, ErrorSave,
                ErrorListChildren, ErrorEnd, ErrorChild
  <1>3. CASE CancelStep(q)
    BY <1>3 DEF CancelStep, CancelDecrease, CancelNextState, CancelSave,
                CancelListChildren, CancelEnd, CancelChild, Destroy
  <1>4. CASE AbortSave(q)
    BY <1>4 DEF AbortSave
  <1>. QED
    BY <1>1, <1>2, <1>3, <1>4 DEF HandlerStep

\* A counter row stays and no one deletes the video.
LEMMA RowStays ==
    ASSUME Env \subseteq OrderedTwice, [Next]_vars, infoRow
    PROVE  infoRow'
  <1>1. MoveToNextState => infoRow'
    BY MoveToNextStateCases, Zenon
  <1>2. ~DeleteVideo /\ ~Restart
    BY DEF DeleteVideo, Restart, OrderedTwice, Ordered
  <1>3. CASE UNCHANGED videoVars
    BY <1>3, Zenon DEF videoVars
  <1>. QED
    BY <1>1, <1>2, <1>3, WritesVideo, Zenon
    DEF VideoWriters, AttachFile, OnTranscodingEnded, CompleteNextState,
        ErrorFail, ErrorDecrease, CancelDecrease, CancelNextState,
        AbortAllTasks, SetToTranscode, IncreaseOrCreate, MoveFiles,
        DoAfterLastMove, MoveFails

\* In these environments nothing deletes the video.
LEMMA VideoStays ==
    ASSUME Env \subseteq OrderedTwice, [Next]_vars, video # "DELETED"
    PROVE  video' # "DELETED"
  <1>1. MoveToNextState =>
          video' \in {video, "PUBLISHED", "TO_MOVE_TO_EXTERNAL_STORAGE"}
    BY MoveToNextStateCases
  <1>2. ~DeleteVideo /\ ~Restart
    BY DEF DeleteVideo, Restart, OrderedTwice, Ordered
  <1>3. CASE UNCHANGED videoVars
    BY <1>3 DEF videoVars
  <1>4. ASSUME NEW q \in Request,
               \/ AttachFile(q) \/ OnTranscodingEnded(q) \/ CompleteNextState(q)
               \/ ErrorFail(q) \/ ErrorDecrease(q) \/ CancelDecrease(q)
               \/ CancelNextState(q)
        PROVE  video' # "DELETED"
    <2>1. \/ video' = video \/ MoveToNextState \/ video' = "TRANSCODING_FAILED"
      BY <1>4, Zenon
      DEF AttachFile, OnTranscodingEnded, CompleteNextState, ErrorFail,
          ErrorDecrease, CancelDecrease, CancelNextState,
          MoveToFailedTranscodingState
    <2>. QED
      BY <1>1, <2>1
  <1>5. ASSUME NEW b \in Builder,
               AbortAllTasks(b) \/ SetToTranscode(b) \/ IncreaseOrCreate(b)
        PROVE  video' # "DELETED"
    <2>1. video' = video \/ video' = "TO_TRANSCODE"
      BY <1>5, Zenon DEF AbortAllTasks, SetToTranscode, IncreaseOrCreate, Merge
    <2>. QED
      BY <2>1
  <1>6. CASE MoveFiles \/ DoAfterLastMove \/ MoveFails
    <2>1. \/ video' = video \/ MoveToNextState
          \/ video' = "TO_MOVE_TO_EXTERNAL_STORAGE_FAILED"
      BY <1>6, Zenon DEF MoveFiles, DoAfterLastMove, MoveFails
    <2>. QED
      BY <1>1, <2>1
  <1>. QED
    BY <1>2, <1>3, <1>4, <1>5, <1>6, WritesVideo, Zenon DEF VideoWriters

\* What a step does to what is owed, to the counter, to the row that is not
\* counted yet and to the jobs that are not created yet.
Kept == Owed' = Owed /\ pending' = pending /\ (Adding' <=> Adding)

Subtracted(j) ==
    /\ j \in Owed /\ Owed' = Owed \ {j} /\ pending' = pending - 1
    /\ (Adding' <=> Adding) /\ Todo' = Todo

Created(j) ==
    /\ j \in Todo \ Owed /\ Owed' = Owed \cup {j} /\ pending' = pending
    /\ ~Adding /\ Adding' /\ Todo' \subseteq Todo

Counted ==
    /\ Owed' = Owed /\ pending' = pending + 1
    /\ Adding /\ ~Adding' /\ infoRow' /\ Todo' \subseteq Todo

AccountMove ==
    \/ Kept /\ Todo' \subseteq Todo
    \/ \E j \in Job : Subtracted(j) \/ Created(j)
    \/ Counted

\* Every statement of a handler moves the account in one of its four ways.
LEMMA HandlerMovesAccount ==
    ASSUME TypeOK, OrderInv, RowInv, video # "DELETED",
           NEW q \in Request, HandlerStep(q)
    PROVE  AccountMove
  <1>0. RowsTyped /\ RequestsTyped /\ OnCourse(request[q])
    BY DEF TypeOK, OrderInv, RequestsOnCourse
  <1>1. builder' = builder
    BY HandlerKeepsBuilder
  <1>2. Todo' = Todo /\ (Adding' <=> Adding)
    BY <1>1 DEF Todo, Adding
  <1>3. \A p \in Request : p # q => request'[p] = request[p]
    BY <1>0, OthersStay
  <1>4. At(q) /\ (Settled(q) \/ \E j \in Job : TakesOff(q, j))
    BY <1>0, HandlerSettles
  <1>5. CASE Settled(q)
    <2>1. Owed' = Owed /\ pending' = pending
      BY <1>0, <1>3, <1>5, OwedSettled DEF Settled
    <2>. QED
      BY <1>2, <2>1 DEF AccountMove, Kept
  <1>6. ASSUME NEW j \in Job, TakesOff(q, j) PROVE AccountMove
    <2>1. j \in Owed /\ Owed' = Owed \ {j}
      BY <1>3, <1>4, <1>6, OwedTaken
    <2>2. infoRow
      BY <1>4 DEF RowInv
    <2>3. pending' = pending - 1
      BY <1>6, <2>2 DEF TakesOff, Decrease
    <2>. QED
      BY <1>2, <2>1, <2>3 DEF AccountMove, Subtracted
  <1>. QED
    BY <1>4, <1>5, <1>6

\* A build adds the jobs of its batch one by one.
LEMMA BuildMovesAccount ==
    ASSUME TypeOK, OrderInv, ResetInv, TreeAssumption, video # "DELETED",
           NEW b \in Builder, BuilderStep(b)
    PROVE  AccountMove
  <1>0. RowsTyped /\ RequestsTyped /\ builder \in [Builder -> BuildRow]
    BY DEF TypeOK, BuildsTyped
  <1>1. /\ builder[b].pc # "idle"
        /\ \A c \in Builder : c # b => builder'[c] = builder[c]
    BY <1>0 DEF BuilderStep, AbortAllTasks, SetToTranscode, IncreaseOrCreate,
                CreateRunnerJob, EndBuild
  <1>2. \A c \in Builder : c # b => builder[c].pc = "idle"
    BY <1>1 DEF OrderInv, BuildInv
  <1>3. /\ Adding <=> builder[b].pc = "increase"
        /\ Adding' <=> builder'[b].pc = "increase"
        /\ builder'[b].todo \subseteq builder[b].todo => Todo' \subseteq Todo
    BY <1>1, <1>2 DEF Adding, Todo
  <1>4. CASE AbortAllTasks(b) \/ SetToTranscode(b)
    <2>1. /\ builder[b].pc # "increase" /\ builder'[b].pc # "increase"
          /\ builder'[b].todo = builder[b].todo
      BY <1>0, <1>4 DEF AbortAllTasks, SetToTranscode, BuildRow
    <2>2. request' = request /\ job' = job
      BY <1>4 DEF AbortAllTasks, SetToTranscode
    <2>3. pending' = pending
      BY <1>4 DEF AbortAllTasks, SetToTranscode, ResetInv
    <2>4. Owed' = Owed
      BY <2>2, OwedSame DEF Due
    <2>. QED
      BY <1>3, <2>1, <2>3, <2>4 DEF AccountMove, Kept
  <1>5. CASE IncreaseOrCreate(b)
    <2>1. EndBuild(b) \/ builder' = [builder EXCEPT ![b].pc = "row"]
      BY <1>5 DEF IncreaseOrCreate
    <2>2. /\ builder[b].pc = "increase" /\ builder'[b].pc # "increase"
          /\ builder'[b].todo \subseteq builder[b].todo
      BY <1>0, <1>5, <2>1 DEF IncreaseOrCreate, EndBuild, IdleBuilder, BuildRow
    <2>3. request' = request /\ job' = job /\ pending' = pending + 1 /\ infoRow'
      BY <1>5 DEF IncreaseOrCreate
    <2>4. Owed' = Owed
      BY <2>3, OwedSame DEF Due
    <2>. QED
      BY <1>3, <2>2, <2>3, <2>4 DEF AccountMove, Counted
  <1>6. ASSUME NEW j \in Job, CreateRunnerJob(b, j) PROVE AccountMove
    <2>1. /\ request' = request /\ pending' = pending
          /\ builder[b].pc = "row" /\ j \in builder[b].todo
      BY <1>6 DEF CreateRunnerJob, videoVars
    <2>2. CASE Parent[j] = None \/ Exists(Parent[j])
      <3>1. /\ builder' = [builder EXCEPT ![b].pc = "increase",
                                          ![b].todo = @ \ {j}]
            /\ job' = [job EXCEPT ![j].state = InitialState(j)]
        BY <1>6, <2>2 DEF CreateRunnerJob
      <3>2. /\ builder'[b].pc = "increase"
            /\ builder'[b].todo \subseteq builder[b].todo
        BY <1>0, <3>1 DEF BuildRow
      <3>3. /\ job'[j].state = InitialState(j)
            /\ \A i \in Job : i # j => job'[i] = job[i]
        BY <1>0, <3>1 DEF RowsTyped, Row
      <3>4. job[j].state = "NOT_CREATED"
        BY <2>1 DEF OrderInv, BuildInv
      <3>5. ~Due(j) /\ Due(j)' /\ \A i \in Job : i # j => (Due(i)' <=> Due(i))
        BY <3>3, <3>4 DEF Due, DueState, InitialState
      <3>6. \A q \in Request : ~Takes(request[q], j)
        BY <3>5, TakesDue DEF OrderInv, RequestsOnCourse
      <3>7. j \in Todo \ Owed /\ Owed' = Owed \cup {j}
        BY <2>1, <3>5, <3>6 DEF Owed, Todo
      <3>. QED
        BY <1>3, <2>1, <3>2, <3>7 DEF AccountMove, Created
    <2>3. CASE ~(Parent[j] = None \/ Exists(Parent[j]))
      <3>1. EndBuild(b) /\ job' = job
        BY <1>6, <2>3 DEF CreateRunnerJob
      <3>2. builder'[b].pc = "idle" /\ builder'[b].todo = {}
        BY <1>0, <3>1 DEF EndBuild, IdleBuilder
      <3>3. Owed' = Owed
        BY <2>1, <3>1, OwedSame DEF Due
      <3>. QED
        BY <1>3, <2>1, <3>2, <3>3 DEF AccountMove, Kept
    <2>. QED
      BY <2>2, <2>3
  <1>. QED
    BY <1>4, <1>5, <1>6 DEF BuilderStep

\* A request starts with nothing taken off.
LEMMA StartMovesAccount ==
    ASSUME RequestsTyped, NEW q \in Request, NEW j \in Job, NewRequest(q, j)
    PROVE  Kept /\ Todo' = Todo
  <1>1. PICK label \in {"saveCompleting", "abortSave", "errorFail",
                        "cancelDecrease", "destroy"}, destroy \in BOOLEAN :
          Start(q, label, j, destroy)
    BY DEF NewRequest, StartComplete, StartAbort, StartError, StartCancel,
           StartDelete
  <1>2. /\ request[q].pc = "idle" /\ request'[q].pc = label
        /\ job' = job /\ pending' = pending /\ builder' = builder
    BY <1>1 DEF Start, RequestsTyped, videoVars
  <1>3. \A i \in Job : ~Takes(request[q], i) /\ ~Takes(request'[q], i)
    BY <1>2 DEF Takes
  <1>4. Settled(q)
    BY <1>2, <1>3 DEF Settled, Due
  <1>5. Owed' = Owed
    BY <1>4, OwedSettled, OthersStay
  <1>. QED
    BY <1>2, <1>5 DEF Kept, Todo, Adding

\* So does every other step.
LEMMA AccountMoves ==
    ASSUME TypeOK, OrderInv, AccountInv, TreeAssumption,
           Env \subseteq OrderedTwice, [Next]_vars
    PROVE  \/ AccountMove
           \/ Kept /\ \E b \in Builder, m \in Job : CreateTranscoding(b, m)
  <1>0. RowsTyped /\ RequestsTyped /\ builder \in [Builder -> BuildRow]
    BY DEF TypeOK, BuildsTyped
  <1>1. ASSUME request' = request, pending' = pending, builder' = builder,
               \A j \in Job : Due(j)' <=> Due(j)
        PROVE  AccountMove
    BY <1>1, OwedSame DEF AccountMove, Kept, Todo, Adding
  <1>2. ASSUME NEW q \in Request, HandlerStep(q) PROVE AccountMove
    BY <1>2, HandlerMovesAccount DEF AccountInv
  <1>3. ASSUME NEW q \in Request, NEW j \in Job, NewRequest(q, j)
        PROVE  AccountMove
    BY <1>0, <1>3, StartMovesAccount DEF AccountMove
  <1>4. ASSUME NEW r \in Runner, NEW j \in Job, AcceptRunnerJob(r, j)
        PROVE  AccountMove
    <2>1. \A i \in Job : Due(i)' <=> Due(i)
      BY <1>0, <1>4, AcceptEffect DEF Due, DueState, Turns
    <2>. QED
      BY <1>1, <1>4, <2>1 DEF AcceptRunnerJob, videoVars
  <1>5. ASSUME NEW r \in Runner, DeleteRunner(r) PROVE AccountMove
    <2>1. \A i \in Job : Due(i)' <=> Due(i)
      BY <1>0, <1>5, DeleteRunnerEffect DEF Due
    <2>. QED
      BY <1>1, <1>5, <2>1 DEF DeleteRunner, videoVars
  <1>6. ASSUME NEW j \in Job, AbortStalled(j) PROVE AccountMove
    <2>1. \A i \in Job : Due(i)' <=> Due(i)
      BY <1>0, <1>6, AbortStalledEffect DEF OrderInv, Due, DueState, Turns
    <2>. QED
      BY <1>1, <1>6, <2>1 DEF AbortStalled, videoVars
  <1>7. ASSUME NEW S \in SUBSET Job, ListStalledJobs(S) PROVE AccountMove
    BY <1>1, <1>7 DEF ListStalledJobs, videoVars, Due
  <1>8. ASSUME NEW b \in Builder, BuilderStep(b) PROVE AccountMove
    BY <1>8, BuildMovesAccount DEF AccountInv
  <1>9. ASSUME NEW b \in Builder, NEW m \in Job, CreateTranscoding(b, m)
        PROVE  Kept
    <2>1. /\ NoBuild /\ builder'[b].pc = "reset" /\ job' = job
          /\ request' = request /\ pending' = pending
          /\ \A c \in Builder : c # b => builder'[c] = builder[c]
      BY <1>0, <1>9 DEF CreateTranscoding, OrderedTwice, Ordered, videoVars
    <2>2. ~Adding /\ ~Adding'
      BY <2>1 DEF Adding, NoBuild
    <2>3. \A j \in Job : Due(j)' <=> Due(j)
      BY <2>1 DEF Due
    <2>. QED
      BY <2>1, <2>2, <2>3, OwedSame DEF Kept
  <1>10. CASE MoveFiles \/ DoAfterLastMove \/ MoveFails
    <2>1. /\ request' = request /\ pending' = pending /\ builder' = builder
          /\ job' = job
      BY <1>10, Zenon DEF MoveFiles, DoAfterLastMove, MoveFails
    <2>2. \A j \in Job : Due(j)' <=> Due(j)
      BY <2>1 DEF Due
    <2>. QED
      BY <1>1, <2>1, <2>2
  <1>11. CASE UNCHANGED vars
    <2>1. /\ request' = request /\ pending' = pending /\ builder' = builder
          /\ job' = job
      BY <1>11 DEF vars, videoVars
    <2>2. \A j \in Job : Due(j)' <=> Due(j)
      BY <2>1 DEF Due
    <2>. QED
      BY <1>1, <2>1, <2>2
  <1>12. OrderedNext \/ UNCHANGED vars
    BY OrderedStep
  <1>. QED
    BY <1>2, <1>3, <1>4, <1>5, <1>6, <1>7, <1>8, <1>9, <1>10, <1>11, <1>12
    DEF OrderedNext

-----------------------------------------------------------------------------
(* The account is kept.                                                     *)

LEMMA OwedFinite ==
    ASSUME BoundAssumption
    PROVE  IsFiniteSet(Owed) /\ Cardinality(Owed) \in Nat
  <1>1. IsFiniteSet(Job) /\ Owed \subseteq Job
    BY DEF BoundAssumption, Owed
  <1>2. IsFiniteSet(Owed)
    BY <1>1, FS_Subset
  <1>. QED
    BY <1>2, FS_CardinalityType

\* While nothing is being counted, a counter of 0 says that nothing is owed.
LEMMA NothingOwed ==
    ASSUME BoundAssumption, CountInv, ~Adding, pending \in Int, pending <= 0
    PROVE  pending = 0 /\ Owed = {}
  <1>1. Cardinality(Owed) \in Nat /\ pending = Cardinality(Owed)
    BY OwedFinite DEF CountInv
  <1>2. pending = 0 /\ Cardinality(Owed) = 0
    BY <1>1
  <1>. QED
    BY <1>2, OwedFinite, FS_EmptySet

\* The counter stays exact.
LEMMA CountStep ==
    ASSUME BoundAssumption, pending \in Int, pending' \in Int, CountInv,
           Kept \/ AccountMove
    PROVE  CountInv'
  <1> DEFINE n == Cardinality(Owed)
  <1>0. n \in Nat /\ IsFiniteSet(Owed)
    BY OwedFinite
  <1>1. /\ Adding => pending + 1 = n
        /\ ~Adding => pending = n
    BY DEF CountInv
  <1>2. SUFFICES /\ Adding' => pending' + 1 = Cardinality(Owed')
                 /\ ~Adding' => pending' = Cardinality(Owed')
    BY DEF CountInv
  <1>3. CASE Kept
    BY <1>1, <1>3 DEF Kept
  <1>4. ASSUME NEW j \in Job, Subtracted(j)
        PROVE  /\ Adding' => pending' + 1 = Cardinality(Owed')
               /\ ~Adding' => pending' = Cardinality(Owed')
    <2>1. Cardinality(Owed') = n - 1
      BY <1>0, <1>4, FS_RemoveElement DEF Subtracted
    <2>. QED
      BY <1>0, <1>1, <1>4, <2>1 DEF Subtracted
  <1>5. ASSUME NEW j \in Job, Created(j)
        PROVE  /\ Adding' => pending' + 1 = Cardinality(Owed')
               /\ ~Adding' => pending' = Cardinality(Owed')
    <2>1. Cardinality(Owed') = n + 1
      BY <1>0, <1>5, FS_AddElement DEF Created
    <2>. QED
      BY <1>0, <1>1, <1>5, <2>1 DEF Created
  <1>6. CASE Counted
    BY <1>1, <1>6 DEF Counted
  <1>. QED
    BY <1>3, <1>4, <1>5, <1>6 DEF AccountMove

\* A second batch is asked for when nothing of the first one is left.
LEMMA NewBatch ==
    ASSUME TypeOK, OrderInv, AccountInv, BoundAssumption,
           Env \subseteq OrderedTwice, NEW b \in Builder, NEW m \in Job,
           CreateTranscoding(b, m)
    PROVE  /\ Owed = {} /\ Todo = {} /\ pending = 0 /\ Parent[m] = None
           /\ Todo' = {m} \cup Kids(m)
  <1>0. builder \in [Builder -> BuildRow] /\ pending \in Int
    BY Zenon DEF TypeOK, BuildsTyped, VideoTyped
  <1>1. /\ NoBuild /\ m \in FreshMains /\ ~AlreadyTranscoding
        /\ builder'[b].todo = {m} \cup Kids(m)
        /\ \A c \in Builder : c # b => builder'[c] = builder[c]
    BY <1>0 DEF CreateTranscoding, OrderedTwice, Ordered
  <1>2. ~Adding
    BY <1>1 DEF NoBuild, Adding
  <1>3. \A c \in Builder : builder[c].todo = {}
    BY <1>1 DEF NoBuild, OrderInv, BuildInv
  <1>4. Owed = {} /\ pending = 0
    <2>1. pending <= 0 /\ CountInv
      BY <1>0, <1>1 DEF AccountInv, AlreadyTranscoding
    <2>. QED
      BY <1>0, <1>2, <2>1, NothingOwed
  <1>5. Kids(m) \subseteq Job
    BY DEF Kids
  <1>6. Todo = {} /\ Todo' = {m} \cup Kids(m)
    BY <1>1, <1>3, <1>5 DEF Todo
  <1>. QED
    BY <1>1, <1>4, <1>6 DEF FreshMains, Mains

\* The jobs owed and those to be created are of one family.
LEMMA BatchStep ==
    ASSUME TypeOK, OrderInv, AccountInv, TreeAssumption, BoundAssumption,
           Env \subseteq OrderedTwice, [Next]_vars
    PROVE  BatchInv'
  <1>1. CASE AccountMove
    <2>1. Owed' \cup Todo' \subseteq Owed \cup Todo
      BY <1>1 DEF AccountMove, Kept, Subtracted, Created, Counted
    <2>. QED
      BY <2>1 DEF AccountInv, BatchInv, MainOf
  <1>2. ASSUME Kept, NEW b \in Builder, NEW m \in Job, CreateTranscoding(b, m)
        PROVE  BatchInv'
    <2>1. Owed' \cup Todo' = {m} \cup Kids(m) /\ Parent[m] = None /\ m # None
      BY <1>2, NewBatch DEF Kept, TreeAssumption
    <2>. QED
      BY <2>1 DEF BatchInv, MainOf, Kids
  <1>. QED
    BY <1>1, <1>2, AccountMoves

\* A build is at its reset since it was asked for.
LEMMA ResetEntered ==
    ASSUME BuildsTyped, Env \subseteq OrderedTwice, [Next]_vars,
           NEW b \in Builder, builder'[b].pc = "reset"
    PROVE  \/ builder[b].pc = "reset"
           \/ \E c \in Builder, m \in Job : CreateTranscoding(c, m)
  <1>0. builder \in [Builder -> BuildRow]
    BY DEF BuildsTyped
  <1>1. ASSUME NEW c \in Builder, BuilderStep(c)
        PROVE  builder[b].pc = "reset"
    <2>1. CASE b # c
      BY <1>0, <1>1, <2>1
      DEF BuilderStep, AbortAllTasks, SetToTranscode, IncreaseOrCreate,
          CreateRunnerJob, EndBuild
    <2>2. CASE b = c
      <3>1. builder'[c].pc # "reset"
        BY <1>0, <1>1
        DEF BuilderStep, AbortAllTasks, SetToTranscode, IncreaseOrCreate,
            CreateRunnerJob, EndBuild, IdleBuilder, BuildRow
      <3>. QED
        BY <2>2, <3>1
    <2>. QED
      BY <2>1, <2>2
  <1>2. ~Restart /\ \A c \in Builder : ~BuilderThrows(c)
    BY DEF Restart, BuilderThrows, OrderedTwice, Ordered
  <1>. QED
    BY <1>1, <1>2, WritesBuilder

\* A build resets the counter only when it is 0.
LEMMA ResetStep ==
    ASSUME TypeOK, OrderInv, AccountInv, TreeAssumption, BoundAssumption,
           Env \subseteq OrderedTwice, [Next]_vars
    PROVE  ResetInv'
  <1> SUFFICES ASSUME NEW b \in Builder, builder'[b].pc = "reset"
               PROVE  pending' = 0
    BY DEF ResetInv
  <1>0. pending \in Int /\ BuildsTyped
    BY Zenon DEF TypeOK, VideoTyped
  <1>1. ASSUME NEW c \in Builder, NEW m \in Job, CreateTranscoding(c, m)
        PROVE  pending' = 0
    <2>1. pending = 0 /\ pending' = pending
      BY <1>1, NewBatch DEF CreateTranscoding, videoVars
    <2>. QED
      BY <2>1
  <1>2. CASE builder[b].pc = "reset" /\ AccountMove
    <2>1. pending = 0
      BY <1>2 DEF AccountInv, ResetInv
    <2>2. ~Adding
      BY <1>2 DEF OrderInv, BuildInv, Adding
    <2>3. Owed = {}
      BY <1>0, <2>1, <2>2, NothingOwed DEF AccountInv
    <2>4. pending' = pending
      BY <1>2, <2>2, <2>3 DEF AccountMove, Kept, Subtracted, Created, Counted
    <2>. QED
      BY <2>1, <2>4
  <1>. QED
    BY <1>0, <1>1, <1>2, ResetEntered, AccountMoves

\* Without its row of counters a video has nothing but its first build.
LEMMA RowStep ==
    ASSUME TypeOK, OrderInv, AccountInv, TreeAssumption,
           Env \subseteq OrderedTwice, [Next]_vars
    PROVE  RowInv'
  <1> SUFFICES ASSUME ~infoRow'
               PROVE  /\ \A q \in Request : ~At(q)'
                      /\ \A j \in Job : Exists(j)' => Adding'
    BY DEF RowInv
  <1>0. RowsTyped /\ RequestsTyped /\ BuildsTyped
    BY DEF TypeOK
  <1>1. /\ \A q \in Request : ~At(q)
        /\ \A j \in Job : Exists(j) => Adding
    BY RowStays DEF AccountInv, RowInv
  <1>2. ASSUME NEW q \in Request, HandlerStep(q) PROVE FALSE
    <2>1. OnCourse(request[q])
      BY DEF OrderInv, RequestsOnCourse
    <2>. QED
      BY <1>0, <1>1, <1>2, <2>1, HandlerSettles DEF AccountInv
  <1>3. ASSUME NEW q \in Request, NEW j \in Job, NewRequest(q, j) PROVE FALSE
    <2>1. Exists(j)
      BY <1>3 DEF NewRequest, StartComplete, StartAbort, StartError, StartCancel,
                  StartDelete, HeldByRunner, Cancellable, Exists, Absent
    <2>2. PICK label, destroy : Start(q, label, j, destroy)
      BY <1>3 DEF NewRequest, StartComplete, StartAbort, StartError,
                  StartCancel, StartDelete
    <2>3. NoBuild
      BY <2>2 DEF Start, OrderedTwice, Ordered
    <2>. QED
      BY <1>1, <2>1, <2>3 DEF NoBuild, Adding
  <1>4. ~Restart /\ \A q \in Request : ~CompleteThrows(q) /\ ~HandlerFails(q)
    BY DEF Restart, CompleteThrows, HandlerFails, OrderedTwice, Ordered
  <1>5. request' = request
    BY <1>2, <1>3, <1>4, WritesRequest
  <1>6. \A q \in Request : ~At(q)'
    BY <1>1, <1>5 DEF At
  <1>7. ASSUME NEW j \in Job, Exists(j)' PROVE Adding'
    <2>1. CASE Exists(j)
      <3>1. Adding /\ ~Counted
        BY <1>1, <2>1 DEF Counted
      <3>. QED
        BY <3>1, AccountMoves DEF AccountMove, Kept, Subtracted, Created
    <2>2. CASE ~Exists(j)
      <3>1. job[j].state = "NOT_CREATED" /\ job'[j].state # "NOT_CREATED"
        BY <1>7, <2>2 DEF Exists, Absent, OrderInv, FamilyInv
      <3>2. PICK b \in Builder : CreateRunnerJob(b, j)
        BY <3>1, CreatedByBuild
      <3>3. builder' = [builder EXCEPT ![b].pc = "increase",
                                       ![b].todo = @ \ {j}]
        BY <3>1, <3>2 DEF CreateRunnerJob
      <3>4. builder'[b].pc = "increase"
        BY <1>0, <3>3 DEF BuildsTyped, BuildRow
      <3>. QED
        BY <3>4 DEF Adding
    <2>. QED
      BY <2>1, <2>2
  <1>. QED
    BY <1>6, <1>7

\* Nothing is owed or counted at the start.
LEMMA AccountInit == Init /\ TreeAssumption => AccountInv
  <1> SUFFICES ASSUME Init, TreeAssumption PROVE AccountInv
    OBVIOUS
  <1>1. /\ \A j \in Job : job[j].state = "NOT_CREATED"
        /\ \A q \in Request : request[q].pc = "idle"
        /\ pending = 0 /\ video # "DELETED"
    BY DEF Init, NotLoaded, NoRow, IdleRequest
  <1>2. PICK b \in Builder, m \in Mains :
          builder = [c \in Builder |-> IF c = b THEN UploadBuild(m)
                                       ELSE IdleBuilder]
    BY DEF Init
  <1>3. /\ \A c \in Builder : builder[c].pc \in {"row", "idle"}
        /\ \A c \in Builder : builder[c].todo \subseteq {m} \cup Kids(m)
    BY <1>2 DEF UploadBuild, IdleBuilder
  <1>4. Owed = {} /\ ~Adding /\ Todo \subseteq {m} \cup Kids(m)
    BY <1>1, <1>3 DEF Owed, Due, DueState, Adding, Todo
  <1>5. CountInv
    BY <1>1, <1>4, FS_EmptySet DEF CountInv
  <1>6. RowInv
    BY <1>1 DEF RowInv, At, Exists, Absent
  <1>7. BatchInv
    BY <1>2, <1>4 DEF BatchInv, MainOf, Mains, Kids, TreeAssumption
  <1>8. ResetInv
    BY <1>3 DEF ResetInv
  <1>. QED
    BY <1>1, <1>5, <1>6, <1>7, <1>8 DEF AccountInv

\* Every step keeps the account.
LEMMA AccountStep ==
    ASSUME Env \subseteq OrderedTwice
    PROVE  TypeOK /\ OrderInv /\ AccountInv /\ [Next]_vars => AccountInv'
  <1> SUFFICES ASSUME TypeOK, OrderInv, AccountInv, [Next]_vars PROVE AccountInv'
    OBVIOUS
  <1>1. CountInv'
    <2>1. pending \in Int /\ pending' \in Int
      BY TypeStep, Zenon DEF TypeOK, VideoTyped
    <2>2. Kept \/ AccountMove
      BY AccountMoves, TreeAssumption
    <2>. QED
      BY <2>1, <2>2, CountStep, BoundAssumption DEF AccountInv
  <1>2. BatchInv'
    BY BatchStep, TreeAssumption, BoundAssumption
  <1>3. ResetInv'
    BY ResetStep, TreeAssumption, BoundAssumption
  <1>4. RowInv'
    BY RowStep, TreeAssumption
  <1>5. video' # "DELETED"
    BY VideoStays DEF AccountInv
  <1>. QED
    BY <1>1, <1>2, <1>3, <1>4, <1>5 DEF AccountInv

\* The account is an invariant of these environments.
LEMMA Account ==
    ASSUME Env \subseteq OrderedTwice
    PROVE  Spec => [](TypeOK /\ OrderInv /\ AccountInv)
  <1>1. Init => TypeOK /\ OrderInv /\ AccountInv
    BY TypeInit, OrderInit, AccountInit, TreeAssumption
  <1>2. TypeOK /\ OrderInv /\ AccountInv /\ [Next]_vars =>
          (TypeOK /\ OrderInv /\ AccountInv)'
    BY TypeStep, OrderStep, AccountStep
  <1>. QED
    BY <1>1, <1>2, PTL DEF Spec

\* When no handler and no build is at work, pendingTranscode is exactly the
\* number of jobs that did not end plus those that ended with their parent's
\* error: no decrease is lost or made twice, whatever batches and attempts
\* there were.
THEOREM CounterIsExact ==
    ASSUME Env \subseteq OrderedTwice
    PROVE  Spec => []CounterAccounts
  <1>1. TypeOK /\ OrderInv /\ AccountInv => CounterAccounts
    <2> SUFFICES ASSUME TypeOK, OrderInv, AccountInv, Quiet
                 PROVE  pending = Cardinality({ j \in Job : Unfinished(j) })
                          + Cardinality({ j \in Job : job[j].state = "PARENT_ERRORED" })
      BY DEF CounterAccounts
    <2> DEFINE A == { j \in Job : Unfinished(j) }
               B == { j \in Job : job[j].state = "PARENT_ERRORED" }
    <2>1. ~Adding /\ \A q \in Request, j \in Job : ~Takes(request[q], j)
      BY DEF Quiet, NoBuild, Adding, Takes
    <2>2. \A j \in Job : job[j].state \in JobState \cup Absent
      BY DEF TypeOK, RowsTyped, Row
    <2>3. ASSUME NEW j \in Job
          PROVE  /\ Due(j) <=> Unfinished(j) \/ job[j].state = "PARENT_ERRORED"
                 /\ ~(Unfinished(j) /\ job[j].state = "PARENT_ERRORED")
      <3>1. job[j].state # "DELETED"
        BY DEF OrderInv, FamilyInv
      <3>. QED
        BY <2>2, <3>1 DEF Due, DueState, Unfinished, Exists, Absent, Final, JobState
    <2>4. Owed = A \cup B /\ A \cap B = {}
      BY <2>1, <2>3 DEF Owed
    <2>5. IsFiniteSet(A) /\ IsFiniteSet(B)
      BY FS_Subset, BoundAssumption DEF BoundAssumption
    <2> HIDE DEF A, B
    <2>6. Cardinality(A) \in Nat /\ Cardinality(B) \in Nat
      BY <2>5, FS_CardinalityType
    <2>7. Cardinality(A \cup B) = Cardinality(A) + Cardinality(B)
      <3>1. Cardinality(A \cup B) =
              Cardinality(A) + Cardinality(B) - Cardinality(A \cap B)
        BY <2>5, FS_Union
      <3>2. Cardinality(A \cap B) = 0
        BY <2>4, FS_EmptySet
      <3>. QED
        BY <2>6, <3>1, <3>2
    <2>8. pending = Cardinality(A) + Cardinality(B)
      <3>1. pending \in Int
        BY Zenon DEF TypeOK, VideoTyped
      <3>. QED
        BY <2>1, <2>4, <2>7, <3>1 DEF AccountInv, CountInv
    <2>. QED
      BY <2>8 DEF A, B
  <1>. QED
    BY <1>1, Account, PTL

\* Without forceTranscoding the jobs that are left to run are of one batch:
\* the counter says that a batch is over only when all its jobs ended.
THEOREM BatchesDoNotMix ==
    ASSUME Env \subseteq OrderedTwice
    PROVE  Spec => []OneBatch
  <1>1. TypeOK /\ OrderInv /\ AccountInv => OneBatch
    <2> SUFFICES ASSUME TypeOK, OrderInv, AccountInv
                 PROVE  OneBatch
      OBVIOUS
    <2>1. ASSUME NEW j \in Job, Unfinished(j),
                 \A q \in Request : request[q].cur # j
          PROVE  j \in Owed
      <3>1. job[j].state \in JobState \cup Absent
        BY DEF TypeOK, RowsTyped, Row
      <3>2. Due(j)
        BY <2>1, <3>1 DEF Due, DueState, Unfinished, Exists, Absent, Final, JobState
      <3>3. ASSUME NEW q \in Request, Takes(request[q], j) PROVE FALSE
        <4>1. request[q].cur = j
          BY <3>3 DEF OrderInv, RequestsOnCourse, OnCourse, RootOnCourse,
                      HeldPC, EndingPC, Takes
        <4>. QED
          BY <2>1, <4>1
      <3>. QED
        BY <3>2, <3>3 DEF Owed
    <2>. QED
      BY <2>1 DEF OneBatch, AccountInv, BatchInv
  <1>. QED
    BY <1>1, Account, PTL

-----------------------------------------------------------------------------
(* The move waits for the last job.                                         *)

\* The first batch's jobs are the only ones, no request is handled before they
\* are all created, a video that is moved was transcoded, and the last attempt
\* of a job is counted once the video is marked failed.
MoveInv ==
    /\ \A i, j \in Job : (Exists(i) \/ i \in Todo) /\ (Exists(j) \/ j \in Todo)
                           => MainOf(i) = MainOf(j)
    /\ \A q \in Request : At(q) => NoBuild
    /\ \A b \in Builder : builder[b].pc \notin {"reset", "state"}
    /\ moveJobs > 0 \/ afterMove => video # "TO_TRANSCODE"
    /\ \A q \in Request :
         \/ request[q].pc = "errorDecrease"
         \/ /\ request[q].pc = "errorSave"
            /\ Exhausted(request[q].inst[request[q].root])
         => video = "TRANSCODING_FAILED"

\* Without a second transcoding nobody asks for a build.
LEMMA OneBuild ==
    ASSUME BuildsTyped, Env \subseteq Ordered, [Next]_vars
    PROVE  /\ \A b \in Builder, m \in Job : ~CreateTranscoding(b, m)
           /\ NoBuild => builder' = builder
           /\ (\A b \in Builder : builder[b].pc \notin {"reset", "state"}) =>
                \A b \in Builder : builder'[b].pc \notin {"reset", "state"}
  <1>0. builder \in [Builder -> BuildRow]
    BY DEF BuildsTyped
  <1>1. /\ \A b \in Builder, m \in Job : ~CreateTranscoding(b, m)
        /\ ~Restart /\ \A b \in Builder : ~BuilderThrows(b)
    BY DEF CreateTranscoding, Restart, BuilderThrows, Ordered
  <1>2. UNCHANGED builder \/ \E b \in Builder : BuilderStep(b)
    BY <1>1, WritesBuilder
  <1>3. ASSUME NEW b \in Builder, BuilderStep(b)
        PROVE  /\ ~NoBuild
               /\ (\A c \in Builder : builder[c].pc \notin {"reset", "state"}) =>
                    \A c \in Builder : builder'[c].pc \notin {"reset", "state"}
    <2>1. builder[b].pc # "idle"
      BY <1>3 DEF BuilderStep, AbortAllTasks, SetToTranscode, IncreaseOrCreate,
                  CreateRunnerJob
    <2>2. ASSUME \A c \in Builder : builder[c].pc \notin {"reset", "state"},
                 NEW c \in Builder
          PROVE  builder'[c].pc \notin {"reset", "state"}
      <3>1. ~AbortAllTasks(b) /\ ~SetToTranscode(b)
        BY <2>2 DEF AbortAllTasks, SetToTranscode
      <3>2. CASE c # b
        BY <1>0, <1>3, <2>2, <3>1, <3>2
        DEF BuilderStep, IncreaseOrCreate, CreateRunnerJob, EndBuild
      <3>3. builder'[b].pc \in {"idle", "row", "increase"}
        BY <1>0, <1>3, <3>1
        DEF BuilderStep, IncreaseOrCreate, CreateRunnerJob, EndBuild,
            IdleBuilder, BuildRow
      <3>. QED
        BY <3>2, <3>3
    <2>. QED
      BY <2>1, <2>2 DEF NoBuild
  <1>. QED
    BY <1>1, <1>2, <1>3

\* What the next state of a video is, by its state.
LEMMA NextStates ==
    ASSUME MoveToNextState
    PROVE  /\ video = "TRANSCODING_FAILED" => video' = video
           /\ video' = "TO_TRANSCODE" => video = "TO_TRANSCODE"
                                         /\ moveJobs' = moveJobs
           /\ video # "TO_MOVE_TO_EXTERNAL_STORAGE"
                /\ video' = "TO_MOVE_TO_EXTERNAL_STORAGE" =>
                     video = "TO_TRANSCODE" /\ pending = 0
  <1>1. CASE video = "TO_TRANSCODE" /\ ObjectStorage
    <2>1. MoveToExternalStorageState
      BY <1>1 DEF MoveToNextState, BuildNextVideoState
    <2>. QED
      BY <1>1, <2>1 DEF MoveToExternalStorageState, TranscodingEnded
  <1>2. CASE ~(video = "TO_TRANSCODE" /\ ObjectStorage)
    <2>1. \/ UNCHANGED <<video, moveJobs>>
          \/ /\ video \in {"TO_TRANSCODE", "TO_MOVE_TO_EXTERNAL_STORAGE"}
             /\ video' = "PUBLISHED"
      BY <1>2 DEF MoveToNextState, BuildNextVideoState, MoveToPublishedState
    <2>. QED
      BY <2>1
  <1>. QED
    BY <1>1, <1>2

\* How the video's state and its move jobs change without a second transcoding
\* and when no move fails.
LEMMA MoveChange ==
    ASSUME VideoTyped, Env \subseteq Ordered, [Next]_vars,
           \A b \in Builder : builder[b].pc \notin {"reset", "state"}
    PROVE  \/ UNCHANGED <<video, moveJobs, afterMove>>
           \/ /\ MoveToNextState /\ afterMove' = afterMove
              /\ \E q \in Request : CompleteNextState(q) \/ CancelNextState(q)
           \/ \E q \in Request : /\ ErrorFail(q) /\ video' = "TRANSCODING_FAILED"
                                 /\ UNCHANGED <<moveJobs, afterMove>>
           \/ MoveFiles
           \/ DoAfterLastMove
  <1>1. ~DeleteVideo /\ ~Restart /\ ~MoveFails
    BY DEF DeleteVideo, Restart, MoveFails, Ordered
  <1>2. CASE UNCHANGED videoVars
    BY <1>2 DEF videoVars, moveVars
  <1>3. ASSUME NEW q \in Request,
               AttachFile(q) \/ OnTranscodingEnded(q) \/ ErrorDecrease(q)
                 \/ CancelDecrease(q)
        PROVE  UNCHANGED <<video, moveJobs, afterMove>>
    BY <1>3, Zenon DEF AttachFile, OnTranscodingEnded, ErrorDecrease,
                       CancelDecrease, moveVars
  <1>4. ASSUME NEW q \in Request, CompleteNextState(q) \/ CancelNextState(q)
        PROVE  MoveToNextState /\ afterMove' = afterMove
    BY <1>4, Zenon DEF CompleteNextState, CancelNextState
  <1>5. ASSUME NEW q \in Request, ErrorFail(q)
        PROVE  /\ UNCHANGED <<moveJobs, afterMove>>
               /\ video' = video \/ video' = "TRANSCODING_FAILED"
    BY <1>5, Zenon DEF ErrorFail, MoveToFailedTranscodingState, moveVars
  <1>6. ASSUME NEW b \in Builder,
               AbortAllTasks(b) \/ SetToTranscode(b) \/ IncreaseOrCreate(b)
        PROVE  UNCHANGED <<video, moveJobs, afterMove>>
    <2>1. ~AbortAllTasks(b) /\ ~SetToTranscode(b)
      BY DEF AbortAllTasks, SetToTranscode
    <2>. QED
      BY <1>6, <2>1, Zenon DEF IncreaseOrCreate, moveVars
  <1>. QED
    BY <1>1, <1>2, <1>3, <1>4, <1>5, <1>6, WritesVideo, Zenon DEF VideoWriters

\* A failed video stays failed, and a video that was transcoded stays so.
LEMMA VideoMoves ==
    ASSUME VideoTyped, Env \subseteq Ordered, [Next]_vars, MoveInv
    PROVE  /\ video = "TRANSCODING_FAILED" => video' = video
           /\ moveJobs' > 0 \/ afterMove' => video' # "TO_TRANSCODE"
           /\ video # "TO_MOVE_TO_EXTERNAL_STORAGE"
                /\ video' = "TO_MOVE_TO_EXTERNAL_STORAGE" =>
                     /\ video = "TO_TRANSCODE" /\ pending = 0
                     /\ \E q \in Request : CompleteNextState(q) \/ CancelNextState(q)
  <1>0. /\ \A b \in Builder : builder[b].pc \notin {"reset", "state"}
        /\ moveJobs > 0 => video # "TO_TRANSCODE"
        /\ afterMove => video # "TO_TRANSCODE"
    BY DEF MoveInv
  <1>1. CASE UNCHANGED <<video, moveJobs, afterMove>>
    BY <1>0, <1>1, Zenon
  <1>2. ASSUME MoveToNextState, afterMove' = afterMove,
               \E q \in Request : CompleteNextState(q) \/ CancelNextState(q)
        PROVE  /\ video = "TRANSCODING_FAILED" => video' = video
               /\ moveJobs' > 0 \/ afterMove' => video' # "TO_TRANSCODE"
               /\ video # "TO_MOVE_TO_EXTERNAL_STORAGE"
                    /\ video' = "TO_MOVE_TO_EXTERNAL_STORAGE" =>
                         video = "TO_TRANSCODE" /\ pending = 0
    BY <1>0, <1>2, NextStates, Zenon
  <1>3. ASSUME NEW q \in Request, ErrorFail(q), video' = "TRANSCODING_FAILED"
        PROVE  /\ video = "TRANSCODING_FAILED" => video' = video
               /\ video' # "TO_TRANSCODE"
               /\ video' # "TO_MOVE_TO_EXTERNAL_STORAGE"
    BY <1>3
  <1>4. ASSUME MoveFiles
        PROVE  video' = video /\ video' # "TO_TRANSCODE"
    BY <1>0, <1>4, Zenon DEF MoveFiles
  <1>5. ASSUME DoAfterLastMove
        PROVE  /\ video = "TRANSCODING_FAILED" => video' = video
               /\ video' # "TO_TRANSCODE"
               /\ video # "TO_MOVE_TO_EXTERNAL_STORAGE" =>
                    video' # "TO_MOVE_TO_EXTERNAL_STORAGE"
    <2>1. MoveToNextState /\ video # "TO_TRANSCODE"
      BY <1>0, <1>5, Zenon DEF DoAfterLastMove
    <2>. QED
      BY <2>1, NextStates, Zenon
  <1>. QED
    BY <1>0, <1>1, <1>2, <1>3, <1>4, <1>5, MoveChange, Zenon

\* A handler reaches errorDecrease and errorSave by ErrorFail and ErrorDecrease.
LEMMA ErrorEntered ==
    ASSUME RowsTyped, RequestsTyped, NEW q \in Request, HandlerStep(q),
           ~ErrorFail(q), ~ErrorDecrease(q)
    PROVE  request'[q].pc \notin {"errorDecrease", "errorSave"}
  <1> DEFINE s == request'[q]
             Elsewhere == s.pc \notin {"errorDecrease", "errorSave"}
  <1>0. request[q] \in RequestRow /\ request \in [Request -> RequestRow]
    BY DEF RequestsTyped
  <1>1. ASSUME NEW label \in {"attach", "decrease", "nextState", "saveCompleted",
                              "cancelNext", "cancelSave", "destroy"},
               Goto(q, label)
        PROVE  Elsewhere
    BY <1>1, GotoFields
  <1>2. ASSUME NEW label \in {"release", "errorList", "cancelList", "cancelKids"},
               NEW j \in Job, DropAndGoto(q, j, label)
        PROVE  Elsewhere
    BY <1>2, DropFields
  <1>3. ASSUME Finish(q) PROVE Elsewhere
    BY <1>3, FinishPC
  <1>4. CASE SaveCompleting(q)
    <2>1. s = [request[q] EXCEPT !.pc = "attach",
                 !.inst[request[q].root] =
                    [request[q].inst[request[q].root] EXCEPT !.state = "COMPLETING"]]
      BY <1>0, <1>4 DEF SaveCompleting
    <2>2. s.pc = "attach"
      BY <1>0, <2>1 DEF RequestRow
    <2>. QED
      BY <2>2
  <1>5. CASE AttachFile(q) \/ OnTranscodingEnded(q) \/ CompleteNextState(q)
    BY <1>1, <1>5 DEF AttachFile, OnTranscodingEnded, CompleteNextState
  <1>6. CASE SaveCompletion(q) \/ ErrorSave(q) \/ CancelSave(q)
    <2>1. request[q].root \in Job /\ request[q].cur \in Job
      BY <1>6, RequestHolds DEF SaveCompletion, ErrorSave, CancelSave
    <2>2. \/ Finish(q)
          \/ \E label \in {"release", "errorList", "cancelList", "cancelKids"},
                j \in {request[q].root, request[q].cur} : DropAndGoto(q, j, label)
      BY <1>6 DEF SaveCompletion, ErrorSave, CancelSave
    <2>. QED
      BY <1>2, <1>3, <2>1, <2>2
  <1>7. CASE ReleaseChildren(q) \/ AbortSave(q) \/ ErrorEnd(q) \/ Destroy(q)
             \/ CancelEnd(q)
    BY <1>1, <1>3, <1>7
    DEF ReleaseChildren, AbortSave, ErrorEnd, Destroy, CancelEnd
  <1>8. CASE CancelDecrease(q) \/ CancelNextState(q)
    BY <1>1, <1>8 DEF CancelDecrease, CancelNextState
  <1>9. CASE ErrorListChildren(q) \/ CancelListChildren(q)
    BY <1>0, <1>9 DEF ErrorListChildren, CancelListChildren, LoadChildren,
                      RequestRow
  <1>10. ASSUME NEW k \in Job, ErrorChild(q, k) PROVE Elsewhere
    <2>1. s = [request[q] EXCEPT !.kids = @ \ {k}, !.inst[k] = NoRow("NOT_CREATED")]
      BY <1>0, <1>10 DEF ErrorChild
    <2>2. s.pc = "errorKids"
      BY <1>0, <1>10, <2>1 DEF ErrorChild, RequestRow
    <2>. QED
      BY <2>2
  <1>11. ASSUME NEW k \in Job, CancelChild(q, k) PROVE Elsewhere
    <2>1. s = [request[q] EXCEPT !.pc = "cancelDecrease", !.cur = k, !.kids = @ \ {k}]
      BY <1>0, <1>11 DEF CancelChild
    <2>2. s.pc = "cancelDecrease"
      BY <1>0, <2>1 DEF RequestRow
    <2>. QED
      BY <2>2
  <1>. QED
    BY <1>4, <1>5, <1>6, <1>7, <1>8, <1>9, <1>10, <1>11, Zenon
    DEF HandlerStep, CompleteStep, ErrorStep, CancelStep

\* The last attempt is counted after the video was marked failed.
LEMMA FailedStep ==
    ASSUME TypeOK, OrderInv, AccountInv, MoveInv, Env \subseteq Ordered,
           [Next]_vars, NEW q \in Request,
           \/ request'[q].pc = "errorDecrease"
           \/ /\ request'[q].pc = "errorSave"
              /\ Exhausted(request'[q].inst[request'[q].root])
    PROVE  video' = "TRANSCODING_FAILED"
  <1> DEFINE r == request[q]
             s == request'[q]
  <1>0. RowsTyped /\ RequestsTyped /\ VideoTyped
    BY DEF TypeOK
  <1>1. /\ r.pc = "errorDecrease" => video = "TRANSCODING_FAILED"
        /\ r.pc = "errorSave" /\ Exhausted(r.inst[r.root])
             => video = "TRANSCODING_FAILED"
    BY DEF MoveInv
  <1>2. video = "TRANSCODING_FAILED" => video' = "TRANSCODING_FAILED"
    BY <1>0, VideoMoves
  <1>3. CASE request'[q] = request[q]
    BY <1>1, <1>2, <1>3
  <1>4. ASSUME NEW j \in Job, NewRequest(q, j) PROVE FALSE
    <2>1. PICK label \in {"saveCompleting", "abortSave", "errorFail",
                          "cancelDecrease", "destroy"}, destroy \in BOOLEAN :
            Start(q, label, j, destroy)
      BY <1>4 DEF NewRequest, StartComplete, StartAbort, StartError,
                  StartCancel, StartDelete
    <2>2. s.pc = label
      BY <1>0, <2>1 DEF Start, RequestsTyped
    <2>. QED
      BY <2>1, <2>2
  <1>5. CASE HandlerStep(q)
    <2>1. CASE ErrorFail(q)
      <3>1. \/ MoveToFailedTranscodingState
            \/ Goto(q, "errorSave") /\ ~Exhausted(r.inst[r.root])
        BY <2>1 DEF ErrorFail, AccountInv
      <3>2. Goto(q, "errorSave") => s.pc = "errorSave" /\ s.root = r.root
                                    /\ s.inst = r.inst
        BY <1>0, GotoFields
      <3>. QED
        BY <3>1, <3>2 DEF MoveToFailedTranscodingState
    <2>2. CASE ErrorDecrease(q)
      BY <1>1, <1>2, <2>2 DEF ErrorDecrease
    <2>3. CASE ~ErrorFail(q) /\ ~ErrorDecrease(q)
      <3>1. s.pc \notin {"errorDecrease", "errorSave"}
        BY <1>0, <1>5, <2>3, ErrorEntered
      <3>. QED
        BY <3>1
    <2>. QED
      BY <2>1, <2>2, <2>3
  <1>6. ~CompleteThrows(q)
    BY DEF CompleteThrows, Ordered
  <1>. QED
    BY <1>0, <1>3, <1>4, <1>5, <1>6, RequestChange

\* Every step keeps what the move relies on.
LEMMA MoveStep ==
    ASSUME Env \subseteq Ordered
    PROVE  TypeOK /\ OrderInv /\ AccountInv /\ MoveInv /\ [Next]_vars => MoveInv'
  <1> SUFFICES ASSUME TypeOK, OrderInv, AccountInv, MoveInv, [Next]_vars
               PROVE  MoveInv'
    OBVIOUS
  <1>0. /\ RowsTyped /\ RequestsTyped /\ VideoTyped /\ BuildsTyped
        /\ Env \subseteq OrderedTwice
    BY DEF TypeOK, OrderedTwice
  <1>1. Todo' \subseteq Todo
    <2>1. AccountMove
      BY <1>0, AccountMoves, OneBuild, TreeAssumption
    <2>. QED
      BY <2>1 DEF AccountMove, Subtracted, Created, Counted
  <1>2. ASSUME NEW j \in Job, Exists(j)' PROVE Exists(j) \/ j \in Todo
    <2>1. ASSUME ~Exists(j) PROVE j \in Todo
      <3>1. job[j].state = "NOT_CREATED" /\ job'[j].state # "NOT_CREATED"
        BY <1>2, <2>1 DEF Exists, Absent, OrderInv, FamilyInv
      <3>2. PICK b \in Builder : CreateRunnerJob(b, j)
        BY <3>1, CreatedByBuild, TreeAssumption
      <3>. QED
        BY <3>2 DEF CreateRunnerJob, Todo
    <2>. QED
      BY <2>1
  <1>3. ASSUME NEW i \in Job, NEW j \in Job,
               Exists(i)' \/ i \in Todo', Exists(j)' \/ j \in Todo'
        PROVE  MainOf(i) = MainOf(j)
    BY <1>1, <1>2, <1>3 DEF MoveInv
  <1>4. ASSUME NEW q \in Request, At(q)' PROVE NoBuild'
    <2>1. NoBuild
      <3>1. CASE At(q)
        BY <3>1 DEF MoveInv
      <3>2. ASSUME NEW j \in Job, NewRequest(q, j) PROVE NoBuild
        <4>1. PICK label, destroy : Start(q, label, j, destroy)
          BY <3>2 DEF NewRequest, StartComplete, StartAbort, StartError,
                      StartCancel, StartDelete
        <4>. QED
          BY <4>1 DEF Start, Ordered
      <3>3. ASSUME ~At(q) PROVE \E j \in Job : NewRequest(q, j)
        <4>1. request'[q] # request[q] /\ request'[q].pc # "idle"
          BY <1>4, <3>3 DEF At
        <4>2. ~HandlerStep(q) /\ ~CompleteThrows(q)
          <5>1. OnCourse(request[q]) /\ video # "DELETED"
            BY DEF OrderInv, RequestsOnCourse, AccountInv
          <5>. QED
            BY <1>0, <3>3, <5>1, HandlerSettles DEF CompleteThrows, Ordered
        <4>. QED
          BY <1>0, <4>1, <4>2, RequestChange
      <3>. QED
        BY <3>1, <3>2, <3>3
    <2>2. builder' = builder
      BY <1>0, <2>1, OneBuild
    <2>. QED
      BY <2>1, <2>2 DEF NoBuild
  <1>5. \A b \in Builder : builder'[b].pc \notin {"reset", "state"}
    BY <1>0, OneBuild DEF MoveInv
  <1>6. moveJobs' > 0 \/ afterMove' => video' # "TO_TRANSCODE"
    BY <1>0, VideoMoves
  <1>. QED
    BY <1>3, <1>4, <1>5, <1>6, FailedStep DEF MoveInv

\* What the move relies on holds at the start.
LEMMA MoveInit == Init /\ TreeAssumption => MoveInv
  <1> SUFFICES ASSUME Init, TreeAssumption PROVE MoveInv
    OBVIOUS
  <1>1. /\ \A j \in Job : ~Exists(j)
        /\ \A q \in Request : request[q].pc = "idle"
        /\ moveJobs = 0 /\ afterMove = FALSE
    BY DEF Init, NotLoaded, NoRow, IdleRequest, Exists, Absent
  <1>2. PICK b \in Builder, m \in Mains :
          builder = [c \in Builder |-> IF c = b THEN UploadBuild(m)
                                       ELSE IdleBuilder]
    BY DEF Init
  <1>3. /\ \A c \in Builder : builder[c].pc \in {"row", "idle"}
        /\ Todo \subseteq {m} \cup Kids(m)
    BY <1>2 DEF UploadBuild, IdleBuilder, Todo
  <1>4. \A i, j \in Todo : MainOf(i) = MainOf(j)
    BY <1>2, <1>3 DEF MainOf, Mains, Kids, TreeAssumption
  <1>. QED
    BY <1>1, <1>3, <1>4 DEF MoveInv, At

\* When the move is asked for every job's output is there but that of the job
\* whose cancellation asks for it: "wait all transcoding jobs before moving the
\* video on an external storage" holds, for one batch, of jobs that are still
\* being created, completed, failed or cancelled with their children.
THEOREM MoveIsLast ==
    ASSUME Env \subseteq Ordered
    PROVE  Spec => MoveWaitsForAll
  <1> DEFINE I == TypeOK /\ OrderInv /\ AccountInv /\ AttachedInv /\ MoveInv
  <1>0. Env \subseteq OrderedTwice
    BY DEF OrderedTwice
  <1>1. Init => I
    BY TypeInit, OrderInit, AccountInit, AttachedInit, MoveInit, TreeAssumption
  <1>2. I /\ [Next]_vars => I'
    BY <1>0, TypeStep, OrderStep, AccountStep, AttachedStep, MoveStep
  <1>3. I /\ [Next]_vars =>
          [video # "TO_MOVE_TO_EXTERNAL_STORAGE"
             /\ video' = "TO_MOVE_TO_EXTERNAL_STORAGE"
           => \A j \in Job :
                Unfinished(j) =>
                  \/ j \in files /\ job[j].state = "COMPLETING"
                  \/ \E q \in Request : request[q].cur = j
                                      /\ request[q].pc = "cancelNext"]_vars
    <2> SUFFICES ASSUME I, [Next]_vars, video # "TO_MOVE_TO_EXTERNAL_STORAGE",
                        video' = "TO_MOVE_TO_EXTERNAL_STORAGE",
                        NEW j \in Job, Unfinished(j)
                 PROVE  \/ j \in files /\ job[j].state = "COMPLETING"
                        \/ \E q \in Request : request[q].cur = j
                                            /\ request[q].pc = "cancelNext"
      OBVIOUS
    <2>0. RowsTyped /\ RequestsTyped /\ VideoTyped /\ BuildsTyped /\ pending \in Int
      BY Zenon DEF TypeOK, VideoTyped
    <2>1. PICK q \in Request : /\ video = "TO_TRANSCODE" /\ pending = 0
                               /\ CompleteNextState(q) \/ CancelNextState(q)
      BY <2>0, VideoMoves
    <2>2. At(q) /\ request[q].pc \in {"nextState", "cancelNext"}
      BY <2>1 DEF CompleteNextState, CancelNextState, At
    <2>3. ~Adding
      BY <2>2 DEF MoveInv, NoBuild, Adding
    <2>4. Owed = {}
      BY <2>0, <2>1, <2>3, NothingOwed, BoundAssumption DEF AccountInv
    <2>5. Due(j)
      <3>1. job[j].state \in JobState \cup Absent
        BY <2>0 DEF RowsTyped, Row
      <3>. QED
        BY <3>1 DEF Due, DueState, Unfinished, Exists, Absent, Final, JobState
    <2>6. PICK p \in Request : Takes(request[p], j)
      BY <2>4, <2>5 DEF Owed
    <2>7. /\ OnCourse(request[p]) /\ OnCourse(request[q])
          /\ video # "DELETED" /\ video # "TRANSCODING_FAILED"
      BY <2>1 DEF OrderInv, RequestsOnCourse
    <2>8. CASE request[p].root = j /\ request[p].pc \in {"nextState", "saveCompleted"}
      BY <2>7, <2>8 DEF OnCourse, RootOnCourse, EndingPC, AttachedInv, AttachedPC
    <2>9. ~(request[p].root = j /\ request[p].pc = "errorSave"
            /\ Exhausted(request[p].inst[j]))
      BY <2>7 DEF MoveInv
    <2>10. CASE request[p].cur = j /\ request[p].pc = "cancelNext"
      BY <2>10
    <2>11. ~(request[p].cur = j /\ request[p].pc = "cancelSave")
      <3> SUFFICES ASSUME request[p].cur = j, request[p].pc = "cancelSave"
                   PROVE  FALSE
        OBVIOUS
      <3> DEFINE x == request[p].root
                 y == request[q].root
      <3>1. At(p) /\ p # q /\ x \in Job /\ y \in Job
        BY <2>0, <2>2, RequestHolds DEF At
      <3>2. Parent[x] = None /\ Exists(x)
        <4>1. CASE j = x
          <5>1. Parent[x] = None /\ job[x].state \in Cancellable
            BY <2>7, <4>1 DEF OnCourse, RootOnCourse, GiveUpPC
          <5>. QED
            BY <5>1 DEF Exists, Absent, Cancellable
        <4>2. CASE j # x
          <5>1. job[x].state = "CANCELLED" /\ Parent[j] = x
            BY <2>7, <4>2 DEF OnCourse, RootOnCourse, KidsOnCourse, GiveUpPC, Kids
          <5>2. Parent[x] = None
            BY <3>1, <5>1, TreeAssumption DEF TreeAssumption
          <5>. QED
            BY <5>1, <5>2 DEF Exists, Absent
        <4>. QED
          BY <4>1, <4>2
      <3>3. Exists(y)
        BY <2>2, <2>7 DEF OnCourse, RootOnCourse, EndingPC, GiveUpPC, Exists,
                          Absent, Cancellable
      <3>4. MainOf(x) = MainOf(y)
        BY <3>1, <3>2, <3>3 DEF MoveInv
      <3>5. ~Related(x, y)
        BY <2>2, <3>1 DEF OrderInv, Apart
      <3>. QED
        BY <3>2, <3>4, <3>5 DEF MainOf, Related
    <2>. QED
      BY <2>6, <2>8, <2>9, <2>10, <2>11 DEF Takes
  <1> HIDE DEF I
  <1>. QED
    BY <1>1, <1>2, <1>3, PTL DEF Spec, MoveWaitsForAll

=============================================================================
