------------------------- MODULE RunnerClientProofs -------------------------
(* Proofs about RunnerClient, for any instances, jobs, concurrency and       *)
(* environment.                                                              *)
EXTENDS RunnerClient, FiniteSetTheorems, TLAPS

-----------------------------------------------------------------------------
\* The part of TypeOK that gives each variable its range.
Typed ==
    /\ row \in [Job -> Row]
    /\ known \subseteq Instance /\ pinged \subseteq Instance
    /\ servers \subseteq Instance /\ unheard \subseteq Instance
    /\ runner \in {"on", "exiting", "off"}
    /\ checking \in BOOLEAN
    /\ check \in [Slot -> Check]
    /\ work \in [Token -> Work]
    /\ exit \in [todo : SUBSET Token, live : BOOLEAN]

\* The other part: a stopped program has no check and no process.
OffIsIdle == runner = "off" => check = NoChecks /\ Processing = {}

\* A call of checkAvailableJobs keeps its two variables in their ranges.
LEMMA CallTyped ==
    ASSUME Typed, CheckAvailableJobs
    PROVE  checking' \in BOOLEAN /\ check' \in [Slot -> Check]
<1>1. CASE AlreadyChecking
  BY <1>1 DEF Typed, CheckAvailableJobs, checkVars
<1>2. CASE ~AlreadyChecking
  <2>1. checking' = TRUE /\ \E l \in Slot : check' = StartCheck(l)
    BY <1>2 DEF CheckAvailableJobs
  <2>2. ASSUME NEW l \in Slot PROVE StartCheck(l) \in [Slot -> Check]
    BY DEF StartCheck, Typed, Check, CheckPC, IdleCheck
  <2> QED BY <2>1, <2>2
<1> QED BY <1>1, <1>2

\* Stopping the program keeps what it assigns in its range.
LEMMA StopTyped ==
    ASSUME Typed, Stop
    PROVE  /\ runner' = "off" /\ checking' \in BOOLEAN
           /\ check' \in [Slot -> Check] /\ work' \in [Token -> Work]
           /\ exit' \in [todo : SUBSET Token, live : BOOLEAN]
           /\ known' = known /\ servers' = servers /\ unheard' = unheard
BY ZenonT(30) DEF Typed, Stop, WorkAfterStop, NoChecks, IdleCheck, Check, CheckPC, Work, NoExit

\* A step of an execution of checkAvailableJobs keeps every range.
LEMMA CheckTyped ==
    ASSUME Typed, NEW l \in Slot, CheckStep(l) \/ RequestFails(l)
    PROVE  Typed'
<1>1. CASE NextServer(l)
  BY <1>1 DEF Typed, NextServer, serverVars, Check, CheckPC
<1>2. CASE RequestJob(l)
  BY <1>2 DEF Typed, RequestJob, serverVars, Check, CheckPC, AvailableJobs
<1>3. CASE TryToExecuteJob(l)
  BY <1>3 DEF Typed, TryToExecuteJob, serverVars, Check, CheckPC
<1>4. CASE AcceptJob(l)
  <2>1. ASSUME NEW t \in Token, NEW j \in Job \cup {None},
               j = check[l].job,
               row' = [row EXCEPT ![j] = [state |-> "processing", token |-> t]],
               work' = [work EXCEPT ![t] = [at |-> "accepted", job |-> j]],
               check' = [check EXCEPT ![l].pc = "accepted", ![l].token = t]
        PROVE  /\ row' \in [Job -> Row] /\ work' \in [Token -> Work]
               /\ check' \in [Slot -> Check]
    <3>1. row' \in [Job -> Row]
      BY <2>1 DEF Typed, Row
    <3>2. work' \in [Token -> Work]
      BY <2>1 DEF Typed, Work
    <3>3. check' \in [Slot -> Check]
      <4>1. [check[l] EXCEPT !.pc = "accepted", !.token = t] \in Check
        BY ZenonT(60) DEF Typed, Check, CheckPC
      <4>2. check' = [check EXCEPT ![l] =
                        [check[l] EXCEPT !.pc = "accepted", !.token = t]]
        BY <2>1 DEF Typed
      <4> QED BY <4>1, <4>2 DEF Typed
    <3> QED BY <3>1, <3>2, <3>3
  <2>2. check[l].job \in Job \cup {None}
    BY DEF Typed, Check
  <2>3. ASSUME NEW pc \in {"next", "unregister"}, check' = [check EXCEPT ![l].pc = pc]
        PROVE  check' \in [Slot -> Check]
    <3>1. [check[l] EXCEPT !.pc = pc] \in Check
      BY DEF Typed, Check, CheckPC
    <3>2. check' = [check EXCEPT ![l] = [check[l] EXCEPT !.pc = pc]]
      BY <2>3 DEF Typed
    <3> QED BY <3>1, <3>2 DEF Typed
  <2>4. /\ row' \in [Job -> Row] /\ work' \in [Token -> Work]
        /\ check' \in [Slot -> Check]
    <3>1. CASE UNCHANGED <<row, work>> /\ \E pc \in {"next", "unregister"} :
                 check' = [check EXCEPT ![l].pc = pc]
      BY <3>1, <2>3 DEF Typed
    <3>2. CASE \E t \in Token :
                 /\ row' = [row EXCEPT ![check[l].job] =
                              [state |-> "processing", token |-> t]]
                 /\ work' = [work EXCEPT ![t] =
                               [at |-> "accepted", job |-> check[l].job]]
                 /\ check' = [check EXCEPT ![l].pc = "accepted",
                                           ![l].token = t]
      BY <3>2, <2>1, <2>2
    <3> QED BY <1>4, <3>1, <3>2 DEF AcceptJob
  <2> QED BY <1>4, <2>4 DEF Typed, AcceptJob
<1>5. CASE PushProcessingJob(l)
  <2>1. check[l].token \in Token
    BY <1>5 DEF Typed, PushProcessingJob, Check
  <2>2. work' \in [Token -> Work]
    BY <1>5, <2>1 DEF Typed, PushProcessingJob, Work
  <2>3. check' \in [Slot -> Check]
    BY SMTT(30), <1>5 DEF Typed, PushProcessingJob, Check, CheckPC
  <2>4. exit' \in [todo : SUBSET Token, live : BOOLEAN]
    BY <1>5, <2>1 DEF Typed, PushProcessingJob, ExitAfterPush
  <2> QED BY <1>5, <2>2, <2>3, <2>4 DEF Typed, PushProcessingJob, serverVars
<1>6. CASE RequestFails(l)
  <2>1. check' \in [Slot -> Check]
    BY <1>6 DEF Typed, RequestFails, Check, CheckPC
  <2>2. work' \in [Token -> Work]
    BY ZenonT(30), <1>6 DEF Typed, RequestFails, Work
  <2> QED BY <1>6, <2>1, <2>2 DEF Typed, RequestFails, serverVars
<1>7. CASE EndCheck(l)
  BY <1>7 DEF Typed, EndCheck, serverVars, Check, CheckPC, IdleCheck
<1>8. CASE WaitEnds(l)
  <2>1. IdleCheck \in Check /\ [IdleCheck EXCEPT !.pc = "next", !.todo = servers] \in Check
    BY DEF Typed, Check, CheckPC, IdleCheck
  <2>2. check' \in [Slot -> Check]
    BY <1>8, <2>1 DEF Typed, WaitEnds, StartCheck
  <2>3. checking' \in BOOLEAN
    <3>1. checking' = checking \/ checking' = TRUE
      BY <1>8, Zenon DEF WaitEnds
    <3> QED BY <3>1, Zenon DEF Typed
  <2> QED BY <1>8, <2>2, <2>3 DEF Typed, WaitEnds, serverVars
<1>9. CASE UnregisterRunner(l)
  BY <1>9 DEF Typed, UnregisterRunner, serverVars, Check, CheckPC, IdleCheck
<1> QED BY <1>1, <1>2, <1>3, <1>4, <1>5, <1>6, <1>7, <1>8, <1>9 DEF CheckStep

\* A step of a process, of its report or of its abort keeps every range.
LEMMA WorkTyped ==
    ASSUME Typed, InstanceOf \in [Job -> Instance], NEW t \in Token,
           ProcessStep(t) \/ ReportArrives(t) \/ ReportLost(t) \/ AbortJob(t)
    PROVE  Typed'
<1>1. CASE Succeed(t)
  <2>1. row' \in [Job -> Row]
    BY <1>1 DEF Typed, Succeed, Row, NewRow
  <2>2. work' \in [Token -> Work]
    BY <1>1 DEF Typed, Succeed, Work, FreeWork
  <2>3. exit' \in [todo : SUBSET Token, live : BOOLEAN]
    BY <1>1 DEF Typed, Succeed, RemoveProcessingJob
  <2>4. checking' \in BOOLEAN /\ check' \in [Slot -> Check]
    BY <1>1, CallTyped DEF Succeed, RemoveProcessingJob
  <2> QED BY <1>1, <2>1, <2>2, <2>3, <2>4 DEF Typed, Succeed
<1>2. CASE Fail(t)
  BY <1>2, CallTyped DEF Typed, Fail, AfterFailure, RemoveProcessingJob, serverVars, Work
<1>3. CASE ReportArrives(t)
  BY <1>3 DEF Typed, ReportArrives, Valid, BackToPending, checkVars, Row, NewRow,
              Work, FreeWork
<1>4. CASE ReportLost(t)
  BY <1>4 DEF Typed, ReportLost, serverVars, checkVars, Work
<1>5. CASE AbortJob(t)
  <2>1. CASE Valid(t) /\ BackToPending(work[t].job)
               /\ exit' = [exit EXCEPT !.todo = @ \ {t}]
               /\ UNCHANGED <<known, runner, servers, unheard, checkVars, work>>
    BY <2>1 DEF Typed, Valid, BackToPending, checkVars, Row, NewRow
  <2>2. CASE Stop /\ UNCHANGED <<row, pinged>>
    BY <2>2, StopTyped DEF Typed
  <2> QED BY <1>5, <2>1, <2>2 DEF AbortJob
<1> QED BY <1>1, <1>2, <1>3, <1>4, <1>5 DEF ProcessStep

\* Every step keeps every range.
LEMMA StepTyped ==
    ASSUME Typed, [Next]_vars, InstanceOf \in [Job -> Instance]
    PROVE  Typed'
<1>1. CASE \E l \in Slot : CheckStep(l) \/ RequestFails(l)
  BY <1>1, CheckTyped
<1>2. CASE \E t \in Token : \/ ProcessStep(t) \/ ReportArrives(t)
                            \/ ReportLost(t) \/ AbortJob(t)
  BY <1>2, WorkTyped
<1>3. ASSUME NEW i \in Instance, PingArrives(i) PROVE Typed'
  BY <1>3, CallTyped DEF Typed, PingArrives, checkVars
<1>4. ASSUME NEW i \in Instance, PingLost(i) \/ DeleteRunner(i) PROVE Typed'
  BY <1>4 DEF Typed, PingLost, DeleteRunner, checkVars, Row
<1>5. ASSUME NEW j \in Job, Offer(j) \/ OthersAccept(j) \/ OthersEnd(j)
             \/ AbortStalled(j)
      PROVE  Typed'
  BY SMTT(30), <1>5 DEF Typed, Offer, OthersAccept, OthersEnd, AbortStalled, BackToPending,
              checkVars, Row, NewRow
<1>6. CASE Run
  BY <1>6, CallTyped DEF Typed, Run, serverVars
<1>7. CASE Crash \/ ExitEnds
  BY <1>7, StopTyped DEF Typed, Crash, ExitEnds
<1>8. CASE OnExit
  BY <1>8 DEF Typed, OnExit, serverVars, checkVars, Processing
<1>9. CASE UNCHANGED vars
  BY <1>9 DEF Typed, vars, serverVars, checkVars
<1> QED BY <1>1, <1>2, <1>3, <1>4, <1>5, <1>6, <1>7, <1>8, <1>9 DEF Next

\* A stopped program takes no step of its own.
LEMMA StepOff ==
    ASSUME Typed, OffIsIdle, [Next]_vars
    PROVE  OffIsIdle'
<1>1. ASSUME NEW l \in Slot, CheckStep(l) \/ RequestFails(l)
      PROVE  OffIsIdle'
  <2>1. check[l].pc # "idle" /\ runner' = runner
    BY <1>1 DEF CheckStep, NextServer, RequestJob, TryToExecuteJob, AcceptJob,
                PushProcessingJob, EndCheck, WaitEnds, UnregisterRunner,
                RequestFails
  <2>2. runner # "off"
    BY <2>1 DEF OffIsIdle, NoChecks, IdleCheck
  <2> QED BY <2>1, <2>2 DEF OffIsIdle
<1>2. ASSUME NEW t \in Token, ProcessStep(t) PROVE OffIsIdle'
  <2>1. t \in Processing /\ runner' = runner
    BY <1>2 DEF ProcessStep, Succeed, Fail, Processing
  <2> QED BY <2>1 DEF OffIsIdle
<1>3. ASSUME NEW t \in Token, ReportArrives(t) \/ ReportLost(t)
      PROVE  OffIsIdle'
  <2>1. /\ check' = check /\ runner' = runner
        /\ \/ work' = [work EXCEPT ![t] = FreeWork]
           \/ work' = [work EXCEPT ![t].at = "lost"]
    BY <1>3 DEF ReportArrives, ReportLost, checkVars
  <2>2. ASSUME NEW u \in Token, work'[u].at = "processing"
        PROVE  work[u].at = "processing"
    <3>1. CASE u = t
      BY <2>1, <2>2, <3>1 DEF FreeWork, Typed, Work
    <3>2. CASE u # t
      BY <2>1, <2>2, <3>2 DEF Typed
    <3> QED BY <3>1, <3>2
  <2>3. Processing' \subseteq Processing
    BY <2>2 DEF Processing
  <2> QED BY <2>1, <2>3 DEF OffIsIdle, NoChecks
<1>4. ASSUME Stop PROVE OffIsIdle'
  BY <1>4 DEF Stop, WorkAfterStop, OffIsIdle, NoChecks, Processing, Typed
<1>5. ASSUME NEW t \in Token, AbortJob(t) PROVE OffIsIdle'
  <2>1. Stop \/ UNCHANGED <<check, work, runner>>
    BY <1>5 DEF AbortJob, checkVars
  <2> QED BY <1>4, <2>1 DEF OffIsIdle, NoChecks, Processing
<1>6. ASSUME NEW i \in Instance,
             PingArrives(i) \/ PingLost(i) \/ DeleteRunner(i)
      PROVE  OffIsIdle'
  <2>1. UNCHANGED <<work, runner>> /\ (runner = "off" => check' = check)
    BY <1>6 DEF PingArrives, PingLost, DeleteRunner, checkVars
  <2> QED BY <2>1 DEF OffIsIdle, NoChecks, Processing
<1>7. ASSUME NEW j \in Job, Offer(j) \/ OthersAccept(j) \/ OthersEnd(j)
             \/ AbortStalled(j)
      PROVE  OffIsIdle'
  <2>1. UNCHANGED <<check, work, runner>>
    BY <1>7 DEF Offer, OthersAccept, OthersEnd, AbortStalled, checkVars
  <2> QED BY <2>1 DEF OffIsIdle, NoChecks, Processing
<1>8. CASE Run \/ OnExit
  <2>1. runner' # "off"
    BY <1>8 DEF Run, OnExit
  <2> QED BY <2>1 DEF OffIsIdle
<1>9. CASE Crash \/ ExitEnds
  BY <1>4, <1>9 DEF Crash, ExitEnds
<1>10. CASE UNCHANGED vars
  BY <1>10 DEF OffIsIdle, NoChecks, Processing, vars, checkVars
<1> QED BY <1>1, <1>2, <1>3, <1>5, <1>6, <1>7, <1>8, <1>9, <1>10 DEF Next

\* Initially every variable is in its range and the program is stopped.
LEMMA InitTyped == Init => Typed /\ OffIsIdle
<1> SUFFICES ASSUME Init PROVE Typed /\ OffIsIdle
  OBVIOUS
<1>1. row \in [Job -> Row] /\ work \in [Token -> Work] /\ checking \in BOOLEAN
  BY DEF Init, Row, NewRow, Work, FreeWork
<1>2. check \in [Slot -> Check] /\ check = NoChecks
  BY DEF Init, NoChecks, IdleCheck, Check, CheckPC
<1>3. /\ exit \in [todo : SUBSET Token, live : BOOLEAN]
      /\ runner \in {"on", "exiting", "off"}
      /\ known \subseteq Instance /\ pinged \subseteq Instance
      /\ servers \subseteq Instance /\ unheard \subseteq Instance
  BY DEF Init, NoExit
<1>4. Processing = {}
  BY DEF Init, Processing, FreeWork
<1> QED BY <1>1, <1>2, <1>3, <1>4 DEF Typed, OffIsIdle

\* Every reachable state is well typed, in any environment, and a program that
\* does not run has no check and no process.
THEOREM TypeInvariant == Spec => []TypeOK
<1>1. Init => Typed /\ OffIsIdle
  BY InitTyped
<1>2. Typed /\ OffIsIdle /\ [Next]_vars => Typed' /\ OffIsIdle'
  BY StepTyped, StepOff, InstanceAssumption
<1>3. Typed /\ OffIsIdle => TypeOK
  BY DEF Typed, OffIsIdle, TypeOK
<1> QED BY <1>1, <1>2, <1>3, PTL DEF Spec

-----------------------------------------------------------------------------
(* The concurrency limit.  checkingAvailableJobs keeps executions of
   checkAvailableJobs apart, so between the look at the limit and the push
   after the acceptance nobody else starts a process.                       *)

\* An execution that has the flag: it is neither over nor in its timer.
Active(l) == check[l].pc \notin {"idle", "wait"}

OneCheck == /\ \A l \in Slot : Active(l) => checking
            /\ \A l, m \in Slot : Active(l) /\ Active(m) => l = m

\* The look at the limit is still true when the job is accepted.
RoomForJob ==
    \A l \in Slot : check[l].pc \in {"accept", "accepted"} => CanProcessMoreJobs

FewProcesses == IsFiniteSet(Processing) /\ ConcurrencyBounded

Exclusion == OneCheck /\ RoomForJob /\ FewProcesses

\* How a step may change the flag and the executions: one starts while the
\* flag is down, the one that has the flag moves on, or one stops.
Starts(l) == /\ ~checking /\ checking' /\ ~Active(l) /\ Active(l)'
             /\ \A k \in Slot \ {l} : check'[k] = check[k]

MovesOn(l) == /\ Active(l) /\ checking' = checking
              /\ \A k \in Slot \ {l} : check'[k] = check[k]

Stops(l) == /\ Active(l) \/ checking' = checking
            /\ ~Active(l)'
            /\ \A k \in Slot \ {l} : check'[k] = check[k]

CheckChange ==
    \/ UNCHANGED checkVars
    \/ \A l \in Slot : ~Active(l)'
    \/ \E l \in Slot : Starts(l) \/ MovesOn(l) \/ Stops(l)

\* Only an execution that found room goes on to accept, and only one whose
\* acceptance was answered starts a process.
RoomChange ==
    \A l \in Slot : check'[l].pc \in {"accept", "accepted"} =>
        check[l].pc \in {"accept", "accepted"} \/ CanProcessMoreJobs

ProcessChange ==
    \/ Processing' \subseteq Processing
    \/ \E l \in Slot : PushProcessingJob(l)

\* A fresh execution is one step into the loop, nowhere near an acceptance.
LEMMA StartedCheck ==
    ASSUME Typed, NEW l \in Slot, check' = StartCheck(l)
    PROVE  /\ check'[l].pc = "next"
           /\ \A k \in Slot \ {l} : check'[k] = check[k]
BY DEF Typed, StartCheck, IdleCheck

\* A call of checkAvailableJobs starts an execution only when the flag is down.
LEMMA CallChange ==
    ASSUME Typed, CheckAvailableJobs
    PROVE  CheckChange /\ RoomChange
<1>1. CASE AlreadyChecking
  <2>1. UNCHANGED checkVars
    BY <1>1 DEF CheckAvailableJobs
  <2> QED BY <2>1 DEF CheckChange, RoomChange, checkVars
<1>2. CASE ~AlreadyChecking
  <2>1. PICK l \in Slot : check[l].pc = "idle" /\ check' = StartCheck(l)
    BY <1>2 DEF CheckAvailableJobs
  <2>2. ~checking /\ checking'
    BY <1>2, Zenon DEF CheckAvailableJobs, AlreadyChecking
  <2>3. /\ check'[l].pc = "next"
        /\ \A k \in Slot \ {l} : check'[k] = check[k]
    BY <2>1, StartedCheck
  <2>4. ~Active(l) /\ Active(l)'
    BY <2>1, <2>3 DEF Active
  <2>5. Starts(l)
    BY <2>2, <2>3, <2>4, Zenon DEF Starts
  <2>6. RoomChange
    BY <2>3 DEF RoomChange
  <2> QED BY <2>5, <2>6 DEF CheckChange
<1> QED BY <1>1, <1>2

\* Stopping the program ends every execution.
LEMMA StopChange ==
    ASSUME Stop
    PROVE  CheckChange /\ RoomChange
<1>1. \A l \in Slot : check'[l].pc = "idle"
  BY DEF Stop, NoChecks, IdleCheck
<1> QED BY <1>1 DEF CheckChange, RoomChange, Active

\* What a step of an execution does to the executions.
LEMMA CheckStepChange ==
    ASSUME Typed, NEW l \in Slot, CheckStep(l) \/ RequestFails(l)
    PROVE  CheckChange /\ RoomChange
<1>1. CASE NextServer(l) \/ RequestJob(l) \/ TryToExecuteJob(l)
             \/ AcceptJob(l) \/ PushProcessingJob(l) \/ RequestFails(l)
  <2>1. /\ check[l].pc \notin {"idle", "wait"}
        /\ \A k \in Slot \ {l} : check'[k] = check[k]
        /\ check'[l].pc \in {"accept", "accepted"} =>
             check[l].pc \in {"accept", "accepted"} \/ CanProcessMoreJobs
    <3>1. CASE NextServer(l) \/ PushProcessingJob(l) \/ RequestFails(l)
      <4>1. /\ check[l].pc \in {"next", "request", "accept", "accepted"}
            /\ \A k \in Slot \ {l} : check'[k] = check[k]
        BY <3>1 DEF Typed, NextServer, PushProcessingJob, RequestFails
      <4>2. check'[l].pc \in {"request", "next"}
        <5>1. CASE NextServer(l)
          BY <5>1 DEF Typed, Check, NextServer
        <5>2. CASE PushProcessingJob(l) \/ RequestFails(l)
          BY <5>2 DEF Typed, Check, PushProcessingJob, RequestFails
        <5> QED BY <3>1, <5>1, <5>2
      <4> QED BY <4>1, <4>2
    <3>2. CASE TryToExecuteJob(l)
      BY <3>2 DEF Typed, Check, TryToExecuteJob
    <3>3. CASE RequestJob(l)
      BY <3>3 DEF Typed, Check, RequestJob
    <3>4. CASE AcceptJob(l)
      <4>1. check[l].pc = "accept"
        BY <3>4 DEF AcceptJob
      <4>2. \A k \in Slot \ {l} : check'[k] = check[k]
        BY <3>4 DEF Typed, AcceptJob
      <4> QED BY <4>1, <4>2
    <3> QED BY <1>1, <3>1, <3>2, <3>3, <3>4
  <2>2. checking' = checking
    BY <1>1 DEF NextServer, RequestJob, TryToExecuteJob, AcceptJob,
                PushProcessingJob, RequestFails
  <2>3. MovesOn(l)
    BY <2>1, <2>2, Zenon DEF MovesOn, Active
  <2>4. RoomChange
    BY <2>1 DEF RoomChange
  <2> QED BY <2>3, <2>4 DEF CheckChange
<1>2. CASE EndCheck(l) \/ UnregisterRunner(l)
  <2>1. /\ check[l].pc \notin {"idle", "wait"}
        /\ check'[l].pc \in {"idle", "wait"}
        /\ \A k \in Slot \ {l} : check'[k] = check[k]
    BY <1>2 DEF Typed, EndCheck, UnregisterRunner, IdleCheck
  <2>2. Stops(l)
    BY <2>1 DEF Stops, Active
  <2>3. RoomChange
    BY <2>1 DEF RoomChange
  <2> QED BY <2>2, <2>3 DEF CheckChange
<1>3. CASE WaitEnds(l) /\ AlreadyChecking
  <2>1. /\ check'[l].pc = "idle"
        /\ \A k \in Slot \ {l} : check'[k] = check[k]
    BY <1>3 DEF Typed, WaitEnds, IdleCheck
  <2>2. checking' = checking
    BY <1>3 DEF WaitEnds
  <2>3. ~Active(l)'
    BY <2>1 DEF Active
  <2>4. Stops(l)
    BY <2>1, <2>2, <2>3, Zenon DEF Stops
  <2>5. RoomChange
    BY <2>1 DEF RoomChange
  <2> QED BY <2>4, <2>5 DEF CheckChange
<1>4. CASE WaitEnds(l) /\ ~AlreadyChecking
  <2>1. check[l].pc = "wait" /\ check' = StartCheck(l)
    BY <1>4 DEF WaitEnds
  <2>2. ~checking /\ checking'
    BY <1>4, Zenon DEF WaitEnds, AlreadyChecking
  <2>3. /\ check'[l].pc = "next"
        /\ \A k \in Slot \ {l} : check'[k] = check[k]
    BY <2>1, StartedCheck
  <2>4. ~Active(l) /\ Active(l)'
    BY <2>1, <2>3 DEF Active
  <2>5. Starts(l)
    BY <2>2, <2>3, <2>4, Zenon DEF Starts
  <2>6. RoomChange
    BY <2>3 DEF RoomChange
  <2> QED BY <2>5, <2>6 DEF CheckChange
<1> QED BY <1>1, <1>2, <1>3, <1>4 DEF CheckStep

\* What a step does to the executions.
LEMMA StepChange ==
    ASSUME Typed, [Next]_vars
    PROVE  CheckChange /\ RoomChange
<1>1. ASSUME UNCHANGED checkVars PROVE CheckChange /\ RoomChange
  BY <1>1 DEF CheckChange, RoomChange, checkVars
<1>2. CASE \E l \in Slot : CheckStep(l) \/ RequestFails(l)
  BY <1>2, CheckStepChange
<1>3. ASSUME NEW t \in Token, ProcessStep(t) PROVE CheckChange /\ RoomChange
  BY <1>3, CallChange DEF ProcessStep, Succeed, Fail, RemoveProcessingJob
<1>4. ASSUME NEW t \in Token, ReportArrives(t) \/ ReportLost(t) \/ AbortJob(t)
      PROVE  CheckChange /\ RoomChange
  BY <1>1, <1>4, StopChange DEF ReportArrives, ReportLost, AbortJob
<1>5. ASSUME NEW i \in Instance,
             PingArrives(i) \/ PingLost(i) \/ DeleteRunner(i)
      PROVE  CheckChange /\ RoomChange
  BY <1>1, <1>5, CallChange DEF PingArrives, PingLost, DeleteRunner
<1>6. ASSUME NEW j \in Job, Offer(j) \/ OthersAccept(j) \/ OthersEnd(j)
             \/ AbortStalled(j)
      PROVE  CheckChange /\ RoomChange
  BY <1>1, <1>6 DEF Offer, OthersAccept, OthersEnd, AbortStalled
<1>7. CASE Run \/ Crash \/ OnExit \/ ExitEnds
  BY <1>1, <1>7, CallChange, StopChange DEF Run, Crash, OnExit, ExitEnds
<1>8. CASE UNCHANGED vars
  BY <1>1, <1>8 DEF vars
<1> QED BY <1>2, <1>3, <1>4, <1>5, <1>6, <1>7, <1>8 DEF Next

\* Only the push after an acceptance adds a process.
LEMMA StepProcesses ==
    ASSUME Typed, [Next]_vars
    PROVE  ProcessChange
<1>1. ASSUME UNCHANGED work PROVE ProcessChange
  BY <1>1 DEF ProcessChange, Processing
<1>2. ASSUME NEW t, NEW w, w.at # "processing", work' = [work EXCEPT ![t] = w]
      PROVE  ProcessChange
  BY <1>2 DEF ProcessChange, Processing, Typed
<1>3. ASSUME NEW t, NEW a, a # "processing", work' = [work EXCEPT ![t].at = a]
      PROVE  ProcessChange
  <2>1. ASSUME NEW u \in Token, work'[u].at = "processing"
        PROVE  work[u].at = "processing"
    BY <1>3, <2>1 DEF Typed, Work
  <2> QED BY <2>1 DEF ProcessChange, Processing
<1>4. ASSUME Stop PROVE ProcessChange
  BY <1>4 DEF Stop, WorkAfterStop, ProcessChange, Processing
<1>5. ASSUME NEW l \in Slot, CheckStep(l) \/ RequestFails(l)
      PROVE  ProcessChange
  <2>1. CASE AcceptJob(l)
    <3>1. \/ UNCHANGED work
          \/ \E t \in Token :
               work' = [work EXCEPT ![t] = [at |-> "accepted",
                                            job |-> check[l].job]]
      BY <2>1 DEF AcceptJob
    <3> QED BY <1>1, <1>2, <3>1
  <2>2. CASE RequestFails(l)
    BY <1>1, <1>3, <2>2 DEF RequestFails
  <2>3. CASE PushProcessingJob(l)
    BY <2>3 DEF ProcessChange
  <2> QED BY <1>1, <1>5, <2>1, <2>2, <2>3
          DEF CheckStep, NextServer, RequestJob, TryToExecuteJob, EndCheck,
              WaitEnds, UnregisterRunner
<1>6. ASSUME NEW t \in Token,
             ProcessStep(t) \/ ReportArrives(t) \/ ReportLost(t) \/ AbortJob(t)
      PROVE  ProcessChange
  <2>1. \/ UNCHANGED work \/ Stop
        \/ work' = [work EXCEPT ![t] = FreeWork]
        \/ work' = [work EXCEPT ![t].at = "report"]
        \/ work' = [work EXCEPT ![t].at = "lost"]
    BY <1>6 DEF ProcessStep, Succeed, Fail, AfterFailure, ReportArrives,
                ReportLost, AbortJob
  <2>2. FreeWork.at # "processing"
    BY DEF FreeWork
  <2> QED BY <1>1, <1>2, <1>3, <1>4, <2>1, <2>2
<1>7. CASE \/ \E i \in Instance : PingArrives(i) \/ PingLost(i) \/ DeleteRunner(i)
           \/ \E j \in Job : \/ Offer(j) \/ OthersAccept(j) \/ OthersEnd(j)
                             \/ AbortStalled(j)
           \/ Run \/ OnExit \/ UNCHANGED vars
  BY <1>1, <1>7 DEF PingArrives, PingLost, DeleteRunner, Offer, OthersAccept,
                    OthersEnd, AbortStalled, Run, OnExit, vars
<1>8. CASE Crash \/ ExitEnds
  BY <1>4, <1>8 DEF Crash, ExitEnds
<1> QED BY <1>5, <1>6, <1>7, <1>8 DEF Next

\* The executions that have the flag keep excluding each other.
LEMMA ChangeKeepsOneCheck ==
    ASSUME Typed, OneCheck, CheckChange
    PROVE  OneCheck'
<1>1. CASE UNCHANGED checkVars
  BY <1>1 DEF OneCheck, Active, checkVars
<1>2. CASE \A l \in Slot : ~Active(l)'
  BY <1>2 DEF OneCheck
<1>3. ASSUME NEW l \in Slot, \A k \in Slot \ {l} : check'[k] = check[k]
      PROVE  \A k \in Slot : k # l => (Active(k)' <=> Active(k))
  BY <1>3 DEF Active
<1>4. ASSUME NEW l \in Slot, Starts(l) PROVE OneCheck'
  <2>1. \A k \in Slot : k # l => ~Active(k)'
    BY <1>3, <1>4, Zenon DEF Starts, OneCheck
  <2> QED BY <1>4, <2>1, Zenon DEF Starts, OneCheck
<1>5. ASSUME NEW l \in Slot, MovesOn(l) PROVE OneCheck'
  <2>1. \A k \in Slot : k # l => ~Active(k)'
    BY <1>3, <1>5, Zenon DEF MovesOn, OneCheck
  <2>2. checking'
    BY <1>5, Zenon DEF MovesOn, OneCheck
  <2> QED BY <2>1, <2>2, Zenon DEF OneCheck
<1>6. ASSUME NEW l \in Slot, Stops(l) PROVE OneCheck'
  <2>1. CASE Active(l)
    <3>1. \A k \in Slot : ~Active(k)'
      BY <1>3, <1>6, <2>1, Zenon DEF Stops, OneCheck
    <3> QED BY <3>1, Zenon DEF OneCheck
  <2>2. CASE ~Active(l)
    <3>1. \A k \in Slot : Active(k)' => Active(k)
      BY <1>3, <1>6, Zenon DEF Stops
    <3>2. checking' = checking
      BY <1>6, <2>2, Zenon DEF Stops
    <3> QED BY <3>1, <3>2, Zenon DEF OneCheck
  <2> QED BY <2>1, <2>2
<1> QED BY <1>1, <1>2, <1>4, <1>5, <1>6 DEF CheckChange

\* A smaller set of processes is finite and within the limit, and leaves room
\* where there was room.
LEMMA FewerProcesses ==
    ASSUME FewProcesses, Processing' \subseteq Processing
    PROVE  FewProcesses' /\ (CanProcessMoreJobs => CanProcessMoreJobs')
<1>1. IsFiniteSet(Processing') /\ Cardinality(Processing') <= Cardinality(Processing)
  BY FS_Subset DEF FewProcesses
<1>2. Cardinality(Processing) \in Nat /\ Cardinality(Processing') \in Nat
  BY <1>1, FS_CardinalityType DEF FewProcesses
<1> QED BY <1>1, <1>2, ConcurrencyAssumption
        DEF FewProcesses, ConcurrencyBounded, CanProcessMoreJobs

\* The push adds one process, where there is room for it.
LEMMA PushKeepsFew ==
    ASSUME Typed, FewProcesses, NEW l \in Slot, PushProcessingJob(l),
           CanProcessMoreJobs
    PROVE  FewProcesses'
<1> DEFINE t == check[l].token
<1>0. Cardinality(Processing) \in Nat
  BY FS_CardinalityType DEF FewProcesses
<1>1. Processing' \subseteq Processing \cup {t}
  BY DEF PushProcessingJob, Processing, Typed
<1>2. /\ IsFiniteSet(Processing \cup {t})
      /\ Cardinality(Processing \cup {t}) <= Cardinality(Processing) + 1
  <2>1. CASE t \in Processing
    <3>1. Processing \cup {t} = Processing
      BY <2>1
    <3>2. Cardinality(Processing) <= Cardinality(Processing) + 1
      BY FS_CardinalityType DEF FewProcesses
    <3> QED BY <3>1, <3>2, Zenon DEF FewProcesses
  <2>2. CASE t \notin Processing
    <3>1. /\ IsFiniteSet(Processing \cup {t})
          /\ Cardinality(Processing \cup {t}) = Cardinality(Processing) + 1
      BY <2>2, FS_AddElement, Zenon DEF FewProcesses
    <3>2. Cardinality(Processing) \in Nat
      BY FS_CardinalityType DEF FewProcesses
    <3> QED BY <3>1, <3>2
  <2> QED BY <2>1, <2>2
<1>3. /\ IsFiniteSet(Processing')
      /\ Cardinality(Processing') <= Cardinality(Processing \cup {t})
  BY <1>1, <1>2, FS_Subset
<1>4. /\ Cardinality(Processing) \in Nat
      /\ Cardinality(Processing \cup {t}) \in Nat
      /\ Cardinality(Processing') \in Nat
  BY <1>2, <1>3, FS_CardinalityType DEF FewProcesses
<1> QED BY <1>2, <1>3, <1>4, ConcurrencyAssumption
        DEF FewProcesses, ConcurrencyBounded, CanProcessMoreJobs

\* The invariant that carries the limit is inductive.
LEMMA StepExclusion ==
    ASSUME Typed, Exclusion, [Next]_vars
    PROVE  Exclusion'
<1>1. CheckChange /\ RoomChange /\ ProcessChange
  BY StepChange, StepProcesses
<1>2. OneCheck'
  BY <1>1, ChangeKeepsOneCheck DEF Exclusion
<1>3. CASE Processing' \subseteq Processing
  <2>1. FewProcesses' /\ (CanProcessMoreJobs => CanProcessMoreJobs')
    BY <1>3, FewerProcesses DEF Exclusion
  <2>2. RoomForJob'
    BY <1>1, <2>1 DEF RoomChange, Exclusion, RoomForJob
  <2> QED BY <1>2, <2>1, <2>2 DEF Exclusion
<1>4. ASSUME NEW l \in Slot, PushProcessingJob(l) PROVE Exclusion'
  <2>1. check[l].pc = "accepted"
    BY <1>4 DEF PushProcessingJob
  <2>2. Active(l)
    BY <2>1 DEF Active
  <2>3. CanProcessMoreJobs
    BY <2>1 DEF Exclusion, RoomForJob
  <2>4. FewProcesses'
    BY <1>4, <2>3, PushKeepsFew DEF Exclusion
  <2>5. /\ check'[l].pc = "next"
        /\ \A k \in Slot \ {l} : check'[k] = check[k]
    BY <1>4 DEF PushProcessingJob, Typed
  <2>6. \A k \in Slot \ {l} : check'[k].pc \in {"idle", "wait"}
    BY <2>2, <2>5 DEF Exclusion, OneCheck, Active
  <2>7. RoomForJob'
    BY <2>5, <2>6 DEF RoomForJob
  <2> QED BY <1>2, <2>4, <2>7 DEF Exclusion
<1> QED BY <1>1, <1>3, <1>4 DEF ProcessChange

\* The runner never processes more jobs than its concurrency allows, however
\* pings, timers, ending jobs, lost answers and restarts interleave with the
\* awaited requests.
THEOREM LimitHolds == Spec => []ConcurrencyBounded
<1>1. Init => Typed /\ Exclusion
  <2> SUFFICES ASSUME Init PROVE Typed /\ Exclusion
    OBVIOUS
  <2>1. Processing = {}
    BY DEF Init, Processing, FreeWork
  <2>2. \A l \in Slot : check[l].pc = "idle"
    BY DEF Init, NoChecks, IdleCheck
  <2>3. OneCheck /\ RoomForJob
    BY <2>2 DEF OneCheck, RoomForJob, Active
  <2>4. FewProcesses
    BY <2>1, FS_EmptySet, ConcurrencyAssumption
       DEF FewProcesses, ConcurrencyBounded
  <2> QED BY <2>3, <2>4, InitTyped DEF Exclusion
<1>2. Typed /\ Exclusion /\ [Next]_vars => Typed' /\ Exclusion'
  BY StepTyped, StepExclusion, InstanceAssumption
<1>3. Exclusion => ConcurrencyBounded
  BY DEF Exclusion, FewProcesses
<1> QED BY <1>1, <1>2, <1>3, PTL DEF Spec

-----------------------------------------------------------------------------
(* What the instance holds for the runner.                                  *)

\* Except for an acceptance, a step only takes tokens off rows.
RowsRelease == \A j \in Job : row'[j].token \in {row[j].token, None}

\* A token nobody's row carries any more may be forgotten, no other.
WorkKept ==
    \A t \in Token :
        \/ /\ work'[t].job = work[t].job
           /\ work[t].at # "free" => work'[t].at # "free"
        \/ \A j \in Job : row'[j].token # t

\* These two are all a step has to respect.
LEMMA ReleaseKeepsHeld ==
    ASSUME Typed, HeldIsKnown, RowsRelease, WorkKept
    PROVE  HeldIsKnown'
<1> SUFFICES ASSUME NEW j \in Job, row'[j].token # None
             PROVE  /\ work'[row'[j].token].job = j
                    /\ work'[row'[j].token].at # "free"
  BY DEF HeldIsKnown
<1>1. row'[j].token = row[j].token /\ row[j].token \in Token
  BY DEF RowsRelease, Typed, Row
<1>2. work[row[j].token].job = j /\ work[row[j].token].at # "free"
  BY <1>1 DEF HeldIsKnown
<1> QED BY <1>1, <1>2 DEF WorkKept

\* A step that leaves the rows and the acceptances alone.
LEMMA IdleKeeps ==
    ASSUME UNCHANGED <<row, work>>
    PROVE  RowsRelease /\ WorkKept
BY DEF RowsRelease, WorkKept

\* Stopping the program only marks what it held as lost.
LEMMA StopKeeps ==
    ASSUME Typed, Stop
    PROVE  WorkKept
BY DEF Typed, Work, Stop, WorkAfterStop, WorkKept

\* A row that is given another state has no token.
LEMMA NewRowReleases ==
    ASSUME Typed, NEW i, NEW s, row' = [row EXCEPT ![i] = NewRow(s)]
    PROVE  RowsRelease /\ (i \in Job => row'[i].token = None)
BY DEF Typed, NewRow, RowsRelease

\* Changing at to anything but free keeps the acceptance.
LEMMA AtKeeps ==
    ASSUME Typed, NEW t, NEW a, a # "free",
           work' = [work EXCEPT ![t].at = a]
    PROVE  WorkKept
<1> SUFFICES ASSUME NEW u \in Token
             PROVE  /\ work'[u].job = work[u].job
                    /\ work[u].at # "free" => work'[u].at # "free"
  BY DEF WorkKept
<1>1. CASE u = t
  BY <1>1 DEF Typed, Work
<1>2. CASE u # t
  BY <1>2 DEF Typed
<1> QED BY <1>1, <1>2

\* An acceptance is forgotten once its job's row has another state, or if no
\* row carried its token.
LEMMA FreeKeeps ==
    ASSUME Typed, HeldIsKnown, NEW t \in Token, RowsRelease,
           work' = [work EXCEPT ![t] = FreeWork],
           Valid(t) => \A j \in Job : j = work[t].job => row'[j].token = None
    PROVE  WorkKept
<1>1. \A j \in Job : row'[j].token # t
  <2> SUFFICES ASSUME NEW j \in Job, row'[j].token = t PROVE FALSE
    OBVIOUS
  <2>1. t # None
    BY InstanceAssumption
  <2>2. row[j].token = t
    BY <2>1 DEF RowsRelease
  <2>3. work[t].job = j
    BY <2>1, <2>2 DEF HeldIsKnown
  <2>4. Valid(t)
    BY <2>2, <2>3 DEF Valid
  <2> QED BY <2>1, <2>3, <2>4
<1>2. \A u \in Token : u # t => work'[u] = work[u]
  BY DEF Typed
<1> QED BY <1>1, <1>2 DEF WorkKept

\* An acceptance uses a token that nobody holds.
LEMMA AcceptKeepsHeld ==
    ASSUME Typed, HeldIsKnown, NEW l \in Slot, AcceptJob(l)
    PROVE  HeldIsKnown'
<1>1. CASE UNCHANGED <<row, work>>
  BY <1>1, IdleKeeps, ReleaseKeepsHeld
<1>2. CASE ~UNCHANGED <<row, work>>
  <2> DEFINE j == check[l].job
  <2>1. PICK t \in Token :
          /\ Fresh(t)
          /\ row' = [row EXCEPT ![j] = [state |-> "processing", token |-> t]]
          /\ work' = [work EXCEPT ![t] = [at |-> "accepted", job |-> j]]
    BY <1>2, Zenon DEF AcceptJob
  <2> SUFFICES ASSUME NEW i \in Job, row'[i].token # None
               PROVE  /\ work'[row'[i].token].job = i
                      /\ work'[row'[i].token].at # "free"
    BY DEF HeldIsKnown
  <2>2. CASE i = j
    BY <2>1, <2>2 DEF Typed
  <2>3. CASE i # j
    <3>1. row'[i] = row[i] /\ row[i].token \in Token /\ row[i].token # t
      BY <2>1, <2>3 DEF Typed, Row, Fresh
    <3>2. work'[row[i].token] = work[row[i].token]
      BY <2>1, <3>1 DEF Typed
    <3> QED BY <3>1, <3>2 DEF HeldIsKnown
  <2> QED BY <2>2, <2>3
<1> QED BY <1>1, <1>2

\* HeldIsKnown is inductive on well-typed states.
LEMMA StepHeld ==
    ASSUME Typed, HeldIsKnown, [Next]_vars
    PROVE  HeldIsKnown'
<1>1. ASSUME UNCHANGED <<row, work>> PROVE HeldIsKnown'
  BY <1>1, IdleKeeps, ReleaseKeepsHeld
<1>2. ASSUME NEW i, NEW s, row' = [row EXCEPT ![i] = NewRow(s)], UNCHANGED work
      PROVE  HeldIsKnown'
  <2>1. RowsRelease /\ WorkKept
    BY <1>2, NewRowReleases DEF WorkKept
  <2> QED BY <2>1, ReleaseKeepsHeld
<1>3. ASSUME NEW t, NEW a, a # "free", work' = [work EXCEPT ![t].at = a],
             UNCHANGED row
      PROVE  HeldIsKnown'
  <2>1. RowsRelease /\ WorkKept
    BY <1>3, AtKeeps DEF RowsRelease
  <2> QED BY <2>1, ReleaseKeepsHeld
<1>4. ASSUME Stop, UNCHANGED row PROVE HeldIsKnown'
  <2>1. RowsRelease /\ WorkKept
    BY <1>4, StopKeeps DEF RowsRelease
  <2> QED BY <2>1, ReleaseKeepsHeld
<1>5. ASSUME NEW l \in Slot, CheckStep(l) \/ RequestFails(l)
      PROVE  HeldIsKnown'
  <2>1. CASE AcceptJob(l)
    BY <2>1, AcceptKeepsHeld
  <2>2. CASE PushProcessingJob(l) \/ RequestFails(l)
    BY <1>1, <1>3, <2>2 DEF PushProcessingJob, RequestFails, serverVars
  <2> QED BY <1>1, <1>5, <2>1, <2>2
          DEF CheckStep, NextServer, RequestJob, TryToExecuteJob, EndCheck,
              WaitEnds, UnregisterRunner, serverVars
<1>6. ASSUME NEW t \in Token, Succeed(t) PROVE HeldIsKnown'
  <2>1. row' = [row EXCEPT ![work[t].job] = NewRow("over")]
    BY <1>6 DEF Succeed
  <2>2. RowsRelease
        /\ (work[t].job \in Job => row'[work[t].job].token = None)
    BY <2>1, NewRowReleases
  <2>3. CASE work' = [work EXCEPT ![t] = FreeWork]
    BY <2>2, <2>3, FreeKeeps, ReleaseKeepsHeld
  <2>4. CASE work' = [work EXCEPT ![t].at = "report"]
    BY <2>2, <2>4, AtKeeps, ReleaseKeepsHeld
  <2> QED BY <1>6, <2>3, <2>4 DEF Succeed
<1>7. ASSUME NEW t \in Token, ReportArrives(t) PROVE HeldIsKnown'
  <2>1. work' = [work EXCEPT ![t] = FreeWork]
    BY <1>7 DEF ReportArrives
  <2>2. CASE Valid(t)
    <3>1. \E s \in {"pending", "over"} :
            row' = [row EXCEPT ![work[t].job] = NewRow(s)]
      BY <1>7, <2>2 DEF ReportArrives, BackToPending
    <3>2. RowsRelease
          /\ (work[t].job \in Job => row'[work[t].job].token = None)
      BY <3>1, NewRowReleases
    <3> QED BY <2>1, <3>2, FreeKeeps, ReleaseKeepsHeld
  <2>3. CASE ~Valid(t)
    <3>1. RowsRelease
      BY <1>7, <2>3 DEF ReportArrives, RowsRelease
    <3> QED BY <2>1, <2>3, <3>1, FreeKeeps, ReleaseKeepsHeld
  <2> QED BY <2>2, <2>3
<1>8. ASSUME NEW t \in Token, Fail(t) \/ ReportLost(t) \/ AbortJob(t)
      PROVE  HeldIsKnown'
  <2>1. CASE Fail(t) \/ ReportLost(t)
    BY <1>3, <2>1 DEF Fail, AfterFailure, ReportLost, serverVars
  <2>2. CASE AbortJob(t)
    BY <1>2, <1>4, <2>2 DEF AbortJob, BackToPending
  <2> QED BY <1>8, <2>1, <2>2
<1>9. ASSUME NEW i \in Instance, DeleteRunner(i) PROVE HeldIsKnown'
  <2>1. RowsRelease /\ WorkKept
    BY <1>9 DEF DeleteRunner, RowsRelease, WorkKept, Typed, Row
  <2> QED BY <2>1, ReleaseKeepsHeld
<1>10. ASSUME NEW j \in Job, Offer(j) \/ OthersAccept(j) \/ OthersEnd(j)
              \/ AbortStalled(j)
       PROVE  HeldIsKnown'
  BY <1>2, <1>10 DEF Offer, OthersAccept, OthersEnd, AbortStalled, BackToPending
<1>11. CASE \/ \E i \in Instance : PingArrives(i) \/ PingLost(i)
            \/ Run \/ OnExit \/ UNCHANGED vars
  BY <1>1, <1>11 DEF PingArrives, PingLost, Run, OnExit, vars, serverVars
<1>12. CASE Crash \/ ExitEnds
  BY <1>4, <1>12 DEF Crash, ExitEnds
<1> QED BY <1>5, <1>6, <1>7, <1>8, <1>9, <1>10, <1>11, <1>12
        DEF Next, ProcessStep

\* Whatever is lost or dies, a job an instance holds for the runner is one it
\* processes, is about to process or reports on, or one whose loss is known.
THEOREM NoJobForgotten == Spec => []HeldIsKnown
<1>1. Init => Typed /\ HeldIsKnown
  BY InitTyped DEF Init, HeldIsKnown, NewRow
<1>2. Typed /\ HeldIsKnown /\ [Next]_vars => Typed' /\ HeldIsKnown'
  BY StepTyped, StepHeld, InstanceAssumption
<1> QED BY <1>1, <1>2, PTL DEF Spec

-----------------------------------------------------------------------------
(* What onExit gives back.                                                  *)

\* But for the push, a process whose job the server holds was one already.
NoneRevived ==
    \A t \in Token : t \in Processing' /\ Valid(t)' => t \in Processing /\ Valid(t)

\* A token that leaves what onExit has still to abort is no longer valid.
TodoKept ==
    exit'.live => /\ exit.live
                  /\ \A t \in exit.todo : t \in exit'.todo \/ ~Valid(t)'

\* A step that respects these two misses nothing.
LEMMA KeepsExit ==
    ASSUME ExitMissesNothing, NoneRevived, TodoKept
    PROVE  ExitMissesNothing'
BY DEF ExitMissesNothing, NoneRevived, TodoKept, Processing

\* Rows that only lose tokens, and processes that keep their job, do not make
\* a process valid.
LEMMA ReleaseRevivesNone ==
    ASSUME RowsRelease,
           \A t \in Processing' : t \in Processing /\ work'[t].job = work[t].job
    PROVE  NoneRevived
<1> SUFFICES ASSUME NEW t \in Token, t \in Processing', Valid(t)'
             PROVE  t \in Processing /\ Valid(t)
  BY DEF NoneRevived
<1>1. PICK j \in Job : work'[t].job = j /\ row'[j].token = t
  BY DEF Valid
<1>2. row[j].token = t
  BY <1>1, InstanceAssumption DEF RowsRelease
<1> QED BY <1>1, <1>2 DEF Valid

\* One token's at goes anywhere but to processing.
LEMMA AtRevivesNone ==
    ASSUME Typed, RowsRelease, NEW t, NEW w,
           work' = [work EXCEPT ![t] = w], w.at # "processing"
    PROVE  NoneRevived
<1>1. ASSUME NEW u \in Processing'
      PROVE  u \in Processing /\ work'[u].job = work[u].job
  <2>1. u \in Token /\ work'[u].at = "processing"
    BY DEF Processing
  <2>2. u # t
    BY <2>1 DEF Typed
  <2>3. work'[u] = work[u]
    BY <2>1, <2>2 DEF Typed
  <2> QED BY <2>1, <2>3 DEF Processing
<1> QED BY <1>1, ReleaseRevivesNone

\* An acceptance concerns the token of no process.
LEMMA AcceptRevivesNone ==
    ASSUME Typed, NEW l \in Slot, AcceptJob(l)
    PROVE  NoneRevived
<1>1. CASE UNCHANGED <<row, work>>
  BY <1>1, ReleaseRevivesNone DEF RowsRelease, Processing
<1>2. CASE ~UNCHANGED <<row, work>>
  <2> DEFINE j == check[l].job
  <2>1. PICK t \in Token :
          /\ row' = [row EXCEPT ![j] = [state |-> "processing", token |-> t]]
          /\ work' = [work EXCEPT ![t] = [at |-> "accepted", job |-> j]]
    BY <1>2, Zenon DEF AcceptJob
  <2> SUFFICES ASSUME NEW u \in Token, u \in Processing', Valid(u)'
               PROVE  u \in Processing /\ Valid(u)
    BY DEF NoneRevived
  <2>2. u # t
    BY <2>1 DEF Processing, Typed
  <2>3. work'[u] = work[u]
    BY <2>1, <2>2 DEF Typed
  <2>4. PICK i \in Job : work'[u].job = i /\ row'[i].token = u
    BY DEF Valid
  <2>5. row'[i] = row[i]
    BY <2>1, <2>2, <2>4 DEF Typed
  <2> QED BY <2>3, <2>4, <2>5 DEF Valid, Processing
<1> QED BY <1>1, <1>2

\* A process that starts while the program exits is pushed on the very array
\* onExit iterates over.
LEMMA PushIsSeen ==
    ASSUME Typed, ExitMissesNothing, NEW l \in Slot, PushProcessingJob(l)
    PROVE  ExitMissesNothing'
<1> DEFINE t == check[l].token
<1>1. /\ work' = [work EXCEPT ![t].at = "processing"] /\ row' = row
      /\ exit' = ExitAfterPush(t)
  BY DEF PushProcessingJob, serverVars
<1> SUFFICES ASSUME exit'.live, NEW u \in Processing', Valid(u)'
             PROVE  u \in exit'.todo
  BY DEF ExitMissesNothing
<1>2. exit.live /\ exit'.todo = exit.todo \cup {t}
  BY <1>1 DEF ExitAfterPush, Typed
<1>3. CASE u = t
  BY <1>2, <1>3
<1>4. CASE u # t
  <2>1. u \in Token /\ work'[u] = work[u]
    BY <1>1, <1>4 DEF Processing, Typed
  <2>2. u \in Processing /\ Valid(u)
    BY <1>1, <2>1 DEF Processing, Valid
  <2> QED BY <1>2, <2>2 DEF ExitMissesNothing
<1> QED BY <1>3, <1>4

\* ExitMissesNothing is inductive on well-typed states.
LEMMA StepExit ==
    ASSUME Typed, ExitMissesNothing, [Next]_vars
    PROVE  ExitMissesNothing'
<1>1. ASSUME UNCHANGED <<row, work, exit>> PROVE ExitMissesNothing'
  BY <1>1 DEF ExitMissesNothing, Processing, Valid
<1>2. ASSUME NoneRevived, exit' = exit \/ exit' = [exit EXCEPT !.live = FALSE]
      PROVE  ExitMissesNothing'
  <2>1. TodoKept
    BY <1>2 DEF TodoKept, Typed
  <2> QED BY <1>2, <2>1, KeepsExit
<1>3. ASSUME Stop PROVE ExitMissesNothing'
  BY <1>3 DEF Stop, NoExit, ExitMissesNothing
<1>4. ASSUME NEW i, NEW s, row' = [row EXCEPT ![i] = NewRow(s)],
             UNCHANGED work
      PROVE  NoneRevived
  BY <1>4, NewRowReleases, ReleaseRevivesNone DEF Processing
<1>5. ASSUME RowsRelease, NEW t, NEW w, work' = [work EXCEPT ![t] = w],
             w.at # "processing"
      PROVE  NoneRevived
  BY <1>5, AtRevivesNone
<1>6. ASSUME RowsRelease, NEW t \in Token, NEW a \in {"report", "lost"},
             work' = [work EXCEPT ![t].at = a]
      PROVE  NoneRevived
  <2>1. work' = [work EXCEPT ![t] = [work[t] EXCEPT !.at = a]]
    BY <1>6
  <2>2. [work[t] EXCEPT !.at = a].at # "processing"
    BY DEF Typed, Work
  <2> QED BY <1>5, <1>6, <2>1, <2>2
<1>7. FreeWork.at # "processing"
  BY DEF FreeWork
<1>8. ASSUME NEW l \in Slot, CheckStep(l) \/ RequestFails(l)
      PROVE  ExitMissesNothing'
  <2>1. CASE AcceptJob(l)
    BY <1>2, <2>1, AcceptRevivesNone DEF AcceptJob
  <2>2. CASE PushProcessingJob(l)
    BY <2>2, PushIsSeen
  <2>3. CASE RequestFails(l)
    <3>1. exit' = exit /\ row' = row
      BY <2>3 DEF RequestFails, serverVars
    <3>2. CASE work' = work
      BY <1>1, <3>1, <3>2
    <3>3. CASE work' # work
      <4>1. check[l].token \in Token
            /\ work' = [work EXCEPT ![check[l].token].at = "lost"]
        BY <2>3, <3>3 DEF RequestFails, Typed, Check
      <4> QED BY <1>2, <1>6, <3>1, <4>1 DEF RowsRelease
    <3> QED BY <3>2, <3>3
  <2> QED BY <1>1, <1>8, <2>1, <2>2, <2>3
          DEF CheckStep, NextServer, RequestJob, TryToExecuteJob, EndCheck,
              WaitEnds, UnregisterRunner, serverVars
<1>9. ASSUME NEW t \in Token, Succeed(t) PROVE ExitMissesNothing'
  <2>1. RowsRelease
    BY <1>9, NewRowReleases DEF Succeed
  <2>2. NoneRevived
    BY <1>5, <1>6, <1>7, <1>9, <2>1 DEF Succeed
  <2> QED BY <1>2, <1>9, <2>2 DEF Succeed, RemoveProcessingJob
<1>10. ASSUME NEW t \in Token, Fail(t) PROVE ExitMissesNothing'
  BY <1>2, <1>6, <1>10
     DEF Fail, AfterFailure, RemoveProcessingJob, serverVars, RowsRelease
<1>11. ASSUME NEW t \in Token, ReportArrives(t) PROVE ExitMissesNothing'
  <2>1. RowsRelease
    BY <1>11, NewRowReleases DEF ReportArrives, BackToPending, RowsRelease
  <2> QED BY <1>2, <1>5, <1>7, <1>11, <2>1 DEF ReportArrives
<1>12. ASSUME NEW t \in Token, ReportLost(t) PROVE ExitMissesNothing'
  BY <1>2, <1>6, <1>12 DEF ReportLost, serverVars, RowsRelease
<1>13. ASSUME NEW t \in Token, AbortJob(t) PROVE ExitMissesNothing'
  <2>1. CASE /\ Valid(t)
             /\ BackToPending(work[t].job)
             /\ exit' = [exit EXCEPT !.todo = @ \ {t}]
             /\ UNCHANGED <<known, runner, servers, unheard, checkVars, work>>
    <3>1. row' = [row EXCEPT ![work[t].job] = NewRow("pending")] /\ work' = work
      BY <2>1 DEF BackToPending
    <3>2. NoneRevived
      BY <1>4, <3>1
    <3>3. t # None /\ row'[work[t].job].token = None
      BY <2>1, <3>1, InstanceAssumption DEF Valid, Typed, NewRow
    <3>4. ~Valid(t)'
      BY <3>1, <3>3 DEF Valid
    <3>5. exit'.live = exit.live /\ exit'.todo = exit.todo \ {t}
      BY <2>1 DEF Typed
    <3>6. TodoKept
      BY <3>4, <3>5 DEF TodoKept
    <3> QED BY <3>2, <3>6, KeepsExit
  <2> QED BY <1>3, <1>13, <2>1 DEF AbortJob
<1>14. ASSUME NEW i \in Instance, DeleteRunner(i) PROVE ExitMissesNothing'
  <2>1. RowsRelease /\ work' = work /\ exit' = exit
    BY <1>14 DEF DeleteRunner, RowsRelease, Typed, Row
  <2> QED BY <1>2, <2>1, ReleaseRevivesNone DEF Processing
<1>15. ASSUME NEW j \in Job, Offer(j) \/ OthersAccept(j) \/ OthersEnd(j)
              \/ AbortStalled(j)
       PROVE  ExitMissesNothing'
  BY <1>2, <1>4, <1>15 DEF Offer, OthersAccept, OthersEnd, AbortStalled, BackToPending
<1>16. CASE \/ \E i \in Instance : PingArrives(i) \/ PingLost(i)
            \/ Run \/ UNCHANGED vars
  BY <1>1, <1>16 DEF PingArrives, PingLost, Run, vars, serverVars
<1>17. CASE OnExit
  BY <1>17 DEF OnExit, ExitMissesNothing, Processing, Valid
<1>18. CASE Crash \/ ExitEnds
  BY <1>3, <1>18 DEF Crash, ExitEnds
<1> QED BY <1>8, <1>9, <1>10, <1>11, <1>12, <1>13, <1>14, <1>15, <1>16, <1>17,
           <1>18
        DEF Next, ProcessStep

\* Whenever the program is aborting its jobs, every process whose job the
\* server still holds is among those left to abort: the ones that start after
\* onExit began included.
THEOREM ExitGivesAllBack == Spec => []ExitMissesNothing
<1>1. Init => Typed /\ ExitMissesNothing
  BY InitTyped DEF Init, ExitMissesNothing, NoExit
<1>2. Typed /\ ExitMissesNothing /\ [Next]_vars => Typed' /\ ExitMissesNothing'
  BY StepTyped, StepExit, InstanceAssumption
<1> QED BY <1>1, <1>2, PTL DEF Spec
=============================================================================
