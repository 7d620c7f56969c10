---------------------------- MODULE RunnerClient ----------------------------
(***************************************************************************)
(* The remote runner program in server mode: how it learns of the jobs of  *)
(* the instances it is registered on, accepts them within its concurrency  *)
(* limit, reports how they ended and gives them back when it exits.        *)
(*                                                                         *)
(* The program is one JavaScript thread: an action runs from one await to  *)
(* the next.  The instances appear as far as the runner sees them: the     *)
(* state of their jobs and the ping they send (RunnerJobs has the rest).   *)
(***************************************************************************)
EXTENDS Integers, FiniteSets

CONSTANTS
    Instance,    \* instances the runner registered on
    Job,         \* their runner jobs
    InstanceOf,  \* the instance of each job
    Token,       \* processing job tokens: one for each acceptance of a job
    Slot,        \* bound: executions of checkAvailableJobs at once
    None,
    Concurrency, \* jobs.concurrency of the configuration
    Env          \* what the environment may do, a subset of EnvEvents

EnvEvents == { "others", "othersAbort", "silent", "lost", "deleteRunner",
               "crash", "exit" }

ASSUME InstanceAssumption ==
    /\ InstanceOf \in [Job -> Instance]
    /\ None \notin Job \cup Token \cup Instance

ASSUME ConcurrencyAssumption == Concurrency \in Nat \ {0}

ASSUME EnvAssumption == Env \subseteq EnvEvents

VARIABLES
    row,       \* the runnerJob rows of the instances
    known,     \* instances that still have the runner's row
    pinged,    \* instances with an available-jobs ping on its way
    runner,    \* whether the program runs
    servers,   \* this.servers
    checking,  \* this.checkingAvailableJobs
    check,     \* executions of checkAvailableJobs
    work,      \* what the runner does about each job it accepted
    exit,      \* onExit: the acceptances it has still to abort
    unheard    \* history: instances a ping of which was ignored, and that were
               \* not asked for jobs since

serverVars == <<row, known, pinged>>
checkVars == <<checking, check>>
vars == <<serverVars, runner, servers, unheard, checkVars, work, exit>>

-----------------------------------------------------------------------------
Row == [ state : {"absent", "pending", "processing", "elsewhere", "over"},
         token : Token \cup {None} ]

NewRow(s) == [state |-> s, token |-> None]

CheckPC == { "idle", "next", "request", "offered", "accept", "accepted",
             "unregister", "wait" }

\* pc, the servers left, the current one, the job and token it answered, and
\* hadAvailableJob.
Check ==
    { c \in [ pc : CheckPC, todo : SUBSET Instance, at : Instance \cup {None},
              job : Job \cup {None}, token : Token \cup {None},
              had : BOOLEAN ] :
        c.pc = "accepted" => c.token \in Token }

IdleCheck == [ pc |-> "idle", todo |-> {}, at |-> None, job |-> None,
               token |-> None, had |-> FALSE ]

\* accepted: the answer is on its way; report: the error report is; lost: the
\* runner does not know, or no longer knows, that it holds the job.
Work == [ at : {"free", "accepted", "processing", "report", "lost"},
          job : Job \cup {None} ]

FreeWork == [at |-> "free", job |-> None]

NoExit == [todo |-> {}, live |-> FALSE]

Processing == { t \in Token : work[t].at = "processing" }

CanProcessMoreJobs == Cardinality(Processing) < Concurrency

\* Mutant: the flag is not looked at.
AlreadyCheckingIgnored == checking /\ servers = {}

AlreadyChecking == checking

StartCheck(l) ==
    [check EXCEPT ![l] = [IdleCheck EXCEPT !.pc = "next", !.todo = servers]]

\* A call of checkAvailableJobs up to its first await.
CheckAvailableJobs ==
    IF AlreadyChecking
    THEN UNCHANGED checkVars
    ELSE /\ checking' = TRUE
         /\ \E l \in Slot : check[l].pc = "idle" /\ check' = StartCheck(l)

\* The server looks a job up by its token.
Valid(t) == \E j \in Job : work[t].job = j /\ row[j].token = t

\* Tokens are random: a new one is none that anybody still holds.
Fresh(t) == /\ work[t].at \in {"free", "lost"} /\ t \notin exit.todo
            /\ \A j \in Job : row[j].token # t

\* resetToPending, and the ping to the runners.
BackToPending(j) ==
    /\ row' = [row EXCEPT ![j] = NewRow("pending")]
    /\ pinged' = pinged \cup {InstanceOf[j]}

-----------------------------------------------------------------------------
(* checkAvailableJobs.                                                      *)

NextServer(l) ==
    /\ check[l].pc = "next"
    /\ \E i \in check[l].todo :
         check' = [check EXCEPT ![l].pc = "request", ![l].at = i,
                                ![l].todo = @ \ {i}]
    /\ UNCHANGED <<serverVars, runner, servers, unheard, checking, work, exit>>

AvailableJobs(i) ==
    { j \in Job : InstanceOf[j] = i /\ row[j].state = "pending" }

\* The server answers the request with its jobs, or refuses the runner token.
RequestJob(l) ==
    LET i == check[l].at
    IN /\ check[l].pc = "request"
       /\ IF i \notin known
          THEN check' = [check EXCEPT ![l].pc = "unregister"]
          ELSE IF AvailableJobs(i) = {}
          THEN check' = [check EXCEPT ![l].pc = "next"]
          ELSE \E j \in AvailableJobs(i) :
                 check' = [check EXCEPT ![l].pc = "offered", ![l].job = j]
       /\ unheard' = unheard \ {i}
       /\ UNCHANGED <<serverVars, runner, servers, checking, work, exit>>

\* Back in the runner: hadAvailableJob, then canProcessMoreJobs.
TryToExecuteJob(l) ==
    /\ check[l].pc = "offered"
    /\ check' = [check EXCEPT ![l].had = TRUE,
                   ![l].pc = IF CanProcessMoreJobs THEN "accept" ELSE "next"]
    /\ UNCHANGED <<serverVars, runner, servers, unheard, checking, work, exit>>

\* The server's validators look at the job's state before the runner's token.
\* A job that is not pending is an error checkAvailableJobs only logs.
AcceptJob(l) ==
    LET j == check[l].job
    IN /\ check[l].pc = "accept"
       /\ IF row[j].state # "pending"
          THEN /\ check' = [check EXCEPT ![l].pc = "next"]
               /\ UNCHANGED <<row, work>>
          ELSE IF check[l].at \notin known
          THEN /\ check' = [check EXCEPT ![l].pc = "unregister"]
               /\ UNCHANGED <<row, work>>
          ELSE \E t \in Token :
                 /\ Fresh(t)
                 /\ row' = [row EXCEPT ![j] = [state |-> "processing",
                                               token |-> t]]
                 /\ work' = [work EXCEPT ![t] = [at |-> "accepted", job |-> j]]
                 /\ check' = [check EXCEPT ![l].pc = "accepted", ![l].token = t]
       /\ UNCHANGED <<known, pinged, runner, servers, unheard, checking, exit>>

\* onExit iterates over this.processingJobs itself: a push reaches it, until a
\* filter replaces the array.
\* Mutant: it iterates over a copy.
ExitAfterPushCopied(t) == exit

ExitAfterPush(t) ==
    IF exit.live THEN [exit EXCEPT !.todo = @ \cup {t}] ELSE exit

PushProcessingJob(l) ==
    LET t == check[l].token
    IN /\ check[l].pc = "accepted"
       /\ work' = [work EXCEPT ![t].at = "processing"]
       /\ check' = [check EXCEPT ![l].pc = "next"]
       /\ exit' = ExitAfterPush(t)
       /\ UNCHANGED <<serverVars, runner, servers, unheard, checking>>

\* A request or its answer is lost: the error is logged, the loop goes on.
RequestFails(l) ==
    /\ "lost" \in Env
    /\ check[l].pc \in {"request", "accept", "accepted"}
    /\ check' = [check EXCEPT ![l].pc = "next"]
    /\ work' = IF check[l].pc = "accepted"
               THEN [work EXCEPT ![check[l].token].at = "lost"] ELSE work
    /\ UNCHANGED <<serverVars, runner, servers, unheard, checking, exit>>

\* Mutant: the condition on the limit is inverted.
LookAgainFull(l) == check[l].had /\ ~CanProcessMoreJobs

LookAgain(l) == check[l].had /\ CanProcessMoreJobs

EndCheck(l) ==
    /\ check[l].pc = "next" /\ check[l].todo = {}
    /\ checking' = FALSE
    /\ check' = [check EXCEPT ![l] =
                   [IdleCheck EXCEPT !.pc = IF LookAgain(l) THEN "wait"
                                                            ELSE "idle"]]
    /\ UNCHANGED <<serverVars, runner, servers, unheard, work, exit>>

WaitEnds(l) ==
    /\ check[l].pc = "wait"
    /\ IF AlreadyChecking
       THEN checking' = checking /\ check' = [check EXCEPT ![l] = IdleCheck]
       ELSE checking' = TRUE /\ check' = StartCheck(l)
    /\ UNCHANGED <<serverVars, runner, servers, unheard, work, exit>>

\* unregisterRunner, then a return that leaves checkingAvailableJobs set.
UnregisterRunner(l) ==
    /\ check[l].pc = "unregister"
    /\ servers' = servers \ {check[l].at}
    /\ check' = [check EXCEPT ![l] = IdleCheck]
    /\ UNCHANGED <<serverVars, runner, unheard, checking, work, exit>>

\* A ping during a check is ignored, and nothing remembers it.
PingArrives(i) ==
    /\ i \in pinged
    /\ pinged' = pinged \ {i}
    /\ IF runner # "off" /\ i \in servers
       THEN /\ CheckAvailableJobs
            /\ unheard' = IF AlreadyChecking THEN unheard \cup {i} ELSE unheard
       ELSE UNCHANGED <<checkVars, unheard>>
    /\ UNCHANGED <<row, known, runner, servers, work, exit>>

\* The socket was down when the instance emitted the ping.
PingLost(i) ==
    /\ "lost" \in Env
    /\ i \in pinged
    /\ pinged' = pinged \ {i}
    /\ UNCHANGED <<row, known, runner, servers, unheard, checkVars, work, exit>>

-----------------------------------------------------------------------------
(* processJob, and what follows it.                                         *)

\* finally: the job leaves processingJobs and the runner looks for another.
RemoveProcessingJob ==
    exit' = [exit EXCEPT !.live = FALSE] /\ CheckAvailableJobs

\* The job's success is posted; if the answer is lost processJob throws.
Succeed(t) ==
    /\ work[t].at = "processing" /\ Valid(t)
    /\ row' = [row EXCEPT ![work[t].job] = NewRow("over")]
    /\ \/ work' = [work EXCEPT ![t] = FreeWork]
       \/ "lost" \in Env /\ work' = [work EXCEPT ![t].at = "report"]
    /\ RemoveProcessingJob
    /\ UNCHANGED <<known, pinged, runner, servers, unheard>>

\* Mutant: the error is only logged.
AfterFailureLogged(t) == [work EXCEPT ![t] = FreeWork]

AfterFailure(t) == [work EXCEPT ![t].at = "report"]

\* processJob throws, also when its success is refused.
Fail(t) ==
    /\ work[t].at = "processing"
    /\ work' = AfterFailure(t)
    /\ RemoveProcessingJob
    /\ UNCHANGED <<serverVars, runner, servers, unheard>>

\* The server gives the job back, or gives it up, unless the token is stale.
ReportArrives(t) ==
    /\ work[t].at = "report"
    /\ work' = [work EXCEPT ![t] = FreeWork]
    /\ IF Valid(t)
       THEN \/ BackToPending(work[t].job)
            \/ /\ row' = [row EXCEPT ![work[t].job] = NewRow("over")]
               /\ pinged' = pinged
       ELSE UNCHANGED <<row, pinged>>
    /\ UNCHANGED <<known, runner, servers, unheard, checkVars, exit>>

ReportLost(t) ==
    /\ "lost" \in Env
    /\ work[t].at = "report"
    /\ work' = [work EXCEPT ![t].at = "lost"]
    /\ UNCHANGED <<serverVars, runner, servers, unheard, checkVars, exit>>

-----------------------------------------------------------------------------
(* The program starts and stops.                                            *)

NoChecks == [l \in Slot |-> IdleCheck]

\* Mutant: ffmpeg goes on without the program.
WorkAfterStopKept ==
    [t \in Token |-> IF work[t].at = "accepted"
                     THEN [work[t] EXCEPT !.at = "lost"] ELSE work[t]]

\* An error report that was sent may still arrive.
WorkAfterStop ==
    [t \in Token |-> IF work[t].at \in {"accepted", "processing"}
                     THEN [work[t] EXCEPT !.at = "lost"] ELSE work[t]]

Stop ==
    /\ runner' = "off"
    /\ checking' = FALSE /\ check' = NoChecks
    /\ work' = WorkAfterStop
    /\ exit' = NoExit
    /\ UNCHANGED <<known, servers, unheard>>

Crash == /\ "crash" \in Env /\ runner # "off"
         /\ Stop
         /\ UNCHANGED <<row, pinged>>

\* run: the registered instances are in the configuration file.
Run == /\ runner = "off"
       /\ runner' = "on"
       /\ CheckAvailableJobs
       /\ UNCHANGED <<serverVars, servers, unheard, work, exit>>

OnExit == /\ "exit" \in Env /\ runner = "on"
          /\ runner' = "exiting"
          /\ exit' = [todo |-> Processing, live |-> TRUE]
          /\ UNCHANGED <<serverVars, servers, unheard, checkVars, work>>

\* A stale token, or a lost request, makes the abort throw: process.exit(-1).
AbortJob(t) ==
    /\ runner = "exiting" /\ t \in exit.todo
    /\ \/ /\ Valid(t)
          /\ BackToPending(work[t].job)
          /\ exit' = [exit EXCEPT !.todo = @ \ {t}]
          /\ UNCHANGED <<known, runner, servers, unheard, checkVars, work>>
       \/ /\ "lost" \in Env \/ ~Valid(t)
          /\ Stop
          /\ UNCHANGED <<row, pinged>>

ExitEnds == /\ runner = "exiting" /\ exit.todo = {}
            /\ Stop
            /\ UNCHANGED <<row, pinged>>

-----------------------------------------------------------------------------
(* The instances and the other runners.                                     *)

Offer(j) ==
    /\ row[j].state = "absent"
    /\ BackToPending(j)
    /\ UNCHANGED <<known, runner, servers, unheard, checkVars, work, exit>>

OthersAccept(j) ==
    /\ "others" \in Env
    /\ row[j].state = "pending"
    /\ row' = [row EXCEPT ![j] = NewRow("elsewhere")]
    /\ UNCHANGED <<known, pinged, runner, servers, unheard, checkVars>>
    /\ UNCHANGED <<work, exit>>

OthersEnd(j) ==
    /\ row[j].state = "elsewhere"
    /\ \/ row' = [row EXCEPT ![j] = NewRow("over")] /\ pinged' = pinged
       \/ "othersAbort" \in Env /\ BackToPending(j)
    /\ UNCHANGED <<known, runner, servers, unheard, checkVars, work, exit>>

\* Mutant: only jobs of a runner are looked for.
StalledOfRunner(j) == row[j].state = "processing" /\ row[j].token # None

Stalled(j) == row[j].state = "processing"

\* The watchdog aborts a job nobody works on, or one whose runner is silent.
AbortStalled(j) ==
    /\ Stalled(j)
    /\ \/ "silent" \in Env
       \/ \A t \in Token : row[j].token = t => work[t].at = "lost"
    /\ BackToPending(j)
    /\ UNCHANGED <<known, runner, servers, unheard, checkVars, work, exit>>

\* runnerId is set to NULL: the job can no longer be looked up by its token.
DeleteRunner(i) ==
    /\ "deleteRunner" \in Env
    /\ i \in known
    /\ known' = known \ {i}
    /\ row' = [j \in Job |-> IF InstanceOf[j] = i
                             THEN [row[j] EXCEPT !.token = None] ELSE row[j]]
    /\ UNCHANGED <<pinged, runner, servers, unheard, checkVars, work, exit>>

-----------------------------------------------------------------------------
Init ==
    /\ row = [j \in Job |-> NewRow("absent")]
    /\ known = Instance /\ pinged = {}
    /\ runner = "off"
    /\ servers = Instance
    /\ checking = FALSE /\ check = NoChecks
    /\ work = [t \in Token |-> FreeWork]
    /\ exit = NoExit
    /\ unheard = {}

CheckStep(l) ==
    \/ NextServer(l) \/ RequestJob(l) \/ TryToExecuteJob(l) \/ AcceptJob(l)
    \/ PushProcessingJob(l) \/ EndCheck(l) \/ WaitEnds(l)
    \/ UnregisterRunner(l)

ProcessStep(t) == Succeed(t) \/ Fail(t)

Next ==
    \/ \E l \in Slot : CheckStep(l) \/ RequestFails(l)
    \/ \E t \in Token : \/ ProcessStep(t) \/ ReportArrives(t) \/ ReportLost(t)
                        \/ AbortJob(t)
    \/ \E i \in Instance : PingArrives(i) \/ PingLost(i) \/ DeleteRunner(i)
    \/ \E j \in Job : \/ Offer(j) \/ OthersAccept(j) \/ OthersEnd(j)
                      \/ AbortStalled(j)
    \/ Run \/ Crash \/ OnExit \/ ExitEnds

Spec == Init /\ [][Next]_vars

-----------------------------------------------------------------------------
\* The state each variable ranges over, and a stopped program does nothing.
TypeOK ==
    /\ row \in [Job -> Row]
    /\ known \subseteq Instance /\ pinged \subseteq Instance
    /\ servers \subseteq Instance /\ unheard \subseteq Instance
    /\ runner \in {"on", "exiting", "off"}
    /\ checking \in BOOLEAN
    /\ check \in [Slot -> Check]
    /\ work \in [Token -> Work]
    /\ exit \in [todo : SUBSET Token, live : BOOLEAN]
    /\ runner = "off" => check = NoChecks /\ Processing = {}

\* The runner never processes more jobs than its concurrency, although the
\* limit is read before the acceptance is awaited and checks are asked for by
\* pings, timers and ending jobs.
ConcurrencyBounded == Cardinality(Processing) <= Concurrency

\* A job the server holds for this runner is processed or reported on, unless
\* a message was lost or the program died: no path forgets it.
HeldIsKnown ==
    \A j \in Job : row[j].token # None =>
        work[row[j].token].job = j /\ work[row[j].token].at # "free"

\* onExit gives back every job the server holds for the program, those accepted
\* while it aborts included, as long as no job ended since.
ExitMissesNothing ==
    exit.live => \A t \in Processing : Valid(t) => t \in exit.todo

-----------------------------------------------------------------------------
(* Liveness.  The event loop runs the checks and the processes to their end,
   timers and pings arrive, an instance gives back the jobs nobody works on,
   and a job that is processed again and again succeeds in the end.         *)

Fairness ==
    /\ \A l \in Slot : WF_vars(CheckStep(l))
    /\ \A t \in Token : WF_vars(ProcessStep(t)) /\ WF_vars(ReportArrives(t))
    /\ \A i \in Instance : WF_vars(PingArrives(i))
    /\ \A j \in Job : /\ SF_vars(\E t \in Token : work[t].job = j /\ Succeed(t))
                      /\ WF_vars(AbortStalled(j))
                      /\ WF_vars(OthersEnd(j))
    /\ WF_vars(Run)

FairSpec == Spec /\ Fairness

\* "The runner will then use a websocket connection with the retro3 instance to
\* be notified about new available transcoding jobs" (support/doc/tools.md:170):
\* a job that is offered by an instance the runner is registered on stays
\* pending only if a ping of the instance was ignored, by a check that had asked
\* it already.  A runner that was full, or whose check met a job somebody else
\* took, comes back to the jobs it left.
PendingIsTaken ==
    \A j \in Job :
        row[j].state = "pending" /\ InstanceOf[j] \in known
        ~> \/ row[j].state # "pending" \/ InstanceOf[j] \notin known
           \/ InstanceOf[j] \in unheard

\* A job the server holds for the runner ends or is offered again, whatever
\* message is lost and however the program or its registration ends.
HeldIsReturned ==
    \A j \in Job : row[j].state = "processing" ~> row[j].state # "processing"
=============================================================================
