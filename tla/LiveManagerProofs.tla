------------------------- MODULE LiveManagerProofs -------------------------
(***************************************************************************)
(* Proofs about LiveManager, for every number of sessions and of faults.   *)
(*                                                                         *)
(* The invariant Inv has three layers.  History says what the place of a   *)
(* session in its life tells of its files and jobs, whatever overtook it;  *)
(* it is enough for ReplayOnce.  Order adds what holds while no session    *)
(* was overtaken: at most one session is between its check and the end of  *)
(* its stream, it is the registered one and the latest, and the jobs are   *)
(* those of sessions that are over.  Normal adds what a live that is not   *)
(* permanent has: the replays its jobs make are of the session its         *)
(* playlist belongs to, and nothing streams once one of them replaced the  *)
(* live.                                                                   *)
(***************************************************************************)
EXTENDS LiveManager, TLAPS, SequenceTheorems

-----------------------------------------------------------------------------
(* The session that started last.                                          *)

\* What the query for the latest session of a set returns is None or one of
\* them.
LEMMA LatestOfType ==
    ASSUME started \in Seq(Session), NEW S
    PROVE  LatestOf(S) = None \/ (LatestOf(S) \in S /\ LatestOf(S) \in Session)
<1> DEFINE last == { i \in DOMAIN started :
                    /\ started[i] \in S
                    /\ \A k \in i + 1 .. Len(started) : started[k] \notin S }
<1>1. CASE last = {}
    BY <1>1 DEF LatestOf
<1>2. CASE last # {}
    <2>1. (CHOOSE i \in last : TRUE) \in last
        BY <1>2
    <2>2. LatestOf(S) = started[CHOOSE i \in last : TRUE]
        BY <1>2 DEF LatestOf
    <2>3. QED
        BY <2>1, <2>2, ElementOfSeq
<1>3. QED
    BY <1>1, <1>2

\* It is the last session that started, if that one is of the set.
LEMMA LatestIsLast ==
    ASSUME started \in Seq(Session), started # <<>>, NEW S, started[Len(started)] \in S
    PROVE  LatestOf(S) = started[Len(started)]
<1> DEFINE last == { i \in DOMAIN started :
                    /\ started[i] \in S
                    /\ \A k \in i + 1 .. Len(started) : started[k] \notin S }
<1>1. Len(started) \in Nat /\ Len(started) > 0 /\ DOMAIN started = 1 .. Len(started)
    BY EmptySeq, LenProperties
<1>2. Len(started) \in last
    BY <1>1
<1>3. ASSUME NEW i \in last PROVE i = Len(started)
    <2>1. i \in 1 .. Len(started)
        BY <1>1, <1>3
    <2>2. Len(started) \notin i + 1 .. Len(started)
        BY <1>3
    <2>3. QED
        BY <1>1, <2>1, <2>2
<1>4. (CHOOSE i \in last : TRUE) \in last
    BY <1>2
<1>5. LatestOf(S) = started[CHOOSE i \in last : TRUE]
    BY <1>2 DEF LatestOf
<1>6. QED
    BY <1>3, <1>4, <1>5

\* There is a latest session once one started, the last of the sequence.
LEMMA LatestNone ==
    ASSUME started \in Seq(Session)
    PROVE  /\ started = <<>> => \A S : LatestOf(S) = None
           /\ started # <<>> => /\ Latest = started[Len(started)]
                                /\ Latest \in Session
<1>1. CASE started = <<>>
    <2>1. DOMAIN started = {}
        BY <1>1, EmptySeq
    <2>2. QED
        BY <2>1, <1>1 DEF LatestOf
<1>2. CASE started # <<>>
    <2>1. Len(started) \in 1 .. Len(started)
        BY <1>2, EmptySeq, LenProperties
    <2>2. started[Len(started)] \in Session
        BY <2>1, ElementOfSeq
    <2>3. QED
        BY <1>2, <2>2, LatestIsLast DEF Latest
<1>3. QED
    BY <1>1, <1>2

\* The latest session is the latest of each set it belongs to.
LEMMA LatestOfLatest ==
    ASSUME started \in Seq(Session), NEW S, Latest \in S, Latest # None
    PROVE  LatestOf(S) = Latest
<1>1. started # <<>>
    BY LatestNone DEF Latest
<1>2. QED
    BY <1>1, LatestNone, LatestIsLast

\* A session that starts is the latest.
LEMMA LatestStarts ==
    ASSUME started \in Seq(Session), NEW s \in Session, started' = Append(started, s)
    PROVE  /\ started' \in Seq(Session)
           /\ Latest' = s
<1>1. /\ started' \in Seq(Session)
      /\ Len(started') = Len(started) + 1
      /\ started'[Len(started) + 1] = s
    BY AppendProperties
<1>2. started' # <<>>
    BY <1>1, LenProperties
<1>3. (started \in Seq(Session) => (started # <<>> => Latest = started[Len(started)]))'
    BY LatestNone, PTL
<1>4. QED
    BY <1>1, <1>2, <1>3

-----------------------------------------------------------------------------
(* The invariant.                                                          *)

\* A session that has no playlist of its own yet, and
Early == {"idle", "load", "playlist", "clean", "probe", "user", "generate"}

\* one that has no replay directory yet.
Fresh(s) == pc[s] \in Early \cup {"directories"}

\* What a session's place says of its files and of the jobs, and when a live
\* is gone.
History ==
    /\ \A s \in Session : Fresh(s) =>
          /\ dirs[s] = "none" /\ replays[s] = 0 /\ wrapper[s] = "none"
          /\ \A j \in jobs : j.dir # s
    /\ \A s \in Session : pc[s] \in Early =>
          playlist # s /\ \A j \in jobs : j.playlist # s
    /\ \A s \in Session : wrapper[s] = "running" => pc[s] = "running"
    /\ \A s \in Session : pc[s] = "clean" => settings.permanent
    /\ ~settings.saveReplay => dirs = [s \in Session |-> "none"]
    /\ ~live => settings.saveReplay /\ ~settings.permanent

\* What the stage of a job says of the settings, of the live and of replays.
Staged(j) ==
    /\ j.stage \in {"replay", "remove"} => settings.permanent
    /\ j.stage \in {"replace", "assign", "wipe"} => ~settings.permanent
    /\ j.stage \notin {"wait", "clean"} => settings.saveReplay /\ j.dir # None
    /\ j.stage \in {"assign", "wipe"} => ~live
    /\ j.stage \in {"remove", "wipe"} => replays[j.dir] > 0 \/ j.dir \in lost

AllStaged == \A j \in jobs : Staged(j)

\* The replays made of the directory of s: one at most, and none is to be
\* made again.
Made(s) ==
    /\ replays[s] <= 1
    /\ replays[s] > 0 =>
          \/ dirs[s] = "none"
          \/ \E j \in jobs : j.stage = "wipe" \/ (j.stage = "remove" /\ j.dir = s)
          \/ ~live /\ \A j \in jobs : j.stage = "wait"

Once == ~torn => \A s \in Session : Made(s)

\* A session that starts or streams is the registered one and the latest; the
\* playlist is its own, its directory is there; nobody else is between check
\* and registration.
SessionOrder(s) ==
    /\ pc[s] \in Starting \/ wrapper[s] = "running" => current = s
    /\ pc[s] \in {"generate", "directories"} \/ wrapper[s] = "running" => s \in muxing
    /\ pc[s] \in {"playlist", "clean"} =>
          /\ current = None
          /\ \A t \in Session : pc[t] \in {"playlist", "clean"} => t = s
    /\ pc[s] \in {"probe", "user", "generate"} => playlist = None
    /\ pc[s] = "clean" => playlist \in {held[s], None}
    /\ pc[s] \in {"user", "generate", "directories"} \/ wrapper[s] = "running"
          => Latest = s
    /\ pc[s] = "directories" \/ wrapper[s] = "running"
          => playlist = s /\ held[s] = s
    /\ wrapper[s] = "running" /\ settings.saveReplay => dirs[s] # "none"

\* A job is of a session that is over, and so are its playlist and its
\* directory.
JobOrder(j) ==
    /\ pc[j.session] \in {"save", "over"}
    /\ j.playlist # None =>
          /\ j.playlist = j.session
          /\ j.dir = j.session \/ dirs[j.session] = "none"
    /\ j.dir # None => wrapper[j.dir] # "running"

\* While no session was overtaken.
Order ==
    orderly => /\ \A s \in Session : SessionOrder(s)
               /\ \A j \in jobs : JobOrder(j)
               /\ playlist # None => Latest = playlist

\* The playlist of a normal live is that of the session whose replay has
\* segments, and of the one that runs.
NormalSession(s) ==
    /\ dirs[s] = "filled" => playlist = s
    /\ pc[s] \in {"running", "finish"} => playlist = s

\* A job that makes a replay has the directory of the playlist's session; one
\* that destroys the playlist has no segments to lose.
NormalJob(j) ==
    /\ j.dir # None => pc[j.dir] \in {"save", "over"}
    /\ j.stage = "clean" /\ j.playlist # None => dirs[j.session] # "filled"
    /\ j.stage = "replace" /\ live => dirs[j.dir] = "filled"
    /\ j.stage \in {"replace", "assign", "wipe"} => j.dir = playlist

\* A live that was replaced has no session before its clean-up, and keeps the
\* playlist that turns away new ones.
Replaced ==
    ~live => /\ playlist # None
             /\ \A j \in jobs : j.stage = "clean" => j.playlist # playlist
             /\ \A s \in Session : pc[s] \notin {"probe", "user", "generate",
                                         "directories", "running", "finish"}

\* While no session of a normal live was overtaken.
Normal ==
    orderly /\ ~settings.permanent =>
        /\ \A s \in Session : NormalSession(s)
        /\ \A j \in jobs : NormalJob(j)
        /\ Replaced

-----------------------------------------------------------------------------
Wrapper == {"none", "running", "ended", "aborted", "errored"}

\* The variables that stopping a session may change.
StreamTyped ==
    /\ conn \in [Session -> {"off", "live", "closed"}]
    /\ current \in Session \cup {None}
    /\ muxing \subseteq Session /\ aborts \subseteq Session
    /\ wrapper \in [Session -> Wrapper]
    /\ rows \in [Session -> [open : BOOLEAN, processed : BOOLEAN]]
    /\ orderly \in BOOLEAN

\* The others, and the bound on faults.
OthersTyped ==
    /\ settings \in Settings
    /\ pc \in [Session -> Step]
    /\ quota \subseteq Session
    /\ ready \in [Session -> {"no", "emitted", "published"}]
    /\ held \in [Session -> Session \cup {None}]
    /\ broken \in {"no", "finish", "save"}
    /\ state \in State
    /\ live \in BOOLEAN /\ blacklisted \in BOOLEAN
    /\ playlist \in Session \cup {None}
    /\ started \in Seq(Session)
    /\ dirs \in [Session -> {"none", "empty", "filled"}]
    /\ jobs \subseteq Job
    /\ runnerJobs \subseteq Session
    /\ replays \in [Session -> Nat]
    /\ lost \subseteq Session /\ cutShort \subseteq Session
    /\ torn \in BOOLEAN
    /\ restarts \in Nat /\ failures \in Nat
    /\ restarts + failures <= MaxFaults

\* The jobs are told apart by their session, the run of the server and who
\* made them.
Keys == \A j, k \in jobs : j.session = k.session /\ j.boot = k.boot
                              /\ j.broken = k.broken => j = k

\* The type invariant is the three parts proved below.
LEMMA TypeParts ==
    TypeOK /\ restarts + failures <= MaxFaults <=> StreamTyped /\ OthersTyped /\ Keys
BY BoundAssumption DEF TypeOK, StreamTyped, OthersTyped, Keys, Wrapper

\* saveEndingSession leaves rows.
LEMMA SaveEndingTyped ==
    ASSUME StreamTyped, NEW registered, NEW onReplay \in BOOLEAN
    PROVE  SaveEndingSession(registered, onReplay)
              \in [Session -> [open : BOOLEAN, processed : BOOLEAN]]
BY DEF SaveEndingSession, StreamTyped

\* Aborting a session keeps the types of the stream's variables.
LEMMA AbortTyped ==
    ASSUME StreamTyped, NEW s \in Session, NEW registered \in Session \cup {None},
           NEW ended \in [Session -> [open : BOOLEAN, processed : BOOLEAN]],
           NEW sessions \in SUBSET Session, NEW trans \in [Session -> Wrapper],
           aborts' \in SUBSET Session,
           AbortSession(s, registered, ended, sessions, trans)
    PROVE  StreamTyped'
<1>1. SaveEndingSession(registered, FALSE)
         \in [Session -> [open : BOOLEAN, processed : BOOLEAN]]
    BY SaveEndingTyped
<1>2. rows' \in [Session -> [open : BOOLEAN, processed : BOOLEAN]]
    BY <1>1 DEF AbortSession
<1>3. wrapper' \in [Session -> Wrapper]
    BY DEF AbortSession, Wrapper
<1>4. QED
    BY <1>2, <1>3 DEF AbortSession, StreamTyped

\* So does stopping the session of the video.
LEMMA StopTyped ==
    ASSUME StreamTyped, NEW onReplay \in BOOLEAN,
           NEW sessions \in SUBSET Session, NEW trans \in [Session -> Wrapper],
           StopSession(onReplay, sessions, trans)
    PROVE  StreamTyped'
<1>1. CASE current = None
    BY <1>1 DEF StopSession, StreamTyped
<1>2. CASE current # None
    <2>1. current \in Session
        BY <1>2 DEF StreamTyped
    <2>2. aborts' \in SUBSET Session
        BY <1>2, <2>1 DEF StopSession, DonePublish, StreamTyped
    <2>3. SaveEndingSession(current, onReplay)
             \in [Session -> [open : BOOLEAN, processed : BOOLEAN]]
        BY SaveEndingTyped
    <2>4. AbortSession(current, None, SaveEndingSession(current, onReplay),
                       sessions, trans)
        BY <1>2 DEF StopSession
    <2>5. QED
        BY <2>1, <2>2, <2>3, <2>4, AbortTyped
<1>3. QED
    BY <1>1, <1>2

\* The replay directory a job is given exists, and is the one of the latest
\* session if that has one.
LEMMA ReplayDirectoryFacts ==
    ASSUME OthersTyped
    PROVE  /\ ReplayDirectory \in Session \cup {None}
           /\ ReplayDirectory # None =>
                 settings.saveReplay /\ dirs[ReplayDirectory] # "none"
           /\ Latest # None /\ settings.saveReplay /\ dirs[Latest] # "none" =>
                 ReplayDirectory = Latest
<1> DEFINE S == { s \in Session : dirs[s] # "none" }
<1>1. started \in Seq(Session)
    BY DEF OthersTyped
<1>2. LatestOf(S) = None \/ (LatestOf(S) \in S /\ LatestOf(S) \in Session)
    BY <1>1, LatestOfType
<1>3. Latest # None /\ Latest \in S => LatestOf(S) = Latest
    BY <1>1, LatestOfLatest
<1>4. Latest # None => Latest \in Session
    BY <1>1, LatestNone DEF Latest
<1>5. QED
    BY <1>2, <1>3, <1>4 DEF ReplayDirectory

\* Moving a job to its next stage leaves jobs.
LEMMA BecomesTyped ==
    ASSUME jobs \subseteq Job, NEW j \in jobs,
           NEW stage \in {"wait", "replay", "remove", "replace", "assign", "wipe",
                          "clean", "done"},
           Becomes(j, stage)
    PROVE  /\ jobs' \subseteq Job
           /\ \A k \in jobs' :
                 \/ k \in jobs /\ k # j
                 \/ /\ stage # "done" /\ k.stage = stage
                    /\ k.session = j.session /\ k.boot = j.boot
                    /\ k.broken = j.broken /\ k.playlist = j.playlist
                    /\ k.dir = j.dir
                    /\ k = [j EXCEPT !.stage = stage]
           /\ \A k \in jobs : k # j => k \in jobs'
           /\ stage # "done" => [j EXCEPT !.stage = stage] \in jobs'
<1>1. j \in Job
    OBVIOUS
<1>2. stage # "done" =>
         LET k == [j EXCEPT !.stage = stage]
         IN /\ k \in Job /\ k.stage = stage
            /\ k.session = j.session /\ k.boot = j.boot
            /\ k.broken = j.broken /\ k.playlist = j.playlist
            /\ k.dir = j.dir
    BY <1>1 DEF Job
<1>3. QED
    BY <1>1, <1>2 DEF Becomes

-----------------------------------------------------------------------------
(* Types.                                                                  *)

\* A clean-up that fails makes no job.
LEMMA CleanupFailsEffect ==
    ASSUME StreamTyped, OthersTyped, NEW s \in Session, CleanupFails(s)
    PROVE  /\ pc[s] \in {"finish", "save"}
           /\ \E next \in {"save", "over"} : pc' = [pc EXCEPT ![s] = next]
           /\ orderly' => orderly
           /\ cutShort' \subseteq Session
           /\ rows' \in [Session -> [open : BOOLEAN, processed : BOOLEAN]]
           /\ failures' = failures + 1 /\ restarts + failures < MaxFaults
           /\ UNCHANGED <<conn, current, muxing, wrapper, aborts, quota, held,
                          ready, broken, disk, replays, lost, torn, restarts>>
<1>1. CASE pc[s] = "save"
    BY <1>1 DEF CleanupFails, Goto, Fails, StreamTyped, OthersTyped
<1>2. CASE pc[s] = "finish"
    <2>1. [rows EXCEPT ![s].open = FALSE]
             \in [Session -> [open : BOOLEAN, processed : BOOLEAN]]
        BY DEF StreamTyped
    <2>2. rows' = rows \/ rows' = [rows EXCEPT ![s].open = FALSE]
        BY <1>2 DEF CleanupFails
    <2>3. rows' \in [Session -> [open : BOOLEAN, processed : BOOLEAN]]
        BY <2>1, <2>2 DEF StreamTyped
    <2>4. \E next \in {"save", "over"} : pc' = [pc EXCEPT ![s] = next]
        BY <1>2 DEF CleanupFails, Goto
    <2>5. orderly' => orderly
        BY <1>2 DEF CleanupFails, StreamTyped
    <2>6. QED
        BY <1>2, <2>3, <2>4, <2>5 DEF CleanupFails, Fails, OthersTyped
<1>3. QED
    BY <1>1, <1>2 DEF CleanupFails

\* So does handleBrokenLives when it fails.
LEMMA BrokenLiveFailsEffect ==
    ASSUME StreamTyped, OthersTyped, broken = "finish" => Latest # None,
           BrokenLiveFails
    PROVE  /\ broken # "no" /\ broken' \in {"no", "save"}
           /\ orderly' => orderly
           /\ cutShort' \subseteq Session
           /\ rows' \in [Session -> [open : BOOLEAN, processed : BOOLEAN]]
           /\ failures' = failures + 1 /\ restarts + failures < MaxFaults
           /\ UNCHANGED <<conn, current, muxing, wrapper, aborts, pc, quota, held,
                          ready, disk, replays, lost, torn, restarts>>
<1>1. CASE broken = "save"
    BY <1>1 DEF BrokenLiveFails, Fails, StreamTyped, OthersTyped
<1>2. CASE broken # "save"
    <2>1. broken = "finish"
        BY <1>2 DEF BrokenLiveFails, OthersTyped
    <2>2. Latest \in Session
        BY <2>1, LatestNone DEF OthersTyped, Latest
    <2>3. rows' = rows \/ rows' = [rows EXCEPT ![Latest].open = FALSE]
        BY <1>2 DEF BrokenLiveFails
    <2>4. rows' \in [Session -> [open : BOOLEAN, processed : BOOLEAN]]
        BY <2>2, <2>3 DEF StreamTyped
    <2>5. orderly' => orderly
        BY <1>2 DEF BrokenLiveFails, StreamTyped
    <2>6. cutShort' \subseteq Session
        BY <1>2, <2>2 DEF BrokenLiveFails, OthersTyped
    <2>7. QED
        BY <1>2, <2>4, <2>5, <2>6 DEF BrokenLiveFails, Fails
<1>3. QED
    BY <1>1, <1>2

\* Every step keeps the types of the variables that stopping a session may
\* change.
LEMMA StreamTypedNext ==
    ASSUME StreamTyped, OthersTyped, broken = "finish" => Latest # None, [Next]_vars
    PROVE  StreamTyped'
<1>1. ASSUME NEW s \in Session, PostPublish(s) PROVE StreamTyped'
    BY <1>1 DEF PostPublish, Goto, disk, bounds, StreamTyped
<1>2. ASSUME NEW s \in Session, Unpublish(s) PROVE StreamTyped'
    BY <1>2 DEF Unpublish, memory, disk, bounds, StreamTyped
<1>3. ASSUME NEW s \in Session, AbortTimer(s) PROVE StreamTyped'
    <2>1. /\ rows \in [Session -> [open : BOOLEAN, processed : BOOLEAN]]
          /\ muxing \in SUBSET Session /\ wrapper \in [Session -> Wrapper]
          /\ current \in Session \cup {None} /\ aborts' \in SUBSET Session
        BY <1>3 DEF StreamTyped, AbortTimer
    <2>2. QED
        BY <1>3, <2>1, AbortTyped DEF AbortTimer
<1>4. ASSUME NEW s \in Session, LoadLive(s) PROVE StreamTyped'
    <2>1. CASE Accepts(s)
        BY <1>4, <2>1 DEF LoadLive, StreamTyped
    <2>2. CASE ~Accepts(s)
        <3>1. /\ rows \in [Session -> [open : BOOLEAN, processed : BOOLEAN]]
              /\ muxing \in SUBSET Session /\ wrapper \in [Session -> Wrapper]
              /\ current \in Session \cup {None} /\ aborts' \in SUBSET Session
            BY <1>4, <2>2 DEF StreamTyped, LoadLive
        <3>2. QED
            BY <1>4, <2>2, <3>1, AbortTyped DEF LoadLive
    <2>3. QED
        BY <2>1, <2>2
<1>5. ASSUME NEW s \in Session, LoadPlaylist(s) PROVE StreamTyped'
    BY <1>5 DEF LoadPlaylist, Goto, disk, bounds, StreamTyped
<1>6. ASSUME NEW s \in Session, CleanOldLive(s) PROVE StreamTyped'
    BY <1>6 DEF CleanOldLive, Goto, bounds, StreamTyped
<1>7. ASSUME NEW s \in Session, HandlerFails(s) PROVE StreamTyped'
    BY <1>7 DEF HandlerFails, Goto, Fails, disk, StreamTyped
<1>8. ASSUME NEW s \in Session, StartSession(s) PROVE StreamTyped'
    BY <1>8 DEF StartSession, Goto, bounds, StreamTyped
<1>9. ASSUME NEW s \in Session, LoadUser(s) PROVE StreamTyped'
    BY <1>9 DEF LoadUser, Goto, disk, bounds, StreamTyped
<1>10. ASSUME NEW s \in Session, CreateLivePlaylist(s) PROVE StreamTyped'
    BY <1>10 DEF CreateLivePlaylist, Goto, stream, bounds, StreamTyped
<1>11. ASSUME NEW s \in Session, PrepareDirectories(s) PROVE StreamTyped'
    BY <1>11 DEF PrepareDirectories, Goto, bounds, StreamTyped, Wrapper
<1>12. ASSUME NEW s \in Session, MuxingFails(s) PROVE StreamTyped'
    <2>1. muxing \ {s} \in SUBSET Session /\ wrapper \in [Session -> Wrapper]
        BY DEF StreamTyped
    <2>2. QED
        BY <1>12, <2>1, StopTyped DEF MuxingFails
<1>13. ASSUME NEW s \in Session, ProcessSegment(s) PROVE StreamTyped'
    BY <1>13 DEF ProcessSegment, stream, bounds, StreamTyped
<1>14. ASSUME NEW s \in Session, PublishLive(s) PROVE StreamTyped'
    BY <1>14 DEF PublishLive, stream, bounds, StreamTyped
<1>15. ASSUME NEW s \in Session, LimitExceeded(s) PROVE StreamTyped'
    <2>1. muxing \in SUBSET Session /\ wrapper \in [Session -> Wrapper]
        BY DEF StreamTyped
    <2>2. QED
        BY <1>15, <2>1, StopTyped DEF LimitExceeded
<1>16. ASSUME NEW s \in Session, RunnerJobOver(s) PROVE StreamTyped'
    <2>1. muxing \in SUBSET Session /\ wrapper \in [Session -> Wrapper]
        BY DEF StreamTyped
    <2>2. QED
        BY <1>16, <2>1, StopTyped DEF RunnerJobOver
<1>17. ASSUME NEW s \in Session, FFmpegEnds(s) PROVE StreamTyped'
    <2>1. SaveEndingSession(current, FALSE)
             \in [Session -> [open : BOOLEAN, processed : BOOLEAN]]
        BY SaveEndingTyped
    <2>2. QED
        BY <1>17, <2>1 DEF FFmpegEnds, StreamTyped, Wrapper
<1>18. ASSUME NEW s \in Session, FFmpegErrors(s) PROVE StreamTyped'
    <2>1. /\ muxing \in SUBSET Session
          /\ [wrapper EXCEPT ![s] = "errored"] \in [Session -> Wrapper]
        BY DEF StreamTyped, Wrapper
    <2>2. QED
        BY <1>18, <2>1, StopTyped DEF FFmpegErrors
<1>19. ASSUME NEW s \in Session, AfterCleanup(s) PROVE StreamTyped'
    BY <1>19 DEF AfterCleanup, Goto, disk, bounds, StreamTyped
<1>20. ASSUME NEW s \in Session, Finish(s) PROVE StreamTyped'
    BY ZenonT(30), <1>20 DEF Finish, Goto, bounds, StreamTyped, EndSession
<1>21. ASSUME NEW s \in Session, SaveState(s) PROVE StreamTyped'
    BY <1>21 DEF SaveState, Goto, stream, bounds, StreamTyped
<1>22. ASSUME NEW j \in jobs, ProcessLiveEnding(j) PROVE StreamTyped'
    BY <1>22 DEF ProcessLiveEnding, memory, bounds, StreamTyped
<1>23. ASSUME NEW j \in jobs, SaveReplayToExternalVideo(j) PROVE StreamTyped'
    BY <1>23
    DEF SaveReplayToExternalVideo, stream, memory, StreamTyped, AssignReplay
<1>24. ASSUME NEW j \in jobs, RemoveReplay(j) PROVE StreamTyped'
    BY <1>24 DEF RemoveReplay, stream, memory, bounds, StreamTyped
<1>25. ASSUME NEW j \in jobs, ReplaceLiveByReplay(j) PROVE StreamTyped'
    BY <1>25 DEF ReplaceLiveByReplay, stream, memory, bounds, StreamTyped
<1>26. ASSUME NEW j \in jobs, AssignToLive(j) PROVE StreamTyped'
    BY <1>26 DEF AssignToLive, stream, memory, StreamTyped, AssignReplay
<1>27. ASSUME NEW j \in jobs, RemoveBaseDirectory(j) PROVE StreamTyped'
    BY <1>27 DEF RemoveBaseDirectory, stream, memory, bounds, StreamTyped
<1>28. ASSUME NEW j \in jobs, CleanupLive(j) PROVE StreamTyped'
    BY <1>28 DEF CleanupLive, stream, memory, bounds, StreamTyped
<1>29. ASSUME Blacklist PROVE StreamTyped'
    <2>1. muxing \in SUBSET Session /\ wrapper \in [Session -> Wrapper]
        BY DEF StreamTyped
    <2>2. QED
        BY <1>29, <2>1, StopTyped DEF Blacklist
<1>30. ASSUME Restart PROVE StreamTyped'
    BY <1>30 DEF Restart, StreamTyped, Wrapper
<1>31. ASSUME EndBrokenLive PROVE StreamTyped'
    BY ZenonT(30), <1>31 DEF EndBrokenLive, bounds, StreamTyped, EndSession
<1>32. ASSUME SaveBrokenState PROVE StreamTyped'
    BY <1>32 DEF SaveBrokenState, stream, bounds, StreamTyped
<1>33. ASSUME UNCHANGED vars PROVE StreamTyped'
    BY <1>33 DEF vars, stream, memory, disk, bounds, StreamTyped
<1>34. ASSUME NEW s \in Session, CleanupFails(s) PROVE StreamTyped'
    <2>1. orderly' \in BOOLEAN
        BY <1>34 DEF CleanupFails, StreamTyped
    <2>2. QED
        BY <1>34, <2>1, CleanupFailsEffect DEF StreamTyped
<1>35. ASSUME BrokenLiveFails PROVE StreamTyped'
    <2>1. orderly' \in BOOLEAN
        BY <1>35 DEF BrokenLiveFails, StreamTyped
    <2>2. QED
        BY <1>35, <2>1, BrokenLiveFailsEffect DEF StreamTyped
<1>36. ASSUME NEW j \in jobs, GenerateFails(j) PROVE StreamTyped'
    BY <1>36 DEF GenerateFails, stream, StreamTyped
<1>37. ASSUME NEW j \in jobs, EndingFails(j) PROVE StreamTyped'
    <2>1. j.session \in Session
        BY DEF OthersTyped, Job
    <2>2. live \/ rows[j.session].processed \in BOOLEAN
        BY <2>1 DEF OthersTyped, StreamTyped
    <2>3. [rows EXCEPT ![j.session].processed = live \/ @]
             \in [Session -> [open : BOOLEAN, processed : BOOLEAN]]
        BY <2>1, <2>2 DEF StreamTyped
    <2>4. rows' = rows \/ rows' = [rows EXCEPT ![j.session].processed = live \/ @]
        BY <1>37 DEF EndingFails
    <2>5. rows' \in [Session -> [open : BOOLEAN, processed : BOOLEAN]]
        BY <2>3, <2>4 DEF StreamTyped
    <2>6. QED
        BY <1>37, <2>5 DEF EndingFails, StreamTyped
<1>38. QED
    BY <1>1, <1>2, <1>3, <1>4, <1>5, <1>6, <1>7, <1>8, <1>9, <1>10, <1>11,
        <1>12, <1>13, <1>14, <1>15, <1>16, <1>17, <1>18, <1>19, <1>20, <1>21,
        <1>22, <1>23, <1>24, <1>25, <1>26, <1>27, <1>28, <1>29, <1>30, <1>31,
        <1>32, <1>33, <1>34, <1>35, <1>36, <1>37
    DEF Next, HandleSession, RunMuxing, Stream, EndOfSession, LiveEnding,
        HandleBrokenLives

\* Every step keeps the types of the others, and the bound on faults.
LEMMA OthersTypedNext ==
    ASSUME StreamTyped, OthersTyped, AllStaged,
           broken = "finish" => Latest # None, [Next]_vars
    PROVE  OthersTyped'
<1>1. ASSUME NEW s \in Session, PostPublish(s) PROVE OthersTyped'
    BY <1>1, BoundAssumption
    DEF PostPublish, Goto, memory, disk, bounds, OthersTyped, Step
<1>2. ASSUME NEW s \in Session, Unpublish(s) PROVE OthersTyped'
    BY <1>2, BoundAssumption
    DEF Unpublish, memory, disk, bounds, OthersTyped, Step
<1>3. ASSUME NEW s \in Session, AbortTimer(s) PROVE OthersTyped'
    BY <1>3, BoundAssumption
    DEF AbortTimer, memory, disk, bounds, OthersTyped, Step
<1>4. ASSUME NEW s \in Session, LoadLive(s) PROVE OthersTyped'
    BY <1>4, BoundAssumption
    DEF LoadLive, Goto, memory, disk, bounds, OthersTyped, Step
<1>5. ASSUME NEW s \in Session, LoadPlaylist(s) PROVE OthersTyped'
    BY <1>5, BoundAssumption
    DEF LoadPlaylist, Goto, memory, disk, bounds, OthersTyped, Step
<1>6. ASSUME NEW s \in Session, CleanOldLive(s) PROVE OthersTyped'
    BY <1>6, BoundAssumption
    DEF CleanOldLive, Goto, memory, bounds, OthersTyped, Step
<1>7. ASSUME NEW s \in Session, HandlerFails(s) PROVE OthersTyped'
    BY <1>7, BoundAssumption
    DEF HandlerFails, Goto, Fails, memory, disk, OthersTyped, Step
<1>8. ASSUME NEW s \in Session, StartSession(s) PROVE OthersTyped'
    <2>1. started' \in Seq(Session)
        BY <1>8, LatestStarts DEF StartSession, OthersTyped
    <2>2. QED
        BY <1>8, <2>1 DEF StartSession, Goto, bounds, OthersTyped, Step
<1>9. ASSUME NEW s \in Session, LoadUser(s) PROVE OthersTyped'
    BY <1>9, BoundAssumption
    DEF LoadUser, Goto, memory, disk, bounds, OthersTyped, Step
<1>10. ASSUME NEW s \in Session, CreateLivePlaylist(s) PROVE OthersTyped'
    BY <1>10, BoundAssumption
    DEF CreateLivePlaylist, Goto, stream, memory, bounds, OthersTyped, Step
<1>11. ASSUME NEW s \in Session, PrepareDirectories(s) PROVE OthersTyped'
    BY <1>11, BoundAssumption
    DEF PrepareDirectories, Goto, memory, bounds, OthersTyped, Step
<1>12. ASSUME NEW s \in Session, MuxingFails(s) PROVE OthersTyped'
    BY <1>12, BoundAssumption
    DEF MuxingFails, Goto, Fails, memory, disk, OthersTyped, Step
<1>13. ASSUME NEW s \in Session, ProcessSegment(s) PROVE OthersTyped'
    BY <1>13, BoundAssumption
    DEF ProcessSegment, stream, memory, bounds, OthersTyped, Step
<1>14. ASSUME NEW s \in Session, PublishLive(s) PROVE OthersTyped'
    BY <1>14, BoundAssumption
    DEF PublishLive, stream, memory, bounds, OthersTyped, State, Step
<1>15. ASSUME NEW s \in Session, LimitExceeded(s) PROVE OthersTyped'
    BY <1>15, BoundAssumption
    DEF LimitExceeded, Fails, memory, disk, OthersTyped, Step
<1>16. ASSUME NEW s \in Session, RunnerJobOver(s) PROVE OthersTyped'
    BY <1>16, BoundAssumption
    DEF RunnerJobOver, memory, bounds, OthersTyped, Step
<1>17. ASSUME NEW s \in Session, FFmpegEnds(s) PROVE OthersTyped'
    BY <1>17, BoundAssumption
    DEF FFmpegEnds, memory, disk, bounds, OthersTyped, Step
<1>18. ASSUME NEW s \in Session, FFmpegErrors(s) PROVE OthersTyped'
    BY <1>18, BoundAssumption
    DEF FFmpegErrors, Fails, memory, disk, OthersTyped, Step
<1>19. ASSUME NEW s \in Session, AfterCleanup(s) PROVE OthersTyped'
    BY <1>19, BoundAssumption
    DEF AfterCleanup, Goto, memory, disk, bounds, OthersTyped, Step
<1>20. ASSUME NEW s \in Session, Finish(s) PROVE OthersTyped'
    <2>1. EndingJob(s, FALSE) \in Job
        BY ReplayDirectoryFacts, BoundAssumption
        DEF EndingJob, Job, OthersTyped
    <2>2. jobs' \subseteq Job
        BY <1>20, <2>1 DEF Finish, EndSession, OthersTyped
    <2>3. QED
        BY <1>20, <2>2 DEF Finish, Goto, bounds, OthersTyped, Step
<1>21. ASSUME NEW s \in Session, SaveState(s) PROVE OthersTyped'
    BY <1>21, BoundAssumption
    DEF SaveState, Goto, stream, memory, bounds, OthersTyped, State,
        StateAfterLive, Step
<1>22. ASSUME NEW j \in jobs, ProcessLiveEnding(j) PROVE OthersTyped'
    <2>1. jobs' \subseteq Job
        BY <1>22, BecomesTyped DEF ProcessLiveEnding, OthersTyped, Ends
    <2>2. QED
        BY <1>22, <2>1
        DEF ProcessLiveEnding, OthersTyped, memory, bounds, State, Ends
<1>23. ASSUME NEW j \in jobs, SaveReplayToExternalVideo(j) PROVE OthersTyped'
    <2>1. jobs' \subseteq Job
        BY <1>23, BecomesTyped DEF SaveReplayToExternalVideo, OthersTyped, AssignReplay
    <2>2. replays' \in [Session -> Nat]
        BY <1>23 DEF SaveReplayToExternalVideo, AssignReplay, OthersTyped
    <2>3. UNCHANGED <<settings, pc, quota, ready, held, broken, state, live,
                      blacklisted, playlist, started, dirs, runnerJobs, lost,
                      cutShort, torn, restarts, failures>>
        BY <1>23 DEF SaveReplayToExternalVideo, AssignReplay, memory
    <2>4. QED
        BY <2>1, <2>2, <2>3 DEF OthersTyped
<1>24. ASSUME NEW j \in jobs, RemoveReplay(j) PROVE OthersTyped'
    <2>1. jobs' \subseteq Job
        BY <1>24, BecomesTyped DEF RemoveReplay, OthersTyped
    <2>2. QED
        BY <1>24, <2>1
        DEF RemoveReplay, OthersTyped, stream, memory, bounds, State
<1>25. ASSUME NEW j \in jobs, ReplaceLiveByReplay(j) PROVE OthersTyped'
    <2>1. jobs' \subseteq Job
        BY <1>25, BecomesTyped DEF ReplaceLiveByReplay, OthersTyped
    <2>2. QED
        BY <1>25, <2>1
        DEF ReplaceLiveByReplay, OthersTyped, stream, memory, bounds, State
<1>26. ASSUME NEW j \in jobs, AssignToLive(j) PROVE OthersTyped'
    <2>1. jobs' \subseteq Job
        BY <1>26, BecomesTyped DEF AssignToLive, OthersTyped, AssignReplay
    <2>2. replays' \in [Session -> Nat]
        BY <1>26 DEF AssignToLive, AssignReplay, OthersTyped
    <2>3. UNCHANGED <<settings, pc, quota, ready, held, broken, state, live,
                      blacklisted, playlist, started, dirs, runnerJobs, lost,
                      cutShort, torn, restarts, failures>>
        BY <1>26 DEF AssignToLive, AssignReplay, memory
    <2>4. QED
        BY <2>1, <2>2, <2>3 DEF OthersTyped
<1>27. ASSUME NEW j \in jobs, RemoveBaseDirectory(j) PROVE OthersTyped'
    <2>1. jobs' \subseteq Job
        BY <1>27, BecomesTyped DEF RemoveBaseDirectory, OthersTyped
    <2>2. QED
        BY <1>27, <2>1
        DEF RemoveBaseDirectory, OthersTyped, stream, memory, bounds, State
<1>28. ASSUME NEW j \in jobs, CleanupLive(j) PROVE OthersTyped'
    <2>1. jobs' \subseteq Job
        BY <1>28, BecomesTyped DEF CleanupLive, OthersTyped
    <2>2. QED
        BY <1>28, <2>1
        DEF CleanupLive, OthersTyped, stream, memory, bounds, State
<1>29. ASSUME Blacklist PROVE OthersTyped'
    BY <1>29, BoundAssumption DEF Blacklist, Fails, memory, OthersTyped
<1>30. ASSUME Restart PROVE OthersTyped'
    <2>1. jobs' \subseteq Job
        <3>1. ASSUME NEW k \in Job PROVE Stalled(k) \in Job
            BY DEF Stalled, Job
        <3>2. QED
            BY <1>30, <3>1 DEF Restart, OthersTyped
    <2>2. QED
        BY <1>30, <2>1, BoundAssumption DEF Restart, OthersTyped, Step
<1>31. ASSUME EndBrokenLive PROVE OthersTyped'
    <2>1. Latest \in Session
        BY <1>31, LatestNone DEF EndBrokenLive, OthersTyped, Latest
    <2>2. EndingJob(Latest, TRUE) \in Job
        BY <2>1, ReplayDirectoryFacts, BoundAssumption
        DEF EndingJob, Job, OthersTyped
    <2>3. jobs' \subseteq Job
        BY <1>31, <2>2 DEF EndBrokenLive, EndSession, OthersTyped
    <2>4. QED
        BY <1>31, <2>3 DEF EndBrokenLive, bounds, OthersTyped
<1>32. ASSUME SaveBrokenState PROVE OthersTyped'
    BY <1>32, BoundAssumption
    DEF SaveBrokenState, stream, memory, bounds, OthersTyped, State,
        StateAfterLive
<1>33. ASSUME UNCHANGED vars PROVE OthersTyped'
    BY <1>33, BoundAssumption
    DEF vars, stream, memory, disk, bounds, OthersTyped
<1>34. ASSUME NEW s \in Session, CleanupFails(s) PROVE OthersTyped'
    <2>1. pc' \in [Session -> Step]
        <3>1. PICK next \in {"save", "over"} : pc' = [pc EXCEPT ![s] = next]
            BY <1>34, CleanupFailsEffect
        <3>2. QED
            BY <3>1 DEF OthersTyped, Step
    <2>2. /\ UNCHANGED <<quota, held, ready, broken, replays, lost, torn, restarts>>
          /\ UNCHANGED disk
          /\ failures' = failures + 1 /\ restarts + failures < MaxFaults
          /\ cutShort' \subseteq Session
        BY <1>34, CleanupFailsEffect
    <2>3. QED
        BY <2>1, <2>2, BoundAssumption DEF disk, OthersTyped
<1>35. ASSUME BrokenLiveFails PROVE OthersTyped'
    BY <1>35, BrokenLiveFailsEffect, BoundAssumption DEF disk, OthersTyped
<1>36. ASSUME NEW j \in jobs, GenerateFails(j) PROVE OthersTyped'
    <2>1. jobs' \subseteq Job
        BY <1>36, BecomesTyped DEF GenerateFails, OthersTyped
    <2>2. j.dir \in Session
        BY <1>36 DEF GenerateFails, OthersTyped, Job, AllStaged, Staged
    <2>3. QED
        BY <1>36, <2>1, <2>2, BoundAssumption
        DEF GenerateFails, Fails, memory, stream, OthersTyped
<1>37. ASSUME NEW j \in jobs, EndingFails(j) PROVE OthersTyped'
    <2>1. jobs' \subseteq Job /\ j.session \in Session
        BY <1>37, BecomesTyped DEF EndingFails, OthersTyped, Job
    <2>2. live' \in BOOLEAN /\ torn' \in BOOLEAN
        BY <1>37 DEF EndingFails, OthersTyped
    <2>3. cutShort' \subseteq Session
        BY <1>37, <2>1 DEF EndingFails, OthersTyped
    <2>4. QED
        BY <1>37, <2>1, <2>2, <2>3, BoundAssumption
        DEF EndingFails, Fails, memory, OthersTyped
<1>38. QED
    BY <1>1, <1>2, <1>3, <1>4, <1>5, <1>6, <1>7, <1>8, <1>9, <1>10, <1>11,
        <1>12, <1>13, <1>14, <1>15, <1>16, <1>17, <1>18, <1>19, <1>20, <1>21,
        <1>22, <1>23, <1>24, <1>25, <1>26, <1>27, <1>28, <1>29, <1>30, <1>31,
        <1>32, <1>33, <1>34, <1>35, <1>36, <1>37
    DEF Next, HandleSession, RunMuxing, Stream, EndOfSession, LiveEnding,
        HandleBrokenLives

-----------------------------------------------------------------------------
(* Keys of the jobs, and what has started.                                 *)

\* A step of a job moves that job, and leaves the server's memory alone.
LEMMA LiveEndingBecomes ==
    ASSUME OthersTyped, NEW j \in jobs, LiveEnding(j)
    PROVE  /\ UNCHANGED <<conn, current, muxing, wrapper, aborts, orderly, memory,
                          settings, blacklisted, started, runnerJobs, restarts>>
           /\ lost \subseteq lost'
           /\ \E stage \in {"wait", "replay", "remove", "replace", "assign",
                            "wipe", "clean", "done"} : Becomes(j, stage)
<1> DEFINE Goal ==
              /\ UNCHANGED <<conn, current, muxing, wrapper, aborts, orderly, memory,
                             settings, blacklisted, started, runnerJobs, restarts>>
              /\ lost \subseteq lost'
              /\ \E stage \in {"wait", "replay", "remove", "replace", "assign",
                               "wipe", "clean", "done"} : Becomes(j, stage)
<1>1. CASE ProcessLiveEnding(j)
    BY <1>1 DEF ProcessLiveEnding, Ends, bounds, memory
<1>2. CASE SaveReplayToExternalVideo(j)
    BY <1>2 DEF SaveReplayToExternalVideo, AssignReplay, stream, memory
<1>3. CASE RemoveReplay(j)
    BY <1>3 DEF RemoveReplay, stream, memory, bounds
<1>4. CASE ReplaceLiveByReplay(j)
    BY <1>4 DEF ReplaceLiveByReplay, stream, memory, bounds
<1>5. CASE AssignToLive(j)
    BY <1>5 DEF AssignToLive, AssignReplay, stream, memory
<1>6. CASE RemoveBaseDirectory(j)
    BY <1>6 DEF RemoveBaseDirectory, stream, memory, bounds
<1>7. CASE CleanupLive(j)
    BY <1>7 DEF CleanupLive, stream, memory, bounds
<1>8. CASE GenerateFails(j)
    BY <1>8 DEF GenerateFails, stream, memory
<1>9. CASE EndingFails(j)
    BY <1>9 DEF EndingFails, memory
<1>10. QED
    BY <1>1, <1>2, <1>3, <1>4, <1>5, <1>6, <1>7, <1>8, <1>9 DEF LiveEnding

\* The jobs of this run of the server: a clean-up makes one when it ends, and
\* handleBrokenLives one.
JobKeys ==
    /\ Keys
    /\ \A j \in jobs : /\ j.boot <= restarts
                       /\ ~j.broken => pc[j.session] \in {"save", "over"}
                       /\ j.broken /\ j.boot = restarts => broken # "finish"

\* What shows that a session has started.
HasStarted ==
    /\ state = "published" \/ broken = "finish" => Latest # None
    /\ \A s \in Session :
          ready[s] # "no" \/ pc[s] \in {"user", "generate", "directories",
                                        "running", "finish"} => Latest # None

\* A step of a job keeps the keys of the jobs.
LEMMA LiveEndingKeys ==
    ASSUME OthersTyped, JobKeys, NEW j \in jobs, LiveEnding(j)
    PROVE  JobKeys'
<1>1. PICK stage \in {"wait", "replay", "remove", "replace", "assign", "wipe",
                      "clean", "done"} : Becomes(j, stage)
    BY LiveEndingBecomes
<1>2. UNCHANGED <<pc, restarts, broken>>
    BY LiveEndingBecomes DEF memory
<1> DEFINE new == [j EXCEPT !.stage = stage]
<1>3. /\ \A k \in jobs' : k \in jobs \ {j} \/ k = new
      /\ new.session = j.session /\ new.boot = j.boot /\ new.broken = j.broken
    BY <1>1 DEF Becomes, OthersTyped, Job
<1> HIDE DEF new
<1>4. Keys'
    BY <1>3 DEF JobKeys, Keys
<1>5. QED
    BY <1>2, <1>3, <1>4 DEF JobKeys

\* The keys depend on the jobs, the restarts and the places their sessions
\* stay at.
LEMMA JobKeysKept ==
    ASSUME OthersTyped, JobKeys, UNCHANGED <<jobs, restarts>>,
           broken' = "finish" => broken = "finish",
           \A s \in Session : pc[s] \in {"save", "over"} => pc'[s] \in {"save", "over"}
    PROVE  JobKeys'
BY DEF OthersTyped, JobKeys, Keys, Job

\* No step gives a session a second job of the same kind in one run of the
\* server: its clean-up runs once, and so does that of broken lives.
LEMMA JobKeysNext ==
    ASSUME StreamTyped, OthersTyped, HasStarted, JobKeys, [Next]_vars
    PROVE  JobKeys'
<1>1. ASSUME NEW s \in Session, PostPublish(s) PROVE JobKeys'
    BY <1>1 DEF PostPublish, Goto, disk, bounds, OthersTyped, JobKeys, Keys
<1>2. ASSUME NEW s \in Session, Unpublish(s) PROVE JobKeys'
    BY <1>2 DEF Unpublish, memory, disk, bounds, OthersTyped, JobKeys, Keys
<1>3. ASSUME NEW s \in Session, AbortTimer(s) PROVE JobKeys'
    BY <1>3 DEF AbortTimer, memory, disk, bounds, OthersTyped, JobKeys, Keys
<1>4. ASSUME NEW s \in Session, LoadLive(s) PROVE JobKeys'
    <2>1. pc' = [pc EXCEPT ![s] = "playlist"] \/ pc' = [pc EXCEPT ![s] = "over"]
        BY <1>4 DEF LoadLive, Goto
    <2>2. pc[s] = "load" /\ UNCHANGED <<jobs, restarts, broken>>
        BY <1>4 DEF LoadLive, disk, bounds
    <2>3. QED
        BY <2>1, <2>2, JobKeysKept DEF OthersTyped
<1>5. ASSUME NEW s \in Session, LoadPlaylist(s) PROVE JobKeys'
    BY <1>5 DEF LoadPlaylist, Goto, disk, bounds, OthersTyped, JobKeys, Keys
<1>6. ASSUME NEW s \in Session, CleanOldLive(s) PROVE JobKeys'
    BY <1>6 DEF CleanOldLive, Goto, bounds, OthersTyped, JobKeys, Keys
<1>7. ASSUME NEW s \in Session, HandlerFails(s) PROVE JobKeys'
    BY <1>7 DEF HandlerFails, Goto, Fails, disk, OthersTyped, JobKeys, Keys
<1>8. ASSUME NEW s \in Session, StartSession(s) PROVE JobKeys'
    BY <1>8 DEF StartSession, Goto, bounds, OthersTyped, JobKeys, Keys
<1>9. ASSUME NEW s \in Session, LoadUser(s) PROVE JobKeys'
    BY <1>9 DEF LoadUser, Goto, disk, bounds, OthersTyped, JobKeys, Keys
<1>10. ASSUME NEW s \in Session, CreateLivePlaylist(s) PROVE JobKeys'
    BY <1>10
    DEF CreateLivePlaylist, Goto, stream, bounds, OthersTyped, JobKeys, Keys
<1>11. ASSUME NEW s \in Session, PrepareDirectories(s) PROVE JobKeys'
    BY <1>11 DEF PrepareDirectories, Goto, bounds, OthersTyped, JobKeys, Keys
<1>12. ASSUME NEW s \in Session, MuxingFails(s) PROVE JobKeys'
    BY <1>12 DEF MuxingFails, Goto, Fails, disk, OthersTyped, JobKeys, Keys
<1>13. ASSUME NEW s \in Session, ProcessSegment(s) PROVE JobKeys'
    BY <1>13 DEF ProcessSegment, stream, bounds, OthersTyped, JobKeys, Keys
<1>14. ASSUME NEW s \in Session, PublishLive(s) PROVE JobKeys'
    BY <1>14 DEF PublishLive, stream, bounds, OthersTyped, JobKeys, Keys
<1>15. ASSUME NEW s \in Session, LimitExceeded(s) PROVE JobKeys'
    BY <1>15 DEF LimitExceeded, Fails, memory, disk, OthersTyped, JobKeys, Keys
<1>16. ASSUME NEW s \in Session, RunnerJobOver(s) PROVE JobKeys'
    BY <1>16 DEF RunnerJobOver, memory, bounds, OthersTyped, JobKeys, Keys
<1>17. ASSUME NEW s \in Session, FFmpegEnds(s) PROVE JobKeys'
    BY <1>17 DEF FFmpegEnds, memory, disk, bounds, OthersTyped, JobKeys, Keys
<1>18. ASSUME NEW s \in Session, FFmpegErrors(s) PROVE JobKeys'
    BY <1>18 DEF FFmpegErrors, Fails, memory, disk, OthersTyped, JobKeys, Keys
<1>19. ASSUME NEW s \in Session, AfterCleanup(s) PROVE JobKeys'
    BY <1>19 DEF AfterCleanup, Goto, disk, bounds, OthersTyped, JobKeys, Keys
<1>20. ASSUME NEW s \in Session, Finish(s) PROVE JobKeys'
    <2>1. ~live => JobKeys'
        <3>1. ~live => pc' = [pc EXCEPT ![s] = "over"] /\ UNCHANGED <<jobs, restarts, broken>>
            BY <1>20 DEF Finish, Goto, bounds
        <3>2. QED
            BY <3>1, JobKeysKept DEF OthersTyped
    <2>2. CASE live
        <3> DEFINE new == EndingJob(s, FALSE)
        <3>1. /\ jobs' = jobs \cup {new}
              /\ pc' = [pc EXCEPT ![s] = "save"] /\ pc[s] = "finish"
              /\ UNCHANGED <<broken, restarts>>
            BY <1>20, <2>2 DEF Finish, EndSession, Goto, bounds
        <3>2. new.session = s /\ new.boot = restarts /\ new.broken = FALSE
            BY DEF EndingJob
        <3>3. \A k \in jobs : k.session # s \/ k.broken
            BY <3>1 DEF JobKeys
        <3> HIDE DEF new
        <3>4. QED
            BY <3>1, <3>2, <3>3 DEF JobKeys, Keys, OthersTyped
    <2>3. QED
        BY <2>1, <2>2
<1>21. ASSUME NEW s \in Session, SaveState(s) PROVE JobKeys'
    BY <1>21 DEF SaveState, Goto, stream, bounds, OthersTyped, JobKeys, Keys
<1>22. ASSUME NEW j \in jobs, ProcessLiveEnding(j) PROVE JobKeys'
    BY <1>22, LiveEndingKeys DEF LiveEnding
<1>23. ASSUME NEW j \in jobs, SaveReplayToExternalVideo(j) PROVE JobKeys'
    BY <1>23, LiveEndingKeys DEF LiveEnding
<1>24. ASSUME NEW j \in jobs, RemoveReplay(j) PROVE JobKeys'
    BY <1>24, LiveEndingKeys DEF LiveEnding
<1>25. ASSUME NEW j \in jobs, ReplaceLiveByReplay(j) PROVE JobKeys'
    BY <1>25, LiveEndingKeys DEF LiveEnding
<1>26. ASSUME NEW j \in jobs, AssignToLive(j) PROVE JobKeys'
    BY <1>26, LiveEndingKeys DEF LiveEnding
<1>27. ASSUME NEW j \in jobs, RemoveBaseDirectory(j) PROVE JobKeys'
    BY <1>27, LiveEndingKeys DEF LiveEnding
<1>28. ASSUME NEW j \in jobs, CleanupLive(j) PROVE JobKeys'
    BY <1>28, LiveEndingKeys DEF LiveEnding
<1>29. ASSUME Blacklist PROVE JobKeys'
    BY <1>29 DEF Blacklist, Fails, memory, OthersTyped, JobKeys, Keys
<1>30. ASSUME Restart PROVE JobKeys'
    <2>1. /\ jobs' = { Stalled(j) : j \in jobs } /\ restarts' = restarts + 1
          /\ pc' = [s \in Session |-> IF pc[s] = "idle" THEN "idle" ELSE "over"]
        BY <1>30 DEF Restart
    <2>2. ASSUME NEW j \in Job
          PROVE  /\ Stalled(j).session = j.session /\ Stalled(j).boot = j.boot
                 /\ Stalled(j).broken = j.broken /\ j.boot \in Nat
                 /\ j.session \in Session
        BY BoundAssumption DEF Stalled, Job
    <2>3. ASSUME NEW k \in jobs'
          PROVE  \E i \in jobs : /\ i.session = k.session /\ i.boot = k.boot
                                 /\ i.broken = k.broken /\ k = Stalled(i)
                                 /\ i.boot \in Nat /\ i.session \in Session
        BY ZenonT(30), <2>1, <2>2 DEF OthersTyped
    <2>4. Keys'
        BY <2>3 DEF JobKeys, Keys
    <2>5. ASSUME NEW k \in jobs'
          PROVE  /\ k.boot <= restarts' /\ k.boot # restarts'
                 /\ ~k.broken => pc'[k.session] \in {"save", "over"}
        <3>1. PICK i \in jobs : /\ i.session = k.session /\ i.boot = k.boot
                                 /\ i.broken = k.broken
                                 /\ i.boot \in Nat /\ i.session \in Session
            BY <2>3
        <3>2. i.boot <= restarts /\ (~i.broken => pc[i.session] \in {"save", "over"})
            BY DEF JobKeys
        <3>3. QED
            BY <2>1, <3>1, <3>2 DEF OthersTyped
    <2>6. QED
        BY <2>4, <2>5 DEF JobKeys
<1>31. ASSUME EndBrokenLive PROVE JobKeys'
    <2>1. JobKeys /\ ~live => JobKeys'
        BY <1>31 DEF EndBrokenLive, bounds, JobKeys, Keys, OthersTyped
    <2>2. CASE live
        <3> DEFINE new == EndingJob(Latest, TRUE)
        <3>1. /\ jobs' = jobs \cup {new} /\ broken = "finish" /\ broken' = "save"
              /\ UNCHANGED <<pc, restarts>>
            BY <1>31, <2>2 DEF EndBrokenLive, EndSession, bounds
        <3>2. new.session = Latest /\ new.boot = restarts /\ new.broken = TRUE
            BY DEF EndingJob
        <3>3. \A k \in jobs : k.boot # restarts \/ ~k.broken
            BY <3>1 DEF JobKeys
        <3> HIDE DEF new
        <3>4. QED
            BY <3>1, <3>2, <3>3 DEF JobKeys, Keys, OthersTyped
    <2>3. QED
        BY <2>1, <2>2
<1>32. ASSUME SaveBrokenState PROVE JobKeys'
    BY <1>32 DEF SaveBrokenState, stream, bounds, OthersTyped, JobKeys, Keys
<1>33. ASSUME UNCHANGED vars PROVE JobKeys'
    BY <1>33 DEF vars, stream, memory, disk, bounds, OthersTyped, JobKeys, Keys
<1>34. ASSUME NEW s \in Session, CleanupFails(s) PROVE JobKeys'
    <2>1. PICK next \in {"save", "over"} : pc' = [pc EXCEPT ![s] = next]
        BY <1>34, CleanupFailsEffect
    <2>2. \A t \in Session : pc[t] \in {"save", "over"} => pc'[t] \in {"save", "over"}
        BY <2>1 DEF OthersTyped
    <2>3. UNCHANGED <<jobs, restarts, broken>>
        BY <1>34, CleanupFailsEffect DEF disk
    <2>4. QED
        BY <2>2, <2>3, JobKeysKept
<1>35. ASSUME BrokenLiveFails PROVE JobKeys'
    <2>1. UNCHANGED <<jobs, restarts, pc>> /\ broken' # "finish"
        BY <1>35, BrokenLiveFailsEffect DEF disk, HasStarted
    <2>2. QED
        BY <2>1, JobKeysKept
<1>36. ASSUME NEW j \in jobs, GenerateFails(j) PROVE JobKeys'
    BY <1>36, LiveEndingKeys DEF LiveEnding
<1>37. ASSUME NEW j \in jobs, EndingFails(j) PROVE JobKeys'
    BY <1>37, LiveEndingKeys DEF LiveEnding
<1>38. QED
    BY <1>1, <1>2, <1>3, <1>4, <1>5, <1>6, <1>7, <1>8, <1>9, <1>10, <1>11,
        <1>12, <1>13, <1>14, <1>15, <1>16, <1>17, <1>18, <1>19, <1>20, <1>21,
        <1>22, <1>23, <1>24, <1>25, <1>26, <1>27, <1>28, <1>29, <1>30, <1>31,
        <1>32, <1>33, <1>34, <1>35, <1>36, <1>37
    DEF Next, HandleSession, RunMuxing, Stream, EndOfSession, LiveEnding,
        HandleBrokenLives

\* A live that was published has a session, so handleBrokenLives finds one.
LEMMA HasStartedNext ==
    ASSUME StreamTyped, OthersTyped, HasStarted, [Next]_vars
    PROVE  HasStarted'
<1>1. ASSUME NEW s \in Session, PostPublish(s) PROVE HasStarted'
    BY <1>1
    DEF PostPublish, Goto, disk, bounds, OthersTyped, HasStarted, Latest,
        LatestOf
<1>2. ASSUME NEW s \in Session, Unpublish(s) PROVE HasStarted'
    BY <1>2
    DEF Unpublish, memory, disk, bounds, OthersTyped, HasStarted, Latest,
        LatestOf
<1>3. ASSUME NEW s \in Session, AbortTimer(s) PROVE HasStarted'
    BY SMTT(30), <1>3
    DEF AbortTimer, memory, disk, bounds, OthersTyped, HasStarted, Latest,
        LatestOf
<1>4. ASSUME NEW s \in Session, LoadLive(s) PROVE HasStarted'
    <2>1. pc' = [pc EXCEPT ![s] = "playlist"] \/ pc' = [pc EXCEPT ![s] = "over"]
        BY <1>4 DEF LoadLive, Goto
    <2>2. UNCHANGED <<state, ready, broken, started>>
        BY <1>4 DEF LoadLive, disk
    <2>3. Latest' = Latest
        BY <2>2 DEF Latest, LatestOf
    <2>4. QED
        BY <2>1, <2>2, <2>3 DEF OthersTyped, HasStarted
<1>5. ASSUME NEW s \in Session, LoadPlaylist(s) PROVE HasStarted'
    BY <1>5
    DEF LoadPlaylist, Goto, disk, bounds, OthersTyped, HasStarted, Latest,
        LatestOf
<1>6. ASSUME NEW s \in Session, CleanOldLive(s) PROVE HasStarted'
    BY <1>6
    DEF CleanOldLive, Goto, bounds, OthersTyped, HasStarted, Latest, LatestOf
<1>7. ASSUME NEW s \in Session, HandlerFails(s) PROVE HasStarted'
    <2>1. /\ pc' = [pc EXCEPT ![s] = "over"]
          /\ UNCHANGED <<state, broken, ready, started>>
        BY <1>7 DEF HandlerFails, Goto, disk
    <2>2. QED
        BY <2>1 DEF HasStarted, OthersTyped, Latest, LatestOf
<1>8. ASSUME NEW s \in Session, StartSession(s) PROVE HasStarted'
    <2>1. Latest' = s
        BY <1>8, LatestStarts DEF StartSession, OthersTyped
    <2>2. QED
        BY <2>1, NoneAssumption DEF HasStarted
<1>9. ASSUME NEW s \in Session, LoadUser(s) PROVE HasStarted'
    BY SMTT(30), <1>9
    DEF LoadUser, Goto, disk, bounds, OthersTyped, HasStarted, Latest, LatestOf
<1>10. ASSUME NEW s \in Session, CreateLivePlaylist(s) PROVE HasStarted'
    BY <1>10
    DEF CreateLivePlaylist, Goto, stream, bounds, OthersTyped, HasStarted,
        Latest, LatestOf
<1>11. ASSUME NEW s \in Session, PrepareDirectories(s) PROVE HasStarted'
    <2>1. /\ pc' = [pc EXCEPT ![s] = "running"] /\ pc[s] = "directories"
          /\ UNCHANGED <<state, broken, ready, started>>
        BY <1>11 DEF PrepareDirectories, Goto
    <2>2. QED
        BY <2>1 DEF HasStarted, OthersTyped, Latest, LatestOf
<1>12. ASSUME NEW s \in Session, MuxingFails(s) PROVE HasStarted'
    BY ZenonT(30), <1>12
    DEF MuxingFails, Goto, Fails, disk, OthersTyped, HasStarted, Latest,
        LatestOf
<1>13. ASSUME NEW s \in Session, ProcessSegment(s) PROVE HasStarted'
    BY ZenonT(30), <1>13
    DEF ProcessSegment, stream, bounds, OthersTyped, HasStarted, Latest,
        LatestOf
<1>14. ASSUME NEW s \in Session, PublishLive(s) PROVE HasStarted'
    BY ZenonT(30), <1>14
    DEF PublishLive, stream, bounds, OthersTyped, HasStarted, Latest, LatestOf
<1>15. ASSUME NEW s \in Session, LimitExceeded(s) PROVE HasStarted'
    BY SMTT(30), <1>15
    DEF LimitExceeded, Fails, memory, disk, OthersTyped, HasStarted, Latest,
        LatestOf
<1>16. ASSUME NEW s \in Session, RunnerJobOver(s) PROVE HasStarted'
    BY SMTT(30), <1>16
    DEF RunnerJobOver, memory, bounds, OthersTyped, HasStarted, Latest,
        LatestOf
<1>17. ASSUME NEW s \in Session, FFmpegEnds(s) PROVE HasStarted'
    BY ZenonT(30), <1>17
    DEF FFmpegEnds, memory, disk, bounds, OthersTyped, HasStarted, Latest,
        LatestOf
<1>18. ASSUME NEW s \in Session, FFmpegErrors(s) PROVE HasStarted'
    <2>1. UNCHANGED <<pc, state, broken, ready, started>>
        BY <1>18 DEF FFmpegErrors, memory, disk
    <2>2. QED
        BY <2>1 DEF HasStarted, OthersTyped, Latest, LatestOf
<1>19. ASSUME NEW s \in Session, AfterCleanup(s) PROVE HasStarted'
    BY ZenonT(30), <1>19
    DEF AfterCleanup, Goto, disk, bounds, OthersTyped, HasStarted, Latest,
        LatestOf
<1>20. ASSUME NEW s \in Session, Finish(s) PROVE HasStarted'
    <2>1. /\ pc' = [pc EXCEPT ![s] = "save"] \/ pc' = [pc EXCEPT ![s] = "over"]
          /\ UNCHANGED <<state, broken, ready, started>>
        BY <1>20 DEF Finish, Goto
    <2>2. QED
        BY <2>1 DEF HasStarted, OthersTyped, Latest, LatestOf
<1>21. ASSUME NEW s \in Session, SaveState(s) PROVE HasStarted'
    BY ZenonT(30), <1>21
    DEF SaveState, Goto, stream, bounds, OthersTyped, HasStarted, Latest,
        LatestOf, StateAfterLive
<1>22. ASSUME NEW j \in jobs, ProcessLiveEnding(j) PROVE HasStarted'
    <2>1. UNCHANGED <<pc, ready, broken, started>>
        BY <1>22, LiveEndingBecomes DEF LiveEnding, memory
    <2>2. state' # "published" \/ state' = state
        BY <1>22 DEF ProcessLiveEnding, bounds
    <2>3. QED
        BY <2>1, <2>2 DEF HasStarted, Latest, LatestOf
<1>23. ASSUME NEW j \in jobs, SaveReplayToExternalVideo(j) PROVE HasStarted'
    <2>1. UNCHANGED <<pc, ready, broken, started>>
        BY <1>23, LiveEndingBecomes DEF LiveEnding, memory
    <2>2. state' # "published" \/ state' = state
        BY <1>23 DEF SaveReplayToExternalVideo, AssignReplay
    <2>3. QED
        BY <2>1, <2>2 DEF HasStarted, Latest, LatestOf
<1>24. ASSUME NEW j \in jobs, RemoveReplay(j) PROVE HasStarted'
    <2>1. UNCHANGED <<pc, ready, broken, started>>
        BY <1>24, LiveEndingBecomes DEF LiveEnding, memory
    <2>2. state' # "published" \/ state' = state
        BY <1>24 DEF RemoveReplay, bounds
    <2>3. QED
        BY <2>1, <2>2 DEF HasStarted, Latest, LatestOf
<1>25. ASSUME NEW j \in jobs, ReplaceLiveByReplay(j) PROVE HasStarted'
    <2>1. UNCHANGED <<pc, ready, broken, started>>
        BY <1>25, LiveEndingBecomes DEF LiveEnding, memory
    <2>2. state' # "published" \/ state' = state
        BY <1>25 DEF ReplaceLiveByReplay, bounds
    <2>3. QED
        BY <2>1, <2>2 DEF HasStarted, Latest, LatestOf
<1>26. ASSUME NEW j \in jobs, AssignToLive(j) PROVE HasStarted'
    <2>1. UNCHANGED <<pc, ready, broken, started>>
        BY <1>26, LiveEndingBecomes DEF LiveEnding, memory
    <2>2. state' # "published" \/ state' = state
        BY <1>26 DEF AssignToLive, AssignReplay
    <2>3. QED
        BY <2>1, <2>2 DEF HasStarted, Latest, LatestOf
<1>27. ASSUME NEW j \in jobs, RemoveBaseDirectory(j) PROVE HasStarted'
    <2>1. UNCHANGED <<pc, ready, broken, started>>
        BY <1>27, LiveEndingBecomes DEF LiveEnding, memory
    <2>2. state' # "published" \/ state' = state
        BY <1>27 DEF RemoveBaseDirectory, bounds
    <2>3. QED
        BY <2>1, <2>2 DEF HasStarted, Latest, LatestOf
<1>28. ASSUME NEW j \in jobs, CleanupLive(j) PROVE HasStarted'
    <2>1. UNCHANGED <<pc, ready, broken, started>>
        BY <1>28, LiveEndingBecomes DEF LiveEnding, memory
    <2>2. state' # "published" \/ state' = state
        BY <1>28 DEF CleanupLive, bounds
    <2>3. QED
        BY <2>1, <2>2 DEF HasStarted, Latest, LatestOf
<1>29. ASSUME Blacklist PROVE HasStarted'
    BY ZenonT(30), <1>29
    DEF Blacklist, Fails, memory, OthersTyped, HasStarted, Latest, LatestOf
<1>30. ASSUME Restart PROVE HasStarted'
    BY <1>30 DEF Restart, OthersTyped, HasStarted, Latest, LatestOf
<1>31. ASSUME EndBrokenLive PROVE HasStarted'
    BY SMTT(30), <1>31
    DEF EndBrokenLive, bounds, OthersTyped, HasStarted, Latest, LatestOf
<1>32. ASSUME SaveBrokenState PROVE HasStarted'
    BY ZenonT(30), <1>32
    DEF SaveBrokenState, stream, bounds, OthersTyped, HasStarted, Latest,
        LatestOf, StateAfterLive
<1>33. ASSUME UNCHANGED vars PROVE HasStarted'
    BY SMTT(30), <1>33
    DEF vars, stream, memory, disk, bounds, OthersTyped, HasStarted, Latest,
        LatestOf
<1>34. ASSUME NEW s \in Session, CleanupFails(s) PROVE HasStarted'
    <2>1. PICK next \in {"save", "over"} : pc' = [pc EXCEPT ![s] = next]
        BY <1>34, CleanupFailsEffect
    <2>2. UNCHANGED <<ready, broken, started, state>>
        BY <1>34, CleanupFailsEffect DEF disk
    <2>3. QED
        BY <2>1, <2>2 DEF HasStarted, OthersTyped, Latest, LatestOf
<1>35. ASSUME BrokenLiveFails PROVE HasStarted'
    <2>1. UNCHANGED <<ready, pc, started, state>> /\ broken' # "finish"
        BY <1>35, BrokenLiveFailsEffect DEF disk, HasStarted
    <2>2. QED
        BY <2>1 DEF HasStarted, Latest, LatestOf
<1>36. ASSUME NEW j \in jobs, GenerateFails(j) PROVE HasStarted'
    <2>1. UNCHANGED <<pc, ready, broken, started>>
        BY <1>36, LiveEndingBecomes DEF LiveEnding, memory
    <2>2. state' = state
        BY <1>36 DEF GenerateFails
    <2>3. QED
        BY <2>1, <2>2 DEF HasStarted, Latest, LatestOf
<1>37. ASSUME NEW j \in jobs, EndingFails(j) PROVE HasStarted'
    <2>1. UNCHANGED <<pc, ready, broken, started>>
        BY <1>37, LiveEndingBecomes DEF LiveEnding, memory
    <2>2. state' = state
        BY <1>37 DEF EndingFails
    <2>3. QED
        BY <2>1, <2>2 DEF HasStarted, Latest, LatestOf
<1>38. QED
    BY <1>1, <1>2, <1>3, <1>4, <1>5, <1>6, <1>7, <1>8, <1>9, <1>10, <1>11,
        <1>12, <1>13, <1>14, <1>15, <1>16, <1>17, <1>18, <1>19, <1>20, <1>21,
        <1>22, <1>23, <1>24, <1>25, <1>26, <1>27, <1>28, <1>29, <1>30, <1>31,
        <1>32, <1>33, <1>34, <1>35, <1>36, <1>37
    DEF Next, HandleSession, RunMuxing, Stream, EndOfSession, LiveEnding,
        HandleBrokenLives

-----------------------------------------------------------------------------
(* History.                                                                *)

\* Aborting a session takes a running wrapper to aborted and changes no
\* other.
LEMMA AbortWrapper ==
    ASSUME NEW s \in Session, NEW registered, NEW ended, NEW sessions,
           NEW trans \in [Session -> Wrapper],
           AbortSession(s, registered, ended, sessions, trans)
    PROVE  \A t \in Session : \/ wrapper'[t] = trans[t]
                              \/ trans[t] = "running" /\ wrapper'[t] = "aborted"
BY DEF AbortSession, CanAbort

\* So does stopping the session of the video.
LEMMA StopWrapper ==
    ASSUME current \in Session \cup {None}, NEW onReplay, NEW sessions,
           NEW trans \in [Session -> Wrapper],
           StopSession(onReplay, sessions, trans)
    PROVE  \A t \in Session : \/ wrapper'[t] = trans[t]
                              \/ trans[t] = "running" /\ wrapper'[t] = "aborted"
<1>1. CASE current = None
    BY <1>1 DEF StopSession
<1>2. CASE current # None
    BY <1>2, AbortWrapper DEF StopSession
<1>3. QED
    BY <1>1, <1>2

\* A step of a job keeps the session, the playlist and the directory of every
\* job.
LEMMA LiveEndingFields ==
    ASSUME OthersTyped, NEW j \in jobs, LiveEnding(j), NEW k \in jobs'
    PROVE  \E i \in jobs : /\ i.session = k.session /\ i.boot = k.boot
                           /\ i.broken = k.broken
                           /\ i.playlist = k.playlist /\ i.dir = k.dir
                           /\ i.stage = k.stage \/ i = j
<1>1. PICK stage \in {"wait", "replay", "remove", "replace", "assign", "wipe",
                      "clean", "done"} : Becomes(j, stage)
    BY LiveEndingBecomes
<1> DEFINE new == [j EXCEPT !.stage = stage]
<1>2. /\ k \in jobs \ {j} \/ k = new
      /\ new.session = j.session /\ new.boot = j.boot /\ new.broken = j.broken
      /\ new.playlist = j.playlist /\ new.dir = j.dir
    BY <1>1 DEF Becomes, OthersTyped, Job
<1>3. QED
    BY <1>2

\* Every step keeps History.
LEMMA HistoryNext ==
    ASSUME StreamTyped, OthersTyped, HasStarted, History, AllStaged, [Next]_vars
    PROVE  History'
<1>1. ASSUME NEW s \in Session, PostPublish(s) PROVE History'
    BY <1>1
    DEF PostPublish, Goto, disk, bounds, OthersTyped, StreamTyped, History,
        Fresh, Early
<1>2. ASSUME NEW s \in Session, Unpublish(s) PROVE History'
    BY <1>2
    DEF Unpublish, memory, disk, bounds, OthersTyped, StreamTyped, History,
        Fresh, Early, BeforeMuxing
<1>3. ASSUME NEW s \in Session, AbortTimer(s) PROVE History'
    <2>1. wrapper \in [Session -> Wrapper]
        BY DEF StreamTyped
    <2>2. \A t \in Session : \/ wrapper'[t] = wrapper[t]
                             \/ wrapper[t] = "running" /\ wrapper'[t] # "running"
        BY <1>3, <2>1, AbortWrapper DEF AbortTimer
    <2>3. /\ UNCHANGED <<dirs, replays, jobs, playlist, settings, live>>
          /\ pc' = pc
        BY <1>3 DEF AbortTimer, memory, disk, bounds
    <2>4. QED
        BY <2>2, <2>3 DEF OthersTyped, StreamTyped, History, Fresh, Early
<1>4. ASSUME NEW s \in Session, LoadLive(s) PROVE History'
    <2>1. wrapper \in [Session -> Wrapper]
        BY DEF StreamTyped
    <2>2. \A t \in Session : \/ wrapper'[t] = wrapper[t]
                             \/ wrapper[t] = "running" /\ wrapper'[t] # "running"
        BY <1>4, <2>1, AbortWrapper DEF LoadLive
    <2>3. /\ UNCHANGED <<dirs, replays, jobs, playlist, settings, live>>
          /\ pc[s] = "load" /\ (\E to \in {"playlist", "over"} : pc' = [pc EXCEPT ![s] = to])
        BY <1>4 DEF LoadLive, disk, bounds, Goto
    <2>4. QED
        BY <2>2, <2>3 DEF OthersTyped, StreamTyped, History, Fresh, Early
<1>5. ASSUME NEW s \in Session, LoadPlaylist(s) PROVE History'
    BY <1>5
    DEF LoadPlaylist, Goto, disk, bounds, OthersTyped, StreamTyped, History,
        Fresh, Early
<1>6. ASSUME NEW s \in Session, CleanOldLive(s) PROVE History'
    <2>1. /\ pc' = [pc EXCEPT ![s] = "probe"] /\ pc[s] = "clean"
          /\ playlist' \in {playlist, None}
          /\ UNCHANGED <<dirs, replays, jobs, settings, live, wrapper>>
        BY <1>6 DEF CleanOldLive, Goto, bounds
    <2>2. QED
        BY <2>1, NoneAssumption
        DEF OthersTyped, StreamTyped, History, Fresh, Early
<1>7. ASSUME NEW s \in Session, HandlerFails(s) PROVE History'
    BY <1>7
    DEF HandlerFails, Goto, Fails, disk, OthersTyped, StreamTyped, History,
        Fresh, Early, BeforeMuxing
<1>8. ASSUME NEW s \in Session, StartSession(s) PROVE History'
    BY <1>8
    DEF StartSession, Goto, bounds, OthersTyped, StreamTyped, History, Fresh,
        Early
<1>9. ASSUME NEW s \in Session, LoadUser(s) PROVE History'
    BY <1>9
    DEF LoadUser, Goto, disk, bounds, OthersTyped, StreamTyped, History,
        Fresh, Early
<1>10. ASSUME NEW s \in Session, CreateLivePlaylist(s) PROVE History'
    BY <1>10
    DEF CreateLivePlaylist, Goto, stream, bounds, OthersTyped, StreamTyped,
        History, Fresh, Early
<1>11. ASSUME NEW s \in Session, PrepareDirectories(s) PROVE History'
    BY <1>11
    DEF PrepareDirectories, Goto, bounds, OthersTyped, StreamTyped, History,
        Fresh, Early
<1>12. ASSUME NEW s \in Session, MuxingFails(s) PROVE History'
    <2>1. wrapper \in [Session -> Wrapper] /\ current \in Session \cup {None}
        BY DEF StreamTyped, Wrapper
    <2>2. \A t \in Session : \/ wrapper'[t] = wrapper[t]
                             \/ wrapper[t] = "running" /\ wrapper'[t] # "running"
        <3>1. StopSession(TRUE, muxing \ {s}, wrapper)
            BY <1>12 DEF MuxingFails
        <3>2. QED
            BY <2>1, <3>1, StopWrapper
    <2>3. /\ pc' = [pc EXCEPT ![s] = "over"] /\ pc[s] \notin {"running"}
          /\ UNCHANGED <<dirs, replays, jobs, playlist, settings, live>>
        BY <1>12 DEF MuxingFails, disk, Goto
    <2>4. QED
        BY <1>12, <2>2, <2>3
        DEF OthersTyped, StreamTyped, History, Fresh, Early
<1>13. ASSUME NEW s \in Session, ProcessSegment(s) PROVE History'
    BY <1>13
    DEF ProcessSegment, stream, bounds, OthersTyped, StreamTyped, History,
        Fresh, Early
<1>14. ASSUME NEW s \in Session, PublishLive(s) PROVE History'
    BY <1>14
    DEF PublishLive, stream, bounds, OthersTyped, StreamTyped, History, Fresh,
        Early
<1>15. ASSUME NEW s \in Session, LimitExceeded(s) PROVE History'
    <2>1. wrapper \in [Session -> Wrapper] /\ current \in Session \cup {None}
        BY DEF StreamTyped, Wrapper
    <2>2. \A t \in Session : \/ wrapper'[t] = wrapper[t]
                             \/ wrapper[t] = "running" /\ wrapper'[t] # "running"
        <3>1. StopSession(FALSE, muxing, wrapper)
            BY <1>15 DEF LimitExceeded
        <3>2. QED
            BY <2>1, <3>1, StopWrapper
    <2>3. /\ pc' = pc
          /\ UNCHANGED <<dirs, replays, jobs, playlist, settings, live>>
        BY <1>15 DEF LimitExceeded, memory, disk
    <2>4. QED
        BY <1>15, <2>2, <2>3
        DEF OthersTyped, StreamTyped, History, Fresh, Early
<1>16. ASSUME NEW s \in Session, RunnerJobOver(s) PROVE History'
    <2>1. wrapper \in [Session -> Wrapper] /\ current \in Session \cup {None}
        BY DEF StreamTyped, Wrapper
    <2>2. \A t \in Session : \/ wrapper'[t] = wrapper[t]
                             \/ wrapper[t] = "running" /\ wrapper'[t] # "running"
        <3>1. StopSession(FALSE, muxing, wrapper)
            BY <1>16 DEF RunnerJobOver
        <3>2. QED
            BY <2>1, <3>1, StopWrapper
    <2>3. /\ pc' = pc
          /\ UNCHANGED <<dirs, replays, jobs, playlist, settings, live>>
        BY <1>16 DEF RunnerJobOver, memory, bounds
    <2>4. QED
        BY <1>16, <2>2, <2>3
        DEF OthersTyped, StreamTyped, History, Fresh, Early
<1>17. ASSUME NEW s \in Session, FFmpegEnds(s) PROVE History'
    BY <1>17
    DEF FFmpegEnds, memory, disk, bounds, OthersTyped, StreamTyped, History,
        Fresh, Early
<1>18. ASSUME NEW s \in Session, FFmpegErrors(s) PROVE History'
    <2>1. [wrapper EXCEPT ![s] = "errored"] \in [Session -> Wrapper] /\ current \in Session \cup {None}
        BY DEF StreamTyped, Wrapper
    <2>2. \A t \in Session : \/ wrapper'[t] = wrapper[t]
                             \/ wrapper[t] = "running" /\ wrapper'[t] # "running"
        <3> DEFINE trans == [wrapper EXCEPT ![s] = "errored"]
        <3>1. StopSession(FALSE, muxing, trans) /\ wrapper[s] = "running"
            BY <1>18 DEF FFmpegErrors
        <3>2. \A t \in Session : trans[t] = wrapper[t] \/ (t = s /\ trans[t] = "errored")
            BY DEF StreamTyped
        <3>3. trans \in [Session -> Wrapper]
            BY <2>1
        <3> HIDE DEF trans
        <3>4. \A t \in Session : \/ wrapper'[t] = trans[t]
                                 \/ trans[t] = "running" /\ wrapper'[t] = "aborted"
            BY <2>1, <3>1, <3>3, StopWrapper
        <3>5. QED
            BY <3>1, <3>2, <3>4
    <2>3. /\ pc' = pc
          /\ UNCHANGED <<dirs, replays, jobs, playlist, settings, live>>
        BY <1>18 DEF FFmpegErrors, memory, disk
    <2>4. QED
        BY <1>18, <2>2, <2>3
        DEF OthersTyped, StreamTyped, History, Fresh, Early
<1>19. ASSUME NEW s \in Session, AfterCleanup(s) PROVE History'
    BY <1>19
    DEF AfterCleanup, Goto, disk, bounds, OthersTyped, StreamTyped, History,
        Fresh, Early
<1>20. ASSUME NEW s \in Session, Finish(s) PROVE History'
    <2> DEFINE new == EndingJob(s, FALSE)
    <2>1. jobs' \subseteq jobs \cup {new}
        BY <1>20 DEF Finish, EndSession
    <2>2. new.playlist = playlist /\ new.dir = ReplayDirectory
        BY DEF EndingJob
    <2>3. ReplayDirectory # None => dirs[ReplayDirectory] # "none"
        BY ReplayDirectoryFacts
    <2>4. /\ pc[s] = "finish" /\ (\E to \in {"save", "over"} : pc' = [pc EXCEPT ![s] = to])
          /\ UNCHANGED <<dirs, replays, playlist, settings, live, wrapper>>
        BY <1>20 DEF Finish, Goto, bounds
    <2> HIDE DEF new
    <2>5. QED
        BY <2>1, <2>2, <2>3, <2>4, NoneAssumption
        DEF OthersTyped, StreamTyped, History, Fresh, Early
<1>21. ASSUME NEW s \in Session, SaveState(s) PROVE History'
    BY <1>21
    DEF SaveState, Goto, stream, bounds, OthersTyped, StreamTyped, History,
        Fresh, Early
<1>22. ASSUME NEW j \in jobs, ProcessLiveEnding(j) PROVE History'
    <2>1. \A k \in jobs' : \E i \in jobs : i.playlist = k.playlist /\ i.dir = k.dir
        BY <1>22, LiveEndingFields DEF LiveEnding
    <2>2. UNCHANGED <<pc, wrapper, settings>>
        BY <1>22, LiveEndingBecomes DEF LiveEnding, memory
    <2>3. j \in Job /\ Staged(j)
        BY DEF OthersTyped, AllStaged
    <2>4. QED
        BY <1>22, <2>1, <2>2, <2>3, NoneAssumption
        DEF ProcessLiveEnding, bounds, OthersTyped, StreamTyped, History,
            Fresh, Early, Staged, Job
<1>23. ASSUME NEW j \in jobs, SaveReplayToExternalVideo(j) PROVE History'
    <2>1. \A k \in jobs' : \E i \in jobs : i.playlist = k.playlist /\ i.dir = k.dir
        BY <1>23, LiveEndingFields DEF LiveEnding
    <2>2. UNCHANGED <<pc, wrapper, settings>>
        BY <1>23, LiveEndingBecomes DEF LiveEnding, memory
    <2>3. j \in Job /\ Staged(j)
        BY DEF OthersTyped, AllStaged
    <2>4. QED
        BY SMTT(30), <1>23, <2>1, <2>2, <2>3, NoneAssumption
        DEF SaveReplayToExternalVideo, AssignReplay, OthersTyped, StreamTyped,
            History, Fresh, Early, Staged, Job
<1>24. ASSUME NEW j \in jobs, RemoveReplay(j) PROVE History'
    <2>1. \A k \in jobs' : \E i \in jobs : i.playlist = k.playlist /\ i.dir = k.dir
        BY <1>24, LiveEndingFields DEF LiveEnding
    <2>2. UNCHANGED <<pc, wrapper, settings>>
        BY <1>24, LiveEndingBecomes DEF LiveEnding, memory
    <2>3. j \in Job /\ Staged(j)
        BY DEF OthersTyped, AllStaged
    <2>4. QED
        BY <1>24, <2>1, <2>2, <2>3, NoneAssumption
        DEF RemoveReplay, bounds, OthersTyped, StreamTyped, History, Fresh,
            Early, Staged, Job
<1>25. ASSUME NEW j \in jobs, ReplaceLiveByReplay(j) PROVE History'
    <2>1. \A k \in jobs' : \E i \in jobs : i.playlist = k.playlist /\ i.dir = k.dir
        BY <1>25, LiveEndingFields DEF LiveEnding
    <2>2. UNCHANGED <<pc, wrapper, settings>>
        BY <1>25, LiveEndingBecomes DEF LiveEnding, memory
    <2>3. j \in Job /\ Staged(j)
        BY DEF OthersTyped, AllStaged
    <2>4. QED
        BY <1>25, <2>1, <2>2, <2>3, NoneAssumption
        DEF ReplaceLiveByReplay, bounds, OthersTyped, StreamTyped, History,
            Fresh, Early, Staged, Job
<1>26. ASSUME NEW j \in jobs, AssignToLive(j) PROVE History'
    <2>1. \A k \in jobs' : \E i \in jobs : i.playlist = k.playlist /\ i.dir = k.dir
        BY <1>26, LiveEndingFields DEF LiveEnding
    <2>2. UNCHANGED <<pc, wrapper, settings>>
        BY <1>26, LiveEndingBecomes DEF LiveEnding, memory
    <2>3. j \in Job /\ Staged(j)
        BY DEF OthersTyped, AllStaged
    <2>4. QED
        BY <1>26, <2>1, <2>2, <2>3, NoneAssumption
        DEF AssignToLive, AssignReplay, OthersTyped, StreamTyped, History,
            Fresh, Early, Staged, Job
<1>27. ASSUME NEW j \in jobs, RemoveBaseDirectory(j) PROVE History'
    <2>1. \A k \in jobs' : \E i \in jobs : i.playlist = k.playlist /\ i.dir = k.dir
        BY <1>27, LiveEndingFields DEF LiveEnding
    <2>2. UNCHANGED <<pc, wrapper, settings>>
        BY <1>27, LiveEndingBecomes DEF LiveEnding, memory
    <2>3. j \in Job /\ Staged(j)
        BY DEF OthersTyped, AllStaged
    <2>4. QED
        BY <1>27, <2>1, <2>2, <2>3, NoneAssumption
        DEF RemoveBaseDirectory, bounds, OthersTyped, StreamTyped, History,
            Fresh, Early, Staged, Job
<1>28. ASSUME NEW j \in jobs, CleanupLive(j) PROVE History'
    <2>1. \A k \in jobs' : \E i \in jobs : i.playlist = k.playlist /\ i.dir = k.dir
        BY <1>28, LiveEndingFields DEF LiveEnding
    <2>2. UNCHANGED <<pc, wrapper, settings>>
        BY <1>28, LiveEndingBecomes DEF LiveEnding, memory
    <2>3. j \in Job /\ Staged(j)
        BY DEF OthersTyped, AllStaged
    <2>4. QED
        BY SMTT(30), <1>28, <2>1, <2>2, <2>3, NoneAssumption
        DEF CleanupLive, bounds, OthersTyped, StreamTyped, History, Fresh,
            Early, Staged, Job
<1>29. ASSUME Blacklist PROVE History'
    <2>1. wrapper \in [Session -> Wrapper] /\ current \in Session \cup {None}
        BY DEF StreamTyped, Wrapper
    <2>2. \A t \in Session : \/ wrapper'[t] = wrapper[t]
                             \/ wrapper[t] = "running" /\ wrapper'[t] # "running"
        <3>1. StopSession(FALSE, muxing, wrapper)
            BY <1>29 DEF Blacklist
        <3>2. QED
            BY <2>1, <3>1, StopWrapper
    <2>3. /\ pc' = pc
          /\ UNCHANGED <<dirs, replays, jobs, playlist, settings, live>>
        BY <1>29 DEF Blacklist, memory
    <2>4. QED
        BY <1>29, <2>2, <2>3
        DEF OthersTyped, StreamTyped, History, Fresh, Early
<1>30. ASSUME Restart PROVE History'
    <2>1. ASSUME NEW j \in Job
          PROVE  Stalled(j).playlist = j.playlist /\ Stalled(j).dir = j.dir
        BY DEF Stalled, Job
    <2>2. /\ jobs' = { Stalled(j) : j \in jobs }
          /\ pc' = [s \in Session |-> IF pc[s] = "idle" THEN "idle" ELSE "over"]
          /\ wrapper' = [s \in Session |-> "none"]
          /\ UNCHANGED <<dirs, replays, playlist, settings, live>>
        BY <1>30 DEF Restart
    <2>3. \A k \in jobs' : \E i \in jobs : i.playlist = k.playlist /\ i.dir = k.dir
        BY ZenonT(30), <2>1, <2>2 DEF OthersTyped
    <2>4. \A s \in Session : /\ pc'[s] \in Early \cup {"directories"} => Fresh(s)
                             /\ pc'[s] \in Early => pc[s] \in Early
                             /\ pc'[s] # "clean" /\ wrapper'[s] = "none"
        BY <2>2 DEF Fresh, Early
    <2>5. UNCHANGED <<dirs, replays, playlist, settings, live>>
        BY <2>2
    <2>6. QED
        <3>1. \A s \in Session : pc'[s] \in Early \cup {"directories"} =>
                 /\ dirs'[s] = "none" /\ replays'[s] = 0 /\ wrapper'[s] = "none"
                 /\ \A j \in jobs' : j.dir # s
            BY <2>3, <2>4, <2>5 DEF History
        <3>2. \A s \in Session : pc'[s] \in Early =>
                 playlist' # s /\ \A j \in jobs' : j.playlist # s
            BY <2>3, <2>4, <2>5 DEF History
        <3>3. QED
            BY <2>4, <2>5, <3>1, <3>2 DEF History, Fresh
<1>31. ASSUME EndBrokenLive PROVE History'
    <2> DEFINE new == EndingJob(Latest, TRUE)
    <2>1. jobs' \subseteq jobs \cup {new}
        BY <1>31 DEF EndBrokenLive, EndSession
    <2>2. new.playlist = playlist /\ new.dir = ReplayDirectory
        BY DEF EndingJob
    <2>3. ReplayDirectory # None => dirs[ReplayDirectory] # "none"
        BY ReplayDirectoryFacts
    <2>4. /\ pc' = pc
          /\ UNCHANGED <<dirs, replays, playlist, settings, live, wrapper>>
        BY <1>31 DEF EndBrokenLive, bounds
    <2> HIDE DEF new
    <2>5. QED
        BY <2>1, <2>2, <2>3, <2>4, NoneAssumption
        DEF OthersTyped, StreamTyped, History, Fresh, Early
<1>32. ASSUME SaveBrokenState PROVE History'
    BY <1>32
    DEF SaveBrokenState, stream, bounds, OthersTyped, StreamTyped, History,
        Fresh, Early
<1>33. ASSUME UNCHANGED vars PROVE History'
    BY <1>33
    DEF vars, stream, memory, disk, bounds, OthersTyped, StreamTyped, History,
        Fresh, Early
<1>34. ASSUME NEW s \in Session, CleanupFails(s) PROVE History'
    <2>1. PICK next \in {"save", "over"} : pc' = [pc EXCEPT ![s] = next]
        BY <1>34, CleanupFailsEffect
    <2>2. /\ UNCHANGED <<dirs, replays, jobs, playlist, settings, live, wrapper>>
          /\ pc[s] \in {"finish", "save"}
        BY <1>34, CleanupFailsEffect DEF disk
    <2>3. QED
        BY <2>1, <2>2 DEF OthersTyped, StreamTyped, History, Fresh, Early
<1>35. ASSUME BrokenLiveFails PROVE History'
    <2>1. UNCHANGED <<pc, dirs, replays, jobs, playlist, settings, live, wrapper>>
        BY <1>35, BrokenLiveFailsEffect DEF disk, HasStarted
    <2>2. QED
        BY <2>1 DEF History, Fresh
<1>36. ASSUME NEW j \in jobs, GenerateFails(j) PROVE History'
    <2>1. \A k \in jobs' : \E i \in jobs : i.playlist = k.playlist /\ i.dir = k.dir
        BY <1>36, LiveEndingFields DEF LiveEnding
    <2>2. UNCHANGED <<pc, wrapper, settings>>
        BY <1>36, LiveEndingBecomes DEF LiveEnding, memory
    <2>3. UNCHANGED <<dirs, replays, live, playlist>>
        BY <1>36 DEF GenerateFails
    <2>4. QED
        BY <2>1, <2>2, <2>3 DEF History, Fresh
<1>37. ASSUME NEW j \in jobs, EndingFails(j) PROVE History'
    <2>1. \A k \in jobs' : \E i \in jobs : i.playlist = k.playlist /\ i.dir = k.dir
        BY <1>37, LiveEndingFields DEF LiveEnding
    <2>2. UNCHANGED <<pc, wrapper, settings>>
        BY <1>37, LiveEndingBecomes DEF LiveEnding, memory
    <2>3. UNCHANGED <<dirs, replays, playlist>>
        BY <1>37 DEF EndingFails
    <2>4. ~live' => settings.saveReplay /\ ~settings.permanent
        <3>1. live' = live \/ j.stage = "replace"
            BY <1>37 DEF EndingFails, OthersTyped
        <3>2. Staged(j)
            BY DEF AllStaged
        <3>3. QED
            BY <3>1, <3>2 DEF History, Staged
    <2>5. QED
        BY <2>1, <2>2, <2>3, <2>4 DEF History, Fresh
<1>38. QED
    BY <1>1, <1>2, <1>3, <1>4, <1>5, <1>6, <1>7, <1>8, <1>9, <1>10, <1>11,
        <1>12, <1>13, <1>14, <1>15, <1>16, <1>17, <1>18, <1>19, <1>20, <1>21,
        <1>22, <1>23, <1>24, <1>25, <1>26, <1>27, <1>28, <1>29, <1>30, <1>31,
        <1>32, <1>33, <1>34, <1>35, <1>36, <1>37
    DEF Next, HandleSession, RunMuxing, Stream, EndOfSession, LiveEnding,
        HandleBrokenLives

-----------------------------------------------------------------------------
(* Stages and replays.                                                     *)

\* Job j goes to stage next, and the others stay.
JobMoves(j, next) ==
    /\ \A k \in jobs' : \/ k \in jobs /\ k # j
                        \/ /\ next # "done" /\ k.stage = next
                           /\ k.session = j.session
                           /\ k.playlist = j.playlist /\ k.dir = j.dir
    /\ \A k \in jobs : k # j => k \in jobs'
    /\ next # "done" => \E k \in jobs' : k.stage = next /\ k.dir = j.dir

\* Becomes, seen from the jobs it leaves.
LEMMA BecomesMoves ==
    ASSUME OthersTyped, NEW j \in jobs, NEW next, Becomes(j, next)
    PROVE  JobMoves(j, next) /\ j \in Job
<1> DEFINE new == [j EXCEPT !.stage = next]
<1>1. /\ new.stage = next /\ new.session = j.session
      /\ new.playlist = j.playlist /\ new.dir = j.dir
    BY DEF OthersTyped, Job
<1>2. jobs' = (jobs \ {j}) \cup IF next = "done" THEN {} ELSE {new}
    BY DEF Becomes
<1> HIDE DEF new
<1>3. QED
    BY <1>1, <1>2 DEF JobMoves, OthersTyped

\* Where a job that is taken goes, and why.
LEMMA ProcessEffect ==
    ASSUME OthersTyped, NEW j \in jobs, ProcessLiveEnding(j)
    PROVE  \E next \in {"replay", "replace", "clean", "done"} :
              /\ JobMoves(j, next)
              /\ j.stage = "wait"
              /\ next # "done" => live
              /\ next = "replay" => settings.permanent
              /\ next = "replace" => ~settings.permanent
              /\ next \in {"replay", "replace"} =>
                    settings.saveReplay /\ j.dir # None /\ dirs[j.dir] = "filled"
              /\ next = "clean" /\ settings.saveReplay =>
                    j.dir # None /\ dirs[j.dir] = "empty"
              /\ UNCHANGED <<dirs, replays, live, playlist, state>>
<1> DEFINE next == IF live THEN Ends(j) ELSE "done"
<1>1. JobMoves(j, next) /\ j \in Job
    BY BecomesMoves DEF ProcessLiveEnding
<1>2. j.stage = "wait" /\ UNCHANGED <<dirs, replays, live, playlist, state>>
    BY DEF ProcessLiveEnding, bounds
<1>3. /\ next \in {"replay", "replace", "clean", "done"}
      /\ next # "done" => live
      /\ next = "replay" => settings.permanent
      /\ next = "replace" => ~settings.permanent
      /\ next \in {"replay", "replace"} =>
            settings.saveReplay /\ j.dir # None /\ dirs[j.dir] = "filled"
      /\ next = "clean" /\ settings.saveReplay =>
            j.dir # None /\ dirs[j.dir] = "empty"
    BY <1>1 DEF Ends, OthersTyped, Job
<1> HIDE DEF next
<1>4. QED
    BY <1>1, <1>2, <1>3

\* A job that makes a replay needs the lock and the directory.
LEMMA AssignEffect ==
    ASSUME OthersTyped, NEW j \in jobs, NEW to \in {"remove", "wipe"},
           AssignReplay(j, to)
    PROVE  /\ FilesFree /\ j \in Job
           /\ UNCHANGED <<dirs, live, playlist, state>>
           /\ \/ /\ dirs[j.dir] = "none" /\ JobMoves(j, "done")
                 /\ UNCHANGED replays
              \/ /\ dirs[j.dir] # "none" /\ JobMoves(j, to)
                 /\ replays' = [replays EXCEPT ![j.dir] = @ + 1]
BY BecomesMoves DEF AssignReplay, OthersTyped

\* A permanent live's job removes its replay directory.
LEMMA RemoveEffect ==
    ASSUME OthersTyped, NEW j \in jobs, RemoveReplay(j)
    PROVE  /\ j.stage = "remove" /\ JobMoves(j, "clean") /\ j \in Job
           /\ dirs' = [dirs EXCEPT ![j.dir] = "none"]
           /\ UNCHANGED <<replays, live, playlist, state>>
BY BecomesMoves DEF RemoveReplay, bounds

\* A normal live's job destroys the live row.
LEMMA ReplaceEffect ==
    ASSUME OthersTyped, NEW j \in jobs, ReplaceLiveByReplay(j)
    PROVE  /\ j.stage = "replace" /\ JobMoves(j, "assign") /\ j \in Job
           /\ live' = FALSE
           /\ UNCHANGED <<replays, dirs, playlist>>
BY BecomesMoves DEF ReplaceLiveByReplay, bounds

\* A normal live's job removes every replay directory.
LEMMA WipeEffect ==
    ASSUME OthersTyped, NEW j \in jobs, RemoveBaseDirectory(j)
    PROVE  /\ j.stage = "wipe" /\ JobMoves(j, "done") /\ j \in Job
           /\ dirs' = [s \in Session |-> "none"]
           /\ UNCHANGED <<replays, live, playlist, state>>
BY BecomesMoves DEF RemoveBaseDirectory, bounds

\* A job without replay destroys the playlist its session left.
LEMMA CleanupEffect ==
    ASSUME OthersTyped, NEW j \in jobs, CleanupLive(j)
    PROVE  /\ j.stage = "clean" /\ JobMoves(j, "done") /\ j \in Job
           /\ playlist' = IF playlist = j.playlist THEN None ELSE playlist
           /\ UNCHANGED <<replays, live, dirs, state>>
BY BecomesMoves DEF CleanupLive, PlaylistToDestroy, bounds

\* A job whose HLS files cannot be generated goes on as if they were.
LEMMA GenerateEffect ==
    ASSUME OthersTyped, NEW j \in jobs, GenerateFails(j)
    PROVE  /\ FilesFree /\ j \in Job /\ j.stage \in {"replay", "assign"}
           /\ dirs[j.dir] # "none"
           /\ JobMoves(j, IF j.stage = "replay" THEN "remove" ELSE "wipe")
           /\ lost' = lost \cup {j.dir}
           /\ UNCHANGED <<dirs, replays, live, playlist, state, torn>>
BY BecomesMoves DEF GenerateFails

\* A job that fails is over; it may have destroyed the live row.
LEMMA EndingEffect ==
    ASSUME OthersTyped, NEW j \in jobs, EndingFails(j)
    PROVE  /\ JobMoves(j, "done") /\ j \in Job
           /\ live' => live
           /\ live' # live => j.stage = "replace" /\ live /\ ~live'
           /\ ~torn' => ~torn /\ j.stage \notin {"remove", "wipe"}
           /\ UNCHANGED <<dirs, replays, lost, playlist, state>>
<1>1. JobMoves(j, "done") /\ j \in Job
    BY BecomesMoves DEF EndingFails
<1>2. /\ live' => live
      /\ live' # live => j.stage = "replace" /\ live /\ ~live'
    BY DEF EndingFails, OthersTyped
<1>3. /\ ~torn' => ~torn /\ j.stage \notin {"remove", "wipe"}
      /\ UNCHANGED <<dirs, replays, lost, playlist, state>>
    BY DEF EndingFails, OthersTyped
<1>4. QED
    BY <1>1, <1>2, <1>3

\* Every step keeps what the stage of each job says of the settings, the live
\* and the replays.
LEMMA StagedNext ==
    ASSUME StreamTyped, OthersTyped, HasStarted, AllStaged, [Next]_vars
    PROVE  AllStaged'
<1>1. ASSUME NEW s \in Session, PostPublish(s) PROVE AllStaged'
    BY <1>1 DEF PostPublish, Goto, memory, disk, bounds, AllStaged, Staged
<1>2. ASSUME NEW s \in Session, Unpublish(s) PROVE AllStaged'
    BY <1>2 DEF Unpublish, memory, disk, bounds, AllStaged, Staged
<1>3. ASSUME NEW s \in Session, AbortTimer(s) PROVE AllStaged'
    BY <1>3 DEF AbortTimer, memory, disk, bounds, AllStaged, Staged
<1>4. ASSUME NEW s \in Session, LoadLive(s) PROVE AllStaged'
    BY <1>4 DEF LoadLive, Goto, memory, disk, bounds, AllStaged, Staged
<1>5. ASSUME NEW s \in Session, LoadPlaylist(s) PROVE AllStaged'
    BY <1>5 DEF LoadPlaylist, Goto, memory, disk, bounds, AllStaged, Staged
<1>6. ASSUME NEW s \in Session, CleanOldLive(s) PROVE AllStaged'
    BY <1>6 DEF CleanOldLive, Goto, memory, bounds, AllStaged, Staged
<1>7. ASSUME NEW s \in Session, HandlerFails(s) PROVE AllStaged'
    BY <1>7 DEF HandlerFails, Goto, Fails, memory, disk, AllStaged, Staged
<1>8. ASSUME NEW s \in Session, StartSession(s) PROVE AllStaged'
    BY <1>8 DEF StartSession, Goto, memory, bounds, AllStaged, Staged
<1>9. ASSUME NEW s \in Session, LoadUser(s) PROVE AllStaged'
    BY <1>9 DEF LoadUser, Goto, memory, disk, bounds, AllStaged, Staged
<1>10. ASSUME NEW s \in Session, CreateLivePlaylist(s) PROVE AllStaged'
    BY <1>10
    DEF CreateLivePlaylist, Goto, stream, memory, bounds, AllStaged, Staged
<1>11. ASSUME NEW s \in Session, PrepareDirectories(s) PROVE AllStaged'
    BY <1>11 DEF PrepareDirectories, Goto, memory, bounds, AllStaged, Staged
<1>12. ASSUME NEW s \in Session, MuxingFails(s) PROVE AllStaged'
    BY <1>12 DEF MuxingFails, Goto, Fails, memory, disk, AllStaged, Staged
<1>13. ASSUME NEW s \in Session, ProcessSegment(s) PROVE AllStaged'
    BY <1>13 DEF ProcessSegment, stream, memory, bounds, AllStaged, Staged
<1>14. ASSUME NEW s \in Session, PublishLive(s) PROVE AllStaged'
    BY <1>14 DEF PublishLive, stream, memory, bounds, AllStaged, Staged
<1>15. ASSUME NEW s \in Session, LimitExceeded(s) PROVE AllStaged'
    BY <1>15 DEF LimitExceeded, Fails, memory, disk, AllStaged, Staged
<1>16. ASSUME NEW s \in Session, RunnerJobOver(s) PROVE AllStaged'
    BY <1>16 DEF RunnerJobOver, memory, bounds, AllStaged, Staged
<1>17. ASSUME NEW s \in Session, FFmpegEnds(s) PROVE AllStaged'
    BY <1>17 DEF FFmpegEnds, memory, disk, bounds, AllStaged, Staged
<1>18. ASSUME NEW s \in Session, FFmpegErrors(s) PROVE AllStaged'
    BY <1>18 DEF FFmpegErrors, Fails, memory, disk, AllStaged, Staged
<1>19. ASSUME NEW s \in Session, AfterCleanup(s) PROVE AllStaged'
    BY <1>19 DEF AfterCleanup, Goto, memory, disk, bounds, AllStaged, Staged
<1>20. ASSUME NEW s \in Session, Finish(s) PROVE AllStaged'
    <2> DEFINE new == EndingJob(s, FALSE)
    <2>1. jobs' \subseteq jobs \cup {new} /\ UNCHANGED <<settings, live, replays, lost>>
        BY <1>20 DEF Finish, EndSession, bounds
    <2>2. new.stage = "wait"
        BY DEF EndingJob
    <2> HIDE DEF new
    <2>3. QED
        BY <2>1, <2>2 DEF AllStaged, Staged
<1>21. ASSUME NEW s \in Session, SaveState(s) PROVE AllStaged'
    BY <1>21 DEF SaveState, Goto, stream, memory, bounds, AllStaged, Staged
<1>22. ASSUME NEW j \in jobs, ProcessLiveEnding(j) PROVE AllStaged'
    <2>1. PICK next \in {"replay", "replace", "clean", "done"} :
              /\ JobMoves(j, next)
              /\ j.stage = "wait"
              /\ next # "done" => live
              /\ next = "replay" => settings.permanent
              /\ next = "replace" => ~settings.permanent
              /\ next \in {"replay", "replace"} =>
                    settings.saveReplay /\ j.dir # None /\ dirs[j.dir] = "filled"
              /\ next = "clean" /\ settings.saveReplay =>
                    j.dir # None /\ dirs[j.dir] = "empty"
              /\ UNCHANGED <<dirs, replays, live, playlist, state>>
        BY <1>22, ProcessEffect
    <2>2. /\ UNCHANGED <<conn, current, muxing, wrapper, aborts, orderly, memory,
                         settings, started>>
          /\ Staged(j) /\ j \in Job /\ lost \subseteq lost'
        BY <1>22, LiveEndingBecomes DEF LiveEnding, OthersTyped, AllStaged
    <2>3. UNCHANGED settings
        BY <2>2
    <2>4. \A k \in jobs : k.dir \in Session \cup {None} /\ Staged(k)
        BY DEF OthersTyped, Job, AllStaged
    <2>5. ASSUME NEW k \in jobs PROVE Staged(k)'
        BY <2>1, <2>2, <2>3, <2>4 DEF OthersTyped, Staged
    <2>6. ASSUME NEW k \in jobs', k \notin jobs PROVE Staged(k)'
        BY <2>1, <2>2, <2>3, <2>4, <2>6 DEF JobMoves, OthersTyped, Staged
    <2>7. QED
        BY <2>5, <2>6 DEF AllStaged
<1>23. ASSUME NEW j \in jobs, SaveReplayToExternalVideo(j) PROVE AllStaged'
    <2>1. /\ j.stage = "replay" /\ FilesFree
          /\ UNCHANGED <<dirs, live, playlist, state>>
          /\ \/ /\ dirs[j.dir] = "none" /\ JobMoves(j, "done")
                /\ UNCHANGED replays
             \/ /\ dirs[j.dir] # "none" /\ JobMoves(j, "remove")
                /\ replays' = [replays EXCEPT ![j.dir] = @ + 1]
        BY <1>23, AssignEffect DEF SaveReplayToExternalVideo
    <2>2. /\ UNCHANGED <<conn, current, muxing, wrapper, aborts, orderly, memory,
                         settings, started>>
          /\ Staged(j) /\ j \in Job /\ lost \subseteq lost'
        BY <1>23, LiveEndingBecomes DEF LiveEnding, OthersTyped, AllStaged
    <2>3. UNCHANGED settings
        BY <2>2
    <2>4. \A k \in jobs : k.dir \in Session \cup {None} /\ Staged(k)
        BY DEF OthersTyped, Job, AllStaged
    <2>5. ASSUME NEW k \in jobs PROVE Staged(k)'
        BY <2>1, <2>2, <2>3, <2>4 DEF OthersTyped, Staged
    <2>6. ASSUME NEW k \in jobs', k \notin jobs PROVE Staged(k)'
        BY <2>1, <2>2, <2>3, <2>4, <2>6 DEF JobMoves, OthersTyped, Staged
    <2>7. QED
        BY <2>5, <2>6 DEF AllStaged
<1>24. ASSUME NEW j \in jobs, RemoveReplay(j) PROVE AllStaged'
    <2>1. /\ j.stage = "remove" /\ JobMoves(j, "clean")
          /\ dirs' = [dirs EXCEPT ![j.dir] = "none"]
          /\ UNCHANGED <<replays, live, playlist, state>>
        BY <1>24, RemoveEffect
    <2>2. /\ UNCHANGED <<conn, current, muxing, wrapper, aborts, orderly, memory,
                         settings, started>>
          /\ Staged(j) /\ j \in Job /\ lost \subseteq lost'
        BY <1>24, LiveEndingBecomes DEF LiveEnding, OthersTyped, AllStaged
    <2>3. UNCHANGED settings
        BY <2>2
    <2>4. \A k \in jobs : k.dir \in Session \cup {None} /\ Staged(k)
        BY DEF OthersTyped, Job, AllStaged
    <2>5. ASSUME NEW k \in jobs PROVE Staged(k)'
        BY <2>1, <2>2, <2>3, <2>4 DEF OthersTyped, Staged
    <2>6. ASSUME NEW k \in jobs', k \notin jobs PROVE Staged(k)'
        BY <2>1, <2>2, <2>3, <2>4, <2>6 DEF JobMoves, OthersTyped, Staged
    <2>7. QED
        BY <2>5, <2>6 DEF AllStaged
<1>25. ASSUME NEW j \in jobs, ReplaceLiveByReplay(j) PROVE AllStaged'
    <2>1. /\ j.stage = "replace" /\ JobMoves(j, "assign")
          /\ live' = FALSE
          /\ UNCHANGED <<replays, dirs, playlist>>
        BY <1>25, ReplaceEffect
    <2>2. /\ UNCHANGED <<conn, current, muxing, wrapper, aborts, orderly, memory,
                         settings, started>>
          /\ Staged(j) /\ j \in Job /\ lost \subseteq lost'
        BY <1>25, LiveEndingBecomes DEF LiveEnding, OthersTyped, AllStaged
    <2>3. UNCHANGED settings
        BY <2>2
    <2>4. \A k \in jobs : k.dir \in Session \cup {None} /\ Staged(k)
        BY DEF OthersTyped, Job, AllStaged
    <2>5. ASSUME NEW k \in jobs PROVE Staged(k)'
        BY <2>1, <2>2, <2>3, <2>4 DEF OthersTyped, Staged
    <2>6. ASSUME NEW k \in jobs', k \notin jobs PROVE Staged(k)'
        BY <2>1, <2>2, <2>3, <2>4, <2>6 DEF JobMoves, OthersTyped, Staged
    <2>7. QED
        BY <2>5, <2>6 DEF AllStaged
<1>26. ASSUME NEW j \in jobs, AssignToLive(j) PROVE AllStaged'
    <2>1. /\ j.stage = "assign" /\ FilesFree
          /\ UNCHANGED <<dirs, live, playlist, state>>
          /\ \/ /\ dirs[j.dir] = "none" /\ JobMoves(j, "done")
                /\ UNCHANGED replays
             \/ /\ dirs[j.dir] # "none" /\ JobMoves(j, "wipe")
                /\ replays' = [replays EXCEPT ![j.dir] = @ + 1]
        BY <1>26, AssignEffect DEF AssignToLive
    <2>2. /\ UNCHANGED <<conn, current, muxing, wrapper, aborts, orderly, memory,
                         settings, started>>
          /\ Staged(j) /\ j \in Job /\ lost \subseteq lost'
        BY <1>26, LiveEndingBecomes DEF LiveEnding, OthersTyped, AllStaged
    <2>3. UNCHANGED settings
        BY <2>2
    <2>4. \A k \in jobs : k.dir \in Session \cup {None} /\ Staged(k)
        BY DEF OthersTyped, Job, AllStaged
    <2>5. ASSUME NEW k \in jobs PROVE Staged(k)'
        BY <2>1, <2>2, <2>3, <2>4 DEF OthersTyped, Staged
    <2>6. ASSUME NEW k \in jobs', k \notin jobs PROVE Staged(k)'
        BY <2>1, <2>2, <2>3, <2>4, <2>6 DEF JobMoves, OthersTyped, Staged
    <2>7. QED
        BY <2>5, <2>6 DEF AllStaged
<1>27. ASSUME NEW j \in jobs, RemoveBaseDirectory(j) PROVE AllStaged'
    <2>1. /\ j.stage = "wipe" /\ JobMoves(j, "done")
          /\ dirs' = [s \in Session |-> "none"]
          /\ UNCHANGED <<replays, live, playlist, state>>
        BY <1>27, WipeEffect
    <2>2. /\ UNCHANGED <<conn, current, muxing, wrapper, aborts, orderly, memory,
                         settings, started>>
          /\ Staged(j) /\ j \in Job /\ lost \subseteq lost'
        BY <1>27, LiveEndingBecomes DEF LiveEnding, OthersTyped, AllStaged
    <2>3. UNCHANGED settings
        BY <2>2
    <2>4. \A k \in jobs : k.dir \in Session \cup {None} /\ Staged(k)
        BY DEF OthersTyped, Job, AllStaged
    <2>5. ASSUME NEW k \in jobs PROVE Staged(k)'
        BY <2>1, <2>2, <2>3, <2>4 DEF OthersTyped, Staged
    <2>6. ASSUME NEW k \in jobs', k \notin jobs PROVE Staged(k)'
        BY <2>1, <2>2, <2>3, <2>4, <2>6 DEF JobMoves, OthersTyped, Staged
    <2>7. QED
        BY <2>5, <2>6 DEF AllStaged
<1>28. ASSUME NEW j \in jobs, CleanupLive(j) PROVE AllStaged'
    <2>1. /\ j.stage = "clean" /\ JobMoves(j, "done")
          /\ playlist' = IF playlist = j.playlist THEN None ELSE playlist
          /\ UNCHANGED <<replays, live, dirs, state>>
        BY <1>28, CleanupEffect
    <2>2. /\ UNCHANGED <<conn, current, muxing, wrapper, aborts, orderly, memory,
                         settings, started>>
          /\ Staged(j) /\ j \in Job /\ lost \subseteq lost'
        BY <1>28, LiveEndingBecomes DEF LiveEnding, OthersTyped, AllStaged
    <2>3. UNCHANGED settings
        BY <2>2
    <2>4. \A k \in jobs : k.dir \in Session \cup {None} /\ Staged(k)
        BY DEF OthersTyped, Job, AllStaged
    <2>5. ASSUME NEW k \in jobs PROVE Staged(k)'
        BY <2>1, <2>2, <2>3, <2>4 DEF OthersTyped, Staged
    <2>6. ASSUME NEW k \in jobs', k \notin jobs PROVE Staged(k)'
        BY <2>1, <2>2, <2>3, <2>4, <2>6 DEF JobMoves, OthersTyped, Staged
    <2>7. QED
        BY <2>5, <2>6 DEF AllStaged
<1>29. ASSUME Blacklist PROVE AllStaged'
    BY <1>29 DEF Blacklist, Fails, memory, AllStaged, Staged
<1>30. ASSUME Restart PROVE AllStaged'
    <2>1. ASSUME NEW j \in Job
          PROVE  Stalled(j).stage = "wait"
        BY DEF Stalled, Job
    <2>2. \A k \in jobs' : k.stage = "wait"
        BY <1>30, <2>1 DEF Restart, OthersTyped
    <2>3. QED
        BY <2>2 DEF AllStaged, Staged
<1>31. ASSUME EndBrokenLive PROVE AllStaged'
    <2> DEFINE new == EndingJob(Latest, TRUE)
    <2>1. jobs' \subseteq jobs \cup {new} /\ UNCHANGED <<settings, live, replays, lost>>
        BY <1>31 DEF EndBrokenLive, EndSession, bounds
    <2>2. new.stage = "wait"
        BY DEF EndingJob
    <2> HIDE DEF new
    <2>3. QED
        BY <2>1, <2>2 DEF AllStaged, Staged
<1>32. ASSUME SaveBrokenState PROVE AllStaged'
    BY <1>32 DEF SaveBrokenState, stream, memory, bounds, AllStaged, Staged
<1>33. ASSUME UNCHANGED vars PROVE AllStaged'
    BY <1>33 DEF vars, stream, memory, disk, bounds, AllStaged, Staged
<1>34. ASSUME NEW s \in Session, CleanupFails(s) PROVE AllStaged'
    <2>1. UNCHANGED <<jobs, settings, live, replays, lost>>
        BY <1>34, CleanupFailsEffect DEF disk
    <2>2. QED
        BY <2>1 DEF AllStaged, Staged
<1>35. ASSUME BrokenLiveFails PROVE AllStaged'
    <2>1. UNCHANGED <<jobs, settings, live, replays, lost>>
        BY <1>35, BrokenLiveFailsEffect DEF disk, HasStarted
    <2>2. QED
        BY <2>1 DEF AllStaged, Staged
<1>36. ASSUME NEW j \in jobs, GenerateFails(j) PROVE AllStaged'
    <2>1. /\ j.stage \in {"replay", "assign"} /\ FilesFree
          /\ dirs[j.dir] # "none"
          /\ JobMoves(j, IF j.stage = "replay" THEN "remove" ELSE "wipe")
          /\ lost' = lost \cup {j.dir}
          /\ UNCHANGED <<dirs, replays, live, playlist, state, torn>>
        BY <1>36, GenerateEffect
    <2>2. /\ UNCHANGED <<conn, current, muxing, wrapper, aborts, orderly, memory,
                         settings, started>>
          /\ Staged(j) /\ j \in Job /\ lost \subseteq lost'
        BY <1>36, LiveEndingBecomes DEF LiveEnding, OthersTyped, AllStaged
    <2>3. UNCHANGED settings
        BY <2>2
    <2>4. \A k \in jobs : k.dir \in Session \cup {None} /\ Staged(k)
        BY DEF OthersTyped, Job, AllStaged
    <2>5. ASSUME NEW k \in jobs PROVE Staged(k)'
        BY <2>1, <2>2, <2>3, <2>4 DEF OthersTyped, Staged
    <2>6. ASSUME NEW k \in jobs', k \notin jobs PROVE Staged(k)'
        BY <2>1, <2>2, <2>3, <2>4, <2>6 DEF JobMoves, OthersTyped, Staged
    <2>7. QED
        BY <2>5, <2>6 DEF AllStaged
<1>37. ASSUME NEW j \in jobs, EndingFails(j) PROVE AllStaged'
    <2>1. /\ JobMoves(j, "done")
          /\ live' => live
          /\ live' # live => j.stage = "replace" /\ live /\ ~live'
          /\ ~torn' => ~torn /\ j.stage \notin {"remove", "wipe"}
          /\ UNCHANGED <<dirs, replays, lost, playlist, state>>
        BY <1>37, EndingEffect
    <2>2. /\ UNCHANGED <<conn, current, muxing, wrapper, aborts, orderly, memory,
                         settings, started>>
          /\ Staged(j) /\ j \in Job /\ lost \subseteq lost'
        BY <1>37, LiveEndingBecomes DEF LiveEnding, OthersTyped, AllStaged
    <2>3. UNCHANGED settings
        BY <2>2
    <2>4. \A k \in jobs : k.dir \in Session \cup {None} /\ Staged(k)
        BY DEF OthersTyped, Job, AllStaged
    <2>5. ASSUME NEW k \in jobs PROVE Staged(k)'
        BY <2>1, <2>2, <2>3, <2>4 DEF OthersTyped, Staged
    <2>6. ASSUME NEW k \in jobs', k \notin jobs PROVE Staged(k)'
        BY <2>1, <2>2, <2>3, <2>4, <2>6 DEF JobMoves, OthersTyped, Staged
    <2>7. QED
        BY <2>5, <2>6 DEF AllStaged
<1>38. QED
    BY <1>1, <1>2, <1>3, <1>4, <1>5, <1>6, <1>7, <1>8, <1>9, <1>10, <1>11,
        <1>12, <1>13, <1>14, <1>15, <1>16, <1>17, <1>18, <1>19, <1>20, <1>21,
        <1>22, <1>23, <1>24, <1>25, <1>26, <1>27, <1>28, <1>29, <1>30, <1>31,
        <1>32, <1>33, <1>34, <1>35, <1>36, <1>37
    DEF Next, HandleSession, RunMuxing, Stream, EndOfSession, LiveEnding,
        HandleBrokenLives

\* Every step keeps Once: a directory that was made into a video is gone, or
\* about to be removed by the job that holds the lock, or of a live that no
\* job finds any more.
LEMMA OnceNext ==
    ASSUME StreamTyped, OthersTyped, HasStarted, History, AllStaged, Once,
           [Next]_vars
    PROVE  Once'
<1>1. ASSUME NEW s \in Session, PostPublish(s) PROVE Once'
    BY <1>1 DEF PostPublish, Goto, memory, disk, bounds, Once, Made
<1>2. ASSUME NEW s \in Session, Unpublish(s) PROVE Once'
    BY <1>2 DEF Unpublish, memory, disk, bounds, Once, Made
<1>3. ASSUME NEW s \in Session, AbortTimer(s) PROVE Once'
    BY <1>3 DEF AbortTimer, memory, disk, bounds, Once, Made
<1>4. ASSUME NEW s \in Session, LoadLive(s) PROVE Once'
    BY <1>4 DEF LoadLive, Goto, memory, disk, bounds, Once, Made
<1>5. ASSUME NEW s \in Session, LoadPlaylist(s) PROVE Once'
    BY <1>5 DEF LoadPlaylist, Goto, memory, disk, bounds, Once, Made
<1>6. ASSUME NEW s \in Session, CleanOldLive(s) PROVE Once'
    BY <1>6 DEF CleanOldLive, Goto, memory, bounds, Once, Made
<1>7. ASSUME NEW s \in Session, HandlerFails(s) PROVE Once'
    BY <1>7 DEF HandlerFails, Goto, Fails, memory, disk, Once, Made
<1>8. ASSUME NEW s \in Session, StartSession(s) PROVE Once'
    BY <1>8 DEF StartSession, Goto, memory, bounds, Once, Made
<1>9. ASSUME NEW s \in Session, LoadUser(s) PROVE Once'
    BY <1>9 DEF LoadUser, Goto, memory, disk, bounds, Once, Made
<1>10. ASSUME NEW s \in Session, CreateLivePlaylist(s) PROVE Once'
    BY <1>10 DEF CreateLivePlaylist, Goto, stream, memory, bounds, Once, Made
<1>11. ASSUME NEW s \in Session, PrepareDirectories(s) PROVE Once'
    <2>1. /\ UNCHANGED <<jobs, replays, live, torn>>
          /\ \A t \in Session : t # s => dirs'[t] = dirs[t]
        BY <1>11 DEF PrepareDirectories, bounds
    <2>2. replays[s] = 0
        BY <1>11 DEF PrepareDirectories, History, Fresh
    <2>3. QED
        BY <2>1, <2>2 DEF Once, Made
<1>12. ASSUME NEW s \in Session, MuxingFails(s) PROVE Once'
    BY <1>12 DEF MuxingFails, Goto, Fails, memory, disk, Once, Made
<1>13. ASSUME NEW s \in Session, ProcessSegment(s) PROVE Once'
    BY <1>13 DEF ProcessSegment, stream, memory, bounds, Once, Made
<1>14. ASSUME NEW s \in Session, PublishLive(s) PROVE Once'
    BY <1>14 DEF PublishLive, stream, memory, bounds, Once, Made
<1>15. ASSUME NEW s \in Session, LimitExceeded(s) PROVE Once'
    BY <1>15 DEF LimitExceeded, Fails, memory, disk, Once, Made
<1>16. ASSUME NEW s \in Session, RunnerJobOver(s) PROVE Once'
    BY <1>16 DEF RunnerJobOver, memory, bounds, Once, Made
<1>17. ASSUME NEW s \in Session, FFmpegEnds(s) PROVE Once'
    BY <1>17 DEF FFmpegEnds, memory, disk, bounds, Once, Made
<1>18. ASSUME NEW s \in Session, FFmpegErrors(s) PROVE Once'
    BY <1>18 DEF FFmpegErrors, Fails, memory, disk, Once, Made
<1>19. ASSUME NEW s \in Session, AfterCleanup(s) PROVE Once'
    BY <1>19 DEF AfterCleanup, Goto, memory, disk, bounds, Once, Made
<1>20. ASSUME NEW s \in Session, Finish(s) PROVE Once'
    <2>1. /\ (live /\ jobs \subseteq jobs') \/ jobs' = jobs
          /\ UNCHANGED <<live, torn, dirs, replays>>
        BY <1>20 DEF Finish, EndSession, bounds
    <2>2. QED
        BY <2>1 DEF Once, Made
<1>21. ASSUME NEW s \in Session, SaveState(s) PROVE Once'
    BY <1>21 DEF SaveState, Goto, stream, memory, bounds, Once, Made
<1>22. ASSUME NEW j \in jobs, ProcessLiveEnding(j) PROVE Once'
    <2>1. PICK next \in {"replay", "replace", "clean", "done"} :
              /\ JobMoves(j, next)
              /\ j.stage = "wait"
              /\ next # "done" => live
              /\ next = "replay" => settings.permanent
              /\ next = "replace" => ~settings.permanent
              /\ next \in {"replay", "replace"} =>
                    settings.saveReplay /\ j.dir # None /\ dirs[j.dir] = "filled"
              /\ next = "clean" /\ settings.saveReplay =>
                    j.dir # None /\ dirs[j.dir] = "empty"
              /\ UNCHANGED <<dirs, replays, live, playlist, state>>
        BY <1>22, ProcessEffect
    <2>2. /\ UNCHANGED <<conn, current, muxing, wrapper, aborts, orderly, memory,
                         settings, started>>
          /\ Staged(j) /\ j \in Job
        BY <1>22, LiveEndingBecomes DEF LiveEnding, OthersTyped, AllStaged
    <2>3. UNCHANGED torn /\ j.dir \in Session \cup {None} /\ j.stage # "done"
        BY <1>22, <2>2 DEF ProcessLiveEnding, bounds, Job
    <2>4. SUFFICES ASSUME ~torn', NEW s \in Session PROVE Made(s)'
        BY DEF Once
    <2>5. Made(s)
        BY <2>3, <2>4 DEF Once
    <2>6. CASE replays[s] = 0 \/ dirs[s] = "none"
        BY <2>1, <2>2, <2>3, <2>5, <2>6 DEF JobMoves, OthersTyped, Made
    <2>7. CASE /\ replays[s] > 0 /\ dirs[s] # "none"
               /\ \E k \in jobs : k.stage = "wipe" \/ (k.stage = "remove" /\ k.dir = s)
        <3>1. PICK k \in jobs : k.stage = "wipe" \/ (k.stage = "remove" /\ k.dir = s)
            BY <2>7
        <3>2. CASE k = j
            BY <2>1, <2>2, <2>3, <2>5, <3>1, <3>2
            DEF JobMoves, FilesFree, OthersTyped, Made
        <3>3. CASE k # j
            <4>1. k \in jobs'
                BY <2>1, <3>3 DEF JobMoves
            <4>2. QED
                BY <2>1, <2>5, <3>1, <4>1 DEF OthersTyped, Made, FilesFree
        <3>4. QED
            BY <3>2, <3>3
    <2>8. CASE ~live /\ \A k \in jobs : k.stage = "wait"
        BY <2>1, <2>2, <2>3, <2>5, <2>8 DEF JobMoves, OthersTyped, Made
    <2>9. replays[s] \in Nat
        BY DEF OthersTyped
    <2>10. QED
        BY <2>5, <2>6, <2>7, <2>8, <2>9 DEF Made
<1>23. ASSUME NEW j \in jobs, SaveReplayToExternalVideo(j) PROVE Once'
    <2>1. /\ j.stage = "replay" /\ FilesFree
          /\ UNCHANGED <<dirs, live, playlist, state>>
          /\ \/ /\ dirs[j.dir] = "none" /\ JobMoves(j, "done")
                /\ UNCHANGED replays
             \/ /\ dirs[j.dir] # "none" /\ JobMoves(j, "remove")
                /\ replays' = [replays EXCEPT ![j.dir] = @ + 1]
        BY <1>23, AssignEffect DEF SaveReplayToExternalVideo
    <2>2. /\ UNCHANGED <<conn, current, muxing, wrapper, aborts, orderly, memory,
                         settings, started>>
          /\ Staged(j) /\ j \in Job
        BY <1>23, LiveEndingBecomes DEF LiveEnding, OthersTyped, AllStaged
    <2>3. UNCHANGED torn /\ j.dir \in Session \cup {None} /\ j.stage # "done"
        BY <1>23, <2>2 DEF SaveReplayToExternalVideo, AssignReplay, Job
    <2>4. SUFFICES ASSUME ~torn', NEW s \in Session PROVE Made(s)'
        BY DEF Once
    <2>5. Made(s)
        BY <2>3, <2>4 DEF Once
    <2>6. CASE replays[s] = 0 \/ dirs[s] = "none"
        BY <2>1, <2>2, <2>3, <2>5, <2>6 DEF JobMoves, OthersTyped, Made
    <2>7. CASE /\ replays[s] > 0 /\ dirs[s] # "none"
               /\ \E k \in jobs : k.stage = "wipe" \/ (k.stage = "remove" /\ k.dir = s)
        <3>1. PICK k \in jobs : k.stage = "wipe" \/ (k.stage = "remove" /\ k.dir = s)
            BY <2>7
        <3>2. CASE k = j
            BY <2>1, <2>2, <2>3, <2>5, <3>1, <3>2
            DEF JobMoves, FilesFree, OthersTyped, Made
        <3>3. CASE k # j
            <4>1. k \in jobs'
                BY <2>1, <3>3 DEF JobMoves
            <4>2. QED
                BY <2>1, <2>5, <3>1, <4>1 DEF OthersTyped, Made, FilesFree
        <3>4. QED
            BY <3>2, <3>3
    <2>8. CASE ~live /\ \A k \in jobs : k.stage = "wait"
        BY <2>1, <2>2, <2>3, <2>5, <2>8 DEF JobMoves, OthersTyped, Made
    <2>9. replays[s] \in Nat
        BY DEF OthersTyped
    <2>10. QED
        BY <2>5, <2>6, <2>7, <2>8, <2>9 DEF Made
<1>24. ASSUME NEW j \in jobs, RemoveReplay(j) PROVE Once'
    <2>1. /\ j.stage = "remove" /\ JobMoves(j, "clean")
          /\ dirs' = [dirs EXCEPT ![j.dir] = "none"]
          /\ UNCHANGED <<replays, live, playlist, state>>
        BY <1>24, RemoveEffect
    <2>2. /\ UNCHANGED <<conn, current, muxing, wrapper, aborts, orderly, memory,
                         settings, started>>
          /\ Staged(j) /\ j \in Job
        BY <1>24, LiveEndingBecomes DEF LiveEnding, OthersTyped, AllStaged
    <2>3. UNCHANGED torn /\ j.dir \in Session \cup {None} /\ j.stage # "done"
        BY <1>24, <2>2 DEF RemoveReplay, bounds, Job
    <2>4. SUFFICES ASSUME ~torn', NEW s \in Session PROVE Made(s)'
        BY DEF Once
    <2>5. Made(s)
        BY <2>3, <2>4 DEF Once
    <2>6. CASE replays[s] = 0 \/ dirs[s] = "none"
        BY <2>1, <2>2, <2>3, <2>5, <2>6 DEF JobMoves, OthersTyped, Made
    <2>7. CASE /\ replays[s] > 0 /\ dirs[s] # "none"
               /\ \E k \in jobs : k.stage = "wipe" \/ (k.stage = "remove" /\ k.dir = s)
        <3>1. PICK k \in jobs : k.stage = "wipe" \/ (k.stage = "remove" /\ k.dir = s)
            BY <2>7
        <3>2. CASE k = j
            BY <2>1, <2>2, <2>3, <2>5, <3>1, <3>2
            DEF JobMoves, FilesFree, OthersTyped, Made
        <3>3. CASE k # j
            <4>1. k \in jobs'
                BY <2>1, <3>3 DEF JobMoves
            <4>2. QED
                BY <2>1, <2>5, <3>1, <4>1 DEF OthersTyped, Made, FilesFree
        <3>4. QED
            BY <3>2, <3>3
    <2>8. CASE ~live /\ \A k \in jobs : k.stage = "wait"
        BY <2>1, <2>2, <2>3, <2>5, <2>8 DEF JobMoves, OthersTyped, Made
    <2>9. replays[s] \in Nat
        BY DEF OthersTyped
    <2>10. QED
        BY <2>5, <2>6, <2>7, <2>8, <2>9 DEF Made
<1>25. ASSUME NEW j \in jobs, ReplaceLiveByReplay(j) PROVE Once'
    <2>1. /\ j.stage = "replace" /\ JobMoves(j, "assign")
          /\ live' = FALSE
          /\ UNCHANGED <<replays, dirs, playlist>>
        BY <1>25, ReplaceEffect
    <2>2. /\ UNCHANGED <<conn, current, muxing, wrapper, aborts, orderly, memory,
                         settings, started>>
          /\ Staged(j) /\ j \in Job
        BY <1>25, LiveEndingBecomes DEF LiveEnding, OthersTyped, AllStaged
    <2>3. UNCHANGED torn /\ j.dir \in Session \cup {None} /\ j.stage # "done"
        BY <1>25, <2>2 DEF ReplaceLiveByReplay, bounds, Job
    <2>4. SUFFICES ASSUME ~torn', NEW s \in Session PROVE Made(s)'
        BY DEF Once
    <2>5. Made(s)
        BY <2>3, <2>4 DEF Once
    <2>6. CASE replays[s] = 0 \/ dirs[s] = "none"
        BY <2>1, <2>2, <2>3, <2>5, <2>6 DEF JobMoves, OthersTyped, Made
    <2>7. CASE /\ replays[s] > 0 /\ dirs[s] # "none"
               /\ \E k \in jobs : k.stage = "wipe" \/ (k.stage = "remove" /\ k.dir = s)
        <3>1. PICK k \in jobs : k.stage = "wipe" \/ (k.stage = "remove" /\ k.dir = s)
            BY <2>7
        <3>2. CASE k = j
            BY <2>1, <2>2, <2>3, <2>5, <3>1, <3>2
            DEF JobMoves, FilesFree, OthersTyped, Made
        <3>3. CASE k # j
            <4>1. k \in jobs'
                BY <2>1, <3>3 DEF JobMoves
            <4>2. QED
                BY <2>1, <2>5, <3>1, <4>1 DEF OthersTyped, Made, FilesFree
        <3>4. QED
            BY <3>2, <3>3
    <2>8. CASE ~live /\ \A k \in jobs : k.stage = "wait"
        BY <2>1, <2>2, <2>3, <2>5, <2>8 DEF JobMoves, OthersTyped, Made
    <2>9. replays[s] \in Nat
        BY DEF OthersTyped
    <2>10. QED
        BY <2>5, <2>6, <2>7, <2>8, <2>9 DEF Made
<1>26. ASSUME NEW j \in jobs, AssignToLive(j) PROVE Once'
    <2>1. /\ j.stage = "assign" /\ FilesFree
          /\ UNCHANGED <<dirs, live, playlist, state>>
          /\ \/ /\ dirs[j.dir] = "none" /\ JobMoves(j, "done")
                /\ UNCHANGED replays
             \/ /\ dirs[j.dir] # "none" /\ JobMoves(j, "wipe")
                /\ replays' = [replays EXCEPT ![j.dir] = @ + 1]
        BY <1>26, AssignEffect DEF AssignToLive
    <2>2. /\ UNCHANGED <<conn, current, muxing, wrapper, aborts, orderly, memory,
                         settings, started>>
          /\ Staged(j) /\ j \in Job
        BY <1>26, LiveEndingBecomes DEF LiveEnding, OthersTyped, AllStaged
    <2>3. UNCHANGED torn /\ j.dir \in Session \cup {None} /\ j.stage # "done"
        BY <1>26, <2>2 DEF AssignToLive, AssignReplay, Job
    <2>4. SUFFICES ASSUME ~torn', NEW s \in Session PROVE Made(s)'
        BY DEF Once
    <2>5. Made(s)
        BY <2>3, <2>4 DEF Once
    <2>6. CASE replays[s] = 0 \/ dirs[s] = "none"
        BY <2>1, <2>2, <2>3, <2>5, <2>6 DEF JobMoves, OthersTyped, Made
    <2>7. CASE /\ replays[s] > 0 /\ dirs[s] # "none"
               /\ \E k \in jobs : k.stage = "wipe" \/ (k.stage = "remove" /\ k.dir = s)
        <3>1. PICK k \in jobs : k.stage = "wipe" \/ (k.stage = "remove" /\ k.dir = s)
            BY <2>7
        <3>2. CASE k = j
            BY <2>1, <2>2, <2>3, <2>5, <3>1, <3>2
            DEF JobMoves, FilesFree, OthersTyped, Made
        <3>3. CASE k # j
            <4>1. k \in jobs'
                BY <2>1, <3>3 DEF JobMoves
            <4>2. QED
                BY <2>1, <2>5, <3>1, <4>1 DEF OthersTyped, Made, FilesFree
        <3>4. QED
            BY <3>2, <3>3
    <2>8. CASE ~live /\ \A k \in jobs : k.stage = "wait"
        BY <2>1, <2>2, <2>3, <2>5, <2>8 DEF JobMoves, OthersTyped, Made
    <2>9. replays[s] \in Nat
        BY DEF OthersTyped
    <2>10. QED
        BY <2>5, <2>6, <2>7, <2>8, <2>9 DEF Made
<1>27. ASSUME NEW j \in jobs, RemoveBaseDirectory(j) PROVE Once'
    <2>1. /\ j.stage = "wipe" /\ JobMoves(j, "done")
          /\ dirs' = [s \in Session |-> "none"]
          /\ UNCHANGED <<replays, live, playlist, state>>
        BY <1>27, WipeEffect
    <2>2. /\ UNCHANGED <<conn, current, muxing, wrapper, aborts, orderly, memory,
                         settings, started>>
          /\ Staged(j) /\ j \in Job
        BY <1>27, LiveEndingBecomes DEF LiveEnding, OthersTyped, AllStaged
    <2>3. UNCHANGED torn /\ j.dir \in Session \cup {None} /\ j.stage # "done"
        BY <1>27, <2>2 DEF RemoveBaseDirectory, bounds, Job
    <2>4. SUFFICES ASSUME ~torn', NEW s \in Session PROVE Made(s)'
        BY DEF Once
    <2>5. Made(s)
        BY <2>3, <2>4 DEF Once
    <2>6. CASE replays[s] = 0 \/ dirs[s] = "none"
        BY <2>1, <2>2, <2>3, <2>5, <2>6 DEF JobMoves, OthersTyped, Made
    <2>7. CASE /\ replays[s] > 0 /\ dirs[s] # "none"
               /\ \E k \in jobs : k.stage = "wipe" \/ (k.stage = "remove" /\ k.dir = s)
        <3>1. PICK k \in jobs : k.stage = "wipe" \/ (k.stage = "remove" /\ k.dir = s)
            BY <2>7
        <3>2. CASE k = j
            BY <2>1, <2>2, <2>3, <2>5, <3>1, <3>2
            DEF JobMoves, FilesFree, OthersTyped, Made
        <3>3. CASE k # j
            <4>1. k \in jobs'
                BY <2>1, <3>3 DEF JobMoves
            <4>2. QED
                BY <2>1, <2>5, <3>1, <4>1 DEF OthersTyped, Made, FilesFree
        <3>4. QED
            BY <3>2, <3>3
    <2>8. CASE ~live /\ \A k \in jobs : k.stage = "wait"
        BY <2>1, <2>2, <2>3, <2>5, <2>8 DEF JobMoves, OthersTyped, Made
    <2>9. replays[s] \in Nat
        BY DEF OthersTyped
    <2>10. QED
        BY <2>5, <2>6, <2>7, <2>8, <2>9 DEF Made
<1>28. ASSUME NEW j \in jobs, CleanupLive(j) PROVE Once'
    <2>1. /\ j.stage = "clean" /\ JobMoves(j, "done")
          /\ playlist' = IF playlist = j.playlist THEN None ELSE playlist
          /\ UNCHANGED <<replays, live, dirs, state>>
        BY <1>28, CleanupEffect
    <2>2. /\ UNCHANGED <<conn, current, muxing, wrapper, aborts, orderly, memory,
                         settings, started>>
          /\ Staged(j) /\ j \in Job
        BY <1>28, LiveEndingBecomes DEF LiveEnding, OthersTyped, AllStaged
    <2>3. UNCHANGED torn /\ j.dir \in Session \cup {None} /\ j.stage # "done"
        BY <1>28, <2>2 DEF CleanupLive, bounds, Job
    <2>4. SUFFICES ASSUME ~torn', NEW s \in Session PROVE Made(s)'
        BY DEF Once
    <2>5. Made(s)
        BY <2>3, <2>4 DEF Once
    <2>6. CASE replays[s] = 0 \/ dirs[s] = "none"
        BY <2>1, <2>2, <2>3, <2>5, <2>6 DEF JobMoves, OthersTyped, Made
    <2>7. CASE /\ replays[s] > 0 /\ dirs[s] # "none"
               /\ \E k \in jobs : k.stage = "wipe" \/ (k.stage = "remove" /\ k.dir = s)
        <3>1. PICK k \in jobs : k.stage = "wipe" \/ (k.stage = "remove" /\ k.dir = s)
            BY <2>7
        <3>2. CASE k = j
            BY <2>1, <2>2, <2>3, <2>5, <3>1, <3>2
            DEF JobMoves, FilesFree, OthersTyped, Made
        <3>3. CASE k # j
            <4>1. k \in jobs'
                BY <2>1, <3>3 DEF JobMoves
            <4>2. QED
                BY <2>1, <2>5, <3>1, <4>1 DEF OthersTyped, Made, FilesFree
        <3>4. QED
            BY <3>2, <3>3
    <2>8. CASE ~live /\ \A k \in jobs : k.stage = "wait"
        BY <2>1, <2>2, <2>3, <2>5, <2>8 DEF JobMoves, OthersTyped, Made
    <2>9. replays[s] \in Nat
        BY DEF OthersTyped
    <2>10. QED
        BY <2>5, <2>6, <2>7, <2>8, <2>9 DEF Made
<1>29. ASSUME Blacklist PROVE Once'
    BY <1>29 DEF Blacklist, Fails, memory, Once, Made
<1>30. ASSUME Restart PROVE Once'
    <2>1. ASSUME NEW j \in Job
          PROVE  Stalled(j).stage = "wait"
        BY DEF Stalled, Job
    <2>2. \A k \in jobs' : k.stage = "wait"
        BY <1>30, <2>1 DEF Restart, OthersTyped
    <2>3. /\ UNCHANGED <<live, dirs, replays>>
          /\ ~torn' => ~torn /\ \A k \in jobs : k.stage # "remove"
        BY <1>30 DEF Restart
    <2>4. (\E k \in jobs : k.stage = "wipe") => ~live
        BY DEF AllStaged, Staged
    <2>5. QED
        BY <2>2, <2>3, <2>4 DEF Once, Made
<1>31. ASSUME EndBrokenLive PROVE Once'
    <2>1. /\ (live /\ jobs \subseteq jobs') \/ jobs' = jobs
          /\ UNCHANGED <<live, torn, dirs, replays>>
        BY <1>31 DEF EndBrokenLive, EndSession, bounds
    <2>2. QED
        BY <2>1 DEF Once, Made
<1>32. ASSUME SaveBrokenState PROVE Once'
    BY <1>32 DEF SaveBrokenState, stream, memory, bounds, Once, Made
<1>33. ASSUME UNCHANGED vars PROVE Once'
    BY <1>33 DEF vars, stream, memory, disk, bounds, Once, Made
<1>34. ASSUME NEW s \in Session, CleanupFails(s) PROVE Once'
    <2>1. UNCHANGED <<jobs, live, replays, dirs, torn>>
        BY <1>34, CleanupFailsEffect DEF disk
    <2>2. QED
        BY <2>1 DEF Once, Made
<1>35. ASSUME BrokenLiveFails PROVE Once'
    <2>1. UNCHANGED <<jobs, live, replays, dirs, torn>>
        BY <1>35, BrokenLiveFailsEffect DEF disk, HasStarted
    <2>2. QED
        BY <2>1 DEF Once, Made
<1>36. ASSUME NEW j \in jobs, GenerateFails(j) PROVE Once'
    <2>1. /\ j.stage \in {"replay", "assign"} /\ FilesFree
          /\ dirs[j.dir] # "none"
          /\ JobMoves(j, IF j.stage = "replay" THEN "remove" ELSE "wipe")
          /\ lost' = lost \cup {j.dir}
          /\ UNCHANGED <<dirs, replays, live, playlist, state, torn>>
        BY <1>36, GenerateEffect
    <2>2. /\ UNCHANGED <<conn, current, muxing, wrapper, aborts, orderly, memory,
                         settings, started>>
          /\ Staged(j) /\ j \in Job
        BY <1>36, LiveEndingBecomes DEF LiveEnding, OthersTyped, AllStaged
    <2>3. j.dir \in Session \cup {None} /\ j.stage # "done"
        BY <2>2 DEF Job
    <2>4. SUFFICES ASSUME ~torn', NEW s \in Session PROVE Made(s)'
        BY DEF Once
    <2>5. Made(s)
        BY <2>1, <2>4 DEF Once
    <2>6. CASE replays[s] = 0 \/ dirs[s] = "none"
        BY <2>1, <2>2, <2>3, <2>5, <2>6 DEF JobMoves, OthersTyped, Made
    <2>7. CASE /\ replays[s] > 0 /\ dirs[s] # "none"
               /\ \E k \in jobs : k.stage = "wipe" \/ (k.stage = "remove" /\ k.dir = s)
        <3>1. PICK k \in jobs : k.stage = "wipe" \/ (k.stage = "remove" /\ k.dir = s)
            BY <2>7
        <3>2. k # j
            BY <2>1, <2>4, <3>1 DEF FilesFree
        <3>3. k \in jobs'
            BY <2>1, <3>2 DEF JobMoves
        <3>4. QED
            BY <2>1, <2>5, <3>1, <3>3 DEF OthersTyped, Made
    <2>8. CASE ~live /\ \A k \in jobs : k.stage = "wait"
        BY <2>1, <2>2, <2>3, <2>5, <2>8 DEF JobMoves, OthersTyped, Made
    <2>9. replays[s] \in Nat
        BY DEF OthersTyped
    <2>10. QED
        BY <2>5, <2>6, <2>7, <2>8, <2>9 DEF Made
<1>37. ASSUME NEW j \in jobs, EndingFails(j) PROVE Once'
    <2>1. /\ JobMoves(j, "done")
          /\ live' => live
          /\ live' # live => j.stage = "replace" /\ live /\ ~live'
          /\ ~torn' => ~torn /\ j.stage \notin {"remove", "wipe"}
          /\ UNCHANGED <<dirs, replays, lost, playlist, state>>
        BY <1>37, EndingEffect
    <2>2. /\ UNCHANGED <<conn, current, muxing, wrapper, aborts, orderly, memory,
                         settings, started>>
          /\ Staged(j) /\ j \in Job
        BY <1>37, LiveEndingBecomes DEF LiveEnding, OthersTyped, AllStaged
    <2>3. j.dir \in Session \cup {None} /\ j.stage # "done"
        BY <2>2 DEF Job
    <2>4. SUFFICES ASSUME ~torn', NEW s \in Session PROVE Made(s)'
        BY DEF Once
    <2>5. Made(s)
        BY <2>1, <2>4 DEF Once
    <2>6. CASE replays[s] = 0 \/ dirs[s] = "none"
        BY <2>1, <2>2, <2>3, <2>5, <2>6 DEF JobMoves, OthersTyped, Made
    <2>7. CASE /\ replays[s] > 0 /\ dirs[s] # "none"
               /\ \E k \in jobs : k.stage = "wipe" \/ (k.stage = "remove" /\ k.dir = s)
        <3>1. PICK k \in jobs : k.stage = "wipe" \/ (k.stage = "remove" /\ k.dir = s)
            BY <2>7
        <3>2. k # j
            BY <2>1, <2>4, <3>1 DEF FilesFree
        <3>3. k \in jobs'
            BY <2>1, <3>2 DEF JobMoves
        <3>4. QED
            BY <2>1, <2>5, <3>1, <3>3 DEF OthersTyped, Made
    <2>8. CASE ~live /\ \A k \in jobs : k.stage = "wait"
        BY <2>1, <2>2, <2>3, <2>5, <2>8 DEF JobMoves, OthersTyped, Made
    <2>9. replays[s] \in Nat
        BY DEF OthersTyped
    <2>10. QED
        BY <2>5, <2>6, <2>7, <2>8, <2>9 DEF Made
<1>38. QED
    BY <1>1, <1>2, <1>3, <1>4, <1>5, <1>6, <1>7, <1>8, <1>9, <1>10, <1>11,
        <1>12, <1>13, <1>14, <1>15, <1>16, <1>17, <1>18, <1>19, <1>20, <1>21,
        <1>22, <1>23, <1>24, <1>25, <1>26, <1>27, <1>28, <1>29, <1>30, <1>31,
        <1>32, <1>33, <1>34, <1>35, <1>36, <1>37
    DEF Next, HandleSession, RunMuxing, Stream, EndOfSession, LiveEnding,
        HandleBrokenLives

-----------------------------------------------------------------------------
(* Order.                                                                  *)

\* What aborting a session changes: it unregisters whichever session is
\* registered if its wrapper runs, and counts as overtaking if it starts and
\* cannot be aborted.
LEMMA AbortEffect ==
    ASSUME StreamTyped, NEW s \in Session, NEW registered, NEW ended,
           NEW sessions, NEW trans,
           AbortSession(s, registered, ended, sessions, trans)
    PROVE  /\ orderly' => orderly
           /\ muxing' = sessions \ {s}
           /\ \/ /\ s \in sessions /\ trans[s] = "running"
                 /\ wrapper' = [trans EXCEPT ![s] = "aborted"]
                 /\ current' = None
              \/ /\ ~(s \in sessions /\ trans[s] = "running")
                 /\ wrapper' = trans /\ current' = registered
                 /\ orderly' /\ (s \in sessions \/ registered # current)
                       => pc'[s] \notin Starting
BY DEF AbortSession, CanAbort, StreamTyped

\* What stopping the session of the video changes.
LEMMA StopEffect ==
    ASSUME StreamTyped, NEW onReplay, NEW sessions, NEW trans,
           StopSession(onReplay, sessions, trans)
    PROVE  \/ /\ current = None /\ UNCHANGED <<current, orderly>>
              /\ muxing' = sessions /\ wrapper' = trans
           \/ /\ current \in Session /\ current' = None /\ (orderly' => orderly)
              /\ muxing' = sessions \ {current}
              /\ \/ /\ current \in sessions /\ trans[current] = "running"
                    /\ wrapper' = [trans EXCEPT ![current] = "aborted"]
                 \/ /\ ~(current \in sessions /\ trans[current] = "running")
                    /\ wrapper' = trans
                    /\ orderly' => pc'[current] \notin Starting
<1>1. CASE current = None
    BY <1>1 DEF StopSession
<1>2. CASE current # None
    <2>1. current \in Session /\ None # current
        BY <1>2 DEF StreamTyped
    <2>2. AbortSession(current, None, SaveEndingSession(current, onReplay),
                       sessions, trans)
        BY <1>2 DEF StopSession
    <2>3. QED
        BY <2>1, <2>2, AbortEffect
<1>3. QED
    BY <1>1, <1>2

\* The latest session changes only when a session starts.
LEMMA LatestKept ==
    UNCHANGED started => Latest' = Latest
BY DEF Latest, LatestOf

\* Stopping the session of the video keeps Order: it is the only one that can
\* be starting or streaming.
LEMMA StopOrder ==
    ASSUME StreamTyped, OthersTyped, History, Order, NEW onReplay,
           StopSession(onReplay, muxing, wrapper),
           UNCHANGED <<pc, held, playlist, started, dirs, jobs, settings>>
    PROVE  Order'
<1>1. Latest' = Latest
    BY LatestKept
<1>2. CASE current = None /\ UNCHANGED <<current, orderly, muxing, wrapper>>
    BY <1>1, <1>2 DEF Order, SessionOrder, JobOrder
<1>3. CASE /\ current \in Session /\ current' = None /\ (orderly' => orderly)
           /\ muxing' = muxing \ {current}
           /\ \/ /\ current \in muxing /\ wrapper[current] = "running"
                 /\ wrapper' = [wrapper EXCEPT ![current] = "aborted"]
              \/ /\ ~(current \in muxing /\ wrapper[current] = "running")
                 /\ wrapper' = wrapper
                 /\ orderly' => pc'[current] \notin Starting
    <2> SUFFICES ASSUME orderly' PROVE Order'
        BY DEF Order
    <2>1. \A s \in Session : SessionOrder(s)
        BY <1>3 DEF Order
    <2>2. \A s \in Session : wrapper'[s] # "running"
        BY <1>3, <2>1 DEF SessionOrder, StreamTyped
    <2>3. current # None
        BY <1>3, NoneAssumption
    <2>4. pc[current] \notin Starting
        BY <1>3, <2>1 DEF SessionOrder, History, Starting
    <2>5. \A s \in Session : pc[s] \notin Starting \cup {"playlist", "clean"}
        BY <2>1, <2>3, <2>4 DEF SessionOrder
    <2>6. \A s \in Session : SessionOrder(s)'
        BY <2>2, <2>5 DEF SessionOrder, Starting
    <2>7. \A j \in jobs' : JobOrder(j)'
        BY <1>3, <2>2 DEF Order, JobOrder, OthersTyped, Job
    <2>8. QED
        BY <1>1, <1>3, <2>6, <2>7 DEF Order
<1>4. QED
    BY <1>2, <1>3, StopEffect

\* Every step keeps Order.
LEMMA OrderNext ==
    ASSUME StreamTyped, OthersTyped, HasStarted, History, AllStaged,
           Order, Normal, [Next]_vars
    PROVE  Order'
<1>1. ASSUME NEW s \in Session, PostPublish(s) PROVE Order'
    <2> SUFFICES ASSUME orderly' PROVE Order'
        BY DEF Order
    <2>1. /\ pc[s] = "idle" /\ pc' = [pc EXCEPT ![s] = "load"]
          /\ UNCHANGED <<current, muxing, wrapper, held, playlist, dirs, jobs, settings, orderly>>
        BY <1>1 DEF PostPublish, Goto, memory, disk, bounds
    <2>2. Latest' = Latest
        BY <1>1, LatestKept DEF PostPublish, disk, OthersTyped
    <2>3. orderly /\ (\A t \in Session : SessionOrder(t)) /\ (\A j \in jobs : JobOrder(j))
          /\ (playlist # None => Latest = playlist)
        BY <2>1 DEF Order
    <2>4. \A t \in Session : SessionOrder(t)'
        BY <2>1, <2>2, <2>3
        DEF SessionOrder, StreamTyped, OthersTyped, Starting, History, Fresh,
            Early
    <2>5. \A j \in jobs' : JobOrder(j)'
        BY <2>1, <2>2, <2>3
        DEF JobOrder, StreamTyped, OthersTyped, Job, History, Fresh, Early
    <2>6. playlist' # None => Latest' = playlist'
        BY <2>1, <2>2, <2>3 DEF OthersTyped, SessionOrder
    <2>7. QED
        BY <2>4, <2>5, <2>6 DEF Order
<1>2. ASSUME NEW s \in Session, Unpublish(s) PROVE Order'
    <2>1. Latest' = Latest
        BY <1>2, LatestKept DEF Unpublish, disk
    <2>2. QED
        BY <1>2, <2>1
        DEF Unpublish, memory, disk, bounds, Order, SessionOrder, JobOrder
<1>3. ASSUME NEW s \in Session, AbortTimer(s) PROVE Order'
    <2> SUFFICES ASSUME orderly' PROVE Order'
        BY DEF Order
    <2>1. /\ orderly /\ muxing' = muxing \ {s}
          /\ \/ /\ s \in muxing /\ wrapper[s] = "running" /\ current' = None
                /\ wrapper' = [wrapper EXCEPT ![s] = "aborted"]
             \/ /\ ~(s \in muxing /\ wrapper[s] = "running")
                /\ wrapper' = wrapper /\ current' = current
                /\ s \in muxing => pc'[s] \notin Starting
          /\ UNCHANGED <<pc, held, playlist, dirs, jobs, settings>>
        BY <1>3, AbortEffect DEF AbortTimer, Goto, stream, memory, disk, bounds
    <2>2. Latest' = Latest
        BY <1>3, LatestKept DEF AbortTimer, disk, OthersTyped
    <2>3. orderly /\ (\A t \in Session : SessionOrder(t)) /\ (\A j \in jobs : JobOrder(j))
          /\ (playlist # None => Latest = playlist)
        BY <2>1 DEF Order
    <2>4. \A t \in Session : SessionOrder(t)'
        BY <2>1, <2>2, <2>3
        DEF SessionOrder, StreamTyped, OthersTyped, Starting, History, Fresh,
            Early
    <2>5. \A j \in jobs' : JobOrder(j)'
        BY <2>1, <2>2, <2>3
        DEF JobOrder, StreamTyped, OthersTyped, Job, History, Fresh, Early
    <2>6. playlist' # None => Latest' = playlist'
        BY <2>1, <2>2, <2>3 DEF OthersTyped, SessionOrder
    <2>7. QED
        BY <2>4, <2>5, <2>6 DEF Order
<1>4. ASSUME NEW s \in Session, LoadLive(s) PROVE Order'
    <2> SUFFICES ASSUME orderly' PROVE Order'
        BY DEF Order
    <2>1. /\ orderly /\ pc[s] = "load"
          /\ \/ /\ Accepts(s) /\ pc' = [pc EXCEPT ![s] = "playlist"]
                /\ \A t \in Session : pc[t] \notin {"playlist", "clean"}
                /\ muxing' = muxing
             \/ pc' = [pc EXCEPT ![s] = "over"] /\ muxing' = muxing \ {s}
          /\ UNCHANGED <<current, wrapper, held, playlist, dirs, jobs, settings>>
        <3>1. CASE Accepts(s)
            BY <1>4, <3>1 DEF LoadLive, Goto, disk, bounds
        <3>2. CASE ~Accepts(s)
            <4>1. AbortSession(s, current, rows, muxing, wrapper)
                BY <1>4, <3>2 DEF LoadLive
            <4>2. wrapper[s] # "running"
                BY <1>4 DEF LoadLive, History
            <4>3. UNCHANGED <<wrapper, current>> /\ muxing' = muxing \ {s} /\ orderly
                BY <4>1, <4>2, AbortEffect
            <4>4. QED
                BY <1>4, <3>2, <4>3 DEF LoadLive, Goto, disk, bounds
        <3>3. QED
            BY <3>1, <3>2
    <2>2. Latest' = Latest
        BY <1>4, LatestKept DEF LoadLive, disk, OthersTyped
    <2>3. orderly /\ (\A t \in Session : SessionOrder(t)) /\ (\A j \in jobs : JobOrder(j))
          /\ (playlist # None => Latest = playlist)
        BY <2>1 DEF Order
    <2>4. \A t \in Session : SessionOrder(t)'
        BY <2>1, <2>2, <2>3
        DEF SessionOrder, StreamTyped, OthersTyped, Starting, Accepts,
            History, Fresh, Early
    <2>5. \A j \in jobs' : JobOrder(j)'
        BY <2>1, <2>2, <2>3
        DEF JobOrder, StreamTyped, OthersTyped, Job, History, Fresh, Early
    <2>6. playlist' # None => Latest' = playlist'
        BY <2>1, <2>2, <2>3 DEF OthersTyped, SessionOrder
    <2>7. QED
        BY <2>4, <2>5, <2>6 DEF Order
<1>5. ASSUME NEW s \in Session, LoadPlaylist(s) PROVE Order'
    <2> SUFFICES ASSUME orderly' PROVE Order'
        BY DEF Order
    <2>1. /\ pc[s] = "playlist"
          /\ held' = [held EXCEPT ![s] = playlist]
          /\ \/ playlist = None /\ current' = s /\ pc' = [pc EXCEPT ![s] = "probe"]
             \/ /\ playlist # None /\ current' = current
                /\ pc' = [pc EXCEPT ![s] = "clean"] \/ pc' = [pc EXCEPT ![s] = "over"]
          /\ UNCHANGED <<muxing, wrapper, playlist, dirs, jobs, settings, orderly>>
        BY <1>5 DEF LoadPlaylist, Goto, memory, disk, bounds
    <2>2. Latest' = Latest
        BY <1>5, LatestKept DEF LoadPlaylist, disk, OthersTyped
    <2>3. orderly /\ (\A t \in Session : SessionOrder(t)) /\ (\A j \in jobs : JobOrder(j))
          /\ (playlist # None => Latest = playlist)
        BY <2>1 DEF Order
    <2>4. \A t \in Session : SessionOrder(t)'
        BY <2>1, <2>2, <2>3, NoneAssumption
        DEF SessionOrder, StreamTyped, OthersTyped, Starting, History, Fresh,
            Early
    <2>5. \A j \in jobs' : JobOrder(j)'
        <3>1. \A t \in Session : pc[t] \in {"save", "over"} => pc'[t] = pc[t]
            BY <2>1 DEF OthersTyped
        <3>2. UNCHANGED <<jobs, dirs, wrapper>>
            BY <2>1
        <3>3. QED
            BY <2>3, <3>1, <3>2 DEF JobOrder, OthersTyped, Job
    <2>6. playlist' # None => Latest' = playlist'
        BY <2>1, <2>2, <2>3 DEF OthersTyped, SessionOrder
    <2>7. QED
        BY <2>4, <2>5, <2>6 DEF Order
<1>6. ASSUME NEW s \in Session, CleanOldLive(s) PROVE Order'
    <2> SUFFICES ASSUME orderly' PROVE Order'
        BY DEF Order
    <2>1. /\ pc[s] = "clean" /\ pc' = [pc EXCEPT ![s] = "probe"]
          /\ playlist' = IF playlist = held[s] THEN None ELSE playlist
          /\ current' = s
          /\ UNCHANGED <<muxing, wrapper, held, dirs, jobs, settings, orderly>>
        BY <1>6 DEF CleanOldLive, Goto, memory, bounds
    <2>2. Latest' = Latest
        BY <1>6, LatestKept DEF CleanOldLive, disk, OthersTyped
    <2>3. orderly /\ (\A t \in Session : SessionOrder(t)) /\ (\A j \in jobs : JobOrder(j))
          /\ (playlist # None => Latest = playlist)
        BY <2>1 DEF Order
    <2>4. \A t \in Session : SessionOrder(t)'
        BY <2>1, <2>2, <2>3, NoneAssumption
        DEF SessionOrder, StreamTyped, OthersTyped, Starting, History, Fresh,
            Early
    <2>5. \A j \in jobs' : JobOrder(j)'
        BY <2>1, <2>2, <2>3
        DEF JobOrder, StreamTyped, OthersTyped, Job, History, Fresh, Early
    <2>6. playlist' # None => Latest' = playlist'
        BY <2>1, <2>2, <2>3 DEF OthersTyped, SessionOrder
    <2>7. QED
        BY <2>4, <2>5, <2>6 DEF Order
<1>7. ASSUME NEW s \in Session, HandlerFails(s) PROVE Order'
    <2> SUFFICES ASSUME orderly' PROVE Order'
        BY DEF Order
    <2>1. /\ pc[s] \in BeforeMuxing /\ pc' = [pc EXCEPT ![s] = "over"]
          /\ UNCHANGED <<current, muxing, wrapper, held, playlist, dirs, jobs, settings, orderly>>
        BY <1>7 DEF HandlerFails, Goto, memory, disk
    <2>2. Latest' = Latest
        BY <1>7, LatestKept DEF HandlerFails, disk, OthersTyped
    <2>3. orderly /\ (\A t \in Session : SessionOrder(t)) /\ (\A j \in jobs : JobOrder(j))
          /\ (playlist # None => Latest = playlist)
        BY <2>1 DEF Order
    <2>4. \A t \in Session : SessionOrder(t)'
        BY <2>1, <2>2, <2>3
        DEF SessionOrder, StreamTyped, OthersTyped, Starting, BeforeMuxing,
            History, Fresh, Early
    <2>5. \A j \in jobs' : JobOrder(j)'
        BY <2>1, <2>2, <2>3
        DEF JobOrder, StreamTyped, OthersTyped, Job, BeforeMuxing, History,
            Fresh, Early
    <2>6. playlist' # None => Latest' = playlist'
        BY <2>1, <2>2, <2>3 DEF OthersTyped, SessionOrder
    <2>7. QED
        BY <2>4, <2>5, <2>6 DEF Order
<1>8. ASSUME NEW s \in Session, StartSession(s) PROVE Order'
    <2> SUFFICES ASSUME orderly' PROVE Order'
        BY DEF Order
    <2>1. /\ pc[s] = "probe" /\ pc' = [pc EXCEPT ![s] = "user"]
          /\ UNCHANGED <<current, muxing, wrapper, held, playlist, dirs, jobs, settings, orderly>>
        BY <1>8 DEF StartSession, Goto, memory, bounds
    <2>2. Latest' = s
        BY <1>8, LatestStarts DEF StartSession, disk, OthersTyped
    <2>3. orderly /\ (\A t \in Session : SessionOrder(t)) /\ (\A j \in jobs : JobOrder(j))
          /\ (playlist # None => Latest = playlist)
        BY <2>1 DEF Order
    <2>4. \A t \in Session : SessionOrder(t)'
        BY <2>1, <2>2, <2>3, NoneAssumption
        DEF SessionOrder, StreamTyped, OthersTyped, Starting, History, Fresh,
            Early
    <2>5. \A j \in jobs' : JobOrder(j)'
        BY <2>1, <2>2, <2>3
        DEF JobOrder, StreamTyped, OthersTyped, Job, History, Fresh, Early
    <2>6. playlist' # None => Latest' = playlist'
        BY <2>1, <2>2, <2>3 DEF OthersTyped, SessionOrder
    <2>7. QED
        BY <2>4, <2>5, <2>6 DEF Order
<1>9. ASSUME NEW s \in Session, LoadUser(s) PROVE Order'
    <2> SUFFICES ASSUME orderly' PROVE Order'
        BY DEF Order
    <2>1. /\ pc[s] = "user" /\ pc' = [pc EXCEPT ![s] = "generate"]
          /\ muxing' = muxing \cup {s}
          /\ UNCHANGED <<current, wrapper, held, playlist, dirs, jobs, settings, orderly>>
        BY <1>9 DEF LoadUser, Goto, memory, disk, bounds
    <2>2. Latest' = Latest
        BY <1>9, LatestKept DEF LoadUser, disk, OthersTyped
    <2>3. orderly /\ (\A t \in Session : SessionOrder(t)) /\ (\A j \in jobs : JobOrder(j))
          /\ (playlist # None => Latest = playlist)
        BY <2>1 DEF Order
    <2>4. \A t \in Session : SessionOrder(t)'
        BY <2>1, <2>2, <2>3
        DEF SessionOrder, StreamTyped, OthersTyped, Starting, History, Fresh,
            Early
    <2>5. \A j \in jobs' : JobOrder(j)'
        BY <2>1, <2>2, <2>3
        DEF JobOrder, StreamTyped, OthersTyped, Job, History, Fresh, Early
    <2>6. playlist' # None => Latest' = playlist'
        BY <2>1, <2>2, <2>3 DEF OthersTyped, SessionOrder
    <2>7. QED
        BY <2>4, <2>5, <2>6 DEF Order
<1>10. ASSUME NEW s \in Session, CreateLivePlaylist(s) PROVE Order'
    <2> SUFFICES ASSUME orderly' PROVE Order'
        BY DEF Order
    <2>1. /\ pc[s] = "generate" /\ pc' = [pc EXCEPT ![s] = "directories"]
          /\ playlist' = IF playlist = None THEN s ELSE playlist
          /\ held' = [held EXCEPT ![s] = playlist']
          /\ UNCHANGED <<current, muxing, wrapper, dirs, jobs, settings, orderly>>
        BY <1>10 DEF CreateLivePlaylist, Goto, stream, memory, bounds
    <2>2. Latest' = Latest
        BY <1>10, LatestKept DEF CreateLivePlaylist, disk, OthersTyped
    <2>3. orderly /\ (\A t \in Session : SessionOrder(t)) /\ (\A j \in jobs : JobOrder(j))
          /\ (playlist # None => Latest = playlist)
        BY <2>1 DEF Order
    <2>4. \A t \in Session : SessionOrder(t)'
        BY <2>1, <2>2, <2>3, NoneAssumption
        DEF SessionOrder, StreamTyped, OthersTyped, Starting, History, Fresh,
            Early
    <2>5. \A j \in jobs' : JobOrder(j)'
        BY <2>1, <2>2, <2>3, NoneAssumption
        DEF JobOrder, StreamTyped, OthersTyped, Job, History, Fresh, Early
    <2>6. playlist' # None => Latest' = playlist'
        BY <2>1, <2>2, <2>3 DEF OthersTyped, SessionOrder
    <2>7. QED
        BY <2>4, <2>5, <2>6 DEF Order
<1>11. ASSUME NEW s \in Session, PrepareDirectories(s) PROVE Order'
    <2> SUFFICES ASSUME orderly' PROVE Order'
        BY DEF Order
    <2>1. /\ pc[s] = "directories" /\ pc' = [pc EXCEPT ![s] = "running"]
          /\ dirs' = IF settings.saveReplay THEN [dirs EXCEPT ![s] = "empty"] ELSE dirs
          /\ wrapper' = [wrapper EXCEPT ![s] = "running"]
          /\ UNCHANGED <<current, muxing, held, playlist, jobs, settings, orderly>>
        BY <1>11 DEF PrepareDirectories, Goto, memory, bounds
    <2>2. Latest' = Latest
        BY <1>11, LatestKept DEF PrepareDirectories, disk, OthersTyped
    <2>3. orderly /\ (\A t \in Session : SessionOrder(t)) /\ (\A j \in jobs : JobOrder(j))
          /\ (playlist # None => Latest = playlist)
        BY <2>1 DEF Order
    <2>4. \A t \in Session : SessionOrder(t)'
        BY <2>1, <2>2, <2>3
        DEF SessionOrder, StreamTyped, OthersTyped, Starting, History, Fresh,
            Early
    <2>5. \A j \in jobs' : JobOrder(j)'
        BY <2>1, <2>2, <2>3
        DEF JobOrder, StreamTyped, OthersTyped, Job, History, Fresh, Early
    <2>6. playlist' # None => Latest' = playlist'
        BY <2>1, <2>2, <2>3 DEF OthersTyped, SessionOrder
    <2>7. QED
        BY <2>4, <2>5, <2>6 DEF Order
<1>12. ASSUME NEW s \in Session, MuxingFails(s) PROVE Order'
    <2> SUFFICES ASSUME orderly' PROVE Order'
        BY DEF Order
    <2>1. /\ pc[s] \in {"generate", "directories"} /\ pc' = [pc EXCEPT ![s] = "over"]
          /\ \/ /\ current = None /\ current' = current /\ orderly
                /\ muxing' = (muxing \ {s}) /\ wrapper' = wrapper
             \/ /\ current \in Session /\ current' = None /\ orderly
                /\ muxing' = (muxing \ {s}) \ {current}
                /\ \/ /\ current \in (muxing \ {s}) /\ wrapper[current] = "running"
                      /\ wrapper' = [wrapper EXCEPT ![current] = "aborted"]
                   \/ /\ ~(current \in (muxing \ {s}) /\ wrapper[current] = "running")
                      /\ wrapper' = wrapper
                      /\ pc'[current] \notin Starting
          /\ UNCHANGED <<held, playlist, dirs, jobs, settings>>
        BY <1>12, StopEffect
        DEF MuxingFails, Goto, stream, memory, disk, bounds
    <2>2. Latest' = Latest
        BY <1>12, LatestKept DEF MuxingFails, disk, OthersTyped
    <2>3. orderly /\ (\A t \in Session : SessionOrder(t)) /\ (\A j \in jobs : JobOrder(j))
          /\ (playlist # None => Latest = playlist)
        BY <2>1 DEF Order
    <2>4. \A t \in Session : SessionOrder(t)'
        BY <2>1, <2>2, <2>3, NoneAssumption
        DEF SessionOrder, StreamTyped, OthersTyped, Starting, History, Fresh,
            Early
    <2>5. \A j \in jobs' : JobOrder(j)'
        BY <2>1, <2>2, <2>3
        DEF JobOrder, StreamTyped, OthersTyped, Job, History, Fresh, Early
    <2>6. playlist' # None => Latest' = playlist'
        BY <2>1, <2>2, <2>3 DEF OthersTyped, SessionOrder
    <2>7. QED
        BY <2>4, <2>5, <2>6 DEF Order
<1>13. ASSUME NEW s \in Session, ProcessSegment(s) PROVE Order'
    <2> SUFFICES ASSUME orderly' PROVE Order'
        BY DEF Order
    <2>1. /\ dirs' = IF dirs[s] = "empty" THEN [dirs EXCEPT ![s] = "filled"] ELSE dirs
          /\ UNCHANGED <<pc, current, muxing, wrapper, held, playlist, jobs, settings, orderly>>
        BY <1>13 DEF ProcessSegment, stream, memory, bounds
    <2>2. Latest' = Latest
        BY <1>13, LatestKept DEF ProcessSegment, disk, OthersTyped
    <2>3. orderly /\ (\A t \in Session : SessionOrder(t)) /\ (\A j \in jobs : JobOrder(j))
          /\ (playlist # None => Latest = playlist)
        BY <2>1 DEF Order
    <2>4. \A t \in Session : SessionOrder(t)'
        BY <2>1, <2>2, <2>3
        DEF SessionOrder, StreamTyped, OthersTyped, Starting, History, Fresh,
            Early
    <2>5. \A j \in jobs' : JobOrder(j)'
        BY <2>1, <2>2, <2>3
        DEF JobOrder, StreamTyped, OthersTyped, Job, History, Fresh, Early
    <2>6. playlist' # None => Latest' = playlist'
        BY <2>1, <2>2, <2>3 DEF OthersTyped, SessionOrder
    <2>7. QED
        BY <2>4, <2>5, <2>6 DEF Order
<1>14. ASSUME NEW s \in Session, PublishLive(s) PROVE Order'
    <2>1. Latest' = Latest
        BY <1>14, LatestKept DEF PublishLive, disk
    <2>2. QED
        BY <1>14, <2>1
        DEF PublishLive, stream, memory, bounds, Order, SessionOrder, JobOrder
<1>15. ASSUME NEW s \in Session, LimitExceeded(s) PROVE Order'
    BY <1>15, StopOrder DEF LimitExceeded, memory, bounds, disk
<1>16. ASSUME NEW s \in Session, RunnerJobOver(s) PROVE Order'
    BY <1>16, StopOrder DEF RunnerJobOver, memory, bounds, disk
<1>17. ASSUME NEW s \in Session, FFmpegEnds(s) PROVE Order'
    <2> SUFFICES ASSUME orderly' PROVE Order'
        BY DEF Order
    <2>1. /\ wrapper[s] = "running"
          /\ wrapper' = [wrapper EXCEPT ![s] = "ended"]
          /\ current' = None
          /\ orderly' => orderly
          /\ UNCHANGED <<pc, muxing, held, playlist, dirs, jobs, settings>>
        BY <1>17 DEF FFmpegEnds, memory, disk, bounds
    <2>2. Latest' = Latest
        BY <1>17, LatestKept DEF FFmpegEnds, disk, OthersTyped
    <2>3. orderly /\ (\A t \in Session : SessionOrder(t)) /\ (\A j \in jobs : JobOrder(j))
          /\ (playlist # None => Latest = playlist)
        BY <2>1 DEF Order
    <2>4. \A t \in Session : SessionOrder(t)'
        BY <2>1, <2>2, <2>3, NoneAssumption
        DEF SessionOrder, StreamTyped, OthersTyped, Starting, History, Fresh,
            Early
    <2>5. \A j \in jobs' : JobOrder(j)'
        BY <2>1, <2>2, <2>3
        DEF JobOrder, StreamTyped, OthersTyped, Job, History, Fresh, Early
    <2>6. playlist' # None => Latest' = playlist'
        BY <2>1, <2>2, <2>3 DEF OthersTyped, SessionOrder
    <2>7. QED
        BY <2>4, <2>5, <2>6 DEF Order
<1>18. ASSUME NEW s \in Session, FFmpegErrors(s) PROVE Order'
    <2> SUFFICES ASSUME orderly' PROVE Order'
        BY DEF Order
    <2> DEFINE trans == [wrapper EXCEPT ![s] = "errored"]
    <2>0. /\ trans[s] = "errored" /\ trans \in [Session -> Wrapper]
          /\ \A t \in Session : t # s => trans[t] = wrapper[t]
        BY DEF StreamTyped, Wrapper
    <2>1. /\ wrapper[s] = "running"
          /\ \/ /\ current = None /\ current' = current /\ orderly
                /\ muxing' = muxing /\ wrapper' = trans
             \/ /\ current \in Session /\ current' = None /\ orderly
                /\ muxing' = muxing \ {current}
                /\ \/ /\ current \in muxing /\ trans[current] = "running"
                      /\ wrapper' = [trans EXCEPT ![current] = "aborted"]
                   \/ /\ ~(current \in muxing /\ trans[current] = "running")
                      /\ wrapper' = trans
                      /\ pc'[current] \notin Starting
          /\ UNCHANGED <<pc, held, playlist, dirs, jobs, settings>>
        BY <1>18, StopEffect
        DEF FFmpegErrors, Goto, stream, memory, disk, bounds
    <2> HIDE DEF trans
    <2>2. Latest' = Latest
        BY <1>18, LatestKept DEF FFmpegErrors, disk, OthersTyped
    <2>3. orderly /\ (\A t \in Session : SessionOrder(t)) /\ (\A j \in jobs : JobOrder(j))
          /\ (playlist # None => Latest = playlist)
        BY <2>1 DEF Order
    <2>4. \A t \in Session : SessionOrder(t)'
        BY <2>1, <2>2, <2>3, NoneAssumption, <2>0
        DEF SessionOrder, StreamTyped, OthersTyped, Starting, History, Fresh,
            Early
    <2>5. \A j \in jobs' : JobOrder(j)'
        BY <2>1, <2>2, <2>3, <2>0
        DEF JobOrder, StreamTyped, OthersTyped, Job, History, Fresh, Early
    <2>6. playlist' # None => Latest' = playlist'
        BY <2>1, <2>2, <2>3 DEF OthersTyped, SessionOrder
    <2>7. QED
        BY <2>4, <2>5, <2>6 DEF Order
<1>19. ASSUME NEW s \in Session, AfterCleanup(s) PROVE Order'
    <2> SUFFICES ASSUME orderly' PROVE Order'
        BY DEF Order
    <2>1. /\ pc[s] = "running" /\ pc' = [pc EXCEPT ![s] = "finish"]
          /\ wrapper[s] \in {"ended", "aborted"}
          /\ muxing' = muxing \ {s}
          /\ UNCHANGED <<current, wrapper, held, playlist, dirs, jobs, settings, orderly>>
        BY <1>19 DEF AfterCleanup, Goto, memory, disk, bounds
    <2>2. Latest' = Latest
        BY <1>19, LatestKept DEF AfterCleanup, disk, OthersTyped
    <2>3. orderly /\ (\A t \in Session : SessionOrder(t)) /\ (\A j \in jobs : JobOrder(j))
          /\ (playlist # None => Latest = playlist)
        BY <2>1 DEF Order
    <2>4. \A t \in Session : SessionOrder(t)'
        BY <2>1, <2>2, <2>3
        DEF SessionOrder, StreamTyped, OthersTyped, Starting, History, Fresh,
            Early
    <2>5. \A j \in jobs' : JobOrder(j)'
        BY <2>1, <2>2, <2>3
        DEF JobOrder, StreamTyped, OthersTyped, Job, History, Fresh, Early
    <2>6. playlist' # None => Latest' = playlist'
        BY <2>1, <2>2, <2>3 DEF OthersTyped, SessionOrder
    <2>7. QED
        BY <2>4, <2>5, <2>6 DEF Order
<1>20. ASSUME NEW s \in Session, Finish(s) PROVE Order'
    <2> SUFFICES ASSUME orderly' PROVE Order'
        BY DEF Order
    <2> DEFINE new == EndingJob(s, FALSE)
    <2>1. /\ orderly /\ Latest = s
          /\ pc[s] = "finish"
          /\ pc' = [pc EXCEPT ![s] = "save"] \/ (pc' = [pc EXCEPT ![s] = "over"] /\ jobs' = jobs)
          /\ jobs' = jobs \/ jobs' = jobs \cup {new}
          /\ UNCHANGED <<current, muxing, wrapper, held, playlist, dirs, settings, started>>
        BY <1>20 DEF Finish, EndSession, Goto, bounds
    <2>2. new.session = s /\ new.playlist = playlist /\ new.dir = ReplayDirectory
        BY DEF EndingJob
    <2> HIDE DEF new
    <2>3. Latest' = Latest
        BY <2>1, LatestKept
    <2>4. /\ (\A t \in Session : SessionOrder(t)) /\ (\A j \in jobs : JobOrder(j))
          /\ (playlist # None => Latest = playlist)
        BY <2>1 DEF Order
    <2>5. \A t \in Session : SessionOrder(t)'
        BY <2>1, <2>3, <2>4 DEF SessionOrder, OthersTyped, Starting
    <2>6. \A j \in jobs : JobOrder(j)'
        BY <2>1, <2>4 DEF JobOrder, OthersTyped, Job
    <2>7. ASSUME NEW k \in jobs', k \notin jobs PROVE JobOrder(k)'
        <3>0. k = new /\ jobs' # jobs
            BY <2>1, <2>7
        <3>1. Latest \in Session
            BY <1>20, <2>1 DEF OthersTyped
        <3>2. pc'[Latest] \in {"save", "over"}
            BY <2>1, <3>0, <3>1 DEF OthersTyped
        <3>3. k.playlist # None =>
                 k.playlist = Latest /\ (k.dir = Latest \/ dirs[Latest] = "none")
            BY <2>2, <2>4, <3>0, <3>1, ReplayDirectoryFacts, NoneAssumption
            DEF OthersTyped, History
        <3>4. k.dir # None => wrapper[k.dir] # "running"
            <4>1. SUFFICES ASSUME k.dir # None, wrapper[k.dir] = "running" PROVE FALSE
                OBVIOUS
            <4>2. k.dir \in Session
                BY <2>2, <3>0, <4>1, ReplayDirectoryFacts
            <4>3. Latest = k.dir /\ pc[k.dir] = "running"
                BY <2>4, <4>1, <4>2 DEF SessionOrder, History
            <4>4. QED
                BY <2>1, <3>1, <4>3
        <3>5. QED
            BY <2>1, <2>2, <3>0, <3>2, <3>3, <3>4 DEF JobOrder
    <2>8. QED
        BY <2>1, <2>3, <2>4, <2>5, <2>6, <2>7 DEF Order
<1>21. ASSUME NEW s \in Session, SaveState(s) PROVE Order'
    <2> SUFFICES ASSUME orderly' PROVE Order'
        BY DEF Order
    <2>1. /\ pc[s] = "save" /\ pc' = [pc EXCEPT ![s] = "over"]
          /\ UNCHANGED <<current, muxing, wrapper, held, playlist, dirs, jobs, settings, orderly>>
        BY <1>21 DEF SaveState, Goto, stream, memory, bounds
    <2>2. Latest' = Latest
        BY <1>21, LatestKept DEF SaveState, disk, OthersTyped
    <2>3. orderly /\ (\A t \in Session : SessionOrder(t)) /\ (\A j \in jobs : JobOrder(j))
          /\ (playlist # None => Latest = playlist)
        BY <2>1 DEF Order
    <2>4. \A t \in Session : SessionOrder(t)'
        BY <2>1, <2>2, <2>3
        DEF SessionOrder, StreamTyped, OthersTyped, Starting, History, Fresh,
            Early
    <2>5. \A j \in jobs' : JobOrder(j)'
        BY <2>1, <2>2, <2>3
        DEF JobOrder, StreamTyped, OthersTyped, Job, History, Fresh, Early
    <2>6. playlist' # None => Latest' = playlist'
        BY <2>1, <2>2, <2>3 DEF OthersTyped, SessionOrder
    <2>7. QED
        BY <2>4, <2>5, <2>6 DEF Order
<1>22. ASSUME NEW j \in jobs, ProcessLiveEnding(j) PROVE Order'
    <2>1. PICK next \in {"replay", "replace", "clean", "done"} :
              /\ JobMoves(j, next)
              /\ j.stage = "wait"
              /\ next # "done" => live
              /\ next = "replay" => settings.permanent
              /\ next = "replace" => ~settings.permanent
              /\ next \in {"replay", "replace"} =>
                    settings.saveReplay /\ j.dir # None /\ dirs[j.dir] = "filled"
              /\ next = "clean" /\ settings.saveReplay =>
                    j.dir # None /\ dirs[j.dir] = "empty"
              /\ UNCHANGED <<dirs, replays, live, playlist, state>>
        BY <1>22, ProcessEffect
    <2>2. /\ UNCHANGED <<conn, current, muxing, wrapper, aborts, orderly, memory,
                         settings, started>>
          /\ Staged(j) /\ j \in Job
        BY <1>22, LiveEndingBecomes DEF LiveEnding, OthersTyped, AllStaged
    <2>3. UNCHANGED <<pc, current, muxing, wrapper, held, started, settings, orderly>>
          /\ Latest' = Latest
        BY <2>2, LatestKept DEF memory
    <2>4. SUFFICES ASSUME orderly' PROVE Order'
        BY DEF Order
    <2>5. /\ orderly /\ (\A t \in Session : SessionOrder(t)) /\ (\A k \in jobs : JobOrder(k))
          /\ (playlist # None => Latest = playlist)
        BY <2>3, <2>4 DEF Order
    <2>6. JobOrder(j)
        BY <2>5
    <2>7. \A t \in Session : SessionOrder(t)'
        BY <2>1, <2>2, <2>3, <2>5, <2>6
        DEF SessionOrder, JobOrder, OthersTyped, Staged, Job, Normal,
            Replaced, History
    <2>8. \A k \in jobs' : JobOrder(k)'
        BY <2>1, <2>2, <2>3, <2>5, <2>6
        DEF JobMoves, JobOrder, OthersTyped, Job
    <2>9. playlist' # None => Latest' = playlist'
        BY <2>1, <2>2, <2>3, <2>5 DEF OthersTyped
    <2>10. QED
        BY <2>7, <2>8, <2>9 DEF Order
<1>23. ASSUME NEW j \in jobs, SaveReplayToExternalVideo(j) PROVE Order'
    <2>1. /\ j.stage = "replay" /\ FilesFree
          /\ UNCHANGED <<dirs, live, playlist, state>>
          /\ \/ /\ dirs[j.dir] = "none" /\ JobMoves(j, "done")
                /\ UNCHANGED replays
             \/ /\ dirs[j.dir] # "none" /\ JobMoves(j, "remove")
                /\ replays' = [replays EXCEPT ![j.dir] = @ + 1]
        BY <1>23, AssignEffect DEF SaveReplayToExternalVideo
    <2>2. /\ UNCHANGED <<conn, current, muxing, wrapper, aborts, orderly, memory,
                         settings, started>>
          /\ Staged(j) /\ j \in Job
        BY <1>23, LiveEndingBecomes DEF LiveEnding, OthersTyped, AllStaged
    <2>3. UNCHANGED <<pc, current, muxing, wrapper, held, started, settings, orderly>>
          /\ Latest' = Latest
        BY <2>2, LatestKept DEF memory
    <2>4. SUFFICES ASSUME orderly' PROVE Order'
        BY DEF Order
    <2>5. /\ orderly /\ (\A t \in Session : SessionOrder(t)) /\ (\A k \in jobs : JobOrder(k))
          /\ (playlist # None => Latest = playlist)
        BY <2>3, <2>4 DEF Order
    <2>6. JobOrder(j)
        BY <2>5
    <2>7. \A t \in Session : SessionOrder(t)'
        BY <2>1, <2>2, <2>3, <2>5, <2>6
        DEF SessionOrder, JobOrder, OthersTyped, Staged, Job, Normal,
            Replaced, History
    <2>8. \A k \in jobs' : JobOrder(k)'
        BY <2>1, <2>2, <2>3, <2>5, <2>6
        DEF JobMoves, JobOrder, OthersTyped, Job
    <2>9. playlist' # None => Latest' = playlist'
        BY <2>1, <2>2, <2>3, <2>5 DEF OthersTyped
    <2>10. QED
        BY <2>7, <2>8, <2>9 DEF Order
<1>24. ASSUME NEW j \in jobs, RemoveReplay(j) PROVE Order'
    <2>1. /\ j.stage = "remove" /\ JobMoves(j, "clean")
          /\ dirs' = [dirs EXCEPT ![j.dir] = "none"]
          /\ UNCHANGED <<replays, live, playlist, state>>
        BY <1>24, RemoveEffect
    <2>2. /\ UNCHANGED <<conn, current, muxing, wrapper, aborts, orderly, memory,
                         settings, started>>
          /\ Staged(j) /\ j \in Job
        BY <1>24, LiveEndingBecomes DEF LiveEnding, OthersTyped, AllStaged
    <2>3. UNCHANGED <<pc, current, muxing, wrapper, held, started, settings, orderly>>
          /\ Latest' = Latest
        BY <2>2, LatestKept DEF memory
    <2>4. SUFFICES ASSUME orderly' PROVE Order'
        BY DEF Order
    <2>5. /\ orderly /\ (\A t \in Session : SessionOrder(t)) /\ (\A k \in jobs : JobOrder(k))
          /\ (playlist # None => Latest = playlist)
        BY <2>3, <2>4 DEF Order
    <2>6. JobOrder(j)
        BY <2>5
    <2>7. \A t \in Session : SessionOrder(t)'
        BY <2>1, <2>2, <2>3, <2>5, <2>6
        DEF SessionOrder, JobOrder, OthersTyped, Staged, Job, Normal,
            Replaced, History
    <2>8. \A k \in jobs' : JobOrder(k)'
        BY <2>1, <2>2, <2>3, <2>5, <2>6
        DEF JobMoves, JobOrder, OthersTyped, Job
    <2>9. playlist' # None => Latest' = playlist'
        BY <2>1, <2>2, <2>3, <2>5 DEF OthersTyped
    <2>10. QED
        BY <2>7, <2>8, <2>9 DEF Order
<1>25. ASSUME NEW j \in jobs, ReplaceLiveByReplay(j) PROVE Order'
    <2>1. /\ j.stage = "replace" /\ JobMoves(j, "assign")
          /\ live' = FALSE
          /\ UNCHANGED <<replays, dirs, playlist>>
        BY <1>25, ReplaceEffect
    <2>2. /\ UNCHANGED <<conn, current, muxing, wrapper, aborts, orderly, memory,
                         settings, started>>
          /\ Staged(j) /\ j \in Job
        BY <1>25, LiveEndingBecomes DEF LiveEnding, OthersTyped, AllStaged
    <2>3. UNCHANGED <<pc, current, muxing, wrapper, held, started, settings, orderly>>
          /\ Latest' = Latest
        BY <2>2, LatestKept DEF memory
    <2>4. SUFFICES ASSUME orderly' PROVE Order'
        BY DEF Order
    <2>5. /\ orderly /\ (\A t \in Session : SessionOrder(t)) /\ (\A k \in jobs : JobOrder(k))
          /\ (playlist # None => Latest = playlist)
        BY <2>3, <2>4 DEF Order
    <2>6. JobOrder(j)
        BY <2>5
    <2>7. \A t \in Session : SessionOrder(t)'
        BY <2>1, <2>2, <2>3, <2>5, <2>6
        DEF SessionOrder, JobOrder, OthersTyped, Staged, Job, Normal,
            Replaced, History
    <2>8. \A k \in jobs' : JobOrder(k)'
        BY <2>1, <2>2, <2>3, <2>5, <2>6
        DEF JobMoves, JobOrder, OthersTyped, Job
    <2>9. playlist' # None => Latest' = playlist'
        BY <2>1, <2>2, <2>3, <2>5 DEF OthersTyped
    <2>10. QED
        BY <2>7, <2>8, <2>9 DEF Order
<1>26. ASSUME NEW j \in jobs, AssignToLive(j) PROVE Order'
    <2>1. /\ j.stage = "assign" /\ FilesFree
          /\ UNCHANGED <<dirs, live, playlist, state>>
          /\ \/ /\ dirs[j.dir] = "none" /\ JobMoves(j, "done")
                /\ UNCHANGED replays
             \/ /\ dirs[j.dir] # "none" /\ JobMoves(j, "wipe")
                /\ replays' = [replays EXCEPT ![j.dir] = @ + 1]
        BY <1>26, AssignEffect DEF AssignToLive
    <2>2. /\ UNCHANGED <<conn, current, muxing, wrapper, aborts, orderly, memory,
                         settings, started>>
          /\ Staged(j) /\ j \in Job
        BY <1>26, LiveEndingBecomes DEF LiveEnding, OthersTyped, AllStaged
    <2>3. UNCHANGED <<pc, current, muxing, wrapper, held, started, settings, orderly>>
          /\ Latest' = Latest
        BY <2>2, LatestKept DEF memory
    <2>4. SUFFICES ASSUME orderly' PROVE Order'
        BY DEF Order
    <2>5. /\ orderly /\ (\A t \in Session : SessionOrder(t)) /\ (\A k \in jobs : JobOrder(k))
          /\ (playlist # None => Latest = playlist)
        BY <2>3, <2>4 DEF Order
    <2>6. JobOrder(j)
        BY <2>5
    <2>7. \A t \in Session : SessionOrder(t)'
        BY <2>1, <2>2, <2>3, <2>5, <2>6
        DEF SessionOrder, JobOrder, OthersTyped, Staged, Job, Normal,
            Replaced, History
    <2>8. \A k \in jobs' : JobOrder(k)'
        BY <2>1, <2>2, <2>3, <2>5, <2>6
        DEF JobMoves, JobOrder, OthersTyped, Job
    <2>9. playlist' # None => Latest' = playlist'
        BY <2>1, <2>2, <2>3, <2>5 DEF OthersTyped
    <2>10. QED
        BY <2>7, <2>8, <2>9 DEF Order
<1>27. ASSUME NEW j \in jobs, RemoveBaseDirectory(j) PROVE Order'
    <2>1. /\ j.stage = "wipe" /\ JobMoves(j, "done")
          /\ dirs' = [s \in Session |-> "none"]
          /\ UNCHANGED <<replays, live, playlist, state>>
        BY <1>27, WipeEffect
    <2>2. /\ UNCHANGED <<conn, current, muxing, wrapper, aborts, orderly, memory,
                         settings, started>>
          /\ Staged(j) /\ j \in Job
        BY <1>27, LiveEndingBecomes DEF LiveEnding, OthersTyped, AllStaged
    <2>3. UNCHANGED <<pc, current, muxing, wrapper, held, started, settings, orderly>>
          /\ Latest' = Latest
        BY <2>2, LatestKept DEF memory
    <2>4. SUFFICES ASSUME orderly' PROVE Order'
        BY DEF Order
    <2>5. /\ orderly /\ (\A t \in Session : SessionOrder(t)) /\ (\A k \in jobs : JobOrder(k))
          /\ (playlist # None => Latest = playlist)
        BY <2>3, <2>4 DEF Order
    <2>6. JobOrder(j)
        BY <2>5
    <2>7. \A t \in Session : SessionOrder(t)'
        BY <2>1, <2>2, <2>3, <2>5, <2>6
        DEF SessionOrder, JobOrder, OthersTyped, Staged, Job, Normal,
            Replaced, History
    <2>8. \A k \in jobs' : JobOrder(k)'
        BY <2>1, <2>2, <2>3, <2>5, <2>6
        DEF JobMoves, JobOrder, OthersTyped, Job
    <2>9. playlist' # None => Latest' = playlist'
        BY <2>1, <2>2, <2>3, <2>5 DEF OthersTyped
    <2>10. QED
        BY <2>7, <2>8, <2>9 DEF Order
<1>28. ASSUME NEW j \in jobs, CleanupLive(j) PROVE Order'
    <2>1. /\ j.stage = "clean" /\ JobMoves(j, "done")
          /\ playlist' = IF playlist = j.playlist THEN None ELSE playlist
          /\ UNCHANGED <<replays, live, dirs, state>>
        BY <1>28, CleanupEffect
    <2>2. /\ UNCHANGED <<conn, current, muxing, wrapper, aborts, orderly, memory,
                         settings, started>>
          /\ Staged(j) /\ j \in Job
        BY <1>28, LiveEndingBecomes DEF LiveEnding, OthersTyped, AllStaged
    <2>3. UNCHANGED <<pc, current, muxing, wrapper, held, started, settings, orderly>>
          /\ Latest' = Latest
        BY <2>2, LatestKept DEF memory
    <2>4. SUFFICES ASSUME orderly' PROVE Order'
        BY DEF Order
    <2>5. /\ orderly /\ (\A t \in Session : SessionOrder(t)) /\ (\A k \in jobs : JobOrder(k))
          /\ (playlist # None => Latest = playlist)
        BY <2>3, <2>4 DEF Order
    <2>6. JobOrder(j)
        BY <2>5
    <2>7. \A t \in Session : SessionOrder(t)'
        BY <2>1, <2>2, <2>3, <2>5, <2>6
        DEF SessionOrder, JobOrder, OthersTyped, Staged, Job, Normal,
            Replaced, History
    <2>8. \A k \in jobs' : JobOrder(k)'
        BY <2>1, <2>2, <2>3, <2>5, <2>6
        DEF JobMoves, JobOrder, OthersTyped, Job
    <2>9. playlist' # None => Latest' = playlist'
        BY <2>1, <2>2, <2>3, <2>5 DEF OthersTyped
    <2>10. QED
        BY <2>7, <2>8, <2>9 DEF Order
<1>29. ASSUME Blacklist PROVE Order'
    BY <1>29, StopOrder DEF Blacklist, memory, bounds, disk
<1>30. ASSUME Restart PROVE Order'
    <2> SUFFICES ASSUME orderly' PROVE Order'
        BY DEF Order
    <2>1. /\ jobs' = { Stalled(j) : j \in jobs }
          /\ pc' = [s \in Session |-> IF pc[s] = "idle" THEN "idle" ELSE "over"]
          /\ wrapper' = [s \in Session |-> "none"]
          /\ UNCHANGED <<orderly, held, playlist, dirs, settings, started>>
        BY <1>30 DEF Restart
    <2>2. /\ \A s \in Session : wrapper'[s] # "running" /\ pc'[s] \in {"idle", "over"}
          /\ \A s \in Session : pc[s] # "idle" => pc'[s] = "over"
          /\ Latest' = Latest
        BY <2>1, LatestKept
    <2>3. /\ (\A j \in jobs : JobOrder(j)) /\ (playlist # None => Latest = playlist)
        BY <2>1 DEF Order
    <2>4. \A t \in Session : SessionOrder(t)'
        BY <2>2 DEF SessionOrder, Starting
    <2>5. ASSUME NEW k \in jobs' PROVE JobOrder(k)'
        <3>1. PICK j \in jobs : k = Stalled(j)
            BY <2>1, <2>5
        <3>2. /\ k.session = j.session /\ k.playlist = j.playlist /\ k.dir = j.dir
              /\ j \in Job
            BY <3>1 DEF Stalled, OthersTyped, Job
        <3>3. JobOrder(j)
            BY <2>3
        <3>4. UNCHANGED dirs
            BY <2>1
        <3>5. QED
            BY <2>2, <3>2, <3>3, <3>4 DEF JobOrder, Job
    <2>6. QED
        BY <2>1, <2>2, <2>3, <2>4, <2>5 DEF Order
<1>31. ASSUME EndBrokenLive PROVE Order'
    <2> SUFFICES ASSUME orderly' PROVE Order'
        BY DEF Order
    <2> DEFINE new == EndingJob(Latest, TRUE)
    <2>1. /\ orderly /\ pc[Latest] = "over"
          /\ pc' = pc /\ broken = "finish"
          /\ jobs' = jobs \/ jobs' = jobs \cup {new}
          /\ UNCHANGED <<current, muxing, wrapper, held, playlist, dirs, settings, started>>
        BY <1>31 DEF EndBrokenLive, EndSession, bounds
    <2>2. new.session = Latest /\ new.playlist = playlist /\ new.dir = ReplayDirectory
        BY DEF EndingJob
    <2> HIDE DEF new
    <2>3. Latest' = Latest
        BY <2>1, LatestKept
    <2>4. /\ (\A t \in Session : SessionOrder(t)) /\ (\A j \in jobs : JobOrder(j))
          /\ (playlist # None => Latest = playlist)
        BY <2>1 DEF Order
    <2>5. \A t \in Session : SessionOrder(t)'
        BY <2>1, <2>3, <2>4 DEF SessionOrder, OthersTyped, Starting
    <2>6. \A j \in jobs : JobOrder(j)'
        BY <2>1, <2>4 DEF JobOrder, OthersTyped, Job
    <2>7. ASSUME NEW k \in jobs', k \notin jobs PROVE JobOrder(k)'
        <3>0. k = new /\ jobs' # jobs
            BY <2>1, <2>7
        <3>1. Latest \in Session
            BY <1>31, <2>1, LatestNone DEF OthersTyped, HasStarted, Latest
        <3>2. pc'[Latest] \in {"save", "over"}
            BY <2>1, <3>0, <3>1 DEF OthersTyped
        <3>3. k.playlist # None =>
                 k.playlist = Latest /\ (k.dir = Latest \/ dirs[Latest] = "none")
            BY <2>2, <2>4, <3>0, <3>1, ReplayDirectoryFacts, NoneAssumption
            DEF OthersTyped, History
        <3>4. k.dir # None => wrapper[k.dir] # "running"
            <4>1. SUFFICES ASSUME k.dir # None, wrapper[k.dir] = "running" PROVE FALSE
                OBVIOUS
            <4>2. k.dir \in Session
                BY <2>2, <3>0, <4>1, ReplayDirectoryFacts
            <4>3. Latest = k.dir /\ pc[k.dir] = "running"
                BY <2>4, <4>1, <4>2 DEF SessionOrder, History
            <4>4. QED
                BY <2>1, <3>1, <4>3
        <3>5. QED
            BY <2>1, <2>2, <3>0, <3>2, <3>3, <3>4 DEF JobOrder
    <2>8. QED
        BY <2>1, <2>3, <2>4, <2>5, <2>6, <2>7 DEF Order
<1>32. ASSUME SaveBrokenState PROVE Order'
    <2>1. Latest' = Latest
        BY <1>32, LatestKept DEF SaveBrokenState, disk
    <2>2. QED
        BY <1>32, <2>1
        DEF SaveBrokenState, stream, memory, bounds, Order, SessionOrder,
            JobOrder
<1>33. ASSUME UNCHANGED vars PROVE Order'
    <2>1. Latest' = Latest
        BY <1>33, LatestKept DEF vars, disk
    <2>2. QED
        BY <1>33, <2>1
        DEF vars, stream, memory, disk, bounds, Order, SessionOrder, JobOrder
<1>34. ASSUME NEW s \in Session, CleanupFails(s) PROVE Order'
    <2> SUFFICES ASSUME orderly' PROVE Order'
        BY DEF Order
    <2>1. PICK next \in {"save", "over"} : pc' = [pc EXCEPT ![s] = next]
        BY <1>34, CleanupFailsEffect
    <2>2. /\ UNCHANGED <<current, muxing, wrapper, held, playlist, dirs, jobs,
                         settings, started>>
          /\ orderly /\ pc[s] \in {"finish", "save"}
        BY <1>34, CleanupFailsEffect DEF disk
    <2>3. Latest' = Latest
        BY <2>2, LatestKept
    <2>4. /\ (\A t \in Session : SessionOrder(t)) /\ (\A j \in jobs : JobOrder(j))
          /\ (playlist # None => Latest = playlist)
        BY <2>2 DEF Order
    <2>5. \A t \in Session : SessionOrder(t)'
        BY <2>1, <2>2, <2>3, <2>4 DEF SessionOrder, OthersTyped, Starting
    <2>6. \A j \in jobs' : JobOrder(j)'
        BY <2>1, <2>2, <2>4 DEF JobOrder, OthersTyped, Job
    <2>7. QED
        BY <2>2, <2>3, <2>4, <2>5, <2>6 DEF Order
<1>35. ASSUME BrokenLiveFails PROVE Order'
    <2>1. /\ UNCHANGED <<pc, current, muxing, wrapper, held, playlist, dirs, jobs,
                         settings, started>>
          /\ orderly' => orderly
        BY <1>35, BrokenLiveFailsEffect DEF disk, HasStarted
    <2>2. Latest' = Latest
        BY <2>1, LatestKept
    <2>3. QED
        BY <2>1, <2>2 DEF Order, SessionOrder, JobOrder
<1>36. ASSUME NEW j \in jobs, GenerateFails(j) PROVE Order'
    <2>1. /\ j.stage \in {"replay", "assign"} /\ FilesFree
          /\ dirs[j.dir] # "none"
          /\ JobMoves(j, IF j.stage = "replay" THEN "remove" ELSE "wipe")
          /\ lost' = lost \cup {j.dir}
          /\ UNCHANGED <<dirs, replays, live, playlist, state, torn>>
        BY <1>36, GenerateEffect
    <2>2. /\ UNCHANGED <<conn, current, muxing, wrapper, aborts, orderly, memory,
                         settings, started>>
          /\ Staged(j) /\ j \in Job
        BY <1>36, LiveEndingBecomes DEF LiveEnding, OthersTyped, AllStaged
    <2>3. UNCHANGED <<pc, current, muxing, wrapper, held, started, settings, orderly>>
          /\ Latest' = Latest
        BY <2>2, LatestKept DEF memory
    <2>4. SUFFICES ASSUME orderly' PROVE Order'
        BY DEF Order
    <2>5. /\ orderly /\ (\A t \in Session : SessionOrder(t)) /\ (\A k \in jobs : JobOrder(k))
          /\ (playlist # None => Latest = playlist)
        BY <2>3, <2>4 DEF Order
    <2>6. JobOrder(j)
        BY <2>5
    <2>7. \A t \in Session : SessionOrder(t)'
        BY <2>1, <2>3, <2>5 DEF SessionOrder
    <2>8. \A k \in jobs' : JobOrder(k)'
        BY <2>1, <2>2, <2>3, <2>5, <2>6
        DEF JobMoves, JobOrder, OthersTyped, Job
    <2>9. playlist' # None => Latest' = playlist'
        BY <2>1, <2>3, <2>5
    <2>10. QED
        BY <2>7, <2>8, <2>9 DEF Order
<1>37. ASSUME NEW j \in jobs, EndingFails(j) PROVE Order'
    <2>1. /\ JobMoves(j, "done")
          /\ live' => live
          /\ live' # live => j.stage = "replace" /\ live /\ ~live'
          /\ ~torn' => ~torn /\ j.stage \notin {"remove", "wipe"}
          /\ UNCHANGED <<dirs, replays, lost, playlist, state>>
        BY <1>37, EndingEffect
    <2>2. /\ UNCHANGED <<conn, current, muxing, wrapper, aborts, orderly, memory,
                         settings, started>>
          /\ Staged(j) /\ j \in Job
        BY <1>37, LiveEndingBecomes DEF LiveEnding, OthersTyped, AllStaged
    <2>3. UNCHANGED <<pc, current, muxing, wrapper, held, started, settings, orderly>>
          /\ Latest' = Latest
        BY <2>2, LatestKept DEF memory
    <2>4. SUFFICES ASSUME orderly' PROVE Order'
        BY DEF Order
    <2>5. /\ orderly /\ (\A t \in Session : SessionOrder(t)) /\ (\A k \in jobs : JobOrder(k))
          /\ (playlist # None => Latest = playlist)
        BY <2>3, <2>4 DEF Order
    <2>6. JobOrder(j)
        BY <2>5
    <2>7. \A t \in Session : SessionOrder(t)'
        BY <2>1, <2>3, <2>5 DEF SessionOrder
    <2>8. \A k \in jobs' : JobOrder(k)'
        BY <2>1, <2>2, <2>3, <2>5, <2>6
        DEF JobMoves, JobOrder, OthersTyped, Job
    <2>9. playlist' # None => Latest' = playlist'
        BY <2>1, <2>3, <2>5
    <2>10. QED
        BY <2>7, <2>8, <2>9 DEF Order
<1>38. QED
    BY <1>1, <1>2, <1>3, <1>4, <1>5, <1>6, <1>7, <1>8, <1>9, <1>10, <1>11,
        <1>12, <1>13, <1>14, <1>15, <1>16, <1>17, <1>18, <1>19, <1>20, <1>21,
        <1>22, <1>23, <1>24, <1>25, <1>26, <1>27, <1>28, <1>29, <1>30, <1>31,
        <1>32, <1>33, <1>34, <1>35, <1>36, <1>37
    DEF Next, HandleSession, RunMuxing, Stream, EndOfSession, LiveEnding,
        HandleBrokenLives

-----------------------------------------------------------------------------
(* Normal lives.                                                           *)

\* A live that is not orderly stays so, and its settings stay.
LEMMA OrderlyNext ==
    ASSUME StreamTyped, OthersTyped, HasStarted, [Next]_vars
    PROVE  (orderly' => orderly) /\ settings' = settings
<1>1. ASSUME NEW s \in Session, PostPublish(s) PROVE (orderly' => orderly) /\ settings' = settings
    BY <1>1 DEF PostPublish, Goto, disk, bounds, StreamTyped
<1>2. ASSUME NEW s \in Session, Unpublish(s) PROVE (orderly' => orderly) /\ settings' = settings
    BY <1>2 DEF Unpublish, memory, disk, bounds, StreamTyped
<1>3. ASSUME NEW s \in Session, AbortTimer(s) PROVE (orderly' => orderly) /\ settings' = settings
    BY <1>3, AbortEffect DEF AbortTimer, disk
<1>4. ASSUME NEW s \in Session, LoadLive(s) PROVE (orderly' => orderly) /\ settings' = settings
    BY <1>4, AbortEffect DEF LoadLive, disk, StreamTyped
<1>5. ASSUME NEW s \in Session, LoadPlaylist(s) PROVE (orderly' => orderly) /\ settings' = settings
    BY <1>5 DEF LoadPlaylist, Goto, disk, bounds, StreamTyped
<1>6. ASSUME NEW s \in Session, CleanOldLive(s) PROVE (orderly' => orderly) /\ settings' = settings
    BY <1>6 DEF CleanOldLive, Goto, bounds, StreamTyped
<1>7. ASSUME NEW s \in Session, HandlerFails(s) PROVE (orderly' => orderly) /\ settings' = settings
    BY <1>7 DEF HandlerFails, Goto, disk, StreamTyped
<1>8. ASSUME NEW s \in Session, StartSession(s) PROVE (orderly' => orderly) /\ settings' = settings
    BY <1>8 DEF StartSession, Goto, bounds, StreamTyped
<1>9. ASSUME NEW s \in Session, LoadUser(s) PROVE (orderly' => orderly) /\ settings' = settings
    BY <1>9 DEF LoadUser, Goto, disk, bounds, StreamTyped
<1>10. ASSUME NEW s \in Session, CreateLivePlaylist(s) PROVE (orderly' => orderly) /\ settings' = settings
    BY <1>10 DEF CreateLivePlaylist, Goto, stream, bounds, StreamTyped
<1>11. ASSUME NEW s \in Session, PrepareDirectories(s) PROVE (orderly' => orderly) /\ settings' = settings
    BY <1>11 DEF PrepareDirectories, Goto, bounds, StreamTyped
<1>12. ASSUME NEW s \in Session, MuxingFails(s) PROVE (orderly' => orderly) /\ settings' = settings
    <2>1. StopSession(TRUE, muxing \ {s}, wrapper) /\ settings' = settings
        BY <1>12 DEF MuxingFails, disk
    <2>2. QED
        BY <2>1, StopEffect
<1>13. ASSUME NEW s \in Session, ProcessSegment(s) PROVE (orderly' => orderly) /\ settings' = settings
    BY <1>13 DEF ProcessSegment, stream, bounds, StreamTyped
<1>14. ASSUME NEW s \in Session, PublishLive(s) PROVE (orderly' => orderly) /\ settings' = settings
    BY <1>14 DEF PublishLive, stream, bounds, StreamTyped
<1>15. ASSUME NEW s \in Session, LimitExceeded(s) PROVE (orderly' => orderly) /\ settings' = settings
    <2>1. StopSession(FALSE, muxing, wrapper) /\ settings' = settings
        BY <1>15 DEF LimitExceeded, memory, disk
    <2>2. QED
        BY <2>1, StopEffect
<1>16. ASSUME NEW s \in Session, RunnerJobOver(s) PROVE (orderly' => orderly) /\ settings' = settings
    <2>1. StopSession(FALSE, muxing, wrapper) /\ settings' = settings
        BY <1>16 DEF RunnerJobOver, memory
    <2>2. QED
        BY <2>1, StopEffect
<1>17. ASSUME NEW s \in Session, FFmpegEnds(s) PROVE (orderly' => orderly) /\ settings' = settings
    BY <1>17 DEF FFmpegEnds, memory, disk, bounds, StreamTyped
<1>18. ASSUME NEW s \in Session, FFmpegErrors(s) PROVE (orderly' => orderly) /\ settings' = settings
    <2>1. StopSession(FALSE, muxing, [wrapper EXCEPT ![s] = "errored"]) /\ settings' = settings
        BY <1>18 DEF FFmpegErrors, memory, disk
    <2>2. QED
        BY <2>1, StopEffect
<1>19. ASSUME NEW s \in Session, AfterCleanup(s) PROVE (orderly' => orderly) /\ settings' = settings
    BY <1>19 DEF AfterCleanup, Goto, disk, bounds, StreamTyped
<1>20. ASSUME NEW s \in Session, Finish(s) PROVE (orderly' => orderly) /\ settings' = settings
    BY <1>20 DEF Finish, Goto, bounds, StreamTyped
<1>21. ASSUME NEW s \in Session, SaveState(s) PROVE (orderly' => orderly) /\ settings' = settings
    BY <1>21 DEF SaveState, Goto, stream, bounds, StreamTyped
<1>22. ASSUME NEW j \in jobs, ProcessLiveEnding(j) PROVE (orderly' => orderly) /\ settings' = settings
    BY <1>22, LiveEndingBecomes DEF LiveEnding
<1>23. ASSUME NEW j \in jobs, SaveReplayToExternalVideo(j) PROVE (orderly' => orderly) /\ settings' = settings
    BY <1>23, LiveEndingBecomes DEF LiveEnding
<1>24. ASSUME NEW j \in jobs, RemoveReplay(j) PROVE (orderly' => orderly) /\ settings' = settings
    BY <1>24, LiveEndingBecomes DEF LiveEnding
<1>25. ASSUME NEW j \in jobs, ReplaceLiveByReplay(j) PROVE (orderly' => orderly) /\ settings' = settings
    BY <1>25, LiveEndingBecomes DEF LiveEnding
<1>26. ASSUME NEW j \in jobs, AssignToLive(j) PROVE (orderly' => orderly) /\ settings' = settings
    BY <1>26, LiveEndingBecomes DEF LiveEnding
<1>27. ASSUME NEW j \in jobs, RemoveBaseDirectory(j) PROVE (orderly' => orderly) /\ settings' = settings
    BY <1>27, LiveEndingBecomes DEF LiveEnding
<1>28. ASSUME NEW j \in jobs, CleanupLive(j) PROVE (orderly' => orderly) /\ settings' = settings
    BY <1>28, LiveEndingBecomes DEF LiveEnding
<1>29. ASSUME Blacklist PROVE (orderly' => orderly) /\ settings' = settings
    <2>1. StopSession(FALSE, muxing, wrapper) /\ settings' = settings
        BY <1>29 DEF Blacklist, memory
    <2>2. QED
        BY <2>1, StopEffect
<1>30. ASSUME Restart PROVE (orderly' => orderly) /\ settings' = settings
    BY <1>30 DEF Restart, StreamTyped
<1>31. ASSUME EndBrokenLive PROVE (orderly' => orderly) /\ settings' = settings
    BY <1>31 DEF EndBrokenLive, bounds, StreamTyped
<1>32. ASSUME SaveBrokenState PROVE (orderly' => orderly) /\ settings' = settings
    BY <1>32 DEF SaveBrokenState, stream, bounds, StreamTyped
<1>33. ASSUME UNCHANGED vars PROVE (orderly' => orderly) /\ settings' = settings
    BY <1>33 DEF vars, stream, memory, disk, bounds, StreamTyped
<1>34. ASSUME NEW s \in Session, CleanupFails(s) PROVE (orderly' => orderly) /\ settings' = settings
    BY <1>34, CleanupFailsEffect DEF disk
<1>35. ASSUME BrokenLiveFails PROVE (orderly' => orderly) /\ settings' = settings
    BY <1>35, BrokenLiveFailsEffect DEF disk, HasStarted
<1>36. ASSUME NEW j \in jobs, GenerateFails(j) PROVE (orderly' => orderly) /\ settings' = settings
    BY <1>36, LiveEndingBecomes DEF LiveEnding
<1>37. ASSUME NEW j \in jobs, EndingFails(j) PROVE (orderly' => orderly) /\ settings' = settings
    BY <1>37, LiveEndingBecomes DEF LiveEnding
<1>38. QED
    BY <1>1, <1>2, <1>3, <1>4, <1>5, <1>6, <1>7, <1>8, <1>9, <1>10, <1>11,
        <1>12, <1>13, <1>14, <1>15, <1>16, <1>17, <1>18, <1>19, <1>20, <1>21,
        <1>22, <1>23, <1>24, <1>25, <1>26, <1>27, <1>28, <1>29, <1>30, <1>31,
        <1>32, <1>33, <1>34, <1>35, <1>36, <1>37
    DEF Next, HandleSession, RunMuxing, Stream, EndOfSession, LiveEnding,
        HandleBrokenLives

\* Every step keeps Normal.
LEMMA NormalNext ==
    ASSUME StreamTyped, OthersTyped, HasStarted, History, AllStaged,
           Order, Normal, [Next]_vars
    PROVE  Normal'
<1>1. ASSUME NEW s \in Session, PostPublish(s) PROVE Normal'
    <2> SUFFICES ASSUME orderly', ~settings'.permanent PROVE Normal'
        BY DEF Normal
    <2>1. /\ orderly /\ ~settings.permanent /\ settings' = settings
          /\ (\A t \in Session : NormalSession(t)) /\ (\A k \in jobs : NormalJob(k))
          /\ Replaced
        BY OrderlyNext DEF Normal
    <2>2. (\A t \in Session : SessionOrder(t)) /\ (\A k \in jobs : JobOrder(k))
        BY <2>1 DEF Order
    <2>3. /\ pc[s] \in {"idle"} /\ pc' = [pc EXCEPT ![s] = "load"]
          /\ UNCHANGED <<dirs, playlist, jobs, live>>
        BY <1>1 DEF PostPublish, Goto, memory, disk, bounds
    <2>4. \A t \in Session : NormalSession(t)'
        BY <2>1, <2>3 DEF NormalSession, OthersTyped
    <2>5. \A k \in jobs' : NormalJob(k)'
        BY <2>1, <2>2, <2>3 DEF NormalJob, OthersTyped, Job
    <2>6. Replaced'
        BY <2>1, <2>3 DEF Replaced, OthersTyped
    <2>7. QED
        BY <2>4, <2>5, <2>6 DEF Normal
<1>2. ASSUME NEW s \in Session, Unpublish(s) PROVE Normal'
    <2> SUFFICES ASSUME orderly', ~settings'.permanent PROVE Normal'
        BY DEF Normal
    <2>1. /\ orderly /\ ~settings.permanent /\ settings' = settings
          /\ (\A t \in Session : NormalSession(t)) /\ (\A k \in jobs : NormalJob(k))
          /\ Replaced
        BY OrderlyNext DEF Normal
    <2>2. (\A t \in Session : SessionOrder(t)) /\ (\A k \in jobs : JobOrder(k))
        BY <2>1 DEF Order
    <2>3. /\ pc' = pc
          /\ UNCHANGED <<dirs, playlist, jobs, live>>
        BY <1>2 DEF Unpublish, memory, disk, bounds
    <2>4. \A t \in Session : NormalSession(t)'
        BY <2>1, <2>3 DEF NormalSession, OthersTyped
    <2>5. \A k \in jobs' : NormalJob(k)'
        BY <2>1, <2>2, <2>3 DEF NormalJob, OthersTyped, Job
    <2>6. Replaced'
        BY <2>1, <2>3 DEF Replaced, OthersTyped
    <2>7. QED
        BY <2>4, <2>5, <2>6 DEF Normal
<1>3. ASSUME NEW s \in Session, AbortTimer(s) PROVE Normal'
    <2> SUFFICES ASSUME orderly', ~settings'.permanent PROVE Normal'
        BY DEF Normal
    <2>1. /\ orderly /\ ~settings.permanent /\ settings' = settings
          /\ (\A t \in Session : NormalSession(t)) /\ (\A k \in jobs : NormalJob(k))
          /\ Replaced
        BY OrderlyNext DEF Normal
    <2>2. (\A t \in Session : SessionOrder(t)) /\ (\A k \in jobs : JobOrder(k))
        BY <2>1 DEF Order
    <2>3. /\ pc' = pc
          /\ UNCHANGED <<dirs, playlist, jobs, live>>
        BY <1>3 DEF AbortTimer, memory, disk, bounds
    <2>4. \A t \in Session : NormalSession(t)'
        BY <2>1, <2>3 DEF NormalSession, OthersTyped
    <2>5. \A k \in jobs' : NormalJob(k)'
        BY <2>1, <2>2, <2>3 DEF NormalJob, OthersTyped, Job
    <2>6. Replaced'
        BY <2>1, <2>3 DEF Replaced, OthersTyped
    <2>7. QED
        BY <2>4, <2>5, <2>6 DEF Normal
<1>4. ASSUME NEW s \in Session, LoadLive(s) PROVE Normal'
    <2> SUFFICES ASSUME orderly', ~settings'.permanent PROVE Normal'
        BY DEF Normal
    <2>1. /\ orderly /\ ~settings.permanent /\ settings' = settings
          /\ (\A t \in Session : NormalSession(t)) /\ (\A k \in jobs : NormalJob(k))
          /\ Replaced
        BY OrderlyNext DEF Normal
    <2>2. (\A t \in Session : SessionOrder(t)) /\ (\A k \in jobs : JobOrder(k))
        BY <2>1 DEF Order
    <2>3. /\ pc[s] = "load"
          /\ pc' = [pc EXCEPT ![s] = "playlist"] \/ pc' = [pc EXCEPT ![s] = "over"]
          /\ UNCHANGED <<dirs, playlist, jobs, live>>
        BY <1>4 DEF LoadLive, Goto, memory, disk, bounds
    <2>4. \A t \in Session : NormalSession(t)'
        BY <2>1, <2>3 DEF NormalSession, OthersTyped
    <2>5. \A k \in jobs' : NormalJob(k)'
        BY <2>1, <2>2, <2>3 DEF NormalJob, OthersTyped, Job
    <2>6. Replaced'
        BY <2>1, <2>3 DEF Replaced, OthersTyped
    <2>7. QED
        BY <2>4, <2>5, <2>6 DEF Normal
<1>5. ASSUME NEW s \in Session, LoadPlaylist(s) PROVE Normal'
    <2> SUFFICES ASSUME orderly', ~settings'.permanent PROVE Normal'
        BY DEF Normal
    <2>1. /\ orderly /\ ~settings.permanent /\ settings' = settings
          /\ (\A t \in Session : NormalSession(t)) /\ (\A k \in jobs : NormalJob(k))
          /\ Replaced
        BY OrderlyNext DEF Normal
    <2>2. (\A t \in Session : SessionOrder(t)) /\ (\A k \in jobs : JobOrder(k))
        BY <2>1 DEF Order
    <2>3. /\ pc[s] = "playlist"
          /\ \/ pc' = [pc EXCEPT ![s] = "probe"] /\ playlist = None
             \/ pc' = [pc EXCEPT ![s] = "clean"]
             \/ pc' = [pc EXCEPT ![s] = "over"]
          /\ UNCHANGED <<dirs, playlist, jobs, live>>
        BY <1>5 DEF LoadPlaylist, Goto, memory, disk, bounds
    <2>4. \A t \in Session : NormalSession(t)'
        BY <2>1, <2>3 DEF NormalSession, OthersTyped
    <2>5. \A k \in jobs' : NormalJob(k)'
        BY <2>1, <2>2, <2>3 DEF NormalJob, OthersTyped, Job
    <2>6. Replaced'
        BY <2>1, <2>3 DEF Replaced, OthersTyped
    <2>7. QED
        BY <2>4, <2>5, <2>6 DEF Normal
<1>6. ASSUME NEW s \in Session, CleanOldLive(s) PROVE Normal'
    <2>1. settings.permanent /\ settings' = settings
        BY <1>6, OrderlyNext DEF CleanOldLive, History
    <2>2. QED
        BY <2>1 DEF Normal
<1>7. ASSUME NEW s \in Session, HandlerFails(s) PROVE Normal'
    <2> SUFFICES ASSUME orderly', ~settings'.permanent PROVE Normal'
        BY DEF Normal
    <2>1. /\ orderly /\ ~settings.permanent /\ settings' = settings
          /\ (\A t \in Session : NormalSession(t)) /\ (\A k \in jobs : NormalJob(k))
          /\ Replaced
        BY OrderlyNext DEF Normal
    <2>2. (\A t \in Session : SessionOrder(t)) /\ (\A k \in jobs : JobOrder(k))
        BY <2>1 DEF Order
    <2>3. /\ pc' = [pc EXCEPT ![s] = "over"]
          /\ UNCHANGED <<dirs, playlist, jobs, live>>
        BY <1>7 DEF HandlerFails, Goto, memory, disk
    <2>4. \A t \in Session : NormalSession(t)'
        BY <2>1, <2>3 DEF NormalSession, OthersTyped
    <2>5. \A k \in jobs' : NormalJob(k)'
        BY <2>1, <2>2, <2>3 DEF NormalJob, OthersTyped, Job
    <2>6. Replaced'
        BY <2>1, <2>3 DEF Replaced, OthersTyped
    <2>7. QED
        BY <2>4, <2>5, <2>6 DEF Normal
<1>8. ASSUME NEW s \in Session, StartSession(s) PROVE Normal'
    <2> SUFFICES ASSUME orderly', ~settings'.permanent PROVE Normal'
        BY DEF Normal
    <2>1. /\ orderly /\ ~settings.permanent /\ settings' = settings
          /\ (\A t \in Session : NormalSession(t)) /\ (\A k \in jobs : NormalJob(k))
          /\ Replaced
        BY OrderlyNext DEF Normal
    <2>2. (\A t \in Session : SessionOrder(t)) /\ (\A k \in jobs : JobOrder(k))
        BY <2>1 DEF Order
    <2>3. /\ pc[s] \in {"probe"} /\ pc' = [pc EXCEPT ![s] = "user"]
          /\ UNCHANGED <<dirs, playlist, jobs, live>>
        BY <1>8 DEF StartSession, Goto, memory, bounds
    <2>4. \A t \in Session : NormalSession(t)'
        BY <2>1, <2>3 DEF NormalSession, OthersTyped
    <2>5. \A k \in jobs' : NormalJob(k)'
        BY <2>1, <2>2, <2>3 DEF NormalJob, OthersTyped, Job
    <2>6. Replaced'
        BY <2>1, <2>3 DEF Replaced, OthersTyped
    <2>7. QED
        BY <2>4, <2>5, <2>6 DEF Normal
<1>9. ASSUME NEW s \in Session, LoadUser(s) PROVE Normal'
    <2> SUFFICES ASSUME orderly', ~settings'.permanent PROVE Normal'
        BY DEF Normal
    <2>1. /\ orderly /\ ~settings.permanent /\ settings' = settings
          /\ (\A t \in Session : NormalSession(t)) /\ (\A k \in jobs : NormalJob(k))
          /\ Replaced
        BY OrderlyNext DEF Normal
    <2>2. (\A t \in Session : SessionOrder(t)) /\ (\A k \in jobs : JobOrder(k))
        BY <2>1 DEF Order
    <2>3. /\ pc[s] \in {"user"} /\ pc' = [pc EXCEPT ![s] = "generate"]
          /\ UNCHANGED <<dirs, playlist, jobs, live>>
        BY <1>9 DEF LoadUser, Goto, memory, disk, bounds
    <2>4. \A t \in Session : NormalSession(t)'
        BY <2>1, <2>3 DEF NormalSession, OthersTyped
    <2>5. \A k \in jobs' : NormalJob(k)'
        BY <2>1, <2>2, <2>3 DEF NormalJob, OthersTyped, Job
    <2>6. Replaced'
        BY <2>1, <2>3 DEF Replaced, OthersTyped
    <2>7. QED
        BY <2>4, <2>5, <2>6 DEF Normal
<1>10. ASSUME NEW s \in Session, CreateLivePlaylist(s) PROVE Normal'
    <2> SUFFICES ASSUME orderly', ~settings'.permanent PROVE Normal'
        BY DEF Normal
    <2>1. /\ orderly /\ ~settings.permanent /\ settings' = settings
          /\ (\A t \in Session : NormalSession(t)) /\ (\A k \in jobs : NormalJob(k))
          /\ Replaced
        BY OrderlyNext DEF Normal
    <2>2. (\A t \in Session : SessionOrder(t)) /\ (\A k \in jobs : JobOrder(k))
        BY <2>1 DEF Order
    <2>3. /\ pc[s] = "generate" /\ pc' = [pc EXCEPT ![s] = "directories"]
          /\ playlist' = IF playlist = None THEN s ELSE playlist
          /\ UNCHANGED <<dirs, jobs, live>>
        BY <1>10 DEF CreateLivePlaylist, Goto, stream, memory, bounds
    <2>4. \A t \in Session : NormalSession(t)'
        BY <2>1, <2>2, <2>3, NoneAssumption
        DEF NormalSession, SessionOrder, OthersTyped
    <2>5. \A k \in jobs' : NormalJob(k)'
        BY <2>1, <2>2, <2>3, NoneAssumption
        DEF NormalJob, SessionOrder, JobOrder, OthersTyped, Job, AllStaged,
            Staged, Replaced, History, Fresh
    <2>6. Replaced'
        BY <2>1, <2>3 DEF Replaced, OthersTyped
    <2>7. QED
        BY <2>4, <2>5, <2>6 DEF Normal
<1>11. ASSUME NEW s \in Session, PrepareDirectories(s) PROVE Normal'
    <2> SUFFICES ASSUME orderly', ~settings'.permanent PROVE Normal'
        BY DEF Normal
    <2>1. /\ orderly /\ ~settings.permanent /\ settings' = settings
          /\ (\A t \in Session : NormalSession(t)) /\ (\A k \in jobs : NormalJob(k))
          /\ Replaced
        BY OrderlyNext DEF Normal
    <2>2. (\A t \in Session : SessionOrder(t)) /\ (\A k \in jobs : JobOrder(k))
        BY <2>1 DEF Order
    <2>3. /\ pc[s] = "directories" /\ pc' = [pc EXCEPT ![s] = "running"]
          /\ dirs' = dirs \/ dirs' = [dirs EXCEPT ![s] = "empty"]
          /\ UNCHANGED <<playlist, jobs, live>>
        BY <1>11 DEF PrepareDirectories, Goto, memory, bounds
    <2>4. \A t \in Session : NormalSession(t)'
        BY <2>1, <2>2, <2>3, NoneAssumption
        DEF NormalSession, SessionOrder, OthersTyped
    <2>5. \A k \in jobs' : NormalJob(k)'
        BY <2>1, <2>2, <2>3, NoneAssumption
        DEF NormalJob, SessionOrder, JobOrder, OthersTyped, Job, AllStaged,
            Staged, Replaced, History, Fresh
    <2>6. Replaced'
        BY <2>1, <2>3 DEF Replaced, OthersTyped
    <2>7. QED
        BY <2>4, <2>5, <2>6 DEF Normal
<1>12. ASSUME NEW s \in Session, MuxingFails(s) PROVE Normal'
    <2> SUFFICES ASSUME orderly', ~settings'.permanent PROVE Normal'
        BY DEF Normal
    <2>1. /\ orderly /\ ~settings.permanent /\ settings' = settings
          /\ (\A t \in Session : NormalSession(t)) /\ (\A k \in jobs : NormalJob(k))
          /\ Replaced
        BY OrderlyNext DEF Normal
    <2>2. (\A t \in Session : SessionOrder(t)) /\ (\A k \in jobs : JobOrder(k))
        BY <2>1 DEF Order
    <2>3. /\ pc' = [pc EXCEPT ![s] = "over"]
          /\ UNCHANGED <<dirs, playlist, jobs, live>>
        BY <1>12 DEF MuxingFails, Goto, memory, disk
    <2>4. \A t \in Session : NormalSession(t)'
        BY <2>1, <2>3 DEF NormalSession, OthersTyped
    <2>5. \A k \in jobs' : NormalJob(k)'
        BY <2>1, <2>2, <2>3 DEF NormalJob, OthersTyped, Job
    <2>6. Replaced'
        BY <2>1, <2>3 DEF Replaced, OthersTyped
    <2>7. QED
        BY <2>4, <2>5, <2>6 DEF Normal
<1>13. ASSUME NEW s \in Session, ProcessSegment(s) PROVE Normal'
    <2> SUFFICES ASSUME orderly', ~settings'.permanent PROVE Normal'
        BY DEF Normal
    <2>1. /\ orderly /\ ~settings.permanent /\ settings' = settings
          /\ (\A t \in Session : NormalSession(t)) /\ (\A k \in jobs : NormalJob(k))
          /\ Replaced
        BY OrderlyNext DEF Normal
    <2>2. (\A t \in Session : SessionOrder(t)) /\ (\A k \in jobs : JobOrder(k))
        BY <2>1 DEF Order
    <2>3. /\ pc[s] \in {"running", "finish"} /\ UNCHANGED <<pc, playlist, jobs, live>>
          /\ dirs' = dirs \/ dirs' = [dirs EXCEPT ![s] = "filled"]
        BY <1>13 DEF ProcessSegment, stream, memory, bounds
    <2>4. \A t \in Session : NormalSession(t)'
        BY <2>1, <2>2, <2>3, NoneAssumption
        DEF NormalSession, SessionOrder, OthersTyped
    <2>5. \A k \in jobs' : NormalJob(k)'
        BY SMTT(30), <2>1, <2>2, <2>3, NoneAssumption
        DEF NormalJob, SessionOrder, JobOrder, OthersTyped, Job, AllStaged,
            Staged, Replaced, History, Fresh
    <2>6. Replaced'
        BY <2>1, <2>3 DEF Replaced, OthersTyped
    <2>7. QED
        BY <2>4, <2>5, <2>6 DEF Normal
<1>14. ASSUME NEW s \in Session, PublishLive(s) PROVE Normal'
    <2> SUFFICES ASSUME orderly', ~settings'.permanent PROVE Normal'
        BY DEF Normal
    <2>1. /\ orderly /\ ~settings.permanent /\ settings' = settings
          /\ (\A t \in Session : NormalSession(t)) /\ (\A k \in jobs : NormalJob(k))
          /\ Replaced
        BY OrderlyNext DEF Normal
    <2>2. (\A t \in Session : SessionOrder(t)) /\ (\A k \in jobs : JobOrder(k))
        BY <2>1 DEF Order
    <2>3. /\ pc' = pc
          /\ UNCHANGED <<dirs, playlist, jobs, live>>
        BY <1>14 DEF PublishLive, stream, memory, bounds
    <2>4. \A t \in Session : NormalSession(t)'
        BY <2>1, <2>3 DEF NormalSession, OthersTyped
    <2>5. \A k \in jobs' : NormalJob(k)'
        BY <2>1, <2>2, <2>3 DEF NormalJob, OthersTyped, Job
    <2>6. Replaced'
        BY <2>1, <2>3 DEF Replaced, OthersTyped
    <2>7. QED
        BY <2>4, <2>5, <2>6 DEF Normal
<1>15. ASSUME NEW s \in Session, LimitExceeded(s) PROVE Normal'
    <2> SUFFICES ASSUME orderly', ~settings'.permanent PROVE Normal'
        BY DEF Normal
    <2>1. /\ orderly /\ ~settings.permanent /\ settings' = settings
          /\ (\A t \in Session : NormalSession(t)) /\ (\A k \in jobs : NormalJob(k))
          /\ Replaced
        BY OrderlyNext DEF Normal
    <2>2. (\A t \in Session : SessionOrder(t)) /\ (\A k \in jobs : JobOrder(k))
        BY <2>1 DEF Order
    <2>3. /\ pc' = pc
          /\ UNCHANGED <<dirs, playlist, jobs, live>>
        BY <1>15 DEF LimitExceeded, memory, disk
    <2>4. \A t \in Session : NormalSession(t)'
        BY <2>1, <2>3 DEF NormalSession, OthersTyped
    <2>5. \A k \in jobs' : NormalJob(k)'
        BY <2>1, <2>2, <2>3 DEF NormalJob, OthersTyped, Job
    <2>6. Replaced'
        BY <2>1, <2>3 DEF Replaced, OthersTyped
    <2>7. QED
        BY <2>4, <2>5, <2>6 DEF Normal
<1>16. ASSUME NEW s \in Session, RunnerJobOver(s) PROVE Normal'
    <2> SUFFICES ASSUME orderly', ~settings'.permanent PROVE Normal'
        BY DEF Normal
    <2>1. /\ orderly /\ ~settings.permanent /\ settings' = settings
          /\ (\A t \in Session : NormalSession(t)) /\ (\A k \in jobs : NormalJob(k))
          /\ Replaced
        BY OrderlyNext DEF Normal
    <2>2. (\A t \in Session : SessionOrder(t)) /\ (\A k \in jobs : JobOrder(k))
        BY <2>1 DEF Order
    <2>3. /\ pc' = pc
          /\ UNCHANGED <<dirs, playlist, jobs, live>>
        BY <1>16 DEF RunnerJobOver, memory, bounds
    <2>4. \A t \in Session : NormalSession(t)'
        BY <2>1, <2>3 DEF NormalSession, OthersTyped
    <2>5. \A k \in jobs' : NormalJob(k)'
        BY <2>1, <2>2, <2>3 DEF NormalJob, OthersTyped, Job
    <2>6. Replaced'
        BY <2>1, <2>3 DEF Replaced, OthersTyped
    <2>7. QED
        BY <2>4, <2>5, <2>6 DEF Normal
<1>17. ASSUME NEW s \in Session, FFmpegEnds(s) PROVE Normal'
    <2> SUFFICES ASSUME orderly', ~settings'.permanent PROVE Normal'
        BY DEF Normal
    <2>1. /\ orderly /\ ~settings.permanent /\ settings' = settings
          /\ (\A t \in Session : NormalSession(t)) /\ (\A k \in jobs : NormalJob(k))
          /\ Replaced
        BY OrderlyNext DEF Normal
    <2>2. (\A t \in Session : SessionOrder(t)) /\ (\A k \in jobs : JobOrder(k))
        BY <2>1 DEF Order
    <2>3. /\ pc' = pc
          /\ UNCHANGED <<dirs, playlist, jobs, live>>
        BY <1>17 DEF FFmpegEnds, memory, disk, bounds
    <2>4. \A t \in Session : NormalSession(t)'
        BY <2>1, <2>3 DEF NormalSession, OthersTyped
    <2>5. \A k \in jobs' : NormalJob(k)'
        BY <2>1, <2>2, <2>3 DEF NormalJob, OthersTyped, Job
    <2>6. Replaced'
        BY <2>1, <2>3 DEF Replaced, OthersTyped
    <2>7. QED
        BY <2>4, <2>5, <2>6 DEF Normal
<1>18. ASSUME NEW s \in Session, FFmpegErrors(s) PROVE Normal'
    <2> SUFFICES ASSUME orderly', ~settings'.permanent PROVE Normal'
        BY DEF Normal
    <2>1. /\ orderly /\ ~settings.permanent /\ settings' = settings
          /\ (\A t \in Session : NormalSession(t)) /\ (\A k \in jobs : NormalJob(k))
          /\ Replaced
        BY OrderlyNext DEF Normal
    <2>2. (\A t \in Session : SessionOrder(t)) /\ (\A k \in jobs : JobOrder(k))
        BY <2>1 DEF Order
    <2>3. /\ pc' = pc
          /\ UNCHANGED <<dirs, playlist, jobs, live>>
        BY <1>18 DEF FFmpegErrors, memory, disk
    <2>4. \A t \in Session : NormalSession(t)'
        BY <2>1, <2>3 DEF NormalSession, OthersTyped
    <2>5. \A k \in jobs' : NormalJob(k)'
        BY <2>1, <2>2, <2>3 DEF NormalJob, OthersTyped, Job
    <2>6. Replaced'
        BY <2>1, <2>3 DEF Replaced, OthersTyped
    <2>7. QED
        BY <2>4, <2>5, <2>6 DEF Normal
<1>19. ASSUME NEW s \in Session, AfterCleanup(s) PROVE Normal'
    <2> SUFFICES ASSUME orderly', ~settings'.permanent PROVE Normal'
        BY DEF Normal
    <2>1. /\ orderly /\ ~settings.permanent /\ settings' = settings
          /\ (\A t \in Session : NormalSession(t)) /\ (\A k \in jobs : NormalJob(k))
          /\ Replaced
        BY OrderlyNext DEF Normal
    <2>2. (\A t \in Session : SessionOrder(t)) /\ (\A k \in jobs : JobOrder(k))
        BY <2>1 DEF Order
    <2>3. /\ pc[s] \in {"running"} /\ pc' = [pc EXCEPT ![s] = "finish"]
          /\ UNCHANGED <<dirs, playlist, jobs, live>>
        BY <1>19 DEF AfterCleanup, Goto, memory, disk, bounds
    <2>4. \A t \in Session : NormalSession(t)'
        BY <2>1, <2>3 DEF NormalSession, OthersTyped
    <2>5. \A k \in jobs' : NormalJob(k)'
        BY <2>1, <2>2, <2>3 DEF NormalJob, OthersTyped, Job
    <2>6. Replaced'
        BY <2>1, <2>3 DEF Replaced, OthersTyped
    <2>7. QED
        BY <2>4, <2>5, <2>6 DEF Normal
<1>20. ASSUME NEW s \in Session, Finish(s) PROVE Normal'
    <2> SUFFICES ASSUME orderly', ~settings'.permanent PROVE Normal'
        BY DEF Normal
    <2>1. /\ orderly /\ ~settings.permanent /\ settings' = settings
          /\ (\A t \in Session : NormalSession(t)) /\ (\A k \in jobs : NormalJob(k))
          /\ Replaced
        BY OrderlyNext DEF Normal
    <2>2. (\A t \in Session : SessionOrder(t)) /\ (\A k \in jobs : JobOrder(k))
        BY <2>1 DEF Order
    <2> DEFINE new == EndingJob(s, FALSE)
    <2>3. /\ pc[s] = "finish"
          /\ pc' = [pc EXCEPT ![s] = "save"] \/ pc' = [pc EXCEPT ![s] = "over"]
          /\ jobs' = jobs \/ jobs' = jobs \cup {new}
          /\ UNCHANGED <<dirs, playlist, live>>
        BY <1>20 DEF Finish, EndSession, Goto, bounds
    <2>4. /\ Latest = s
        BY <1>20 DEF Finish
    <2>5. new.stage = "wait" /\ new.dir = ReplayDirectory
        BY DEF EndingJob
    <2> HIDE DEF new
    <2>6. \A t \in Session : NormalSession(t)'
        BY <2>1, <2>3 DEF NormalSession, OthersTyped
    <2>7. ASSUME NEW k \in jobs PROVE NormalJob(k)'
        BY <2>1, <2>3 DEF NormalJob, OthersTyped, Job
    <2>8. ASSUME NEW k, k = new PROVE NormalJob(k)'
        <3>1. k.dir # None => /\ k.dir \in Session /\ dirs[k.dir] # "none"
                              /\ dirs[k.dir] = "none" \/ pc[k.dir] \in {"running", "finish", "save", "over"}
            BY <2>5, <2>8, ReplayDirectoryFacts
            DEF History, Fresh, Early, OthersTyped, Step
        <3>2. ASSUME k.dir # None, pc[k.dir] \in {"running", "finish"} PROVE k.dir = Latest
            BY <2>1, <3>1, <3>2, NoneAssumption DEF NormalSession, Order
        <3>3. k.dir # None => pc'[k.dir] \in {"save", "over"}
            BY <2>3, <2>4, <3>1, <3>2 DEF OthersTyped
        <3>4. QED
            BY <2>5, <2>8, <3>3 DEF NormalJob
    <2>9. Replaced'
        BY <1>20, <2>1, <2>3, <2>5
        DEF Replaced, OthersTyped, Finish, EndSession
    <2>10. QED
        BY <2>3, <2>6, <2>7, <2>8, <2>9 DEF Normal
<1>21. ASSUME NEW s \in Session, SaveState(s) PROVE Normal'
    <2> SUFFICES ASSUME orderly', ~settings'.permanent PROVE Normal'
        BY DEF Normal
    <2>1. /\ orderly /\ ~settings.permanent /\ settings' = settings
          /\ (\A t \in Session : NormalSession(t)) /\ (\A k \in jobs : NormalJob(k))
          /\ Replaced
        BY OrderlyNext DEF Normal
    <2>2. (\A t \in Session : SessionOrder(t)) /\ (\A k \in jobs : JobOrder(k))
        BY <2>1 DEF Order
    <2>3. /\ pc[s] \in {"save"} /\ pc' = [pc EXCEPT ![s] = "over"]
          /\ UNCHANGED <<dirs, playlist, jobs, live>>
        BY <1>21 DEF SaveState, Goto, stream, memory, bounds
    <2>4. \A t \in Session : NormalSession(t)'
        BY <2>1, <2>3 DEF NormalSession, OthersTyped
    <2>5. \A k \in jobs' : NormalJob(k)'
        BY <2>1, <2>2, <2>3 DEF NormalJob, OthersTyped, Job
    <2>6. Replaced'
        BY <2>1, <2>3 DEF Replaced, OthersTyped
    <2>7. QED
        BY <2>4, <2>5, <2>6 DEF Normal
<1>22. ASSUME NEW j \in jobs, ProcessLiveEnding(j) PROVE Normal'
    <2>1. PICK next \in {"replay", "replace", "clean", "done"} :
              /\ JobMoves(j, next)
              /\ j.stage = "wait"
              /\ next # "done" => live
              /\ next = "replay" => settings.permanent
              /\ next = "replace" => ~settings.permanent
              /\ next \in {"replay", "replace"} =>
                    settings.saveReplay /\ j.dir # None /\ dirs[j.dir] = "filled"
              /\ next = "clean" /\ settings.saveReplay =>
                    j.dir # None /\ dirs[j.dir] = "empty"
              /\ UNCHANGED <<dirs, replays, live, playlist, state>>
        BY <1>22, ProcessEffect
    <2>2. /\ UNCHANGED <<conn, current, muxing, wrapper, aborts, orderly, memory,
                         settings, started>>
          /\ Staged(j) /\ j \in Job
        BY <1>22, LiveEndingBecomes DEF LiveEnding, OthersTyped, AllStaged
    <2>3. UNCHANGED <<pc, settings, orderly>> /\ j.dir \in Session \cup {None}
          /\ j.session \in Session
        BY <2>2 DEF memory, Job
    <2>4. SUFFICES ASSUME orderly', ~settings'.permanent PROVE Normal'
        BY DEF Normal
    <2>5. /\ orderly /\ ~settings.permanent
          /\ (\A t \in Session : NormalSession(t)) /\ (\A k \in jobs : NormalJob(k))
          /\ Replaced
        BY <2>3, <2>4 DEF Normal
    <2>6. JobOrder(j) /\ NormalJob(j)
        BY <2>5 DEF Order
    <2>7. \A t \in Session : NormalSession(t)'
        BY <2>1, <2>2, <2>3, <2>5, <2>6
        DEF NormalSession, NormalJob, JobOrder, OthersTyped, Staged
    <2>8. \A k \in jobs : k \in Job /\ Staged(k) /\ NormalJob(k)
        BY <2>5 DEF AllStaged, OthersTyped
    <2>9. \A k \in jobs' : NormalJob(k)'
        BY <2>1, <2>2, <2>3, <2>5, <2>6, <2>8
        DEF JobMoves, NormalSession, NormalJob, JobOrder, OthersTyped, Job,
            Staged, Replaced, History
    <2>10. Replaced'
        BY <2>1, <2>2, <2>3, <2>5, <2>6, <2>8, NoneAssumption
        DEF JobMoves, NormalSession, NormalJob, OthersTyped, Staged, Replaced,
            Order, SessionOrder
    <2>11. QED
        BY <2>7, <2>9, <2>10 DEF Normal
<1>23. ASSUME NEW j \in jobs, SaveReplayToExternalVideo(j) PROVE Normal'
    <2>1. /\ j.stage = "replay" /\ FilesFree
          /\ UNCHANGED <<dirs, live, playlist, state>>
          /\ \/ /\ dirs[j.dir] = "none" /\ JobMoves(j, "done")
                /\ UNCHANGED replays
             \/ /\ dirs[j.dir] # "none" /\ JobMoves(j, "remove")
                /\ replays' = [replays EXCEPT ![j.dir] = @ + 1]
        BY <1>23, AssignEffect DEF SaveReplayToExternalVideo
    <2>2. /\ UNCHANGED <<conn, current, muxing, wrapper, aborts, orderly, memory,
                         settings, started>>
          /\ Staged(j) /\ j \in Job
        BY <1>23, LiveEndingBecomes DEF LiveEnding, OthersTyped, AllStaged
    <2>3. UNCHANGED <<pc, settings, orderly>> /\ j.dir \in Session \cup {None}
          /\ j.session \in Session
        BY <2>2 DEF memory, Job
    <2>4. SUFFICES ASSUME orderly', ~settings'.permanent PROVE Normal'
        BY DEF Normal
    <2>5. /\ orderly /\ ~settings.permanent
          /\ (\A t \in Session : NormalSession(t)) /\ (\A k \in jobs : NormalJob(k))
          /\ Replaced
        BY <2>3, <2>4 DEF Normal
    <2>6. JobOrder(j) /\ NormalJob(j)
        BY <2>5 DEF Order
    <2>7. \A t \in Session : NormalSession(t)'
        BY <2>1, <2>2, <2>3, <2>5, <2>6
        DEF NormalSession, NormalJob, JobOrder, OthersTyped, Staged
    <2>8. \A k \in jobs : k \in Job /\ Staged(k) /\ NormalJob(k)
        BY <2>5 DEF AllStaged, OthersTyped
    <2>9. \A k \in jobs' : NormalJob(k)'
        BY <2>1, <2>2, <2>3, <2>5, <2>6, <2>8
        DEF JobMoves, NormalSession, NormalJob, JobOrder, OthersTyped, Job,
            Staged, Replaced, History
    <2>10. Replaced'
        BY <2>1, <2>2, <2>3, <2>5, <2>6, <2>8, NoneAssumption
        DEF JobMoves, NormalSession, NormalJob, OthersTyped, Staged, Replaced,
            Order, SessionOrder
    <2>11. QED
        BY <2>7, <2>9, <2>10 DEF Normal
<1>24. ASSUME NEW j \in jobs, RemoveReplay(j) PROVE Normal'
    <2>1. /\ j.stage = "remove" /\ JobMoves(j, "clean")
          /\ dirs' = [dirs EXCEPT ![j.dir] = "none"]
          /\ UNCHANGED <<replays, live, playlist, state>>
        BY <1>24, RemoveEffect
    <2>2. /\ UNCHANGED <<conn, current, muxing, wrapper, aborts, orderly, memory,
                         settings, started>>
          /\ Staged(j) /\ j \in Job
        BY <1>24, LiveEndingBecomes DEF LiveEnding, OthersTyped, AllStaged
    <2>3. UNCHANGED <<pc, settings, orderly>> /\ j.dir \in Session \cup {None}
          /\ j.session \in Session
        BY <2>2 DEF memory, Job
    <2>4. SUFFICES ASSUME orderly', ~settings'.permanent PROVE Normal'
        BY DEF Normal
    <2>5. /\ orderly /\ ~settings.permanent
          /\ (\A t \in Session : NormalSession(t)) /\ (\A k \in jobs : NormalJob(k))
          /\ Replaced
        BY <2>3, <2>4 DEF Normal
    <2>6. JobOrder(j) /\ NormalJob(j)
        BY <2>5 DEF Order
    <2>7. \A t \in Session : NormalSession(t)'
        BY <2>1, <2>2, <2>3, <2>5, <2>6
        DEF NormalSession, NormalJob, JobOrder, OthersTyped, Staged
    <2>8. \A k \in jobs : k \in Job /\ Staged(k) /\ NormalJob(k)
        BY <2>5 DEF AllStaged, OthersTyped
    <2>9. \A k \in jobs' : NormalJob(k)'
        BY <2>1, <2>2, <2>3, <2>5, <2>6, <2>8
        DEF JobMoves, NormalSession, NormalJob, JobOrder, OthersTyped, Job,
            Staged, Replaced, History
    <2>10. Replaced'
        BY <2>1, <2>2, <2>3, <2>5, <2>6, <2>8, NoneAssumption
        DEF JobMoves, NormalSession, NormalJob, OthersTyped, Staged, Replaced,
            Order, SessionOrder
    <2>11. QED
        BY <2>7, <2>9, <2>10 DEF Normal
<1>25. ASSUME NEW j \in jobs, ReplaceLiveByReplay(j) PROVE Normal'
    <2>1. /\ j.stage = "replace" /\ JobMoves(j, "assign")
          /\ live' = FALSE
          /\ UNCHANGED <<replays, dirs, playlist>>
        BY <1>25, ReplaceEffect
    <2>2. /\ UNCHANGED <<conn, current, muxing, wrapper, aborts, orderly, memory,
                         settings, started>>
          /\ Staged(j) /\ j \in Job
        BY <1>25, LiveEndingBecomes DEF LiveEnding, OthersTyped, AllStaged
    <2>3. UNCHANGED <<pc, settings, orderly>> /\ j.dir \in Session \cup {None}
          /\ j.session \in Session
        BY <2>2 DEF memory, Job
    <2>4. SUFFICES ASSUME orderly', ~settings'.permanent PROVE Normal'
        BY DEF Normal
    <2>5. /\ orderly /\ ~settings.permanent
          /\ (\A t \in Session : NormalSession(t)) /\ (\A k \in jobs : NormalJob(k))
          /\ Replaced
        BY <2>3, <2>4 DEF Normal
    <2>6. JobOrder(j) /\ NormalJob(j)
        BY <2>5 DEF Order
    <2>7. \A t \in Session : NormalSession(t)'
        BY <2>1, <2>2, <2>3, <2>5, <2>6
        DEF NormalSession, NormalJob, JobOrder, OthersTyped, Staged
    <2>8. \A k \in jobs : k \in Job /\ Staged(k) /\ NormalJob(k)
        BY <2>5 DEF AllStaged, OthersTyped
    <2>9. \A k \in jobs' : NormalJob(k)'
        BY <2>1, <2>2, <2>3, <2>5, <2>6, <2>8
        DEF JobMoves, NormalSession, NormalJob, JobOrder, OthersTyped, Job,
            Staged, Replaced, History
    <2>10. Replaced'
        <3>1. \A k \in jobs' : k.stage = "clean" => k \in jobs
            BY <2>1 DEF JobMoves
        <3>2. CASE ~live
            BY <2>1, <2>3, <2>5, <3>1, <3>2 DEF Replaced
        <3>3. CASE live
            <4>1. dirs[j.dir] = "filled" /\ j.dir = playlist /\ j.dir \in Session
                BY <2>1, <2>2, <2>3, <2>6, <3>3 DEF NormalJob, Staged
            <4>2. pc[playlist] \in {"save", "over"} /\ playlist # None
                BY <2>6, <4>1, NoneAssumption DEF NormalJob
            <4>3. (\A t \in Session : SessionOrder(t)) /\ (\A k \in jobs : JobOrder(k))
                BY <2>5 DEF Order
            <4>4. \A t \in Session : pc[t] \notin {"probe", "user", "generate",
                                                "directories", "running", "finish"}
                BY <2>5, <4>2, <4>3 DEF SessionOrder, NormalSession
            <4>5. \A k \in jobs : k.stage = "clean" => k.playlist # playlist
                BY <2>5, <4>1, <4>2, <4>3 DEF NormalJob, JobOrder
            <4>6. QED
                BY <2>1, <2>3, <3>1, <4>2, <4>4, <4>5 DEF Replaced
        <3>4. QED
            BY <3>2, <3>3
    <2>11. QED
        BY <2>7, <2>9, <2>10 DEF Normal
<1>26. ASSUME NEW j \in jobs, AssignToLive(j) PROVE Normal'
    <2>1. /\ j.stage = "assign" /\ FilesFree
          /\ UNCHANGED <<dirs, live, playlist, state>>
          /\ \/ /\ dirs[j.dir] = "none" /\ JobMoves(j, "done")
                /\ UNCHANGED replays
             \/ /\ dirs[j.dir] # "none" /\ JobMoves(j, "wipe")
                /\ replays' = [replays EXCEPT ![j.dir] = @ + 1]
        BY <1>26, AssignEffect DEF AssignToLive
    <2>2. /\ UNCHANGED <<conn, current, muxing, wrapper, aborts, orderly, memory,
                         settings, started>>
          /\ Staged(j) /\ j \in Job
        BY <1>26, LiveEndingBecomes DEF LiveEnding, OthersTyped, AllStaged
    <2>3. UNCHANGED <<pc, settings, orderly>> /\ j.dir \in Session \cup {None}
          /\ j.session \in Session
        BY <2>2 DEF memory, Job
    <2>4. SUFFICES ASSUME orderly', ~settings'.permanent PROVE Normal'
        BY DEF Normal
    <2>5. /\ orderly /\ ~settings.permanent
          /\ (\A t \in Session : NormalSession(t)) /\ (\A k \in jobs : NormalJob(k))
          /\ Replaced
        BY <2>3, <2>4 DEF Normal
    <2>6. JobOrder(j) /\ NormalJob(j)
        BY <2>5 DEF Order
    <2>7. \A t \in Session : NormalSession(t)'
        BY <2>1, <2>2, <2>3, <2>5, <2>6
        DEF NormalSession, NormalJob, JobOrder, OthersTyped, Staged
    <2>8. \A k \in jobs : k \in Job /\ Staged(k) /\ NormalJob(k)
        BY <2>5 DEF AllStaged, OthersTyped
    <2>9. \A k \in jobs' : NormalJob(k)'
        BY <2>1, <2>2, <2>3, <2>5, <2>6, <2>8
        DEF JobMoves, NormalSession, NormalJob, JobOrder, OthersTyped, Job,
            Staged, Replaced, History
    <2>10. Replaced'
        BY <2>1, <2>2, <2>3, <2>5, <2>6, <2>8, NoneAssumption
        DEF JobMoves, NormalSession, NormalJob, OthersTyped, Staged, Replaced,
            Order, SessionOrder
    <2>11. QED
        BY <2>7, <2>9, <2>10 DEF Normal
<1>27. ASSUME NEW j \in jobs, RemoveBaseDirectory(j) PROVE Normal'
    <2>1. /\ j.stage = "wipe" /\ JobMoves(j, "done")
          /\ dirs' = [s \in Session |-> "none"]
          /\ UNCHANGED <<replays, live, playlist, state>>
        BY <1>27, WipeEffect
    <2>2. /\ UNCHANGED <<conn, current, muxing, wrapper, aborts, orderly, memory,
                         settings, started>>
          /\ Staged(j) /\ j \in Job
        BY <1>27, LiveEndingBecomes DEF LiveEnding, OthersTyped, AllStaged
    <2>3. UNCHANGED <<pc, settings, orderly>> /\ j.dir \in Session \cup {None}
          /\ j.session \in Session
        BY <2>2 DEF memory, Job
    <2>4. SUFFICES ASSUME orderly', ~settings'.permanent PROVE Normal'
        BY DEF Normal
    <2>5. /\ orderly /\ ~settings.permanent
          /\ (\A t \in Session : NormalSession(t)) /\ (\A k \in jobs : NormalJob(k))
          /\ Replaced
        BY <2>3, <2>4 DEF Normal
    <2>6. JobOrder(j) /\ NormalJob(j)
        BY <2>5 DEF Order
    <2>7. \A t \in Session : NormalSession(t)'
        BY <2>1, <2>2, <2>3, <2>5, <2>6
        DEF NormalSession, NormalJob, JobOrder, OthersTyped, Staged
    <2>8. \A k \in jobs : k \in Job /\ Staged(k) /\ NormalJob(k)
        BY <2>5 DEF AllStaged, OthersTyped
    <2>9. \A k \in jobs' : NormalJob(k)'
        BY <2>1, <2>2, <2>3, <2>5, <2>6, <2>8
        DEF JobMoves, NormalSession, NormalJob, JobOrder, OthersTyped, Job,
            Staged, Replaced, History
    <2>10. Replaced'
        BY <2>1, <2>2, <2>3, <2>5, <2>6, <2>8, NoneAssumption
        DEF JobMoves, NormalSession, NormalJob, OthersTyped, Staged, Replaced,
            Order, SessionOrder
    <2>11. QED
        BY <2>7, <2>9, <2>10 DEF Normal
<1>28. ASSUME NEW j \in jobs, CleanupLive(j) PROVE Normal'
    <2>1. /\ j.stage = "clean" /\ JobMoves(j, "done")
          /\ playlist' = IF playlist = j.playlist THEN None ELSE playlist
          /\ UNCHANGED <<replays, live, dirs, state>>
        BY <1>28, CleanupEffect
    <2>2. /\ UNCHANGED <<conn, current, muxing, wrapper, aborts, orderly, memory,
                         settings, started>>
          /\ Staged(j) /\ j \in Job
        BY <1>28, LiveEndingBecomes DEF LiveEnding, OthersTyped, AllStaged
    <2>3. UNCHANGED <<pc, settings, orderly>> /\ j.dir \in Session \cup {None}
          /\ j.session \in Session
        BY <2>2 DEF memory, Job
    <2>4. SUFFICES ASSUME orderly', ~settings'.permanent PROVE Normal'
        BY DEF Normal
    <2>5. /\ orderly /\ ~settings.permanent
          /\ (\A t \in Session : NormalSession(t)) /\ (\A k \in jobs : NormalJob(k))
          /\ Replaced
        BY <2>3, <2>4 DEF Normal
    <2>6. JobOrder(j) /\ NormalJob(j)
        BY <2>5 DEF Order
    <2>7. \A t \in Session : NormalSession(t)'
        BY <2>1, <2>2, <2>3, <2>5, <2>6
        DEF NormalSession, NormalJob, JobOrder, OthersTyped, Staged
    <2>8. \A k \in jobs : k \in Job /\ Staged(k) /\ NormalJob(k)
        BY <2>5 DEF AllStaged, OthersTyped
    <2>9. \A k \in jobs' : NormalJob(k)'
        BY <2>1, <2>2, <2>3, <2>5, <2>6, <2>8
        DEF JobMoves, NormalSession, NormalJob, JobOrder, OthersTyped, Job,
            Staged, Replaced, History
    <2>10. Replaced'
        BY <2>1, <2>2, <2>3, <2>5, <2>6, <2>8, NoneAssumption
        DEF JobMoves, NormalSession, NormalJob, OthersTyped, Staged, Replaced,
            Order, SessionOrder
    <2>11. QED
        BY <2>7, <2>9, <2>10 DEF Normal
<1>29. ASSUME Blacklist PROVE Normal'
    <2> SUFFICES ASSUME orderly', ~settings'.permanent PROVE Normal'
        BY DEF Normal
    <2>1. /\ orderly /\ ~settings.permanent /\ settings' = settings
          /\ (\A t \in Session : NormalSession(t)) /\ (\A k \in jobs : NormalJob(k))
          /\ Replaced
        BY OrderlyNext DEF Normal
    <2>2. (\A t \in Session : SessionOrder(t)) /\ (\A k \in jobs : JobOrder(k))
        BY <2>1 DEF Order
    <2>3. /\ pc' = pc
          /\ UNCHANGED <<dirs, playlist, jobs, live>>
        BY <1>29 DEF Blacklist, memory
    <2>4. \A t \in Session : NormalSession(t)'
        BY <2>1, <2>3 DEF NormalSession, OthersTyped
    <2>5. \A k \in jobs' : NormalJob(k)'
        BY <2>1, <2>2, <2>3 DEF NormalJob, OthersTyped, Job
    <2>6. Replaced'
        BY <2>1, <2>3 DEF Replaced, OthersTyped
    <2>7. QED
        BY <2>4, <2>5, <2>6 DEF Normal
<1>30. ASSUME Restart PROVE Normal'
    <2> SUFFICES ASSUME orderly', ~settings'.permanent PROVE Normal'
        BY DEF Normal
    <2>1. /\ orderly /\ ~settings.permanent /\ settings' = settings
          /\ (\A t \in Session : NormalSession(t)) /\ (\A k \in jobs : NormalJob(k))
          /\ Replaced
        BY OrderlyNext DEF Normal
    <2>2. (\A t \in Session : SessionOrder(t)) /\ (\A k \in jobs : JobOrder(k))
        BY <2>1 DEF Order
    <2>3. /\ jobs' = { Stalled(j) : j \in jobs }
          /\ pc' = [s \in Session |-> IF pc[s] = "idle" THEN "idle" ELSE "over"]
          /\ UNCHANGED <<playlist, dirs, live>>
        BY <1>30 DEF Restart
    <2>4. \A t \in Session : /\ pc'[t] \in {"idle", "over"}
                             /\ pc[t] # "idle" => pc'[t] = "over"
        BY <2>3
    <2>5. UNCHANGED <<playlist, dirs, live>>
        BY <2>3
    <2>6. \A t \in Session : NormalSession(t)'
        BY <2>1, <2>4, <2>5 DEF NormalSession
    <2>7. ASSUME NEW k \in jobs' PROVE NormalJob(k)' /\ k.stage = "wait"
        <3>1. PICK j \in jobs : k = Stalled(j)
            BY <2>3, <2>7
        <3>2. k.dir = j.dir /\ k.stage = "wait" /\ j \in Job
            BY <3>1 DEF Stalled, OthersTyped, Job
        <3>3. j.dir # None => pc[j.dir] \in {"save", "over"} /\ j.dir \in Session
            BY <2>1, <3>2 DEF NormalJob, Job
        <3>4. QED
            BY <2>4, <3>2, <3>3 DEF NormalJob
    <2>8. Replaced'
        BY <2>1, <2>4, <2>5, <2>7 DEF Replaced
    <2>9. QED
        BY <2>6, <2>7, <2>8 DEF Normal
<1>31. ASSUME EndBrokenLive PROVE Normal'
    <2> SUFFICES ASSUME orderly', ~settings'.permanent PROVE Normal'
        BY DEF Normal
    <2>1. /\ orderly /\ ~settings.permanent /\ settings' = settings
          /\ (\A t \in Session : NormalSession(t)) /\ (\A k \in jobs : NormalJob(k))
          /\ Replaced
        BY OrderlyNext DEF Normal
    <2>2. (\A t \in Session : SessionOrder(t)) /\ (\A k \in jobs : JobOrder(k))
        BY <2>1 DEF Order
    <2> DEFINE new == EndingJob(Latest, TRUE)
    <2>3. /\ pc' = pc
          /\ jobs' = jobs \/ jobs' = jobs \cup {new}
          /\ UNCHANGED <<dirs, playlist, live>>
        BY <1>31 DEF EndBrokenLive, EndSession, bounds
    <2>4. /\ pc[Latest] = "over"
        BY <1>31 DEF EndBrokenLive
    <2>5. new.stage = "wait" /\ new.dir = ReplayDirectory
        BY DEF EndingJob
    <2> HIDE DEF new
    <2>6. \A t \in Session : NormalSession(t)'
        BY <2>1, <2>3 DEF NormalSession, OthersTyped
    <2>7. ASSUME NEW k \in jobs PROVE NormalJob(k)'
        BY <2>1, <2>3 DEF NormalJob, OthersTyped, Job
    <2>8. ASSUME NEW k, k = new PROVE NormalJob(k)'
        <3>1. k.dir # None => /\ k.dir \in Session /\ dirs[k.dir] # "none"
                              /\ dirs[k.dir] = "none" \/ pc[k.dir] \in {"running", "finish", "save", "over"}
            BY <2>5, <2>8, ReplayDirectoryFacts
            DEF History, Fresh, Early, OthersTyped, Step
        <3>2. ASSUME k.dir # None, pc[k.dir] \in {"running", "finish"} PROVE k.dir = Latest
            BY <2>1, <3>1, <3>2, NoneAssumption DEF NormalSession, Order
        <3>3. k.dir # None => pc'[k.dir] \in {"save", "over"}
            BY <2>3, <2>4, <3>1, <3>2 DEF OthersTyped
        <3>4. QED
            BY <2>5, <2>8, <3>3 DEF NormalJob
    <2>9. Replaced'
        BY <1>31, <2>1, <2>3, <2>5
        DEF Replaced, OthersTyped, EndBrokenLive, EndSession
    <2>10. QED
        BY <2>3, <2>6, <2>7, <2>8, <2>9 DEF Normal
<1>32. ASSUME SaveBrokenState PROVE Normal'
    <2> SUFFICES ASSUME orderly', ~settings'.permanent PROVE Normal'
        BY DEF Normal
    <2>1. /\ orderly /\ ~settings.permanent /\ settings' = settings
          /\ (\A t \in Session : NormalSession(t)) /\ (\A k \in jobs : NormalJob(k))
          /\ Replaced
        BY OrderlyNext DEF Normal
    <2>2. (\A t \in Session : SessionOrder(t)) /\ (\A k \in jobs : JobOrder(k))
        BY <2>1 DEF Order
    <2>3. /\ pc' = pc
          /\ UNCHANGED <<dirs, playlist, jobs, live>>
        BY <1>32 DEF SaveBrokenState, stream, memory, bounds
    <2>4. \A t \in Session : NormalSession(t)'
        BY <2>1, <2>3 DEF NormalSession, OthersTyped
    <2>5. \A k \in jobs' : NormalJob(k)'
        BY <2>1, <2>2, <2>3 DEF NormalJob, OthersTyped, Job
    <2>6. Replaced'
        BY <2>1, <2>3 DEF Replaced, OthersTyped
    <2>7. QED
        BY <2>4, <2>5, <2>6 DEF Normal
<1>33. ASSUME UNCHANGED vars PROVE Normal'
    <2> SUFFICES ASSUME orderly', ~settings'.permanent PROVE Normal'
        BY DEF Normal
    <2>1. /\ orderly /\ ~settings.permanent /\ settings' = settings
          /\ (\A t \in Session : NormalSession(t)) /\ (\A k \in jobs : NormalJob(k))
          /\ Replaced
        BY OrderlyNext DEF Normal
    <2>2. (\A t \in Session : SessionOrder(t)) /\ (\A k \in jobs : JobOrder(k))
        BY <2>1 DEF Order
    <2>3. /\ pc' = pc
          /\ UNCHANGED <<dirs, playlist, jobs, live>>
        BY <1>33 DEF vars, stream, memory, disk, bounds
    <2>4. \A t \in Session : NormalSession(t)'
        BY <2>1, <2>3 DEF NormalSession, OthersTyped
    <2>5. \A k \in jobs' : NormalJob(k)'
        BY <2>1, <2>2, <2>3 DEF NormalJob, OthersTyped, Job
    <2>6. Replaced'
        BY <2>1, <2>3 DEF Replaced, OthersTyped
    <2>7. QED
        BY <2>4, <2>5, <2>6 DEF Normal
<1>34. ASSUME NEW s \in Session, CleanupFails(s) PROVE Normal'
    <2> SUFFICES ASSUME orderly', ~settings'.permanent PROVE Normal'
        BY DEF Normal
    <2>1. /\ orderly /\ ~settings.permanent /\ settings' = settings
          /\ (\A t \in Session : NormalSession(t)) /\ (\A k \in jobs : NormalJob(k))
          /\ Replaced
        BY OrderlyNext DEF Normal
    <2>2. PICK next \in {"save", "over"} : pc' = [pc EXCEPT ![s] = next]
        BY <1>34, CleanupFailsEffect
    <2>3. UNCHANGED <<dirs, playlist, jobs, live>>
        BY <1>34, CleanupFailsEffect DEF disk
    <2>4. \A t \in Session : NormalSession(t)'
        BY <2>1, <2>2, <2>3 DEF NormalSession, OthersTyped
    <2>5. \A k \in jobs' : NormalJob(k)'
        BY <2>1, <2>2, <2>3 DEF NormalJob, OthersTyped, Job
    <2>6. Replaced'
        BY <2>1, <2>2, <2>3 DEF Replaced, OthersTyped
    <2>7. QED
        BY <2>4, <2>5, <2>6 DEF Normal
<1>35. ASSUME BrokenLiveFails PROVE Normal'
    <2> SUFFICES ASSUME orderly', ~settings'.permanent PROVE Normal'
        BY DEF Normal
    <2>1. /\ orderly /\ ~settings.permanent /\ settings' = settings
          /\ (\A t \in Session : NormalSession(t)) /\ (\A k \in jobs : NormalJob(k))
          /\ Replaced
        BY OrderlyNext DEF Normal
    <2>2. UNCHANGED <<pc, dirs, playlist, jobs, live>>
        BY <1>35, BrokenLiveFailsEffect DEF disk, HasStarted
    <2>3. QED
        BY <2>1, <2>2 DEF Normal, NormalSession, NormalJob, Replaced
<1>36. ASSUME NEW j \in jobs, GenerateFails(j) PROVE Normal'
    <2>1. /\ j.stage \in {"replay", "assign"} /\ FilesFree
          /\ dirs[j.dir] # "none"
          /\ JobMoves(j, IF j.stage = "replay" THEN "remove" ELSE "wipe")
          /\ lost' = lost \cup {j.dir}
          /\ UNCHANGED <<dirs, replays, live, playlist, state, torn>>
        BY <1>36, GenerateEffect
    <2>2. /\ UNCHANGED <<conn, current, muxing, wrapper, aborts, orderly, memory,
                         settings, started>>
          /\ Staged(j) /\ j \in Job
        BY <1>36, LiveEndingBecomes DEF LiveEnding, OthersTyped, AllStaged
    <2>3. UNCHANGED <<pc, settings, orderly>> /\ j.dir \in Session \cup {None}
          /\ j.session \in Session
        BY <2>2 DEF memory, Job
    <2>4. SUFFICES ASSUME orderly', ~settings'.permanent PROVE Normal'
        BY DEF Normal
    <2>5. /\ orderly /\ ~settings.permanent
          /\ (\A t \in Session : NormalSession(t)) /\ (\A k \in jobs : NormalJob(k))
          /\ Replaced
        BY <2>3, <2>4 DEF Normal
    <2>6. NormalJob(j)
        BY <2>5
    <2>7. \A t \in Session : NormalSession(t)'
        BY <2>1, <2>3, <2>5 DEF NormalSession
    <2>8. \A k \in jobs : k \in Job /\ Staged(k) /\ NormalJob(k)
        BY <2>5 DEF AllStaged, OthersTyped
    <2>9. \A k \in jobs' : NormalJob(k)'
        BY <2>1, <2>2, <2>3, <2>5, <2>6, <2>8
        DEF JobMoves, NormalJob, OthersTyped, Job, Staged
    <2>10. Replaced'
        BY <2>1, <2>3, <2>5 DEF JobMoves, Replaced
    <2>11. QED
        BY <2>7, <2>9, <2>10 DEF Normal
<1>37. ASSUME NEW j \in jobs, EndingFails(j) PROVE Normal'
    <2>1. /\ JobMoves(j, "done")
          /\ live' => live
          /\ live' # live => j.stage = "replace" /\ live /\ ~live'
          /\ ~torn' => ~torn /\ j.stage \notin {"remove", "wipe"}
          /\ UNCHANGED <<dirs, replays, lost, playlist, state>>
        BY <1>37, EndingEffect
    <2>2. /\ UNCHANGED <<conn, current, muxing, wrapper, aborts, orderly, memory,
                         settings, started>>
          /\ Staged(j) /\ j \in Job
        BY <1>37, LiveEndingBecomes DEF LiveEnding, OthersTyped, AllStaged
    <2>3. UNCHANGED <<pc, settings, orderly>> /\ j.dir \in Session \cup {None}
          /\ j.session \in Session
        BY <2>2 DEF memory, Job
    <2>4. SUFFICES ASSUME orderly', ~settings'.permanent PROVE Normal'
        BY DEF Normal
    <2>5. /\ orderly /\ ~settings.permanent
          /\ (\A t \in Session : NormalSession(t)) /\ (\A k \in jobs : NormalJob(k))
          /\ Replaced
        BY <2>3, <2>4 DEF Normal
    <2>6. NormalJob(j)
        BY <2>5
    <2>7. \A t \in Session : NormalSession(t)'
        BY <2>1, <2>3, <2>5 DEF NormalSession
    <2>8. \A k \in jobs : k \in Job /\ Staged(k) /\ NormalJob(k)
        BY <2>5 DEF AllStaged, OthersTyped
    <2>9. \A k \in jobs' : NormalJob(k)'
        BY <2>1, <2>2, <2>3, <2>5, <2>6, <2>8
        DEF JobMoves, NormalJob, OthersTyped, Job, Staged
    <2>10. Replaced'
        <3>0. CASE live' = live
            BY <2>1, <2>3, <2>5, <3>0 DEF JobMoves, Replaced
        <3>1. CASE live' # live
            <4>0. j.stage = "replace" /\ live
                BY <2>1, <3>1 DEF OthersTyped
            <4>1. dirs[j.dir] = "filled" /\ j.dir = playlist /\ j.dir \in Session
                BY <2>2, <2>3, <2>6, <4>0 DEF NormalJob, Staged
            <4>2. pc[playlist] \in {"save", "over"} /\ playlist # None
                BY <2>6, <4>1, NoneAssumption DEF NormalJob
            <4>3. (\A t \in Session : SessionOrder(t)) /\ (\A k \in jobs : JobOrder(k))
                BY <2>5 DEF Order
            <4>4. \A t \in Session : pc[t] \notin {"probe", "user", "generate",
                                                "directories", "running", "finish"}
                BY <2>5, <4>2, <4>3 DEF SessionOrder, NormalSession
            <4>5. \A k \in jobs : k.stage = "clean" => k.playlist # playlist
                BY <2>5, <4>1, <4>2, <4>3 DEF NormalJob, JobOrder
            <4>6. \A k \in jobs' : k \in jobs
                BY <2>1 DEF JobMoves
            <4>7. QED
                BY <2>1, <2>3, <4>2, <4>4, <4>5, <4>6 DEF Replaced
        <3>2. QED
            BY <3>0, <3>1
    <2>11. QED
        BY <2>7, <2>9, <2>10 DEF Normal
<1>38. QED
    BY <1>1, <1>2, <1>3, <1>4, <1>5, <1>6, <1>7, <1>8, <1>9, <1>10, <1>11,
        <1>12, <1>13, <1>14, <1>15, <1>16, <1>17, <1>18, <1>19, <1>20, <1>21,
        <1>22, <1>23, <1>24, <1>25, <1>26, <1>27, <1>28, <1>29, <1>30, <1>31,
        <1>32, <1>33, <1>34, <1>35, <1>36, <1>37
    DEF Next, HandleSession, RunMuxing, Stream, EndOfSession, LiveEnding,
        HandleBrokenLives

\* The invariant.
Inv ==
    /\ StreamTyped /\ OthersTyped
    /\ JobKeys /\ HasStarted
    /\ History /\ AllStaged /\ Once
    /\ Order /\ Normal

\* The steps that may change a replay directory.
LEMMA DirsSteps ==
    ASSUME [Next]_vars
    PROVE  \/ UNCHANGED dirs
           \/ \E t \in Session : PrepareDirectories(t) \/ ProcessSegment(t)
           \/ \E j \in jobs : RemoveReplay(j) \/ RemoveBaseDirectory(j)
<1>1. ASSUME NEW s \in Session,
             \/ PostPublish(s) \/ Unpublish(s) \/ AbortTimer(s) \/ LoadLive(s)
             \/ LoadPlaylist(s) \/ CleanOldLive(s) \/ HandlerFails(s)
             \/ StartSession(s) \/ LoadUser(s) \/ CreateLivePlaylist(s)
             \/ MuxingFails(s) \/ PublishLive(s) \/ LimitExceeded(s)
             \/ RunnerJobOver(s) \/ FFmpegEnds(s) \/ FFmpegErrors(s)
             \/ AfterCleanup(s) \/ Finish(s) \/ SaveState(s) \/ CleanupFails(s)
      PROVE  UNCHANGED dirs
    BY <1>1, Zenon
    DEF PostPublish, Unpublish, AbortTimer, LoadLive, LoadPlaylist,
        CleanOldLive,
        HandlerFails, StartSession, LoadUser, CreateLivePlaylist, MuxingFails,
        PublishLive, LimitExceeded, RunnerJobOver, FFmpegEnds, FFmpegErrors,
        AfterCleanup, Finish, SaveState, CleanupFails, disk
<1>2. ASSUME NEW j \in jobs,
             \/ ProcessLiveEnding(j) \/ SaveReplayToExternalVideo(j)
             \/ ReplaceLiveByReplay(j) \/ AssignToLive(j) \/ CleanupLive(j)
             \/ GenerateFails(j) \/ EndingFails(j)
      PROVE  UNCHANGED dirs
    BY <1>2, Zenon
    DEF ProcessLiveEnding, SaveReplayToExternalVideo, AssignReplay,
        ReplaceLiveByReplay, AssignToLive, CleanupLive, GenerateFails, EndingFails
<1>3. ASSUME Blacklist \/ Restart \/ HandleBrokenLives \/ UNCHANGED vars
      PROVE  UNCHANGED dirs
    BY <1>3, Zenon
    DEF Blacklist, Restart, HandleBrokenLives, EndBrokenLive, SaveBrokenState,
        BrokenLiveFails, vars, disk
<1>4. QED
    BY <1>1, <1>2, <1>3
    DEF Next, HandleSession, RunMuxing, Stream, EndOfSession, LiveEnding

-----------------------------------------------------------------------------
(* The invariant holds, and the properties follow.                         *)

\* The invariant holds at the start.
LEMMA Initially == Init => Inv
<1> SUFFICES ASSUME Init PROVE Inv
    OBVIOUS
<1>1. StreamTyped
    BY DEF Init, StreamTyped, Wrapper, NoRow
<1>2. OthersTyped
    <2>1. started \in Seq(Session)
        BY DEF Init
    <2>2. settings \in Settings /\ pc \in [Session -> Step]
        BY DEF Init, Step
    <2>3. restarts + failures <= MaxFaults
        BY BoundAssumption DEF Init
    <2>4. QED
        BY <2>1, <2>2, <2>3 DEF Init, OthersTyped, State
<1>3. JobKeys /\ HasStarted /\ AllStaged /\ Once
    BY DEF Init, JobKeys, Keys, HasStarted, AllStaged, Once, Made
<1>4. History
    BY NoneAssumption DEF Init, History, Fresh, Early
<1>5. Order
    BY DEF Init, Order, SessionOrder, Starting
<1>6. Normal
    BY DEF Init, Normal, NormalSession, Replaced
<1>7. QED
    BY <1>1, <1>2, <1>3, <1>4, <1>5, <1>6 DEF Inv

\* Every step keeps the invariant.
LEMMA Inductive == Inv /\ [Next]_vars => Inv'
<1> SUFFICES ASSUME Inv, [Next]_vars PROVE Inv'
    OBVIOUS
<1>1. /\ StreamTyped /\ OthersTyped /\ JobKeys /\ HasStarted /\ History /\ AllStaged
      /\ Once /\ Order /\ Normal
    BY DEF Inv
<1>2. StreamTyped' /\ OthersTyped'
    BY <1>1, StreamTypedNext, OthersTypedNext DEF HasStarted
<1>3. JobKeys' /\ HasStarted'
    BY <1>1, JobKeysNext, HasStartedNext
<1>4. History' /\ AllStaged' /\ Once'
    BY <1>1, HistoryNext, StagedNext, OnceNext
<1>5. Order' /\ Normal'
    BY <1>1, OrderNext, NormalNext
<1>6. QED
    BY <1>2, <1>3, <1>4, <1>5 DEF Inv

\* The invariant always holds.
LEMMA InvHolds == Spec => []Inv
<1>1. Init => Inv
    BY Initially
<1>2. Inv /\ [Next]_vars => Inv'
    BY Inductive
<1>3. QED
    BY <1>1, <1>2, PTL DEF Spec

\* TypeOK always holds; in particular a session has one ending job at most of
\* each kind in a run of the server.
THEOREM TypeInvariant == Spec => []TypeOK
<1>1. Inv => TypeOK
    BY TypeParts DEF Inv, OthersTyped, JobKeys
<1>2. QED
    BY <1>1, InvHolds, PTL

\* Unless a session was overtaken, at most one session streams to a live,
\* although the map that postPublish checks is emptied by whatever stops a
\* session (live-manager.ts:253).
THEOREM StreamsAreNeverTwo == Spec => []OneStream
<1>1. Inv => OneStream
    <2> SUFFICES ASSUME Inv, orderly,
                        NEW s \in Session, wrapper[s] = "running",
                        NEW t \in Session, wrapper[t] = "running"
                 PROVE  s = t
        BY DEF OneStream, Streaming
    <2>1. SessionOrder(s) /\ SessionOrder(t)
        BY DEF Inv, Order
    <2>2. QED
        BY <2>1 DEF SessionOrder
<1>2. QED
    BY <1>1, InvHolds, PTL

\* Unless a session was overtaken, the job that ends an earlier session,
\* however late, destroys neither the playlist nor the replay directory of
\* the one that streams.
THEOREM StreamKeepsItsFiles == Spec => []StreamHasItsFiles
<1>1. Inv => StreamHasItsFiles
    <2> SUFFICES ASSUME Inv, orderly, NEW s \in Session, wrapper[s] = "running"
                 PROVE  playlist = held[s] /\ (settings.saveReplay => dirs[s] # "none")
        BY DEF StreamHasItsFiles, Streaming
    <2>1. SessionOrder(s)
        BY DEF Inv, Order
    <2>2. QED
        BY <2>1 DEF SessionOrder
<1>2. QED
    BY <1>1, InvHolds, PTL

\* Unless a restart or an error hit a job between the video and the removal of
\* its directory, a replay directory is made into one video at most, although
\* jobs are run again and sessions get second ones.
THEOREM ReplayMadeOnce == Spec => []ReplayOnce
<1>1. Inv => ReplayOnce
    BY DEF Inv, ReplayOnce, Once, Made
<1>2. QED
    BY <1>1, InvHolds, PTL

\* The only steps that remove a directory with segments are those of a job
\* that made a video of it, or could not.
LEMMA KeptStep ==
    ASSUME Inv, [Next]_vars, orderly,
           NEW s \in Session, dirs[s] = "filled", dirs'[s] = "none"
    PROVE  replays[s] > 0 \/ s \in lost
<1>1. OthersTyped /\ AllStaged
    BY DEF Inv
<1>2. ASSUME NEW j \in jobs, RemoveReplay(j) PROVE replays[s] > 0 \/ s \in lost
    <2>1. j.stage = "remove" /\ dirs' = [dirs EXCEPT ![j.dir] = "none"]
        BY <1>1, <1>2, RemoveEffect
    <2>2. j.dir = s
        BY <1>1, <2>1 DEF OthersTyped
    <2>3. QED
        BY <1>1, <2>1, <2>2 DEF AllStaged, Staged
<1>3. ASSUME NEW j \in jobs, RemoveBaseDirectory(j) PROVE replays[s] > 0 \/ s \in lost
    <2>1. j.stage = "wipe"
        BY <1>1, <1>3, WipeEffect
    <2>2. ~settings.permanent /\ (replays[j.dir] > 0 \/ j.dir \in lost)
        BY <1>1, <2>1 DEF AllStaged, Staged
    <2>3. playlist = s /\ j.dir = playlist
        BY <2>1, <2>2 DEF Inv, Normal, NormalSession, NormalJob
    <2>4. QED
        BY <2>2, <2>3
<1>4. ASSUME NEW t \in Session, PrepareDirectories(t) \/ ProcessSegment(t)
      PROVE  FALSE
    BY <1>1, <1>4 DEF PrepareDirectories, ProcessSegment, OthersTyped
<1>5. ASSUME UNCHANGED dirs PROVE FALSE
    BY <1>5
<1>6. \/ UNCHANGED dirs
      \/ \E t \in Session : PrepareDirectories(t) \/ ProcessSegment(t)
      \/ \E j \in jobs : RemoveReplay(j) \/ RemoveBaseDirectory(j)
    BY DirsSteps
<1>7. QED
    BY <1>2, <1>3, <1>4, <1>5, <1>6

\* A replay directory with segments is removed only once it was made into a
\* video, or a job logged that its HLS files could not be generated; unless a
\* session was overtaken.
THEOREM ReplaysAreKept == Spec => ReplayKept
<1>1. Inv /\ [Next]_vars =>
         [orderly => \A s \in Session :
             dirs[s] = "filled" /\ dirs'[s] = "none"
                => replays[s] > 0 \/ s \in lost]_vars
    BY KeptStep
<1>2. QED
    BY <1>1, InvHolds, PTL DEF Spec, ReplayKept
=============================================================================
