---------------------------- MODULE LiveManager ----------------------------
(***************************************************************************)
(* One live video: the RTMP sessions that publish to it, the muxing        *)
(* session each of them gets, the job that ends it, and what a restart of  *)
(* the server leaves to clean.                                             *)
(*                                                                         *)
(* Code between two awaits is one action.  A session is named by the order *)
(* in which it connects; its playlist, its row and its replay directory    *)
(* have its name.                                                          *)
(***************************************************************************)
EXTENDS Naturals, Sequences

CONSTANTS
    Settings,      \* settings of the live and of transcoding to consider
    MaxSessions,   \* bound: sessions that connect
    MaxFaults,     \* bound: restarts, awaits and jobs that reject, ffmpeg
                   \* errors, limits exceeded, blacklisting
    None

ASSUME BoundAssumption ==
    MaxSessions \in Nat /\ MaxFaults \in Nat

Session == 1 .. MaxSessions

ASSUME SettingsAssumption ==
    Settings \subseteq [permanent : BOOLEAN, saveReplay : BOOLEAN, remote : BOOLEAN]

ASSUME NoneAssumption == None \notin Session

VARIABLES
    settings,   \* permanentLive, saveReplay, and whether runners transcode
    \* memory of the server
    conn,       \* the RTMP connection of a session
    pc,         \* the await handleSession or the muxing session is at
    current,    \* videoSessions.get(video.uuid)
    muxing,     \* keys of muxingSessions
    quota,      \* sessions of the live quota store
    wrapper,    \* state of the transcoding wrapper
    held,       \* the playlist a session loaded or created
    aborts,     \* sessions whose donePublish timer is pending
    ready,      \* live-ready was emitted, and publishAndFederateLive ran
    broken,     \* where handleBrokenLives is
    \* database, file system, job queue, runners
    state,      \* state of the video
    live,       \* the VideoLive row exists
    blacklisted,
    playlist,   \* the HLS playlist of the video
    rows,       \* live session rows
    started,    \* sessions by startDate
    dirs,       \* replay directories, each with or without segments
    jobs,       \* video-live-ending jobs
    runnerJobs, \* live runner jobs that are not over
    \* history and bounds
    replays,    \* how many videos a replay directory was made into
    lost,       \* replay directories whose video could not be generated
    cutShort,   \* sessions whose clean-up, or the job that ends them, was cut
                \* short by an await that rejected, since the last restart
    orderly,    \* no session was overtaken: none started before the clean-up
                \* of an earlier one, none was stopped before it could be
                \* aborted, no two passed the check before one is registered
    torn,       \* a restart or an error hit a job that made a replay of its
                \* directory
    restarts, failures

\* what stopping a session may change, and the rest
stream == <<conn, current, muxing, wrapper, aborts, rows, orderly>>
memory == <<pc, quota, held, ready, broken>>
disk == <<settings, state, live, blacklisted, playlist, started, dirs, jobs,
          runnerJobs>>
bounds == <<replays, lost, cutShort, torn, restarts, failures>>
vars == <<stream, memory, disk, bounds>>

-----------------------------------------------------------------------------
State == {"waiting", "published", "ended", "transcode"}

\* handleSession runs from "load" to "user", runMuxing from "generate" to
\* "directories"; "finish" and "save" are the clean-up's.
Step == {"idle", "load", "playlist", "clean", "probe", "user", "generate",
         "directories", "running", "finish", "save", "over"}

BeforeMuxing == {"load", "playlist", "clean", "probe", "user"}

Starting == {"probe", "user", "generate", "directories"}

NoRow == [open |-> FALSE, processed |-> FALSE]

\* A job is told from others by its session, by the run of the server that
\* created it and by who did, the clean-up of a session or of broken lives.
Job == [session : Session, boot : 0 .. MaxFaults, broken : BOOLEAN,
        playlist : Session \cup {None}, dir : Session \cup {None},
        stage : {"wait", "replay", "remove", "replace", "assign", "wipe",
                 "clean"}]

Init ==
    /\ settings \in Settings
    /\ conn = [s \in Session |-> "off"]
    /\ pc = [s \in Session |-> "idle"]
    /\ current = None
    /\ muxing = {} /\ quota = {} /\ aborts = {}
    /\ ready = [s \in Session |-> "no"]
    /\ wrapper = [s \in Session |-> "none"]
    /\ held = [s \in Session |-> None]
    /\ broken = "no"
    /\ state = "waiting" /\ live = TRUE /\ blacklisted = FALSE
    /\ playlist = None
    /\ rows = [s \in Session |-> NoRow]
    /\ started = <<>>
    /\ dirs = [s \in Session |-> "none"]
    /\ jobs = {} /\ runnerJobs = {}
    /\ replays = [s \in Session |-> 0] /\ lost = {} /\ cutShort = {}
    /\ orderly = TRUE /\ torn = FALSE
    /\ restarts = 0 /\ failures = 0

Goto(s, step) == pc' = [pc EXCEPT ![s] = step]

Fails == restarts + failures < MaxFaults /\ failures' = failures + 1

-----------------------------------------------------------------------------
\* findLatestSessionOf, findCurrentSessionOf: the session of a set that started
\* last.
LatestOf(sessions) ==
    LET last == { i \in DOMAIN started :
                    /\ started[i] \in sessions
                    /\ \A k \in i + 1 .. Len(started) : started[k] \notin sessions }
    IN IF last = {} THEN None ELSE started[CHOOSE i \in last : TRUE]

Latest == LatestOf(Session)

\* saveEndingSession ends the latest row of the video that is open.  It is
\* not awaited; its query is sent before a later session can have a row.
SaveEndingSession(registered, onReplay) ==
    LET opened == LatestOf({ s \in Session : rows[s].open }) IN
    IF registered = None \/ opened = None THEN rows
    ELSE [rows EXCEPT ![opened] =
             [open |-> FALSE, processed |-> @.processed \/ onReplay]]

\* A muxing session that has no wrapper yet cannot be aborted.
CanAbort(s, trans) == trans[s] = "running"

\* abortSession(s), with the given maps and rows: aborting the muxing session
\* emits 'end', on which onMuxingFFmpegEnd unregisters whichever session is
\* registered.
AbortSession(s, registered, ended, sessions, trans) ==
    LET ends == s \in sessions /\ CanAbort(s, trans)
        missed == s \in sessions \/ registered # current IN
    /\ conn' = [conn EXCEPT ![s] = "closed"]
    /\ muxing' = sessions \ {s}
    /\ wrapper' = IF ends THEN [trans EXCEPT ![s] = "aborted"] ELSE trans
    /\ current' = IF ends THEN None ELSE registered
    /\ rows' = IF ends /\ registered # None
               THEN SaveEndingSession(registered, FALSE) ELSE ended
    /\ orderly' = (orderly /\ ~(missed /\ ~ends /\ pc'[s] \in Starting))

\* Closing a connection makes the RTMP server emit donePublish: s is aborted
\* again two seconds later.  A timer that will find nothing is left out.
DonePublish(s) ==
    IF conn[s] = "live" /\ pc'[s] \in BeforeMuxing THEN aborts \cup {s} ELSE aborts

\* stopSessionOf, with the given sessions and wrappers in the maps.
StopSession(onReplay, sessions, trans) ==
    IF current = None
    THEN /\ muxing' = sessions /\ wrapper' = trans
         /\ UNCHANGED <<conn, current, aborts, rows, orderly>>
    ELSE /\ AbortSession(current, None, SaveEndingSession(current, onReplay),
                         sessions, trans)
         /\ aborts' = DonePublish(current)

-----------------------------------------------------------------------------
(* handleSession                                                           *)

\* A publisher connects.
PostPublish(s) ==
    /\ pc[s] = "idle"
    /\ \A t \in 1 .. s - 1 : pc[t] # "idle"
    /\ Goto(s, "load")
    /\ conn' = [conn EXCEPT ![s] = "live"]
    /\ UNCHANGED <<current, muxing, wrapper, aborts, rows, orderly, quota, held,
                   ready, broken, disk, bounds>>

\* The publisher leaves.
Unpublish(s) ==
    /\ conn[s] = "live"
    /\ conn' = [conn EXCEPT ![s] = "closed"]
    /\ aborts' = IF s \in muxing \/ pc[s] \in BeforeMuxing THEN aborts \cup {s}
                 ELSE aborts
    /\ UNCHANGED <<current, muxing, wrapper, rows, orderly, memory, disk, bounds>>

AbortTimer(s) ==
    /\ s \in aborts
    /\ UNCHANGED <<memory, disk, bounds>>
    /\ aborts' = aborts \ {s}
    /\ AbortSession(s, current, rows, muxing, wrapper)

\* Mutant of Accepts: two sessions of one live are not refused.
AcceptsAnother(s) == live /\ ~blacklisted

\* The live is refused when it is gone, blacklisted or streamed already.
Accepts(s) == live /\ ~blacklisted /\ current = None

LoadLive(s) ==
    /\ pc[s] = "load"
    /\ IF Accepts(s)
       THEN /\ Goto(s, "playlist")
            /\ orderly' = (orderly /\ \A t \in Session :
                                          pc[t] \notin {"playlist", "clean"})
            /\ UNCHANGED <<conn, current, muxing, wrapper, aborts, rows>>
       ELSE /\ Goto(s, "over")
            /\ AbortSession(s, current, rows, muxing, wrapper)
            /\ aborts' = aborts \ {s}
    /\ UNCHANGED <<quota, held, ready, broken, disk, bounds>>

\* A normal live with a playlist has been streamed: the handler throws, and
\* leaves the connection open.
LoadPlaylist(s) ==
    /\ pc[s] = "playlist"
    /\ held' = [held EXCEPT ![s] = playlist]
    /\ current' = IF playlist = None THEN s ELSE current
    /\ Goto(s, IF playlist = None THEN "probe"
               ELSE IF settings.permanent THEN "clean" ELSE "over")
    /\ UNCHANGED <<conn, muxing, wrapper, aborts, rows, orderly, quota, ready,
                   broken, disk, bounds>>

CleanOldLive(s) ==
    /\ pc[s] = "clean"
    /\ playlist' = IF playlist = held[s] THEN None ELSE playlist
    /\ current' = s
    /\ Goto(s, "probe")
    /\ UNCHANGED <<conn, muxing, wrapper, aborts, rows, orderly, quota, held,
                   ready, broken, settings, state, live, blacklisted, started,
                   dirs, jobs, runnerJobs, bounds>>

\* An await of handleSession rejects: postPublish logs the error.
HandlerFails(s) ==
    /\ pc[s] \in BeforeMuxing
    /\ Fails
    /\ Goto(s, "over")
    /\ aborts' = aborts \ {s}
    /\ UNCHANGED <<conn, current, muxing, wrapper, rows, orderly, quota, held,
                   ready, broken, disk, replays, lost, cutShort, torn, restarts>>

\* ffprobe read the stream; saveStartingSession.
StartSession(s) ==
    /\ pc[s] = "probe"
    /\ rows' = [rows EXCEPT ![s].open = TRUE]
    /\ started' = Append(started, s)
    /\ Goto(s, "user")
    /\ UNCHANGED <<conn, current, muxing, wrapper, aborts, orderly, quota, held,
                   ready, broken, settings, state, live, blacklisted, playlist,
                   dirs, jobs, runnerJobs, bounds>>

LoadUser(s) ==
    /\ pc[s] = "user"
    /\ quota' = quota \cup {s}
    /\ muxing' = muxing \cup {s}
    /\ Goto(s, "generate")
    /\ UNCHANGED <<conn, current, wrapper, aborts, rows, orderly, held, ready,
                   broken, disk, bounds>>

-----------------------------------------------------------------------------
(* runMuxing                                                               *)

\* The playlist of the video, or a new one.
CreateLivePlaylist(s) ==
    /\ pc[s] = "generate"
    /\ playlist' = IF playlist = None THEN s ELSE playlist
    /\ held' = [held EXCEPT ![s] = playlist']
    /\ Goto(s, "directories")
    /\ UNCHANGED <<stream, quota, ready, broken, settings, state, live,
                   blacklisted, started, dirs, jobs, runnerJobs, bounds>>

PrepareDirectories(s) ==
    /\ pc[s] = "directories"
    /\ dirs' = IF settings.saveReplay THEN [dirs EXCEPT ![s] = "empty"] ELSE dirs
    /\ wrapper' = [wrapper EXCEPT ![s] = "running"]
    /\ runnerJobs' = IF settings.remote THEN runnerJobs \cup {s} ELSE runnerJobs
    /\ Goto(s, "running")
    /\ UNCHANGED <<conn, current, muxing, aborts, rows, orderly, quota, held,
                   ready, broken, settings, state, live, blacklisted, playlist,
                   started, jobs, bounds>>

MuxingFails(s) ==
    /\ pc[s] \in {"generate", "directories"}
    /\ Fails
    /\ Goto(s, "over")
    /\ StopSession(TRUE, muxing \ {s}, wrapper)
    /\ UNCHANGED <<quota, held, ready, broken, disk, replays, lost, cutShort,
                   torn, restarts>>

-----------------------------------------------------------------------------
(* The stream                                                              *)

\* A segment is copied to the replay directory; the first one that finds the
\* master playlist emits live-ready.  The last segments are processed while
\* the session is cleaned, when nobody listens any more.
ProcessSegment(s) ==
    /\ pc[s] \in {"running", "finish"}
    /\ dirs' = IF dirs[s] = "empty" THEN [dirs EXCEPT ![s] = "filled"] ELSE dirs
    /\ \/ UNCHANGED ready
       \/ /\ pc[s] = "running" /\ ready[s] = "no"
          /\ ready' = [ready EXCEPT ![s] = "emitted"]
    /\ UNCHANGED <<stream, pc, quota, held, broken, settings, state, live,
                   blacklisted, playlist, started, jobs, runnerJobs, bounds>>

\* Nothing checks that the session still streams.
PublishLive(s) ==
    /\ ready[s] = "emitted"
    /\ ready' = [ready EXCEPT ![s] = "published"]
    /\ state' = "published"
    /\ UNCHANGED <<stream, pc, quota, held, broken, settings, live, blacklisted,
                   playlist, started, dirs, jobs, runnerJobs, bounds>>

\* bad-socket-health, duration-exceeded or quota-exceeded: they stop the
\* session of the video, whichever it is.
LimitExceeded(s) ==
    /\ pc[s] = "running"
    /\ Fails
    /\ UNCHANGED <<memory, disk, replays, lost, cutShort, torn, restarts>>
    /\ StopSession(FALSE, muxing, wrapper)

\* The runner completed, failed or cancelled the job, maybe long after the
\* session it was created for: stopLive.
RunnerJobOver(s) ==
    /\ s \in runnerJobs
    /\ runnerJobs' = runnerJobs \ {s}
    /\ UNCHANGED <<memory, settings, state, live, blacklisted, playlist,
                   started, dirs, jobs, bounds>>
    /\ StopSession(FALSE, muxing, wrapper)

Blacklist ==
    /\ ~blacklisted
    /\ blacklisted' = TRUE
    /\ Fails
    /\ UNCHANGED <<memory, settings, state, live, playlist, started, dirs, jobs,
                   runnerJobs, replays, lost, cutShort, torn, restarts>>
    /\ StopSession(FALSE, muxing, wrapper)

\* ffmpeg read the end of a stream whose publisher left.
FFmpegEnds(s) ==
    /\ wrapper[s] = "running" /\ ~settings.remote
    /\ conn[s] = "closed"
    /\ wrapper' = [wrapper EXCEPT ![s] = "ended"]
    /\ rows' = SaveEndingSession(current, FALSE)
    /\ current' = None
    /\ orderly' = (orderly /\ current \in {s, None})
    /\ UNCHANGED <<conn, muxing, aborts, memory, disk, bounds>>

FFmpegErrors(s) ==
    /\ wrapper[s] = "running" /\ ~settings.remote
    /\ Fails
    /\ UNCHANGED <<memory, disk, replays, lost, cutShort, torn, restarts>>
    /\ StopSession(FALSE, muxing, [wrapper EXCEPT ![s] = "errored"])

-----------------------------------------------------------------------------
(* The end of a session                                                    *)

\* after-cleanup, one second after 'end'.
AfterCleanup(s) ==
    /\ pc[s] = "running" /\ wrapper[s] \in {"ended", "aborted"}
    /\ muxing' = muxing \ {s}
    /\ quota' = quota \ {s}
    /\ aborts' = aborts \ {s}
    /\ Goto(s, "finish")
    /\ UNCHANGED <<conn, current, wrapper, rows, orderly, held, ready, broken,
                   disk, bounds>>

\* The replay directories bear the date their session started.
ReplayDirectory ==
    IF settings.saveReplay THEN LatestOf({ s \in Session : dirs[s] # "none" })
    ELSE None

EndingJob(s, fromBroken) ==
    [session |-> s, boot |-> restarts, broken |-> fromBroken,
     playlist |-> playlist, dir |-> ReplayDirectory, stage |-> "wait"]

\* onAfterMuxingCleanup for the session row of s, up to the state's save.
EndSession(s, fromBroken) ==
    /\ rows' = [rows EXCEPT ![s].open = FALSE]
    /\ jobs' = jobs \cup {EndingJob(s, fromBroken)}

\* Mutant of Finish: only a session that was published is ended.
FinishPublished(s) ==
    /\ pc[s] = "finish"
    /\ IF live /\ state = "published"
       THEN EndSession(s, FALSE) /\ Goto(s, "save")
       ELSE Goto(s, "over") /\ UNCHANGED <<rows, jobs>>
    /\ orderly' = (orderly /\ Latest = s)
    /\ UNCHANGED <<conn, current, muxing, wrapper, aborts, quota, held, ready,
                   broken, settings, state, live, blacklisted, playlist,
                   started, dirs, runnerJobs, bounds>>

Finish(s) ==
    /\ pc[s] = "finish"
    /\ IF live
       THEN EndSession(s, FALSE) /\ Goto(s, "save")
       ELSE Goto(s, "over") /\ UNCHANGED <<rows, jobs>>
    /\ orderly' = (orderly /\ Latest = s)
    /\ UNCHANGED <<conn, current, muxing, wrapper, aborts, quota, held, ready,
                   broken, settings, state, live, blacklisted, playlist,
                   started, dirs, runnerJobs, bounds>>

StateAfterLive == IF settings.permanent THEN "waiting" ELSE "ended"

SaveState(s) ==
    /\ pc[s] = "save"
    /\ state' = StateAfterLive
    /\ Goto(s, "over")
    /\ UNCHANGED <<stream, quota, held, ready, broken, settings, live,
                   blacklisted, playlist, started, dirs, jobs, runnerJobs,
                   bounds>>

\* An await of onAfterMuxingCleanup rejects, and is only logged: the row may
\* be ended and no job made, or the state not saved.  A job the queue refuses
\* is only logged too, and the state is saved all the same.
CleanupFails(s) ==
    /\ pc[s] \in {"finish", "save"}
    /\ Fails
    /\ IF pc[s] = "save"
       THEN Goto(s, "over") /\ UNCHANGED <<rows, orderly, cutShort>>
       ELSE /\ \/ Goto(s, "over") /\ UNCHANGED rows
               \/ /\ live
                  /\ rows' = [rows EXCEPT ![s].open = FALSE]
                  /\ Goto(s, "over") \/ Goto(s, "save")
            /\ orderly' = (orderly /\ Latest = s)
            /\ cutShort' = cutShort \cup {s}
    /\ UNCHANGED <<conn, current, muxing, wrapper, aborts, quota, held, ready,
                   broken, disk, replays, lost, torn, restarts>>

-----------------------------------------------------------------------------
(* video-live-ending                                                       *)

\* Mutant of Becomes: the job is queued again for every step.
BecomesAnother(j, stage) == jobs' = jobs \cup {[j EXCEPT !.stage = stage]}

Becomes(j, stage) ==
    jobs' = (jobs \ {j}) \cup
               IF stage = "done" THEN {} ELSE {[j EXCEPT !.stage = stage]}

\* The stage a job goes to: it fails when it has no directory to read, or
\* when the directory is gone.
Ends(j) ==
    IF ~settings.saveReplay THEN "clean"
    ELSE IF j.dir = None \/ dirs[j.dir] = "none" THEN "done"
    ELSE IF dirs[j.dir] = "empty" THEN "clean"
    ELSE IF settings.permanent THEN "replay" ELSE "replace"

ProcessLiveEnding(j) ==
    /\ j.stage = "wait"
    /\ rows' = IF live THEN [rows EXCEPT ![j.session].processed = TRUE] ELSE rows
    /\ Becomes(j, IF live THEN Ends(j) ELSE "done")
    /\ UNCHANGED <<conn, current, muxing, wrapper, aborts, orderly, memory,
                   settings, state, live, blacklisted, playlist, started, dirs,
                   runnerJobs, bounds>>

\* Mutant of FilesFree: no lock.
FilesAlwaysFree == TRUE

\* The files of the live video are locked by one job at a time.
FilesFree == \A j \in jobs : j.stage \notin {"remove", "wipe"}

\* assignReplayFilesToVideo: readdir throws when the directory is gone.
AssignReplay(j, next) ==
    /\ FilesFree
    /\ IF dirs[j.dir] = "none"
       THEN Becomes(j, "done") /\ UNCHANGED replays
       ELSE /\ Becomes(j, next)
            /\ replays' = [replays EXCEPT ![j.dir] = @ + 1]
    /\ UNCHANGED <<stream, memory, settings, state, live, blacklisted, playlist,
                   started, dirs, runnerJobs, lost, cutShort, torn, restarts,
                   failures>>

\* Mutant of SaveReplayToExternalVideo: a directory that could not be made into
\* a video is removed too.
RemoveAnyReplay(j) ==
    /\ j.stage = "replay"
    /\ Becomes(j, "remove")
    /\ UNCHANGED <<stream, memory, settings, state, live, blacklisted, playlist,
                   started, dirs, runnerJobs, bounds>>

SaveReplayToExternalVideo(j) == j.stage = "replay" /\ AssignReplay(j, "remove")

RemoveReplay(j) ==
    /\ j.stage = "remove"
    /\ dirs' = [dirs EXCEPT ![j.dir] = "none"]
    /\ Becomes(j, "clean")
    /\ UNCHANGED <<stream, memory, settings, state, live, blacklisted, playlist,
                   started, runnerJobs, bounds>>

\* The live row is destroyed before the replay is made.
ReplaceLiveByReplay(j) ==
    /\ j.stage = "replace"
    /\ live' = FALSE
    /\ state' = "transcode"
    /\ Becomes(j, "assign")
    /\ UNCHANGED <<stream, memory, settings, blacklisted, playlist, started,
                   dirs, runnerJobs, bounds>>

AssignToLive(j) == j.stage = "assign" /\ AssignReplay(j, "wipe")

RemoveBaseDirectory(j) ==
    /\ j.stage = "wipe"
    /\ dirs' = [s \in Session |-> "none"]
    /\ Becomes(j, "done")
    /\ UNCHANGED <<stream, memory, settings, state, live, blacklisted, playlist,
                   started, runnerJobs, bounds>>

\* Mutant of PlaylistToDestroy: the job takes the playlist the video has.
PlaylistOfVideo(j) == playlist

\* The playlist of the session that ended, unless a later session cleaned it.
PlaylistToDestroy(j) == j.playlist

CleanupLive(j) ==
    /\ j.stage = "clean"
    /\ playlist' = IF playlist = PlaylistToDestroy(j) THEN None ELSE playlist
    /\ Becomes(j, "done")
    /\ UNCHANGED <<stream, memory, settings, state, live, blacklisted, started,
                   dirs, runnerJobs, bounds>>

\* generateHlsPlaylistResolutionFromTS rejects for every file: each error is
\* logged, and the directory removed as if the replay had been made.
GenerateFails(j) ==
    /\ j.stage \in {"replay", "assign"}
    /\ Fails
    /\ FilesFree
    /\ dirs[j.dir] # "none"
    /\ Becomes(j, IF j.stage = "replay" THEN "remove" ELSE "wipe")
    /\ lost' = lost \cup {j.dir}
    /\ UNCHANGED <<stream, memory, settings, state, live, blacklisted, playlist,
                   started, dirs, runnerJobs, replays, cutShort, torn, restarts>>

\* An await of the job rejects, before or after its write: it is the only
\* attempt.
EndingFails(j) ==
    /\ Fails
    /\ Becomes(j, "done")
    /\ IF j.stage = "wait"
       THEN /\ rows' \in {rows, [rows EXCEPT ![j.session].processed = live \/ @]}
            /\ cutShort' = cutShort \cup {j.session}
       ELSE UNCHANGED <<rows, cutShort>>
    /\ live' \in {live, live /\ j.stage # "replace"}
    /\ torn' = (torn \/ j.stage \in {"remove", "wipe"})
    /\ UNCHANGED <<conn, current, muxing, wrapper, aborts, orderly, memory,
                   settings, state, blacklisted, playlist, started, dirs,
                   runnerJobs, replays, lost, restarts>>

LiveEnding(j) ==
    \/ ProcessLiveEnding(j)
    \/ SaveReplayToExternalVideo(j) \/ RemoveReplay(j)
    \/ ReplaceLiveByReplay(j) \/ AssignToLive(j) \/ RemoveBaseDirectory(j)
    \/ CleanupLive(j) \/ GenerateFails(j) \/ EndingFails(j)

-----------------------------------------------------------------------------
(* Restart                                                                 *)

\* The queue runs a job that was interrupted again, from its start.
Stalled(j) == [j EXCEPT !.stage = "wait"]

Restart ==
    /\ restarts + failures < MaxFaults
    /\ restarts' = restarts + 1
    /\ conn' = [s \in Session |-> IF conn[s] = "live" THEN "closed" ELSE conn[s]]
    /\ pc' = [s \in Session |-> IF pc[s] = "idle" THEN "idle" ELSE "over"]
    /\ wrapper' = [s \in Session |-> "none"]
    /\ ready' = [s \in Session |-> "no"]
    /\ current' = None
    /\ muxing' = {} /\ quota' = {} /\ aborts' = {} /\ runnerJobs' = {}
    /\ broken' = IF state = "published" /\ live THEN "finish" ELSE "no"
    /\ jobs' = { Stalled(j) : j \in jobs }
    /\ torn' = (torn \/ \E j \in jobs : j.stage = "remove")
    /\ cutShort' = {}
    /\ UNCHANGED <<held, rows, orderly, settings, state, live, blacklisted,
                   playlist, started, dirs, replays, lost, failures>>

\* Mutant of EndBrokenLive: a session whose row is ended is left alone.
EndOpenBrokenLive ==
    /\ broken = "finish"
    /\ broken' = "save"
    /\ IF live /\ rows[Latest].open
       THEN EndSession(Latest, TRUE) ELSE UNCHANGED <<rows, jobs>>
    /\ UNCHANGED <<conn, current, muxing, wrapper, aborts, pc, quota, held,
                   ready, settings, state, live, blacklisted, playlist, started,
                   dirs, runnerJobs, bounds, orderly>>

\* handleBrokenLives is not awaited: sessions may start meanwhile.
EndBrokenLive ==
    /\ broken = "finish"
    /\ IF live
       THEN EndSession(Latest, TRUE) /\ broken' = "save"
       ELSE broken' = "no" /\ UNCHANGED <<rows, jobs>>
    /\ orderly' = (orderly /\ pc[Latest] = "over")
    /\ UNCHANGED <<conn, current, muxing, wrapper, aborts, pc, quota, held,
                   ready, settings, state, live, blacklisted, playlist, started,
                   dirs, runnerJobs, bounds>>

SaveBrokenState ==
    /\ broken = "save"
    /\ broken' = "no"
    /\ state' = StateAfterLive
    /\ UNCHANGED <<stream, pc, quota, held, ready, settings, live, blacklisted,
                   playlist, started, dirs, jobs, runnerJobs, bounds>>

\* An await of handleBrokenLives, or of the clean-up it calls, rejects: it is
\* logged, and nobody comes back to the live before the next restart.
BrokenLiveFails ==
    /\ broken # "no"
    /\ Fails
    /\ IF broken = "save"
       THEN broken' = "no" /\ UNCHANGED <<rows, orderly, cutShort>>
       ELSE /\ \/ broken' = "no" /\ UNCHANGED rows
               \/ /\ live
                  /\ rows' = [rows EXCEPT ![Latest].open = FALSE]
                  /\ broken' \in {"no", "save"}
            /\ orderly' = (orderly /\ pc[Latest] = "over")
            /\ cutShort' = cutShort \cup {Latest}
    /\ UNCHANGED <<conn, current, muxing, wrapper, aborts, pc, quota, held,
                   ready, disk, replays, lost, torn, restarts>>

-----------------------------------------------------------------------------
HandleSession(s) ==
    \/ LoadLive(s) \/ LoadPlaylist(s) \/ CleanOldLive(s) \/ HandlerFails(s)
    \/ StartSession(s) \/ LoadUser(s)

RunMuxing(s) ==
    CreateLivePlaylist(s) \/ PrepareDirectories(s) \/ MuxingFails(s)

Stream(s) ==
    \/ ProcessSegment(s) \/ PublishLive(s) \/ LimitExceeded(s)
    \/ RunnerJobOver(s) \/ FFmpegEnds(s) \/ FFmpegErrors(s)

EndOfSession(s) ==
    AfterCleanup(s) \/ Finish(s) \/ SaveState(s) \/ CleanupFails(s)

HandleBrokenLives == EndBrokenLive \/ SaveBrokenState \/ BrokenLiveFails

Next ==
    \/ \E s \in Session : \/ PostPublish(s) \/ Unpublish(s) \/ AbortTimer(s)
                          \/ HandleSession(s) \/ RunMuxing(s) \/ Stream(s)
                          \/ EndOfSession(s)
    \/ \E j \in jobs : LiveEnding(j)
    \/ Blacklist \/ Restart \/ HandleBrokenLives

Spec == Init /\ [][Next]_vars

\* Awaits settle, timers fire, the queue runs its jobs, ffmpeg ends when its
\* input did.  Publishers, limits, runners and administrators owe nothing.
Proceeds(s) == HandleSession(s) \/ RunMuxing(s) \/ EndOfSession(s)

FairSpec ==
    /\ Spec
    /\ \A s \in Session :
          WF_vars(Proceeds(s)) /\ WF_vars(AbortTimer(s)) /\ WF_vars(FFmpegEnds(s))
    /\ WF_vars(\E j \in jobs : LiveEnding(j))
    /\ WF_vars(HandleBrokenLives)

-----------------------------------------------------------------------------
(* Properties                                                              *)

\* The variables have their types; a session has one call of
\* saveEndingSession and one ending job in a run of the server.
TypeOK ==
    /\ settings \in Settings
    /\ conn \in [Session -> {"off", "live", "closed"}]
    /\ pc \in [Session -> Step]
    /\ current \in Session \cup {None}
    /\ muxing \subseteq Session /\ quota \subseteq Session
    /\ aborts \subseteq Session
    /\ ready \in [Session -> {"no", "emitted", "published"}]
    /\ wrapper \in [Session -> {"none", "running", "ended", "aborted", "errored"}]
    /\ held \in [Session -> Session \cup {None}]
    /\ broken \in {"no", "finish", "save"}
    /\ state \in State
    /\ live \in BOOLEAN /\ blacklisted \in BOOLEAN
    /\ playlist \in Session \cup {None}
    /\ rows \in [Session -> [open : BOOLEAN, processed : BOOLEAN]]
    /\ started \in Seq(Session)
    /\ dirs \in [Session -> {"none", "empty", "filled"}]
    /\ jobs \subseteq Job
    /\ \A j, k \in jobs : j.session = k.session /\ j.boot = k.boot
                              /\ j.broken = k.broken => j = k
    /\ runnerJobs \subseteq Session
    /\ replays \in [Session -> Nat]
    /\ lost \subseteq Session /\ cutShort \subseteq Session
    /\ orderly \in BOOLEAN /\ torn \in BOOLEAN
    /\ restarts \in 0 .. MaxFaults /\ failures \in 0 .. MaxFaults

Streaming == { s \in Session : wrapper[s] = "running" }

\* handleSession refuses a session while another one streams to the live
\* ("has already a live session", live-manager.ts:253), although the map it
\* looks at is emptied by whatever stops a session.  Two may stream when one
\* was overtaken.
OneStream == orderly => \A s, t \in Streaming : s = t

\* What a session writes into stays there while it streams: the job that ends
\* an earlier session, five minutes later or after a restart, destroys
\* neither the playlist nor the replay directory of the present one.
StreamHasItsFiles ==
    orderly => \A s \in Streaming :
                  /\ playlist = held[s]
                  /\ settings.saveReplay => dirs[s] # "none"

\* A session's replay directory is made into one video at most, although a
\* restart may give a session a second ending job and runs interrupted jobs
\* again: only a job interrupted, or failing, between the video and the removal
\* of the directory repeats it.
ReplayOnce == ~torn => \A s \in Session : replays[s] <= 1

\* A replay directory with segments is removed only by a job that made it into
\* a video, or that logged that it could not (assignReplayFilesToVideo goes on
\* when the generation of the HLS files fails, and the segments are lost).  No
\* other job, failed, repeated or delayed, and no later session removes it.
ReplayKept ==
    [][orderly => \A s \in Session :
          dirs[s] = "filled" /\ dirs'[s] = "none"
             => replays[s] > 0 \/ s \in lost]_vars

Cleaned(s) ==
    /\ s \notin muxing \cup quota
    /\ ~rows[s].open /\ rows[s].processed

\* A session whose transcoding ended or was aborted is cleaned: forgotten by
\* the manager and the quota store, its row ended, its ending processed;
\* unless the server restarts meanwhile, the live was replaced by the replay of
\* another session, or an await of the clean-up itself, or of the ending job
\* before it marked the row, rejected.  No error before the clean-up, in the
\* handler, in ffmpeg or by a limit, keeps it from being cleaned.
SessionIsCleaned ==
    \A s \in Session :
        wrapper[s] \in {"ended", "aborted"}
            ~> Cleaned(s) \/ restarts > 0 \/ ~live \/ s \in cutShort

\* After a restart, the session of a live that is still published is ended
\* and its ending processed, although the ending job of the clean-up before
\* the restart may run beside it; unless an await of it, or of the ending job,
\* rejected since that restart.
BrokenLiveIsCleaned ==
    \A s \in Session :
        broken = "finish" /\ live /\ Latest = s
            ~> \/ ~rows[s].open /\ rows[s].processed
               \/ Latest # s \/ ~live \/ s \in cutShort

\* "User can stream multiple times in a permanent live" (openapi.yaml:3087):
\* a live whose publisher left is free for the next one.
CanStreamAgain ==
    \A s \in Session :
        current = s /\ conn[s] = "closed" /\ settings.permanent ~> current # s
=============================================================================
