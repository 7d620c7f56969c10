---------------------------- MODULE ViewCounters ----------------------------
(* Views and viewers of one local video: the requests of                     *)
(* lib/views/video-views-manager.ts, the Redis buffers they fill and the      *)
(* four background tasks that empty them.                                     *)
(*                                                                            *)
(*   - processLocalView updates the viewer's watch statistics                 *)
(*     (video-viewer-stats.ts), counts the viewer (video-viewer-counters.ts)  *)
(*     and counts a view (video-views.ts);                                    *)
(*   - the views buffer scheduler adds the buffered views to the video;       *)
(*   - a job creates a row of views for the previous hour;                    *)
(*   - two timers clean expired viewers and save statistics no request        *)
(*     updated for an hour.                                                   *)
(*                                                                            *)
(* The server is one process: a handler runs up to its next await, and the    *)
(* steps of the handlers interleave. A Redis command takes effect in the      *)
(* order it is sent, its answer is used in a later step. A restart forgets    *)
(* what is in memory and keeps Redis and the database.                        *)
EXTENDS Integers, FiniteSets

CONSTANTS
    Ip,             \* addresses of the viewers
    None,           \* no object
    MaxEvents,      \* bound: how often a client reports that it watches, plus
                    \* how many faults there are
    MaxRequests,    \* bound: how many of these requests run at the same time
    MaxSections,    \* MAX_LOCAL_VIEWER_WATCH_SECTIONS
    MaxFaults       \* bound: rejected awaits, restarts and deletions

ASSUME ViewCountersAssumption ==
    /\ MaxEvents \in Nat /\ MaxRequests \in Nat /\ MaxFaults \in Nat /\ MaxSections \in Nat \ {0}
    /\ IsFiniteSet(Ip)

View == 1..MaxEvents

\* LocalViewerStats: the views whose watch sections it holds, and whether
\* lastUpdated is less than an hour old.
Stats == [views : SUBSET View, fresh : BOOLEAN]

\* An entry of viewersPerVideo: the address its id is made of, and the view
\* that pushed it.
Viewer == [ip : Ip, by : View]

ASSUME NoneAssumption == None \notin Ip \cup Viewer \cup Stats

Hour == {"now", "past"}

VARIABLES
    req,        \* the request that reports each view: where it is, what it holds
    started,    \* how many views clients have reported
    stats,      \* Redis: statistics of the viewer with each address, or None
    cached,     \* addresses whose statistics are in viewerCache as well
    watchers,   \* memory: viewersPerVideo of the video
    active,     \* the viewers whose expiry time has not come
    idToViewer, \* memory: the viewer known under each address, or None
    ipViewed,   \* addresses that counted a view less than VIEW_LIFETIME.VIEW ago
    buffer,     \* Redis: local-video-views-buffer of the video
    hourly,     \* Redis: video-view-h of this hour and of the previous one
    exists,     \* whether the video is in the database
    views,      \* database: views of the video
    hourRows,   \* database: views in the rows of videoView
    rows,       \* database: how many rows of localVideoViewer hold each view
    sched,      \* the buffer scheduler's execution
    job,        \* the videos-views-stats job
    proc,       \* the execution of processViewerStats
    faults,     \* how many faults have happened
    counted,    \* history: how often addView was called
    lost,       \* history: "views", "hourly" when some of them may be missing
    recorded,   \* history: the address that recorded each view, or None
    disturbed   \* history: addresses whose statistics raced (see Disturbs)

redis == <<stats, ipViewed, buffer, hourly>>
database == <<exists, views, hourRows, rows>>
history == <<counted, lost, recorded, disturbed>>
vars == <<req, started, redis, cached, watchers, active, idToViewer, database,
          sched, job, proc, faults, history>>

Idle == [pc |-> "idle"]

Init ==
    /\ req = [n \in View |-> Idle]
    /\ started = 0
    /\ stats = [ip \in Ip |-> None] /\ cached = {}
    /\ watchers = {} /\ active = {} /\ idToViewer = [ip \in Ip |-> None]
    /\ ipViewed = {} /\ buffer = 0 /\ hourly = [h \in Hour |-> 0]
    /\ exists = TRUE /\ views = 0 /\ hourRows = 0
    /\ rows = [n \in View |-> 0]
    /\ sched = Idle /\ job = Idle /\ proc = Idle
    /\ faults = 0 /\ counted = 0 /\ lost = {}
    /\ recorded = [n \in View |-> None] /\ disturbed = {}

-----------------------------------------------------------------------------
(* updateLocalViewerStats. With the object in viewerCache there is nothing    *)
(* to wait for; otherwise Redis answers, and a new viewer is located.         *)

\* Mutant: the limit is checked one section too late.
FullLate(s) == Cardinality(s.views) > MaxSections

Full(s) == Cardinality(s.views) >= MaxSections

Watched(s, n) == [views |-> s.views \cup {n}, fresh |-> TRUE]

\* Requests that hold statistics of ip which viewerCache does not have.
Reading(ip) ==
    {n \in View : req[n].pc \in {"read", "locate"} /\ req[n].ip = ip}

\* What the code does not protect against: another request of the address
\* read the statistics and has not written them yet; processViewerStats is
\* saving an object of its own, which Redis gave it after a restart; the row is
\* written and the key about to be deleted.
Disturbs(n, ip) ==
    \/ Reading(ip) \ {n} # {}
    \/ proc.pc = "read" /\ proc.ip = ip /\ ~(proc.shared /\ ip \in cached)
    \/ proc.pc = "saved" /\ proc.ip = ip

\* setLocalVideoViewer: processViewerStats may hold the very object that
\* viewerCache had, and sees it change; a new object replaces that one.
SetLocalVideoViewer(n, ip, s) ==
    /\ stats' = [stats EXCEPT ![ip] = s]
    /\ cached' = cached \cup {ip}
    /\ proc' = IF proc.pc \notin {"read", "saved"} \/ proc.ip # ip THEN proc
               ELSE IF proc.shared /\ req[n] = Idle
                    THEN [proc EXCEPT !.held = s]
                    ELSE [proc EXCEPT !.shared = FALSE]
    /\ recorded' = [recorded EXCEPT ![n] = ip]
    /\ disturbed' = IF Disturbs(n, ip) THEN disturbed \cup {ip} ELSE disturbed

KeepStats == UNCHANGED <<stats, cached, proc, recorded, disturbed>>

Goto(n, pc) == req' = [req EXCEPT ![n] = [pc |-> pc, ip |-> req[n].ip]]

\* viewVideo: the validator found the video.
ReportView(ip) ==
    LET n == started + 1
    IN /\ started + faults < MaxEvents /\ exists
       /\ Cardinality({r \in View : req[r] # Idle}) < MaxRequests
       /\ started' = n
       /\ \/ /\ ip \in cached
             /\ req' = [req EXCEPT ![n] = [pc |-> "count", ip |-> ip]]
             /\ IF Full(stats[ip]) THEN KeepStats
                ELSE SetLocalVideoViewer(n, ip, Watched(stats[ip], n))
          \/ /\ ip \notin cached
             /\ req' = [req EXCEPT ![n] = [pc |-> "read", ip |-> ip,
                                           held |-> stats[ip]]]
             /\ KeepStats
       /\ UNCHANGED <<watchers, active, idToViewer, ipViewed, buffer, hourly,
                      database, sched, job, faults, counted, lost>>

StatsRead(n) ==
    LET r == req[n]
    IN /\ r.pc = "read"
       /\ \/ r.held = None /\ KeepStats /\ Goto(n, "locate")
          \/ /\ r.held # None /\ Goto(n, "count")
             /\ IF Full(r.held) THEN KeepStats
                ELSE SetLocalVideoViewer(n, r.ip, Watched(r.held, n))
       /\ UNCHANGED <<started, watchers, active, idToViewer, ipViewed, buffer,
                      hourly, database, sched, job, faults, counted, lost>>

ViewerLocated(n) ==
    LET r == req[n]
    IN /\ r.pc = "locate" /\ Goto(n, "count")
       /\ SetLocalVideoViewer(n, r.ip, [views |-> {n}, fresh |-> TRUE])
       /\ UNCHANGED <<started, watchers, active, idToViewer, ipViewed, buffer,
                      hourly, database, sched, job, faults, counted, lost>>

-----------------------------------------------------------------------------
(* The rest of processLocalView: the viewer counter, the watch time, the view.*)

\* addLocalViewer finds the viewer and postpones its expiry, or pushes it,
\* before the first await.
AddLocalViewer(n) ==
    LET ip == req[n].ip
        known == idToViewer[ip]
        new == [ip |-> ip, by |-> n]
    IN /\ req[n].pc = "count" /\ Goto(n, "watched")
       /\ \/ /\ known # None
             /\ active' = active \cup {known}
             /\ UNCHANGED <<watchers, idToViewer>>
          \/ /\ known = None
             /\ watchers' = watchers \cup {new} /\ active' = active \cup {new}
             /\ idToViewer' = [idToViewer EXCEPT ![ip] = new]
       /\ UNCHANGED <<started, redis, cached, database, sched, job, proc,
                      faults, history>>

\* addLocalView stops when too little was watched (getWatchTime is 0 once the
\* statistics are gone) and when doesVideoIPViewExist; viewsCache holds some of
\* the keys that Redis holds.
DoesVideoIPViewExist(n) ==
    /\ req[n].pc = "watched"
    /\ \/ req' = [req EXCEPT ![n] = Idle]
       \/ /\ stats[req[n].ip] # None /\ req[n].ip \notin ipViewed
          /\ Goto(n, "new")
    /\ UNCHANGED <<started, redis, cached, watchers, active, idToViewer,
                   database, sched, job, proc, faults, history>>

SetIPVideoView(n) ==
    /\ req[n].pc = "new" /\ Goto(n, "add")
    /\ ipViewed' = ipViewed \cup {req[n].ip}
    /\ UNCHANGED <<started, stats, buffer, hourly, cached, watchers, active,
                   idToViewer, database, sched, job, proc, faults, history>>

\* addView: both counters are incremented in one turn.
AddView(n) ==
    /\ req[n].pc = "add" /\ req' = [req EXCEPT ![n] = Idle]
    /\ buffer' = buffer + 1
    /\ hourly' = [hourly EXCEPT !["now"] = @ + 1]
    /\ counted' = counted + 1
    /\ UNCHANGED <<started, stats, ipViewed, cached, watchers, active,
                   idToViewer, database, sched, job, proc, faults, lost,
                   recorded, disturbed>>

Fails ==
    /\ faults < MaxFaults /\ started + faults < MaxEvents
    /\ faults' = faults + 1

\* An await rejects: the client gets an error.
RequestFails(n) ==
    /\ req[n].pc # "idle" /\ Fails
    /\ req' = [req EXCEPT ![n] = Idle]
    /\ UNCHANGED <<started, redis, cached, watchers, active, idToViewer,
                   database, sched, job, proc, history>>

-----------------------------------------------------------------------------
(* Time. An hour is longer than any request or task: VIEW_LIFETIME.VIEW and    *)
(* VIEW_LIFETIME.VIEWER_STATS go by while nothing runs, and with them an hour  *)
(* of the clock; the job has processed the hour before. A viewer expires after *)
(* two minutes without a request.                                             *)

Quiet == /\ \A n \in View : req[n] = Idle
         /\ sched = Idle /\ job = Idle /\ proc = Idle

HourPasses ==
    /\ Quiet /\ hourly["past"] = 0
    /\ stats' = [ip \in Ip |-> IF stats[ip] = None THEN None
                               ELSE [stats[ip] EXCEPT !.fresh = FALSE]]
    /\ ipViewed' = {} /\ active' = {}
    /\ hourly' = [now |-> 0, past |-> hourly["now"]]
    /\ UNCHANGED <<req, started, buffer, cached, watchers, idToViewer,
                   database, sched, job, proc, faults, history>>

ViewerExpires(v) ==
    /\ v \in active /\ active' = active \ {v}
    /\ UNCHANGED <<req, started, redis, cached, watchers, idToViewer, database,
                   sched, job, proc, faults, history>>

-----------------------------------------------------------------------------
(* cleanViewerCounters: one turn per video, then the clients are notified.    *)

\* Mutant: cleaning leaves idToViewer alone.
ForgottenNever == {}

Forgotten == {v.ip : v \in watchers \ active}

CleanViewerCounters ==
    /\ watchers \ active # {}
    /\ watchers' = watchers \cap active
    /\ idToViewer' = [ip \in Ip |-> IF ip \in Forgotten THEN None
                                    ELSE idToViewer[ip]]
    /\ UNCHANGED <<req, started, redis, cached, active, database, sched, job,
                   proc, faults, history>>

-----------------------------------------------------------------------------
(* VideoViewsBufferScheduler.internalExecute. AbstractScheduler keeps two     *)
(* executions apart.                                                          *)

GetLocalVideoViews ==
    /\ sched = Idle /\ buffer > 0
    /\ sched' = [pc |-> "got", views |-> buffer]
    /\ UNCHANGED <<req, started, redis, cached, watchers, active, idToViewer,
                   database, job, proc, faults, history>>

\* Mutant: the key is not deleted.
DeletedNever(count) == count

\* What the deletion of the key leaves of the views counted there.
Deleted(count) == 0

DeleteLocalVideoViews ==
    /\ sched.pc = "got" /\ sched' = [sched EXCEPT !.pc = "deleted"]
    /\ buffer' = Deleted(buffer)
    /\ lost' = IF buffer # sched.views THEN lost \cup {"views"} ELSE lost
    /\ UNCHANGED <<req, started, stats, ipViewed, hourly, cached, watchers,
                   active, idToViewer, database, job, proc, faults, counted,
                   recorded, disturbed>>

IncrementViews ==
    /\ sched.pc = "deleted" /\ sched' = Idle
    /\ views' = IF exists THEN views + sched.views ELSE views
    /\ lost' = IF exists THEN lost ELSE lost \cup {"views"}
    /\ UNCHANGED <<req, started, redis, cached, watchers, active, idToViewer,
                   exists, hourRows, rows, job, proc, faults, counted,
                   recorded, disturbed>>

\* An await rejects: the next video is handled, this one's views are gone
\* once they are deleted from Redis.
SchedulerFails ==
    /\ sched # Idle /\ Fails
    /\ sched' = Idle
    /\ lost' = IF sched.pc = "deleted" THEN lost \cup {"views"} ELSE lost
    /\ UNCHANGED <<req, started, redis, cached, watchers, active, idToViewer,
                   database, job, proc, counted, recorded, disturbed>>

-----------------------------------------------------------------------------
(* processVideosViewsStats, between a minute and twenty past the hour.        *)

\* Mutant: the hour that test instances process.
ProcessedHourTest == "now"

ProcessedHour == "past"

GetVideoViewsStats ==
    /\ job = Idle /\ hourly[ProcessedHour] > 0
    /\ job' = [pc |-> "got", views |-> hourly[ProcessedHour]]
    /\ UNCHANGED <<req, started, redis, cached, watchers, active, idToViewer,
                   database, sched, proc, faults, history>>

DeleteVideoViewsStats ==
    /\ job.pc = "got" /\ job' = [job EXCEPT !.pc = "deleted"]
    /\ hourly' = [hourly EXCEPT ![ProcessedHour] = 0]
    /\ UNCHANGED <<req, started, stats, ipViewed, buffer, cached, watchers,
                   active, idToViewer, database, sched, proc, faults, history>>

CreateVideoView ==
    /\ job.pc = "deleted" /\ job' = Idle
    /\ hourRows' = IF exists THEN hourRows + job.views ELSE hourRows
    /\ lost' = IF exists THEN lost ELSE lost \cup {"hourly"}
    /\ UNCHANGED <<req, started, redis, cached, watchers, active, idToViewer,
                   exists, views, rows, sched, proc, faults, counted,
                   recorded, disturbed>>

JobFails ==
    /\ job # Idle /\ Fails
    /\ job' = Idle
    /\ lost' = IF job.pc = "deleted" THEN lost \cup {"hourly"} ELSE lost
    /\ UNCHANGED <<req, started, redis, cached, watchers, active, idToViewer,
                   database, sched, proc, counted, recorded, disturbed>>

-----------------------------------------------------------------------------
(* processViewerStats: every key is read, from viewerCache or from Redis;     *)
(* those not updated for an hour are saved, then deleted. processingViewers-  *)
(* Stats keeps two executions apart.                                          *)

ListLocalVideoViewerKeys ==
    LET keys == {ip \in Ip : stats[ip] # None}
    IN /\ proc = Idle /\ \E ip \in keys : ~stats[ip].fresh
       /\ proc' = [pc |-> "loop", keys |-> keys]
       /\ UNCHANGED <<req, started, redis, cached, watchers, active,
                      idToViewer, database, sched, job, faults, history>>

NextKey(keys) == IF keys = {} THEN Idle ELSE [pc |-> "loop", keys |-> keys]

\* lastUpdated > now - VIEW_LIFETIME.VIEWER_STATS
StillWatched(s) == s.fresh

GetLocalVideoViewerByKey(ip) ==
    /\ proc.pc = "loop" /\ ip \in proc.keys
    /\ proc' = IF StillWatched(stats[ip]) THEN NextKey(proc.keys \ {ip})
               ELSE [pc |-> "read", keys |-> proc.keys \ {ip}, ip |-> ip,
                     held |-> stats[ip], shared |-> ip \in cached]
    /\ UNCHANGED <<req, started, redis, cached, watchers, active, idToViewer,
                   database, sched, job, faults, history>>

\* The row and its sections, if the video still exists, and the commit.
SaveViewerStats ==
    /\ proc.pc = "read" /\ proc' = [proc EXCEPT !.pc = "saved"]
    /\ rows' = [n \in View |-> IF exists /\ n \in proc.held.views
                               THEN rows[n] + 1 ELSE rows[n]]
    /\ disturbed' = IF exists THEN disturbed ELSE disturbed \cup {proc.ip}
    /\ UNCHANGED <<req, started, redis, cached, watchers, active, idToViewer,
                   exists, views, hourRows, sched, job, faults, counted, lost,
                   recorded>>

\* Mutant: only viewerCache forgets the statistics.
AfterSaveKept(s) == s

\* What Redis keeps of saved statistics.
AfterSave(s) == None

\* deleteLocalVideoViewersKeys drops the cached object and the key.
DeleteLocalVideoViewersKeys ==
    /\ proc.pc = "saved" /\ proc' = NextKey(proc.keys)
    /\ stats' = [stats EXCEPT ![proc.ip] = AfterSave(@)]
    /\ cached' = cached \ {proc.ip}
    /\ disturbed' = IF Reading(proc.ip) # {} THEN disturbed \cup {proc.ip}
                    ELSE disturbed
    /\ UNCHANGED <<req, started, ipViewed, buffer, hourly, watchers, active,
                   idToViewer, database, sched, job, faults, counted, lost,
                   recorded>>

\* Mutant: processingViewersStats stays set.
AfterFailureStuck == [pc |-> "failed", keys |-> proc.keys]

\* The transaction or the deletion fails: the next key is handled.
AfterFailure == NextKey(proc.keys)

ProcessViewerStatsFails ==
    /\ proc.pc \in {"read", "saved"} /\ Fails
    /\ proc' = AfterFailure
    /\ cached' = IF proc.pc = "saved" THEN cached \ {proc.ip} ELSE cached
    /\ disturbed' = disturbed \cup {proc.ip}
    /\ UNCHANGED <<req, started, redis, watchers, active, idToViewer, database,
                   sched, job, counted, lost, recorded>>

-----------------------------------------------------------------------------

DeleteVideo ==
    /\ exists /\ Fails
    /\ exists' = FALSE /\ views' = 0 /\ hourRows' = 0
    /\ rows' = [n \in View |-> 0]
    /\ lost' = {"views", "hourly"} /\ disturbed' = Ip
    /\ UNCHANGED <<req, started, redis, cached, watchers, active, idToViewer,
                   sched, job, proc, counted, recorded>>

\* The process dies. Job and scheduler start from their beginning.
Restart ==
    /\ Fails
    /\ req' = [n \in View |-> Idle]
    /\ cached' = {} /\ watchers' = {} /\ active' = {}
    /\ idToViewer' = [ip \in Ip |-> None]
    /\ sched' = Idle /\ job' = Idle /\ proc' = Idle
    /\ lost' = lost \cup (IF sched.pc = "deleted" THEN {"views"} ELSE {})
                    \cup (IF job.pc = "deleted" THEN {"hourly"} ELSE {})
    /\ disturbed' = IF proc.pc = "saved" THEN disturbed \cup {proc.ip}
                    ELSE disturbed
    /\ UNCHANGED <<started, redis, database, counted, recorded>>

-----------------------------------------------------------------------------

RequestStep(n) ==
    \/ StatsRead(n) \/ ViewerLocated(n)
    \/ AddLocalViewer(n) \/ DoesVideoIPViewExist(n)
    \/ SetIPVideoView(n) \/ AddView(n)

SchedulerStep ==
    GetLocalVideoViews \/ DeleteLocalVideoViews \/ IncrementViews

JobStep == GetVideoViewsStats \/ DeleteVideoViewsStats \/ CreateVideoView

ProcessStep ==
    \/ ListLocalVideoViewerKeys
    \/ \E ip \in Ip : GetLocalVideoViewerByKey(ip)
    \/ SaveViewerStats \/ DeleteLocalVideoViewersKeys

Time ==
    HourPasses \/ \E v \in active : ViewerExpires(v)

Fault ==
    \/ \E n \in View : RequestFails(n)
    \/ SchedulerFails \/ JobFails \/ ProcessViewerStatsFails
    \/ DeleteVideo \/ Restart

Next ==
    \/ \E ip \in Ip : ReportView(ip)
    \/ \E n \in View : RequestStep(n)
    \/ SchedulerStep \/ JobStep \/ ProcessStep \/ CleanViewerCounters
    \/ Time \/ Fault

Spec == Init /\ [][Next]_vars

\* The event loop keeps running what is ready: awaits settle, the timers and
\* the repeated job fire again, an hour passes. Nobody has to watch the video.
EventLoop ==
    \/ \E n \in View : RequestStep(n)
    \/ SchedulerStep \/ JobStep \/ ProcessStep \/ CleanViewerCounters
    \/ HourPasses

Fairness == WF_vars(EventLoop)

FairSpec == Spec /\ Fairness

-----------------------------------------------------------------------------

Requests ==
    [pc : {"idle"}]
      \cup [pc : {"read"}, ip : Ip, held : Stats \cup {None}]
      \cup [pc : {"locate", "count", "watched", "new", "add"},
            ip : Ip]

Tasks == {Idle} \cup [pc : {"got", "deleted"}, views : View]

Processes ==
    {Idle} \cup [pc : {"loop"}, keys : (SUBSET Ip) \ {{}}]
      \cup [pc : {"read", "saved"}, keys : SUBSET Ip, ip : Ip, held : Stats,
            shared : BOOLEAN]

\* Types, and what every handler relies on: viewerCache holds only what Redis
\* holds, a key that processViewerStats is to read exists, and the statistics
\* of one viewer stay within the limit (video-viewer-stats.ts).
TypeOK ==
    /\ req \in [View -> Requests]
    /\ started \in 0..MaxEvents /\ faults \in 0..MaxFaults
    /\ stats \in [Ip -> Stats \cup {None}] /\ cached \subseteq Ip
    /\ watchers \subseteq Viewer /\ active \subseteq Viewer
    /\ idToViewer \in [Ip -> Viewer \cup {None}]
    /\ ipViewed \subseteq Ip /\ exists \in BOOLEAN
    /\ buffer \in 0..MaxEvents /\ hourly \in [Hour -> 0..MaxEvents]
    /\ views \in 0..MaxEvents /\ hourRows \in 0..MaxEvents
    /\ rows \in [View -> Nat] /\ counted \in 0..MaxEvents
    /\ sched \in Tasks /\ job \in Tasks /\ proc \in Processes
    /\ lost \subseteq {"views", "hourly"}
    /\ recorded \in [View -> Ip \cup {None}] /\ disturbed \subseteq Ip
    /\ \A ip \in cached : stats[ip] # None
    /\ proc # Idle => \A ip \in proc.keys : stats[ip] # None
    /\ \A ip \in Ip : stats[ip] # None
                        => Cardinality(stats[ip].views) <= MaxSections

\* A view is never counted twice on the video, whatever fails or restarts
\* between the buffer, the scheduler and the database; and none is missing
\* unless a rejected await, a restart or a deletion hit the scheduler after
\* the DEL, or the view came between the GET and the DEL
\* (video-views-buffer-scheduler.ts:26).
ViewsConserved ==
    LET kept == views + buffer
                  + (IF sched.pc = "deleted" THEN sched.views ELSE 0)
    IN exists => /\ kept <= counted
                 /\ "views" \notin lost => kept = counted

\* The hourly statistics have no such gap: the job reads and deletes the key
\* of an hour in which no view arrives any more, so that views are missing
\* from the rows only after a failure, a restart or the video's deletion
\* (video-views-stats.ts:11).
HourlyViewsKept ==
    LET kept == hourRows + hourly["now"] + hourly["past"]
                  + (IF job.pc = "deleted" THEN job.views ELSE 0)
    IN exists => /\ kept <= counted
                 /\ "hourly" \notin lost => kept = counted

\* Concurrent requests of one address count it as one viewer, and the viewer
\* that idToViewer knows is the one that is counted: otherwise it would be
\* refreshed for ever without being counted, or counted twice
\* (video-viewer-counters.ts:47 and :158).
ViewerCountedOnce ==
    \A ip \in Ip :
        {v \in watchers : v.ip = ip}
          = IF idToViewer[ip] = None THEN {} ELSE {idToViewer[ip]}

\* A watched section ends up in exactly one row of statistics, or is still in
\* Redis; requests that update the statistics while processViewerStats saves
\* them included. Left out are the addresses in disturbed: a first view that
\* overlaps another one of the address, an update between the commit and the
\* deletion of the key or, after a restart, while a copy of the statistics is
\* being saved, a failure or a restart between commit and deletion
\* (video-viewer-stats.ts:149-160).
WatchSavedOnce ==
    \A n \in View : recorded[n] \notin disturbed \cup {None} =>
        LET ip == recorded[n]
            waits == stats[ip] # None /\ n \in stats[ip].views
                       /\ ~(proc.pc = "saved" /\ proc.ip = ip)
        IN rows[n] = IF waits THEN 0 ELSE 1

\* When nobody watches any more, the viewers are forgotten, and whatever
\* waited in Redis was processed: no flag of a timer, scheduler or job that
\* met errors keeps it from running again.
EverythingSettles ==
    <>[](/\ watchers = {} /\ buffer = 0
         /\ hourly = [h \in Hour |-> 0] /\ stats = [ip \in Ip |-> None])
=============================================================================
