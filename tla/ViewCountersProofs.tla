-------------------------- MODULE ViewCountersProofs --------------------------
(* Proofs about ViewCounters, for any addresses, sections and bounds.        *)
EXTENDS ViewCounters, FiniteSetTheorems, TLAPS

Counting == {Idle} \cup [pc : {"got", "deleted"}, views : Nat]

\* viewerCache holds only what Redis holds.
StatsKept ==
    /\ stats \in [Ip -> Stats \cup {None}]
    /\ \A ip \in cached \cap Ip : stats[ip] # None

countVars == <<buffer, hourly, exists, views, hourRows, counted, sched, job, lost>>

CountsTyped ==
    /\ buffer \in Nat /\ hourly \in [Hour -> Nat] /\ exists \in BOOLEAN
    /\ views \in Nat /\ hourRows \in Nat /\ counted \in Nat
    /\ sched \in Counting /\ job \in Counting

\* The ranges of what the invariants of viewers are about.
Typed ==
    /\ req \in [View -> Requests] /\ started \in Nat /\ faults \in Nat
    /\ StatsKept
    /\ watchers \subseteq Viewer /\ idToViewer \in [Ip -> Viewer \cup {None}]

\* A request that is not idle has an address.
LEMMA RequestIp ==
    ASSUME Typed, NEW n \in View, req[n].pc # "idle"
    PROVE  req[n].ip \in Ip
<1>1. req[n] \in Requests  BY DEF Typed
<1> QED  BY <1>1 DEF Requests, Idle

\* A request goes on with its address.
LEMMA GotoTyped ==
    ASSUME Typed, NEW n \in View, NEW label \in {"locate", "count", "watched", "new", "add"},
           req[n].pc # "idle", Goto(n, label)
    PROVE  req' \in [View -> Requests]
<1>1. [pc |-> label, ip |-> req[n].ip] \in Requests
  BY RequestIp DEF Requests
<1> QED  BY <1>1 DEF Goto, Typed

\* A request ends.
LEMMA EndTyped ==
    ASSUME Typed, NEW n \in View, req' = [req EXCEPT ![n] = Idle]
    PROVE  req' \in [View -> Requests]
<1>1. Idle \in Requests  BY DEF Idle, Requests
<1> QED  BY <1>1 DEF Typed

\* Statistics that are stored are statistics.
LEMMA StatsTyped ==
    ASSUME Typed, NEW n, NEW ip \in Ip, NEW s \in Stats,
           SetLocalVideoViewer(n, ip, s) \/ KeepStats
    PROVE  StatsKept'
BY NoneAssumption DEF Typed, StatsKept, SetLocalVideoViewer, KeepStats

\* What one more view leaves of statistics.
LEMMA WatchedTyped ==
    ASSUME NEW s \in Stats, NEW n \in View
    PROVE  Watched(s, n) \in Stats /\ [views |-> {n}, fresh |-> TRUE] \in Stats
BY DEF Watched, Stats

\* The steps of one request keep its range and the statistics'.
LEMMA RequestTyped ==
    ASSUME Typed, NEW n \in View, RequestStep(n) \/ RequestFails(n)
    PROVE  req' \in [View -> Requests] /\ StatsKept'
<1>1. CASE StatsRead(n) \/ ViewerLocated(n)
  <2>1. /\ req[n].pc # "idle"
        /\ Goto(n, "locate") \/ Goto(n, "count")
    BY <1>1 DEF StatsRead, ViewerLocated
  <2>2. req[n].ip \in Ip  BY <2>1, RequestIp
  <2>3. req' \in [View -> Requests]  BY <2>1, GotoTyped
  <2>4. StatsKept'
    <3>1. CASE KeepStats  BY <3>1 DEF KeepStats, Typed, StatsKept
    <3>2. CASE req[n].pc = "read" /\ req[n].held # None
               /\ SetLocalVideoViewer(n, req[n].ip, Watched(req[n].held, n))
      <4>1. req[n] \in Requests  BY DEF Typed
      <4>2. req[n].held \in Stats  BY <3>2, <4>1 DEF Requests
      <4> QED  BY <2>2, <3>2, <4>2, WatchedTyped, StatsTyped
    <3>3. CASE SetLocalVideoViewer(n, req[n].ip, [views |-> {n}, fresh |-> TRUE])
      <4>1. [views |-> {n}, fresh |-> TRUE] \in Stats  BY DEF Stats
      <4> QED  BY <2>2, <3>3, <4>1, StatsTyped
    <3> QED  BY <1>1, <3>1, <3>2, <3>3 DEF StatsRead, ViewerLocated
  <2> QED  BY <2>3, <2>4
<1>2. CASE AddLocalViewer(n)
  BY <1>2, GotoTyped DEF AddLocalViewer, redis, Typed, StatsKept
<1>3. CASE DoesVideoIPViewExist(n)
  <2>1. UNCHANGED <<stats, cached>>  BY <1>3 DEF DoesVideoIPViewExist, redis
  <2>2. \/ req' = [req EXCEPT ![n] = Idle]
        \/ req[n].pc # "idle" /\ Goto(n, "new")
    BY <1>3 DEF DoesVideoIPViewExist
  <2> QED  BY <2>1, <2>2, GotoTyped, EndTyped DEF Typed, StatsKept
<1>4. CASE SetIPVideoView(n)
  BY <1>4, GotoTyped DEF SetIPVideoView, Typed, StatsKept
<1>5. CASE AddView(n)
  BY <1>5, EndTyped DEF AddView, Typed, StatsKept
<1>6. CASE RequestFails(n)
  BY <1>6, EndTyped DEF RequestFails, redis, Typed, StatsKept
<1> QED  BY <1>1, <1>2, <1>3, <1>4, <1>5, <1>6 DEF RequestStep

\* A report starts a request.
LEMMA ReportTyped ==
    ASSUME Typed, NEW ip \in Ip, ReportView(ip)
    PROVE  req' \in [View -> Requests] /\ StatsKept'
<1>1. started + 1 \in View
  BY ViewCountersAssumption DEF ReportView, Typed, View, ViewCountersAssumption
<1>2. stats[ip] \in Stats \cup {None} /\ (ip \in cached => stats[ip] \in Stats)
  BY DEF Typed, StatsKept
<1>3. CASE ip \in cached
  <2>1. [pc |-> "count", ip |-> ip] \in Requests  BY DEF Requests
  <2>2. req' \in [View -> Requests]
    BY <1>1, <1>3, <2>1 DEF ReportView, Typed
  <2>3. Watched(stats[ip], started + 1) \in Stats
    BY <1>1, <1>2, <1>3, WatchedTyped
  <2>4. \/ SetLocalVideoViewer(started + 1, ip, Watched(stats[ip], started + 1))
        \/ KeepStats
    BY <1>3 DEF ReportView
  <2> QED  BY <2>2, <2>3, <2>4, StatsTyped
<1>4. CASE ip \notin cached
  <2>1. [pc |-> "read", ip |-> ip, held |-> stats[ip]] \in Requests
    BY <1>2 DEF Requests
  <2> QED
    BY <1>1, <1>4, <2>1 DEF ReportView, KeepStats, Typed, StatsKept
<1> QED  BY <1>3, <1>4

\* The stored statistics outside of requests: time, saving, failures.
LEMMA OthersTyped ==
    ASSUME Typed, SchedulerStep \/ JobStep \/ ProcessStep \/ CleanViewerCounters
                    \/ Time \/ SchedulerFails \/ JobFails
                    \/ ProcessViewerStatsFails \/ DeleteVideo \/ Restart
    PROVE  req' \in [View -> Requests] /\ StatsKept'
<1>1. CASE HourPasses
  <2>1. \A s \in Stats : [s EXCEPT !.fresh = FALSE] \in Stats
    BY DEF Stats
  <2>2. req' = req /\ cached' = cached
    BY <1>1 DEF HourPasses
  <2>3. \A ip \in Ip : /\ stats[ip] = None => stats'[ip] = None
                       /\ stats[ip] # None => stats'[ip] \in Stats
    BY <1>1, <2>1 DEF HourPasses, Typed, StatsKept
  <2>4. stats' \in [Ip -> Stats \cup {None}]
    BY <1>1, <2>3 DEF HourPasses, Typed, StatsKept
  <2> QED  BY <2>2, <2>3, <2>4, NoneAssumption DEF Typed, StatsKept
<1>2. CASE DeleteLocalVideoViewersKeys
  BY <1>2 DEF DeleteLocalVideoViewersKeys, AfterSave, Typed, StatsKept
<1>3. CASE Restart
  <2>1. Idle \in Requests  BY DEF Idle, Requests
  <2> QED  BY <1>3, <2>1 DEF Restart, redis, Typed, StatsKept
<1>4. CASE UNCHANGED <<req, stats>> /\ cached' \subseteq cached
  BY <1>4 DEF Typed, StatsKept
<1>5. SchedulerStep => UNCHANGED <<req, stats, cached>>
  BY DEF SchedulerStep, GetLocalVideoViews, DeleteLocalVideoViews,
         IncrementViews, redis
<1>6. JobStep => UNCHANGED <<req, stats, cached>>
  BY DEF JobStep, GetVideoViewsStats, DeleteVideoViewsStats, CreateVideoView,
         redis
<1>7. ProcessStep =>
        DeleteLocalVideoViewersKeys \/ UNCHANGED <<req, stats, cached>>
  BY DEF ProcessStep, ListLocalVideoViewerKeys, GetLocalVideoViewerByKey,
         SaveViewerStats, redis
<1>8. CleanViewerCounters \/ Time => HourPasses \/ UNCHANGED <<req, stats, cached>>
  BY DEF CleanViewerCounters, Time, ViewerExpires, redis
<1>9. SchedulerFails \/ JobFails \/ DeleteVideo => UNCHANGED <<req, stats, cached>>
  BY DEF SchedulerFails, JobFails, DeleteVideo, redis
<1>10. ProcessViewerStatsFails =>
         UNCHANGED <<req, stats>> /\ cached' \subseteq cached
  BY DEF ProcessViewerStatsFails, redis
<1> QED
  BY <1>1, <1>2, <1>3, <1>4, <1>5, <1>6, <1>7, <1>8, <1>9, <1>10

-----------------------------------------------------------------------------
(* Views.  The scheduler holds what it read of the buffer, and the buffer only
   grows until it is deleted; the job holds the counter of an hour in which no
   view arrives, so it is still what it read.                               *)

SchedulerHolds == sched.pc = "got" => sched.views <= buffer

JobHolds == job.pc = "got" => job.views = hourly["past"]

CountInv ==
    CountsTyped /\ SchedulerHolds /\ JobHolds /\ ViewsConserved /\ HourlyViewsKept

\* The actions that count, move or lose views.
LEMMA CountingSteps ==
    ASSUME [Next]_vars
    PROVE  \/ UNCHANGED countVars
           \/ \E n \in View : AddView(n)
           \/ HourPasses \/ SchedulerStep \/ SchedulerFails \/ JobStep \/ JobFails
           \/ DeleteVideo \/ Restart
<1>1. ASSUME NEW n \in View, RequestStep(n) \/ RequestFails(n), ~AddView(n)
      PROVE  UNCHANGED countVars
  BY <1>1 DEF RequestStep, StatsRead, ViewerLocated, AddLocalViewer,
              DoesVideoIPViewExist, SetIPVideoView, RequestFails, redis, database,
              history, countVars
<1>2. ASSUME NEW ip \in Ip, ReportView(ip)  PROVE UNCHANGED countVars
  BY <1>2 DEF ReportView, database, countVars
<1>3. ProcessStep \/ ProcessViewerStatsFails => UNCHANGED countVars
  BY DEF ProcessStep, ListLocalVideoViewerKeys, GetLocalVideoViewerByKey,
         SaveViewerStats, DeleteLocalVideoViewersKeys, ProcessViewerStatsFails,
         redis, database, history, countVars
<1>4. CleanViewerCounters \/ Time => HourPasses \/ UNCHANGED countVars
  BY DEF CleanViewerCounters, Time, ViewerExpires, redis, database, history,
         countVars
<1>5. UNCHANGED vars => UNCHANGED countVars
  BY DEF vars, redis, database, history, countVars
<1> QED  BY <1>1, <1>2, <1>3, <1>4, <1>5 DEF Next, Fault

\* Every step keeps what the counts rely on.
LEMMA CountStep == ASSUME CountInv, [Next]_vars PROVE CountInv'
<1> USE DEF CountInv, CountsTyped, SchedulerHolds, JobHolds, ViewsConserved,
            HourlyViewsKept
<1>1. CASE UNCHANGED countVars  BY <1>1 DEF countVars
<1>2. ASSUME NEW n \in View, AddView(n)  PROVE CountInv'
  <2>1. /\ hourly' = [hourly EXCEPT !["now"] = hourly["now"] + 1]
        /\ buffer' = buffer + 1 /\ counted' = counted + 1 /\ lost' = lost
        /\ UNCHANGED <<exists, views, hourRows, sched, job>>
    BY <1>2 DEF AddView, database
  <2>2. /\ hourly' \in [Hour -> Nat]
        /\ hourly'["now"] = hourly["now"] + 1 /\ hourly'["past"] = hourly["past"]
    BY <2>1 DEF Hour
  <2>3. CountsTyped' /\ SchedulerHolds' /\ JobHolds'
    BY <2>1, <2>2 DEF Counting, Idle
  <2>4. ViewsConserved'
    BY <2>1 DEF Counting, Idle
  <2>5. HourlyViewsKept'
    BY <2>1, <2>2 DEF Counting, Idle, Hour
  <2> QED  BY <2>3, <2>4, <2>5
<1>3. CASE HourPasses
  <2>1. /\ hourly' = [now |-> 0, past |-> hourly["now"]] /\ hourly["past"] = 0
        /\ sched' = sched /\ job' = job /\ job = Idle /\ lost' = lost
        /\ UNCHANGED <<buffer, exists, views, hourRows, counted>>
    BY <1>3 DEF HourPasses, Quiet, database, history
  <2>2. /\ hourly' \in [Hour -> Nat]
        /\ hourly'["now"] = 0 /\ hourly'["past"] = hourly["now"]
    BY <2>1 DEF Hour
  <2> QED  BY <2>1, <2>2 DEF Idle
<1>4. CASE GetLocalVideoViews
  BY <1>4 DEF GetLocalVideoViews, redis, database, history, Idle, Counting
<1>5. CASE DeleteLocalVideoViews
  BY <1>5 DEF DeleteLocalVideoViews, Deleted, database, Idle, Counting
<1>6. CASE IncrementViews
  BY <1>6 DEF IncrementViews, redis, Idle, Counting
<1>7. CASE SchedulerFails
  BY <1>7 DEF SchedulerFails, redis, database, Idle, Counting
<1>8. CASE GetVideoViewsStats
  BY <1>8 DEF GetVideoViewsStats, ProcessedHour, redis, database, history, Idle,
              Counting, Hour
<1>9. CASE DeleteVideoViewsStats
  BY <1>9 DEF DeleteVideoViewsStats, ProcessedHour, database, history, Idle,
              Counting, Hour
<1>10. CASE CreateVideoView
  BY <1>10 DEF CreateVideoView, redis, Idle, Counting, Hour
<1>11. CASE JobFails
  BY <1>11 DEF JobFails, redis, database, Idle, Counting, Hour
<1>12. CASE DeleteVideo
  BY <1>12 DEF DeleteVideo, redis
<1>13. CASE Restart
  BY <1>13 DEF Restart, redis, database, Idle, Counting, Hour
<1> QED
  BY <1>1, <1>2, <1>3, <1>4, <1>5, <1>6, <1>7, <1>8, <1>9, <1>10, <1>11, <1>12,
     <1>13, CountingSteps DEF SchedulerStep, JobStep

\* It holds in every reachable state.
LEMMA CountsAlways == Spec => []CountInv
<1>1. Init => CountInv
  BY DEF Init, CountInv, CountsTyped, SchedulerHolds, JobHolds, ViewsConserved,
         HourlyViewsKept, Counting, Idle, Hour
<1>2. CountInv /\ [Next]_vars => CountInv'  BY CountStep
<1> QED  BY <1>1, <1>2, PTL DEF Spec

\* No failure, restart or interleaving counts a view twice on the video, and
\* none goes missing but in the cases lost records.
THEOREM ViewsNeverCountedTwice == Spec => []ViewsConserved
<1>1. CountInv => ViewsConserved  BY DEF CountInv
<1> QED  BY <1>1, CountsAlways, PTL

\* The hourly statistics lose views only by a failure or a restart between the
\* deletion of the counter and the row, or by the video's deletion.
THEOREM HourlyViewsNeverRaced == Spec => []HourlyViewsKept
<1>1. CountInv => HourlyViewsKept  BY DEF CountInv
<1> QED  BY <1>1, CountsAlways, PTL

-----------------------------------------------------------------------------
(* Viewers.                                                                 *)

ViewerInv == Typed /\ ViewerCountedOnce

\* Most steps leave the list of viewers and the map alone.
LEMMA ViewerSteps ==
    ASSUME [Next]_vars
    PROVE  \/ UNCHANGED <<watchers, idToViewer>>
           \/ \E n \in View : AddLocalViewer(n)
           \/ CleanViewerCounters \/ Restart
<1>1. ASSUME NEW n \in View, RequestStep(n) \/ RequestFails(n), ~AddLocalViewer(n)
      PROVE  UNCHANGED <<watchers, idToViewer>>
  BY <1>1 DEF RequestStep, StatsRead, ViewerLocated, AddView,
              DoesVideoIPViewExist, SetIPVideoView, RequestFails
<1>2. ASSUME NEW ip \in Ip, ReportView(ip)
      PROVE  UNCHANGED <<watchers, idToViewer>>
  BY <1>2 DEF ReportView
<1>3. ProcessStep \/ ProcessViewerStatsFails => UNCHANGED <<watchers, idToViewer>>
  BY DEF ProcessStep, ListLocalVideoViewerKeys, GetLocalVideoViewerByKey,
         SaveViewerStats, DeleteLocalVideoViewersKeys, ProcessViewerStatsFails
<1>4. SchedulerStep \/ SchedulerFails \/ JobStep \/ JobFails =>
        UNCHANGED <<watchers, idToViewer>>
  BY DEF SchedulerStep, GetLocalVideoViews, DeleteLocalVideoViews,
         IncrementViews, SchedulerFails, JobStep, GetVideoViewsStats,
         DeleteVideoViewsStats, CreateVideoView, JobFails
<1>5. Time \/ DeleteVideo \/ UNCHANGED vars => UNCHANGED <<watchers, idToViewer>>
  BY DEF Time, HourPasses, ViewerExpires, DeleteVideo, vars
<1> QED  BY <1>1, <1>2, <1>3, <1>4, <1>5 DEF Next, Fault

\* The counters of the bounds only grow.
LEMMA CountersTyped == [Next]_vars /\ Typed => started' \in Nat /\ faults' \in Nat
<1> SUFFICES ASSUME [Next]_vars, Typed  PROVE started' \in Nat /\ faults' \in Nat
  OBVIOUS
<1>1. ASSUME NEW ip \in Ip, ReportView(ip)
      PROVE  started' = started + 1 /\ faults' = faults
  BY <1>1 DEF ReportView
<1>2. Fault => started' = started /\ faults' = faults + 1
  BY DEF Fault, RequestFails, SchedulerFails, JobFails, ProcessViewerStatsFails,
         DeleteVideo, Restart, Fails
<1>3. ASSUME NEW n \in View, RequestStep(n)  PROVE UNCHANGED <<started, faults>>
  BY <1>3 DEF RequestStep, StatsRead, ViewerLocated, AddLocalViewer,
              DoesVideoIPViewExist, SetIPVideoView, AddView
<1>4. SchedulerStep \/ JobStep => UNCHANGED <<started, faults>>
  BY DEF SchedulerStep, GetLocalVideoViews, DeleteLocalVideoViews,
         IncrementViews, JobStep, GetVideoViewsStats, DeleteVideoViewsStats,
         CreateVideoView
<1>5. ProcessStep \/ CleanViewerCounters \/ Time => UNCHANGED <<started, faults>>
  BY DEF ProcessStep, ListLocalVideoViewerKeys, GetLocalVideoViewerByKey,
         SaveViewerStats, DeleteLocalVideoViewersKeys, CleanViewerCounters, Time,
         HourPasses, ViewerExpires
<1>6. UNCHANGED vars => UNCHANGED <<started, faults>>  BY DEF vars
<1> QED  BY <1>1, <1>2, <1>3, <1>4, <1>5, <1>6 DEF Next, Typed

\* Every step keeps the list of viewers and the map together.
LEMMA ViewerStep == ASSUME ViewerInv, [Next]_vars PROVE ViewerInv'
<1>1. Typed /\ ViewerCountedOnce  BY DEF ViewerInv
<1>2. req' \in [View -> Requests] /\ StatsKept'
  <2>1. CASE UNCHANGED vars
    BY <1>1, <2>1 DEF vars, redis, Typed, StatsKept
  <2>2. CASE ~UNCHANGED vars
    BY <1>1, <2>2, RequestTyped, ReportTyped, OthersTyped DEF Next, Fault
  <2> QED  BY <2>1, <2>2
<1>3. /\ watchers' \subseteq Viewer /\ idToViewer' \in [Ip -> Viewer \cup {None}]
      /\ ViewerCountedOnce'
  <2>1. CASE UNCHANGED <<watchers, idToViewer>>
    BY <1>1, <2>1 DEF Typed, ViewerCountedOnce
  <2>2. ASSUME NEW n \in View, AddLocalViewer(n)
        PROVE  /\ watchers' \subseteq Viewer
               /\ idToViewer' \in [Ip -> Viewer \cup {None}]
               /\ ViewerCountedOnce'
    <3> DEFINE ip == req[n].ip
               new == [ip |-> ip, by |-> n]
    <3>1. ip \in Ip  BY <1>1, <2>2, RequestIp DEF AddLocalViewer
    <3>2. new \in Viewer /\ new # None /\ new.ip = ip
      BY <3>1, NoneAssumption DEF Viewer
    <3>3. CASE UNCHANGED <<watchers, idToViewer>>
      BY <1>1, <3>3 DEF Typed, ViewerCountedOnce
    <3>4. CASE /\ idToViewer[ip] = None
               /\ watchers' = watchers \cup {new}
               /\ idToViewer' = [idToViewer EXCEPT ![ip] = new]
      <4> HIDE DEF new, ip
      <4> QED  BY <1>1, <3>1, <3>2, <3>4 DEF Typed, ViewerCountedOnce
    <3> QED  BY <2>2, <3>3, <3>4 DEF AddLocalViewer
  <2>3. CASE CleanViewerCounters
    <3>1. watchers' \subseteq watchers
      BY <2>3 DEF CleanViewerCounters
    <3>2. idToViewer' \in [Ip -> Viewer \cup {None}]
      BY <1>1, <2>3 DEF CleanViewerCounters, Typed
    <3>3. ASSUME NEW ip \in Ip
          PROVE  {v \in watchers' : v.ip = ip}
                   = IF idToViewer'[ip] = None THEN {} ELSE {idToViewer'[ip]}
      <4>1. {v \in watchers : v.ip = ip}
              = IF idToViewer[ip] = None THEN {} ELSE {idToViewer[ip]}
        BY <1>1 DEF ViewerCountedOnce
      <4>2. idToViewer'[ip] = IF \E v \in watchers \ active : v.ip = ip
                              THEN None ELSE idToViewer[ip]
        BY <2>3 DEF CleanViewerCounters, Forgotten
      <4>3. watchers' = watchers \cap active
        BY <2>3 DEF CleanViewerCounters
      <4> QED  BY <4>1, <4>2, <4>3
    <3> QED  BY <1>1, <3>1, <3>2, <3>3 DEF Typed, ViewerCountedOnce
  <2>4. CASE Restart
    BY <2>4 DEF Restart, ViewerCountedOnce
  <2> QED  BY <2>1, <2>2, <2>3, <2>4, ViewerSteps
<1> QED  BY <1>1, <1>2, <1>3, CountersTyped DEF ViewerInv, Typed

\* However requests, the cleaning and the expiry interleave, each address is
\* counted as one viewer, the one that idToViewer refreshes.
THEOREM EachViewerCountedOnce == Spec => []ViewerCountedOnce
<1>1. Init => ViewerInv
  <2>1. Idle \in Requests  BY DEF Idle, Requests
  <2> QED  BY <2>1 DEF Init, ViewerInv, Typed, StatsKept, ViewerCountedOnce
<1>2. ViewerInv /\ [Next]_vars => ViewerInv'  BY ViewerStep
<1>3. ViewerInv => ViewerCountedOnce  BY DEF ViewerInv
<1> QED  BY <1>1, <1>2, <1>3, PTL DEF Spec
-----------------------------------------------------------------------------
(* How far the counters go.  Every request counts at most one view, so the
   views counted and the requests that may still count one are no more than
   the requests that started.                                               *)

\* What is kept of the views, deleted video or not, was counted.
CountTotals ==
    /\ views + buffer + (IF sched.pc = "deleted" THEN sched.views ELSE 0) <= counted
    /\ hourRows + hourly["now"] + hourly["past"]
         + (IF job.pc = "deleted" THEN job.views ELSE 0) <= counted
    /\ sched # Idle => sched.views > 0
    /\ job # Idle => job.views > 0

\* The actions that count, move or lose views keep the totals.
LEMMA TotalsStep ==
    ASSUME CountInv, CountTotals, [Next]_vars
    PROVE  CountTotals'
<1> USE DEF CountInv, CountsTyped, SchedulerHolds, JobHolds, CountTotals
<1>1. CASE UNCHANGED countVars  BY <1>1 DEF countVars
<1>2. ASSUME NEW n \in View, AddView(n)  PROVE CountTotals'
  <2>1. /\ hourly' = [hourly EXCEPT !["now"] = hourly["now"] + 1]
        /\ buffer' = buffer + 1 /\ counted' = counted + 1
        /\ UNCHANGED <<exists, views, hourRows, sched, job>>
    BY <1>2 DEF AddView, database
  <2>2. hourly'["now"] = hourly["now"] + 1 /\ hourly'["past"] = hourly["past"]
    BY <2>1 DEF Hour
  <2>3. hourly["now"] \in Nat /\ hourly["past"] \in Nat  BY DEF Hour
  <2> QED  BY <2>1, <2>2, <2>3 DEF Counting, Idle
<1>3. CASE HourPasses
  <2>1. /\ hourly' = [now |-> 0, past |-> hourly["now"]] /\ hourly["past"] = 0
        /\ sched' = sched /\ job' = job
        /\ UNCHANGED <<buffer, exists, views, hourRows, counted>>
    BY <1>3 DEF HourPasses, Quiet, database, history
  <2>2. hourly'["now"] = 0 /\ hourly'["past"] = hourly["now"]
    BY <2>1
  <2>3. hourly["now"] \in Nat  BY DEF Hour
  <2> QED  BY <2>1, <2>2, <2>3
<1>4. CASE GetLocalVideoViews
  BY <1>4 DEF GetLocalVideoViews, redis, database, history, Idle, Counting
<1>5. CASE DeleteLocalVideoViews
  BY <1>5 DEF DeleteLocalVideoViews, Deleted, database, Idle, Counting
<1>6. CASE IncrementViews
  BY <1>6 DEF IncrementViews, redis, Idle, Counting
<1>7. CASE SchedulerFails
  BY <1>7 DEF SchedulerFails, redis, database, Idle, Counting
<1>8. CASE GetVideoViewsStats
  BY <1>8 DEF GetVideoViewsStats, ProcessedHour, redis, database, history, Idle,
              Counting, Hour
<1>9. CASE DeleteVideoViewsStats
  BY <1>9 DEF DeleteVideoViewsStats, ProcessedHour, database, history, Idle,
              Counting, Hour
<1>10. CASE CreateVideoView
  BY <1>10 DEF CreateVideoView, redis, Idle, Counting, Hour
<1>11. CASE JobFails
  BY <1>11 DEF JobFails, redis, database, Idle, Counting, Hour
<1>12. CASE DeleteVideo
  <2>1. /\ views' = 0 /\ hourRows' = 0
        /\ UNCHANGED <<buffer, hourly, counted, sched, job>>
    BY <1>12 DEF DeleteVideo, redis
  <2>2. hourly["now"] \in Nat /\ hourly["past"] \in Nat  BY DEF Hour
  <2>3. /\ sched.pc = "deleted" => sched.views \in Nat
        /\ job.pc = "deleted" => job.views \in Nat
    BY DEF Counting, Idle
  <2> QED  BY <2>1, <2>2, <2>3
<1>13. CASE Restart
  BY <1>13 DEF Restart, redis, database, Idle, Counting, Hour
<1> QED
  BY <1>1, <1>2, <1>3, <1>4, <1>5, <1>6, <1>7, <1>8, <1>9, <1>10, <1>11, <1>12,
     <1>13, CountingSteps DEF SchedulerStep, JobStep

\* The requests at work.
Open == {n \in View : req[n] # Idle}

Bounded ==
    /\ started + faults <= MaxEvents /\ faults <= MaxFaults
    /\ counted \in Nat /\ counted + Cardinality(Open) <= started
    /\ \A n \in View : n > started => req[n] = Idle

\* There are finitely many.
LEMMA OpenFinite == IsFiniteSet(Open) /\ Cardinality(Open) \in Nat
<1>1. IsFiniteSet(View)
  BY FS_Interval, ViewCountersAssumption DEF View
<1>2. IsFiniteSet(Open)
  BY <1>1, FS_Subset DEF Open
<1> QED BY <1>2, FS_CardinalityType

\* A step that opens no request and counts no view.
LEMMA ClosingBounded ==
    ASSUME Bounded, started \in Nat, UNCHANGED <<started, counted>>,
           \A n \in View : req'[n] # Idle => req[n] # Idle
    PROVE  /\ counted' + Cardinality(Open') <= started'
           /\ \A n \in View : n > started' => req'[n] = Idle
<1>1. Open' \subseteq Open
  BY DEF Open
<1>2. Cardinality(Open') <= Cardinality(Open) /\ Cardinality(Open') \in Nat
  BY <1>1, OpenFinite, FS_Subset, FS_CardinalityType
<1>3. counted' + Cardinality(Open') <= started'
  BY <1>2, OpenFinite DEF Bounded
<1> QED BY <1>3 DEF Bounded

\* What each step does to the requests and the counters of the bounds.
LEMMA OpenSteps ==
    ASSUME Typed, [Next]_vars
    PROVE  \/ \E ip \in Ip : ReportView(ip)
           \/ \E n \in View : AddView(n)
           \/ /\ UNCHANGED <<started, counted>>
              /\ \A n \in View : req'[n] # Idle => req[n] # Idle
              /\ faults' = faults \/ Fails
<1>1. ASSUME NEW n \in View, RequestStep(n), ~AddView(n)
      PROVE  /\ UNCHANGED <<started, counted, faults>>
             /\ \A m \in View : req'[m] # Idle => req[m] # Idle
  <2>1. /\ UNCHANGED <<started, counted, faults>>
        /\ req[n].pc # "idle" /\ \E r : req' = [req EXCEPT ![n] = r]
    BY <1>1 DEF RequestStep, StatsRead, ViewerLocated, AddLocalViewer,
                DoesVideoIPViewExist, SetIPVideoView, Goto, history
  <2>2. req[n] # Idle
    BY <2>1 DEF Idle
  <2> QED BY <2>1, <2>2 DEF Typed
<1>2. ASSUME NEW n \in View, RequestFails(n)
      PROVE  /\ UNCHANGED <<started, counted>> /\ Fails
             /\ \A m \in View : req'[m] # Idle => req[m] # Idle
  BY <1>2 DEF RequestFails, history, Typed
<1>3. SchedulerStep \/ JobStep => UNCHANGED <<req, started, counted, faults>>
  BY DEF SchedulerStep, GetLocalVideoViews, DeleteLocalVideoViews, IncrementViews,
         JobStep, GetVideoViewsStats, DeleteVideoViewsStats, CreateVideoView,
         history
<1>4. ProcessStep => UNCHANGED <<req, started, counted, faults>>
  BY DEF ProcessStep, ListLocalVideoViewerKeys, GetLocalVideoViewerByKey,
         SaveViewerStats, DeleteLocalVideoViewersKeys, history
<1>5. CleanViewerCounters \/ Time => UNCHANGED <<req, started, counted, faults>>
  BY DEF CleanViewerCounters, Time, HourPasses, ViewerExpires, history
<1>6. SchedulerFails \/ JobFails \/ ProcessViewerStatsFails \/ DeleteVideo =>
        UNCHANGED <<req, started, counted>> /\ Fails
  BY DEF SchedulerFails, JobFails, ProcessViewerStatsFails, DeleteVideo
<1>7. Restart => /\ UNCHANGED <<started, counted>> /\ Fails
                 /\ \A m \in View : req'[m] = Idle
  BY DEF Restart
<1>8. UNCHANGED vars => UNCHANGED <<req, started, counted, faults>>
  BY DEF vars, history
<1> QED BY <1>1, <1>2, <1>3, <1>4, <1>5, <1>6, <1>7, <1>8 DEF Next, Fault

\* No more views are counted than requests started, nor more requests and
\* faults than the bounds allow.
LEMMA BoundedStep ==
    ASSUME Typed, Bounded, counted' \in Nat, [Next]_vars
    PROVE  Bounded'
<1> USE ViewCountersAssumption DEF Typed
<1>1. ASSUME NEW ip \in Ip, ReportView(ip)
      PROVE  Bounded'
  <2> DEFINE n == started + 1
  <2>1. /\ started' = n /\ n \in View /\ faults' = faults /\ counted' = counted
        /\ started + faults < MaxEvents
        /\ \E r : req' = [req EXCEPT ![n] = r]
    BY <1>1 DEF ReportView, View
  <2>2. req[n] = Idle
    BY <2>1 DEF Bounded
  <2>3. n \notin Open /\ Open' \subseteq Open \cup {n}
    BY <2>1, <2>2 DEF Open
  <2>4. /\ IsFiniteSet(Open \cup {n})
        /\ Cardinality(Open \cup {n}) = Cardinality(Open) + 1
    BY <2>3, OpenFinite, FS_AddElement
  <2>5. Cardinality(Open') <= Cardinality(Open) + 1 /\ Cardinality(Open') \in Nat
    BY <2>3, <2>4, FS_Subset, FS_CardinalityType
  <2>6. \A m \in View : m > n => req'[m] = Idle
    BY <2>1 DEF Bounded, View
  <2>7. counted + Cardinality(Open') <= n
    BY <2>5, OpenFinite DEF Bounded
  <2> QED BY <2>1, <2>6, <2>7 DEF Bounded
<1>2. ASSUME NEW n \in View, AddView(n)
      PROVE  Bounded'
  <2>1. /\ req[n] # Idle /\ req' = [req EXCEPT ![n] = Idle]
        /\ counted' = counted + 1 /\ UNCHANGED <<started, faults>>
    BY <1>2 DEF AddView, Idle
  <2>2. Open' = Open \ {n} /\ n \in Open
    BY <2>1 DEF Open
  <2>3. Cardinality(Open') = Cardinality(Open) - 1
    BY <2>2, OpenFinite, FS_RemoveElement
  <2>4. \A m \in View : req'[m] # Idle => req[m] # Idle
    BY <2>1
  <2> QED BY <2>1, <2>3, <2>4, OpenFinite DEF Bounded
<1>3. ASSUME UNCHANGED <<started, counted>>,
             \A n \in View : req'[n] # Idle => req[n] # Idle,
             faults' = faults \/ Fails
      PROVE  Bounded'
  <2>1. started + faults' <= MaxEvents /\ faults' <= MaxFaults
    BY <1>3 DEF Bounded, Fails
  <2> QED BY <1>3, <2>1, ClosingBounded DEF Bounded
<1> QED BY <1>1, <1>2, <1>3, OpenSteps

-----------------------------------------------------------------------------
(* Statistics.  Who writes them: a request that found them in viewerCache, one
   that Redis gave a copy, one that found none, and processViewerStats.     *)

watchVars == <<started, stats, cached, proc, rows, recorded, disturbed>>

\* A request or a task goes on and leaves the statistics alone; a request that
\* moves holds none any more.
Keeps ==
    /\ UNCHANGED watchVars
    /\ \A n \in View : \/ req'[n] = req[n]
                       \/ req[n] # Idle /\ req'[n].pc \notin {"read", "locate"}

\* A request starts: with a copy to wait for, or nothing to write.
Begins(ip) ==
    /\ started' = started + 1 /\ started + 1 \in View
    /\ UNCHANGED <<stats, cached, proc, rows, recorded, disturbed>>
    /\ \/ req' = [req EXCEPT ![started + 1] = [pc |-> "count", ip |-> ip]]
       \/ /\ ip \notin cached
          /\ req' = [req EXCEPT ![started + 1] =
                       [pc |-> "read", ip |-> ip, held |-> stats[ip]]]

\* A request learns that there are none.
Looks(n) ==
    /\ req[n].pc = "read" /\ req[n].held = None
    /\ req' = [req EXCEPT ![n] = [pc |-> "locate", ip |-> req[n].ip]]
    /\ UNCHANGED watchVars

\* A request writes s, made of the cached object, of its copy, or new.
Source(n, ip, s) ==
    \/ /\ n = started + 1 /\ started' = n /\ ip \in cached
       /\ ~Full(stats[ip]) /\ s = Watched(stats[ip], n)
    \/ /\ started' = started /\ req[n].pc = "read" /\ req[n].ip = ip
       /\ req[n].held # None /\ ~Full(req[n].held)
       /\ s = Watched(req[n].held, n)
    \/ /\ started' = started /\ req[n].pc = "locate" /\ req[n].ip = ip
       /\ s = [views |-> {n}, fresh |-> TRUE]

Records(n, ip, s) ==
    /\ SetLocalVideoViewer(n, ip, s) /\ Source(n, ip, s) /\ rows' = rows
    /\ req' = [req EXCEPT ![n] = [pc |-> "count", ip |-> ip]]

\* What a report does to the statistics.
LEMMA ReportSteps ==
    ASSUME Typed, NEW ip \in Ip, ReportView(ip)
    PROVE  \/ Begins(ip)
           \/ \E s \in Stats : Records(started + 1, ip, s)
<1> DEFINE n == started + 1
<1>1. n \in View /\ started' = n /\ rows' = rows
  BY ViewCountersAssumption DEF ReportView, Typed, View, database
<1>2. CASE ip \in cached /\ ~Full(stats[ip])
  <2>1. stats[ip] \in Stats
    BY <1>2 DEF Typed, StatsKept
  <2>2. Watched(stats[ip], n) \in Stats
    BY <1>1, <2>1, WatchedTyped
  <2>3. /\ SetLocalVideoViewer(n, ip, Watched(stats[ip], n))
        /\ req' = [req EXCEPT ![n] = [pc |-> "count", ip |-> ip]]
    BY <1>2 DEF ReportView
  <2>4. Source(n, ip, Watched(stats[ip], n))
    BY <1>1, <1>2 DEF Source
  <2> QED BY <1>1, <2>2, <2>3, <2>4 DEF Records
<1>3. CASE ip \in cached /\ Full(stats[ip])
  <2>1. KeepStats /\ req' = [req EXCEPT ![n] = [pc |-> "count", ip |-> ip]]
    BY <1>3 DEF ReportView
  <2> QED BY <1>1, <2>1 DEF Begins, KeepStats
<1>4. CASE ip \notin cached
  <2>1. KeepStats /\ req' = [req EXCEPT ![n] = [pc |-> "read", ip |-> ip,
                                                held |-> stats[ip]]]
    BY <1>4 DEF ReportView
  <2> QED BY <1>1, <1>4, <2>1 DEF Begins, KeepStats
<1> QED BY <1>2, <1>3, <1>4

\* What a step of a request does to them.
LEMMA RequestSteps ==
    ASSUME Typed, NEW n \in View, RequestStep(n) \/ RequestFails(n)
    PROVE  Keeps \/ Looks(n) \/ \E ip \in Ip, s \in Stats : Records(n, ip, s)
<1>0. ASSUME UNCHANGED watchVars, req[n].pc # "idle", NEW r,
             r.pc \notin {"read", "locate"}, req' = [req EXCEPT ![n] = r]
      PROVE  Keeps
  <2>1. req[n] # Idle
    BY <1>0 DEF Idle
  <2> QED BY <1>0, <2>1 DEF Keeps, Typed
<1>1. CASE StatsRead(n)
  <2> DEFINE ip == req[n].ip
             held == req[n].held
  <2>1. req[n].pc = "read" /\ started' = started /\ rows' = rows
    BY <1>1 DEF StatsRead, database
  <2>2. req[n] \in Requests
    BY DEF Typed
  <2>3. ip \in Ip /\ held \in Stats \cup {None}
    BY <2>1, <2>2 DEF Requests
  <2>4. CASE held = None
    BY <1>1, <2>1, <2>4 DEF StatsRead, Goto, Looks, KeepStats, watchVars
  <2>5. CASE held # None /\ Full(held)
    <3>1. KeepStats /\ Goto(n, "count")
      BY <1>1, <2>5 DEF StatsRead
    <3> QED BY <1>0, <2>1, <3>1 DEF KeepStats, Goto, watchVars
  <2>6. CASE held # None /\ ~Full(held)
    <3>1. /\ SetLocalVideoViewer(n, ip, Watched(held, n))
          /\ req' = [req EXCEPT ![n] = [pc |-> "count", ip |-> ip]]
      BY <1>1, <2>6 DEF StatsRead, Goto
    <3>2. Watched(held, n) \in Stats
      BY <2>3, <2>6, WatchedTyped
    <3>3. Source(n, ip, Watched(held, n))
      BY <2>1, <2>6 DEF Source
    <3> QED BY <2>1, <2>3, <3>1, <3>2, <3>3 DEF Records
  <2> QED BY <2>4, <2>5, <2>6
<1>2. CASE ViewerLocated(n)
  <2> DEFINE ip == req[n].ip
             s == [views |-> {n}, fresh |-> TRUE]
  <2>1. /\ req[n].pc = "locate" /\ started' = started /\ rows' = rows
        /\ SetLocalVideoViewer(n, ip, s)
        /\ req' = [req EXCEPT ![n] = [pc |-> "count", ip |-> ip]]
    BY <1>2 DEF ViewerLocated, database, Goto
  <2>2. ip \in Ip /\ s \in Stats
    BY <2>1, RequestIp DEF Stats
  <2>3. Source(n, ip, s)
    BY <2>1 DEF Source
  <2> QED BY <2>1, <2>2, <2>3 DEF Records
<1>3. CASE AddLocalViewer(n)
  BY <1>0, <1>3 DEF AddLocalViewer, Goto, redis, database, history, watchVars
<1>4. CASE DoesVideoIPViewExist(n)
  <2>1. \/ req' = [req EXCEPT ![n] = Idle]
        \/ Goto(n, "new")
    BY <1>4 DEF DoesVideoIPViewExist
  <2>2. UNCHANGED watchVars /\ req[n].pc # "idle"
    BY <1>4 DEF DoesVideoIPViewExist, redis, database, history, watchVars
  <2> QED BY <1>0, <2>1, <2>2 DEF Goto, Idle
<1>5. CASE SetIPVideoView(n)
  BY <1>0, <1>5 DEF SetIPVideoView, Goto, database, history, watchVars
<1>6. CASE AddView(n)
  BY <1>0, <1>6 DEF AddView, Idle, database, watchVars
<1>7. CASE RequestFails(n)
  BY <1>0, <1>7 DEF RequestFails, Idle, redis, database, history, watchVars
<1> QED BY <1>1, <1>2, <1>3, <1>4, <1>5, <1>6, <1>7 DEF RequestStep

\* The steps that touch statistics, or hold some.
LEMMA WatchSteps ==
    ASSUME Typed, [Next]_vars
    PROVE  \/ Keeps
           \/ \E ip \in Ip : Begins(ip)
           \/ \E n \in View : Looks(n)
           \/ \E n \in View, ip \in Ip, s \in Stats : Records(n, ip, s)
           \/ HourPasses \/ ListLocalVideoViewerKeys
           \/ \E ip \in Ip : GetLocalVideoViewerByKey(ip)
           \/ SaveViewerStats \/ DeleteLocalVideoViewersKeys
           \/ ProcessViewerStatsFails \/ DeleteVideo \/ Restart
<1>1. ASSUME NEW ip \in Ip, ReportView(ip)
      PROVE  Begins(ip) \/ \E n \in View, s \in Stats : Records(n, ip, s)
  <2>1. started + 1 \in View
    BY <1>1, ViewCountersAssumption DEF ReportView, Typed, View
  <2> QED BY <1>1, <2>1, ReportSteps
<1>2. UNCHANGED <<req, watchVars>> => Keeps
  BY DEF Keeps
<1>3. SchedulerStep => UNCHANGED <<req, watchVars>>
  BY DEF SchedulerStep, GetLocalVideoViews, DeleteLocalVideoViews,
         IncrementViews, redis, database, history, watchVars
<1>4. JobStep => UNCHANGED <<req, watchVars>>
  BY DEF JobStep, GetVideoViewsStats, DeleteVideoViewsStats, CreateVideoView,
         redis, database, history, watchVars
<1>5. SchedulerFails \/ JobFails => UNCHANGED <<req, watchVars>>
  BY DEF SchedulerFails, JobFails, redis, database, watchVars
<1>6. CleanViewerCounters => UNCHANGED <<req, watchVars>>
  BY DEF CleanViewerCounters, redis, database, history, watchVars
<1>7. Time => HourPasses \/ UNCHANGED <<req, watchVars>>
  BY DEF Time, ViewerExpires, redis, database, history, watchVars
<1>8. UNCHANGED vars => UNCHANGED <<req, watchVars>>
  BY DEF vars, redis, database, history, watchVars
<1> QED BY <1>1, <1>2, <1>3, <1>4, <1>5, <1>6, <1>7, <1>8, RequestSteps
        DEF Next, Fault, ProcessStep

-----------------------------------------------------------------------------
(* The execution of processViewerStats, and the limit on watch sections.    *)

Holding ==
    [pc : {"read", "saved"}, keys : SUBSET Ip, ip : Ip, held : Stats,
     shared : BOOLEAN]

\* A key it is to read exists; the one it handles is not among them.
ProcKept ==
    /\ proc \in Processes
    /\ proc # Idle => \A ip \in proc.keys : stats[ip] # None
    /\ proc.pc \in {"read", "saved"} => proc.ip \notin proc.keys

Within ==
    \A ip \in Ip : stats[ip] # None => Cardinality(stats[ip].views) <= MaxSections

HistoryTyped ==
    /\ cached \subseteq Ip /\ rows \in [View -> Nat]
    /\ recorded \in [View -> Ip \cup {None}] /\ disturbed \subseteq Ip

StatsInv == HistoryTyped /\ Within /\ ProcKept

\* Where the execution may be.
LEMMA ProcCases ==
    ASSUME ProcKept
    PROVE  /\ proc = Idle \/ proc.pc = "loop" \/ proc \in Holding
           /\ proc.pc = "loop" => proc \in [pc : {"loop"}, keys : (SUBSET Ip) \ {{}}]
           /\ proc.pc \in {"read", "saved"} => proc \in Holding
BY DEF ProcKept, Processes, Holding, Idle

\* It goes on to the next key, or ends.
LEMMA NextKeyTyped ==
    ASSUME NEW keys \in SUBSET Ip, proc' = NextKey(keys),
           \A ip \in keys : stats'[ip] # None
    PROVE  ProcKept'
<1>1. CASE keys = {}
  <2>1. proc' = Idle
    BY <1>1 DEF NextKey
  <2> QED BY <2>1 DEF ProcKept, Processes, Idle
<1>2. CASE keys # {}
  <2>1. proc' = [pc |-> "loop", keys |-> keys]
    BY <1>2 DEF NextKey
  <2>2. proc' \in [pc : {"loop"}, keys : (SUBSET Ip) \ {{}}]
    BY <1>2, <2>1
  <2>3. proc'.pc = "loop" /\ proc'.keys = keys /\ proc' \in Processes
    BY <2>1, <2>2 DEF Processes
  <2> QED BY <2>3 DEF ProcKept
<1> QED BY <1>1, <1>2

\* What is written stays within the limit.
LEMMA SourceWithin ==
    ASSUME Typed, NEW n \in View, NEW ip \in Ip, NEW s \in Stats,
           Records(n, ip, s)
    PROVE  Cardinality(s.views) <= MaxSections
<1>1. IsFiniteSet(View)
  BY FS_Interval, ViewCountersAssumption DEF View
<1>2. ASSUME NEW q \in Stats, ~Full(q)
      PROVE  Cardinality(Watched(q, n).views) <= MaxSections
  <2>1. IsFiniteSet(q.views) /\ Watched(q, n).views = q.views \cup {n}
    BY <1>1, FS_Subset DEF Stats, Watched
  <2>2. Cardinality(q.views) \in Nat /\ ~(Cardinality(q.views) >= MaxSections)
    BY <1>2, <2>1, FS_CardinalityType DEF Full
  <2>3. CASE n \in q.views
    <3>1. q.views \cup {n} = q.views
      BY <2>3
    <3>2. Cardinality(q.views) <= MaxSections
      BY <2>2, ViewCountersAssumption
    <3> QED BY <2>1, <3>1, <3>2
  <2>4. CASE n \notin q.views
    <3>1. Cardinality(q.views \cup {n}) = Cardinality(q.views) + 1
      BY <2>1, <2>4, FS_AddElement
    <3> QED BY <2>1, <2>2, <3>1, ViewCountersAssumption
  <2> QED BY <2>3, <2>4
<1>3. Cardinality({n}) <= MaxSections
  <2>1. Cardinality({n}) = 1
    BY FS_Singleton
  <2> QED BY <2>1, ViewCountersAssumption
<1>4. CASE ip \in cached /\ ~Full(stats[ip]) /\ s = Watched(stats[ip], n)
  <2>1. stats[ip] \in Stats
    BY <1>4 DEF Typed, StatsKept
  <2> QED BY <1>2, <1>4, <2>1
<1>5. CASE /\ req[n].pc = "read" /\ req[n].held # None
           /\ ~Full(req[n].held) /\ s = Watched(req[n].held, n)
  <2>1. req[n] \in Requests
    BY DEF Typed
  <2>2. req[n].held \in Stats
    BY <1>5, <2>1 DEF Requests
  <2> QED BY <1>2, <1>5, <2>2
<1>6. CASE s = [views |-> {n}, fresh |-> TRUE]
  BY <1>3, <1>6
<1> QED BY <1>4, <1>5, <1>6 DEF Records, Source

\* A write keeps the types.
LEMMA RecordsStats ==
    ASSUME Typed, StatsInv, NEW n \in View, NEW ip \in Ip, NEW s \in Stats,
           Records(n, ip, s)
    PROVE  StatsInv'
<1> USE DEF StatsInv
<1>1. /\ stats' = [stats EXCEPT ![ip] = s] /\ cached' = cached \cup {ip}
      /\ recorded' = [recorded EXCEPT ![n] = ip] /\ rows' = rows
      /\ disturbed' \in {disturbed, disturbed \cup {ip}}
  BY DEF Records, SetLocalVideoViewer
<1>2. HistoryTyped'
  BY <1>1 DEF HistoryTyped
<1>3. s # None
  BY NoneAssumption
<1>4. \A i \in Ip : stats'[i] = IF i = ip THEN s ELSE stats[i]
  BY <1>1 DEF Typed, StatsKept
<1>5. Within'
  BY <1>4, SourceWithin DEF Within
<1>6. CASE proc' = proc
  <2>1. proc # Idle => proc.keys \subseteq Ip
    BY ProcCases DEF Holding
  <2> QED BY <1>2, <1>3, <1>4, <1>5, <1>6, <2>1 DEF ProcKept
<1>7. CASE /\ proc.pc \in {"read", "saved"}
           /\ \/ proc' = [proc EXCEPT !.held = s]
              \/ proc' = [proc EXCEPT !.shared = FALSE]
  <2>1. proc \in Holding
    BY <1>7, ProcCases
  <2>2. proc' \in Holding /\ proc'.keys = proc.keys /\ proc'.ip = proc.ip
    BY <1>7, <2>1 DEF Holding
  <2>3. proc' \in Processes
    BY <2>2 DEF Holding, Processes
  <2>4. proc # Idle /\ proc.keys \subseteq Ip
    BY <1>7, <2>1 DEF Holding, Idle
  <2>5. ProcKept'
    BY <1>3, <1>4, <1>7, <2>2, <2>3, <2>4 DEF ProcKept
  <2> QED BY <1>2, <1>5, <2>5
<1> QED BY <1>6, <1>7 DEF Records, SetLocalVideoViewer

\* Every step keeps them.
LEMMA StatsStep ==
    ASSUME Typed, StatsInv, [Next]_vars
    PROVE  StatsInv'
<1> USE DEF StatsInv
<1>1. ASSUME UNCHANGED <<stats, cached, proc, rows, recorded, disturbed>>
      PROVE  StatsInv'
  BY <1>1 DEF HistoryTyped, Within, ProcKept
<1>2. CASE \/ Keeps \/ \E ip \in Ip : Begins(ip)
           \/ \E n \in View : Looks(n)
  BY <1>1, <1>2 DEF Keeps, Begins, Looks, watchVars
<1>3. CASE HourPasses
  <2>1. /\ UNCHANGED <<cached, proc, rows, recorded, disturbed>> /\ proc = Idle
        /\ stats' = [ip \in Ip |-> IF stats[ip] = None THEN None
                                   ELSE [stats[ip] EXCEPT !.fresh = FALSE]]
    BY <1>3 DEF HourPasses, Quiet, database, history
  <2>2. \A ip \in Ip : stats'[ip] # None => /\ stats[ip] # None
                                            /\ stats'[ip].views = stats[ip].views
    BY <2>1 DEF Typed, StatsKept, Stats
  <2>3. Within'
    BY <2>2 DEF Within
  <2> QED BY <2>1, <2>3 DEF HistoryTyped, ProcKept, Idle
<1>4. CASE ListLocalVideoViewerKeys
  <2>1. UNCHANGED <<stats, cached, rows, recorded, disturbed>>
    BY <1>4 DEF ListLocalVideoViewerKeys, redis, database, history
  <2> DEFINE keys == {ip \in Ip : stats[ip] # None}
  <2>2. proc' = [pc |-> "loop", keys |-> keys] /\ keys # {}
    BY <1>4 DEF ListLocalVideoViewerKeys
  <2>3. ProcKept'
    <3>1. NextKey(keys) = [pc |-> "loop", keys |-> keys]
      BY <2>2 DEF NextKey
    <3>2. keys \in SUBSET Ip /\ \A ip \in keys : stats'[ip] # None
      BY <2>1
    <3> HIDE DEF keys
    <3> QED BY <2>2, <3>1, <3>2, NextKeyTyped
  <2> QED BY <2>1, <2>3 DEF HistoryTyped, Within
<1>5. ASSUME NEW ip \in Ip, GetLocalVideoViewerByKey(ip) PROVE StatsInv'
  <2>1. UNCHANGED <<stats, cached, rows, recorded, disturbed>>
    BY <1>5 DEF GetLocalVideoViewerByKey, redis, database, history
  <2>2. proc.pc = "loop" /\ ip \in proc.keys
    BY <1>5 DEF GetLocalVideoViewerByKey
  <2>3. proc.keys \subseteq Ip /\ proc # Idle
    BY <2>2, ProcCases DEF Idle
  <2>4. stats[ip] \in Stats /\ \A i \in proc.keys \ {ip} : stats'[i] # None
    BY <2>1, <2>2, <2>3 DEF ProcKept, Typed, StatsKept
  <2>5. CASE proc' = NextKey(proc.keys \ {ip})
    BY <2>1, <2>3, <2>4, <2>5, NextKeyTyped DEF HistoryTyped, Within
  <2>6. CASE proc' = [pc |-> "read", keys |-> proc.keys \ {ip}, ip |-> ip,
                      held |-> stats[ip], shared |-> ip \in cached]
    <3>1. (ip \in cached) \in BOOLEAN
      OBVIOUS
    <3>2. proc' \in Holding
      BY <2>3, <2>4, <2>6, <3>1 DEF Holding
    <3>3. proc' \in Processes
      BY <3>2 DEF Holding, Processes
    <3>4. ProcKept'
      BY <2>4, <2>6, <3>3 DEF ProcKept
    <3> QED BY <2>1, <3>4 DEF HistoryTyped, Within
  <2> QED BY <1>5, <2>5, <2>6 DEF GetLocalVideoViewerByKey
<1>6. CASE SaveViewerStats
  <2>1. /\ proc.pc = "read" /\ proc' = [proc EXCEPT !.pc = "saved"]
        /\ UNCHANGED <<stats, cached, recorded>>
        /\ rows' = [n \in View |-> IF exists /\ n \in proc.held.views
                                   THEN rows[n] + 1 ELSE rows[n]]
        /\ disturbed' \in {disturbed, disturbed \cup {proc.ip}}
    BY <1>6 DEF SaveViewerStats, redis
  <2>2. proc \in Holding
    BY <2>1, ProcCases
  <2>3. proc' \in Holding /\ proc'.keys = proc.keys /\ proc'.ip = proc.ip
    BY <2>1, <2>2 DEF Holding
  <2>4. proc' \in Processes /\ proc # Idle
    BY <2>1, <2>3 DEF Holding, Processes, Idle
  <2>5. ProcKept'
    BY <2>1, <2>3, <2>4 DEF ProcKept
  <2>6. proc.ip \in Ip
    BY <2>2 DEF Holding
  <2>7. HistoryTyped'
    BY <2>1, <2>6 DEF HistoryTyped
  <2> QED BY <2>1, <2>5, <2>7 DEF Within
<1>7. CASE DeleteLocalVideoViewersKeys
  <2>1. /\ proc.pc = "saved" /\ proc' = NextKey(proc.keys)
        /\ stats' = [stats EXCEPT ![proc.ip] = None]
        /\ cached' \subseteq cached /\ UNCHANGED <<rows, recorded>>
        /\ disturbed' \in {disturbed, disturbed \cup {proc.ip}}
    BY <1>7 DEF DeleteLocalVideoViewersKeys, AfterSave, database
  <2>2. proc.keys \in SUBSET Ip /\ proc.ip \in Ip /\ proc # Idle
    BY <2>1, ProcCases DEF Holding, Idle
  <2>3. \A i \in Ip : stats'[i] = IF i = proc.ip THEN None ELSE stats[i]
    BY <2>1 DEF Typed, StatsKept
  <2>4. \A i \in proc.keys : stats'[i] # None
    BY <2>1, <2>2, <2>3 DEF ProcKept
  <2>5. ProcKept'
    BY <2>1, <2>2, <2>4, NextKeyTyped
  <2> QED BY <2>1, <2>2, <2>3, <2>5 DEF HistoryTyped, Within
<1>8. CASE ProcessViewerStatsFails
  <2>1. /\ proc.pc \in {"read", "saved"} /\ proc' = NextKey(proc.keys)
        /\ cached' \subseteq cached /\ UNCHANGED <<stats, rows, recorded>>
        /\ disturbed' = disturbed \cup {proc.ip}
    BY <1>8 DEF ProcessViewerStatsFails, AfterFailure, redis, database
  <2>2. proc.keys \in SUBSET Ip /\ proc.ip \in Ip /\ proc # Idle
    BY <2>1, ProcCases DEF Holding, Idle
  <2>3. ProcKept'
    BY <2>1, <2>2, NextKeyTyped DEF ProcKept
  <2> QED BY <2>1, <2>2, <2>3 DEF HistoryTyped, Within
<1>9. CASE DeleteVideo
  BY <1>9 DEF DeleteVideo, redis, HistoryTyped, Within, ProcKept
<1>10. CASE Restart
  <2>1. /\ proc' = Idle /\ cached' = {} /\ UNCHANGED <<stats, rows, recorded>>
        /\ \/ disturbed' = disturbed
           \/ proc.pc = "saved" /\ disturbed' = disturbed \cup {proc.ip}
    BY <1>10 DEF Restart, redis, database
  <2>2. disturbed' \subseteq Ip
    BY <2>1, ProcCases DEF HistoryTyped, Holding
  <2> QED BY <2>1, <2>2 DEF HistoryTyped, Within, ProcKept, Processes, Idle
<1> QED BY <1>2, <1>3, <1>4, <1>5, <1>6, <1>7, <1>8, <1>9, <1>10, WatchSteps,
           RecordsStats

-----------------------------------------------------------------------------
(* TypeOK.                                                                  *)

RestTyped ==
    /\ active \subseteq Viewer /\ ipViewed \subseteq Ip
    /\ lost \subseteq {"views", "hourly"}

\* The viewers that are active, the addresses that viewed and the losses.
LEMMA RestStep ==
    ASSUME Typed, RestTyped, [Next]_vars
    PROVE  RestTyped'
<1> USE DEF RestTyped
<1>1. ASSUME NEW n \in View, AddLocalViewer(n) PROVE RestTyped'
  <2> DEFINE ip == req[n].ip
             new == [ip |-> ip, by |-> n]
  <2>1. ip \in Ip
    BY <1>1, RequestIp DEF AddLocalViewer
  <2>2. new \in Viewer /\ (idToViewer[ip] # None => idToViewer[ip] \in Viewer)
    BY <2>1 DEF Viewer, Typed
  <2>3. UNCHANGED <<ipViewed, lost>>
    BY <1>1 DEF AddLocalViewer, redis, history
  <2>4. \/ idToViewer[ip] # None /\ active' = active \cup {idToViewer[ip]}
        \/ active' = active \cup {new}
    BY <1>1 DEF AddLocalViewer
  <2> QED BY <2>2, <2>3, <2>4
<1>2. ASSUME NEW n \in View, SetIPVideoView(n) PROVE RestTyped'
  <2>1. req[n].ip \in Ip
    BY <1>2, RequestIp DEF SetIPVideoView
  <2> QED BY <1>2, <2>1 DEF SetIPVideoView, history
<1>3. ASSUME NEW n \in View, RequestStep(n) \/ RequestFails(n) PROVE RestTyped'
  BY <1>1, <1>2, <1>3
     DEF RequestStep, StatsRead, ViewerLocated, DoesVideoIPViewExist, AddView,
         RequestFails, redis, history
<1>4. ASSUME NEW ip \in Ip, ReportView(ip) PROVE RestTyped'
  BY <1>4 DEF ReportView
<1>5. CASE SchedulerStep \/ SchedulerFails
  BY <1>5 DEF SchedulerStep, GetLocalVideoViews, DeleteLocalVideoViews,
              IncrementViews, SchedulerFails, redis, history
<1>6. CASE JobStep \/ JobFails
  BY <1>6 DEF JobStep, GetVideoViewsStats, DeleteVideoViewsStats,
              CreateVideoView, JobFails, redis, history
<1>7. CASE ProcessStep \/ ProcessViewerStatsFails
  BY <1>7 DEF ProcessStep, ListLocalVideoViewerKeys, GetLocalVideoViewerByKey,
              SaveViewerStats, DeleteLocalVideoViewersKeys,
              ProcessViewerStatsFails, redis, history
<1>8. CASE CleanViewerCounters \/ Time
  BY <1>8 DEF CleanViewerCounters, Time, HourPasses, ViewerExpires, redis,
              history
<1>9. CASE DeleteVideo
  BY <1>9 DEF DeleteVideo, redis
<1>10. CASE Restart
  BY <1>10 DEF Restart, redis
<1>11. CASE UNCHANGED vars
  BY <1>11 DEF vars, redis, history
<1> QED BY <1>3, <1>4, <1>5, <1>6, <1>7, <1>8, <1>9, <1>10, <1>11 DEF Next, Fault

\* The parts of TypeOK, with the bounds of the counters they rest on.
TypeInv ==
    /\ ViewerInv /\ CountInv /\ CountTotals /\ Bounded /\ StatsInv /\ RestTyped

\* The counters stay within the number of reports.
LEMMA TotalsBound ==
    ASSUME TypeInv
    PROVE  /\ started \in 0..MaxEvents /\ faults \in 0..MaxFaults
           /\ buffer \in 0..MaxEvents /\ hourly \in [Hour -> 0..MaxEvents]
           /\ views \in 0..MaxEvents /\ hourRows \in 0..MaxEvents
           /\ counted \in 0..MaxEvents /\ sched \in Tasks /\ job \in Tasks
<1> USE DEF TypeInv, CountInv, CountsTyped, CountTotals
<1>1. /\ MaxEvents \in Nat /\ MaxFaults \in Nat
      /\ started \in Nat /\ faults \in Nat
  BY ViewCountersAssumption DEF ViewerInv, Typed
<1>2. /\ started + faults <= MaxEvents /\ faults <= MaxFaults
      /\ counted + Cardinality(Open) <= started
  BY DEF Bounded
<1>3. started \in 0..MaxEvents /\ faults \in 0..MaxFaults /\ counted <= MaxEvents
  BY <1>1, <1>2, OpenFinite
<1>4. hourly["now"] \in Nat /\ hourly["past"] \in Nat
  BY DEF Hour
<1>5. /\ sched = Idle \/ sched \in [pc : {"got", "deleted"}, views : Nat]
      /\ job = Idle \/ job \in [pc : {"got", "deleted"}, views : Nat]
  BY DEF Counting
<1>6. /\ sched # Idle => sched.pc \in {"got", "deleted"} /\ sched.views \in Nat
      /\ job # Idle => job.pc \in {"got", "deleted"} /\ job.views \in Nat
  BY <1>5
<1>7. views <= counted /\ buffer <= counted
  BY <1>6 DEF Idle
<1>8. /\ hourRows <= counted /\ hourly["now"] <= counted
      /\ hourly["past"] <= counted
  BY <1>4, <1>6 DEF Idle
<1>9. sched # Idle => sched.views \in View
  <2> SUFFICES ASSUME sched # Idle PROVE sched.views \in View
    OBVIOUS
  <2>1. sched.views <= counted
    BY <1>6, <1>7 DEF SchedulerHolds
  <2> QED BY <1>1, <1>3, <1>6, <2>1 DEF View
<1>10. job # Idle => job.views \in View
  <2> SUFFICES ASSUME job # Idle PROVE job.views \in View
    OBVIOUS
  <2>1. job.views <= counted
    BY <1>4, <1>6, <1>8 DEF JobHolds
  <2> QED BY <1>1, <1>3, <1>6, <2>1 DEF View
<1>11. sched \in Tasks /\ job \in Tasks
  BY <1>5, <1>9, <1>10 DEF Tasks
<1>12. hourly \in [Hour -> 0..MaxEvents]
  BY <1>1, <1>3, <1>4, <1>8 DEF Hour
<1> QED BY <1>1, <1>3, <1>7, <1>8, <1>11, <1>12

\* Together they are inductive.
LEMMA TypeInvAlways == Spec => []TypeInv
<1>1. Init => TypeInv
  <2> SUFFICES ASSUME Init PROVE TypeInv
    OBVIOUS
  <2>1. Idle \in Requests  BY DEF Idle, Requests
  <2>2. ViewerInv
    BY <2>1 DEF Init, ViewerInv, Typed, StatsKept, ViewerCountedOnce
  <2>3. CountInv
    BY DEF Init, CountInv, CountsTyped, SchedulerHolds, JobHolds,
           ViewsConserved, HourlyViewsKept, Counting, Idle, Hour
  <2>4. CountTotals
    BY DEF Init, CountTotals, Idle, Hour
  <2>5. Open = {}
    BY DEF Init, Open
  <2>6. Bounded
    BY <2>5, FS_EmptySet, ViewCountersAssumption DEF Init, Bounded
  <2>7. StatsInv
    BY DEF Init, StatsInv, HistoryTyped, Within, ProcKept, Processes, Idle
  <2>8. RestTyped
    BY DEF Init, RestTyped
  <2> QED BY <2>2, <2>3, <2>4, <2>6, <2>7, <2>8 DEF TypeInv
<1>2. TypeInv /\ [Next]_vars => TypeInv'
  <2> SUFFICES ASSUME TypeInv, [Next]_vars PROVE TypeInv'
    OBVIOUS
  <2>1. ViewerInv /\ CountInv /\ Typed
    BY DEF TypeInv, ViewerInv
  <2>2. ViewerInv' /\ CountInv'
    BY <2>1, ViewerStep, CountStep
  <2>3. counted' \in Nat
    BY <2>2 DEF CountInv, CountsTyped
  <2>4. CountTotals' /\ Bounded' /\ StatsInv' /\ RestTyped'
    BY <2>1, <2>3, TotalsStep, BoundedStep, StatsStep, RestStep DEF TypeInv
  <2> QED BY <2>2, <2>4 DEF TypeInv
<1> QED BY <1>1, <1>2, PTL DEF Spec

\* Every reachable state is well typed: no more is counted, kept or taken along
\* than clients reported, viewerCache holds only what Redis holds, a key that
\* processViewerStats is to read exists, and the statistics of a viewer stay
\* within the limit.
THEOREM TypeInvariant == Spec => []TypeOK
<1>1. TypeInv => TypeOK
  <2> SUFFICES ASSUME TypeInv PROVE TypeOK
    OBVIOUS
  <2>1. ViewerInv /\ CountInv /\ StatsInv /\ RestTyped /\ Typed
    BY DEF TypeInv, ViewerInv
  <2>2. \A ip \in cached : stats[ip] # None
    BY <2>1 DEF Typed, StatsKept, StatsInv, HistoryTyped
  <2>3. /\ proc \in Processes
        /\ proc # Idle => \A ip \in proc.keys : stats[ip] # None
    BY <2>1 DEF StatsInv, ProcKept
  <2>4. \A ip \in Ip : stats[ip] # None
                         => Cardinality(stats[ip].views) <= MaxSections
    BY <2>1 DEF StatsInv, Within
  <2>5. exists \in BOOLEAN
    BY <2>1 DEF CountInv, CountsTyped
  <2>6. /\ req \in [View -> Requests] /\ stats \in [Ip -> Stats \cup {None}]
        /\ watchers \subseteq Viewer /\ idToViewer \in [Ip -> Viewer \cup {None}]
    BY <2>1 DEF Typed, StatsKept
  <2>7. /\ cached \subseteq Ip /\ active \subseteq Viewer /\ ipViewed \subseteq Ip
        /\ rows \in [View -> Nat] /\ lost \subseteq {"views", "hourly"}
        /\ recorded \in [View -> Ip \cup {None}] /\ disturbed \subseteq Ip
    BY <2>1 DEF RestTyped, StatsInv, HistoryTyped
  <2> QED BY <2>2, <2>3, <2>4, <2>5, <2>6, <2>7, TotalsBound DEF TypeOK
<1> QED BY <1>1, TypeInvAlways, PTL

-----------------------------------------------------------------------------
(* Watch sections.  Statistics of an address hold only views of that address;
   as long as the address is not disturbed, a copy that a request waits for
   and the object that processViewerStats saves are what Redis holds.       *)

SectionsOf(ip) == IF stats[ip] = None THEN {} ELSE stats[ip].views

Saving(ip) == proc.pc = "saved" /\ proc.ip = ip

\* A view is recorded after its request started, and saved after that.
Unrecorded ==
    \A n \in View :
        /\ n > started => recorded[n] = None
        /\ req[n].pc \in {"read", "locate"} => recorded[n] = None
        /\ recorded[n] = None => rows[n] = 0

OwnSections ==
    /\ \A ip \in Ip : \A m \in SectionsOf(ip) : recorded[m] = ip
    /\ \A n \in View : req[n].pc = "read" /\ req[n].held # None =>
         \A m \in req[n].held.views : recorded[m] = req[n].ip
    /\ proc.pc \in {"read", "saved"} =>
         \A m \in proc.held.views : recorded[m] = proc.ip

FreshCopies ==
    /\ \A n \in View :
         req[n].pc \in {"read", "locate"} /\ req[n].ip \notin disturbed =>
           /\ req[n].ip \notin cached
           /\ stats[req[n].ip] = IF req[n].pc = "read" THEN req[n].held ELSE None
    /\ proc.pc = "read" /\ proc.ip \notin disturbed => proc.held = stats[proc.ip]

SavedOnce ==
    \A n \in View : recorded[n] # None /\ recorded[n] \notin disturbed =>
        rows[n] = IF n \in SectionsOf(recorded[n]) /\ ~Saving(recorded[n])
                  THEN 0 ELSE 1

WatchInv == Unrecorded /\ OwnSections /\ FreshCopies /\ SavedOnce

\* Steps that write no statistics, start to hold none and stop to save only
\* where that is a disturbance.
LEMMA CalmKeeps ==
    ASSUME StatsInv, WatchInv, started \in Nat, started' \in Nat,
           started <= started', UNCHANGED <<stats, rows, recorded>>,
           cached' \subseteq cached, disturbed \subseteq disturbed',
           \A n \in View : req'[n] = req[n] \/ req'[n].pc \notin {"read", "locate"},
           \/ proc' = proc
           \/ /\ proc'.pc \notin {"read", "saved"}
              /\ proc.pc = "saved" => proc.ip \in disturbed'
    PROVE  WatchInv'
<1> USE DEF WatchInv
<1>1. \A ip : SectionsOf(ip)' = SectionsOf(ip)
  BY DEF SectionsOf
<1>2. \A n \in View : n > started' => n > started
  BY DEF View
<1>3. Unrecorded'
  BY <1>2 DEF Unrecorded
<1>4. OwnSections'
  BY <1>1 DEF OwnSections
<1>5. FreshCopies'
  BY DEF FreshCopies
<1>6. ASSUME NEW ip, ip \notin disturbed'
      PROVE  Saving(ip)' <=> Saving(ip)
  BY <1>6 DEF Saving
<1>7. SavedOnce'
  BY <1>1, <1>6 DEF SavedOnce
<1> QED BY <1>3, <1>4, <1>5, <1>7

\* A request starts with a copy of what Redis holds.
LEMMA BeginsWatch ==
    ASSUME Typed, StatsInv, WatchInv, NEW ip \in Ip, Begins(ip)
    PROVE  WatchInv'
<1> DEFINE n == started + 1
<1> USE DEF WatchInv
<1>1. /\ started' = n /\ n \in View /\ started \in Nat
      /\ UNCHANGED <<stats, cached, proc, rows, recorded, disturbed>>
  BY DEF Begins, Typed
<1>2. CASE req' = [req EXCEPT ![n] = [pc |-> "count", ip |-> ip]]
  BY <1>1, <1>2, CalmKeeps DEF Typed
<1>3. CASE /\ ip \notin cached
           /\ req' = [req EXCEPT ![n] = [pc |-> "read", ip |-> ip,
                                         held |-> stats[ip]]]
  <2>1. /\ req'[n] = [pc |-> "read", ip |-> ip, held |-> stats[ip]]
        /\ \A m \in View : m # n => req'[m] = req[m]
    BY <1>1, <1>3 DEF Typed
  <2>2. recorded[n] = None /\ \A m \in View : m > n => m > started
    BY <1>1 DEF Unrecorded, View
  <2>3. Unrecorded'
    BY <1>1, <2>1, <2>2 DEF Unrecorded
  <2>4. OwnSections'
    BY <1>1, <2>1 DEF OwnSections, SectionsOf
  <2>5. FreshCopies'
    BY <1>1, <1>3, <2>1 DEF FreshCopies
  <2>6. SavedOnce'
    BY <1>1 DEF SavedOnce, SectionsOf, Saving
  <2> QED BY <2>3, <2>4, <2>5, <2>6
<1> QED BY <1>2, <1>3 DEF Begins

\* A request learns that there is nothing to copy.
LEMMA LooksWatch ==
    ASSUME Typed, WatchInv, NEW n \in View, Looks(n)
    PROVE  WatchInv'
<1> USE DEF WatchInv
<1>1. /\ req[n].pc = "read" /\ req[n].held = None
      /\ UNCHANGED watchVars
      /\ req'[n] = [pc |-> "locate", ip |-> req[n].ip]
      /\ \A m \in View : m # n => req'[m] = req[m]
  BY DEF Looks, Typed
<1>2. Unrecorded'
  BY <1>1 DEF Unrecorded, watchVars
<1>3. OwnSections'
  BY <1>1 DEF OwnSections, SectionsOf, watchVars
<1>4. FreshCopies'
  BY <1>1 DEF FreshCopies, watchVars
<1>5. SavedOnce'
  BY <1>1 DEF SavedOnce, SectionsOf, Saving, watchVars
<1> QED BY <1>2, <1>3, <1>4, <1>5

\* The view that is recorded was not; what is written holds views of the
\* address only and, unless that is a disturbance, all that Redis held.
LEMMA RecordsWhat ==
    ASSUME Typed, Bounded, WatchInv, NEW n \in View, NEW ip \in Ip,
           NEW s \in Stats, Records(n, ip, s)
    PROVE  /\ recorded[n] = None /\ rows[n] = 0
           /\ \A m \in s.views : m = n \/ recorded[m] = ip
           /\ n \in s.views
           /\ ip \notin disturbed => s.views = SectionsOf(ip) \cup {n}
<1> USE DEF WatchInv
<1>1. CASE /\ n = started + 1 /\ ip \in cached
           /\ s = Watched(stats[ip], n)
  <2>1. recorded[n] = None
    BY <1>1 DEF Unrecorded, Typed
  <2>2. stats[ip] # None /\ s.views = stats[ip].views \cup {n}
    BY <1>1 DEF Typed, StatsKept, Watched
  <2>3. s.views = SectionsOf(ip) \cup {n}
    BY <2>2 DEF SectionsOf
  <2> QED BY <2>1, <2>3 DEF Unrecorded, OwnSections
<1>2. CASE /\ req[n].pc = "read" /\ req[n].ip = ip /\ req[n].held # None
           /\ s = Watched(req[n].held, n)
  <2>1. recorded[n] = None
    BY <1>2 DEF Unrecorded
  <2>2. s.views = req[n].held.views \cup {n}
    BY <1>2 DEF Watched
  <2>3. \A m \in req[n].held.views : recorded[m] = ip
    BY <1>2 DEF OwnSections
  <2>4. ip \notin disturbed => SectionsOf(ip) = req[n].held.views
    BY <1>2 DEF FreshCopies, SectionsOf
  <2> QED BY <2>1, <2>2, <2>3, <2>4 DEF Unrecorded
<1>3. CASE /\ req[n].pc = "locate" /\ req[n].ip = ip
           /\ s = [views |-> {n}, fresh |-> TRUE]
  <2>1. recorded[n] = None
    BY <1>3 DEF Unrecorded
  <2>2. ip \notin disturbed => SectionsOf(ip) = {}
    BY <1>3 DEF FreshCopies, SectionsOf
  <2> QED BY <1>3, <2>1, <2>2 DEF Unrecorded
<1> QED BY <1>1, <1>2, <1>3 DEF Records, Source

\* What a write does to the execution of processViewerStats.
LEMMA RecordsProc ==
    ASSUME Typed, StatsInv, NEW n \in View, NEW ip \in Ip, NEW s \in Stats,
           Records(n, ip, s)
    PROVE  /\ proc'.pc = proc.pc
           /\ \/ proc' = proc /\ ~(proc.pc \in {"read", "saved"} /\ proc.ip = ip)
              \/ /\ proc.pc \in {"read", "saved"} /\ proc.ip = ip /\ proc'.ip = ip
                 /\ proc.shared /\ req[n] = Idle /\ proc'.held = s
              \/ /\ proc.pc \in {"read", "saved"} /\ proc.ip = ip /\ proc'.ip = ip
                 /\ ~(proc.shared /\ req[n] = Idle) /\ proc'.held = proc.held
<1>1. CASE proc.pc \notin {"read", "saved"} \/ proc.ip # ip
  BY <1>1 DEF Records, SetLocalVideoViewer
<1>2. CASE proc.pc \in {"read", "saved"} /\ proc.ip = ip
  <2>1. proc \in Holding
    BY <1>2, ProcCases DEF StatsInv
  <2>2. proc' = IF proc.shared /\ req[n] = Idle THEN [proc EXCEPT !.held = s]
                ELSE [proc EXCEPT !.shared = FALSE]
    BY <1>2 DEF Records, SetLocalVideoViewer
  <2>3. CASE proc.shared /\ req[n] = Idle
    BY <1>2, <2>1, <2>2, <2>3 DEF Holding
  <2>4. CASE ~(proc.shared /\ req[n] = Idle)
    BY <1>2, <2>1, <2>2, <2>4 DEF Holding
  <2> QED BY <2>3, <2>4
<1> QED BY <1>1, <1>2

\* A write keeps the account.
LEMMA RecordsWatch ==
    ASSUME Typed, Bounded, StatsInv, WatchInv, NEW n \in View, NEW ip \in Ip,
           NEW s \in Stats, Records(n, ip, s)
    PROVE  WatchInv'
<1> USE DEF WatchInv
<1>1. /\ \A i \in Ip : stats'[i] = IF i = ip THEN s ELSE stats[i]
      /\ cached' = cached \cup {ip} /\ rows' = rows
      /\ disturbed' = IF Disturbs(n, ip) THEN disturbed \cup {ip} ELSE disturbed
  BY DEF Records, SetLocalVideoViewer, Typed, StatsKept
<1>2. /\ recorded'[n] = ip
      /\ \A m \in View : m # n => recorded'[m] = recorded[m]
  BY DEF Records, SetLocalVideoViewer, StatsInv, HistoryTyped
<1>3. /\ req'[n] = [pc |-> "count", ip |-> ip]
      /\ \A m \in View : m # n => req'[m] = req[m]
  BY DEF Records, Typed
<1>4. /\ recorded[n] = None /\ rows[n] = 0 /\ n \in s.views
      /\ \A m \in s.views : m = n \/ recorded[m] = ip
      /\ ip \notin disturbed => s.views = SectionsOf(ip) \cup {n}
  BY RecordsWhat
<1>5. ip # None /\ s # None /\ None \notin Ip
  BY NoneAssumption
<1>6. \A i \in Ip : SectionsOf(i)' = IF i = ip THEN s.views ELSE SectionsOf(i)
  BY <1>1, <1>5 DEF SectionsOf
<1>7. /\ n <= started' /\ started <= started'
      /\ \/ req[n] = Idle
         \/ req[n].pc \in {"read", "locate"} /\ req[n].ip = ip
  <2>1. CASE n = started + 1 /\ started' = n
    BY <2>1 DEF Bounded, Typed, View
  <2>2. CASE started' = started /\ req[n].pc \in {"read", "locate"} /\ req[n].ip = ip
    <3>1. req[n] # Idle
      BY <2>2 DEF Idle
    <3>2. ~(n > started)
      BY <3>1 DEF Bounded
    <3> QED BY <2>2, <3>2 DEF Typed, View
  <2> QED BY <2>1, <2>2 DEF Records, Source
<1>8. \A m \in View : m > started' => m > started /\ m # n
  BY <1>7, ViewCountersAssumption DEF View, Typed, Records, Source
<1>9. Unrecorded'
  BY <1>1, <1>2, <1>3, <1>4, <1>5, <1>8 DEF Unrecorded
<1>10. \A i \in Ip : \A m \in SectionsOf(i)' : recorded'[m] = i
  <2> SUFFICES ASSUME NEW i \in Ip, NEW m \in SectionsOf(i)'
               PROVE  recorded'[m] = i
    OBVIOUS
  <2>1. m \in View
    BY <1>1 DEF SectionsOf, Typed, StatsKept, Stats
  <2>2. CASE i = ip
    BY <1>2, <1>4, <1>6, <2>1, <2>2
  <2>3. CASE i # ip
    <3>1. recorded[m] = i
      BY <1>6, <2>3 DEF OwnSections
    <3> QED BY <1>2, <1>4, <1>5, <2>1, <3>1
  <2> QED BY <2>2, <2>3
<1>11. ASSUME NEW k \in View, req'[k].pc = "read", req'[k].held # None,
              NEW m \in req'[k].held.views
       PROVE  recorded'[m] = req'[k].ip
  <2>1. k # n /\ req'[k] = req[k]
    BY <1>3, <1>11
  <2>2. req[k].ip \in Ip /\ req[k] \in Requests
    BY <1>11, <2>1, RequestIp DEF Typed
  <2>3. req[k].held \in Stats
    BY <1>11, <2>1, <2>2 DEF Requests
  <2>4. m \in View /\ recorded[m] = req[k].ip
    BY <1>11, <2>1, <2>3 DEF OwnSections, Stats
  <2> QED BY <1>2, <1>4, <1>5, <2>1, <2>2, <2>4
<1>12. ASSUME proc'.pc \in {"read", "saved"}, NEW m \in proc'.held.views
       PROVE  recorded'[m] = proc'.ip
  <2>1. proc.pc \in {"read", "saved"}
    BY <1>12, RecordsProc
  <2>2. proc \in Holding
    BY <2>1, ProcCases DEF StatsInv
  <2>3. proc.ip \in Ip /\ \A k \in proc.held.views : k \in View
    BY <2>2 DEF Holding, Stats
  <2>4. \A k \in proc.held.views : recorded[k] = proc.ip
    BY <2>1 DEF OwnSections
  <2>5. \A k \in proc.held.views : recorded'[k] = proc.ip
    BY <1>2, <1>4, <1>5, <2>3, <2>4
  <2>6. \A k \in s.views : k \in View
    BY DEF Stats
  <2>7. \A k \in s.views : recorded'[k] = ip
    BY <1>2, <1>4, <2>6
  <2> QED BY <1>12, <2>5, <2>7, RecordsProc
<1>13. OwnSections'
  BY <1>10, <1>11, <1>12 DEF OwnSections
<1>14. ASSUME ip \notin disturbed'
       PROVE  /\ ip \notin disturbed /\ Reading(ip) \subseteq {n}
              /\ ~Saving(ip)
              /\ proc.pc = "read" /\ proc.ip = ip => proc.shared /\ ip \in cached
  BY <1>1, <1>14 DEF Disturbs, Saving
<1>15. ASSUME NEW k \in View, req'[k].pc \in {"read", "locate"},
              req'[k].ip \notin disturbed'
       PROVE  /\ req'[k].ip \notin cached'
              /\ stats'[req'[k].ip] = IF req'[k].pc = "read" THEN req'[k].held
                                      ELSE None
  <2>1. k # n /\ req'[k] = req[k]
    BY <1>3, <1>15
  <2>2. req[k].ip \in Ip
    BY <1>15, <2>1, RequestIp
  <2>3. req[k].ip # ip
    <3> SUFFICES ASSUME req[k].ip = ip PROVE FALSE
      OBVIOUS
    <3>1. k \in Reading(ip)
      BY <1>15, <2>1 DEF Reading
    <3> QED BY <1>14, <1>15, <2>1, <3>1
  <2>4. req[k].ip \notin disturbed
    BY <1>1, <1>15, <2>1
  <2> QED BY <1>1, <1>15, <2>1, <2>2, <2>3, <2>4 DEF FreshCopies
<1>16. ASSUME proc'.pc = "read", proc'.ip \notin disturbed'
       PROVE  proc'.held = stats'[proc'.ip]
  <2>1. proc.pc = "read"
    BY <1>16, RecordsProc
  <2>2. proc \in Holding
    BY <2>1, ProcCases DEF StatsInv
  <2>3. proc.ip \in Ip
    BY <2>2 DEF Holding
  <2>4. CASE proc' = proc /\ proc.ip # ip
    <3>1. proc.ip \notin disturbed
      BY <1>1, <1>16, <2>4
    <3> QED BY <1>1, <2>1, <2>3, <2>4, <3>1 DEF FreshCopies
  <2>5. CASE proc.ip = ip /\ proc'.ip = ip
    <3>1. proc.shared /\ ip \in cached /\ ip \notin disturbed
      BY <1>14, <1>16, <2>1, <2>5
    <3>2. req[n] = Idle
      BY <1>7, <3>1 DEF FreshCopies
    <3>3. proc'.held = s
      BY <2>1, <2>5, <3>1, <3>2, RecordsProc
    <3> QED BY <1>1, <2>5, <3>3
  <2> QED BY <2>1, <2>4, <2>5, RecordsProc
<1>17. FreshCopies'
  BY <1>15, <1>16 DEF FreshCopies
<1>18. \A i : Saving(i)' <=> Saving(i)
  BY RecordsProc DEF Saving
<1>19. ASSUME NEW m \in View, NEW i \in Ip, recorded'[m] = i, i \notin disturbed'
       PROVE  rows'[m] = IF m \in SectionsOf(i)' /\ ~Saving(i)' THEN 0 ELSE 1
  <2>1. CASE m = n
    BY <1>1, <1>2, <1>4, <1>6, <1>14, <1>18, <1>19, <2>1
  <2>2. CASE m # n /\ i = ip
    <3>1. recorded[m] = ip /\ ip \notin disturbed /\ ~Saving(ip)
      BY <1>2, <1>14, <1>19, <2>2
    <3>2. m \in SectionsOf(ip)' <=> m \in SectionsOf(ip)
      BY <1>4, <1>6, <2>2, <3>1
    <3> QED BY <1>1, <1>5, <1>18, <2>2, <3>1, <3>2 DEF SavedOnce
  <2>3. CASE m # n /\ i # ip
    <3>1. recorded[m] = i /\ i \notin disturbed /\ SectionsOf(i)' = SectionsOf(i)
      BY <1>1, <1>2, <1>6, <1>19, <2>3
    <3>2. i # None
      BY <1>5
    <3> QED BY <1>1, <1>18, <3>1, <3>2 DEF SavedOnce
  <2> QED BY <2>1, <2>2, <2>3
<1>20. SavedOnce'
  <2>1. \A m \in View : recorded'[m] # None => recorded'[m] \in Ip
    BY <1>2, <1>5 DEF StatsInv, HistoryTyped
  <2> QED BY <1>19, <2>1 DEF SavedOnce, SectionsOf, Saving
<1> QED BY <1>9, <1>13, <1>17, <1>20

\* An hour passes while nothing runs.
LEMMA HourWatch ==
    ASSUME Typed, StatsInv, WatchInv, HourPasses
    PROVE  WatchInv'
<1> USE DEF WatchInv
<1>1. /\ UNCHANGED <<req, started, cached, proc, rows, recorded, disturbed>>
      /\ proc = Idle /\ \A n \in View : req[n] = Idle
      /\ stats' = [ip \in Ip |-> IF stats[ip] = None THEN None
                                 ELSE [stats[ip] EXCEPT !.fresh = FALSE]]
  BY DEF HourPasses, Quiet, database, history
<1>2. ASSUME NEW ip \in Ip PROVE SectionsOf(ip)' = SectionsOf(ip)
  <2>1. CASE stats[ip] = None
    BY <1>1, <2>1 DEF SectionsOf
  <2>2. CASE stats[ip] # None
    <3>1. stats[ip] \in Stats
      BY <2>2 DEF Typed, StatsKept
    <3>2. stats'[ip] = [stats[ip] EXCEPT !.fresh = FALSE]
      BY <1>1, <2>2
    <3>3. stats'[ip] \in Stats /\ stats'[ip].views = stats[ip].views
      BY <3>1, <3>2 DEF Stats
    <3> QED BY <2>2, <3>3, NoneAssumption DEF SectionsOf
  <2> QED BY <2>1, <2>2
<1>3. Unrecorded'
  BY <1>1 DEF Unrecorded
<1>4. OwnSections'
  BY <1>1, <1>2 DEF OwnSections, Idle
<1>5. FreshCopies'
  BY <1>1 DEF FreshCopies, Idle
<1>6. \A n \in View : recorded[n] # None => recorded[n] \in Ip
  BY DEF StatsInv, HistoryTyped
<1>7. SavedOnce'
  BY <1>1, <1>2, <1>6 DEF SavedOnce, Saving, Idle
<1> QED BY <1>3, <1>4, <1>5, <1>7

\* processViewerStats takes what Redis, or viewerCache, holds.
LEMMA GetWatch ==
    ASSUME Typed, StatsInv, WatchInv, NEW ip \in Ip, GetLocalVideoViewerByKey(ip)
    PROVE  WatchInv'
<1> USE DEF WatchInv
<1>1. /\ UNCHANGED <<req, started, stats, cached, rows, recorded, disturbed>>
      /\ proc.pc = "loop" /\ ip \in proc.keys
  BY DEF GetLocalVideoViewerByKey, redis, database, history
<1>2. CASE proc' = NextKey(proc.keys \ {ip})
  <2>1. proc'.pc \notin {"read", "saved"}
    BY <1>2 DEF NextKey, Idle
  <2> QED BY <1>1, <2>1, CalmKeeps DEF Typed
<1>3. CASE proc' = [pc |-> "read", keys |-> proc.keys \ {ip}, ip |-> ip,
                    held |-> stats[ip], shared |-> ip \in cached]
  <2>1. stats[ip] # None
    <3>1. proc # Idle
      BY <1>1 DEF Idle
    <3> QED BY <1>1, <3>1 DEF StatsInv, ProcKept
  <2>2. proc'.pc = "read" /\ proc'.ip = ip /\ proc'.held = stats[ip]
    BY <1>3
  <2>3. Unrecorded'
    BY <1>1 DEF Unrecorded
  <2>4. \A m \in stats[ip].views : recorded[m] = ip
    BY <2>1 DEF OwnSections, SectionsOf
  <2>5. OwnSections'
    BY <1>1, <2>2, <2>4 DEF OwnSections, SectionsOf
  <2>6. FreshCopies'
    BY <1>1, <2>2 DEF FreshCopies
  <2>7. \A i : ~Saving(i) /\ ~Saving(i)'
    BY <1>1, <2>2 DEF Saving
  <2>8. SavedOnce'
    BY <1>1, <2>7 DEF SavedOnce, SectionsOf
  <2> QED BY <2>3, <2>5, <2>6, <2>8
<1> QED BY <1>2, <1>3 DEF GetLocalVideoViewerByKey

\* The row: what was in Redis is saved, once.
LEMMA SaveWatch ==
    ASSUME Typed, StatsInv, WatchInv, SaveViewerStats
    PROVE  WatchInv'
<1> USE DEF WatchInv
<1>1. /\ proc.pc = "read" /\ proc' = [proc EXCEPT !.pc = "saved"]
      /\ UNCHANGED <<req, started, stats, cached, recorded>>
      /\ rows' = [n \in View |-> IF exists /\ n \in proc.held.views
                                 THEN rows[n] + 1 ELSE rows[n]]
      /\ disturbed' = IF exists THEN disturbed ELSE disturbed \cup {proc.ip}
  BY DEF SaveViewerStats, redis
<1>2. proc \in Holding
  BY <1>1, ProcCases DEF StatsInv
<1>3. /\ proc'.pc = "saved" /\ proc'.ip = proc.ip /\ proc'.held = proc.held
      /\ proc.ip \in Ip /\ proc.held \in Stats
  BY <1>1, <1>2 DEF Holding
<1>4. \A m \in proc.held.views : m \in View /\ recorded[m] = proc.ip
  BY <1>1, <1>3 DEF OwnSections, Stats
<1>5. \A n \in View : recorded[n] # proc.ip => rows'[n] = rows[n]
  BY <1>1, <1>4
<1>6. proc.ip # None
  BY <1>3, NoneAssumption
<1>7. Unrecorded'
  BY <1>1, <1>5, <1>6 DEF Unrecorded
<1>8. OwnSections'
  BY <1>1, <1>3 DEF OwnSections, SectionsOf
<1>9. FreshCopies'
  BY <1>1, <1>3 DEF FreshCopies
<1>10. ASSUME NEW n \in View, recorded[n] # None, recorded[n] \notin disturbed'
       PROVE  rows'[n] = IF n \in SectionsOf(recorded[n]) /\ recorded[n] # proc.ip
                         THEN 0 ELSE 1
  <2>1. recorded[n] \notin disturbed /\ ~Saving(recorded[n])
    BY <1>1, <1>10 DEF Saving
  <2>2. rows[n] = IF n \in SectionsOf(recorded[n]) THEN 0 ELSE 1
    BY <1>10, <2>1 DEF SavedOnce
  <2>3. CASE recorded[n] # proc.ip
    BY <1>5, <2>2, <2>3
  <2>4. CASE recorded[n] = proc.ip
    <3>1. exists /\ proc.held = stats[proc.ip]
      BY <1>1, <1>10, <2>1, <2>4 DEF FreshCopies
    <3>2. SectionsOf(proc.ip) = proc.held.views
      BY <1>3, <3>1, NoneAssumption DEF SectionsOf
    <3> QED BY <1>1, <2>2, <2>4, <3>1, <3>2
  <2> QED BY <2>3, <2>4
<1>11. \A i : Saving(i)' <=> i = proc.ip
  BY <1>3 DEF Saving
<1>12. SavedOnce'
  BY <1>1, <1>10, <1>11 DEF SavedOnce, SectionsOf
<1> QED BY <1>7, <1>8, <1>9, <1>12

\* The deletion of what was saved.
LEMMA DeleteWatch ==
    ASSUME Typed, StatsInv, WatchInv, DeleteLocalVideoViewersKeys
    PROVE  WatchInv'
<1> USE DEF WatchInv
<1>1. /\ proc.pc = "saved" /\ proc' = NextKey(proc.keys)
      /\ UNCHANGED <<req, started, rows, recorded>>
      /\ stats' = [stats EXCEPT ![proc.ip] = None]
      /\ cached' = cached \ {proc.ip}
      /\ disturbed' = IF Reading(proc.ip) # {} THEN disturbed \cup {proc.ip}
                      ELSE disturbed
  BY DEF DeleteLocalVideoViewersKeys, AfterSave, database
<1>2. proc.ip \in Ip
  BY <1>1, ProcCases DEF StatsInv, Holding
<1>3. \A i \in Ip : SectionsOf(i)' = IF i = proc.ip THEN {} ELSE SectionsOf(i)
  BY <1>1 DEF SectionsOf, Typed, StatsKept
<1>4. proc'.pc \notin {"read", "saved"}
  BY <1>1 DEF NextKey, Idle
<1>5. Unrecorded'
  BY <1>1 DEF Unrecorded
<1>6. OwnSections'
  BY <1>1, <1>3, <1>4 DEF OwnSections
<1>7. ASSUME NEW k \in View, req[k].pc \in {"read", "locate"},
             req[k].ip \notin disturbed'
      PROVE  /\ req[k].ip \notin cached'
             /\ stats'[req[k].ip] = IF req[k].pc = "read" THEN req[k].held ELSE None
  <2>1. req[k].ip # proc.ip
    <3> SUFFICES ASSUME req[k].ip = proc.ip PROVE FALSE
      OBVIOUS
    <3>1. k \in Reading(proc.ip)
      BY <1>7 DEF Reading
    <3> QED BY <1>1, <1>7, <3>1
  <2>2. req[k].ip \in Ip /\ req[k].ip \notin disturbed
    BY <1>1, <1>7, RequestIp
  <2>3. stats'[req[k].ip] = stats[req[k].ip]
    BY <1>1, <2>1, <2>2 DEF Typed, StatsKept
  <2> QED BY <1>1, <1>7, <2>2, <2>3 DEF FreshCopies
<1>8. FreshCopies'
  BY <1>1, <1>4, <1>7 DEF FreshCopies
<1>9. \A n \in View : recorded[n] # None => recorded[n] \in Ip
  BY DEF StatsInv, HistoryTyped
<1>10. ASSUME NEW n \in View, NEW i \in Ip, recorded[n] = i, i # None,
              i \notin disturbed'
       PROVE  rows[n] = IF n \in SectionsOf(i)' /\ ~Saving(i)' THEN 0 ELSE 1
  <2>1. i \notin disturbed
    BY <1>1, <1>10
  <2>2. CASE i = proc.ip
    <3>1. Saving(i)
      BY <1>1, <2>2 DEF Saving
    <3>2. rows[n] = 1
      BY <1>10, <2>1, <3>1 DEF SavedOnce
    <3> QED BY <1>3, <2>2, <3>2
  <2>3. CASE i # proc.ip
    <3>1. ~Saving(i) /\ ~Saving(i)'
      BY <1>4, <2>3 DEF Saving
    <3>2. SectionsOf(i)' = SectionsOf(i)
      BY <1>3, <2>3
    <3> QED BY <1>10, <2>1, <3>1, <3>2 DEF SavedOnce
  <2> QED BY <2>2, <2>3
<1>11. SavedOnce'
  BY <1>1, <1>9, <1>10 DEF SavedOnce, SectionsOf, Saving
<1> QED BY <1>5, <1>6, <1>8, <1>11

\* Every step keeps the account.
LEMMA WatchStep ==
    ASSUME Typed, Bounded, StatsInv, WatchInv, started' \in Nat, [Next]_vars
    PROVE  WatchInv'
<1>0. started \in Nat
  BY DEF Typed
<1>1. CASE Keeps
  BY <1>0, <1>1, CalmKeeps DEF Keeps, watchVars
<1>2. CASE ListLocalVideoViewerKeys
  <2>1. /\ UNCHANGED <<req, started, stats, cached, rows, recorded, disturbed>>
        /\ proc = Idle /\ proc'.pc = "loop"
    BY <1>2 DEF ListLocalVideoViewerKeys, redis, database, history
  <2> QED BY <1>0, <2>1, CalmKeeps DEF Idle
<1>3. CASE ProcessViewerStatsFails
  <2>1. /\ UNCHANGED <<req, started, stats, rows, recorded>>
        /\ cached' \subseteq cached /\ disturbed' = disturbed \cup {proc.ip}
        /\ proc' = NextKey(proc.keys)
    BY <1>3 DEF ProcessViewerStatsFails, AfterFailure, redis, database
  <2>2. proc'.pc \notin {"read", "saved"}
    BY <2>1 DEF NextKey, Idle
  <2> QED BY <1>0, <2>1, <2>2, CalmKeeps
<1>4. CASE Restart
  <2>1. /\ UNCHANGED <<started, stats, rows, recorded>>
        /\ cached' = {} /\ proc' = Idle /\ \A n \in View : req'[n] = Idle
        /\ disturbed \subseteq disturbed'
        /\ proc.pc = "saved" => proc.ip \in disturbed'
    BY <1>4 DEF Restart, redis, database
  <2>2. Idle.pc = "idle"
    BY DEF Idle
  <2> QED BY <1>0, <2>1, <2>2, CalmKeeps
<1>5. CASE DeleteVideo
  <2>1. /\ UNCHANGED <<req, started, stats, cached, recorded, proc>>
        /\ rows' = [n \in View |-> 0] /\ disturbed' = Ip
    BY <1>5 DEF DeleteVideo, redis
  <2>2. \A n \in View : recorded[n] # None => recorded[n] \in Ip
    BY DEF StatsInv, HistoryTyped
  <2>3. \A n \in View : req[n].pc \in {"read", "locate"} => req[n].ip \in Ip
    BY RequestIp
  <2>4. proc.pc = "read" => proc.ip \in Ip
    BY ProcCases DEF StatsInv, Holding
  <2>5. Unrecorded' /\ OwnSections'
    BY <2>1 DEF WatchInv, Unrecorded, OwnSections, SectionsOf
  <2>6. FreshCopies' /\ SavedOnce'
    BY <2>1, <2>2, <2>3, <2>4 DEF FreshCopies, SavedOnce
  <2> QED BY <2>5, <2>6 DEF WatchInv
<1> QED BY <1>1, <1>2, <1>3, <1>4, <1>5, WatchSteps, BeginsWatch, LooksWatch,
           RecordsWatch, HourWatch, GetWatch, SaveWatch, DeleteWatch

\* Every watched section of an address whose statistics were not disturbed is
\* in Redis or in exactly one row, whatever requests, saves, the hours and
\* restarts do in between.
THEOREM SectionsSavedOnce == Spec => []WatchSavedOnce
<1>1. Init => WatchInv
  <2> SUFFICES ASSUME Init PROVE WatchInv
    OBVIOUS
  <2>1. Unrecorded
    BY DEF Init, Unrecorded, Idle
  <2>2. OwnSections
    BY DEF Init, OwnSections, SectionsOf, Idle
  <2>3. FreshCopies /\ SavedOnce
    BY DEF Init, FreshCopies, SavedOnce, Idle
  <2> QED BY <2>1, <2>2, <2>3 DEF WatchInv
<1>2. TypeInv /\ TypeInv' /\ WatchInv /\ [Next]_vars => WatchInv'
  BY WatchStep DEF TypeInv, ViewerInv, Typed
<1>3. WatchInv => WatchSavedOnce
  <2> SUFFICES ASSUME WatchInv, NEW n \in View,
                      recorded[n] \notin disturbed \cup {None}
               PROVE  rows[n] = IF /\ stats[recorded[n]] # None
                                   /\ n \in stats[recorded[n]].views
                                   /\ ~(proc.pc = "saved" /\ proc.ip = recorded[n])
                                THEN 0 ELSE 1
    BY DEF WatchSavedOnce
  <2>1. n \in SectionsOf(recorded[n]) <=>
          stats[recorded[n]] # None /\ n \in stats[recorded[n]].views
    BY DEF SectionsOf
  <2> QED BY <2>1 DEF WatchInv, SavedOnce, Saving
<1> QED BY <1>1, <1>2, <1>3, TypeInvAlways, PTL DEF Spec
=============================================================================
