---------------------------- MODULE ActorFollow ----------------------------
(***************************************************************************)
(* Follows between instances.  A follow is a row in the database of the    *)
(* follower and a row in the database of its target, kept in step by       *)
(* Follow, Accept, Reject and Undo activities that the job queue posts to  *)
(* the other server's inbox.                                               *)
(*                                                                         *)
(* A transaction is one action; a handler without a transaction is one     *)
(* action per awaited statement and keeps the row it loaded.               *)
(***************************************************************************)
EXTENDS Naturals, Sequences, SequencesExt

CONSTANTS
    Server,         \* instances, each one with its server actor
    ManualApproval, \* those with FOLLOWERS.INSTANCE.MANUAL_APPROVAL
    AutoFollowBack, \* those with FOLLOWINGS.INSTANCE.AUTO_FOLLOW_BACK
    Admin,          \* slots for administrator requests being executed
    None,
    MaxCommands,    \* bound: requests, failures and rollbacks that may start
    NetCap          \* bound: a transaction is not rolled back beyond it

ASSUME ServerAssumption ==
    /\ ManualApproval \cup AutoFollowBack \subseteq Server
    /\ None \notin Server

ASSUME BoundAssumption == MaxCommands \in Nat /\ NetCap \in Nat

VARIABLES
    following,  \* following[f][t]: the follow's row at the follower
    followers,  \* followers[t][f]: the follow's row at its target
    channel,    \* channel[s][d]: activities s posts to the inbox of d
    followJobs, \* followJobs[f][t]: activitypub-follow jobs waiting
    inbox,      \* inbox[s]: the Accept the inbox manager of s is in
    admin,      \* administrator requests between two statements
    lastId,     \* the primary key given last
    commands,   \* what the environment did
    orderly,    \* history: nothing happened that the protocol cannot repair
    approved    \* history: pairs <<f, t>> an administrator of t accepted

tables == <<following, followers>>
history == <<orderly, approved>>
vars == <<tables, channel, followJobs, inbox, admin, lastId, commands,
          history>>

-----------------------------------------------------------------------------
Pair == { p \in Server \X Server : p[1] # p[2] }

FollowState == {"pending", "accepted", "rejected"}

Row == [id : Nat, state : FollowState]

\* NULL is no row.
ASSUME NoneAssumption == None \notin Row

Activity == {"Follow", "Accept", "Reject", "Undo"}

Idle == [pc |-> "idle"]

\* One request: the row its validator loaded and the statement it is at.
AdminRow == {Idle} \cup
    [ pc : {"unfollow", "rejectSave", "rejectSend", "acceptSave", "remove"},
      at : Server, peer : Server, inst : Row ]

InboxRow == {Idle} \cup [pc : {"accept"}, peer : Server, inst : Row]

Init ==
    /\ following = [f \in Server |-> [t \in Server |-> None]]
    /\ followers = [t \in Server |-> [f \in Server |-> None]]
    /\ channel = [s \in Server |-> [d \in Server |-> <<>>]]
    /\ followJobs = [f \in Server |-> [t \in Server |-> 0]]
    /\ inbox = [s \in Server |-> Idle]
    /\ admin = [k \in Admin |-> Idle]
    /\ lastId = 0
    /\ commands = 0
    /\ orderly = TRUE
    /\ approved = {}

Command == commands < MaxCommands /\ commands' = commands + 1

\* createJobAsync of a unicast job: posted without a retry.
Post(s, d, a) == channel' = [channel EXCEPT ![s][d] = Append(@, a)]

\* The activity at position i of the channel is processed and answered.
Answer(s, d, i, answers) ==
    channel' = [channel EXCEPT ![s][d] = RemoveAt(@, i), ![d][s] = @ \o answers]

\* Model.save() and Model.destroy() are statements on the primary key.
SaveState(row, inst, state) ==
    IF row # None /\ row.id = inst.id THEN [row EXCEPT !.state = state] ELSE row

DestroyRow(row, inst) == IF row # None /\ row.id = inst.id THEN None ELSE row

\* An administrator's request holds the row of peer.
Held(s, peer) ==
    \E k \in Admin : admin[k] # Idle /\ admin[k].at = s /\ admin[k].peer = peer

-----------------------------------------------------------------------------
(* The follower: the activitypub-follow job.                                *)

\* POST /server/following.
AddFollow(f, t) ==
    /\ Command
    /\ followJobs' = [followJobs EXCEPT ![f][t] = @ + 1]
    /\ UNCHANGED <<tables, channel, inbox, admin, lastId, history>>

\* Mutant: an accepted follow is sent again.
AsksAlways(f, t) == f # t

Asks(f, t) == following[f][t] = None \/ following[f][t].state # "accepted"

\* Mutant: a worker takes a job that is already done.
WaitingAny(f, t) == f # t

Waiting(f, t) == followJobs[f][t] > 0

\* f follows t again although t may still see, or answer, its earlier follow.
FollowsTooEarly(f, t) ==
    /\ following[f][t] = None
    /\ \/ \E i \in DOMAIN channel[f][t] : channel[f][t][i] \in {"Follow", "Undo"}
       \/ \E i \in DOMAIN channel[t][f] : channel[t][f][i] = "Accept"

\* findOrCreateCustom, then a Follow unless the row was accepted before.
FollowJob(f, t) ==
    /\ Waiting(f, t)
    /\ followJobs' = [followJobs EXCEPT ![f][t] = @ - 1]
    /\ IF following[f][t] = None
       THEN /\ lastId' = lastId + 1
            /\ following' = [following EXCEPT
                               ![f][t] = [id |-> lastId + 1, state |-> "pending"]]
       ELSE UNCHANGED <<lastId, following>>
    /\ IF Asks(f, t) THEN Post(f, t, "Follow") ELSE UNCHANGED channel
    /\ orderly' = (orderly /\ (t \in ManualApproval => ~FollowsTooEarly(f, t)))
    /\ UNCHANGED <<followers, inbox, admin, commands, approved>>

-----------------------------------------------------------------------------
(* The inbox manager takes one activity at a time.                          *)

\* Activities are posted by concurrent jobs: a later one may come first.
Taken(s, d, i, a) ==
    /\ inbox[d] = Idle
    /\ i \in DOMAIN channel[s][d] /\ channel[s][d][i] = a
    /\ IF i = 1 THEN UNCHANGED commands ELSE Command
    /\ orderly' = (orderly /\ i = 1 /\ (a \in {"Follow", "Undo"} => ~Held(d, s)))

\* The row processFollow works on and the state it leaves it in.
\* Mutant: acceptIfNeeded does not look at the approval setting.
StateAfterFollowAccepted(f, t) ==
    IF followers[t][f] # None /\ followers[t][f].state = "rejected"
    THEN "rejected"
    ELSE IF followers[t][f] = None /\ t \in ManualApproval
         THEN "pending" ELSE "accepted"

StateAfterFollow(f, t) ==
    IF followers[t][f] # None /\ followers[t][f].state # "pending"
    THEN followers[t][f].state
    ELSE IF t \in ManualApproval THEN "pending" ELSE "accepted"

\* What processFollow posts before its transaction commits.
FollowAnswer(f, t) ==
    CASE StateAfterFollow(f, t) = "accepted" -> <<"Accept">>
      [] StateAfterFollow(f, t) = "rejected" -> <<"Reject">>
      [] OTHER -> <<>>

AutoFollowBackIfNeeded(t, f) ==
    followJobs' = IF t \in AutoFollowBack
                  THEN [followJobs EXCEPT ![t][f] = @ + 1]
                  ELSE followJobs

ReceiveFollow(f, t, i) ==
    /\ Taken(f, t, i, "Follow")
    /\ Answer(f, t, i, FollowAnswer(f, t))
    /\ lastId' = IF followers[t][f] = None THEN lastId + 1 ELSE lastId
    /\ followers' = [followers EXCEPT ![t][f] =
         [ id |-> IF @ = None THEN lastId + 1 ELSE @.id,
           state |-> StateAfterFollow(f, t) ]]
    /\ IF FollowAnswer(f, t) = <<"Accept">>
       THEN AutoFollowBackIfNeeded(t, f) ELSE UNCHANGED followJobs
    /\ UNCHANGED <<following, inbox, admin, approved>>

\* rejectIfInstanceFollowDisabled, rejectIfMuted: a row there is stays.
RefuseFollow(f, t) ==
    /\ Command
    /\ inbox[t] = Idle
    /\ channel[f][t] # <<>> /\ Head(channel[f][t]) = "Follow"
    /\ Answer(f, t, 1, <<"Reject">>)
    /\ orderly' = (orderly /\ followers[t][f] = None)
    /\ UNCHANGED <<tables, followJobs, inbox, admin, lastId, approved>>

\* The transaction fails after the Accept was posted; it is run again.
FollowRolledBack(f, t) ==
    /\ Command
    /\ inbox[t] = Idle
    /\ channel[f][t] # <<>> /\ Head(channel[f][t]) = "Follow"
    /\ FollowAnswer(f, t) = <<"Accept">> /\ Len(channel[t][f]) < NetCap
    /\ Post(t, f, "Accept")
    /\ AutoFollowBackIfNeeded(t, f)
    /\ orderly' = (orderly /\ (t \in ManualApproval => ~Held(t, f)))
    /\ UNCHANGED <<tables, inbox, admin, lastId, approved>>

\* processUndoFollow.
ReceiveUndo(f, t, i) ==
    /\ Taken(f, t, i, "Undo")
    /\ Answer(f, t, i, <<>>)
    /\ followers' = [followers EXCEPT ![t][f] = None]
    /\ UNCHANGED <<following, followJobs, inbox, admin, lastId, approved>>

\* Mutant: only a rejected follow is saved.
AcceptChangesRejected(row) == row # None /\ row.state = "rejected"

AcceptChanges(row) == row # None /\ row.state # "accepted"

\* processAccept: without a row it throws, with an accepted one it is over.
ReceiveAccept(t, f, i) ==
    /\ Taken(t, f, i, "Accept")
    /\ Answer(t, f, i, <<>>)
    /\ inbox' = IF AcceptChanges(following[f][t])
                THEN [inbox EXCEPT ![f] = [ pc |-> "accept", peer |-> t,
                                            inst |-> following[f][t] ]]
                ELSE inbox
    /\ UNCHANGED <<tables, followJobs, admin, lastId, approved>>

SaveAccept(f) ==
    /\ inbox[f].pc = "accept"
    /\ following' = [following EXCEPT
                       ![f][inbox[f].peer] = SaveState(@, inbox[f].inst, "accepted")]
    /\ inbox' = [inbox EXCEPT ![f] = Idle]
    /\ UNCHANGED <<followers, channel, followJobs, admin, lastId, commands,
                   history>>

\* processReject: one transaction; without a row it throws.
ReceiveReject(t, f, i) ==
    /\ Taken(t, f, i, "Reject")
    /\ Answer(t, f, i, <<>>)
    /\ following' = [following EXCEPT ![f][t] =
                       IF @ = None THEN None ELSE [@ EXCEPT !.state = "rejected"]]
    /\ UNCHANGED <<followers, followJobs, inbox, admin, lastId, approved>>

-----------------------------------------------------------------------------
(* Administrators.  The validator loads the row, the handler trusts it.     *)

Load(k, s, peer, label, row) ==
    /\ Command
    /\ admin[k] = Idle
    /\ row # None
    /\ admin' = [admin EXCEPT ![k] =
                   [pc |-> label, at |-> s, peer |-> peer, inst |-> row]]

\* removeFollowing: only an accepted follow is undone at its target.
StartUnfollow(k, f, t) ==
    /\ Load(k, f, t, "unfollow", following[f][t])
    /\ orderly' = (orderly /\ following[f][t].state = "accepted"
                           /\ ~Held(f, t))
    /\ UNCHANGED <<tables, channel, followJobs, inbox, lastId, approved>>

\* Mutant: the Undo is forgotten.
UndoOfNone(inst) == FALSE

NeedsUndo(inst) == inst.state = "accepted"

Unfollow(k) ==
    LET f == admin[k].at
        t == admin[k].peer
    IN /\ admin[k].pc = "unfollow"
       /\ following' = [following EXCEPT ![f][t] = DestroyRow(@, admin[k].inst)]
       /\ IF NeedsUndo(admin[k].inst) THEN Post(f, t, "Undo")
                                      ELSE UNCHANGED channel
       /\ admin' = [admin EXCEPT ![k] = Idle]
       /\ UNCHANGED <<followers, followJobs, inbox, lastId, commands, history>>

\* rejectFollower: the state is saved, then the Reject is posted.
StartReject(k, t, f) ==
    /\ Load(k, t, f, "rejectSave", followers[t][f])
    /\ followers[t][f].state \in {"pending", "accepted"}
    /\ orderly' = (orderly /\ ~Held(t, f))
    /\ UNCHANGED <<tables, channel, followJobs, inbox, lastId, approved>>

RejectSave(k) ==
    LET t == admin[k].at
        f == admin[k].peer
    IN /\ admin[k].pc = "rejectSave"
       /\ followers' = [followers EXCEPT
                          ![t][f] = SaveState(@, admin[k].inst, "rejected")]
       /\ admin' = [admin EXCEPT ![k].pc = "rejectSend"]
       /\ UNCHANGED <<following, channel, followJobs, inbox, lastId, commands,
                      history>>

RejectSend(k) ==
    /\ admin[k].pc = "rejectSend"
    /\ Post(admin[k].at, admin[k].peer, "Reject")
    /\ admin' = [admin EXCEPT ![k] = Idle]
    /\ UNCHANGED <<tables, followJobs, inbox, lastId, commands, history>>

\* acceptFollower: the Accept is posted, then the state is saved.
StartAccept(k, t, f) ==
    /\ Load(k, t, f, "acceptSave", followers[t][f])
    /\ followers[t][f].state \in {"pending", "rejected"}
    /\ Post(t, f, "Accept")
    /\ approved' = approved \cup {<<f, t>>}
    /\ orderly' = (orderly /\ ~Held(t, f))
    /\ UNCHANGED <<tables, followJobs, inbox, lastId>>

AcceptSave(k) ==
    LET t == admin[k].at
        f == admin[k].peer
    IN /\ admin[k].pc = "acceptSave"
       /\ followers' = [followers EXCEPT
                          ![t][f] = SaveState(@, admin[k].inst, "accepted")]
       /\ AutoFollowBackIfNeeded(t, f)
       /\ admin' = [admin EXCEPT ![k] = Idle]
       /\ UNCHANGED <<following, channel, inbox, lastId, commands, history>>

\* removeFollower: a Reject unless it was rejected before, then the row goes.
StartRemove(k, t, f) ==
    /\ Load(k, t, f, "remove", followers[t][f])
    /\ IF followers[t][f].state \in {"pending", "accepted"}
       THEN Post(t, f, "Reject") ELSE UNCHANGED channel
    /\ orderly' = (orderly /\ ~Held(t, f))
    /\ UNCHANGED <<tables, followJobs, inbox, lastId, approved>>

RemoveDestroy(k) ==
    LET t == admin[k].at
        f == admin[k].peer
    IN /\ admin[k].pc = "remove"
       /\ followers' = [followers EXCEPT ![t][f] = DestroyRow(@, admin[k].inst)]
       /\ admin' = [admin EXCEPT ![k] = Idle]
       /\ UNCHANGED <<following, channel, followJobs, inbox, lastId, commands,
                      history>>

-----------------------------------------------------------------------------
(* Failures: a unicast job is not retried, the inbox is only in memory, and
   the follow scheduler removes the rows whose score became negative.       *)

Lose(s, d, i) ==
    /\ Command
    /\ i \in DOMAIN channel[s][d]
    /\ channel' = [channel EXCEPT ![s][d] = RemoveAt(@, i)]
    /\ orderly' = FALSE
    /\ UNCHANGED <<tables, followJobs, inbox, admin, lastId, approved>>

Restart(s) ==
    /\ Command
    /\ inbox[s] # Idle \/ \E k \in Admin : admin[k] # Idle /\ admin[k].at = s
    /\ inbox' = [inbox EXCEPT ![s] = Idle]
    /\ admin' = [k \in Admin |-> IF admin[k] # Idle /\ admin[k].at = s
                                 THEN Idle ELSE admin[k]]
    /\ orderly' = FALSE
    /\ UNCHANGED <<tables, channel, followJobs, lastId, approved>>

RemoveBadActorFollow(s, peer) ==
    /\ Command
    /\ \/ /\ following[s][peer] # None
          /\ following' = [following EXCEPT ![s][peer] = None]
          /\ UNCHANGED followers
       \/ /\ followers[s][peer] # None
          /\ followers' = [followers EXCEPT ![s][peer] = None]
          /\ UNCHANGED following
    /\ orderly' = FALSE
    /\ UNCHANGED <<channel, followJobs, inbox, admin, lastId, approved>>

-----------------------------------------------------------------------------
\* What the servers do by themselves: queued jobs, activities, handlers.
Work ==
    \/ \E p \in Pair : FollowJob(p[1], p[2])
    \/ \E p \in Pair : \E i \in DOMAIN channel[p[1]][p[2]] :
         \/ ReceiveFollow(p[1], p[2], i)
         \/ ReceiveUndo(p[1], p[2], i)
         \/ ReceiveAccept(p[1], p[2], i)
         \/ ReceiveReject(p[1], p[2], i)
    \/ \E f \in Server : SaveAccept(f)
    \/ \E k \in Admin : Unfollow(k) \/ RejectSave(k) \/ RejectSend(k)
                          \/ AcceptSave(k) \/ RemoveDestroy(k)

Environment ==
    \/ \E p \in Pair :
         \/ AddFollow(p[1], p[2])
         \/ RemoveBadActorFollow(p[1], p[2])
         \/ FollowRolledBack(p[1], p[2])
         \/ RefuseFollow(p[1], p[2])
         \/ \E i \in DOMAIN channel[p[1]][p[2]] : Lose(p[1], p[2], i)
         \/ \E k \in Admin :
              \/ StartUnfollow(k, p[1], p[2])
              \/ StartReject(k, p[1], p[2])
              \/ StartAccept(k, p[1], p[2])
              \/ StartRemove(k, p[1], p[2])
    \/ \E s \in Server : Restart(s)

Next == Work \/ Environment

Spec == Init /\ [][Next]_vars

\* Redis keeps the jobs and the workers take them; a handler that started
\* runs to its end.
FairSpec == Spec /\ WF_vars(Work)

-----------------------------------------------------------------------------
TypeOK ==
    /\ following \in [Server -> [Server -> Row \cup {None}]]
    /\ followers \in [Server -> [Server -> Row \cup {None}]]
    /\ channel \in [Server -> [Server -> Seq(Activity)]]
    /\ followJobs \in [Server -> [Server -> Nat]]
    /\ inbox \in [Server -> InboxRow]
    /\ admin \in [Admin -> AdminRow]
    /\ lastId \in Nat
    /\ commands \in 0 .. MaxCommands
    /\ orderly \in BOOLEAN
    /\ approved \subseteq Pair

Quiet ==
    /\ \A s, d \in Server : channel[s][d] = <<>> /\ followJobs[s][d] = 0
    /\ \A s \in Server : inbox[s] = Idle
    /\ \A k \in Admin : admin[k] = Idle

Accepted(row) == row # None /\ row.state = "accepted"
Pending(row) == row # None /\ row.state = "pending"

\* Once nothing is in flight, the follower and its target agree on whether
\* the follow is accepted, also when the target approves by hand.  Behaviours
\* in which one of these happened are not orderly, and are left out, as nothing
\* in the code repairs the rows then: an activity was lost, overtaken or
\* forgotten by a restart; a bad follow was removed; a pending follow was
\* unfollowed; two requests, or a request and an activity, worked on one row at
\* a time; a Follow was refused although its row existed; a server that
\* approves by hand was followed again while it could still see, or answer, the
\* earlier follow, as processAccept takes a late Accept for the new row's.
Agreement ==
    orderly /\ Quiet =>
      \A p \in Pair :
        Accepted(following[p[1]][p[2]]) <=> Accepted(followers[p[2]][p[1]])

\* A server that approves its followers by hand has no follower, in its own
\* table or in the follower's, that no administrator accepted.
ApprovedByHand ==
    \A p \in Pair : p[2] \in ManualApproval /\ p \notin approved =>
      ~Accepted(following[p[1]][p[2]]) /\ ~Accepted(followers[p[2]][p[1]])

\* A follow of a server that approves automatically is answered.
FollowAnswered ==
    \A p \in Pair : p[2] \notin ManualApproval =>
      (Pending(following[p[1]][p[2]])
         ~> (~Pending(following[p[1]][p[2]]) \/ ~orderly))

\* Following back, refused or repeated follows never keep two servers busy
\* forever.
FollowsSettle == <>[]Quiet
=============================================================================
