-------------------------- MODULE ActorFollowProofs --------------------------
(* Proofs about ActorFollow, for any servers, settings, requests and bounds. *)
EXTENDS ActorFollow, SequenceTheorems, TLAPS

\* Removing an activity leaves a sequence of the same set.
LEMMA RemoveAtTyped ==
    ASSUME NEW S, NEW s \in Seq(S), NEW i \in DOMAIN s
    PROVE  RemoveAt(s, i) \in Seq(S)
<1>1. i \in 1 .. Len(s) /\ Len(s) \in Nat  BY LenProperties
<1>2. \A j \in 1 .. Len(s) : s[j] \in S  BY ElementOfSeq
<1>3. SubSeq(s, 1, i - 1) \in Seq(S)
  <2>1. i - 1 \in Int /\ 1 \in Int  BY <1>1
  <2>2. \A j \in 1 .. i - 1 : s[j] \in S  BY <1>1, <1>2
  <2> QED  BY <2>1, <2>2, SubSeqProperties
<1>4. SubSeq(s, i + 1, Len(s)) \in Seq(S)
  <2>1. i + 1 \in Int /\ Len(s) \in Int  BY <1>1
  <2>2. \A j \in i + 1 .. Len(s) : s[j] \in S  BY <1>1, <1>2
  <2> QED  BY <2>1, <2>2, SubSeqProperties
<1> QED  BY <1>3, <1>4, ConcatProperties DEF RemoveAt

\* A post keeps the channels typed.
LEMMA PostTyped ==
    ASSUME TypeOK, NEW s \in Server, NEW d \in Server, NEW a \in Activity,
           Post(s, d, a)
    PROVE  channel' \in [Server -> [Server -> Seq(Activity)]]
<1>1. channel[s][d] \in Seq(Activity)  BY DEF TypeOK
<1>2. Append(channel[s][d], a) \in Seq(Activity)  BY <1>1, AppendProperties
<1> QED  BY <1>2 DEF Post, TypeOK

\* Taking an activity and answering it keeps the channels typed.
LEMMA AnswerTyped ==
    ASSUME TypeOK, NEW s \in Server, NEW d \in Server, s # d,
           NEW i \in DOMAIN channel[s][d],
           NEW answers \in Seq(Activity), Answer(s, d, i, answers)
    PROVE  channel' \in [Server -> [Server -> Seq(Activity)]]
<1>1. /\ channel[s][d] \in Seq(Activity) /\ channel[d][s] \in Seq(Activity)
  BY DEF TypeOK
<1>2. RemoveAt(channel[s][d], i) \in Seq(Activity)  BY <1>1, RemoveAtTyped
<1>3. channel[d][s] \o answers \in Seq(Activity)  BY <1>1, ConcatProperties
<1> QED  BY <1>2, <1>3 DEF Answer, TypeOK

\* A save or a destroy by primary key leaves a row or none.
LEMMA SaveTyped ==
    ASSUME NEW row \in Row \cup {None}, NEW inst, NEW state \in FollowState
    PROVE  /\ SaveState(row, inst, state) \in Row \cup {None}
           /\ DestroyRow(row, inst) \in Row \cup {None}
BY DEF SaveState, DestroyRow, Row

\* The state processFollow leaves, and the answers it may post.
LEMMA FollowAnswerTyped ==
    ASSUME TypeOK, NEW f \in Server, NEW t \in Server
    PROVE  /\ StateAfterFollow(f, t) \in FollowState
           /\ FollowAnswer(f, t) \in Seq(Activity)
           /\ FollowAnswer(f, t) \in {<<"Accept">>, <<"Reject">>, <<>>}
<1>1. followers[t][f] \in Row \cup {None}  BY DEF TypeOK
<1>2. StateAfterFollow(f, t) \in FollowState
  BY <1>1 DEF StateAfterFollow, Row, FollowState
<1>3. FollowAnswer(f, t) \in {<<"Accept">>, <<"Reject">>, <<>>}
  BY <1>2 DEF FollowAnswer, FollowState
<1>4. /\ <<"Accept">> \in Seq(Activity) /\ <<"Reject">> \in Seq(Activity)
      /\ <<>> \in Seq(Activity)
  BY DEF Activity
<1> QED  BY <1>2, <1>3, <1>4

\* A validator that loads a row starts a typed request.
LEMMA LoadTyped ==
    ASSUME TypeOK, NEW k \in Admin, NEW s \in Server, NEW peer \in Server,
           NEW label \in {"unfollow", "rejectSave", "acceptSave", "remove"},
           NEW row \in Row \cup {None}, Load(k, s, peer, label, row)
    PROVE  admin' \in [Admin -> AdminRow]
BY DEF Load, TypeOK, AdminRow

\* One request of an administrator: its servers, the row it loaded.
LEMMA AdminTyped ==
    ASSUME TypeOK, NEW k \in Admin, admin[k].pc # "idle"
    PROVE  /\ admin[k] # Idle
           /\ admin[k].at \in Server /\ admin[k].peer \in Server
           /\ admin[k].inst \in Row
BY DEF TypeOK, AdminRow, Idle

\* The environment's counter stays within its bound.
LEMMA CommandTyped ==
    ASSUME BoundAssumption, TypeOK
    PROVE  /\ Command => commands' \in 0 .. MaxCommands
           /\ UNCHANGED commands => commands' \in 0 .. MaxCommands
BY BoundAssumption DEF Command, TypeOK, BoundAssumption

\* What holds of an activity the inbox manager takes.
LEMMA TakenTyped ==
    ASSUME TypeOK, NEW s \in Server, NEW d \in Server, NEW i, NEW a,
           Taken(s, d, i, a)
    PROVE  /\ i \in DOMAIN channel[s][d] /\ channel[s][d][i] = a
           /\ commands' \in 0 .. MaxCommands
           /\ orderly' \in BOOLEAN
<1>1. i \in DOMAIN channel[s][d] /\ channel[s][d][i] = a  BY DEF Taken
<1>2. commands' \in 0 .. MaxCommands
  BY BoundAssumption, CommandTyped DEF Taken
<1>3. orderly' \in BOOLEAN  BY Zenon DEF Taken, TypeOK
<1> QED  BY <1>1, <1>2, <1>3

\* Following back keeps the job counters typed.
LEMMA FollowBackTyped ==
    ASSUME TypeOK, NEW t \in Server, NEW f \in Server,
           AutoFollowBackIfNeeded(t, f)
    PROVE  followJobs' \in [Server -> [Server -> Nat]]
BY DEF AutoFollowBackIfNeeded, TypeOK

-----------------------------------------------------------------------------
(* Types.                                                                   *)

\* The initial state is typed.
LEMMA InitTyped == BoundAssumption /\ Init => TypeOK
BY DEF BoundAssumption, Init, TypeOK, InboxRow, AdminRow, FollowState, Pair

\* What the servers do keeps every range.
LEMMA WorkTyped == ASSUME TypeOK, Work PROVE TypeOK'
<1> USE BoundAssumption
<1>1. ASSUME NEW f \in Server, NEW t \in Server, f # t, FollowJob(f, t)
      PROVE TypeOK'
  <2>1. channel' \in [Server -> [Server -> Seq(Activity)]]
    <3>1. CASE Post(f, t, "Follow")  BY <3>1, PostTyped DEF Activity
    <3>2. CASE UNCHANGED channel  BY <3>2 DEF TypeOK
    <3> QED  BY <1>1, <3>1, <3>2 DEF FollowJob
  <2>2. followJobs' \in [Server -> [Server -> Nat]]
    BY <1>1 DEF FollowJob, Waiting, TypeOK
  <2>3. lastId' \in Nat  BY <1>1 DEF FollowJob, TypeOK
  <2>4. following' \in [Server -> [Server -> Row \cup {None}]]
    <3>1. [id |-> lastId + 1, state |-> "pending"] \in Row
      BY DEF TypeOK, Row, FollowState
    <3>2. CASE following[f][t] = None
      <4>1. following' = [following EXCEPT
                            ![f][t] = [id |-> lastId + 1, state |-> "pending"]]
        BY <1>1, <3>2 DEF FollowJob
      <4> QED  BY <3>1, <4>1 DEF TypeOK
    <3>3. CASE following[f][t] # None
      BY <1>1, <3>3 DEF FollowJob, TypeOK
    <3> QED  BY <3>2, <3>3
  <2> QED  BY <1>1, <2>1, <2>2, <2>3, <2>4 DEF FollowJob, TypeOK, tables, history
<1>2. ASSUME NEW f \in Server, NEW t \in Server, f # t, NEW i, ReceiveFollow(f, t, i)
      PROVE TypeOK'
  <2>1. Taken(f, t, i, "Follow") /\ Answer(f, t, i, FollowAnswer(f, t))
    BY <1>2 DEF ReceiveFollow
  <2>2. channel' \in [Server -> [Server -> Seq(Activity)]]
    <3>1. FollowAnswer(f, t) \in Seq(Activity)  BY FollowAnswerTyped
    <3>2. i \in DOMAIN channel[f][t]  BY <2>1, TakenTyped
    <3> QED  BY <1>2, <2>1, <3>1, <3>2, AnswerTyped
  <2>3. commands' \in 0 .. MaxCommands /\ orderly' \in BOOLEAN
    BY <2>1, TakenTyped
  <2>4. followJobs' \in [Server -> [Server -> Nat]]
    BY <1>2, FollowBackTyped DEF ReceiveFollow, TypeOK
  <2>5. followers' \in [Server -> [Server -> Row \cup {None}]]
    <3>1. [ id |-> IF followers[t][f] = None THEN lastId + 1
                   ELSE followers[t][f].id,
            state |-> StateAfterFollow(f, t) ] \in Row
      BY FollowAnswerTyped DEF TypeOK, Row
    <3> QED  BY <1>2, <3>1 DEF ReceiveFollow, TypeOK
  <2>6. lastId' \in Nat  BY <1>2 DEF ReceiveFollow, TypeOK
  <2> QED  BY <1>2, <2>2, <2>3, <2>4, <2>5, <2>6 DEF ReceiveFollow, TypeOK
<1>3. ASSUME NEW f \in Server, NEW t \in Server, f # t, NEW i, ReceiveUndo(f, t, i)
      PROVE TypeOK'
  <2>1. Taken(f, t, i, "Undo") /\ Answer(f, t, i, <<>>)
    BY <1>3 DEF ReceiveUndo
  <2>2. channel' \in [Server -> [Server -> Seq(Activity)]]
    <3>1. <<>> \in Seq(Activity)  BY EmptySeq
    <3>2. i \in DOMAIN channel[f][t]  BY <2>1, TakenTyped
    <3> QED  BY <1>3, <2>1, <3>1, <3>2, AnswerTyped
  <2>3. commands' \in 0 .. MaxCommands /\ orderly' \in BOOLEAN
    BY <2>1, TakenTyped
  <2>4. followers' \in [Server -> [Server -> Row \cup {None}]]
    BY <1>3 DEF ReceiveUndo, TypeOK
  <2> QED  BY <1>3, <2>2, <2>3, <2>4 DEF ReceiveUndo, TypeOK
<1>4. ASSUME NEW t \in Server, NEW f \in Server, t # f, NEW i, ReceiveAccept(t, f, i)
      PROVE TypeOK'
  <2>1. Taken(t, f, i, "Accept") /\ Answer(t, f, i, <<>>)
    BY <1>4 DEF ReceiveAccept
  <2>2. channel' \in [Server -> [Server -> Seq(Activity)]]
    <3>1. <<>> \in Seq(Activity)  BY EmptySeq
    <3>2. i \in DOMAIN channel[t][f]  BY <2>1, TakenTyped
    <3> QED  BY <1>4, <2>1, <3>1, <3>2, AnswerTyped
  <2>3. commands' \in 0 .. MaxCommands /\ orderly' \in BOOLEAN
    BY <2>1, TakenTyped
  <2>4. inbox' \in [Server -> InboxRow]
    <3>1. following[f][t] \in Row \cup {None}  BY DEF TypeOK
    <3>2. AcceptChanges(following[f][t]) =>
            [pc |-> "accept", peer |-> t, inst |-> following[f][t]] \in InboxRow
      BY <3>1 DEF AcceptChanges, InboxRow
    <3> QED  BY <1>4, <3>2 DEF ReceiveAccept, TypeOK
  <2> QED  BY <1>4, <2>2, <2>3, <2>4 DEF ReceiveAccept, TypeOK, tables
<1>5. ASSUME NEW t \in Server, NEW f \in Server, t # f, NEW i, ReceiveReject(t, f, i)
      PROVE TypeOK'
  <2>1. Taken(t, f, i, "Reject") /\ Answer(t, f, i, <<>>)
    BY <1>5 DEF ReceiveReject
  <2>2. channel' \in [Server -> [Server -> Seq(Activity)]]
    <3>1. <<>> \in Seq(Activity)  BY EmptySeq
    <3>2. i \in DOMAIN channel[t][f]  BY <2>1, TakenTyped
    <3> QED  BY <1>5, <2>1, <3>1, <3>2, AnswerTyped
  <2>3. commands' \in 0 .. MaxCommands /\ orderly' \in BOOLEAN
    BY <2>1, TakenTyped
  <2>4. following' \in [Server -> [Server -> Row \cup {None}]]
    <3>1. following[f][t] # None =>
            [following[f][t] EXCEPT !.state = "rejected"] \in Row
      <4>1. \A row \in Row : [row EXCEPT !.state = "rejected"] \in Row
        BY DEF Row, FollowState
      <4> QED  BY <4>1 DEF TypeOK
    <3>2. following' = [following EXCEPT ![f][t] =
                          IF following[f][t] = None THEN None
                          ELSE [following[f][t] EXCEPT !.state = "rejected"]]
      BY <1>5 DEF ReceiveReject, TypeOK
    <3> QED  BY <3>1, <3>2 DEF TypeOK
  <2> QED  BY <1>5, <2>2, <2>3, <2>4 DEF ReceiveReject, TypeOK
<1>6. ASSUME NEW f \in Server, SaveAccept(f)  PROVE TypeOK'
  <2>1. inbox[f].peer \in Server  BY <1>6 DEF SaveAccept, TypeOK, InboxRow, Idle
  <2>2. SaveState(following[f][inbox[f].peer], inbox[f].inst, "accepted")
          \in Row \cup {None}
    BY <2>1, SaveTyped DEF TypeOK, FollowState
  <2> QED  BY <1>6, <2>1, <2>2 DEF SaveAccept, TypeOK, InboxRow, history
<1>7. ASSUME NEW k \in Admin, Unfollow(k)  PROVE TypeOK'
  <2>1. admin[k].at \in Server /\ admin[k].peer \in Server
    BY <1>7, AdminTyped DEF Unfollow
  <2>2. channel' \in [Server -> [Server -> Seq(Activity)]]
    <3>1. CASE Post(admin[k].at, admin[k].peer, "Undo")
      BY <3>1, <2>1, PostTyped DEF Activity
    <3>2. CASE UNCHANGED channel  BY <3>2 DEF TypeOK
    <3> QED  BY <1>7, <3>1, <3>2 DEF Unfollow
  <2>3. following' \in [Server -> [Server -> Row \cup {None}]]
    <3>1. DestroyRow(following[admin[k].at][admin[k].peer], admin[k].inst)
            \in Row \cup {None}
      BY <2>1, SaveTyped DEF TypeOK, FollowState
    <3> QED  BY <1>7, <2>1, <3>1 DEF Unfollow, TypeOK
  <2> QED  BY <1>7, <2>2, <2>3 DEF Unfollow, TypeOK, AdminRow, history
<1>8. ASSUME NEW k \in Admin, RejectSave(k) \/ AcceptSave(k) \/ RemoveDestroy(k)
      PROVE TypeOK'
  <2> DEFINE row == followers[admin[k].at][admin[k].peer]
  <2>1. admin[k].at \in Server /\ admin[k].peer \in Server /\ admin[k].inst \in Row
    BY <1>8, AdminTyped DEF RejectSave, AcceptSave, RemoveDestroy
  <2>2. /\ SaveState(row, admin[k].inst, "rejected") \in Row \cup {None}
        /\ SaveState(row, admin[k].inst, "accepted") \in Row \cup {None}
        /\ DestroyRow(row, admin[k].inst) \in Row \cup {None}
    BY <2>1, SaveTyped DEF TypeOK, FollowState
  <2>3. followers' \in [Server -> [Server -> Row \cup {None}]]
    <3>1. CASE RejectSave(k)  BY <2>1, <2>2, <3>1 DEF RejectSave, TypeOK
    <3>2. CASE AcceptSave(k)  BY <2>1, <2>2, <3>2 DEF AcceptSave, TypeOK
    <3>3. CASE RemoveDestroy(k)  BY <2>1, <2>2, <3>3 DEF RemoveDestroy, TypeOK
    <3> QED  BY <1>8, <3>1, <3>2, <3>3
  <2>4. followJobs' \in [Server -> [Server -> Nat]]
    <3>1. CASE AcceptSave(k)  BY <2>1, <3>1, FollowBackTyped DEF AcceptSave
    <3>2. CASE RejectSave(k) \/ RemoveDestroy(k)
      BY <3>2 DEF RejectSave, RemoveDestroy, TypeOK
    <3> QED  BY <1>8, <3>1, <3>2
  <2>5. admin' \in [Admin -> AdminRow]
    <3>1. CASE RejectSave(k)
      <4>1. admin[k] \in AdminRow /\ admin[k] # Idle
        BY <3>1, AdminTyped DEF RejectSave, TypeOK
      <4>2. [admin[k] EXCEPT !.pc = "rejectSend"] \in AdminRow
        BY <4>1 DEF AdminRow
      <4> QED  BY <3>1, <4>2 DEF RejectSave, TypeOK
    <3>2. CASE AcceptSave(k) \/ RemoveDestroy(k)
      BY <3>2 DEF AcceptSave, RemoveDestroy, TypeOK, AdminRow
    <3> QED  BY <1>8, <3>1, <3>2
  <2> QED
    BY <1>8, <2>3, <2>4, <2>5 DEF RejectSave, AcceptSave, RemoveDestroy, TypeOK,
                                  history
<1>9. ASSUME NEW k \in Admin, RejectSend(k)  PROVE TypeOK'
  <2>1. admin[k].at \in Server /\ admin[k].peer \in Server
    BY <1>9, AdminTyped DEF RejectSend
  <2>2. channel' \in [Server -> [Server -> Seq(Activity)]]
    BY <1>9, <2>1, PostTyped DEF RejectSend, Activity
  <2> QED  BY <1>9, <2>2 DEF RejectSend, TypeOK, AdminRow, tables, history
<1> QED  BY <1>1, <1>2, <1>3, <1>4, <1>5, <1>6, <1>7, <1>8, <1>9 DEF Work, Pair

\* Commands and failures keep every range.
LEMMA EnvironmentTyped == ASSUME TypeOK, Environment PROVE TypeOK'
<1> USE BoundAssumption
<1> SUFFICES ASSUME commands' \in 0 .. MaxCommands,
                    orderly' \in BOOLEAN /\ lastId' \in Nat
             PROVE  TypeOK'
  <2>1. commands' \in 0 .. MaxCommands
    <3>1. Command
      BY ZenonT(30) DEF Environment, AddFollow, RemoveBadActorFollow, FollowRolledBack,
                   RefuseFollow, Lose, StartUnfollow, StartReject, StartAccept,
                   StartRemove, Load, Restart
    <3> QED  BY <3>1, CommandTyped
  <2>2. orderly' \in BOOLEAN
    BY ZenonT(30) DEF Environment, AddFollow, RemoveBadActorFollow, FollowRolledBack,
                 RefuseFollow, Lose, StartUnfollow, StartReject, StartAccept,
                 StartRemove, Restart, TypeOK, history
  <2>3. lastId' = lastId
    BY Zenon DEF Environment, AddFollow, RemoveBadActorFollow, FollowRolledBack,
                 RefuseFollow, Lose, StartUnfollow, StartReject, StartAccept,
                 StartRemove, Restart
  <2> QED  BY <2>1, <2>2, <2>3 DEF TypeOK
<1>1. ASSUME NEW f \in Server, NEW t \in Server, f # t,
             AddFollow(f, t) \/ RemoveBadActorFollow(f, t)
      PROVE TypeOK'
  <2>1. CASE AddFollow(f, t)
    <3>1. followJobs' \in [Server -> [Server -> Nat]]
      BY <2>1 DEF AddFollow, TypeOK
    <3> QED  BY <2>1, <3>1 DEF AddFollow, TypeOK, tables, history
  <2>2. CASE RemoveBadActorFollow(f, t)
    <3>1. /\ following' \in [Server -> [Server -> Row \cup {None}]]
          /\ followers' \in [Server -> [Server -> Row \cup {None}]]
      <4>1. CASE /\ following' = [following EXCEPT ![f][t] = None]
                 /\ UNCHANGED followers
        BY <4>1 DEF TypeOK
      <4>2. CASE /\ followers' = [followers EXCEPT ![f][t] = None]
                 /\ UNCHANGED following
        BY <4>2 DEF TypeOK
      <4> QED  BY <2>2, <4>1, <4>2 DEF RemoveBadActorFollow
    <3> QED  BY <2>2, <3>1 DEF RemoveBadActorFollow, TypeOK
  <2> QED  BY <1>1, <2>1, <2>2
<1>2. ASSUME NEW f \in Server, NEW t \in Server, f # t, FollowRolledBack(f, t)
      PROVE TypeOK'
  <2>1. channel' \in [Server -> [Server -> Seq(Activity)]]
    BY <1>2, PostTyped DEF FollowRolledBack, Activity
  <2>2. followJobs' \in [Server -> [Server -> Nat]]
    BY <1>2, FollowBackTyped DEF FollowRolledBack
  <2> QED  BY <1>2, <2>1, <2>2 DEF FollowRolledBack, TypeOK, tables, history
<1>3. ASSUME NEW f \in Server, NEW t \in Server, f # t, RefuseFollow(f, t)
      PROVE TypeOK'
  <2>1. channel[f][t] \in Seq(Activity) /\ channel[f][t] # <<>>
    BY <1>3 DEF RefuseFollow, TypeOK
  <2>2. 1 \in DOMAIN channel[f][t]  BY <2>1, EmptySeq, LenProperties
  <2>3. <<"Reject">> \in Seq(Activity)  BY DEF Activity
  <2>4. channel' \in [Server -> [Server -> Seq(Activity)]]
    BY <1>3, <2>2, <2>3, AnswerTyped DEF RefuseFollow
  <2> QED  BY <1>3, <2>4 DEF RefuseFollow, TypeOK, tables
<1>4. ASSUME NEW f \in Server, NEW t \in Server, NEW i \in DOMAIN channel[f][t],
             Lose(f, t, i)
      PROVE TypeOK'
  <2>1. RemoveAt(channel[f][t], i) \in Seq(Activity)
    BY RemoveAtTyped DEF TypeOK
  <2> QED  BY <1>4, <2>1 DEF Lose, TypeOK, tables
<1>5. ASSUME NEW f \in Server, NEW t \in Server, f # t, NEW k \in Admin,
             StartUnfollow(k, f, t)
      PROVE TypeOK'
  <2>1. following[f][t] \in Row \cup {None}  BY DEF TypeOK
  <2>2. admin' \in [Admin -> AdminRow]
    BY <1>5, <2>1, LoadTyped DEF StartUnfollow
  <2> QED  BY <1>5, <2>2 DEF StartUnfollow, TypeOK, tables
<1>6. ASSUME NEW t \in Server, NEW f \in Server, t # f, NEW k \in Admin,
             \/ StartReject(k, t, f) \/ StartAccept(k, t, f)
             \/ StartRemove(k, t, f)
      PROVE TypeOK'
  <2>1. followers[t][f] \in Row \cup {None}  BY DEF TypeOK
  <2>2. admin' \in [Admin -> AdminRow]
    BY <1>6, <2>1, LoadTyped DEF StartReject, StartAccept, StartRemove
  <2>3. channel' \in [Server -> [Server -> Seq(Activity)]]
    <3>1. Post(t, f, "Accept") => channel' \in [Server -> [Server -> Seq(Activity)]]
      BY PostTyped DEF Activity
    <3>2. Post(t, f, "Reject") => channel' \in [Server -> [Server -> Seq(Activity)]]
      BY PostTyped DEF Activity
    <3> QED
      BY <1>6, <3>1, <3>2 DEF StartReject, StartAccept, StartRemove, TypeOK
  <2>4. approved' \subseteq Pair
    <3>1. <<f, t>> \in Pair  BY <1>6 DEF Pair
    <3>2. CASE StartAccept(k, t, f)  BY <3>1, <3>2 DEF StartAccept, TypeOK
    <3>3. CASE UNCHANGED approved  BY <3>3 DEF TypeOK
    <3> QED  BY <1>6, <3>2, <3>3 DEF StartReject, StartRemove
  <2> QED
    BY <1>6, <2>2, <2>3, <2>4 DEF StartReject, StartAccept, StartRemove, TypeOK,
                                  tables
<1>7. ASSUME NEW s \in Server, Restart(s)  PROVE TypeOK'
  BY <1>7 DEF Restart, TypeOK, tables, InboxRow, AdminRow
<1> QED  BY <1>1, <1>2, <1>3, <1>4, <1>5, <1>6, <1>7 DEF Environment, Pair

\* Every action keeps the types of the tables, the activities on their way,
\* the handlers and the counters.
THEOREM TypeInvariant == Spec => []TypeOK
<1>1. Init => TypeOK  BY BoundAssumption, InitTyped
<1>2. TypeOK /\ [Next]_vars => TypeOK'
  <2> SUFFICES ASSUME TypeOK, [Next]_vars  PROVE TypeOK'
    OBVIOUS
  <2>1. CASE Work  BY <2>1, WorkTyped
  <2>2. CASE Environment  BY <2>2, EnvironmentTyped
  <2>3. CASE UNCHANGED vars
    BY <2>3 DEF vars, tables, history, TypeOK
  <2> QED  BY <2>1, <2>2, <2>3 DEF Next
<1> QED  BY <1>1, <1>2, PTL DEF Spec

-----------------------------------------------------------------------------
(* Approval by hand.  A follow nobody approved is not accepted in a row, and
   nothing that would accept it is on its way: no Accept travels, no handler
   of the follower holds one, no request is about to save it.               *)

Silent == Activity \ {"Accept"}

Unanswered(f, t) ==
    /\ ~Accepted(following[f][t])
    /\ ~Accepted(followers[t][f])
    /\ channel[t][f] \in Seq(Silent)
    /\ ~(inbox[f].pc = "accept" /\ inbox[f].peer = t)
    /\ \A k \in Admin : ~(/\ admin[k].pc = "acceptSave"
                          /\ admin[k].at = t /\ admin[k].peer = f)

ApprovalInv ==
    \A f, t \in Server :
      f # t /\ t \in ManualApproval /\ <<f, t>> \notin approved => Unanswered(f, t)

\* A channel that carries activities of S only does so after a post of one.
LEMMA PostWithin ==
    ASSUME TypeOK, NEW f \in Server, NEW t \in Server, NEW S,
           NEW s \in Server, NEW d \in Server, NEW a,
           Post(s, d, a), channel[t][f] \in Seq(S),
           s = t /\ d = f => a \in S
    PROVE  channel'[t][f] \in Seq(S)
<1>1. CASE s = t /\ d = f
  <2>1. Append(channel[t][f], a) \in Seq(S)  BY <1>1, AppendProperties
  <2> QED  BY <1>1, <2>1 DEF Post, TypeOK
<1>2. CASE ~(s = t /\ d = f)
  BY <1>2 DEF Post, TypeOK
<1> QED  BY <1>1, <1>2

\* So it does after an activity was taken and answered with ones of S.
LEMMA AnswerWithin ==
    ASSUME TypeOK, NEW f \in Server, NEW t \in Server, f # t, NEW S,
           NEW s \in Server, NEW d \in Server, s # d,
           NEW i \in DOMAIN channel[s][d], NEW answers,
           Answer(s, d, i, answers), channel[t][f] \in Seq(S),
           s = f /\ d = t => answers \in Seq(S)
    PROVE  channel'[t][f] \in Seq(S)
<1>1. CASE s = t /\ d = f
  <2>1. RemoveAt(channel[t][f], i) \in Seq(S)  BY <1>1, RemoveAtTyped
  <2> QED  BY <1>1, <2>1 DEF Answer, TypeOK
<1>2. CASE s = f /\ d = t
  <2>1. channel[t][f] \o answers \in Seq(S)  BY <1>2, ConcatProperties
  <2> QED  BY <1>2, <2>1 DEF Answer, TypeOK
<1>3. CASE ~(s = t /\ d = f) /\ ~(s = f /\ d = t)
  BY <1>3 DEF Answer, TypeOK
<1> QED  BY <1>1, <1>2, <1>3

\* A post that is no Accept from t to f adds none to that channel.
LEMMA PostSilent ==
    ASSUME TypeOK, NEW f \in Server, NEW t \in Server,
           NEW s \in Server, NEW d \in Server, NEW a \in Activity,
           Post(s, d, a), channel[t][f] \in Seq(Silent),
           s = t /\ d = f => a # "Accept"
    PROVE  channel'[t][f] \in Seq(Silent)
<1>1. s = t /\ d = f => a \in Silent  BY DEF Silent
<1> QED  BY <1>1, PostWithin

\* Nor does an answer without an Accept.
LEMMA AnswerSilent ==
    ASSUME TypeOK, NEW f \in Server, NEW t \in Server, f # t,
           NEW s \in Server, NEW d \in Server, s # d,
           NEW i \in DOMAIN channel[s][d], NEW answers,
           Answer(s, d, i, answers), channel[t][f] \in Seq(Silent),
           s = f /\ d = t => answers \in Seq(Silent)
    PROVE  channel'[t][f] \in Seq(Silent)
BY AnswerWithin

\* A Follow is not answered with an Accept before the row is accepted.
LEMMA FollowSilent ==
    ASSUME TypeOK, NEW f \in Server, NEW t \in ManualApproval, t \in Server,
           ~Accepted(followers[t][f])
    PROVE  StateAfterFollow(f, t) # "accepted" /\ FollowAnswer(f, t) \in Seq(Silent)
<1>1. StateAfterFollow(f, t) # "accepted"
  BY DEF StateAfterFollow, Accepted
<1>2. FollowAnswer(f, t) \in {<<"Reject">>, <<>>}
  BY <1>1, FollowAnswerTyped DEF FollowAnswer
<1>3. <<"Reject">> \in Seq(Silent) /\ <<>> \in Seq(Silent)
  BY DEF Silent, Activity
<1> QED  BY <1>1, <1>2, <1>3

\* Destroying or rejecting a row that is not accepted does not accept it.
LEMMA SaveKeepsRefusal ==
    ASSUME NEW row \in Row \cup {None}, ~Accepted(row), NEW inst
    PROVE  /\ ~Accepted(DestroyRow(row, inst))
           /\ ~Accepted(SaveState(row, inst, "rejected"))
BY DEF SaveState, DestroyRow, Accepted, Row

\* The servers accept no follow by themselves at a server that approves by hand.
LEMMA WorkUnanswered ==
    ASSUME TypeOK, Work, NEW f \in Server, NEW t \in ManualApproval, t \in Server,
           f # t, Unanswered(f, t)
    PROVE  Unanswered(f, t)'
<1> DEFINE Silenced == channel'[t][f] \in Seq(Silent)
           NotAdmin == \A k \in Admin : ~(/\ admin'[k].pc = "acceptSave"
                                          /\ admin'[k].at = t
                                          /\ admin'[k].peer = f)
<1>0. /\ ~Accepted(following[f][t]) /\ ~Accepted(followers[t][f])
      /\ channel[t][f] \in Seq(Silent)
      /\ following[f][t] \in Row \cup {None} /\ followers[t][f] \in Row \cup {None}
  BY DEF Unanswered, TypeOK
<1>1. ASSUME NEW g \in Server, NEW u \in Server, g # u, FollowJob(g, u)
      PROVE Unanswered(f, t)'
  <2>1. Silenced
    <3>1. CASE Post(g, u, "Follow")  BY <1>0, <3>1, PostSilent DEF Activity
    <3>2. CASE UNCHANGED channel  BY <1>0, <3>2
    <3> QED  BY <1>1, <3>1, <3>2 DEF FollowJob
  <2>2. ~Accepted(following'[f][t])
    <3>1. CASE following[g][u] = None
      <4>1. following' = [following EXCEPT
                            ![g][u] = [id |-> lastId + 1, state |-> "pending"]]
        BY <1>1, <3>1 DEF FollowJob
      <4> QED  BY <1>0, <4>1 DEF TypeOK, Accepted
    <3>2. CASE following[g][u] # None
      BY <1>0, <1>1, <3>2 DEF FollowJob
    <3> QED  BY <3>1, <3>2
  <2> QED  BY <1>1, <2>1, <2>2 DEF FollowJob, Unanswered, Accepted
<1>2. ASSUME NEW g \in Server, NEW u \in Server, g # u,
             NEW i \in DOMAIN channel[g][u], ReceiveFollow(g, u, i)
      PROVE Unanswered(f, t)'
  <2>1. Answer(g, u, i, FollowAnswer(g, u))  BY <1>2 DEF ReceiveFollow
  <2>2. Silenced  BY <1>0, <1>2, <2>1, FollowSilent, AnswerSilent
  <2>3. ~Accepted(followers'[t][f])
    <3>1. CASE g = f /\ u = t
      <4>1. followers'[t][f].state = StateAfterFollow(f, t)
        BY <1>2, <3>1 DEF ReceiveFollow, TypeOK
      <4> QED  BY <1>0, <4>1, FollowSilent DEF Accepted
    <3>2. CASE ~(g = f /\ u = t)
      BY <1>0, <1>2, <3>2 DEF ReceiveFollow, TypeOK
    <3> QED  BY <3>1, <3>2
  <2> QED  BY <1>2, <2>2, <2>3 DEF ReceiveFollow, Unanswered, Accepted
<1>3. ASSUME NEW g \in Server, NEW u \in Server, g # u,
             NEW i \in DOMAIN channel[g][u], ReceiveUndo(g, u, i)
      PROVE Unanswered(f, t)'
  <2>1. <<>> \in Seq(Silent)  BY EmptySeq
  <2>2. Silenced
    <3>1. Answer(g, u, i, <<>>)  BY <1>3 DEF ReceiveUndo
    <3> QED  BY <1>0, <1>3, <2>1, <3>1, AnswerSilent
  <2>3. ~Accepted(followers'[t][f])
    BY <1>0, <1>3 DEF ReceiveUndo, TypeOK, Accepted
  <2> QED  BY <1>3, <2>2, <2>3 DEF ReceiveUndo, Unanswered, Accepted
<1>4. ASSUME NEW u \in Server, NEW g \in Server, u # g,
             NEW i \in DOMAIN channel[u][g], ReceiveAccept(u, g, i)
      PROVE Unanswered(f, t)'
  <2>1. <<>> \in Seq(Silent)  BY EmptySeq
  <2>2. Silenced
    <3>1. Answer(u, g, i, <<>>)  BY <1>4 DEF ReceiveAccept
    <3> QED  BY <1>0, <1>4, <2>1, <3>1, AnswerSilent
  <2>3. ~(u = t /\ g = f)
    <3>1. channel[u][g][i] = "Accept"  BY <1>4 DEF ReceiveAccept, Taken
    <3>2. u = t /\ g = f => channel[u][g][i] \in Silent
      BY <1>0, ElementOfSeq, LenProperties
    <3> QED  BY <3>1, <3>2 DEF Silent
  <2>4. ~(inbox'[f].pc = "accept" /\ inbox'[f].peer = t)
    BY <1>4, <2>3 DEF ReceiveAccept, Unanswered, TypeOK
  <2> QED  BY <1>4, <2>2, <2>4 DEF ReceiveAccept, Unanswered, Accepted, tables
<1>5. ASSUME NEW u \in Server, NEW g \in Server, u # g,
             NEW i \in DOMAIN channel[u][g], ReceiveReject(u, g, i)
      PROVE Unanswered(f, t)'
  <2>1. <<>> \in Seq(Silent)  BY EmptySeq
  <2>2. Silenced
    <3>1. Answer(u, g, i, <<>>)  BY <1>5 DEF ReceiveReject
    <3> QED  BY <1>0, <1>5, <2>1, <3>1, AnswerSilent
  <2>3. ~Accepted(following'[f][t])
    <3>1. CASE u = t /\ g = f
      <4>1. following'[f][t] = IF following[f][t] = None THEN None
                               ELSE [following[f][t] EXCEPT !.state = "rejected"]
        BY <1>5, <3>1 DEF ReceiveReject, TypeOK
      <4>2. \A row \in Row : [row EXCEPT !.state = "rejected"].state = "rejected"
        BY DEF Row
      <4> QED  BY <1>0, <4>1, <4>2 DEF Accepted
    <3>2. CASE ~(u = t /\ g = f)
      BY <1>0, <1>5, <3>2 DEF ReceiveReject, TypeOK
    <3> QED  BY <3>1, <3>2
  <2> QED  BY <1>5, <2>2, <2>3 DEF ReceiveReject, Unanswered, Accepted
<1>6. ASSUME NEW g \in Server, SaveAccept(g)  PROVE Unanswered(f, t)'
  <2>1. inbox[g].peer \in Server /\ ~(g = f /\ inbox[g].peer = t)
    <3>1. inbox[g].pc = "accept"  BY <1>6 DEF SaveAccept
    <3>2. inbox[g] \in InboxRow  BY DEF TypeOK
    <3>3. inbox[g] \in [pc : {"accept"}, peer : Server, inst : Row]
      BY <3>1, <3>2 DEF InboxRow, Idle
    <3>4. inbox[g].peer \in Server  BY <3>3
    <3> QED  BY <3>1, <3>4 DEF Unanswered
  <2>2. following'[f][t] = following[f][t]
    BY <1>6, <2>1 DEF SaveAccept, TypeOK
  <2>3. ~(inbox'[f].pc = "accept" /\ inbox'[f].peer = t)
    BY <1>6 DEF SaveAccept, Unanswered, TypeOK, Idle
  <2> QED  BY <1>6, <2>2, <2>3 DEF SaveAccept, Unanswered, Accepted
<1>7. ASSUME NEW k \in Admin, Unfollow(k)  PROVE Unanswered(f, t)'
  <2>1. admin[k].at \in Server /\ admin[k].peer \in Server
    BY <1>7, AdminTyped DEF Unfollow, Idle
  <2>2. Silenced
    <3>1. CASE Post(admin[k].at, admin[k].peer, "Undo")
      BY <1>0, <2>1, <3>1, PostSilent DEF Activity
    <3>2. CASE UNCHANGED channel  BY <1>0, <3>2
    <3> QED  BY <1>7, <3>1, <3>2 DEF Unfollow
  <2>3. ~Accepted(following'[f][t])
    <3>1. CASE admin[k].at = f /\ admin[k].peer = t
      BY <1>0, <1>7, <3>1, SaveKeepsRefusal DEF Unfollow, TypeOK
    <3>2. CASE ~(admin[k].at = f /\ admin[k].peer = t)
      BY <1>0, <1>7, <2>1, <3>2 DEF Unfollow, TypeOK
    <3> QED  BY <3>1, <3>2
  <2>4. NotAdmin  BY <1>7 DEF Unfollow, Unanswered, TypeOK, Idle
  <2> QED  BY <1>7, <2>2, <2>3, <2>4 DEF Unfollow, Unanswered, Accepted
<1>8. ASSUME NEW k \in Admin, RejectSave(k) \/ AcceptSave(k) \/ RemoveDestroy(k)
      PROVE Unanswered(f, t)'
  <2>1. admin[k].at \in Server /\ admin[k].peer \in Server
    BY <1>8, AdminTyped DEF RejectSave, AcceptSave, RemoveDestroy, Idle
  <2>2. ~Accepted(followers'[t][f])
    <3>1. CASE ~(admin[k].at = t /\ admin[k].peer = f)
      <4>1. followers'[t][f] = followers[t][f]
        <5>1. CASE RejectSave(k)  BY <2>1, <3>1, <5>1 DEF RejectSave, TypeOK
        <5>2. CASE AcceptSave(k)  BY <2>1, <3>1, <5>2 DEF AcceptSave, TypeOK
        <5>3. CASE RemoveDestroy(k)  BY <2>1, <3>1, <5>3 DEF RemoveDestroy, TypeOK
        <5> QED  BY <1>8, <5>1, <5>2, <5>3
      <4> QED  BY <1>0, <4>1
    <3>2. CASE admin[k].at = t /\ admin[k].peer = f
      <4>1. ~AcceptSave(k)  BY <3>2 DEF AcceptSave, Unanswered
      <4>2. CASE RejectSave(k)
        BY <1>0, <3>2, <4>2, SaveKeepsRefusal DEF RejectSave, TypeOK
      <4>3. CASE RemoveDestroy(k)
        BY <1>0, <3>2, <4>3, SaveKeepsRefusal DEF RemoveDestroy, TypeOK
      <4> QED  BY <1>8, <4>1, <4>2, <4>3
    <3> QED  BY <3>1, <3>2
  <2>3. NotAdmin
    <3>1. CASE RejectSave(k)
      <4>1. admin[k] \in AdminRow /\ admin[k] # Idle
        BY <3>1, AdminTyped DEF RejectSave, TypeOK, Idle
      <4>2. [admin[k] EXCEPT !.pc = "rejectSend"].pc = "rejectSend"
        BY <4>1 DEF AdminRow
      <4> QED  BY <3>1, <4>2 DEF RejectSave, Unanswered, TypeOK
    <3>2. CASE AcceptSave(k) \/ RemoveDestroy(k)
      <4>1. admin' = [admin EXCEPT ![k] = Idle]
        BY <3>2 DEF AcceptSave, RemoveDestroy
      <4> QED  BY <4>1 DEF Unanswered, TypeOK, Idle
    <3> QED  BY <1>8, <3>1, <3>2
  <2> QED
    BY <1>8, <2>2, <2>3 DEF RejectSave, AcceptSave, RemoveDestroy, Unanswered,
                            Accepted
<1>9. ASSUME NEW k \in Admin, RejectSend(k)  PROVE Unanswered(f, t)'
  <2>1. admin[k].at \in Server /\ admin[k].peer \in Server
    BY <1>9, AdminTyped DEF RejectSend, Idle
  <2>2. Silenced  BY <1>0, <1>9, <2>1, PostSilent DEF RejectSend, Activity
  <2>3. NotAdmin  BY <1>9 DEF RejectSend, Unanswered, TypeOK, Idle
  <2> QED  BY <1>9, <2>2, <2>3 DEF RejectSend, Unanswered, Accepted, tables
<1> QED
  BY <1>1, <1>2, <1>3, <1>4, <1>5, <1>6, <1>7, <1>8, <1>9 DEF Work, Pair

\* Only acceptFollower does, and then the pair is in approved.
LEMMA EnvironmentUnanswered ==
    ASSUME TypeOK, Environment, NEW f \in Server, NEW t \in ManualApproval,
           t \in Server, f # t, <<f, t>> \notin approved', Unanswered(f, t)
    PROVE  Unanswered(f, t)'
<1> DEFINE Silenced == channel'[t][f] \in Seq(Silent)
           NotAdmin == \A k \in Admin : ~(/\ admin'[k].pc = "acceptSave"
                                          /\ admin'[k].at = t
                                          /\ admin'[k].peer = f)
<1>0. /\ ~Accepted(following[f][t]) /\ ~Accepted(followers[t][f])
      /\ channel[t][f] \in Seq(Silent)
  BY DEF Unanswered
<1>1. ASSUME NEW g \in Server, NEW u \in Server, AddFollow(g, u)
      PROVE Unanswered(f, t)'
  BY <1>1 DEF AddFollow, Unanswered, Accepted, tables
<1>2. ASSUME NEW g \in Server, NEW u \in Server, RemoveBadActorFollow(g, u)
      PROVE Unanswered(f, t)'
  <2>1. ~Accepted(following'[f][t]) /\ ~Accepted(followers'[t][f])
    <3>1. CASE /\ following' = [following EXCEPT ![g][u] = None]
               /\ UNCHANGED followers
      BY <1>0, <3>1 DEF TypeOK, Accepted
    <3>2. CASE /\ followers' = [followers EXCEPT ![g][u] = None]
               /\ UNCHANGED following
      BY <1>0, <3>2 DEF TypeOK, Accepted
    <3> QED  BY <1>2, <3>1, <3>2 DEF RemoveBadActorFollow
  <2> QED  BY <1>2, <2>1 DEF RemoveBadActorFollow, Unanswered, Accepted
<1>3. ASSUME NEW g \in Server, NEW u \in Server, g # u, FollowRolledBack(g, u)
      PROVE Unanswered(f, t)'
  <2>1. ~(g = f /\ u = t)
    <3>1. <<"Accept">> \notin Seq(Silent)
      BY ElementOfSeq, LenProperties DEF Silent
    <3>2. FollowAnswer(g, u) = <<"Accept">>  BY <1>3 DEF FollowRolledBack
    <3> QED  BY <1>0, <3>1, <3>2, FollowSilent
  <2>2. Silenced
    <3>1. Post(u, g, "Accept")  BY <1>3 DEF FollowRolledBack
    <3> QED  BY <1>0, <2>1, <3>1, PostSilent DEF Activity
  <2> QED  BY <1>3, <2>2 DEF FollowRolledBack, Unanswered, Accepted, tables
<1>4. ASSUME NEW g \in Server, NEW u \in Server, g # u, RefuseFollow(g, u)
      PROVE Unanswered(f, t)'
  <2>1. channel[g][u] \in Seq(Activity) /\ channel[g][u] # <<>>
    BY <1>4 DEF RefuseFollow, TypeOK
  <2>2. 1 \in DOMAIN channel[g][u]  BY <2>1, EmptySeq, LenProperties
  <2>3. <<"Reject">> \in Seq(Silent)  BY DEF Silent, Activity
  <2>4. Silenced
    <3>1. Answer(g, u, 1, <<"Reject">>)  BY <1>4 DEF RefuseFollow
    <3> QED  BY <1>0, <1>4, <2>2, <2>3, <3>1, AnswerSilent
  <2> QED  BY <1>4, <2>4 DEF RefuseFollow, Unanswered, Accepted, tables
<1>5. ASSUME NEW g \in Server, NEW u \in Server, NEW i \in DOMAIN channel[g][u],
             Lose(g, u, i)
      PROVE Unanswered(f, t)'
  <2>1. Silenced
    <3>1. channel' = [channel EXCEPT ![g][u] = RemoveAt(channel[g][u], i)]
      BY <1>5 DEF Lose
    <3>2. CASE g = t /\ u = f
      <4>1. RemoveAt(channel[t][f], i) \in Seq(Silent)
        BY <1>0, <3>2, RemoveAtTyped
      <4> QED  BY <3>1, <3>2, <4>1 DEF TypeOK
    <3>3. CASE ~(g = t /\ u = f)  BY <1>0, <3>1, <3>3 DEF TypeOK
    <3> QED  BY <3>2, <3>3
  <2> QED  BY <1>5, <2>1 DEF Lose, Unanswered, Accepted, tables
<1>6. ASSUME NEW g \in Server, NEW u \in Server, NEW k \in Admin,
             StartUnfollow(k, g, u)
      PROVE Unanswered(f, t)'
  <2>1. NotAdmin  BY <1>6 DEF StartUnfollow, Load, Unanswered, TypeOK
  <2> QED  BY <1>6, <2>1 DEF StartUnfollow, Unanswered, Accepted, tables
<1>7. ASSUME NEW u \in Server, NEW g \in Server, NEW k \in Admin,
             StartReject(k, u, g) \/ StartRemove(k, u, g)
      PROVE Unanswered(f, t)'
  <2>1. NotAdmin
    <3>1. \A j \in Admin :
            admin'[j] = admin[j] \/ admin'[j].pc \in {"rejectSave", "remove"}
      <4>1. \A label, row : Load(k, u, g, label, row) =>
              \A j \in Admin : admin'[j] = admin[j] \/ admin'[j].pc = label
        BY DEF Load, TypeOK
      <4>2. CASE StartReject(k, u, g)
        <5>1. Load(k, u, g, "rejectSave", followers[u][g])
          BY <4>2 DEF StartReject
        <5> QED  BY <4>1, <5>1
      <4>3. CASE StartRemove(k, u, g)
        <5>1. Load(k, u, g, "remove", followers[u][g])  BY <4>3 DEF StartRemove
        <5> QED  BY <4>1, <5>1
      <4> QED  BY <1>7, <4>2, <4>3
    <3> QED  BY <3>1 DEF Unanswered
  <2>2. Silenced
    <3>1. CASE Post(u, g, "Reject")  BY <1>0, <3>1, PostSilent DEF Activity
    <3>2. CASE UNCHANGED channel  BY <1>0, <3>2
    <3> QED  BY <1>7, <3>1, <3>2 DEF StartReject, StartRemove
  <2> QED
    BY <1>7, <2>1, <2>2 DEF StartReject, StartRemove, Unanswered, Accepted, tables
<1>8. ASSUME NEW u \in Server, NEW g \in Server, NEW k \in Admin,
             StartAccept(k, u, g)
      PROVE Unanswered(f, t)'
  <2>1. ~(g = f /\ u = t)  BY <1>8 DEF StartAccept
  <2>2. NotAdmin  BY <1>8, <2>1 DEF StartAccept, Load, Unanswered, TypeOK
  <2>3. Silenced
    <3>1. Post(u, g, "Accept")  BY <1>8 DEF StartAccept
    <3> QED  BY <1>0, <2>1, <3>1, PostSilent DEF Activity
  <2> QED  BY <1>8, <2>2, <2>3 DEF StartAccept, Unanswered, Accepted, tables
<1>9. ASSUME NEW s \in Server, Restart(s)  PROVE Unanswered(f, t)'
  <2>1. NotAdmin
    <3>1. \A k \in Admin : admin'[k] = Idle \/ admin'[k] = admin[k]
      BY <1>9 DEF Restart
    <3> QED  BY <3>1 DEF Unanswered, Idle
  <2>2. ~(inbox'[f].pc = "accept" /\ inbox'[f].peer = t)
    BY <1>9 DEF Restart, Unanswered, TypeOK, Idle
  <2> QED  BY <1>9, <2>1, <2>2 DEF Restart, Unanswered, Accepted, tables
<1> QED
  BY <1>1, <1>2, <1>3, <1>4, <1>5, <1>6, <1>7, <1>8, <1>9 DEF Environment, Pair

\* A server that approves its followers by hand has no follower that none of
\* its administrators accepted, in its own table or in the follower's,
\* whatever activities are lost, repeated or overtaken and wherever a server
\* restarts.
THEOREM OnlyApprovedFollow == Spec => []ApprovedByHand
<1>1. Init => ApprovalInv
  <2> SUFFICES ASSUME Init, NEW f \in Server, NEW t \in Server
               PROVE  Unanswered(f, t)
    BY DEF ApprovalInv
  <2>1. channel[t][f] \in Seq(Silent)  BY EmptySeq DEF Init
  <2> QED  BY <2>1 DEF Init, Unanswered, Accepted, Idle
<1>2. TypeOK /\ ApprovalInv /\ [Next]_vars => ApprovalInv'
  <2> SUFFICES ASSUME TypeOK, ApprovalInv, [Next]_vars,
                      NEW f \in Server, NEW t \in Server, f # t,
                      t \in ManualApproval, <<f, t>> \notin approved'
               PROVE  Unanswered(f, t)'
    BY DEF ApprovalInv
  <2>1. approved \subseteq approved'
    BY Zenon DEF Next, Work, Environment, vars, history, tables, FollowJob,
       ReceiveFollow, ReceiveUndo, ReceiveAccept, ReceiveReject, SaveAccept,
       Unfollow, RejectSave, RejectSend, AcceptSave, RemoveDestroy, AddFollow,
       RemoveBadActorFollow, FollowRolledBack, RefuseFollow, Lose, StartUnfollow,
       StartReject, StartAccept, StartRemove, Restart
  <2>2. Unanswered(f, t)  BY <2>1 DEF ApprovalInv
  <2>3. CASE Work  BY <2>2, <2>3, WorkUnanswered
  <2>4. CASE Environment  BY <2>2, <2>4, EnvironmentUnanswered
  <2>5. CASE UNCHANGED vars
    BY <2>2, <2>5 DEF vars, tables, history, Unanswered, Accepted
  <2> QED  BY <2>3, <2>4, <2>5 DEF Next
<1>3. ApprovalInv => ApprovedByHand
  BY DEF ApprovalInv, Unanswered, ApprovedByHand, Pair
<1> QED  BY <1>1, <1>2, <1>3, TypeInvariant, PTL DEF Spec

-----------------------------------------------------------------------------
(* Agreement: what the rows, the activities on their way, the inbox of the  *)
(* follower and the requests at the target say together while the history   *)
(* is orderly.                                                              *)

Asking == {"Follow", "Undo"}

Answering == {"Accept", "Reject"}

\* No activity of A is on its way; the last one that is, is a.
Free(c, A) == \A i \in DOMAIN c : c[i] \notin A

Newest(c, A, a) ==
    \E i \in DOMAIN c :
        c[i] = a /\ \A j \in DOMAIN c : j > i => c[j] \notin A

\* Request k works on the row of peer at s, at a label of L.
Works(k, s, peer) ==
    admin[k] # Idle /\ admin[k].at = s /\ admin[k].peer = peer

Doing(s, peer, L) == \E k \in Admin : Works(k, s, peer) /\ admin[k].pc \in L

\* The follower's row is accepted, or processAccept is about to save that.
Becomes(f, t) ==
    \/ Accepted(following[f][t])
    \/ /\ inbox[f].pc = "accept" /\ inbox[f].peer = t
       /\ following[f][t] # None /\ inbox[f].inst.id = following[f][t].id

\* The target's row is accepted once the request that holds it is over.
Follows(f, t) ==
    \/ Doing(t, f, {"acceptSave"})
    \/ Accepted(followers[t][f]) /\ ~Doing(t, f, {"rejectSave", "remove"})

\* The follower's row is what it asked for last, and so is the target's when
\* that has arrived.
Asked(f, t) ==
    /\ Newest(channel[f][t], Asking, "Undo") => following[f][t] = None
    /\ Newest(channel[f][t], Asking, "Follow") => following[f][t] # None
    /\ Free(channel[f][t], Asking) /\ following[f][t] = None
         => followers[t][f] = None

\* The last answer on its way is true of the target's row; without one the
\* follower's row is as the last answer left it.  A target that approves by hand
\* does not answer every Follow: there it holds before the Follow arrives too.
Answered(f, t) ==
    /\ following[f][t] # None
    /\ t \in ManualApproval \/ Free(channel[f][t], Asking)
    /\ ~Doing(t, f, {"rejectSave", "rejectSend"})
    =>
    /\ Newest(channel[t][f], Answering, "Accept") => Follows(f, t)
    /\ Newest(channel[t][f], Answering, "Reject") => ~Follows(f, t)
    /\ Free(channel[t][f], Answering) => (Becomes(f, t) <=> Follows(f, t))

PairInv(f, t) == Asked(f, t) /\ Answered(f, t)

\* A target that approves by hand saw the last Undo before it is asked again.
Lasting == Activity \ {"Undo"}

NotUndone(f, t) ==
    t \in ManualApproval /\ following[f][t] # None
      => channel[f][t] \in Seq(Lasting)

\* The primary keys of the rows a follower has and works on were given.
Given ==
    /\ \A f, t \in Server :
         following[f][t] # None => following[f][t].id <= lastId
    /\ \A f \in Server :
         inbox[f].pc = "accept" => inbox[f].inst.id <= lastId

\* One request at a time works on a row, and the row is the one it loaded.
Alone ==
    \A s, peer \in Server : \A k, l \in Admin :
        Works(k, s, peer) /\ Works(l, s, peer) => k = l

Loaded(k) ==
    LET mine == following[admin[k].at][admin[k].peer]
        theirs == followers[admin[k].at][admin[k].peer]
    IN /\ admin[k].pc = "unfollow" =>
             /\ mine # None /\ mine.id = admin[k].inst.id
             /\ admin[k].inst.state = "accepted"
       /\ admin[k].pc \in {"rejectSave", "acceptSave", "remove"} =>
             theirs # None /\ theirs.id = admin[k].inst.id
       /\ admin[k].pc = "rejectSend" =>
             theirs # None /\ theirs.state = "rejected"

AgreeInv ==
    orderly => /\ Given
               /\ Alone /\ \A k \in Admin : admin[k] # Idle => Loaded(k)
               /\ \A f, t \in Server :
                    f # t => PairInv(f, t) /\ NotUndone(f, t)

\* Of the activities of A, none came and none went.
Passes(new, old, A) ==
    /\ Free(new, A) => Free(old, A)
    /\ \A a \in A : Newest(new, A, a) => Newest(old, A, a)

\* A post is the last of its kind, and not seen among the others.
LEMMA PostedIsNewest ==
    ASSUME NEW c \in Seq(Activity), NEW a \in Activity, NEW A
    PROVE  /\ a \in A => /\ ~Free(Append(c, a), A)
                         /\ \A b : Newest(Append(c, a), A, b) => b = a
           /\ a \notin A => Passes(Append(c, a), c, A)
<1> DEFINE d == Append(c, a)
           n == Len(c)
<1>1. /\ n \in Nat /\ DOMAIN c = 1 .. n
      /\ d \in Seq(Activity) /\ DOMAIN d = 1 .. n + 1
      /\ d[n + 1] = a /\ \A i \in 1 .. n : d[i] = c[i]
  BY AppendProperties, LenProperties
<1> HIDE DEF d, n
<1>2. ASSUME a \in A
      PROVE  ~Free(d, A) /\ \A b : Newest(d, A, b) => b = a
  <2>1. n + 1 \in DOMAIN d  BY <1>1
  <2>2. ~Free(d, A)  BY <1>1, <1>2, <2>1 DEF Free
  <2>3. ASSUME NEW b, Newest(d, A, b) PROVE b = a
    <3>1. PICK i \in DOMAIN d :
             d[i] = b /\ \A j \in DOMAIN d : j > i => d[j] \notin A
      BY <2>3 DEF Newest
    <3>2. ~(n + 1 > i)  BY <1>1, <1>2, <2>1, <3>1
    <3>3. i = n + 1  BY <1>1, <3>1, <3>2
    <3> QED  BY <1>1, <3>1, <3>3
  <2> QED  BY <2>2, <2>3
<1>3. ASSUME a \notin A PROVE Passes(d, c, A)
  <2>1. Free(d, A) => Free(c, A)
    <3>1. \A i \in DOMAIN c : i \in DOMAIN d /\ d[i] = c[i]  BY <1>1
    <3> QED  BY <3>1 DEF Free
  <2>2. ASSUME NEW b \in A, Newest(d, A, b) PROVE Newest(c, A, b)
    <3>1. PICK i \in DOMAIN d :
             d[i] = b /\ \A j \in DOMAIN d : j > i => d[j] \notin A
      BY <2>2 DEF Newest
    <3>2. i # n + 1  BY <1>1, <1>3, <2>2, <3>1
    <3>3. i \in DOMAIN c /\ c[i] = b  BY <1>1, <3>1, <3>2
    <3>4. \A j \in DOMAIN c : j > i => c[j] \notin A  BY <1>1, <3>1
    <3> QED  BY <3>3, <3>4 DEF Newest
  <2> QED  BY <2>1, <2>2 DEF Passes
<1> QED  BY <1>2, <1>3 DEF d

\* What was taken first was the only one of its kind when none is left.
LEMMA TakenWasFirst ==
    ASSUME NEW c \in Seq(Activity), 1 \in DOMAIN c, NEW A
    PROVE  /\ \A b : Newest(RemoveAt(c, 1), A, b) => Newest(c, A, b)
           /\ Free(RemoveAt(c, 1), A) =>
                IF c[1] \in A THEN Newest(c, A, c[1]) ELSE Free(c, A)
<1> DEFINE d == RemoveAt(c, 1)
           n == Len(c)
<1>1. n \in Nat \ {0} /\ DOMAIN c = 1 .. n  BY LenProperties
<1>2. DOMAIN d = 1 .. n - 1 /\ \A i \in 1 .. n - 1 : d[i] = c[i + 1]
  <2>1. SubSeq(c, 1, 1 - 1) = <<>>  BY SubSeqEmpty
  <2>2. \A i \in 2 .. n : c[i] \in Activity  BY <1>1, ElementOfSeq
  <2>3. /\ SubSeq(c, 2, n) \in Seq(Activity)
        /\ Len(SubSeq(c, 2, n)) = n - 1
        /\ \A i \in 1 .. n - 1 : SubSeq(c, 2, n)[i] = c[i + 1]
    <3>1. 2 \in Int /\ n \in Int  BY <1>1
    <3>2. /\ SubSeq(c, 2, n) \in Seq(Activity)
          /\ Len(SubSeq(c, 2, n)) = IF 2 <= n THEN n - 2 + 1 ELSE 0
          /\ \A i \in 1 .. n - 2 + 1 : SubSeq(c, 2, n)[i] = c[2 + i - 1]
      BY <2>2, <3>1, SubSeqProperties
    <3> QED  BY <1>1, <3>2
  <2>4. d = SubSeq(c, 2, n)
    <3>1. d = SubSeq(c, 1, 1 - 1) \o SubSeq(c, 1 + 1, n)  BY DEF RemoveAt
    <3>2. d = <<>> \o SubSeq(c, 2, n)  BY <2>1, <3>1
    <3> HIDE DEF d
    <3> QED  BY <2>3, <3>2, ConcatEmptySeq
  <2> QED  BY <2>3, <2>4, LenProperties
<1> HIDE DEF d, n
<1>3. ASSUME NEW b, Newest(d, A, b) PROVE Newest(c, A, b)
  <2>1. PICK i \in DOMAIN d :
           d[i] = b /\ \A j \in DOMAIN d : j > i => d[j] \notin A
    BY <1>3 DEF Newest
  <2>2. i + 1 \in DOMAIN c /\ c[i + 1] = b  BY <1>1, <1>2, <2>1
  <2>3. ASSUME NEW j \in DOMAIN c, j > i + 1 PROVE c[j] \notin A
    <3>1. j - 1 \in DOMAIN d /\ j - 1 > i /\ d[j - 1] = c[j]
      BY <1>1, <1>2, <2>1, <2>3
    <3> QED  BY <2>1, <3>1
  <2> QED  BY <2>2, <2>3 DEF Newest
<1>4. ASSUME Free(d, A), NEW j \in DOMAIN c, j > 1 PROVE c[j] \notin A
  <2>1. j - 1 \in DOMAIN d /\ d[j - 1] = c[j]  BY <1>1, <1>2, <1>4
  <2> QED  BY <1>4, <2>1 DEF Free
<1>5. ASSUME Free(d, A)
      PROVE  IF c[1] \in A THEN Newest(c, A, c[1]) ELSE Free(c, A)
  <2>1. \A j \in DOMAIN c : j = 1 \/ j > 1  BY <1>1
  <2> QED  BY <1>4, <1>5, <2>1 DEF Newest, Free
<1> QED  BY <1>3, <1>5 DEF d

\* A list of one activity is a post.
LEMMA ConcatOne ==
    ASSUME NEW c \in Seq(Activity), NEW a \in Activity
    PROVE  c \o <<a>> = Append(c, a) /\ c \o <<>> = c
BY AppendIsConcat, ConcatEmptySeq


\* What a post and an answer do to the channel from f to t.
LEMMA PostOf ==
    ASSUME TypeOK, NEW s \in Server, NEW d \in Server, NEW a, Post(s, d, a),
           NEW f \in Server, NEW t \in Server
    PROVE  channel'[f][t] = IF s = f /\ d = t THEN Append(channel[f][t], a)
                                              ELSE channel[f][t]
BY DEF Post, TypeOK

\* The same of an activity taken first and its answers.
LEMMA AnswerOf ==
    ASSUME TypeOK, NEW s \in Server, NEW d \in Server, s # d, NEW answers,
           Answer(s, d, 1, answers), NEW f \in Server, NEW t \in Server, f # t
    PROVE  /\ s = f /\ d = t => channel'[f][t] = RemoveAt(channel[f][t], 1)
           /\ s = t /\ d = f => channel'[f][t] = channel[f][t] \o answers
           /\ ~(s = f /\ d = t) /\ ~(s = t /\ d = f)
                => channel'[f][t] = channel[f][t]
BY DEF Answer, TypeOK

\* Activities of the other kind pass unseen.
LEMMA PostPasses ==
    ASSUME TypeOK, NEW s \in Server, NEW d \in Server, NEW a \in Activity,
           Post(s, d, a), NEW f \in Server, NEW t \in Server, NEW A,
           s = f /\ d = t => a \notin A
    PROVE  Passes(channel'[f][t], channel[f][t], A)
<1>1. channel[f][t] \in Seq(Activity)  BY DEF TypeOK
<1>2. CASE s = f /\ d = t  BY <1>1, <1>2, PostOf, PostedIsNewest
<1>3. CASE ~(s = f /\ d = t)  BY <1>3, PostOf DEF Passes
<1> QED  BY <1>2, <1>3

\* Neither is an activity of the other kind seen when it is taken or answered
\* with.
LEMMA AnswerPasses ==
    ASSUME TypeOK, NEW s \in Server, NEW d \in Server, s # d,
           1 \in DOMAIN channel[s][d], NEW answers, Answer(s, d, 1, answers),
           NEW f \in Server, NEW t \in Server, f # t, NEW A,
           s = f /\ d = t => channel[s][d][1] \notin A,
           s = t /\ d = f =>
             answers = <<>> \/ \E a \in Activity \ A : answers = <<a>>
    PROVE  Passes(channel'[f][t], channel[f][t], A)
<1>1. channel[f][t] \in Seq(Activity)  BY DEF TypeOK
<1>2. CASE s = f /\ d = t
  BY <1>1, <1>2, AnswerOf, TakenWasFirst DEF Passes
<1>3. CASE s = t /\ d = f
  <2>0. channel'[d][s] = channel[d][s] \o answers  BY AnswerOf
  <2>1. channel'[f][t] = channel[f][t] \o answers  BY <1>3, <2>0
  <2>2. CASE answers = <<>>
    BY <1>1, <2>1, <2>2, ConcatEmptySeq DEF Passes
  <2>3. ASSUME NEW a \in Activity \ A, answers = <<a>>
        PROVE  Passes(channel'[f][t], channel[f][t], A)
    <3>1. channel'[f][t] = Append(channel[f][t], a)
      BY <1>1, <2>1, <2>3, ConcatOne
    <3> QED  BY <1>1, <3>1, PostedIsNewest
  <2> QED  BY <1>3, <2>2, <2>3
<1>4. CASE ~(s = f /\ d = t) /\ ~(s = t /\ d = f)
  BY <1>4, AnswerOf DEF Passes
<1> QED  BY <1>2, <1>3, <1>4

\* An activity taken first: what its channel says of it.
LEMMA AnswerTakes ==
    ASSUME TypeOK, NEW s \in Server, NEW d \in Server, s # d,
           1 \in DOMAIN channel[s][d], NEW answers, Answer(s, d, 1, answers),
           NEW A, channel[s][d][1] \in A
    PROVE  /\ \A b : Newest(channel'[s][d], A, b) => Newest(channel[s][d], A, b)
           /\ Free(channel'[s][d], A) =>
                Newest(channel[s][d], A, channel[s][d][1])
<1>1. channel[s][d] \in Seq(Activity)  BY DEF TypeOK
<1>2. channel'[s][d] = RemoveAt(channel[s][d], 1)  BY AnswerOf
<1> QED  BY <1>1, <1>2, TakenWasFirst

\* An activity posted, or answered with: it is the newest of its kind.
LEMMA PostAdds ==
    ASSUME TypeOK, NEW s \in Server, NEW d \in Server, NEW a \in Activity,
           Post(s, d, a), NEW A, a \in A
    PROVE  /\ ~Free(channel'[s][d], A)
           /\ \A b : Newest(channel'[s][d], A, b) => b = a
<1>1. channel[s][d] \in Seq(Activity)  BY DEF TypeOK
<1> QED  BY <1>1, PostOf, PostedIsNewest

\* So is the activity one is answered with, on the way back.
LEMMA AnswerAdds ==
    ASSUME TypeOK, NEW s \in Server, NEW d \in Server, s # d,
           NEW a \in Activity, Answer(s, d, 1, <<a>>), NEW A, a \in A
    PROVE  /\ ~Free(channel'[d][s], A)
           /\ \A b : Newest(channel'[d][s], A, b) => b = a
<1>1. channel[d][s] \in Seq(Activity)  BY DEF TypeOK
<1>2. channel'[d][s] = channel[d][s] \o <<a>>  BY AnswerOf
<1>3. channel'[d][s] = Append(channel[d][s], a)  BY <1>1, <1>2, ConcatOne
<1> QED  BY <1>1, <1>3, PostedIsNewest

-----------------------------------------------------------------------------
(* Requests of administrators.                                              *)

TargetPC == {"rejectSave", "rejectSend", "acceptSave", "remove"}

\* A request that starts is one more on its row.
LEMMA LoadWorks ==
    ASSUME TypeOK, NEW k \in Admin, NEW s, NEW peer, NEW label, NEW row,
           label # "idle", Load(k, s, peer, label, row)
    PROVE  /\ \A x, y : \A l \in Admin :
                Works(l, x, y)' <=> Works(l, x, y) \/ (l = k /\ s = x /\ peer = y)
           /\ \A x, y, L : Doing(x, y, L)' <=>
                Doing(x, y, L) \/ (s = x /\ peer = y /\ label \in L)
           /\ admin[k] = Idle
           /\ admin'[k] = [pc |-> label, at |-> s, peer |-> peer, inst |-> row]
           /\ \A l \in Admin \ {k} : admin'[l] = admin[l]
<1>1. /\ admin[k] = Idle
      /\ admin'[k] = [pc |-> label, at |-> s, peer |-> peer, inst |-> row]
      /\ \A l \in Admin \ {k} : admin'[l] = admin[l]
  BY DEF Load, TypeOK
<1>2. admin'[k] # Idle /\ admin'[k].pc = label /\ admin'[k].at = s
      /\ admin'[k].peer = peer
  BY <1>1 DEF Idle
<1>3. \A x, y : \A l \in Admin :
        Works(l, x, y)' <=> Works(l, x, y) \/ (l = k /\ s = x /\ peer = y)
  BY <1>1, <1>2 DEF Works
<1>4. ASSUME NEW x, NEW y, NEW L
      PROVE  Doing(x, y, L)' <=>
               Doing(x, y, L) \/ (s = x /\ peer = y /\ label \in L)
  <2>1. ASSUME NEW l \in Admin
        PROVE  Works(l, x, y)' /\ admin'[l].pc \in L
               <=> \/ Works(l, x, y) /\ admin[l].pc \in L
                   \/ l = k /\ s = x /\ peer = y /\ label \in L
    <3>1. CASE l = k  BY <1>1, <1>2, <3>1 DEF Works
    <3>2. CASE l # k  BY <1>1, <3>2 DEF Works
    <3> QED  BY <3>1, <3>2
  <2> QED  BY <2>1 DEF Doing
<1> QED  BY <1>1, <1>3, <1>4

\* A request that ends was the only one on its row.
LEMMA EndWorks ==
    ASSUME TypeOK, Alone, NEW k \in Admin, admin[k] # Idle,
           admin' = [admin EXCEPT ![k] = Idle]
    PROVE  /\ \A x, y : \A l \in Admin :
                Works(l, x, y)' <=> Works(l, x, y) /\ l # k
           /\ \A x, y, L : ~Works(k, x, y) => (Doing(x, y, L)' <=> Doing(x, y, L))
           /\ \A x, y \in Server : Works(k, x, y) =>
                \A L : /\ ~Doing(x, y, L)'
                       /\ Doing(x, y, L) <=> admin[k].pc \in L
<1>1. admin'[k] = Idle /\ \A l \in Admin \ {k} : admin'[l] = admin[l]
  BY DEF TypeOK
<1>2. \A x, y : \A l \in Admin : Works(l, x, y)' <=> Works(l, x, y) /\ l # k
  BY <1>1 DEF Works
<1>3. ASSUME NEW x, NEW y, NEW L, ~Works(k, x, y)
      PROVE  Doing(x, y, L)' <=> Doing(x, y, L)
  <2>1. \A l \in Admin : Works(l, x, y) => l # k /\ admin'[l] = admin[l]
    BY <1>1, <1>3
  <2>2. \A l \in Admin : Works(l, x, y)' /\ admin'[l].pc \in L
                         <=> Works(l, x, y) /\ admin[l].pc \in L
    BY <1>2, <2>1
  <2> QED  BY <2>2 DEF Doing
<1>4. ASSUME NEW x \in Server, NEW y \in Server, Works(k, x, y), NEW L
      PROVE  ~Doing(x, y, L)' /\ (Doing(x, y, L) <=> admin[k].pc \in L)
  <2>1. \A l \in Admin : Works(l, x, y) => l = k  BY <1>4 DEF Alone
  <2>2. \A l \in Admin : ~Works(l, x, y)'  BY <1>2, <2>1
  <2> QED  BY <1>4, <2>1, <2>2 DEF Doing
<1> QED  BY <1>2, <1>3, <1>4

\* rejectFollower between its two statements.
LEMMA RejectWorks ==
    ASSUME TypeOK, Alone, NEW k \in Admin, RejectSave(k)
    PROVE  /\ admin[k] # Idle
           /\ \A x, y : \A l \in Admin : Works(l, x, y)' <=> Works(l, x, y)
           /\ \A x, y, L : ~Works(k, x, y) => (Doing(x, y, L)' <=> Doing(x, y, L))
           /\ \A x, y, L : Works(k, x, y) /\ "rejectSend" \in L => Doing(x, y, L)'
           /\ admin'[k] = [admin[k] EXCEPT !.pc = "rejectSend"]
           /\ admin'[k].pc = "rejectSend"
           /\ \A l \in Admin \ {k} : admin'[l] = admin[l]
<1>1. admin[k] \in AdminRow /\ admin[k] # Idle /\ admin[k].pc = "rejectSave"
  BY AdminTyped DEF RejectSave, TypeOK, Idle
<1>2. /\ admin'[k] = [admin[k] EXCEPT !.pc = "rejectSend"]
      /\ \A l \in Admin \ {k} : admin'[l] = admin[l]
  BY DEF RejectSave, TypeOK
<1>3. /\ admin'[k].pc = "rejectSend" /\ admin'[k].at = admin[k].at
      /\ admin'[k].peer = admin[k].peer
  BY <1>1, <1>2 DEF AdminRow
<1>4. admin'[k] # Idle  BY <1>3 DEF Idle
<1>5. \A x, y : \A l \in Admin : Works(l, x, y)' <=> Works(l, x, y)
  BY <1>1, <1>2, <1>3, <1>4 DEF Works
<1>6. ASSUME NEW x, NEW y, NEW L, ~Works(k, x, y)
      PROVE  Doing(x, y, L)' <=> Doing(x, y, L)
  <2>1. \A l \in Admin : Works(l, x, y)' /\ admin'[l].pc \in L
                         <=> Works(l, x, y) /\ admin[l].pc \in L
    BY <1>2, <1>5, <1>6
  <2> QED  BY <2>1 DEF Doing
<1>7. ASSUME NEW x, NEW y, NEW L, Works(k, x, y), "rejectSend" \in L
      PROVE  Doing(x, y, L)'
  BY <1>3, <1>5, <1>7 DEF Doing
<1> QED  BY <1>1, <1>2, <1>3, <1>5, <1>6, <1>7


-----------------------------------------------------------------------------
(* What a step does to the follow of t by f.                                *)

\* The step is about other follows, or changes nothing the two agree on.
Neutral(f, t) ==
    /\ Passes(channel'[f][t], channel[f][t], Asking)
    /\ Passes(channel'[t][f], channel[t][f], Answering)
    /\ following'[f][t] = following[f][t]
    /\ followers'[t][f] = followers[t][f]
    /\ Becomes(f, t)' <=> Becomes(f, t)
    /\ \A L \in SUBSET TargetPC : Doing(t, f, L)' <=> Doing(t, f, L)

\* What the steps are taken in.
Agreed == TypeOK /\ orderly /\ AgreeInv

\* Such a step keeps the invariant of the pair.
LEMMA NeutralKeeps ==
    ASSUME NEW f, NEW t, PairInv(f, t), Neutral(f, t)
    PROVE  PairInv(f, t)'
<1>1. /\ Doing(t, f, {"acceptSave"})' <=> Doing(t, f, {"acceptSave"})
      /\ Doing(t, f, {"rejectSave", "remove"})'
           <=> Doing(t, f, {"rejectSave", "remove"})
      /\ Doing(t, f, {"rejectSave", "rejectSend"})'
           <=> Doing(t, f, {"rejectSave", "rejectSend"})
  BY DEF Neutral, TargetPC
<1>2. Follows(f, t)' <=> Follows(f, t)
  BY <1>1 DEF Neutral, Follows, Accepted
<1>3. /\ "Undo" \in Asking /\ "Follow" \in Asking
      /\ "Accept" \in Answering /\ "Reject" \in Answering
  BY DEF Asking, Answering
<1>4. Asked(f, t)'
  BY <1>3 DEF PairInv, Asked, Neutral, Passes
<1>5. Answered(f, t)'
  BY <1>1, <1>2, <1>3 DEF PairInv, Answered, Neutral, Passes
<1> QED  BY <1>4, <1>5 DEF PairInv

\* The follower's half, and the requests', of a step that leaves them alone.
LEMMA BecomesSame ==
    ASSUME NEW f, NEW t, following'[f][t] = following[f][t],
           inbox'[f] = inbox[f]
    PROVE  Becomes(f, t)' <=> Becomes(f, t)
BY DEF Becomes, Accepted

\* Without a change of the requests, what they are doing stays.
LEMMA DoingSame ==
    ASSUME admin' = admin
    PROVE  \A x, y, L : Doing(x, y, L)' <=> Doing(x, y, L)
BY DEF Doing, Works

\* No request works on a row that is not held.
LEMMA NobodyHolds ==
    ASSUME NEW x, NEW y, ~Held(x, y)
    PROVE  \A L : ~Doing(x, y, L)
BY DEF Held, Doing, Works

\* The first activity of a channel.
LEMMA FirstOf ==
    ASSUME TypeOK, NEW s \in Server, NEW d \in Server, channel[s][d] # <<>>
    PROVE  1 \in DOMAIN channel[s][d] /\ Head(channel[s][d]) = channel[s][d][1]
<1>1. channel[s][d] \in Seq(Activity)  BY DEF TypeOK
<1> QED  BY <1>1, EmptySeq, LenProperties

\* The target that approves by hand knows nothing of a new follow, and no Accept
\* of an earlier one is on its way.
LEMMA NewFollowAsks ==
    ASSUME Agreed, NEW f \in Server, NEW t \in ManualApproval, t \in Server,
           f # t, FollowJob(f, t), orderly', following[f][t] = None
    PROVE  /\ ~Follows(f, t) /\ Free(channel[f][t], Asking)
           /\ Free(channel[t][f], {"Accept"})
<1>0. TypeOK /\ PairInv(f, t)  BY DEF Agreed, AgreeInv
<1>1. ~FollowsTooEarly(f, t)  BY Zenon DEF FollowJob
<1>2. Free(channel[f][t], Asking) /\ Free(channel[t][f], {"Accept"})
  BY <1>1 DEF FollowsTooEarly, Free, Asking
<1>3. followers[t][f] = None  BY <1>0, <1>2 DEF PairInv, Asked
<1>4. ASSUME NEW k \in Admin, Works(k, t, f), admin[k].pc = "acceptSave"
      PROVE  FALSE
  <2>1. Loaded(k)  BY <1>4 DEF Agreed, AgreeInv, Works
  <2> QED  BY <1>3, <1>4, <2>1 DEF Loaded, Works
<1> QED  BY <1>2, <1>3, <1>4 DEF Follows, Doing, Accepted

\* A new row is pending, and nobody works on it yet.
LEMMA NewRowPends ==
    ASSUME Agreed, NEW f \in Server, NEW t \in Server,
           following'[f][t] = [id |-> lastId + 1, state |-> "pending"],
           inbox' = inbox
    PROVE  ~Becomes(f, t)'
<1>1. following'[f][t].state = "pending" /\ following'[f][t].id = lastId + 1
  OBVIOUS
<1>2. inbox[f].pc = "accept" => inbox[f].inst.id # lastId + 1
  <2> SUFFICES ASSUME inbox[f].pc = "accept" PROVE inbox[f].inst.id # lastId + 1
    OBVIOUS
  <2>1. inbox[f] \in InboxRow /\ inbox[f] # Idle /\ lastId \in Nat
    BY DEF Agreed, TypeOK, Idle
  <2>2. inbox[f].inst \in Row  BY <2>1 DEF InboxRow
  <2>3. inbox[f].inst.id \in Nat  BY <2>2 DEF Row
  <2>4. inbox[f].inst.id <= lastId  BY DEF Agreed, AgreeInv, Given
  <2> QED  BY <2>1, <2>3, <2>4
<1> QED  BY <1>1, <1>2 DEF Becomes, Accepted

\* The activitypub-follow job.
LEMMA FollowJobAgrees ==
    ASSUME Agreed, NEW g \in Server, NEW u \in Server, g # u, FollowJob(g, u),
           orderly', NEW f \in Server, NEW t \in Server, f # t
    PROVE  PairInv(f, t)'
<1> DEFINE new == [id |-> lastId + 1, state |-> "pending"]
<1>0. TypeOK /\ PairInv(f, t)  BY DEF Agreed, AgreeInv
<1>1. inbox' = inbox /\ admin' = admin /\ followers' = followers
  BY DEF FollowJob
<1>2. new \in Row /\ new # None
  <2>1. new \in Row  BY <1>0 DEF TypeOK, Row, FollowState
  <2> QED  BY <2>1, NoneAssumption DEF NoneAssumption
<1>3. following'[f][t] = IF g = f /\ u = t /\ following[f][t] = None
                         THEN new ELSE following[f][t]
  <2> HIDE DEF new
  <2>1. CASE following[g][u] = None
    <3>1. following' = [following EXCEPT ![g][u] = new]
      BY <2>1 DEF FollowJob, new
    <3> QED  BY <1>0, <2>1, <3>1 DEF TypeOK
  <2>2. CASE following[g][u] # None  BY <2>2 DEF FollowJob
  <2> QED  BY <2>1, <2>2
<1> HIDE DEF new
<1>4. Post(g, u, "Follow") \/ channel' = channel  BY DEF FollowJob
<1>5. CASE g = f /\ u = t /\ Asks(f, t)
  <2>1. Post(f, t, "Follow")  BY <1>5 DEF FollowJob
  <2>2. ~Free(channel'[f][t], Asking)
        /\ \A b : Newest(channel'[f][t], Asking, b) => b = "Follow"
    BY <1>0, <2>1, PostAdds DEF Activity, Asking
  <2>3. following'[f][t] # None  BY <1>2, <1>3, <1>5
  <2>4. Asked(f, t)'  BY <2>2, <2>3 DEF Asked
  <2>5. CASE t \notin ManualApproval
    <3>1. Answered(f, t)'  BY <2>2, <2>5 DEF Answered
    <3> QED  BY <2>4, <3>1 DEF PairInv
  <2>6. CASE t \in ManualApproval
    <3>1. channel'[t][f] = channel[t][f]  BY <1>0, <2>1, PostOf DEF Activity
    <3>2. \A L : Doing(t, f, L)' <=> Doing(t, f, L)  BY <1>1, DoingSame
    <3>3. Follows(f, t)' <=> Follows(f, t)
      BY <1>1, <3>2 DEF Follows, Accepted
    <3>4. CASE following[f][t] # None
      <4>1. following'[f][t] = following[f][t]  BY <1>3, <3>4
      <4>2. Becomes(f, t)' <=> Becomes(f, t)  BY <1>1, <4>1, BecomesSame
      <4>3. Answered(f, t)'
        BY <1>0, <2>6, <3>1, <3>2, <3>3, <3>4, <4>1, <4>2 DEF PairInv, Answered
      <4> QED  BY <2>4, <4>3 DEF PairInv
    <3>5. CASE following[f][t] = None
      <4>1. ~Follows(f, t) /\ Free(channel[f][t], Asking)
            /\ Free(channel[t][f], {"Accept"})
        BY <1>5, <2>6, <3>5, NewFollowAsks
      <4>2. ~Becomes(f, t)'  BY <1>1, <1>3, <1>5, <3>5, NewRowPends DEF new
      <4>3. ~Newest(channel'[t][f], Answering, "Accept")
        BY <3>1, <4>1 DEF Newest, Free
      <4>4. Answered(f, t)'  BY <3>3, <4>1, <4>2, <4>3 DEF Answered
      <4> QED  BY <2>4, <4>4 DEF PairInv
    <3> QED  BY <3>4, <3>5
  <2> QED  BY <2>5, <2>6
<1>6. CASE ~(g = f /\ u = t /\ Asks(f, t))
  <2>1. following'[f][t] = following[f][t]  BY <1>3, <1>6 DEF Asks
  <2>2. Passes(channel'[f][t], channel[f][t], Asking)
    <3>1. CASE g = f /\ u = t
      BY <1>6, <3>1 DEF FollowJob, Passes
    <3>2. CASE ~(g = f /\ u = t)
      BY <1>0, <1>4, <3>2, PostPasses DEF Activity, Passes
    <3> QED  BY <3>1, <3>2
  <2>3. Passes(channel'[t][f], channel[t][f], Answering)
    BY <1>0, <1>4, PostPasses DEF Activity, Answering, Passes
  <2>4. Neutral(f, t)
    BY <1>1, <2>1, <2>2, <2>3, BecomesSame, DoingSame DEF Neutral
  <2> QED  BY <1>0, <2>4, NeutralKeeps
<1> QED  BY <1>5, <1>6

\* processFollow: the answer is the state it leaves.
LEMMA ReceiveFollowAgrees ==
    ASSUME Agreed, NEW g \in Server, NEW u \in Server, g # u,
           ReceiveFollow(g, u, 1), orderly',
           NEW f \in Server, NEW t \in Server, f # t
    PROVE  PairInv(f, t)'
<1>0. TypeOK /\ PairInv(f, t)  BY DEF Agreed, AgreeInv
<1>1. inbox' = inbox /\ admin' = admin /\ following' = following
  BY DEF ReceiveFollow
<1>2. /\ 1 \in DOMAIN channel[g][u] /\ channel[g][u][1] = "Follow"
      /\ ~Held(u, g) /\ Answer(g, u, 1, FollowAnswer(g, u))
  BY DEF ReceiveFollow, Taken
<1>3. FollowAnswer(g, u) \in {<<"Accept">>, <<"Reject">>, <<>>}
  BY <1>0, FollowAnswerTyped
<1>4. CASE g = f /\ u = t
  <2>1. /\ \A b : Newest(channel'[f][t], Asking, b)
                    => Newest(channel[f][t], Asking, b)
        /\ Free(channel'[f][t], Asking)
             => Newest(channel[f][t], Asking, "Follow")
    BY <1>0, <1>2, <1>4, AnswerTakes DEF Asking
  <2>2. Asked(f, t)'
    BY <1>0, <1>1, <2>1 DEF PairInv, Asked
  <2>3. followers'[t][f].state = StateAfterFollow(f, t)
        /\ followers'[t][f] # None
    <3>1. followers'[t][f] =
            [ id |-> IF followers[t][f] = None THEN lastId + 1
                     ELSE followers[t][f].id,
              state |-> StateAfterFollow(f, t) ]
      BY <1>0, <1>4 DEF ReceiveFollow, TypeOK
    <3>2. [ id |-> IF followers[t][f] = None THEN lastId + 1
                   ELSE followers[t][f].id,
            state |-> StateAfterFollow(f, t) ] \in Row
      <4>1. followers[t][f] \in Row \cup {None} /\ lastId \in Nat
        BY <1>0 DEF TypeOK
      <4>2. StateAfterFollow(f, t) \in FollowState
        BY <1>0, FollowAnswerTyped
      <4> QED  BY <4>1, <4>2 DEF Row
    <3> QED  BY <3>1, <3>2, NoneAssumption DEF NoneAssumption
  <2>4. /\ \A L : ~Doing(t, f, L) /\ ~Doing(t, f, L)'
        /\ Follows(f, t)' <=> StateAfterFollow(f, t) = "accepted"
    <3>1. \A L : ~Doing(t, f, L) /\ ~Doing(t, f, L)'
      BY <1>1, <1>2, <1>4, NobodyHolds, DoingSame
    <3> QED  BY <2>3, <3>1 DEF Follows, Accepted
  <2>5. CASE StateAfterFollow(f, t) \in {"accepted", "rejected"}
    <3>1. PICK a \in Answering :
            /\ FollowAnswer(f, t) = <<a>>
            /\ a = "Accept" <=> StateAfterFollow(f, t) = "accepted"
      BY <2>5 DEF FollowAnswer, Answering
    <3>2. ~Free(channel'[t][f], Answering)
          /\ \A b : Newest(channel'[t][f], Answering, b) => b = a
      <4>1. a \in Activity  BY <3>1 DEF Answering, Activity
      <4> QED  BY <1>0, <1>2, <1>4, <3>1, <4>1, AnswerAdds
    <3>3. Answered(f, t)'  BY <2>4, <3>1, <3>2 DEF Answered
    <3> QED  BY <2>2, <3>3 DEF PairInv
  <2>6. CASE StateAfterFollow(f, t) \notin {"accepted", "rejected"}
    <3>1. /\ t \in ManualApproval /\ FollowAnswer(f, t) = <<>>
          /\ ~Accepted(followers[t][f])
      <4>1. followers[t][f] \in Row \cup {None}  BY <1>0 DEF TypeOK
      <4> QED
        BY <2>6, <4>1 DEF StateAfterFollow, FollowAnswer, Accepted, Row,
                          FollowState
    <3>2. channel'[t][f] = channel[t][f]
      <4>1. channel[t][f] \in Seq(Activity)  BY <1>0 DEF TypeOK
      <4>2. channel'[u][g] = channel[u][g] \o FollowAnswer(g, u)
        BY <1>0, <1>2, AnswerOf
      <4> QED  BY <1>4, <3>1, <4>1, <4>2, ConcatEmptySeq
    <3>3. ~Follows(f, t) /\ ~Follows(f, t)'
      BY <2>4, <2>6, <3>1 DEF Follows
    <3>4. Becomes(f, t)' <=> Becomes(f, t)  BY <1>1, BecomesSame
    <3>5. Answered(f, t)'
      BY <1>0, <1>1, <2>4, <3>1, <3>2, <3>3, <3>4 DEF PairInv, Answered
    <3> QED  BY <2>2, <3>5 DEF PairInv
  <2> QED  BY <2>5, <2>6
<1>5. CASE ~(g = f /\ u = t)
  <2>1. Passes(channel'[f][t], channel[f][t], Asking)
    <3>1. FollowAnswer(g, u) = <<>>
          \/ \E a \in Activity \ Asking : FollowAnswer(g, u) = <<a>>
      BY <1>3 DEF Activity, Asking
    <3> QED  BY <1>0, <1>2, <1>5, <3>1, AnswerPasses
  <2>2. Passes(channel'[t][f], channel[t][f], Answering)
    <3>1. channel[g][u][1] \notin Answering  BY <1>2 DEF Answering
    <3> QED  BY <1>0, <1>2, <1>5, <3>1, AnswerPasses
  <2>3. followers'[t][f] = followers[t][f]
    BY <1>0, <1>5 DEF ReceiveFollow, TypeOK
  <2>4. Neutral(f, t)
    BY <1>1, <2>1, <2>2, <2>3, BecomesSame, DoingSame DEF Neutral
  <2> QED  BY <1>0, <2>4, NeutralKeeps
<1> QED  BY <1>4, <1>5

\* A Follow refused while its target has no row of it.
LEMMA RefuseFollowAgrees ==
    ASSUME Agreed, NEW g \in Server, NEW u \in Server, g # u,
           RefuseFollow(g, u), orderly',
           NEW f \in Server, NEW t \in Server, f # t
    PROVE  PairInv(f, t)'
<1>0. TypeOK /\ PairInv(f, t)  BY DEF Agreed, AgreeInv
<1>1. /\ inbox' = inbox /\ admin' = admin /\ following' = following
      /\ followers' = followers
  BY DEF RefuseFollow, tables
<1>2. /\ 1 \in DOMAIN channel[g][u] /\ channel[g][u][1] = "Follow"
      /\ followers[u][g] = None /\ Answer(g, u, 1, <<"Reject">>)
  BY <1>0, FirstOf DEF RefuseFollow
<1>3. CASE g = f /\ u = t
  <2>1. /\ \A b : Newest(channel'[f][t], Asking, b)
                    => Newest(channel[f][t], Asking, b)
        /\ Free(channel'[f][t], Asking)
             => Newest(channel[f][t], Asking, "Follow")
    BY <1>0, <1>2, <1>3, AnswerTakes DEF Asking
  <2>2. Asked(f, t)'
    BY <1>0, <1>1, <2>1 DEF PairInv, Asked
  <2>3. ~Follows(f, t)'
    <3>1. ~Doing(t, f, {"acceptSave"})
      <4> SUFFICES ASSUME NEW k \in Admin, Works(k, t, f),
                          admin[k].pc = "acceptSave"
                   PROVE  FALSE
        BY DEF Doing
      <4>1. Loaded(k)  BY DEF Agreed, AgreeInv, Works
      <4> QED  BY <1>2, <1>3, <4>1 DEF Loaded, Works
    <3> QED  BY <1>1, <1>2, <1>3, <3>1, DoingSame DEF Follows, Accepted
  <2>4. ~Free(channel'[t][f], Answering)
        /\ \A b : Newest(channel'[t][f], Answering, b) => b = "Reject"
    BY <1>0, <1>2, <1>3, AnswerAdds DEF Answering, Activity
  <2>5. Answered(f, t)'  BY <2>3, <2>4 DEF Answered
  <2> QED  BY <2>2, <2>5 DEF PairInv
<1>4. CASE ~(g = f /\ u = t)
  <2>1. Passes(channel'[f][t], channel[f][t], Asking)
    <3>1. "Reject" \in Activity \ Asking  BY DEF Activity, Asking
    <3> QED  BY <1>0, <1>2, <1>4, <3>1, AnswerPasses
  <2>2. Passes(channel'[t][f], channel[t][f], Answering)
    <3>1. channel[g][u][1] \notin Answering  BY <1>2 DEF Answering
    <3> QED  BY <1>0, <1>2, <1>4, <3>1, AnswerPasses
  <2>3. Neutral(f, t)
    BY <1>1, <2>1, <2>2, BecomesSame, DoingSame DEF Neutral
  <2> QED  BY <1>0, <2>3, NeutralKeeps
<1> QED  BY <1>3, <1>4

\* An Accept posted by a transaction that is rolled back: its Follow is still
\* on its way.
LEMMA RolledBackAgrees ==
    ASSUME Agreed, NEW g \in Server, NEW u \in Server, g # u,
           FollowRolledBack(g, u), orderly',
           NEW f \in Server, NEW t \in Server, f # t
    PROVE  PairInv(f, t)'
<1>0. TypeOK /\ PairInv(f, t)  BY DEF Agreed, AgreeInv
<1>1. /\ inbox' = inbox /\ admin' = admin /\ following' = following
      /\ followers' = followers /\ Post(u, g, "Accept")
  BY DEF FollowRolledBack, tables
<1>2. Passes(channel'[f][t], channel[f][t], Asking)
  BY <1>0, <1>1, PostPasses DEF Activity, Asking
<1>3. CASE g = f /\ u = t
  <2>1. 1 \in DOMAIN channel[f][t] /\ channel[f][t][1] = "Follow"
    BY <1>0, <1>3, FirstOf DEF FollowRolledBack
  <2>2. ~Free(channel[f][t], Asking)  BY <2>1 DEF Free, Asking
  <2>3. "Undo" \in Asking /\ "Follow" \in Asking  BY DEF Asking
  <2>4. Asked(f, t)'
    BY <1>0, <1>1, <1>2, <2>3 DEF PairInv, Asked, Passes
  <2>5. CASE t \notin ManualApproval
    <3>1. Answered(f, t)'
      BY <1>2, <2>2, <2>5 DEF Answered, Passes
    <3> QED  BY <2>4, <3>1 DEF PairInv
  <2>6. CASE t \in ManualApproval
    <3>1. ~Held(t, f)  BY <1>3, <2>6, Zenon DEF FollowRolledBack
    <3>2. Accepted(followers[t][f])
      <4>1. FollowAnswer(f, t) = <<"Accept">>
        BY <1>3, Zenon DEF FollowRolledBack
      <4>2. StateAfterFollow(f, t) = "accepted"
        BY <4>1 DEF FollowAnswer
      <4> QED  BY <2>6, <4>2 DEF StateAfterFollow, Accepted
    <3>3. Follows(f, t)'
      BY <1>1, <3>1, <3>2, NobodyHolds, DoingSame DEF Follows, Accepted
    <3>4. ~Free(channel'[t][f], Answering)
          /\ \A b : Newest(channel'[t][f], Answering, b) => b = "Accept"
      BY <1>0, <1>1, <1>3, PostAdds DEF Activity, Answering
    <3>5. Answered(f, t)'  BY <3>3, <3>4 DEF Answered
    <3> QED  BY <2>4, <3>5 DEF PairInv
  <2> QED  BY <2>5, <2>6
<1>4. CASE ~(g = f /\ u = t)
  <2>1. Passes(channel'[t][f], channel[t][f], Answering)
    BY <1>0, <1>1, <1>4, PostPasses DEF Activity
  <2>2. Neutral(f, t)
    BY <1>1, <1>2, <2>1, BecomesSame, DoingSame DEF Neutral
  <2> QED  BY <1>0, <2>2, NeutralKeeps
<1> QED  BY <1>3, <1>4

\* processUndoFollow.
LEMMA ReceiveUndoAgrees ==
    ASSUME Agreed, NEW g \in Server, NEW u \in Server, g # u,
           ReceiveUndo(g, u, 1), NEW f \in Server, NEW t \in Server, f # t
    PROVE  PairInv(f, t)'
<1>0. TypeOK /\ PairInv(f, t)  BY DEF Agreed, AgreeInv
<1>1. /\ inbox' = inbox /\ admin' = admin /\ following' = following
      /\ followers' = [followers EXCEPT ![u][g] = None]
  BY DEF ReceiveUndo
<1>2. /\ 1 \in DOMAIN channel[g][u] /\ channel[g][u][1] = "Undo"
      /\ Answer(g, u, 1, <<>>)
  BY DEF ReceiveUndo, Taken
<1>3. CASE g = f /\ u = t
  <2>1. /\ \A b : Newest(channel'[f][t], Asking, b)
                    => Newest(channel[f][t], Asking, b)
        /\ Free(channel'[f][t], Asking)
             => Newest(channel[f][t], Asking, "Undo")
    BY <1>0, <1>2, <1>3, AnswerTakes DEF Asking
  <2>2. followers'[t][f] = None  BY <1>0, <1>1, <1>3 DEF TypeOK
  <2>3. t \in ManualApproval => following[f][t] = None
    <3>1. NotUndone(f, t)  BY DEF Agreed, AgreeInv
    <3>2. \A c \in Seq(Lasting) : 1 \in DOMAIN c => c[1] \in Lasting
      BY ElementOfSeq, LenProperties
    <3> QED  BY <1>2, <1>3, <3>1, <3>2 DEF NotUndone, Lasting
  <2> QED  BY <1>0, <1>1, <2>1, <2>2, <2>3 DEF PairInv, Asked, Answered
<1>4. CASE ~(g = f /\ u = t)
  <2>1. Passes(channel'[f][t], channel[f][t], Asking)
    BY <1>0, <1>2, <1>4, AnswerPasses
  <2>2. Passes(channel'[t][f], channel[t][f], Answering)
    <3>1. channel[g][u][1] \notin Answering  BY <1>2 DEF Answering
    <3> QED  BY <1>0, <1>2, <3>1, AnswerPasses
  <2>3. followers'[t][f] = followers[t][f]  BY <1>0, <1>1, <1>4 DEF TypeOK
  <2>4. Neutral(f, t)
    BY <1>1, <2>1, <2>2, <2>3, BecomesSame, DoingSame DEF Neutral
  <2> QED  BY <1>0, <2>4, NeutralKeeps
<1> QED  BY <1>3, <1>4


\* processAccept up to its save: the row will be accepted, as the target's is.
LEMMA ReceiveAcceptAgrees ==
    ASSUME Agreed, NEW u \in Server, NEW g \in Server, u # g,
           ReceiveAccept(u, g, 1), NEW f \in Server, NEW t \in Server, f # t
    PROVE  PairInv(f, t)'
<1>0. TypeOK /\ PairInv(f, t)  BY DEF Agreed, AgreeInv
<1>1. admin' = admin /\ following' = following /\ followers' = followers
  BY DEF ReceiveAccept, tables
<1>2. /\ 1 \in DOMAIN channel[u][g] /\ channel[u][g][1] = "Accept"
      /\ inbox[g] = Idle /\ Answer(u, g, 1, <<>>)
  BY DEF ReceiveAccept, Taken
<1>3. inbox'[f] = IF g = f /\ AcceptChanges(following[f][u])
                  THEN [pc |-> "accept", peer |-> u, inst |-> following[f][u]]
                  ELSE inbox[f]
  BY <1>0 DEF ReceiveAccept, TypeOK
<1>4. Passes(channel'[f][t], channel[f][t], Asking)
  <2>1. channel[u][g][1] \notin Asking  BY <1>2 DEF Asking
  <2> QED  BY <1>0, <1>2, <2>1, AnswerPasses
<1>5. CASE g = f /\ u = t
  <2>1. /\ \A b : Newest(channel'[t][f], Answering, b)
                    => Newest(channel[t][f], Answering, b)
        /\ Free(channel'[t][f], Answering)
             => Newest(channel[t][f], Answering, "Accept")
    BY <1>0, <1>2, <1>5, AnswerTakes DEF Answering
  <2>2. following[f][t] # None => Becomes(f, t)'
    BY <1>1, <1>3, <1>5 DEF Becomes, Accepted, AcceptChanges
  <2>3. \A L : Doing(t, f, L)' <=> Doing(t, f, L)  BY <1>1, DoingSame
  <2>4. Follows(f, t)' <=> Follows(f, t)
    BY <1>1, <2>3 DEF Follows, Accepted
  <2>5. "Undo" \in Asking /\ "Follow" \in Asking  BY DEF Asking
  <2>6. Asked(f, t)'  BY <1>0, <1>1, <1>4, <2>5 DEF PairInv, Asked, Passes
  <2>7. Answered(f, t)'
    BY <1>0, <1>1, <1>4, <2>1, <2>2, <2>3, <2>4 DEF PairInv, Answered, Passes
  <2> QED  BY <2>6, <2>7 DEF PairInv
<1>6. CASE ~(g = f /\ u = t)
  <2>1. Passes(channel'[t][f], channel[t][f], Answering)
    BY <1>0, <1>2, <1>6, AnswerPasses
  <2>2. Becomes(f, t)' <=> Becomes(f, t)
    <3>1. CASE g = f
      <4>1. inbox[f].pc = "idle"  BY <1>2, <3>1 DEF Idle
      <4>2. ~(inbox'[f].pc = "accept" /\ inbox'[f].peer = t)
        BY <1>3, <1>6, <3>1, <4>1
      <4> QED  BY <1>1, <4>1, <4>2 DEF Becomes, Accepted
    <3>2. CASE g # f  BY <1>1, <1>3, <3>2, BecomesSame
    <3> QED  BY <3>1, <3>2
  <2>3. Neutral(f, t)
    BY <1>1, <1>4, <2>1, <2>2, DoingSame DEF Neutral
  <2> QED  BY <1>0, <2>3, NeutralKeeps
<1> QED  BY <1>5, <1>6

\* The save of processAccept, by primary key.
LEMMA SaveAcceptAgrees ==
    ASSUME Agreed, NEW g \in Server, SaveAccept(g),
           NEW f \in Server, NEW t \in Server, f # t
    PROVE  PairInv(f, t)'
<1>0. TypeOK /\ PairInv(f, t)  BY DEF Agreed, AgreeInv
<1>1. admin' = admin /\ followers' = followers /\ channel' = channel
      /\ inbox[g].pc = "accept"
  BY DEF SaveAccept
<1>2. inbox[g].peer \in Server
  <2>0. inbox[g] # Idle  BY <1>1 DEF Idle
  <2>1. inbox[g] \in InboxRow /\ inbox[g] # Idle  BY <1>0, <2>0 DEF TypeOK
  <2>2. inbox[g] \in [pc : {"accept"}, peer : Server, inst : Row]
    BY <2>1 DEF InboxRow
  <2> QED  BY <2>2
<1>3. inbox'[f] = IF g = f THEN Idle ELSE inbox[f]
  BY <1>0 DEF SaveAccept, TypeOK
<1>4. following'[f][t] =
        IF g = f /\ inbox[f].peer = t
        THEN SaveState(following[f][t], inbox[f].inst, "accepted")
        ELSE following[f][t]
  BY <1>0, <1>2 DEF SaveAccept, TypeOK
<1>5. following[f][t] \in Row \cup {None}  BY <1>0 DEF TypeOK
<1>6. /\ following'[f][t] = None <=> following[f][t] = None
      /\ Becomes(f, t)' <=> Becomes(f, t)
  <2>1. CASE g = f /\ inbox[f].peer = t
    <3>1. inbox'[f].pc # "accept"  BY <1>3, <2>1 DEF Idle
    <3>2. CASE following[f][t] # None /\ following[f][t].id = inbox[f].inst.id
      <4>1. following'[f][t] = [following[f][t] EXCEPT !.state = "accepted"]
        BY <1>4, <2>1, <3>2 DEF SaveState
      <4>2. following'[f][t] \in Row /\ following'[f][t].state = "accepted"
        BY <1>5, <3>2, <4>1 DEF Row, FollowState
      <4>3. following'[f][t] # None
        BY <4>2, NoneAssumption DEF NoneAssumption
      <4> QED  BY <1>1, <2>1, <3>2, <4>2, <4>3 DEF Becomes, Accepted
    <3>3. CASE ~(following[f][t] # None
                 /\ following[f][t].id = inbox[f].inst.id)
      <4>1. following'[f][t] = following[f][t]
        BY <1>4, <2>1, <3>3 DEF SaveState
      <4> QED  BY <3>1, <3>3, <4>1 DEF Becomes, Accepted
    <3> QED  BY <3>2, <3>3
  <2>2. CASE ~(g = f /\ inbox[f].peer = t)
    <3>1. following'[f][t] = following[f][t]  BY <1>4, <2>2
    <3>2. CASE g = f
      BY <1>3, <2>2, <3>1, <3>2 DEF Becomes, Accepted, Idle
    <3>3. CASE g # f  BY <1>3, <3>1, <3>3, BecomesSame
    <3> QED  BY <3>1, <3>2, <3>3
  <2> QED  BY <2>1, <2>2
<1>7. \A L : Doing(t, f, L)' <=> Doing(t, f, L)  BY <1>1, DoingSame
<1>8. Follows(f, t)' <=> Follows(f, t)
  BY <1>1, <1>7 DEF Follows, Accepted
<1>9. Asked(f, t)'  BY <1>0, <1>1, <1>6 DEF PairInv, Asked
<1>10. Answered(f, t)'
  BY <1>0, <1>1, <1>6, <1>7, <1>8 DEF PairInv, Answered
<1> QED  BY <1>9, <1>10 DEF PairInv

\* processReject.
LEMMA ReceiveRejectAgrees ==
    ASSUME Agreed, NEW u \in Server, NEW g \in Server, u # g,
           ReceiveReject(u, g, 1), NEW f \in Server, NEW t \in Server, f # t
    PROVE  PairInv(f, t)'
<1>0. TypeOK /\ PairInv(f, t)  BY DEF Agreed, AgreeInv
<1>1. admin' = admin /\ inbox' = inbox /\ followers' = followers
  BY DEF ReceiveReject
<1>2. /\ 1 \in DOMAIN channel[u][g] /\ channel[u][g][1] = "Reject"
      /\ inbox[g] = Idle /\ Answer(u, g, 1, <<>>)
  BY DEF ReceiveReject, Taken
<1>3. following'[f][t] =
        IF g = f /\ u = t /\ following[f][t] # None
        THEN [following[f][t] EXCEPT !.state = "rejected"]
        ELSE following[f][t]
  <2>1. following' = [following EXCEPT ![g][u] =
                        IF following[g][u] = None THEN None
                        ELSE [following[g][u] EXCEPT !.state = "rejected"]]
    BY DEF ReceiveReject
  <2>2. CASE g = f /\ u = t  BY <1>0, <2>1, <2>2 DEF TypeOK
  <2>3. CASE ~(g = f /\ u = t)  BY <1>0, <2>1, <2>3 DEF TypeOK
  <2> QED  BY <2>2, <2>3
<1>4. Passes(channel'[f][t], channel[f][t], Asking)
  <2>1. channel[u][g][1] \notin Asking  BY <1>2 DEF Asking
  <2> QED  BY <1>0, <1>2, <2>1, AnswerPasses
<1>5. CASE g = f /\ u = t
  <2>1. /\ \A b : Newest(channel'[t][f], Answering, b)
                    => Newest(channel[t][f], Answering, b)
        /\ Free(channel'[t][f], Answering)
             => Newest(channel[t][f], Answering, "Reject")
    BY <1>0, <1>2, <1>5, AnswerTakes DEF Answering
  <2>2. following'[f][t] = None <=> following[f][t] = None
    <3>1. \A row \in Row : [row EXCEPT !.state = "rejected"] \in Row
      BY DEF Row, FollowState
    <3>2. following[f][t] \in Row \cup {None}  BY <1>0 DEF TypeOK
    <3> QED  BY <1>3, <1>5, <3>1, <3>2, NoneAssumption DEF NoneAssumption
  <2>3. ~Becomes(f, t)'
    <3>1. inbox'[f].pc # "accept"  BY <1>1, <1>2, <1>5 DEF Idle
    <3>2. \A row \in Row : [row EXCEPT !.state = "rejected"].state = "rejected"
      BY DEF Row
    <3>3. following[f][t] \in Row \cup {None}  BY <1>0 DEF TypeOK
    <3> QED  BY <1>3, <1>5, <3>1, <3>2, <3>3 DEF Becomes, Accepted
  <2>4. \A L : Doing(t, f, L)' <=> Doing(t, f, L)  BY <1>1, DoingSame
  <2>5. Follows(f, t)' <=> Follows(f, t)
    BY <1>1, <2>4 DEF Follows, Accepted
  <2>6. "Undo" \in Asking /\ "Follow" \in Asking  BY DEF Asking
  <2>7. Asked(f, t)'
    BY <1>0, <1>1, <1>4, <2>2, <2>6 DEF PairInv, Asked, Passes
  <2>8. Answered(f, t)'
    BY <1>0, <1>4, <2>1, <2>2, <2>3, <2>4, <2>5 DEF PairInv, Answered, Passes
  <2> QED  BY <2>7, <2>8 DEF PairInv
<1>6. CASE ~(g = f /\ u = t)
  <2>1. Passes(channel'[t][f], channel[t][f], Answering)
    BY <1>0, <1>2, <1>6, AnswerPasses
  <2>2. following'[f][t] = following[f][t]  BY <1>3, <1>6
  <2>3. Neutral(f, t)
    BY <1>1, <1>4, <2>1, <2>2, BecomesSame, DoingSame DEF Neutral
  <2> QED  BY <1>0, <2>3, NeutralKeeps
<1> QED  BY <1>5, <1>6

\* removeFollowing and its two statements.
LEMMA UnfollowAgrees ==
    ASSUME Agreed, NEW k \in Admin, Unfollow(k),
           NEW f \in Server, NEW t \in Server, f # t
    PROVE  PairInv(f, t)'
<1>0. TypeOK /\ PairInv(f, t) /\ Alone  BY DEF Agreed, AgreeInv
<1> DEFINE g == admin[k].at
           u == admin[k].peer
<1>1. /\ admin[k].pc = "unfollow" /\ admin[k] # Idle
      /\ g \in Server /\ u \in Server
  BY <1>0, AdminTyped DEF Unfollow
<1>2. inbox' = inbox /\ followers' = followers
      /\ admin' = [admin EXCEPT ![k] = Idle]
  BY DEF Unfollow
<1>3. /\ following[g][u] # None /\ following[g][u].id = admin[k].inst.id
      /\ NeedsUndo(admin[k].inst)
  BY <1>1 DEF Agreed, AgreeInv, Loaded, NeedsUndo
<1>4. Post(g, u, "Undo")  BY <1>3 DEF Unfollow
<1>5. following'[f][t] = IF g = f /\ u = t THEN None ELSE following[f][t]
  BY <1>0, <1>1, <1>3 DEF Unfollow, DestroyRow, TypeOK
<1>6. \A L \in SUBSET TargetPC : Doing(t, f, L)' <=> Doing(t, f, L)
  <2> SUFFICES ASSUME NEW L \in SUBSET TargetPC
               PROVE  Doing(t, f, L)' <=> Doing(t, f, L)
    OBVIOUS
  <2>1. CASE Works(k, t, f)
    <3>1. ~Doing(t, f, L)' /\ (Doing(t, f, L) <=> admin[k].pc \in L)
      BY <1>0, <1>1, <1>2, <2>1, EndWorks
    <3> QED  BY <1>1, <3>1 DEF TargetPC
  <2>2. CASE ~Works(k, t, f)  BY <1>0, <1>1, <1>2, <2>2, EndWorks
  <2> QED  BY <2>1, <2>2
<1> HIDE DEF g, u
<1>7. Passes(channel'[t][f], channel[t][f], Answering)
  BY <1>0, <1>1, <1>4, PostPasses DEF Activity, Answering
<1>8. CASE g = f /\ u = t
  <2>1. ~Free(channel'[f][t], Asking)
        /\ \A b : Newest(channel'[f][t], Asking, b) => b = "Undo"
    BY <1>0, <1>1, <1>4, <1>8, PostAdds DEF Activity, Asking
  <2>2. following'[f][t] = None  BY <1>5, <1>8
  <2> QED  BY <2>1, <2>2 DEF PairInv, Asked, Answered
<1>9. CASE ~(g = f /\ u = t)
  <2>1. Passes(channel'[f][t], channel[f][t], Asking)
    BY <1>0, <1>1, <1>4, <1>9, PostPasses DEF Activity
  <2>2. following'[f][t] = following[f][t]  BY <1>5, <1>9
  <2>3. Neutral(f, t)
    BY <1>2, <1>6, <1>7, <2>1, <2>2, BecomesSame DEF Neutral
  <2> QED  BY <1>0, <2>3, NeutralKeeps
<1> QED  BY <1>8, <1>9


\* A request that starts on a row nobody holds, what it posts and how the
\* target's row is taken from then on.
LEMMA StartAgrees ==
    ASSUME Agreed, NEW k \in Admin, NEW g \in Server, NEW u \in Server, g # u,
           StartUnfollow(k, g, u) \/ StartReject(k, g, u)
             \/ StartAccept(k, g, u) \/ StartRemove(k, g, u),
           orderly', NEW f \in Server, NEW t \in Server, f # t
    PROVE  PairInv(f, t)'
<1>0. TypeOK /\ PairInv(f, t) /\ Alone  BY DEF Agreed, AgreeInv
<1>1. /\ inbox' = inbox /\ following' = following /\ followers' = followers
      /\ ~Held(g, u)
  BY DEF StartUnfollow, StartReject, StartAccept, StartRemove, tables
<1>2. \/ channel' = channel
      \/ Post(g, u, "Accept") \/ Post(g, u, "Reject")
  BY DEF StartUnfollow, StartReject, StartAccept, StartRemove
<1>3. Passes(channel'[f][t], channel[f][t], Asking)
  <2>1. CASE channel' = channel  BY <2>1 DEF Passes
  <2>2. CASE Post(g, u, "Accept")
    BY <1>0, <2>2, PostPasses DEF Activity, Asking
  <2>3. CASE Post(g, u, "Reject")
    BY <1>0, <2>3, PostPasses DEF Activity, Asking
  <2> QED  BY <1>2, <2>1, <2>2, <2>3
<1>4. Asked(f, t)'
  <2>1. "Undo" \in Asking /\ "Follow" \in Asking  BY DEF Asking
  <2> QED  BY <1>0, <1>1, <1>3, <2>1 DEF PairInv, Asked, Passes
<1>5. PICK label \in {"unfollow", "rejectSave", "acceptSave", "remove"} :
        \E row : Load(k, g, u, label, row)
  BY DEF StartUnfollow, StartReject, StartAccept, StartRemove
<1>6. \A L : Doing(t, f, L)' <=>
               Doing(t, f, L) \/ (g = t /\ u = f /\ label \in L)
  BY <1>0, <1>5, LoadWorks
<1>7. CASE ~(g = t /\ u = f)
  <2>1. Passes(channel'[t][f], channel[t][f], Answering)
    <3>1. CASE channel' = channel  BY <3>1 DEF Passes
    <3>2. CASE Post(g, u, "Accept")
      BY <1>0, <1>7, <3>2, PostPasses DEF Activity
    <3>3. CASE Post(g, u, "Reject")
      BY <1>0, <1>7, <3>3, PostPasses DEF Activity
    <3> QED  BY <1>2, <3>1, <3>2, <3>3
  <2>2. Neutral(f, t)
    BY <1>1, <1>3, <1>6, <1>7, <2>1, BecomesSame DEF Neutral
  <2> QED  BY <1>0, <2>2, NeutralKeeps
<1>8. CASE g = t /\ u = f
  <2>1. \A L : Doing(t, f, L)' <=> label \in L
    BY <1>1, <1>6, <1>8, NobodyHolds
  <2>2. \A a \in Answering : Post(t, f, a) =>
          /\ ~Free(channel'[t][f], Answering)
          /\ \A b : Newest(channel'[t][f], Answering, b) => b = a
    BY <1>0, PostAdds DEF Answering, Activity
  <2>3. \A l \in {"unfollow", "rejectSave", "acceptSave", "remove"} :
          Load(k, g, u, l, followers[g][u]) \/ Load(k, g, u, l, following[g][u])
            => l = label
    <3>1. \A l, r : Load(k, g, u, l, r) => admin'[k].pc = l
      BY <1>0 DEF Load, TypeOK
    <3> QED  BY <1>5, <3>1
  <2>4. CASE StartUnfollow(k, g, u)
    <3>1. label = "unfollow" /\ channel' = channel
      BY <2>3, <2>4 DEF StartUnfollow
    <3>2. \A L \in SUBSET TargetPC : ~Doing(t, f, L)'
      BY <2>1, <3>1 DEF TargetPC
    <3>3. \A L : ~Doing(t, f, L)  BY <1>1, <1>8, NobodyHolds
    <3>4. Neutral(f, t)
      BY <1>1, <1>3, <3>1, <3>2, <3>3, BecomesSame DEF Neutral, Passes
    <3> QED  BY <1>0, <3>4, NeutralKeeps
  <2>5. CASE StartReject(k, g, u)
    <3>1. label = "rejectSave"  BY <2>3, <2>5 DEF StartReject
    <3>2. Answered(f, t)'  BY <2>1, <3>1 DEF Answered
    <3> QED  BY <1>4, <3>2 DEF PairInv
  <2>6. CASE StartAccept(k, g, u)
    <3>1. label = "acceptSave" /\ Post(t, f, "Accept")
      BY <1>8, <2>3, <2>6 DEF StartAccept
    <3>2. Follows(f, t)'  BY <2>1, <3>1 DEF Follows
    <3>3. ~Free(channel'[t][f], Answering)
          /\ \A b : Newest(channel'[t][f], Answering, b) => b = "Accept"
      BY <2>2, <3>1 DEF Answering
    <3>4. Answered(f, t)'  BY <3>2, <3>3 DEF Answered
    <3> QED  BY <1>4, <3>4 DEF PairInv
  <2>7. CASE StartRemove(k, g, u)
    <3>1. label = "remove"  BY <2>3, <2>7 DEF StartRemove
    <3>2. ~Follows(f, t)'  BY <2>1, <3>1 DEF Follows
    <3>3. CASE Post(t, f, "Reject")
      <4>1. ~Free(channel'[t][f], Answering)
            /\ \A b : Newest(channel'[t][f], Answering, b) => b = "Reject"
        BY <2>2, <3>3 DEF Answering
      <4>2. Answered(f, t)'  BY <3>2, <4>1 DEF Answered
      <4> QED  BY <1>4, <4>2 DEF PairInv
    <3>4. CASE ~Post(t, f, "Reject")
      <4>1. /\ channel' = channel
            /\ followers[t][f].state \notin {"pending", "accepted"}
        BY <1>8, <2>7, <3>4 DEF StartRemove
      <4>2. \A L : ~Doing(t, f, L)  BY <1>1, <1>8, NobodyHolds
      <4>3. ~Follows(f, t)  BY <4>1, <4>2 DEF Follows, Accepted
      <4>4. Becomes(f, t)' <=> Becomes(f, t)  BY <1>1, BecomesSame
      <4>5. Answered(f, t)'
        BY <1>0, <1>1, <3>2, <4>1, <4>2, <4>3, <4>4 DEF PairInv, Answered
      <4> QED  BY <1>4, <4>5 DEF PairInv
    <3> QED  BY <3>3, <3>4
  <2> QED  BY <2>4, <2>5, <2>6, <2>7
<1> QED  BY <1>7, <1>8

\* The statements of rejectFollower, acceptFollower and removeFollower on the
\* row they hold.
LEMMA TargetAgrees ==
    ASSUME Agreed, NEW k \in Admin,
           RejectSave(k) \/ RejectSend(k) \/ AcceptSave(k) \/ RemoveDestroy(k),
           NEW f \in Server, NEW t \in Server, f # t
    PROVE  PairInv(f, t)'
<1>0. TypeOK /\ PairInv(f, t) /\ Alone  BY DEF Agreed, AgreeInv
<1>1. /\ admin[k] # Idle /\ admin[k].at \in Server /\ admin[k].peer \in Server
      /\ admin[k].inst \in Row
  BY <1>0, AdminTyped DEF RejectSave, RejectSend, AcceptSave, RemoveDestroy
<1>2. /\ inbox' = inbox /\ following' = following
      /\ channel' = channel \/ RejectSend(k)
  BY DEF RejectSave, RejectSend, AcceptSave, RemoveDestroy, tables
<1>3. Becomes(f, t)' <=> Becomes(f, t)  BY <1>2, BecomesSame
<1>4. Passes(channel'[f][t], channel[f][t], Asking)
  <2>1. CASE channel' = channel  BY <2>1 DEF Passes
  <2>2. CASE RejectSend(k)
    <3>1. Post(admin[k].at, admin[k].peer, "Reject")  BY <2>2 DEF RejectSend
    <3>2. "Reject" \in Activity /\ "Reject" \notin Asking
      BY DEF Activity, Asking
    <3> QED  BY <1>0, <1>1, <3>1, <3>2, PostPasses
  <2> QED  BY <1>2, <2>1, <2>2
<1>5. "Undo" \in Asking /\ "Follow" \in Asking  BY DEF Asking
<1>6. RejectSave(k) \/ admin' = [admin EXCEPT ![k] = Idle]
  BY DEF RejectSend, AcceptSave, RemoveDestroy
<1>7. CASE ~Works(k, t, f)
  <2>1. \A L : Doing(t, f, L)' <=> Doing(t, f, L)
    BY <1>0, <1>1, <1>6, <1>7, EndWorks, RejectWorks
  <2>2. ~(admin[k].at = t /\ admin[k].peer = f)  BY <1>1, <1>7 DEF Works
  <2>3. followers'[t][f] = followers[t][f]
    <3>1. CASE RejectSave(k)  BY <1>0, <1>1, <2>2, <3>1 DEF RejectSave, TypeOK
    <3>2. CASE RejectSend(k)  BY <3>2 DEF RejectSend, tables
    <3>3. CASE AcceptSave(k)  BY <1>0, <1>1, <2>2, <3>3 DEF AcceptSave, TypeOK
    <3>4. CASE RemoveDestroy(k)
      BY <1>0, <1>1, <2>2, <3>4 DEF RemoveDestroy, TypeOK
    <3> QED  BY <3>1, <3>2, <3>3, <3>4
  <2>4. Passes(channel'[t][f], channel[t][f], Answering)
    <3>1. CASE channel' = channel  BY <3>1 DEF Passes
    <3>2. CASE RejectSend(k)
      BY <1>0, <1>1, <2>2, <3>2, PostPasses DEF RejectSend, Activity
    <3> QED  BY <1>2, <3>1, <3>2
  <2>5. Neutral(f, t)
    BY <1>2, <1>3, <1>4, <2>1, <2>3, <2>4 DEF Neutral
  <2> QED  BY <1>0, <2>5, NeutralKeeps
<1>8. CASE Works(k, t, f)
  <2>1. admin[k].at = t /\ admin[k].peer = f  BY <1>8 DEF Works
  <2>2. Loaded(k)  BY <1>1 DEF Agreed, AgreeInv
  <2>3. followers[t][f] # None /\ followers[t][f] \in Row
    <3>1. followers[t][f] # None
      BY <2>1, <2>2 DEF Loaded, RejectSave, RejectSend, AcceptSave,
                        RemoveDestroy
    <3> QED  BY <1>0, <3>1 DEF TypeOK
  <2>4. Asked(f, t)'
    BY <1>0, <1>2, <1>4, <1>5, <2>3 DEF PairInv, Asked, Passes
  <2>5. CASE RejectSave(k)
    <3>1. Doing(t, f, {"rejectSave", "rejectSend"})'
      BY <1>0, <1>8, <2>5, RejectWorks
    <3>2. Answered(f, t)'  BY <3>1 DEF Answered
    <3> QED  BY <2>4, <3>2 DEF PairInv
  <2>6. ASSUME ~RejectSave(k)
        PROVE  \A L : ~Doing(t, f, L)' /\ (Doing(t, f, L) <=> admin[k].pc \in L)
    BY <1>0, <1>1, <1>6, <1>8, <2>6, EndWorks
  <2>7. CASE RejectSend(k)
    <3>1. ~RejectSave(k) /\ admin[k].pc = "rejectSend"
      BY <2>7 DEF RejectSend, RejectSave
    <3>2. followers'[t][f].state = "rejected"
      BY <2>1, <2>2, <2>7, <3>1 DEF Loaded, RejectSend, tables
    <3>3. ~Follows(f, t)'  BY <2>6, <3>1, <3>2 DEF Follows, Accepted
    <3>4. ~Free(channel'[t][f], Answering)
          /\ \A b : Newest(channel'[t][f], Answering, b) => b = "Reject"
      BY <1>0, <2>1, <2>7, PostAdds DEF RejectSend, Answering, Activity
    <3>5. Answered(f, t)'  BY <3>3, <3>4 DEF Answered
    <3> QED  BY <2>4, <3>5 DEF PairInv
  <2>8. CASE AcceptSave(k) \/ RemoveDestroy(k)
    <3>1. /\ ~RejectSave(k) /\ channel' = channel
          /\ admin[k].pc = IF AcceptSave(k) THEN "acceptSave" ELSE "remove"
      BY <2>8 DEF AcceptSave, RemoveDestroy, RejectSave
    <3>2. Follows(f, t)' <=> Follows(f, t)
      <4>1. CASE AcceptSave(k)
        <5>1. followers'[t][f] = [followers[t][f] EXCEPT !.state = "accepted"]
          BY <1>0, <2>1, <2>2, <2>3, <4>1
          DEF AcceptSave, SaveState, Loaded, TypeOK
        <5>2. followers'[t][f] \in Row /\ followers'[t][f].state = "accepted"
          BY <2>3, <5>1 DEF Row, FollowState
        <5>3. Accepted(followers'[t][f])
          BY <5>2, NoneAssumption DEF Accepted, NoneAssumption
        <5>4. admin[k].pc = "acceptSave"  BY <4>1 DEF AcceptSave
        <5> QED  BY <2>6, <3>1, <5>3, <5>4 DEF Follows, Accepted
      <4>2. CASE RemoveDestroy(k)
        <5>1. followers'[t][f] = None
          BY <1>0, <2>1, <2>2, <2>3, <4>2
          DEF RemoveDestroy, DestroyRow, Loaded, TypeOK
        <5>2. admin[k].pc = "remove"  BY <4>2 DEF RemoveDestroy
        <5> QED  BY <2>6, <3>1, <5>1, <5>2 DEF Follows, Accepted
      <4> QED  BY <2>8, <4>1, <4>2
    <3>3. /\ ~Doing(t, f, {"rejectSave", "rejectSend"})
          /\ ~Doing(t, f, {"rejectSave", "rejectSend"})'
      BY <2>6, <2>8, <3>1
    <3>4. Answered(f, t)'
      BY <1>0, <1>2, <1>3, <3>1, <3>2, <3>3 DEF PairInv, Answered
    <3>5. Asked(f, t)'  BY <2>4
    <3> QED  BY <3>4, <3>5 DEF PairInv
  <2> QED  BY <2>5, <2>7, <2>8
<1> QED  BY <1>7, <1>8

-----------------------------------------------------------------------------
(* The steps of an orderly history, and the rows that requests hold.        *)

Start(k, s, peer) ==
    \/ StartUnfollow(k, s, peer) \/ StartReject(k, s, peer)
    \/ StartAccept(k, s, peer) \/ StartRemove(k, s, peer)

\* Nothing is lost or overtaken, nobody restarts, no bad follow is removed.
OrderlyNext ==
    \/ \E s, d \in Server : s # d /\
         \/ FollowJob(s, d)
         \/ ReceiveFollow(s, d, 1) \/ ReceiveUndo(s, d, 1)
         \/ ReceiveAccept(s, d, 1) \/ ReceiveReject(s, d, 1)
         \/ AddFollow(s, d) \/ FollowRolledBack(s, d) \/ RefuseFollow(s, d)
         \/ \E k \in Admin : Start(k, s, d)
    \/ \E f \in Server : SaveAccept(f)
    \/ \E k \in Admin : Unfollow(k) \/ RejectSave(k) \/ RejectSend(k)
                          \/ AcceptSave(k) \/ RemoveDestroy(k)

\* An activity taken in an orderly history is the first of its channel.
LEMMA TakenFirst ==
    ASSUME NEW s, NEW d, NEW i, NEW a, Taken(s, d, i, a), orderly'
    PROVE  i = 1 /\ orderly /\ (a \in {"Follow", "Undo"} => ~Held(d, s))
BY Zenon DEF Taken

\* A history that is orderly after a step was so before it.
LEMMA OrderlyStep ==
    ASSUME Next, orderly'
    PROVE  orderly /\ OrderlyNext
<1>1. CASE Work
  <2>1. ASSUME NEW f \in Server, NEW t \in Server, f # t, FollowJob(f, t)
        PROVE  orderly /\ OrderlyNext
    <3>1. orderly  BY <2>1, Zenon DEF FollowJob
    <3> QED  BY <2>1, <3>1 DEF OrderlyNext
  <2>2. ASSUME NEW s \in Server, NEW d \in Server, s # d, NEW i,
               \/ ReceiveFollow(s, d, i) \/ ReceiveUndo(s, d, i)
               \/ ReceiveAccept(s, d, i) \/ ReceiveReject(s, d, i)
        PROVE  orderly /\ OrderlyNext
    <3>1. \E a : Taken(s, d, i, a)
      BY <2>2, Zenon DEF ReceiveFollow, ReceiveUndo, ReceiveAccept, ReceiveReject
    <3>2. i = 1 /\ orderly  BY <3>1, TakenFirst
    <3> QED  BY <2>2, <3>2 DEF OrderlyNext
  <2>3. ASSUME NEW f \in Server, SaveAccept(f)
        PROVE  orderly /\ OrderlyNext
    <3>1. orderly  BY <2>3 DEF SaveAccept, history
    <3> QED  BY <2>3, <3>1 DEF OrderlyNext
  <2>4. ASSUME NEW k \in Admin, Unfollow(k) \/ RejectSave(k) \/ RejectSend(k)
                                  \/ AcceptSave(k) \/ RemoveDestroy(k)
        PROVE  orderly /\ OrderlyNext
    <3>1. orderly
      BY <2>4 DEF Unfollow, RejectSave, RejectSend, AcceptSave, RemoveDestroy,
                  history
    <3> QED  BY <2>4, <3>1 DEF OrderlyNext
  <2> QED  BY <1>1, <2>1, <2>2, <2>3, <2>4 DEF Work, Pair
<1>2. CASE Environment
  <2>1. ASSUME NEW s \in Server, NEW d \in Server, s # d,
               AddFollow(s, d) \/ FollowRolledBack(s, d)
        PROVE  orderly /\ OrderlyNext
    <3>1. orderly
      <4>1. CASE AddFollow(s, d)  BY <4>1 DEF AddFollow, history
      <4>2. CASE FollowRolledBack(s, d)  BY <4>2, Zenon DEF FollowRolledBack
      <4> QED  BY <2>1, <4>1, <4>2
    <3> QED  BY <2>1, <3>1 DEF OrderlyNext
  <2>2. ASSUME NEW s \in Server, NEW d \in Server, s # d, RefuseFollow(s, d)
        PROVE  orderly /\ OrderlyNext
    <3>1. orderly  BY <2>2, Zenon DEF RefuseFollow
    <3> QED  BY <2>2, <3>1 DEF OrderlyNext
  <2>3. ASSUME NEW k \in Admin, NEW s \in Server, NEW d \in Server, s # d,
               Start(k, s, d)
        PROVE  orderly /\ OrderlyNext
    <3>1. orderly
      BY <2>3, Zenon DEF Start, StartUnfollow, StartReject, StartAccept,
                         StartRemove
    <3> QED  BY <2>3, <3>1 DEF OrderlyNext
  <2>4. \A s, d, i : /\ ~RemoveBadActorFollow(s, d) /\ ~Lose(s, d, i)
                    /\ ~Restart(s)
    BY DEF RemoveBadActorFollow, Lose, Restart
  <2> QED  BY <1>2, <2>1, <2>2, <2>3, <2>4 DEF Environment, Pair, Start
<1> QED  BY <1>1, <1>2 DEF Next

\* A follower's row stays the row it is until it is unfollowed.
LEMMA FollowingKept ==
    ASSUME TypeOK, OrderlyNext, NEW s \in Server, NEW peer \in Server,
           following[s][peer] # None,
           \A l \in Admin : Unfollow(l) => ~Works(l, s, peer)
    PROVE  /\ following'[s][peer] # None
           /\ following'[s][peer].id = following[s][peer].id
<1> DEFINE row == following[s][peer]
           new == following'[s][peer]
<1>0. row \in Row /\ row # None  BY DEF TypeOK
<1>1. \A st : [row EXCEPT !.state = st].id = row.id
  BY <1>0 DEF Row
<1>2. \A st \in FollowState : [row EXCEPT !.state = st] \in Row
  BY <1>0 DEF Row
<1>3. \A st \in FollowState : [row EXCEPT !.state = st] # None
  BY <1>2, NoneAssumption DEF NoneAssumption
<1>4. "accepted" \in FollowState /\ "rejected" \in FollowState
  BY DEF FollowState
<1> HIDE DEF row, new
<1>5. ASSUME following' = following PROVE new = row
  BY <1>5 DEF row, new
<1>6. ASSUME NEW f \in Server, NEW t \in Server, FollowJob(f, t)
      PROVE  new = row
  <2>1. CASE following[f][t] = None
    <3>1. following' = [following EXCEPT
                          ![f][t] = [id |-> lastId + 1, state |-> "pending"]]
      BY <1>6, <2>1 DEF FollowJob
    <3> QED  BY <2>1, <3>1 DEF TypeOK, row, new
  <2>2. CASE following[f][t] # None  BY <1>6, <2>2 DEF FollowJob, row, new
  <2> QED  BY <2>1, <2>2
<1>7. ASSUME NEW t \in Server, NEW f \in Server, ReceiveReject(t, f, 1)
      PROVE  new = row \/ new = [row EXCEPT !.state = "rejected"]
  <2>1. following' = [following EXCEPT ![f][t] =
                        IF following[f][t] = None THEN None
                        ELSE [following[f][t] EXCEPT !.state = "rejected"]]
    BY <1>7 DEF ReceiveReject
  <2>2. CASE f = s /\ t = peer  BY <2>1, <2>2 DEF TypeOK, row, new
  <2>3. CASE ~(f = s /\ t = peer)  BY <2>1, <2>3 DEF TypeOK, row, new
  <2> QED  BY <2>2, <2>3
<1>8. ASSUME NEW f \in Server, SaveAccept(f)
      PROVE  new = row \/ new = [row EXCEPT !.state = "accepted"]
  <2>1. following' = [following EXCEPT ![f][inbox[f].peer] =
          SaveState(following[f][inbox[f].peer], inbox[f].inst, "accepted")]
    BY <1>8 DEF SaveAccept
  <2>2. CASE f = s /\ inbox[f].peer = peer
    BY <2>1, <2>2 DEF TypeOK, SaveState, row, new
  <2>3. CASE ~(f = s /\ inbox[f].peer = peer)
    BY <2>1, <2>3 DEF TypeOK, row, new
  <2> QED  BY <2>2, <2>3
<1>9. ASSUME NEW k \in Admin, Unfollow(k)
      PROVE  new = row
  <2>1. admin[k] # Idle  BY <1>9, AdminTyped DEF Unfollow
  <2>2. ~(admin[k].at = s /\ admin[k].peer = peer)  BY <1>9, <2>1 DEF Works
  <2> QED  BY <1>9, <2>2 DEF Unfollow, TypeOK, row, new
<1>10. ASSUME NEW d \in Server, NEW e \in Server,
              \/ ReceiveFollow(d, e, 1) \/ ReceiveUndo(d, e, 1)
              \/ ReceiveAccept(d, e, 1) \/ AddFollow(d, e)
              \/ FollowRolledBack(d, e) \/ RefuseFollow(d, e)
              \/ \E k \in Admin : Start(k, d, e)
       PROVE  following' = following
  BY <1>10 DEF ReceiveFollow, ReceiveUndo, ReceiveAccept, AddFollow,
     FollowRolledBack, RefuseFollow, Start, StartUnfollow, StartReject,
     StartAccept, StartRemove, tables
<1>11. ASSUME NEW k \in Admin,
              RejectSave(k) \/ RejectSend(k) \/ AcceptSave(k) \/ RemoveDestroy(k)
       PROVE  following' = following
  BY <1>11 DEF RejectSave, RejectSend, AcceptSave, RemoveDestroy, tables
<1>12. \/ new = row
       \/ new = [row EXCEPT !.state = "rejected"]
       \/ new = [row EXCEPT !.state = "accepted"]
  BY <1>5, <1>6, <1>7, <1>8, <1>9, <1>10, <1>11 DEF OrderlyNext
<1>13. new # None /\ new.id = row.id  BY <1>0, <1>1, <1>3, <1>4, <1>12
<1> QED  BY <1>13 DEF row, new

\* A target's row that a request holds is changed by that request only.
LEMMA FollowersKept ==
    ASSUME TypeOK, OrderlyNext, orderly', NEW s \in Server, NEW peer \in Server,
           Held(s, peer),
           \A l \in Admin : RejectSave(l) \/ AcceptSave(l) \/ RemoveDestroy(l)
                              => ~Works(l, s, peer)
    PROVE  followers'[s][peer] = followers[s][peer]
<1>1. ASSUME NEW f \in Server, NEW t \in Server,
             ReceiveFollow(f, t, 1) \/ ReceiveUndo(f, t, 1)
      PROVE  followers'[s][peer] = followers[s][peer]
  <2>1. ~Held(t, f)
    BY <1>1, TakenFirst DEF ReceiveFollow, ReceiveUndo
  <2>2. ~(t = s /\ f = peer)  BY <2>1
  <2>3. CASE ReceiveFollow(f, t, 1)
    BY <2>2, <2>3 DEF ReceiveFollow, TypeOK
  <2>4. CASE ReceiveUndo(f, t, 1)  BY <2>2, <2>4 DEF ReceiveUndo, TypeOK
  <2> QED  BY <1>1, <2>3, <2>4
<1>2. ASSUME NEW k \in Admin, RejectSave(k) \/ AcceptSave(k) \/ RemoveDestroy(k)
      PROVE  followers'[s][peer] = followers[s][peer]
  <2>1. admin[k] # Idle /\ admin[k].at \in Server /\ admin[k].peer \in Server
    BY <1>2, AdminTyped DEF RejectSave, AcceptSave, RemoveDestroy
  <2>2. ~(admin[k].at = s /\ admin[k].peer = peer)  BY <1>2, <2>1 DEF Works
  <2>3. CASE RejectSave(k)  BY <2>1, <2>2, <2>3 DEF RejectSave, TypeOK
  <2>4. CASE AcceptSave(k)  BY <2>1, <2>2, <2>4 DEF AcceptSave, TypeOK
  <2>5. CASE RemoveDestroy(k)  BY <2>1, <2>2, <2>5 DEF RemoveDestroy, TypeOK
  <2> QED  BY <1>2, <2>3, <2>4, <2>5
<1>3. ASSUME NEW d \in Server, NEW e \in Server,
             \/ FollowJob(d, e) \/ ReceiveAccept(d, e, 1)
             \/ ReceiveReject(d, e, 1) \/ AddFollow(d, e)
             \/ FollowRolledBack(d, e) \/ RefuseFollow(d, e)
             \/ \E k \in Admin : Start(k, d, e)
      PROVE  followers' = followers
  BY <1>3 DEF FollowJob, ReceiveAccept, ReceiveReject, AddFollow,
     FollowRolledBack, RefuseFollow, Start, StartUnfollow, StartReject,
     StartAccept, StartRemove, tables
<1>4. ASSUME NEW f \in Server, SaveAccept(f)  PROVE followers' = followers
  BY <1>4 DEF SaveAccept
<1>5. ASSUME NEW k \in Admin, Unfollow(k) \/ RejectSend(k)
      PROVE  followers' = followers
  BY <1>5 DEF Unfollow, RejectSend, tables
<1> QED  BY <1>1, <1>2, <1>3, <1>4, <1>5 DEF OrderlyNext

\* What a step of an orderly history does to the requests.
LEMMA AdminSteps ==
    ASSUME TypeOK, OrderlyNext
    PROVE  \/ admin' = admin
           \/ \E k \in Admin : /\ admin[k] # Idle
                               /\ admin' = [admin EXCEPT ![k] = Idle]
           \/ \E k \in Admin : RejectSave(k)
           \/ \E k \in Admin, s, peer \in Server : Start(k, s, peer)
<1>1. ASSUME NEW s \in Server, NEW d \in Server,
             \/ FollowJob(s, d)
             \/ ReceiveFollow(s, d, 1) \/ ReceiveUndo(s, d, 1)
             \/ ReceiveAccept(s, d, 1) \/ ReceiveReject(s, d, 1)
             \/ AddFollow(s, d) \/ FollowRolledBack(s, d) \/ RefuseFollow(s, d)
      PROVE  admin' = admin
  BY <1>1 DEF FollowJob, ReceiveFollow, ReceiveUndo, ReceiveAccept,
     ReceiveReject, AddFollow, FollowRolledBack, RefuseFollow
<1>2. ASSUME NEW f \in Server, SaveAccept(f)  PROVE admin' = admin
  BY <1>2 DEF SaveAccept
<1>3. ASSUME NEW k \in Admin,
             Unfollow(k) \/ RejectSend(k) \/ AcceptSave(k) \/ RemoveDestroy(k)
      PROVE  admin[k] # Idle /\ admin' = [admin EXCEPT ![k] = Idle]
  <2>1. admin[k] # Idle
    BY <1>3, AdminTyped DEF Unfollow, RejectSend, AcceptSave, RemoveDestroy
  <2> QED  BY <1>3, <2>1 DEF Unfollow, RejectSend, AcceptSave, RemoveDestroy
<1> QED  BY <1>1, <1>2, <1>3 DEF OrderlyNext

\* A request starts alone on the row its validator loaded.
LEMMA StartLoads ==
    ASSUME TypeOK, NEW k \in Admin, NEW s \in Server, NEW peer \in Server,
           Start(k, s, peer), orderly'
    PROVE  /\ ~Held(s, peer)
           /\ \E label, row : label # "idle" /\ Load(k, s, peer, label, row)
           /\ Loaded(k)'
<1>1. ASSUME NEW label, NEW row, Load(k, s, peer, label, row)
      PROVE  /\ admin'[k].pc = label /\ admin'[k].at = s
             /\ admin'[k].peer = peer /\ admin'[k].inst = row /\ row # None
  BY <1>1 DEF Load, TypeOK
<1>2. following' = following /\ followers' = followers
  BY DEF Start, StartUnfollow, StartReject, StartAccept, StartRemove, tables
<1>3. ~Held(s, peer)
  BY Zenon DEF Start, StartUnfollow, StartReject, StartAccept, StartRemove
<1>4. CASE StartUnfollow(k, s, peer)
  <2>1. Load(k, s, peer, "unfollow", following[s][peer])
        /\ following[s][peer].state = "accepted"
    BY <1>4, Zenon DEF StartUnfollow
  <2>2. Loaded(k)'  BY <1>1, <1>2, <2>1 DEF Loaded
  <2> QED  BY <1>3, <2>1, <2>2
<1>5. ASSUME NEW label \in {"rejectSave", "acceptSave", "remove"},
             Load(k, s, peer, label, followers[s][peer])
      PROVE  Loaded(k)'
  BY <1>1, <1>2, <1>5 DEF Loaded
<1>6. CASE StartReject(k, s, peer)
  BY <1>3, <1>5, <1>6 DEF StartReject
<1>7. CASE StartAccept(k, s, peer)
  BY <1>3, <1>5, <1>7 DEF StartAccept
<1>8. CASE StartRemove(k, s, peer)
  BY <1>3, <1>5, <1>8 DEF StartRemove
<1> QED  BY <1>4, <1>6, <1>7, <1>8 DEF Start

\* Requests stay one to a row.
LEMMA AloneStep ==
    ASSUME Agreed, OrderlyNext, orderly'
    PROVE  Alone'
<1>0. TypeOK /\ Alone  BY DEF Agreed, AgreeInv
<1>1. ASSUME admin' = admin  PROVE Alone'
  BY <1>0, <1>1 DEF Alone, Works
<1>2. ASSUME NEW k \in Admin, admin[k] # Idle,
             admin' = [admin EXCEPT ![k] = Idle]
      PROVE  Alone'
  <2>1. \A x, y : \A l \in Admin : Works(l, x, y)' => Works(l, x, y)
    BY <1>0, <1>2, EndWorks
  <2> QED  BY <1>0, <2>1 DEF Alone
<1>3. ASSUME NEW k \in Admin, RejectSave(k)  PROVE Alone'
  <2>1. \A x, y : \A l \in Admin : Works(l, x, y)' => Works(l, x, y)
    BY <1>0, <1>3, RejectWorks
  <2> QED  BY <1>0, <2>1 DEF Alone
<1>4. ASSUME NEW k \in Admin, NEW s \in Server, NEW peer \in Server,
             Start(k, s, peer)
      PROVE  Alone'
  <2>1. ~Held(s, peer)  BY <1>0, <1>4, StartLoads
  <2>2. PICK label, row : label # "idle" /\ Load(k, s, peer, label, row)
    BY <1>0, <1>4, StartLoads
  <2>3. \A x, y : \A l \in Admin :
          Works(l, x, y)' => Works(l, x, y) \/ (l = k /\ s = x /\ peer = y)
    BY <1>0, <2>2, LoadWorks
  <2>4. \A l \in Admin : ~Works(l, s, peer)  BY <2>1 DEF Held, Works
  <2> QED  BY <1>0, <2>3, <2>4 DEF Alone
<1> QED  BY <1>0, <1>1, <1>2, <1>3, <1>4, AdminSteps

\* A request that is not at work keeps the row it loaded.
LEMMA LoadedKept ==
    ASSUME Agreed, OrderlyNext, orderly', NEW k \in Admin, admin[k] # Idle,
           admin'[k] = admin[k]
    PROVE  Loaded(k)'
<1> DEFINE s == admin[k].at
           peer == admin[k].peer
<1>0. TypeOK /\ Alone /\ Loaded(k)  BY DEF Agreed, AgreeInv
<1>1. s \in Server /\ peer \in Server /\ admin[k].inst \in Row
      /\ admin[k].pc # "idle"
  <2>1. admin[k] \in AdminRow  BY <1>0 DEF TypeOK
  <2>2. admin[k] \in
          [ pc : {"unfollow", "rejectSave", "rejectSend", "acceptSave", "remove"},
            at : Server, peer : Server, inst : Row ]
    BY <2>1 DEF AdminRow
  <2> QED  BY <2>2
<1>2. Works(k, s, peer) /\ Held(s, peer)  BY DEF Works, Held
<1>3. \A l \in Admin : Works(l, s, peer) => l = k  BY <1>0, <1>1, <1>2 DEF Alone
<1>4. ~RejectSave(k) /\ ~AcceptSave(k) /\ ~RemoveDestroy(k) /\ ~Unfollow(k)
  <2>1. admin' # [admin EXCEPT ![k] = Idle]  BY <1>0 DEF TypeOK
  <2>2. ASSUME RejectSave(k)  PROVE FALSE
    <3>1. admin'[k].pc = "rejectSend"  BY <1>0, <2>2, RejectWorks
    <3>2. admin[k].pc = "rejectSave"  BY <2>2 DEF RejectSave
    <3> QED  BY <3>1, <3>2
  <2> QED  BY <2>1, <2>2 DEF AcceptSave, RemoveDestroy, Unfollow
<1>5. followers'[s][peer] = followers[s][peer]
  <2>1. \A l \in Admin : RejectSave(l) \/ AcceptSave(l) \/ RemoveDestroy(l)
          => ~Works(l, s, peer)
    BY <1>3, <1>4
  <2> QED  BY <1>0, <1>1, <1>2, <2>1, FollowersKept
<1>6. following[s][peer] # None =>
        /\ following'[s][peer] # None
        /\ following'[s][peer].id = following[s][peer].id
  <2>1. \A l \in Admin : Unfollow(l) => ~Works(l, s, peer)  BY <1>3, <1>4
  <2> QED  BY <1>0, <1>1, <2>1, FollowingKept
<1>7. admin'[k].at = s /\ admin'[k].peer = peer  OBVIOUS
<1> HIDE DEF s, peer
<1>8. Loaded(k)' <=>
        /\ admin[k].pc = "unfollow" =>
             /\ following'[s][peer] # None
             /\ following'[s][peer].id = admin[k].inst.id
             /\ admin[k].inst.state = "accepted"
        /\ admin[k].pc \in {"rejectSave", "acceptSave", "remove"} =>
             /\ followers'[s][peer] # None
             /\ followers'[s][peer].id = admin[k].inst.id
        /\ admin[k].pc = "rejectSend" =>
             /\ followers'[s][peer] # None
             /\ followers'[s][peer].state = "rejected"
  BY DEF Loaded, s, peer
<1>9. Loaded(k) <=>
        /\ admin[k].pc = "unfollow" =>
             /\ following[s][peer] # None
             /\ following[s][peer].id = admin[k].inst.id
             /\ admin[k].inst.state = "accepted"
        /\ admin[k].pc \in {"rejectSave", "acceptSave", "remove"} =>
             /\ followers[s][peer] # None
             /\ followers[s][peer].id = admin[k].inst.id
        /\ admin[k].pc = "rejectSend" =>
             /\ followers[s][peer] # None
             /\ followers[s][peer].state = "rejected"
  BY DEF Loaded, s, peer
<1> QED  BY <1>0, <1>5, <1>6, <1>8, <1>9

\* rejectFollower saved the state: the row it loaded is rejected.
LEMMA RejectLoaded ==
    ASSUME Agreed, NEW k \in Admin, RejectSave(k)
    PROVE  Loaded(k)'
<1> DEFINE s == admin[k].at
           peer == admin[k].peer
<1>0. TypeOK /\ Alone /\ admin[k].pc = "rejectSave" /\ admin[k] # Idle
  BY RejectWorks DEF Agreed, AgreeInv, RejectSave
<1>1. s \in Server /\ peer \in Server /\ admin[k].inst \in Row
      /\ admin[k] \in AdminRow
  BY <1>0, AdminTyped DEF TypeOK
<1>2. followers[s][peer] # None /\ followers[s][peer].id = admin[k].inst.id
  BY <1>0 DEF Agreed, AgreeInv, Loaded
<1>3. followers'[s][peer] = [followers[s][peer] EXCEPT !.state = "rejected"]
  BY <1>0, <1>1, <1>2 DEF RejectSave, SaveState, TypeOK
<1>4. followers'[s][peer] \in Row /\ followers'[s][peer].state = "rejected"
  <2>1. followers[s][peer] \in Row  BY <1>0, <1>1, <1>2 DEF TypeOK
  <2>2. \A row \in Row : /\ [row EXCEPT !.state = "rejected"] \in Row
                         /\ [row EXCEPT !.state = "rejected"].state = "rejected"
    BY DEF Row, FollowState
  <2> QED  BY <1>3, <2>1, <2>2
<1>5. followers'[s][peer] # None
  BY <1>4, NoneAssumption DEF NoneAssumption
<1>6. admin'[k].pc = "rejectSend" /\ admin'[k].at = s /\ admin'[k].peer = peer
  <2>1. admin'[k] = [admin[k] EXCEPT !.pc = "rejectSend"]
    BY <1>0, RejectWorks
  <2>2. admin[k] \in
          [ pc : {"unfollow", "rejectSave", "rejectSend", "acceptSave", "remove"},
            at : Server, peer : Server, inst : Row ]
    BY <1>0, <1>1 DEF AdminRow
  <2> QED  BY <2>1, <2>2
<1> HIDE DEF s, peer
<1> QED  BY <1>4, <1>5, <1>6 DEF Loaded

\* Every request holds the row it loaded.
LEMMA LoadedStep ==
    ASSUME Agreed, OrderlyNext, orderly', NEW k \in Admin, admin'[k] # Idle
    PROVE  Loaded(k)'
<1>0. TypeOK /\ Alone  BY DEF Agreed, AgreeInv
<1>1. CASE admin'[k] = admin[k]  BY <1>1, LoadedKept
<1>2. CASE admin'[k] # admin[k]
  <2>1. ~(admin' = admin)  BY <1>2
  <2>2. ASSUME NEW l \in Admin, admin[l] # Idle,
               admin' = [admin EXCEPT ![l] = Idle]
        PROVE  FALSE
    BY <1>0, <1>2, <2>2 DEF TypeOK
  <2>3. ASSUME NEW l \in Admin, RejectSave(l)  PROVE Loaded(k)'
    <3>1. k = l  BY <1>0, <1>2, <2>3, RejectWorks
    <3> QED  BY <2>3, <3>1, RejectLoaded
  <2>4. ASSUME NEW l \in Admin, NEW s \in Server, NEW peer \in Server,
               Start(l, s, peer)
        PROVE  Loaded(k)'
    <3>1. PICK label, row : label # "idle" /\ Load(l, s, peer, label, row)
      BY <1>0, <2>4, StartLoads
    <3>2. k = l  BY <1>0, <1>2, <3>1 DEF Load, TypeOK
    <3> QED  BY <1>0, <2>4, <3>2, StartLoads
  <2> QED  BY <1>0, <2>1, <2>2, <2>3, <2>4, AdminSteps
<1> QED  BY <1>1, <1>2

-----------------------------------------------------------------------------
(* The invariant.                                                           *)

\* No table, channel, inbox or request changes: neither does what they say.
LEMMA QuietStepAgrees ==
    ASSUME UNCHANGED <<following, followers, channel, inbox, admin, orderly>>,
           UNCHANGED lastId, AgreeInv
    PROVE  AgreeInv'
BY DEF AgreeInv, Given, NotUndone, Alone, Works, Loaded, PairInv, Asked, Answered, Becomes,
       Follows, Doing, Accepted

\* Nothing is in flight at first and there is no row.
LEMMA InitAgrees == Init => AgreeInv
<1> SUFFICES ASSUME Init PROVE AgreeInv
  OBVIOUS
<1>1. \A k \in Admin : admin[k] = Idle  BY DEF Init
<1>2. Alone  BY <1>1 DEF Alone, Works
<1>3. ASSUME NEW f \in Server, NEW t \in Server  PROVE PairInv(f, t)
  <2>1. channel[f][t] = <<>> /\ following[f][t] = None /\ followers[t][f] = None
    BY DEF Init
  <2>2. \A i \in DOMAIN channel[f][t] : FALSE  BY <2>1
  <2> QED  BY <2>1, <2>2 DEF PairInv, Asked, Answered, Newest
<1>4. Given /\ \A f, t \in Server : NotUndone(f, t)
  <2>1. \A f, t \in Server : following[f][t] = None  BY DEF Init
  <2>2. \A f \in Server : inbox[f].pc # "accept"  BY DEF Init, Idle
  <2> QED  BY <2>1, <2>2 DEF Given, NotUndone
<1> QED  BY <1>1, <1>2, <1>3, <1>4 DEF AgreeInv

\* Every step of an orderly history keeps the rows of every pair in step.
LEMMA OrderlyPairs ==
    ASSUME Agreed, OrderlyNext, orderly',
           NEW f \in Server, NEW t \in Server, f # t
    PROVE  PairInv(f, t)'
<1>0. PairInv(f, t)  BY DEF Agreed, AgreeInv
<1>1. ASSUME NEW s \in Server, NEW d \in Server, s # d,
             \/ FollowJob(s, d)
             \/ ReceiveFollow(s, d, 1) \/ ReceiveUndo(s, d, 1)
             \/ ReceiveAccept(s, d, 1) \/ ReceiveReject(s, d, 1)
             \/ FollowRolledBack(s, d) \/ RefuseFollow(s, d)
      PROVE  PairInv(f, t)'
  <2>1. CASE FollowJob(s, d)  BY <1>1, <2>1, FollowJobAgrees
  <2>2. CASE ReceiveFollow(s, d, 1)  BY <1>1, <2>2, ReceiveFollowAgrees
  <2>3. CASE ReceiveUndo(s, d, 1)  BY <1>1, <2>3, ReceiveUndoAgrees
  <2>4. CASE ReceiveAccept(s, d, 1)  BY <1>1, <2>4, ReceiveAcceptAgrees
  <2>5. CASE ReceiveReject(s, d, 1)  BY <1>1, <2>5, ReceiveRejectAgrees
  <2>6. CASE FollowRolledBack(s, d)  BY <1>1, <2>6, RolledBackAgrees
  <2>7. CASE RefuseFollow(s, d)  BY <1>1, <2>7, RefuseFollowAgrees
  <2> QED  BY <1>1, <2>1, <2>2, <2>3, <2>4, <2>5, <2>6, <2>7
<1>2. ASSUME NEW s \in Server, NEW d \in Server, AddFollow(s, d)
      PROVE  PairInv(f, t)'
  BY <1>0, <1>2 DEF AddFollow, tables, PairInv, Asked, Answered, Becomes,
                    Follows, Doing, Works, Accepted
<1>3. ASSUME NEW k \in Admin, NEW s \in Server, NEW d \in Server, s # d,
             Start(k, s, d)
      PROVE  PairInv(f, t)'
  BY <1>3, StartAgrees DEF Start
<1>4. ASSUME NEW g \in Server, SaveAccept(g)  PROVE PairInv(f, t)'
  BY <1>4, SaveAcceptAgrees
<1>5. ASSUME NEW k \in Admin, Unfollow(k) \/ RejectSave(k) \/ RejectSend(k)
                                \/ AcceptSave(k) \/ RemoveDestroy(k)
      PROVE  PairInv(f, t)'
  <2>1. CASE Unfollow(k)  BY <2>1, UnfollowAgrees
  <2>2. CASE RejectSave(k) \/ RejectSend(k) \/ AcceptSave(k) \/ RemoveDestroy(k)
    BY <2>2, TargetAgrees
  <2> QED  BY <1>5, <2>1, <2>2
<1> QED  BY <1>1, <1>2, <1>3, <1>4, <1>5 DEF OrderlyNext

\* A row that is there before and after a step is the same row.
LEMMA SameRow ==
    ASSUME TypeOK, OrderlyNext, NEW f \in Server, NEW t \in Server,
           following[f][t] # None, following'[f][t] # None
    PROVE  following'[f][t].id = following[f][t].id
<1>1. CASE \E k \in Admin : Unfollow(k) /\ Works(k, f, t)
  <2>1. PICK k \in Admin : Unfollow(k) /\ Works(k, f, t)  BY <1>1
  <2>2. following'[f][t] = DestroyRow(following[f][t], admin[k].inst)
    BY <2>1 DEF Unfollow, Works, TypeOK
  <2> QED  BY <2>2 DEF DestroyRow
<1>2. CASE ~\E k \in Admin : Unfollow(k) /\ Works(k, f, t)
  BY <1>2, FollowingKept
<1> QED  BY <1>1, <1>2

\* Only the follow job makes a row at the follower.
LEMMA NewRowByFollowJob ==
    ASSUME TypeOK, OrderlyNext, NEW f \in Server, NEW t \in Server,
           following[f][t] = None, following'[f][t] # None
    PROVE  FollowJob(f, t)
<1>1. ASSUME following' = following PROVE FALSE
  BY <1>1
<1>2. ASSUME NEW g \in Server, NEW u \in Server, FollowJob(g, u),
             ~FollowJob(f, t)
      PROVE  FALSE
  <2>1. following' = following \/ following' = [following EXCEPT
          ![g][u] = [id |-> lastId + 1, state |-> "pending"]]
    BY <1>2 DEF FollowJob
  <2>2. ~(g = f /\ u = t)  BY <1>2
  <2> DEFINE new == [id |-> lastId + 1, state |-> "pending"]
  <2> HIDE DEF new
  <2>3. CASE following' = [following EXCEPT ![g][u] = new]
    <3>1. following'[f][t] = following[f][t]  BY <2>2, <2>3 DEF TypeOK
    <3> QED  BY <3>1
  <2>4. CASE following' = following  BY <2>4
  <2> QED  BY <2>1, <2>3, <2>4 DEF new
<1>3. ASSUME NEW u \in Server, NEW g \in Server, ReceiveReject(u, g, 1)
      PROVE  FALSE
  BY <1>3 DEF ReceiveReject, TypeOK
<1>4. ASSUME NEW g \in Server, SaveAccept(g) PROVE FALSE
  BY <1>4 DEF SaveAccept, SaveState, TypeOK
<1>5. ASSUME NEW k \in Admin, Unfollow(k) PROVE FALSE
  BY <1>5 DEF Unfollow, DestroyRow, TypeOK
<1>6. ASSUME NEW d \in Server, NEW e \in Server,
             \/ ReceiveFollow(d, e, 1) \/ ReceiveUndo(d, e, 1)
             \/ ReceiveAccept(d, e, 1) \/ AddFollow(d, e)
             \/ FollowRolledBack(d, e) \/ RefuseFollow(d, e)
             \/ \E k \in Admin : Start(k, d, e)
      PROVE  FALSE
  BY <1>1, <1>6 DEF ReceiveFollow, ReceiveUndo, ReceiveAccept, AddFollow,
     FollowRolledBack, RefuseFollow, Start, StartUnfollow, StartReject,
     StartAccept, StartRemove, tables
<1>7. ASSUME NEW k \in Admin,
             RejectSave(k) \/ RejectSend(k) \/ AcceptSave(k) \/ RemoveDestroy(k)
      PROVE  FALSE
  BY <1>1, <1>7 DEF RejectSave, RejectSend, AcceptSave, RemoveDestroy, tables
<1> QED  BY <1>2, <1>3, <1>4, <1>5, <1>6, <1>7 DEF OrderlyNext

\* Only an Accept makes the inbox manager work on a row.
LEMMA InboxByAccept ==
    ASSUME TypeOK, OrderlyNext, NEW f \in Server, inbox'[f].pc = "accept",
           inbox'[f] # inbox[f]
    PROVE  \E t \in Server : t # f /\ ReceiveAccept(t, f, 1)
<1>1. ASSUME NEW d \in Server, NEW e \in Server,
             \/ FollowJob(d, e)
             \/ ReceiveFollow(d, e, 1) \/ ReceiveUndo(d, e, 1)
             \/ ReceiveReject(d, e, 1) \/ AddFollow(d, e)
             \/ FollowRolledBack(d, e) \/ RefuseFollow(d, e)
             \/ \E k \in Admin : Start(k, d, e)
      PROVE  FALSE
  BY <1>1 DEF FollowJob, ReceiveFollow, ReceiveUndo, ReceiveReject, AddFollow,
     FollowRolledBack, RefuseFollow, Start, StartUnfollow, StartReject,
     StartAccept, StartRemove
<1>2. ASSUME NEW k \in Admin,
             \/ Unfollow(k) \/ RejectSave(k) \/ RejectSend(k)
             \/ AcceptSave(k) \/ RemoveDestroy(k)
      PROVE  FALSE
  BY <1>2 DEF Unfollow, RejectSave, RejectSend, AcceptSave, RemoveDestroy
<1>3. ASSUME NEW g \in Server, SaveAccept(g) PROVE FALSE
  BY <1>3 DEF SaveAccept, Idle, TypeOK
<1>4. ASSUME NEW t \in Server, NEW g \in Server, ReceiveAccept(t, g, 1)
      PROVE  g = f
  BY <1>4 DEF ReceiveAccept, TypeOK
<1> QED  BY <1>1, <1>2, <1>3, <1>4 DEF OrderlyNext

\* An Undo goes out only with the row, and a new follow waits for it.
LEMMA NotUndoneStep ==
    ASSUME Agreed, OrderlyNext, orderly',
           NEW f \in Server, NEW t \in Server, f # t
    PROVE  NotUndone(f, t)'
<1> SUFFICES ASSUME t \in ManualApproval, following'[f][t] # None
             PROVE  channel'[f][t] \in Seq(Lasting)
  BY DEF NotUndone
<1>0. TypeOK /\ NotUndone(f, t)  BY DEF Agreed, AgreeInv
<1>1. /\ "Follow" \in Lasting /\ "Accept" \in Lasting /\ "Reject" \in Lasting
      /\ <<"Accept">> \in Seq(Lasting) /\ <<"Reject">> \in Seq(Lasting)
      /\ <<>> \in Seq(Lasting)
  BY DEF Lasting, Activity
<1>2. CASE following[f][t] = None
  <2>1. FollowJob(f, t)
    BY <1>0, <1>2, NewRowByFollowJob
  <2>2. Free(channel[f][t], Asking)
    BY <1>2, <2>1, NewFollowAsks
  <2>3. channel[f][t] \in Seq(Lasting)
    <3>1. channel[f][t] \in Seq(Activity)  BY <1>0 DEF TypeOK
    <3>2. \A i \in 1 .. Len(channel[f][t]) : channel[f][t][i] \in Lasting
      BY <2>2, <3>1, ElementOfSeq, LenProperties DEF Free, Asking, Lasting
    <3> QED  BY <3>1, <3>2, LenProperties
  <2>4. Post(f, t, "Follow")  BY <1>2, <2>1 DEF FollowJob, Asks
  <2> QED  BY <1>0, <1>1, <2>3, <2>4, PostWithin
<1>3. CASE following[f][t] # None
  <2>0. channel[f][t] \in Seq(Lasting)  BY <1>0, <1>3 DEF NotUndone
  <2>1. ASSUME NEW s \in Server, NEW d \in Server, NEW a \in Lasting,
               Post(s, d, a)
        PROVE  channel'[f][t] \in Seq(Lasting)
    BY <1>0, <2>0, <2>1, PostWithin
  <2>2. ASSUME NEW s \in Server, NEW d \in Server, s # d,
               1 \in DOMAIN channel[s][d], NEW answers \in Seq(Lasting),
               Answer(s, d, 1, answers)
        PROVE  channel'[f][t] \in Seq(Lasting)
    BY <1>0, <2>0, <2>2, AnswerWithin
  <2>3. ASSUME NEW s \in Server, NEW d \in Server, s # d,
               \/ FollowJob(s, d) \/ AddFollow(s, d)
               \/ FollowRolledBack(s, d) \/ \E k \in Admin : Start(k, s, d)
        PROVE  channel'[f][t] \in Seq(Lasting)
    <3>1. \/ channel' = channel \/ Post(s, d, "Follow")
          \/ Post(d, s, "Accept")
          \/ Post(s, d, "Accept") \/ Post(s, d, "Reject")
      BY <2>3 DEF FollowJob, AddFollow, FollowRolledBack, Start, StartUnfollow,
                  StartReject, StartAccept, StartRemove
    <3> QED  BY <1>1, <2>0, <2>1, <2>3, <3>1
  <2>4. ASSUME NEW s \in Server, NEW d \in Server, s # d,
               ReceiveFollow(s, d, 1)
        PROVE  channel'[f][t] \in Seq(Lasting)
    <3>1. FollowAnswer(s, d) \in Seq(Lasting)
      BY <1>0, <1>1, FollowAnswerTyped
    <3>2. 1 \in DOMAIN channel[s][d] /\ Answer(s, d, 1, FollowAnswer(s, d))
      BY <2>4 DEF ReceiveFollow, Taken
    <3> QED  BY <2>2, <2>4, <3>1, <3>2
  <2>5. ASSUME NEW s \in Server, NEW d \in Server, s # d,
               \/ ReceiveUndo(s, d, 1) \/ ReceiveAccept(s, d, 1)
               \/ ReceiveReject(s, d, 1)
        PROVE  channel'[f][t] \in Seq(Lasting)
    <3>1. 1 \in DOMAIN channel[s][d] /\ Answer(s, d, 1, <<>>)
      BY <2>5 DEF ReceiveUndo, ReceiveAccept, ReceiveReject, Taken
    <3> QED  BY <1>1, <2>2, <2>5, <3>1
  <2>6. ASSUME NEW s \in Server, NEW d \in Server, s # d, RefuseFollow(s, d)
        PROVE  channel'[f][t] \in Seq(Lasting)
    <3>1. 1 \in DOMAIN channel[s][d] /\ Answer(s, d, 1, <<"Reject">>)
      BY <1>0, <2>6, FirstOf DEF RefuseFollow
    <3> QED  BY <1>1, <2>2, <2>6, <3>1
  <2>7. ASSUME NEW k \in Admin, Unfollow(k)
        PROVE  channel'[f][t] \in Seq(Lasting)
    <3>1. admin[k] # Idle /\ admin[k].at \in Server /\ admin[k].peer \in Server
      BY <1>0, <2>7, AdminTyped DEF Unfollow
    <3>2. ~(admin[k].at = f /\ admin[k].peer = t)
      <4> SUFFICES ASSUME admin[k].at = f, admin[k].peer = t PROVE FALSE
        OBVIOUS
      <4>1. following[f][t].id = admin[k].inst.id
        BY <2>7, <3>1 DEF Agreed, AgreeInv, Loaded, Unfollow
      <4>2. following'[f][t] = None
        BY <1>0, <1>3, <2>7, <4>1 DEF Unfollow, DestroyRow, TypeOK
      <4> QED  BY <4>2
    <3>3. channel' = channel \/ Post(admin[k].at, admin[k].peer, "Undo")
      BY <2>7 DEF Unfollow
    <3> QED  BY <1>0, <2>0, <3>1, <3>2, <3>3, PostWithin
  <2>8. ASSUME NEW k \in Admin,
               RejectSave(k) \/ RejectSend(k) \/ AcceptSave(k) \/ RemoveDestroy(k)
        PROVE  channel'[f][t] \in Seq(Lasting)
    <3>1. CASE RejectSend(k)
      <4>1. admin[k].at \in Server /\ admin[k].peer \in Server
        BY <1>0, <3>1, AdminTyped DEF RejectSend
      <4> QED  BY <1>1, <2>1, <3>1, <4>1 DEF RejectSend
    <3>2. CASE RejectSave(k) \/ AcceptSave(k) \/ RemoveDestroy(k)
      BY <2>0, <3>2 DEF RejectSave, AcceptSave, RemoveDestroy
    <3> QED  BY <2>8, <3>1, <3>2
  <2>9. ASSUME NEW g \in Server, SaveAccept(g)
        PROVE  channel'[f][t] \in Seq(Lasting)
    BY <2>0, <2>9 DEF SaveAccept
  <2> QED
    BY <2>3, <2>4, <2>5, <2>6, <2>7, <2>8, <2>9 DEF OrderlyNext
<1> QED  BY <1>2, <1>3

\* Primary keys are given in increasing order.
LEMMA GivenStep ==
    ASSUME Agreed, OrderlyNext
    PROVE  Given'
<1>0. TypeOK /\ Given  BY DEF Agreed, AgreeInv
<1>1. lastId \in Nat /\ lastId' \in Nat /\ lastId <= lastId'
  <2>1. ASSUME NEW s \in Server, NEW d \in Server,
               FollowJob(s, d) \/ ReceiveFollow(s, d, 1)
        PROVE  lastId' = lastId \/ lastId' = lastId + 1
    BY <2>1 DEF FollowJob, ReceiveFollow
  <2>2. ASSUME NEW s \in Server, NEW d \in Server,
               \/ ReceiveUndo(s, d, 1) \/ ReceiveAccept(s, d, 1)
               \/ ReceiveReject(s, d, 1) \/ AddFollow(s, d)
               \/ FollowRolledBack(s, d) \/ RefuseFollow(s, d)
               \/ \E k \in Admin : Start(k, s, d)
        PROVE  lastId' = lastId
    BY <2>2 DEF ReceiveUndo, ReceiveAccept, ReceiveReject, AddFollow,
       FollowRolledBack, RefuseFollow, Start, StartUnfollow, StartReject,
       StartAccept, StartRemove
  <2>3. ASSUME NEW k \in Admin,
               \/ Unfollow(k) \/ RejectSave(k) \/ RejectSend(k)
               \/ AcceptSave(k) \/ RemoveDestroy(k)
        PROVE  lastId' = lastId
    BY <2>3 DEF Unfollow, RejectSave, RejectSend, AcceptSave, RemoveDestroy
  <2>4. ASSUME NEW g \in Server, SaveAccept(g)
        PROVE  lastId' = lastId
    BY <2>4 DEF SaveAccept
  <2>5. lastId' = lastId \/ lastId' = lastId + 1
    BY <2>1, <2>2, <2>3, <2>4 DEF OrderlyNext
  <2> QED  BY <1>0, <2>5 DEF TypeOK
<1>2. ASSUME NEW f \in Server, NEW t \in Server, following'[f][t] # None
      PROVE  following'[f][t].id <= lastId'
  <2>1. CASE following[f][t] = None
    <3>1. FollowJob(f, t)  BY <1>0, <1>2, <2>1, NewRowByFollowJob
    <3>2. /\ following' = [following EXCEPT
                             ![f][t] = [id |-> lastId + 1, state |-> "pending"]]
          /\ lastId' = lastId + 1
      BY <2>1, <3>1 DEF FollowJob
    <3>3. following'[f][t] = [id |-> lastId + 1, state |-> "pending"]
      BY <1>0, <3>2 DEF TypeOK
    <3> QED  BY <1>1, <3>2, <3>3
  <2>2. CASE following[f][t] # None
    <3>1. following[f][t] \in Row /\ following[f][t].id <= lastId
      BY <1>0, <2>2 DEF TypeOK, Given
    <3>2. following'[f][t].id = following[f][t].id
      BY <1>0, <1>2, <2>2, SameRow
    <3>3. following[f][t].id \in Nat  BY <3>1 DEF Row
    <3> QED  BY <1>1, <3>1, <3>2, <3>3
  <2> QED  BY <2>1, <2>2
<1>3. ASSUME NEW f \in Server, inbox'[f].pc = "accept"
      PROVE  inbox'[f].inst.id <= lastId'
  <2>1. CASE inbox'[f] = inbox[f]
    <3>1. inbox[f] # Idle /\ inbox[f] \in InboxRow
      BY <1>0, <1>3, <2>1 DEF TypeOK, Idle
    <3>2. inbox[f].inst \in Row  BY <3>1 DEF InboxRow
    <3>3. inbox[f].inst.id \in Nat  BY <3>2 DEF Row
    <3>4. inbox[f].inst.id <= lastId  BY <1>0, <1>3, <2>1 DEF Given
    <3> QED  BY <1>1, <2>1, <3>3, <3>4
  <2>2. CASE inbox'[f] # inbox[f]
    <3>1. PICK t \in Server : t # f /\ ReceiveAccept(t, f, 1)
      BY <1>0, <1>3, <2>2, InboxByAccept
    <3>2. /\ AcceptChanges(following[f][t])
          /\ inbox' = [inbox EXCEPT ![f] = [ pc |-> "accept", peer |-> t,
                                             inst |-> following[f][t] ]]
      BY <2>2, <3>1 DEF ReceiveAccept
    <3>3. inbox'[f].inst = following[f][t]  BY <1>0, <3>2 DEF TypeOK
    <3>4. following[f][t] \in Row /\ following[f][t].id <= lastId
      BY <1>0, <3>2 DEF AcceptChanges, TypeOK, Given
    <3>5. following[f][t].id \in Nat  BY <3>4 DEF Row
    <3> QED  BY <1>1, <3>3, <3>4, <3>5
  <2> QED  BY <2>1, <2>2
<1> QED  BY <1>2, <1>3 DEF Given

\* So AgreeInv is inductive.
LEMMA StepAgrees ==
    ASSUME TypeOK, AgreeInv, [Next]_vars
    PROVE  AgreeInv'
<1>1. CASE UNCHANGED vars
  BY <1>1, QuietStepAgrees DEF vars, tables, history
<1>2. CASE Next /\ orderly'
  <2>1. orderly /\ OrderlyNext  BY <1>2, OrderlyStep
  <2>2. Agreed  BY <2>1 DEF Agreed
  <2>3. Alone'  BY <1>2, <2>1, <2>2, AloneStep
  <2>4. \A k \in Admin : admin'[k] # Idle => Loaded(k)'
    BY <1>2, <2>1, <2>2, LoadedStep
  <2>5. \A f, t \in Server : f # t => PairInv(f, t)' /\ NotUndone(f, t)'
    BY <1>2, <2>1, <2>2, OrderlyPairs, NotUndoneStep
  <2>6. Given'  BY <1>2, <2>1, <2>2, GivenStep
  <2> QED  BY <2>3, <2>4, <2>5, <2>6 DEF AgreeInv
<1>3. CASE Next /\ ~orderly'  BY <1>3 DEF AgreeInv
<1> QED  BY <1>1, <1>2, <1>3

\* With nothing in flight the invariant speaks of the two rows alone.
LEMMA QuietAgrees == TypeOK /\ AgreeInv => Agreement
<1> SUFFICES ASSUME AgreeInv, orderly, Quiet, NEW p \in Pair
             PROVE  Accepted(following[p[1]][p[2]])
                      <=> Accepted(followers[p[2]][p[1]])
  BY DEF Agreement
<1>1. PICK f \in Server, t \in Server : f = p[1] /\ t = p[2] /\ f # t
  BY DEF Pair
<1>2. /\ channel[f][t] = <<>> /\ channel[t][f] = <<>>
      /\ inbox[f] = Idle /\ \A k \in Admin : admin[k] = Idle
  BY DEF Quiet
<1>3. \A A : Free(channel[f][t], A) /\ Free(channel[t][f], A)
  BY <1>2 DEF Free
<1>4. \A L : ~Doing(t, f, L)  BY <1>2 DEF Doing, Works
<1>5. Becomes(f, t) <=> Accepted(following[f][t])
  BY <1>2 DEF Becomes, Idle
<1>6. Follows(f, t) <=> Accepted(followers[t][f])  BY <1>4 DEF Follows
<1>7. Asked(f, t) /\ Answered(f, t)  BY <1>1 DEF AgreeInv, PairInv
<1>8. CASE following[f][t] = None
  BY <1>1, <1>3, <1>7, <1>8 DEF Asked, Accepted
<1>9. CASE following[f][t] # None
  BY <1>1, <1>3, <1>4, <1>5, <1>6, <1>7, <1>9 DEF Answered
<1> QED  BY <1>1, <1>8, <1>9

\* Whatever is followed, unfollowed, accepted, rejected and removed, by
\* however many administrators and servers, at targets that approve by hand and
\* at those that do not, and whatever Follow is refused or processed again after
\* a rollback: once the activities and requests of an orderly history are
\* through, the row of a follower is accepted exactly if the row of its target
\* is.  Agreement names what an orderly history leaves out, a new follow of a
\* server that approves by hand before the earlier one is through among it.
THEOREM RowsAgree == Spec => []Agreement
<1>1. TypeOK /\ AgreeInv /\ [Next]_vars => AgreeInv'  BY StepAgrees
<1> QED  BY <1>1, InitAgrees, QuietAgrees, TypeInvariant, PTL DEF Spec

=============================================================================
