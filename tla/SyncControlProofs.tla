------------------------- MODULE SyncControlProofs -------------------------
(***************************************************************************)
(* Proofs about SyncControl, for any accounts and any number of calls:     *)
(* one sync thread, an answer to every sync, no answer used of a cancelled *)
(* client, and each user's data in that user's directory.                  *)
(***************************************************************************)
EXTENDS SyncControl, TLAPS

-----------------------------------------------------------------------------
(* The invariant, part by part.                                            *)

\* The sync thread: a call in flight belongs to a calling stage, its client's
\* flag outlives it, and without a token no note is ever asked for.
ThreadInv ==
    /\ th.phase # "send" => th.stage \in UserCall \cup NoteCall
    /\ th.doomed /\ th.phase \in {"wait", "wake"} => th.cancelled
    /\ th.phase = "got" => ~th.doomed
    /\ th.stage \in NoteCall \ {"state"} => th.token # NoUser

\* The end of the thread is the last that the main thread hears of it, and
\* m_isThreadRunning stands until it is heard.
Heard(sig) == \E i \in 1 .. Len(queue) : queue[i] = sig

QueueInv ==
    /\ \A i \in 1 .. Len(queue) :
            queue[i] = "ended" => i = Len(queue) /\ th.stage = "none"
    /\ queue # <<>> /\ th.stage = "none" => queue[Len(queue)] = "ended"
    /\ es.running <=> th.stage # "none" \/ Heard("ended")

\* A sync that the main thread has not let go of: at its end it is answered,
\* or the answer is on its way.
AnswerInv ==
    es.running /\ es.inProgress /\ ~es.loose /\ ~Busy
        => es.answered \/ Heard("ok") \/ Heard("bad")

\* While the thread of such a sync may store, the indicator is on, nobody is
\* at the login page, and the directory is that of the token's user.
OwnInv ==
    /\ es.inProgress /\ ~es.running => ses.page # "login"
    /\ Busy /\ ~es.loose => es.inProgress /\ ses.page # "login"
    /\ Busy /\ ~es.loose /\ th.stage # "start" => th.token \in {NoUser, ses.dir}

-----------------------------------------------------------------------------
(* Types.                                                                  *)

\* What the main thread's handlers make of a session and of a client.
LEMMA SessionTypes ==
    ASSUME NEW s \in Session, NEW ok
    PROVE  /\ LoggedOut(s) \in Session
           /\ SyncFinished(s, ok) \in Session
           /\ SyncFinished(s, ok).dir = s.dir
           /\ SyncFinished(s, ok).page # "login" => s.page # "login"
  BY DEF Session, Account, LoggedOut, LogoutRequested, SyncFinished

LEMMA CancelTypes ==
    ASSUME TypeOK
    PROVE  /\ CancelSync \in Sync
           /\ CancelClient(th) \in Worker
  BY DEF TypeOK, Sync, Worker, Phase, CancelSync, CancelClient

LEMMA NoThreadType == NoThread \in Worker
  BY MaxCallsAssumption DEF NoThread, Worker, Stage, Phase, Account

LEMMA ConnectedTypes ==
    ASSUME TypeOK, NEW s \in Session, NEW e \in Sync, NetworkConnected(s, e)
    PROVE  ses' \in Session /\ es' \in Sync /\ th' \in Worker
  <1>1. /\ [e EXCEPT !.running = TRUE] \in Sync
        /\ [e EXCEPT !.inProgress = FALSE, !.answered = TRUE] \in Sync
    BY DEF Sync
  <1>2. [NoThread EXCEPT !.stage = "start"] \in Worker
    BY NoThreadType DEF Worker, Stage
  <1>3. SyncFinished(s, FALSE) \in Session
    BY SessionTypes
  <1> QED BY <1>1, <1>2, <1>3 DEF TypeOK, NetworkConnected

LEMMA BeginTypes ==
    ASSUME TypeOK, NEW s \in Session, BeginSync(s)
    PROVE  /\ ses' \in Session /\ es' \in Sync /\ th' \in Worker
           /\ conn' \in {"off", "connecting", "on"}
  <1>1. /\ Requested \in Sync
        /\ [Requested EXCEPT !.inProgress = FALSE, !.answered = TRUE] \in Sync
    BY DEF TypeOK, Requested, Sync
  <1>2. SyncFinished(s, FALSE) \in Session
    BY SessionTypes
  <1>3. CASE conn' = "on" /\ NetworkConnected(s, Requested)
    BY <1>1, <1>3, ConnectedTypes DEF TypeOK
  <1> QED BY <1>1, <1>2, <1>3 DEF TypeOK, BeginSync

LEMMA GoOnType ==
    ASSUME TypeOK, GoOn
    PROVE  th' \in Worker
  <1>1. Later(th.stage) \subseteq Stage
    BY DEF Later, Stage, NoteCall
  <1>2. PICK s \in Later(th.stage) :
            \/ th' = [th EXCEPT !.stage = s, !.phase = "send"]
            \/ /\ th.calls < MaxCalls
               /\ th' = [th EXCEPT !.stage = s, !.phase = "send", !.calls = @ + 1]
    BY DEF GoOn
  <1>3. s \in Stage /\ "send" \in Phase
    BY <1>1 DEF Phase
  <1>4. th.calls < MaxCalls => th.calls + 1 \in 0 .. MaxCalls
    BY MaxCallsAssumption DEF TypeOK, Worker
  <1>5. CASE th' = [th EXCEPT !.stage = s, !.phase = "send"]
    BY <1>3, <1>5 DEF TypeOK, Worker
  <1>6. CASE /\ th.calls < MaxCalls
             /\ th' = [th EXCEPT !.stage = s, !.phase = "send", !.calls = @ + 1]
    BY <1>3, <1>4, <1>6 DEF TypeOK, Worker
  <1> QED BY <1>2, <1>5, <1>6

LEMMA PostType ==
    ASSUME TypeOK, NEW sig \in Signal, Post(sig)
    PROVE  queue' \in Seq(Signal)
  BY DEF TypeOK, Post

LEMMA StageTypes == /\ "closing" \in Stage /\ "gap" \in Stage /\ "send" \in Phase
                    /\ "token" \in Stage /\ "version" \in Stage /\ "state" \in Stage
                    /\ "exit" \in Stage /\ "user" \in Stage
                    /\ Phase = {"send", "wait", "wake", "got"}
                    /\ Signal = {"ok", "bad", "chunk", "ended"}
  BY DEF Stage, Phase, Signal, UserCall, NoteCall

LEMMA TypeStep == TypeOK /\ [Next]_vars => TypeOK'
  <1> SUFFICES ASSUME TypeOK, [Next]_vars PROVE TypeOK'
    OBVIOUS
  <1>1. CASE StartSync
    BY <1>1, BeginTypes DEF TypeOK, StartSync
  <1>2. ASSUME NEW u \in Users, Login(u) PROVE TypeOK'
    <2> DEFINE s == [ses EXCEPT !.user = u, !.dir = u, !.auth = @ \cup {u}]
    <2>1. /\ [s EXCEPT !.page = "start"] \in Session
          /\ [s EXCEPT !.page = "waiting"] \in Session
      BY DEF TypeOK, Session, Account
    <2> QED BY <1>2, <2>1, BeginTypes DEF TypeOK, Login
  <1>3. CASE TryToLogout
    <2>1. /\ [ses EXCEPT !.dialog = TRUE] \in Session
          /\ [ses EXCEPT !.asked = TRUE] \in Session
      BY DEF TypeOK, Session
    <2> QED BY <1>3, <2>1, SessionTypes, CancelTypes DEF TypeOK, TryToLogout
  <1>4. CASE LeaveAccountPage
    BY <1>4 DEF TypeOK, LeaveAccountPage, Session
  <1>5. CASE NetConnecting
    BY <1>5 DEF TypeOK, NetConnecting
  <1>6. CASE NetUp
    BY <1>6, ConnectedTypes DEF TypeOK, NetUp
  <1>7. CASE NetDown
    <2>1. [CancelClient(th) EXCEPT !.stopped = @ \/ th.stage # "none"] \in Worker
      BY CancelTypes DEF Worker
    <2>2. [CancelSync EXCEPT !.answered = TRUE, !.loose = es.loose \/ Busy] \in Sync
      BY CancelTypes DEF Sync, TypeOK, Busy
    <2> QED BY <1>7, <2>1, <2>2, SessionTypes, CancelTypes DEF TypeOK, NetDown
  <1>8. CASE Deliver
    <2>1. queue' \in Seq(Signal)
      BY <1>8 DEF TypeOK, Deliver
    <2>2. ses' \in Session
      <3>1. [ses EXCEPT !.page = IF @ = "waiting" THEN "start" ELSE @] \in Session
        BY DEF TypeOK, Session
      <3> QED BY <1>8, <3>1, SessionTypes DEF TypeOK, Deliver
    <2>3. es' \in Sync
      BY <1>8 DEF TypeOK, Deliver, ThreadFinished, Sync, Busy
    <2> QED BY <1>8, <2>1, <2>2, <2>3 DEF TypeOK, Deliver
  <1>9. CASE ReadToken \/ OpenUserStore \/ OpenNoteStore
    <2>1. th' \in Worker
      <3>1. CASE ReadToken
        <4> DEFINE tok == IF ses.dir \in ses.auth THEN ses.dir ELSE NoUser
        <4>1. tok \in Account
          BY DEF TypeOK, Session, Account
        <4>2. th' = [th EXCEPT !.stage = "token", !.token = tok]
          BY <3>1 DEF ReadToken
        <4> HIDE DEF tok
        <4> QED BY <4>1, <4>2, StageTypes DEF TypeOK, Worker
      <3>2. CASE OpenUserStore
        BY <3>2, StageTypes DEF TypeOK, OpenUserStore, Worker
      <3>3. CASE OpenNoteStore
        <4> DEFINE host == ses.dir \in ses.auth
        <4>1. host \in BOOLEAN
          OBVIOUS
        <4>2. th' = [th EXCEPT !.stage = "state", !.cancelled = FALSE, !.host = host]
          BY <3>3 DEF OpenNoteStore
        <4> HIDE DEF host
        <4> QED BY <4>1, <4>2, StageTypes DEF TypeOK, Worker
      <3> QED BY <1>9, <3>1, <3>2, <3>3
    <2> QED BY <1>9, <2>1 DEF TypeOK, ReadToken, OpenUserStore, OpenNoteStore
  <1>10. CASE Send \/ Reply \/ Uninterrupted \/ MoreToRead
    <2>1. th' \in Worker
      BY <1>10, StageTypes DEF TypeOK, Send, Reply, Uninterrupted, MoreToRead, Worker
    <2> QED BY <1>10, <2>1 DEF TypeOK, Send, Reply, Uninterrupted, MoreToRead
  <1>11. CASE Fail
    <2>1. th' \in Worker
      BY <1>11, StageTypes DEF TypeOK, Fail, FreeUserStore, Close, Worker
    <2> QED BY <1>11, <2>1, PostType, StageTypes DEF TypeOK, Fail
  <1>12. CASE PassOver
    BY <1>12, GoOnType, PostType, StageTypes DEF TypeOK, PassOver
  <1>13. CASE Answer
    <2>1. th' \in Worker
      BY <1>13, GoOnType, StageTypes DEF TypeOK, Answer, FreeUserStore, Close, Worker
    <2>2. ses' \in Session
      BY <1>13 DEF TypeOK, Answer, Session, Worker
    <2>3. queue' \in Seq(Signal)
      BY <1>13, PostType, StageTypes DEF TypeOK, Answer
    <2> QED BY <1>13, <2>1, <2>2, <2>3 DEF TypeOK, Answer
  <1>14. CASE FreeNoteStore
    BY <1>14, StageTypes DEF TypeOK, FreeNoteStore, Worker
  <1>15. CASE EndThread
    BY <1>15, NoThreadType, PostType, StageTypes DEF TypeOK, EndThread
  <1>16. CASE UNCHANGED vars
    BY <1>16 DEF TypeOK, vars
  <1> QED BY <1>1, <1>2, <1>3, <1>4, <1>5, <1>6, <1>7, <1>8, <1>9, <1>10, <1>11,
             <1>12, <1>13, <1>14, <1>15, <1>16 DEF Next, User, Net, Thread

LEMMA TypeInit == Init => TypeOK
  BY NoThreadType DEF Init, TypeOK, Session, Account, Sync

\* Every state of every behaviour is of its types.
THEOREM TypeCorrect == Spec => []TypeOK
  BY TypeInit, TypeStep, PTL DEF Spec

-----------------------------------------------------------------------------
(* The main thread starts a thread or cancels its client, and that is all. *)

Started == th' = [NoThread EXCEPT !.stage = "start"] /\ ~es.running /\ es'.running

Main == User \/ Net \/ Deliver

LEMMA ConnectedStarts ==
    ASSUME NEW s, NEW e \in Sync, NetworkConnected(s, e), e.running = es.running
    PROVE  \/ Started
           \/ th' = th /\ es'.running = es.running
  BY DEF NetworkConnected, MayStart, Started, Sync

LEMMA BeginStarts ==
    ASSUME TypeOK, NEW s, BeginSync(s)
    PROVE  \/ Started
           \/ th' = th /\ es'.running = es.running
  <1>1. Requested \in Sync /\ Requested.running = es.running
    BY DEF TypeOK, Requested, Sync
  <1>2. CASE NetworkConnected(s, Requested)
    BY <1>1, <1>2, ConnectedStarts
  <1> QED BY <1>1, <1>2 DEF BeginSync, Sync

LEMMA CancelKeeps ==
    ASSUME TypeOK
    PROVE  LET t == CancelClient(th)
           IN  /\ t.stage = th.stage /\ t.token = th.token
               /\ t.doomed = th.doomed
               /\ \/ t = th
                  \/ /\ t.cancelled
                     /\ \/ t.phase = th.phase
                        \/ th.phase = "wait" /\ t.phase = "wake"
  BY DEF TypeOK, Worker, CancelClient

\* What the main thread does to the sync thread.
LEMMA MainOnThread ==
    ASSUME TypeOK, Main, ~Deliver
    PROVE  \/ Started
           \/ /\ es'.running = es.running
              /\ th'.stage = th.stage /\ th'.token = th.token
              /\ th'.doomed = th.doomed
              /\ \/ th'.phase = th.phase /\ th'.cancelled = th.cancelled
                 \/ /\ th'.cancelled
                    /\ \/ th'.phase = th.phase
                       \/ th.phase = "wait" /\ th'.phase = "wake"
  <1>0. CancelSync \in Sync /\ CancelSync.running = es.running
    BY CancelTypes DEF CancelSync, TypeOK, Sync
  <1>1. CASE StartSync
    BY <1>1, BeginStarts DEF StartSync
  <1>2. ASSUME NEW u \in Users, Login(u)
        PROVE  Started \/ (th' = th /\ es'.running = es.running)
    BY <1>2, BeginStarts DEF Login
  <1>3. CASE TryToLogout
    BY <1>0, <1>3, CancelKeeps DEF TryToLogout
  <1>4. CASE LeaveAccountPage \/ NetConnecting
    BY <1>4 DEF LeaveAccountPage, NetConnecting
  <1>5. CASE NetUp
    BY <1>5, ConnectedStarts DEF NetUp, TypeOK
  <1>6. CASE NetDown
    <2>1. es'.running = es.running
      BY <1>0, <1>6 DEF NetDown, Sync
    <2>2. LET t == CancelClient(th)
          IN  /\ th'.stage = t.stage /\ th'.token = t.token /\ th'.doomed = t.doomed
              /\ th'.cancelled = t.cancelled /\ th'.phase = t.phase
      BY <1>6, CancelTypes DEF NetDown, Worker
    <2> QED BY <2>1, <2>2, CancelKeeps
  <1> QED BY <1>1, <1>2, <1>3, <1>4, <1>5, <1>6 DEF Main, User, Net

\* Where the sync thread goes on to after a call, or ends.
LEMMA GoOnTo ==
    ASSUME TypeOK, GoOn
    PROVE  /\ th'.stage \in NoteCall \ {"state"} /\ th'.phase = "send"
           /\ th'.token = th.token
           /\ th.stage \in NoteCall \ {"last"}
  <1>1. PICK s \in Later(th.stage) :
            th' = [th EXCEPT !.stage = s, !.phase = "send"]
            \/ th' = [th EXCEPT !.stage = s, !.phase = "send", !.calls = @ + 1]
    BY DEF GoOn
  <1>2. s \in NoteCall \ {"state"} /\ th.stage \in NoteCall \ {"last"}
    BY DEF Later, NoteCall
  <1> QED BY <1>1, <1>2 DEF TypeOK, Worker

LEMMA Ends ==
    ASSUME TypeOK, Close \/ FreeUserStore
    PROVE  /\ th'.stage = (IF Close THEN "closing" ELSE "gap")
           /\ th'.phase = "send" /\ th'.token = th.token
  BY DEF TypeOK, Worker, Close, FreeUserStore

-----------------------------------------------------------------------------
(* The sync thread and its client.                                         *)

LEMMA ThreadStep == TypeOK /\ ThreadInv /\ [Next]_vars => ThreadInv'
  <1> SUFFICES ASSUME TypeOK, ThreadInv, [Next]_vars PROVE ThreadInv'
    OBVIOUS
  <1>1. CASE Deliver \/ UNCHANGED vars
    BY <1>1 DEF ThreadInv, Deliver, vars
  <1>2. CASE Main /\ ~Deliver
    <2>1. CASE Started
      BY <2>1 DEF Started, ThreadInv, NoThread, NoteCall
    <2> QED BY <1>2, <2>1, MainOnThread DEF ThreadInv
  <1>3. CASE ReadToken \/ OpenUserStore \/ OpenNoteStore
    BY <1>3 DEF ThreadInv, TypeOK, Worker, ReadToken, OpenUserStore, OpenNoteStore,
                UserCall, NoteCall
  <1>4. CASE Send
    BY <1>4 DEF ThreadInv, TypeOK, Worker, Send
  <1>5. CASE Reply \/ Uninterrupted \/ MoreToRead
    BY <1>5 DEF ThreadInv, TypeOK, Worker, Waiting, Reply, Uninterrupted, MoreToRead
  <1>6. CASE Fail
    BY <1>6, Ends DEF ThreadInv, Fail, NoteCall
  <1>7. CASE PassOver
    <2>1. th.token # NoUser
      BY <1>7, GoOnTo DEF ThreadInv, PassOver, NoteCall
    <2> QED BY <1>7, <2>1, GoOnTo DEF ThreadInv, PassOver
  <1>8. CASE Answer
    <2>1. CASE th.stage = "version"
      BY <1>8, <2>1 DEF ThreadInv, Answer, TypeOK, Worker, UserCall, NoteCall
    <2>2. CASE th.stage # "version"
      <3>1. GoOn \/ Close \/ FreeUserStore
        BY <1>8, <2>2 DEF Answer
      <3>2. th.token # NoUser
        BY <1>8, <2>2 DEF Answer
      <3>3. CASE GoOn
        BY <3>2, <3>3, GoOnTo DEF ThreadInv
      <3>4. CASE Close \/ FreeUserStore
        BY <3>2, <3>4, Ends DEF ThreadInv, NoteCall
      <3> QED BY <3>1, <3>3, <3>4
    <2> QED BY <2>1, <2>2
  <1>9. CASE FreeNoteStore \/ EndThread
    BY <1>9 DEF ThreadInv, TypeOK, Worker, FreeNoteStore, EndThread, NoThread, NoteCall,
                UserCall
  <1> QED BY <1>1, <1>2, <1>3, <1>4, <1>5, <1>6, <1>7, <1>8, <1>9 DEF Next, Main, Thread

\* An answer to a call posted on a cancelled client is never used.
THEOREM CancelCorrect == Spec => CancelledKeepsNothing
  <1>1. Init => TypeOK /\ ThreadInv
    BY TypeInit DEF Init, ThreadInv, NoThread, NoteCall
  <1>2. TypeOK /\ ThreadInv /\ [Next]_vars => (TypeOK /\ ThreadInv)'
    BY TypeStep, ThreadStep
  <1>3. ThreadInv => (Answer => ~th.doomed)
    BY DEF ThreadInv, Answer
  <1> QED BY <1>1, <1>2, <1>3, PTL DEF Spec, CancelledKeepsNothing

-----------------------------------------------------------------------------
(* The queue and the end of the thread.                                    *)

\* A step of the thread before its last: it leaves EvernoteSync alone and
\* says at most one thing, but never that it has ended.
LEMMA Alive ==
    ASSUME TypeOK, ThreadInv, Thread, ~EndThread
    PROVE  /\ th.stage # "none" /\ th'.stage \notin {"none", "start"}
           /\ es' = es
           /\ \/ UNCHANGED queue
              \/ \E sig \in Signal \ {"ended"} : Post(sig)
  <1> USE DEF UserCall, NoteCall
  <1>1. CASE ReadToken \/ OpenUserStore \/ OpenNoteStore \/ FreeNoteStore
    BY <1>1 DEF TypeOK, Worker, ReadToken, OpenUserStore, OpenNoteStore, FreeNoteStore
  <1>2. CASE Send \/ Reply \/ Uninterrupted \/ MoreToRead
    BY <1>2 DEF TypeOK, Worker, ThreadInv, Send, Reply, Waiting, Uninterrupted, MoreToRead
  <1>3. CASE Fail
    BY <1>3, Ends, StageTypes DEF Fail
  <1>4. CASE PassOver
    BY <1>4, GoOnTo, StageTypes DEF PassOver
  <1>5. CASE Answer
    <2>1. th.stage # "none" /\ th'.stage \notin {"none", "start"}
      <3>1. CASE th.stage = "version"
        BY <1>5, <3>1 DEF Answer, TypeOK, Worker
      <3>2. CASE th.stage # "version"
        BY <1>5, <3>2, GoOnTo, Ends DEF Answer
      <3> QED BY <3>1, <3>2
    <2> QED BY <1>5, <2>1, StageTypes DEF Answer
  <1> QED BY <1>1, <1>2, <1>3, <1>4, <1>5 DEF Thread

\* What posting a signal does to the queue.
LEMMA Posts ==
    ASSUME TypeOK, NEW sig \in Signal, Post(sig)
    PROVE  /\ Len(queue') = Len(queue) + 1 /\ Len(queue) \in Nat
           /\ queue'[Len(queue) + 1] = sig
           /\ \A i \in 1 .. Len(queue) : queue'[i] = queue[i]
  BY DEF TypeOK, Post

\* What taking one does.
LEMMA Takes ==
    ASSUME TypeOK, queue # <<>>, queue' = Tail(queue)
    PROVE  /\ Len(queue) \in Nat \ {0} /\ Len(queue') = Len(queue) - 1
           /\ \A i \in 1 .. Len(queue') : queue'[i] = queue[i + 1]
           /\ Head(queue) = queue[1]
  BY DEF TypeOK

\* The thread goes on without having ended.
LEMMA QueueSameThread ==
    ASSUME TypeOK, QueueInv, th.stage # "none", th'.stage # "none",
           es'.running = es.running, UNCHANGED queue
    PROVE  QueueInv'
  BY DEF QueueInv, Heard

LEMMA QueuePosted ==
    ASSUME TypeOK, QueueInv, th.stage # "none", th'.stage # "none",
           es'.running = es.running, NEW sig \in Signal \ {"ended"}, Post(sig)
    PROVE  QueueInv'
  <1> USE Posts DEF QueueInv, Heard
  <1>1. \A i \in 1 .. Len(queue') : queue'[i] # "ended"
    <2> TAKE i \in 1 .. Len(queue')
    <2>1. CASE i = Len(queue) + 1
      BY <2>1
    <2>2. CASE i \in 1 .. Len(queue)
      BY <2>2
    <2> QED BY <2>1, <2>2
  <1> QED BY <1>1

LEMMA QueueStep == TypeOK /\ ThreadInv /\ QueueInv /\ [Next]_vars => QueueInv'
  <1> SUFFICES ASSUME TypeOK, ThreadInv, QueueInv, [Next]_vars PROVE QueueInv'
    OBVIOUS
  <1>1. CASE UNCHANGED vars
    BY <1>1 DEF QueueInv, Heard, vars
  <1>2. CASE Main /\ ~Deliver
    <2>1. UNCHANGED queue
      BY <1>2 DEF Main, User, Net, StartSync, Login, TryToLogout, LeaveAccountPage,
                  NetConnecting, NetUp, NetDown
    <2>2. CASE Started
      <3>1. th.stage = "none" /\ queue = <<>>
        BY <2>2 DEF Started, QueueInv, Heard, TypeOK
      <3>2. th'.stage = "start" /\ es'.running
        BY <2>2 DEF Started, NoThread
      <3> QED BY <2>1, <3>1, <3>2 DEF QueueInv, Heard
    <2>3. CASE es'.running = es.running /\ th'.stage = th.stage
      BY <2>1, <2>3 DEF QueueInv, Heard
    <2> QED BY <1>2, <2>2, <2>3, MainOnThread
  <1>3. CASE Deliver
    <2>1. queue # <<>> /\ queue' = Tail(queue) /\ th' = th
      BY <1>3 DEF Deliver
    <2>2. CASE Head(queue) = "ended"
      <3>1. Len(queue) = 1 /\ th.stage = "none" /\ queue' = <<>>
        <4>1. queue[1] = "ended" /\ 1 \in 1 .. Len(queue)
          BY <2>1, <2>2, Takes
        <4>2. Len(queue) = 1 /\ th.stage = "none"
          BY <4>1 DEF QueueInv
        <4>3. queue' \in Seq(Signal) /\ Len(queue') = 0
          BY <2>1, <4>2, Takes DEF TypeOK
        <4> QED BY <4>2, <4>3
      <3>2. es'.running = FALSE
        BY <1>3, <2>2 DEF Deliver, ThreadFinished, TypeOK, Sync
      <3>3. ~Heard("ended")'
        BY <3>1 DEF Heard
      <3>4. \A i \in 1 .. Len(queue') : FALSE
        BY <3>1
      <3> QED BY <2>1, <3>1, <3>2, <3>3, <3>4 DEF QueueInv
    <2>3. CASE Head(queue) # "ended"
      <3>1. es'.running = es.running
        BY <1>3, <2>3 DEF Deliver, TypeOK, Sync
      <3>2. ASSUME NEW i \in 1 .. Len(queue'), queue'[i] = "ended"
            PROVE  i = Len(queue') /\ th.stage = "none"
        <4>1. /\ i + 1 \in 1 .. Len(queue) /\ queue[i + 1] = "ended"
              /\ Len(queue) \in Nat /\ Len(queue') = Len(queue) - 1
          BY <2>1, <3>2, Takes
        <4>2. i + 1 = Len(queue) /\ th.stage = "none"
          BY <4>1 DEF QueueInv
        <4> QED BY <4>1, <4>2
      <3>3. queue' # <<>> /\ th.stage = "none" => queue'[Len(queue')] = "ended"
        <4> SUFFICES ASSUME queue' # <<>>, th.stage = "none"
                     PROVE  queue'[Len(queue')] = "ended"
          OBVIOUS
        <4>1. Len(queue') \in Nat /\ Len(queue') # 0 /\ Len(queue') + 1 = Len(queue)
          <5>1. queue' \in Seq(Signal)
            BY <2>1 DEF TypeOK
          <5> QED BY <2>1, <5>1, Takes
        <4>2. queue[Len(queue)] = "ended"
          BY <2>1 DEF QueueInv
        <4>3. queue'[Len(queue')] = queue[Len(queue') + 1]
          BY <2>1, <4>1, Takes
        <4> QED BY <4>1, <4>2, <4>3
      <3>4. Heard("ended")' <=> Heard("ended")
        <4>1. ASSUME NEW i \in 1 .. Len(queue), queue[i] = "ended"
              PROVE  i - 1 \in 1 .. Len(queue') /\ queue'[i - 1] = "ended"
          BY <2>1, <2>3, <4>1, Takes
        <4>2. ASSUME NEW i \in 1 .. Len(queue'), queue'[i] = "ended"
              PROVE  i + 1 \in 1 .. Len(queue) /\ queue[i + 1] = "ended"
          BY <2>1, <4>2, Takes
        <4> QED BY <4>1, <4>2 DEF Heard
      <3> QED BY <2>1, <3>1, <3>2, <3>3, <3>4 DEF QueueInv
    <2> QED BY <2>2, <2>3
  <1>4. CASE EndThread
    <2>1. th.stage = "exit" /\ th'.stage = "none" /\ es' = es /\ Post("ended")
      BY <1>4 DEF EndThread, NoThread
    <2>2. es.running /\ \A i \in 1 .. Len(queue) : queue[i] # "ended"
      BY <2>1 DEF QueueInv
    <2>3. /\ Len(queue') = Len(queue) + 1 /\ Len(queue) \in Nat
          /\ queue'[Len(queue) + 1] = "ended"
          /\ \A i \in 1 .. Len(queue) : queue'[i] = queue[i]
      BY <2>1, Posts, StageTypes
    <2>4. \A i \in 1 .. Len(queue') : queue'[i] = "ended" => i = Len(queue')
      BY <2>2, <2>3
    <2>5. Heard("ended")'
      BY <2>3 DEF Heard
    <2> QED BY <2>1, <2>2, <2>3, <2>4, <2>5 DEF QueueInv
  <1>5. CASE Thread /\ ~EndThread
    BY <1>5, Alive, QueueSameThread, QueuePosted
  <1> QED BY <1>1, <1>2, <1>3, <1>4, <1>5 DEF Next, Main

\* There is never a second sync thread.
THEOREM OneThreadCorrect == Spec => OneThread
  <1>1. Init => TypeOK /\ ThreadInv /\ QueueInv
    BY TypeInit DEF Init, ThreadInv, QueueInv, Heard, NoThread, NoteCall
  <1>2. TypeOK /\ ThreadInv /\ QueueInv /\ [Next]_vars => (TypeOK /\ ThreadInv /\ QueueInv)'
    BY TypeStep, ThreadStep, QueueStep
  <1>3. TypeOK /\ ThreadInv /\ QueueInv /\ [Next]_vars
            => (th'.stage = "start" /\ th.stage # "start"
                    => th.stage = "none" /\ ~es.running)
    <2> SUFFICES ASSUME TypeOK, ThreadInv, QueueInv, [Next]_vars,
                        th'.stage = "start", th.stage # "start"
                 PROVE  th.stage = "none" /\ ~es.running
      OBVIOUS
    <2>1. CASE Main /\ ~Deliver
      <3>1. Started
        BY <2>1, MainOnThread
      <3> QED BY <3>1 DEF Started, QueueInv
    <2>2. CASE Deliver \/ UNCHANGED vars
      BY <2>2 DEF Deliver, vars
    <2>3. CASE EndThread
      BY <2>3 DEF EndThread, NoThread
    <2>4. CASE Thread /\ ~EndThread
      BY <2>4, Alive
    <2> QED BY <2>1, <2>2, <2>3, <2>4 DEF Next, Main
  <1> QED BY <1>1, <1>2, <1>3, PTL DEF Spec, OneThread

-----------------------------------------------------------------------------
(* The answer to a sync.                                                   *)

Told(q) == \E i \in 1 .. Len(q) : q[i] \in {"ok", "bad"}

LEMMA ToldHeard == Told(queue) <=> Heard("ok") \/ Heard("bad")
  BY DEF Told, Heard

\* What was said is not taken back.
LEMMA ToldStays ==
    ASSUME TypeOK, NEW sig \in Signal, Post(sig)
    PROVE  /\ Told(queue) => Told(queue')
           /\ sig \in {"ok", "bad"} => Told(queue')
  <1>1. ASSUME NEW i \in 1 .. Len(queue), queue[i] \in {"ok", "bad"}
        PROVE  i \in 1 .. Len(queue') /\ queue'[i] \in {"ok", "bad"}
    BY <1>1, Posts
  <1>2. Len(queue) + 1 \in 1 .. Len(queue') /\ queue'[Len(queue) + 1] = sig
    BY Posts
  <1> QED BY <1>1, <1>2 DEF Told

\* A thread that stops storing says how it went.
LEMMA LastWord ==
    ASSUME TypeOK, ThreadInv, Thread, ~EndThread, Busy, ~Busy'
    PROVE  \E sig \in {"ok", "bad"} : Post(sig)
  <1> USE DEF Busy, UserCall, NoteCall
  <1>1. CASE ReadToken \/ OpenUserStore \/ OpenNoteStore \/ FreeNoteStore
    BY <1>1 DEF TypeOK, Worker, ReadToken, OpenUserStore, OpenNoteStore, FreeNoteStore
  <1>2. CASE Send \/ Reply \/ Uninterrupted \/ MoreToRead
    BY <1>2 DEF TypeOK, Worker, Send, Reply, Waiting, Uninterrupted, MoreToRead
  <1>3. CASE Fail
    BY <1>3 DEF Fail
  <1>4. CASE PassOver
    BY <1>4, GoOnTo DEF PassOver
  <1>5. CASE Answer
    <2>1. CASE th.stage = "version"
      BY <1>5, <2>1 DEF Answer, TypeOK, Worker
    <2>2. CASE GoOn \/ FreeUserStore
      <3>1. th'.stage \in NoteCall \cup {"gap"}
        BY <2>2, GoOnTo DEF FreeUserStore, TypeOK, Worker
      <3> QED BY <3>1
    <2>3. CASE th.stage # "version" /\ ~GoOn /\ ~FreeUserStore
      BY <1>5, <2>3 DEF Answer
    <2> QED BY <2>1, <2>2, <2>3
  <1> QED BY <1>1, <1>2, <1>3, <1>4, <1>5 DEF Thread

LEMMA ConnectedAnswers ==
    ASSUME TypeOK, NEW s, NEW e \in Sync, NetworkConnected(s, e), UNCHANGED queue,
           e = es \/ e = Requested, AnswerInv
    PROVE  AnswerInv'
  <1>1. CASE th' = [NoThread EXCEPT !.stage = "start"]
    BY <1>1 DEF AnswerInv, NoThread, Busy
  <1>2. CASE es' = [e EXCEPT !.inProgress = FALSE, !.answered = TRUE]
    BY <1>2 DEF AnswerInv, Sync
  <1>3. CASE es' = e /\ th' = th
    BY <1>3 DEF AnswerInv, Requested, Busy, Heard
  <1> QED BY <1>1, <1>2, <1>3 DEF NetworkConnected

LEMMA BeginAnswers ==
    ASSUME TypeOK, NEW s, BeginSync(s), UNCHANGED queue, AnswerInv
    PROVE  AnswerInv'
  <1>1. Requested \in Sync
    BY DEF TypeOK, Requested, Sync
  <1>2. CASE NetworkConnected(s, Requested)
    BY <1>1, <1>2, ConnectedAnswers
  <1>3. CASE es' = Requested
    BY <1>3 DEF AnswerInv, Requested
  <1>4. CASE es' = [Requested EXCEPT !.inProgress = FALSE, !.answered = TRUE]
    BY <1>4 DEF AnswerInv, Requested
  <1>5. CASE UNCHANGED <<es, th>>
    BY <1>5 DEF AnswerInv, Busy, Heard
  <1> QED BY <1>2, <1>3, <1>4, <1>5 DEF BeginSync

\* cancel() leaves the sync to the thread, or drops it.
LEMMA CancelAnswers ==
    ASSUME TypeOK, AnswerInv, es' = CancelSync, th'.stage = th.stage, UNCHANGED queue
    PROVE  AnswerInv'
  <1>1. CASE Live
    BY <1>1 DEF AnswerInv, CancelSync, Busy, Heard
  <1>2. CASE ~Live
    BY <1>2 DEF AnswerInv, CancelSync, TypeOK, Sync
  <1> QED BY <1>1, <1>2

LEMMA AnswerStep ==
    TypeOK /\ ThreadInv /\ QueueInv /\ AnswerInv /\ [Next]_vars => AnswerInv'
  <1> SUFFICES ASSUME TypeOK, ThreadInv, QueueInv, AnswerInv, [Next]_vars
               PROVE  AnswerInv'
    OBVIOUS
  <1>1. CASE StartSync
    BY <1>1, BeginAnswers DEF StartSync
  <1>2. ASSUME NEW u \in Users, Login(u) PROVE AnswerInv'
    <2>1. CASE UNCHANGED <<es, th, queue>>
      BY <2>1 DEF AnswerInv, Busy, Heard
    <2>2. CASE ~UNCHANGED <<es, th, queue>>
      BY <1>2, <2>2, BeginAnswers DEF Login
    <2> QED BY <2>1, <2>2
  <1>3. CASE TryToLogout
    <2>1. CASE UNCHANGED <<es, th, queue>>
      BY <2>1 DEF AnswerInv, Busy, Heard
    <2>2. CASE es' = CancelSync /\ th' = CancelClient(th)
      BY <1>3, <2>2, CancelAnswers, CancelKeeps DEF TryToLogout
    <2> QED BY <1>3, <2>1, <2>2 DEF TryToLogout
  <1>4. CASE LeaveAccountPage \/ NetConnecting \/ UNCHANGED vars
    BY <1>4 DEF LeaveAccountPage, NetConnecting, vars, AnswerInv, Busy, Heard
  <1>5. CASE NetUp
    BY <1>5, ConnectedAnswers DEF NetUp, TypeOK
  <1>6. CASE NetDown
    <2>1. CASE es.inProgress
      <3>1. es'.answered
        BY <1>6, <2>1, CancelTypes DEF NetDown, Sync
      <3> QED BY <3>1 DEF AnswerInv
    <2>2. CASE ~es.inProgress
      <3>1. th'.stage = th.stage
        BY <1>6, CancelTypes, CancelKeeps DEF NetDown, Worker
      <3> QED BY <1>6, <2>2, <3>1, CancelAnswers DEF NetDown
    <2> QED BY <2>1, <2>2
  <1>7. CASE Deliver
    <2>1. CASE Head(queue) \in {"ok", "bad"}
      BY <1>7, <2>1 DEF Deliver, AnswerInv, TypeOK, Sync
    <2>2. CASE Head(queue) = "ended"
      BY <1>7, <2>2 DEF Deliver, ThreadFinished, AnswerInv, TypeOK, Sync
    <2>3. CASE Head(queue) = "chunk"
      <3>1. es' = es /\ th' = th /\ queue # <<>> /\ queue' = Tail(queue)
        BY <1>7, <2>3 DEF Deliver
      <3>2. ASSUME NEW i \in 1 .. Len(queue), queue[i] \in {"ok", "bad"}
            PROVE  i - 1 \in 1 .. Len(queue') /\ queue'[i - 1] \in {"ok", "bad"}
        BY <2>3, <3>1, <3>2, Takes
      <3>3. Told(queue) => Told(queue')
        BY <3>2 DEF Told
      <3>4. Told(queue') => (Heard("ok") \/ Heard("bad"))'
        BY DEF Told, Heard
      <3> QED BY <3>1, <3>3, <3>4, ToldHeard DEF AnswerInv, Busy
    <2> QED BY <1>7, <2>1, <2>2, <2>3 DEF Deliver
  <1>8. CASE Thread
    <2>1. Told(queue') => (Heard("ok") \/ Heard("bad"))'
      BY DEF Told, Heard
    <2>2. es' = es
      BY <1>8, Alive DEF EndThread
    <2>3. Told(queue) => Told(queue')
      <3>1. CASE UNCHANGED queue
        BY <3>1
      <3>2. CASE \E sig \in Signal : Post(sig)
        BY <3>2, ToldStays
      <3> QED BY <1>8, <3>1, <3>2, Alive, StageTypes DEF EndThread
    <2>4. CASE Busy /\ ~Busy'
      <3>1. \E sig \in {"ok", "bad"} : Post(sig)
        BY <1>8, <2>4, LastWord DEF EndThread, Busy
      <3>2. Told(queue')
        BY <3>1, ToldStays, StageTypes
      <3> QED BY <2>1, <3>2 DEF AnswerInv
    <2>5. CASE ~Busy
      BY <2>1, <2>2, <2>3, <2>5, ToldHeard DEF AnswerInv
    <2>6. CASE Busy'
      BY <2>6 DEF AnswerInv
    <2> QED BY <2>4, <2>5, <2>6
  <1> QED BY <1>1, <1>2, <1>3, <1>4, <1>5, <1>6, <1>7, <1>8 DEF Next, User, Net

\* When the indicator goes off, the pages know how the sync went, or the main
\* thread had let go of it.
THEOREM AnswerCorrect == Spec => SyncIsAnswered
  <1> DEFINE Inv == TypeOK /\ ThreadInv /\ QueueInv /\ AnswerInv
  <1>1. Init => Inv
    BY TypeInit DEF Init, ThreadInv, QueueInv, AnswerInv, Heard, NoThread, NoteCall
  <1>2. Inv /\ [Next]_vars => Inv'
    BY TypeStep, ThreadStep, QueueStep, AnswerStep
  <1>3. Inv /\ [Next]_vars
            => (es.inProgress /\ ~es'.inProgress => es'.answered \/ es'.loose)
    <2> SUFFICES ASSUME Inv, [Next]_vars, es.inProgress, ~es'.inProgress
                 PROVE  es'.answered \/ es'.loose
      OBVIOUS
    <2>1. CASE TryToLogout
      BY <2>1 DEF TryToLogout, CancelSync, TypeOK, Sync
    <2>2. CASE NetUp
      BY <2>2 DEF NetUp, NetworkConnected, TypeOK, Sync
    <2>3. CASE NetDown
      BY <2>3, CancelTypes DEF NetDown, Sync
    <2>4. CASE Deliver
      <3>1. queue # <<>> /\ queue' = Tail(queue)
        BY <2>4 DEF Deliver
      <3>2. queue[1] = "ended" /\ es'.loose = es.loose /\ es'.answered = es.answered
        BY <2>4, <3>1, Takes DEF Deliver, ThreadFinished, TypeOK, Sync
      <3>3. Len(queue) = 1 /\ th.stage = "none" /\ es.running
        <4>1. 1 \in 1 .. Len(queue) /\ queue[1] = "ended"
          BY <3>1, <3>2, Takes
        <4>2. Heard("ended")
          BY <4>1 DEF Heard
        <4> QED BY <4>1, <4>2 DEF QueueInv
      <3>4. ~Heard("ok") /\ ~Heard("bad")
        BY <3>2, <3>3 DEF Heard
      <3> QED BY <3>2, <3>3, <3>4 DEF AnswerInv, Busy
    <2>5. CASE StartSync \/ (\E u \in Users : Login(u))
      BY <2>5 DEF StartSync, Login, BeginSync
    <2>6. CASE LeaveAccountPage \/ NetConnecting \/ Thread \/ UNCHANGED vars
      BY <2>6, Alive DEF LeaveAccountPage, NetConnecting, EndThread, vars
    <2> QED BY <2>1, <2>2, <2>3, <2>4, <2>5, <2>6 DEF Next, User, Net
  <1> QED BY <1>1, <1>2, <1>3, PTL DEF Spec, SyncIsAnswered

-----------------------------------------------------------------------------
(* Whose directory is written.                                             *)

LEMMA ConnectedOwns ==
    ASSUME TypeOK, QueueInv, OwnInv, NEW s \in Session, NEW e \in Sync,
           NetworkConnected(s, e), e.running = es.running,
           e.inProgress /\ ~e.running => s.page # "login",
           Busy /\ ~e.loose => /\ ~es.loose /\ e.inProgress
                               /\ s.page # "login" /\ s.dir = ses.dir
    PROVE  OwnInv'
  <1>1. CASE /\ MayStart(e) /\ th' = [NoThread EXCEPT !.stage = "start"]
             /\ es' = [e EXCEPT !.running = TRUE] /\ ses' = s
    BY <1>1 DEF OwnInv, NoThread, MayStart, Sync, Busy
  <1>2. CASE /\ MayStart(e) /\ th' = th
             /\ es' = [e EXCEPT !.inProgress = FALSE, !.answered = TRUE]
    <2>1. th.stage = "none"
      BY <1>2 DEF MayStart, QueueInv
    <2> QED BY <1>2, <2>1 DEF OwnInv, Sync, Busy
  <1>3. CASE es' = e /\ ses' = s /\ th' = th
    BY <1>3 DEF OwnInv, Busy
  <1> QED BY <1>1, <1>2, <1>3 DEF NetworkConnected

LEMMA BeginOwns ==
    ASSUME TypeOK, QueueInv, OwnInv, NEW s \in Session, BeginSync(s),
           s.page # "login", Busy /\ ~es.loose => s.dir = ses.dir
    PROVE  OwnInv'
  <1>1. Requested \in Sync /\ Requested.running = es.running
        /\ Requested.loose = es.running /\ Requested.inProgress
    BY DEF TypeOK, Requested, Sync
  <1>2. Busy => es.running
    BY DEF QueueInv, Busy
  <1>3. CASE es.inProgress /\ ses' = s /\ UNCHANGED <<es, th>>
    BY <1>3 DEF OwnInv, Busy
  <1>4. CASE NetworkConnected(s, Requested)
    BY <1>1, <1>2, <1>4, ConnectedOwns
  <1>5. CASE es' = Requested /\ ses' = s /\ th' = th
    BY <1>1, <1>2, <1>5 DEF OwnInv, Busy
  <1>6. CASE es' = [Requested EXCEPT !.inProgress = FALSE, !.answered = TRUE] /\ th' = th
    BY <1>1, <1>2, <1>6 DEF OwnInv, Busy, Sync
  <1> QED BY <1>3, <1>4, <1>5, <1>6 DEF BeginSync

\* The steps of the thread between reading the token and ending.
LEMMA ThreadOwns ==
    ASSUME TypeOK, ThreadInv, Thread, ~ReadToken, ~EndThread
    PROVE  /\ th'.token = th.token /\ th.stage # "start"
           /\ Busy' => Busy
           /\ ses'.page = ses.page
           /\ ses'.dir \in {ses.dir, th.token}
  <1> USE DEF Busy, UserCall, NoteCall
  <1>1. CASE OpenUserStore \/ OpenNoteStore \/ FreeNoteStore
    BY <1>1 DEF TypeOK, Worker, OpenUserStore, OpenNoteStore, FreeNoteStore
  <1>2. CASE Send \/ Reply \/ Uninterrupted \/ MoreToRead
    BY <1>2 DEF TypeOK, Worker, ThreadInv, Send, Reply, Waiting, Uninterrupted, MoreToRead
  <1>3. CASE Fail
    BY <1>3, Ends DEF Fail
  <1>4. CASE PassOver
    BY <1>4, GoOnTo DEF PassOver
  <1>5. CASE Answer
    <2>1. ses'.page = ses.page /\ ses'.dir \in {ses.dir, th.token}
      BY <1>5 DEF Answer, TypeOK, Session
    <2>2. CASE th.stage = "version"
      BY <1>5, <2>1, <2>2 DEF Answer, TypeOK, Worker
    <2>3. CASE th.stage # "version"
      <3>1. GoOn \/ Close \/ FreeUserStore
        BY <1>5, <2>3 DEF Answer
      <3>2. th.stage \in UserCall \cup NoteCall
        BY <1>5 DEF Answer, ThreadInv
      <3> QED BY <2>1, <3>1, <3>2, GoOnTo, Ends
    <2> QED BY <2>2, <2>3
  <1> QED BY <1>1, <1>2, <1>3, <1>4, <1>5 DEF Thread

LEMMA OwnStep == TypeOK /\ ThreadInv /\ QueueInv /\ OwnInv /\ [Next]_vars => OwnInv'
  <1> SUFFICES ASSUME TypeOK, ThreadInv, QueueInv, OwnInv, [Next]_vars
               PROVE  OwnInv'
    OBVIOUS
  <1>1. CASE StartSync
    BY <1>1, BeginOwns DEF StartSync, TypeOK
  <1>2. ASSUME NEW u \in Users, Login(u) PROVE OwnInv'
    <2> DEFINE s == [ses EXCEPT !.user = u, !.dir = u, !.auth = @ \cup {u}]
    <2>1. /\ [s EXCEPT !.page = "waiting"] \in Session
          /\ [s EXCEPT !.page = "waiting"].page # "login"
          /\ [s EXCEPT !.page = "start"].page # "login"
      BY DEF TypeOK, Session, Account
    <2>2. ~(Busy /\ ~es.loose)
      BY <1>2 DEF Login, OwnInv
    <2>3. CASE BeginSync([s EXCEPT !.page = "waiting"])
      BY <2>1, <2>2, <2>3, BeginOwns
    <2>4. CASE ses' = [s EXCEPT !.page = "start"] /\ UNCHANGED <<es, conn, th>>
      BY <2>1, <2>2, <2>4 DEF OwnInv, Busy
    <2> QED BY <1>2, <2>3, <2>4 DEF Login
  <1>3. CASE TryToLogout
    <2>1. CASE es.inProgress
      <3>1. /\ ses'.page = "start" /\ ses'.dir = ses.dir /\ es' = CancelSync
            /\ th'.stage = th.stage /\ th'.token = th.token
        BY <1>3, <2>1, CancelKeeps DEF TryToLogout, TypeOK, Session
      <3>2. \/ es' = es
            \/ es'.loose
        BY <2>1, <3>1 DEF CancelSync, TypeOK, Sync
      <3> QED BY <3>1, <3>2 DEF OwnInv, Busy
    <2>2. CASE ~es.inProgress
      BY <1>3, <2>2 DEF TryToLogout, OwnInv, Busy
    <2> QED BY <2>1, <2>2
  <1>4. CASE LeaveAccountPage \/ NetConnecting \/ UNCHANGED vars
    BY <1>4 DEF LeaveAccountPage, NetConnecting, vars, OwnInv, Busy, TypeOK, Session
  <1>5. CASE NetUp
    BY <1>5, ConnectedOwns DEF NetUp, OwnInv, TypeOK
  <1>6. CASE NetDown
    <2>1. th'.stage = th.stage /\ th'.token = th.token
      BY <1>6, CancelTypes, CancelKeeps DEF NetDown, Worker
    <2>2. CASE es.inProgress
      <3>1. /\ es'.loose = (es.loose \/ Busy) /\ es'.running = es.running
            /\ es'.inProgress => Live
        BY <1>6, <2>2 DEF NetDown, CancelSync, TypeOK, Sync
      <3>2. Live => es.running
        BY DEF Live, QueueInv, UserCall, NoteCall
      <3> QED BY <2>1, <3>1, <3>2 DEF OwnInv, Busy
    <2>3. CASE ~es.inProgress
      <3>1. ~es'.inProgress /\ es'.loose = es.loose /\ ses' = ses
        BY <1>6, <2>3 DEF NetDown, CancelSync, TypeOK, Sync
      <3> QED BY <2>1, <2>3, <3>1 DEF OwnInv, Busy
    <2> QED BY <2>2, <2>3
  <1>7. CASE Deliver
    <2>1. th' = th /\ queue # <<>>
      BY <1>7 DEF Deliver
    <2>2. CASE Head(queue) \in {"ok", "bad"}
      <3>1. es.running
        <4>1. Len(queue) \in 1 .. Len(queue)
          BY <2>1, Takes DEF TypeOK
        <4> QED BY <2>1, <4>1 DEF QueueInv, Heard
      <3>2. es'.loose = (es.loose \/ Busy) /\ es'.running
        BY <1>7, <2>2, <3>1 DEF Deliver, TypeOK, Sync
      <3> QED BY <2>1, <3>2 DEF OwnInv, Busy
    <2>3. CASE Head(queue) = "chunk"
      BY <1>7, <2>1, <2>3 DEF Deliver, OwnInv, Busy, TypeOK, Session
    <2>4. CASE Head(queue) = "ended"
      <3>1. th.stage = "none"
        <4>1. 1 \in 1 .. Len(queue) /\ queue[1] = "ended"
          BY <2>1, <2>4 DEF TypeOK
        <4> QED BY <4>1 DEF QueueInv
      <3>2. ~es'.inProgress
        BY <1>7, <2>4 DEF Deliver, ThreadFinished, TypeOK, Sync
      <3> QED BY <2>1, <3>1, <3>2 DEF OwnInv, Busy
    <2> QED BY <1>7, <2>2, <2>3, <2>4 DEF Deliver
  <1>8. CASE ReadToken
    <2>1. /\ th'.token \in {NoUser, ses.dir} /\ th.stage = "start"
          /\ ses' = ses /\ es' = es
      BY <1>8 DEF ReadToken, TypeOK, Worker
    <2> QED BY <2>1 DEF OwnInv, Busy
  <1>9. CASE EndThread
    BY <1>9 DEF EndThread, NoThread, OwnInv, Busy
  <1>10. CASE Thread /\ ~ReadToken /\ ~EndThread
    BY <1>10, ThreadOwns, Alive DEF OwnInv
  <1> QED BY <1>1, <1>2, <1>3, <1>4, <1>5, <1>6, <1>7, <1>8, <1>9, <1>10
          DEF Next, User, Net

\* What is stored of a sync that the main thread has not let go of goes to the
\* directory of the token's user.
THEOREM OwnStoreCorrect == Spec => OwnStore
  <1> DEFINE Inv == TypeOK /\ ThreadInv /\ QueueInv /\ OwnInv
  <1>1. Init => Inv
    BY TypeInit DEF Init, ThreadInv, QueueInv, OwnInv, Heard, Busy, NoThread, NoteCall
  <1>2. Inv /\ [Next]_vars => Inv'
    BY TypeStep, ThreadStep, QueueStep, OwnStep
  <1>3. Inv => ((Answer /\ th.stage # "version") \/ PassOver
                    => ses.dir = th.token \/ es.loose)
    <2> SUFFICES ASSUME Inv, (Answer /\ th.stage # "version") \/ PassOver
                 PROVE  ses.dir = th.token \/ es.loose
      OBVIOUS
    <2>1. CASE Answer /\ th.stage # "version"
      <3>1. th.token # NoUser /\ th.stage \in UserCall \cup NoteCall
        BY <2>1 DEF Answer, ThreadInv
      <3> QED BY <3>1 DEF OwnInv, Busy, UserCall, NoteCall
    <2>2. CASE PassOver
      <3>1. th.stage \in {"pending", "prefetch", "push"}
        BY <2>2 DEF PassOver
      <3> QED BY <3>1 DEF ThreadInv, OwnInv, Busy, NoteCall
    <2> QED BY <2>1, <2>2
  <1> QED BY <1>1, <1>2, <1>3, PTL DEF Spec, OwnStore
=============================================================================
