---------------------------- MODULE SyncControl ----------------------------
(***************************************************************************)
(* How a synchronisation is started, cancelled, answered and ended, and    *)
(* how that meets logging in and out.  Two threads take part.  The main    *)
(* thread runs EvernoteSync (es), the QML pages (ses) and the connection   *)
(* manager's signals; the sync thread (th) runs EvernoteAccess::           *)
(* synchronize, one call to Evernote after another, each of them a post, a *)
(* wait in a nested event loop, a look at the client's cancelled flag and  *)
(* an answer.  What the sync thread emits is queued for the main thread.   *)
(*                                                                         *)
(* The connection manager appears as its state and the signals connected() *)
(* and disconnected(), which may come at any time and more than once.      *)
(***************************************************************************)
EXTENDS Naturals, Sequences

CONSTANTS
    Users,      \* the Evernote accounts
    NoUser,     \* the empty user name, and the empty token
    MaxCalls    \* bound on the calls of one sync beyond those every sync makes

ASSUME NoUserAssumption == NoUser \notin Users
ASSUME MaxCallsAssumption == MaxCalls \in Nat

VARIABLES
    ses,    \* pages and session: what is shown, who is logged in
    es,     \* EvernoteSync
    conn,   \* ConnectionManager::connectionState
    queue,  \* signals queued by the sync thread for the main thread
    th      \* the sync thread and the http client it uses

vars == <<ses, es, conn, queue, th>>

Account == Users \cup {NoUser}

\* ses.dir and ses.auth: m_activeUserDirName, which outlives a logout, and the
\* users whose directory holds an authToken.  ses.asked and ses.dialog: the
\* isLogoutRequested of AccountInfoPage, which goes with that page, and of the
\* main window, which nothing resets.
Session == [page : {"login", "waiting", "start"}, user : Account, dir : Account,
            auth : SUBSET Users, asked : BOOLEAN, dialog : BOOLEAN]

\* es.answered and es.loose observe the current request to sync.  answered:
\* syncFinished was emitted for it.  loose: the main thread let go of it (was
\* told that it is over, or took it for over) while a thread was still at it.
Sync == [inProgress : BOOLEAN, running : BOOLEAN,
         answered : BOOLEAN, loose : BOOLEAN]

UserCall == {"version", "user"}                       \* on the user store
NoteCall == {"state", "pending", "chunk", "prefetch", "push", "last"}
Stage    == {"none", "start", "token", "gap", "closing", "exit"}
                \cup UserCall \cup NoteCall
Phase    == {"send", "wait", "wake", "got"}
Signal   == {"ok", "bad", "chunk", "ended"}

\* th.host: the client was given a host (the user was logged in when it was
\* made).  th.doomed and th.stopped observe: the call was posted on a client
\* already cancelled; the connection was lost since the thread started.
Worker == [stage : Stage, phase : Phase, token : Account, host : BOOLEAN,
           cancelled : BOOLEAN, calls : 0 .. MaxCalls,
           doomed : BOOLEAN, stopped : BOOLEAN]

NoThread == [stage |-> "none", phase |-> "send", token |-> NoUser,
             host |-> FALSE, cancelled |-> FALSE, calls |-> 0,
             doomed |-> FALSE, stopped |-> FALSE]

TypeOK == /\ ses \in Session
          /\ es \in Sync
          /\ conn \in {"off", "connecting", "on"}
          /\ queue \in Seq(Signal)
          /\ th \in Worker

Init == /\ ses = [page |-> "login", user |-> NoUser, dir |-> NoUser,
                  auth |-> {}, asked |-> FALSE, dialog |-> FALSE]
        /\ es = [inProgress |-> FALSE, running |-> FALSE,
                 answered |-> FALSE, loose |-> FALSE]
        /\ conn = "off"
        /\ queue = <<>>
        /\ th = NoThread

-----------------------------------------------------------------------------
\* What the main thread's handlers do to the session.

\* logout(): the pages go, the token goes, the name of the directory stays.
LoggedOut(s) == [s EXCEPT !.page  = "login",
                          !.user  = NoUser,
                          !.asked = FALSE,
                          !.auth  = IF s.user = NoUser THEN @ ELSE @ \ {s.dir}]

LogoutRequested(s) == s.dialog \/ s.asked

\* syncFinished(ok), as the pages handle it: the login page lets the user log
\* in again after a failed first sync, and a requested logout takes place.
\* (a mutant: only a sync that went well is followed by the logout)
SyncFinishedLogsOutOnOk(s, ok) ==
    IF ok /\ LogoutRequested(s) THEN LoggedOut(s) ELSE s
SyncFinished(s, ok) ==
    LET t == IF s.page = "waiting" /\ ~ok THEN [s EXCEPT !.page = "login"] ELSE s
    IN  IF LogoutRequested(t) THEN LoggedOut(t) ELSE t

\* A thread is there that may still write to the store.
Busy == th.stage \notin {"none", "closing", "exit"}

\* EvernoteAccess::cancel() finds an http client to cancel.
Live == th.stage \in UserCall \cup NoteCall \cup {"closing"}

\* EvernoteAccess::cancel(), for the sync thread: the flag, and a wake-up that
\* only a thread already waiting hears.
\* (a mutant: the client has a state of its own when it is cancelled)
CancelClientState(t) == IF Live THEN [t EXCEPT !.phase = "cancelled"] ELSE t
CancelClient(t) ==
    IF Live THEN [t EXCEPT !.cancelled = TRUE,
                           !.phase = IF @ = "wait" THEN "wake" ELSE @]
            ELSE t

\* EvernoteSync::cancel(), for EvernoteSync.
CancelSync == IF Live THEN es
              ELSE [es EXCEPT !.inProgress = FALSE,
                              !.loose = @ \/ es.inProgress]

-----------------------------------------------------------------------------
\* EvernoteSync on the main thread.

\* networkConnected(), with session s and sync e as the caller left them.
\* (a mutant: only the request counts, not the thread of an earlier one)
MayStartWanted(e) == e.inProgress
MayStart(e) == e.inProgress /\ ~e.running

NetworkConnected(s, e) ==
    \/ /\ MayStart(e)
       /\ th' = [NoThread EXCEPT !.stage = "start"]
       /\ es' = [e EXCEPT !.running = TRUE]
       /\ ses' = s
    \/ /\ MayStart(e)               \* syncing over mobile data is disabled
       /\ es' = [e EXCEPT !.inProgress = FALSE, !.answered = TRUE]
       /\ ses' = SyncFinished(s, FALSE)
       /\ UNCHANGED th
    \/ /\ ~MayStart(e)
       /\ es' = e
       /\ ses' = s
       /\ UNCHANGED th

\* startSync(), with requestConnection(), which may find that the state of the
\* session is not the one last heard of.
Requested == [inProgress |-> TRUE, running |-> es.running,
              answered |-> FALSE, loose |-> es.running]

BeginSync(s) ==
    \/ /\ es.inProgress
       /\ ses' = s
       /\ UNCHANGED <<es, conn, th>>
    \/ /\ ~es.inProgress
       /\ conn' = "on"
       /\ NetworkConnected(s, Requested)
    \/ /\ ~es.inProgress
       /\ conn' = "connecting"
       /\ es' = Requested
       /\ ses' = s
       /\ UNCHANGED th
    \/ /\ ~es.inProgress
       /\ conn = "off"              \* and no access point is available
       /\ es' = [Requested EXCEPT !.inProgress = FALSE, !.answered = TRUE]
       /\ ses' = SyncFinished(s, FALSE)
       /\ UNCHANGED <<conn, th>>

StartSync == /\ ses.page = "start"
             /\ BeginSync(ses)
             /\ UNCHANGED queue

\* A user logs in.  One who never did before waits for the first sync chunk.
Login(u) ==
    LET s == [ses EXCEPT !.user = u, !.dir = u, !.auth = @ \cup {u}]
    IN  /\ ses.page = "login"
        /\ \/ /\ ses' = [s EXCEPT !.page = "start"]
              /\ UNCHANGED <<es, conn, th>>
           \/ BeginSync([s EXCEPT !.page = "waiting"])
        /\ UNCHANGED queue

\* (a mutant: a sync under way is cancelled and not waited for)
TryToLogoutAtOnce ==
    /\ ses.page = "start"
    /\ ses' = LoggedOut(ses)
    /\ es' = CancelSync
    /\ th' = CancelClient(th)
    /\ UNCHANGED <<conn, queue>>

\* tryToLogout() of the main window's dialog and of AccountInfoPage.
TryToLogout ==
    /\ ses.page = "start"
    /\ \/ /\ es.inProgress
          /\ \/ ses' = [ses EXCEPT !.dialog = TRUE]
             \/ ses' = [ses EXCEPT !.asked = TRUE]
          /\ es' = CancelSync
          /\ th' = CancelClient(th)
       \/ /\ ~es.inProgress
          /\ ses' = LoggedOut(ses)
          /\ UNCHANGED <<es, th>>
    /\ UNCHANGED <<conn, queue>>

LeaveAccountPage == /\ ses.asked
                    /\ ses' = [ses EXCEPT !.asked = FALSE]
                    /\ UNCHANGED <<es, conn, queue, th>>

\* connected() and disconnected(); the latter runs networkDisconnected() and
\* then main()'s connection to cancel().
NetConnecting == /\ conn # "connecting"
                 /\ conn' = "connecting"
                 /\ UNCHANGED <<ses, es, queue, th>>

NetUp == /\ conn' = "on"
         /\ NetworkConnected(ses, es)
         /\ UNCHANGED queue

NetDown ==
    /\ conn' = "off"
    /\ \/ /\ es.inProgress
          /\ es' = [CancelSync EXCEPT !.answered = TRUE,
                                      !.loose = es.loose \/ Busy]
          /\ ses' = SyncFinished(ses, FALSE)
       \/ /\ ~es.inProgress
          /\ es' = CancelSync
          /\ UNCHANGED ses
    /\ th' = [CancelClient(th) EXCEPT !.stopped = @ \/ th.stage # "none"]
    /\ UNCHANGED queue

\* threadFinished().
\* (a mutant: the request is left open)
ThreadForgotten == es' = [es EXCEPT !.running = FALSE]
ThreadFinished == es' = [es EXCEPT !.inProgress = FALSE, !.running = FALSE]

\* The main thread takes the next of the sync thread's signals.
Deliver ==
    /\ queue # <<>>
    /\ queue' = Tail(queue)
    /\ \/ /\ Head(queue) \in {"ok", "bad"}
          /\ ses' = SyncFinished(ses, Head(queue) = "ok")
          /\ es' = [es EXCEPT !.answered = TRUE, !.loose = @ \/ Busy]
       \/ /\ Head(queue) = "chunk"
          /\ ses' = [ses EXCEPT !.page = IF @ = "waiting" THEN "start" ELSE @]
          /\ UNCHANGED es
       \/ /\ Head(queue) = "ended"
          /\ ThreadFinished
          /\ UNCHANGED ses
    /\ UNCHANGED <<conn, th>>

-----------------------------------------------------------------------------
\* synchronize() on the sync thread.

Post(sig) == queue' = Append(queue, sig)

\* The calls that may follow a call.
Later(s) == CASE s \in {"state", "pending"} ->
                        {"pending", "chunk", "prefetch", "push", "last"}
              [] s = "chunk"    -> {"chunk", "prefetch", "push", "last"}
              [] s = "prefetch" -> {"prefetch", "push", "last"}
              [] s = "push"     -> {"push", "last"}
              [] OTHER          -> {}

GoOn == \E s \in Later(th.stage) :
            \/ /\ s = "last"
               /\ th' = [th EXCEPT !.stage = s, !.phase = "send"]
            \/ /\ s # "last"
               /\ th.calls < MaxCalls
               /\ th' = [th EXCEPT !.stage = s, !.phase = "send",
                                   !.calls = @ + 1]

Close == th' = [th EXCEPT !.stage = "closing", !.phase = "send"]

\* The token is read, then fetchUserInfo makes the user store's client, and
\* synchronize, when that one is gone, the note store's.
ReadToken == /\ th.stage = "start"
             /\ th' = [th EXCEPT !.stage = "token",
                           !.token = IF ses.dir \in ses.auth THEN ses.dir
                                                             ELSE NoUser]
             /\ UNCHANGED <<ses, es, conn, queue>>

OpenUserStore == /\ th.stage = "token"
                 /\ th' = [th EXCEPT !.stage = "version", !.host = TRUE]
                 /\ UNCHANGED <<ses, es, conn, queue>>

OpenNoteStore == /\ th.stage = "gap"
                 /\ th' = [th EXCEPT !.stage = "state", !.cancelled = FALSE,
                                     !.host = ses.dir \in ses.auth]
                 /\ UNCHANGED <<ses, es, conn, queue>>

\* flush() posts the request, whether or not the client was cancelled.
Send == /\ th.stage \in UserCall \cup NoteCall
        /\ th.phase = "send"
        /\ th' = [th EXCEPT !.phase = "wait", !.doomed = th.cancelled]
        /\ UNCHANGED <<ses, es, conn, queue>>

Waiting == th.stage \in UserCall \cup NoteCall /\ th.phase = "wait"

Reply == /\ Waiting
         /\ conn = "on"
         /\ th.host
         /\ th' = [th EXCEPT !.phase = "wake"]
         /\ UNCHANGED <<ses, es, conn, queue>>

\* (a mutant: the cancelled flag is not looked at after a wait)
Unchecked == /\ th.phase = "wake"
             /\ th' = [th EXCEPT !.phase = "got"]
             /\ UNCHANGED <<ses, es, conn, queue>>
Uninterrupted == /\ th.phase = "wake"
                 /\ ~th.cancelled
                 /\ th' = [th EXCEPT !.phase = "got"]
                 /\ UNCHANGED <<ses, es, conn, queue>>

MoreToRead == /\ th.phase = "got"
              /\ th' = [th EXCEPT !.phase = "wait"]
              /\ UNCHANGED <<ses, es, conn, queue>>

\* A call fails: INTERRUPTED by cancel(); TIMED_OUT, or an SSL error; or an
\* exception made of the reply.
Interrupted == th.phase = "wake" /\ th.cancelled
Refused     == th.phase = "got"
CallFailed  == Waiting \/ Interrupted \/ Refused

FreeUserStore == th' = [th EXCEPT !.stage = "gap", !.phase = "send"]

\* (a mutant: a wrapper that returns without finished() on an exception)
FailSilently ==
    /\ CallFailed
    /\ \/ th.stage \in UserCall /\ FreeUserStore /\ Post("bad")
       \/ th.stage \in {"state", "chunk", "push", "last"} /\ Close /\ UNCHANGED queue
    /\ UNCHANGED <<ses, es, conn>>
Fail ==
    /\ CallFailed
    /\ \/ /\ th.stage \in UserCall        \* synchronize ignores the result
          /\ FreeUserStore
          /\ Post("bad")
       \/ /\ th.stage \in {"state", "chunk", "push", "last"}
          /\ Close
          /\ Post("bad")
    /\ UNCHANGED <<ses, es, conn>>

\* A note that cannot be fetched, and one that the server does not take, is
\* passed over.  createNote at the rate limit says so and is passed over too.
PassOver ==
    /\ CallFailed
    /\ GoOn
    /\ \/ th.stage \in {"pending", "prefetch"} /\ Post("bad")
       \/ th.stage = "push" /\ Refused /\ Post("bad")
       \/ th.stage = "push" /\ Refused /\ UNCHANGED queue
    /\ UNCHANGED <<ses, es, conn>>

\* A call succeeds, and what it returned is stored.
Answer ==
    /\ th.phase = "got"
    /\ th.token # NoUser \/ th.stage = "version"
    /\ \/ /\ th.stage = "version"
          /\ th' = [th EXCEPT !.stage = "user", !.phase = "send"]
          /\ UNCHANGED <<ses, queue>>
       \/ /\ th.stage = "user"            \* setActiveUser(username)
          /\ ses' = [ses EXCEPT !.user = th.token, !.dir = th.token]
          /\ FreeUserStore
          /\ UNCHANGED queue
       \/ /\ th.stage \in {"state", "pending"}
          /\ Close                        \* the server requires a full sync
          /\ Post("bad")
          /\ UNCHANGED ses
       \/ /\ th.stage \in NoteCall \ {"chunk", "last"}
          /\ GoOn
          /\ UNCHANGED <<ses, queue>>
       \/ /\ th.stage = "chunk"
          /\ GoOn
          /\ \/ Post("chunk")             \* firstChunkDone()
             \/ UNCHANGED queue
          /\ UNCHANGED ses
       \/ /\ th.stage = "last"
          /\ Close
          /\ \/ Post("ok")
             \/ Post("bad")               \* some notes were passed over
          /\ UNCHANGED ses
    /\ UNCHANGED <<es, conn>>

FreeNoteStore == /\ th.stage = "closing"
                 /\ th' = [th EXCEPT !.stage = "exit"]
                 /\ UNCHANGED <<ses, es, conn, queue>>

EndThread == /\ th.stage = "exit"
             /\ th' = NoThread
             /\ Post("ended")
             /\ UNCHANGED <<ses, es, conn>>

-----------------------------------------------------------------------------
User   == StartSync \/ (\E u \in Users : Login(u)) \/ TryToLogout
              \/ LeaveAccountPage
Net    == NetConnecting \/ NetUp \/ NetDown
Thread == \/ ReadToken \/ OpenUserStore \/ OpenNoteStore
          \/ Send \/ Reply \/ Uninterrupted \/ MoreToRead
          \/ Fail \/ PassOver \/ Answer
          \/ FreeNoteStore \/ EndThread

Next == User \/ Net \/ Deliver \/ Thread

Spec == Init /\ [][Next]_vars

\* The main thread's event loop and the sync thread go on; a reply is finite;
\* an attempt to connect ends one way or the other.
Fairness == /\ WF_vars(Thread)
            /\ SF_vars(Fail \/ PassOver \/ Answer)
            /\ WF_vars(Deliver)
            /\ WF_vars(conn = "connecting" /\ (NetUp \/ NetDown))

FairSpec == Spec /\ Fairness

-----------------------------------------------------------------------------
\* Properties.

\* There is one EvernoteAccess, and its two client pointers and m_cancelled
\* serve one thread: networkConnected() never starts a second sync thread,
\* however often connected() and startSync() come while one is still there or
\* its end has not been heard of.
OneThread == [][th'.stage = "start" /\ th.stage # "start"
                    => th.stage = "none" /\ ~es.running]_vars

\* What the sync thread stores goes to the directory of the user whose token
\* it uses, unless the main thread let go of the sync: a logout waits for the
\* sync to end before it lets another user in.
OwnStore == [][(Answer /\ th.stage # "version") \/ PassOver
                    => ses.dir = th.token \/ es.loose]_vars

\* A client that was cancelled may still send, but what comes back is not
\* used, although nothing looks at the flag before the call waits.
CancelledKeepsNothing == [][Answer => ~th.doomed]_vars

\* Whenever the sync indicator goes off, the pages have been told how the sync
\* went, unless the main thread let go of it.
SyncIsAnswered == [][es.inProgress /\ ~es'.inProgress
                        => es'.answered \/ es'.loose]_vars

\* The sync indicator does not stay on for ever.
SpinnerEnds == es.inProgress ~> ~es.inProgress

\* A logout requested while a sync is under way that will still answer takes
\* place, however the sync ends.
AnswerComing == Busy \/ \E i \in 1 .. Len(queue) : queue[i] \in {"ok", "bad"}

LogoutHappens == (ses.dialog /\ AnswerComing) ~> (ses.page = "login")

\* main.cpp: "when connection is lost, stop sync".  A sync that was running
\* when the connection was lost sends no more changes to the server.
StopsWhenDisconnected == [][Send /\ th.stage = "push" => ~th.stopped]_vars
=============================================================================
