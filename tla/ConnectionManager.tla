------------------------- MODULE ConnectionManager -------------------------
(***************************************************************************)
(* ConnectionManager (connectionmanager.cpp): what it makes of the state   *)
(* changes of the QNetworkSession and of the online state, which come to   *)
(* it as signals, later than they happen, while it also reads the state of *)
(* the session directly; and the two slots of EvernoteSync its signals     *)
(* connected() and disconnected() run.  QNetworkSession and the networks   *)
(* are external.                                                           *)
(***************************************************************************)
EXTENDS Naturals, Sequences

CONSTANTS
    WifiAutoConnect,    \* m_isWifiAutoConnectEnabled: on Symbian
    MobileAllowed,      \* Sync/syncUsingMobileData
    MaxQueue            \* signals that are still to be delivered (a bound)

ASSUME ConstantsAssumption ==
    WifiAutoConnect \in BOOLEAN /\ MobileAllowed \in BOOLEAN /\ MaxQueue \in Nat

VARIABLES
    net,    \* the session and the networks, as they are
    queue,  \* the signals on their way
    cm,     \* the members of ConnectionManager
    told    \* what EvernoteSync was told last, and what it did

vars == <<net, queue, cm, told>>

Bearers       == {"wifi", "mobile"}
SessionStates == {"NotAvailable", "Disconnected", "Connecting", "Connected", "Closing"}
Signals       == [kind : {"session"}, to : SessionStates] \cup [kind : {"online"}, to : BOOLEAN]

Members ==
    [state : {"InitialState", "WillConnect", "Connecting", "Connected", "Disconnected"},
     online : BOOLEAN, registered : BOOLEAN, scanning : BOOLEAN,
     iap : Bearers \cup {"none"},
     silent : BOOLEAN]  \* (of the model: the last open() failed silently)

TypeOK ==
    /\ net \in [session : SessionStates, online : BOOLEAN, opening : BOOLEAN,
                inRange : SUBSET Bearers, active : Bearers \cup {"none"}]
    /\ queue \in Seq(Signals) /\ Len(queue) <= MaxQueue
    /\ cm \in Members
    /\ told \in [last : {"none", "connected", "disconnected"},
                 asked : BOOLEAN, running : BOOLEAN, over : Bearers \cup {"none"}]

-----------------------------------------------------------------------------
(* EvernoteSync: a sync that was asked for (m_isSyncInProgress) starts its *)
(* thread when connected() comes, if it may use the network that           *)
(* isIapConfigurationWifi() tells it of.                                   *)

MayUse(iap) == iap = "wifi" \/ MobileAllowed

NetworkConnected(t, iap) ==
    [t EXCEPT !.last = "connected",
              !.running = t.running \/ (t.asked /\ MayUse(iap)),
              !.over = IF t.asked /\ ~t.running /\ MayUse(iap) THEN iap ELSE t.over,
              !.asked = t.asked /\ (t.running \/ MayUse(iap))]

\* A sync that waits is called off.  A thread that runs is cancelled and runs on, till
\* it is over; and cancel() counts for nothing if the thread has no client at the time:
\* then the sync counts as ended, and the thread is not stopped.
NetworkDisconnected(t) ==
    {[t EXCEPT !.last = "disconnected", !.asked = a] : a \in {FALSE, t.asked /\ t.running}}

-----------------------------------------------------------------------------
(* The parts of the handlers.                                              *)

\* chooseIapConfiguration: the active one, or Wi-Fi, or another.
PrimaryIap ==
    IF net.active # "none" THEN net.active
    ELSE IF "wifi" \in net.inRange THEN "wifi"
    ELSE IF "mobile" \in net.inRange THEN "mobile" ELSE "none"

\* (a mutant: the state is the session's)
SessionStateTaken(c, s) == [c EXCEPT !.state = s]

\* setCurrentIapConfigurationToWhateverIsActive and -IsPrimary,
\* invalidateCurrentIapConfiguration
IapFor(c, s) ==
    CASE s = "Connecting" -> PrimaryIap
      [] s = "Connected" -> net.active
      [] s \in {"Disconnected", "NotAvailable"} -> "none"
      [] OTHER -> c.iap

\* sessionStateChanged, in state c of the members and t of the listener.  The
\* access point is looked up after connected() was emitted.
SessionStateChanged(c, s) ==
    LET state == CASE s = "Connecting" -> "Connecting"
                   [] s = "Connected" /\ c.online -> "Connected"
                   [] s \in {"Disconnected", "NotAvailable"} -> "Disconnected"
                   [] OTHER -> c.state
    IN [c EXCEPT !.state = state, !.iap = IapFor(c, s)]

\* (a mutant: NotAvailable is not told)
ToldIfDisconnected(c, t, s) ==
    IF s = "Connected" /\ c.online THEN {NetworkConnected(t, c.iap)}
    ELSE IF s = "Disconnected" THEN NetworkDisconnected(t) ELSE {t}

\* What may come of it for the listener.
ToldOfSession(c, t, s) ==
    IF s = "Connected" /\ c.online THEN {NetworkConnected(t, c.iap)}
    ELSE IF s \in {"Disconnected", "NotAvailable"} THEN NetworkDisconnected(t) ELSE {t}

\* ensureConnectionStateIsUpToDate.  Registering the use of the interface opens a
\* session that is open.
Behind == net.session \in {"Connected", "Connecting"} /\ cm.state # net.session
Ensured ==
    IF Behind THEN [SessionStateChanged(cm, net.session) EXCEPT !.registered = TRUE] ELSE cm
ToldEnsured(t) ==
    IF Behind /\ net.session = "Connected" /\ cm.online THEN NetworkConnected(t, cm.iap) ELSE t

\* m_session->open(), then what comes of it.
Opening == [net EXCEPT !.opening = net.session \in {"NotAvailable", "Disconnected", "Closing"}]

-----------------------------------------------------------------------------
\* The constructor, the session being there or not.  EvernoteSync is not connected
\* to its signals yet; "connected" is what requestConnection will tell it.
Init ==
    /\ net \in [session : {"Disconnected", "Connected"}, online : BOOLEAN, opening : {FALSE},
                inRange : SUBSET Bearers, active : Bearers \cup {"none"}]
    /\ net.session = "Connected" <=> net.active # "none"
    /\ net.active \in net.inRange \cup {"none"}
    /\ queue = <<>>
    /\ cm = LET c == [state |-> "InitialState", online |-> net.online, registered |-> FALSE,
                      scanning |-> FALSE, iap |-> "none", silent |-> FALSE]
            IN IF net.session = "Connected"
               THEN [c EXCEPT !.state = IF net.online THEN "Connected" ELSE @, !.iap = net.active,
                              !.registered = ~net.online]
               ELSE c
    /\ told = [last |-> IF cm.state = "Connected" THEN "connected" ELSE "none",
               asked |-> FALSE, running |-> FALSE, over |-> "none"]

(* The session and the networks.                                           *)

Room == Len(queue) < MaxQueue
SessionGoes(s) ==
    /\ Room
    /\ \/ /\ net.session \in {"Disconnected", "Closing"} /\ s = "Connecting"
          /\ net.inRange # {}
       \/ net.session = "Connecting" /\ s \in {"Connected", "Disconnected"}
       \/ net.session = "Connected" /\ s \in {"Closing", "Disconnected"}
       \/ net.session = "Closing" /\ s = "Disconnected"
       \/ net.session = "NotAvailable" /\ s = "Disconnected"
       \/ net.session = "Disconnected" /\ s \in {"NotAvailable", "Connected"}
    /\ IF s = "Connected"
       THEN \E b \in net.inRange :
               net' = [net EXCEPT !.session = s, !.opening = FALSE, !.active = b]
       ELSE net' = [net EXCEPT !.session = s, !.opening = FALSE, !.active = "none"]
    /\ queue' = Append(queue, [kind |-> "session", to |-> s])
    /\ UNCHANGED <<cm, told>>

\* open() fails, and the state of the session stays what it is: no signal that
\* ConnectionManager is connected to.
OpenFails ==
    /\ net.opening
    /\ net' = [net EXCEPT !.opening = FALSE]
    /\ cm' = [cm EXCEPT !.silent = TRUE]
    /\ UNCHANGED <<queue, told>>

OnlineGoes ==
    /\ Room
    /\ net' = [net EXCEPT !.online = ~net.online]
    /\ queue' = Append(queue, [kind |-> "online", to |-> ~net.online])
    /\ UNCHANGED <<cm, told>>

NetworksChange(bs) ==
    /\ net.active \in bs \cup {"none"} /\ bs # net.inRange
    /\ net' = [net EXCEPT !.inRange = bs]
    /\ UNCHANGED <<queue, cm, told>>

-----------------------------------------------------------------------------
(* The handlers.                                                           *)

Next1 == Head(queue)

DeliverSession ==
    /\ queue # <<>> /\ Next1.kind = "session"
    /\ queue' = Tail(queue)
    /\ LET c == SessionStateChanged(cm, Next1.to)
       IN cm' = [c EXCEPT !.silent = @ /\ c.state = "Connecting"]
    /\ told' \in ToldOfSession(cm, told, Next1.to)
    /\ UNCHANGED net

\* (a mutant: the session is up, and so is the connection)
DeliverOnlineUnasked ==
    /\ queue # <<>> /\ Next1.kind = "online"
    /\ queue' = Tail(queue)
    /\ cm' = [cm EXCEPT !.online = Next1.to, !.state = IF Next1.to THEN "Connected" ELSE "Disconnected"]
    /\ told' \in IF Next1.to THEN {NetworkConnected(told, net.active)}
                 ELSE NetworkDisconnected(told)
    /\ UNCHANGED net

\* onlineStateChanged.  Here the access point is looked up first.
DeliverOnline ==
    /\ queue # <<>> /\ Next1.kind = "online"
    /\ queue' = Tail(queue)
    /\ LET up   == Next1.to /\ net.session = "Connected" /\ cm.state # "Connected"
           down == ~Next1.to /\ cm.state # "Disconnected"
       IN /\ cm' = [cm EXCEPT !.online = Next1.to,
                              !.state = IF up THEN "Connected" ELSE IF down THEN "Disconnected" ELSE @,
                              !.iap = IF up THEN net.active ELSE IF down THEN "none" ELSE @]
          /\ told' \in IF up THEN {NetworkConnected(told, net.active)}
                       ELSE IF down THEN NetworkDisconnected(told) ELSE {told}
    /\ UNCHANGED net

StartScanning ==
    /\ ~cm.scanning
    /\ cm' = [cm EXCEPT !.scanning = TRUE]
    /\ UNCHANGED <<net, queue, told>>

\* scanFinished.
ScanFinished ==
    /\ cm.scanning
    /\ LET c == [Ensured EXCEPT !.scanning = FALSE]
           opens == PrimaryIap = "wifi" /\ (net.active = "wifi" \/ WifiAutoConnect)
       IN IF c.state \in {"Connected", "Connecting"} \/ PrimaryIap = "none"
          THEN cm' = c /\ UNCHANGED net
          ELSE /\ cm' = [c EXCEPT !.state = IF opens THEN "Connecting" ELSE "WillConnect",
                                  !.registered = @ \/ opens, !.iap = PrimaryIap,
                                  !.silent = IF opens THEN FALSE ELSE @]
               /\ net' = IF opens THEN Opening ELSE net
    /\ told' = ToldEnsured(told)
    /\ UNCHANGED queue

\* (a mutant: Connecting, whether or not there is anything to connect to)
RequestConnectionAnyway ==
    /\ ~told.asked
    /\ cm' = [cm EXCEPT !.state = "Connecting", !.registered = TRUE, !.silent = FALSE]
    /\ net' = IF PrimaryIap = "none" THEN net ELSE Opening
    /\ told' = [told EXCEPT !.asked = TRUE]
    /\ UNCHANGED queue

\* startSync() and requestConnection().  ensureConnectionStateIsUpToDate() may tell
\* of the connection, and start the sync, before requestConnection() returns.  A thread
\* that was cancelled too early may still run.
RequestConnection ==
    /\ ~told.asked
    /\ LET c == Ensured  t == ToldEnsured([told EXCEPT !.asked = TRUE]) IN
       \/ /\ c.state = "Connected"
          /\ cm' = c /\ told' = NetworkConnected(t, c.iap)
          /\ UNCHANGED net
       \/ /\ c.state = "Connecting"
          /\ cm' = c /\ told' = t
          /\ UNCHANGED net
       \/ /\ c.state \notin {"Connected", "Connecting"} /\ PrimaryIap # "none"
          /\ cm' = [c EXCEPT !.state = "Connecting", !.registered = TRUE, !.silent = FALSE]
          /\ net' = Opening /\ told' = t
       \/ /\ c.state \notin {"Connected", "Connecting"} /\ PrimaryIap = "none"
          /\ cm' = c /\ told' = [t EXCEPT !.asked = FALSE]
          /\ UNCHANGED net
    /\ UNCHANGED queue

\* threadFinished: the sync is over, by itself or cancelled; and so is one that was asked
\* for while a thread that was cancelled too early still ran.
SyncEnds ==
    /\ told.running
    /\ told' = [told EXCEPT !.running = FALSE, !.asked = FALSE, !.over = "none"]
    /\ UNCHANGED <<net, queue, cm>>

Deliver == DeliverSession \/ DeliverOnline

Next ==
    \/ \E s \in SessionStates : SessionGoes(s)
    \/ OpenFails \/ OnlineGoes \/ \E bs \in SUBSET Bearers : NetworksChange(bs)
    \/ Deliver \/ StartScanning \/ ScanFinished \/ RequestConnection \/ SyncEnds

Spec == Init /\ [][Next]_vars

\* The event loop delivers, and an attempt to open or to close ends.
FairSpec ==
    /\ Spec /\ WF_vars(Deliver)
    /\ WF_vars(OpenFails \/ \E s \in SessionStates : SessionGoes(s) /\ net.opening)
    /\ WF_vars(\E s \in SessionStates : SessionGoes(s) /\ net.session \in {"Connecting", "Closing"})

-----------------------------------------------------------------------------
(* Properties.                                                             *)

\* Whatever order the signals come in, and however far ahead of them the session
\* is read: when the last one is handled, the state is Connected exactly if the
\* session is up and online (CM 342; while a session closes it may be either).
ConnectedMeansUp ==
    queue = <<>> /\ net.session # "Closing" =>
        (cm.state = "Connected" <=> net.session = "Connected" /\ net.online)

\* EvernoteSync is never left with a connection that went Disconnected: between
\* connected() and disconnected() the state is Connected or being made anew.  Nor does a
\* sync go on waiting when the state is Connecting no more: it started or was called off.
Told ==
    /\ cm.state = "Connected" => told.last = "connected"
    /\ told.last = "connected" => cm.state \in {"Connected", "Connecting"}
    /\ told.asked /\ ~told.running => cm.state = "Connecting"

\* A sync that waits for a connection starts or is called off, unless open() fails
\* without a change of state, or what is up stays offline.
WaitEnds ==
    told.asked /\ ~told.running
      ~> \/ ~told.asked \/ told.running \/ cm.silent
         \/ net.session = "Connected" /\ ~net.online

\* A sync runs over the network that isIapConfigurationWifi() was asked about:
\* iapConfiguration is "the actual InternetAccessPoint" (connectionmanager.h 94), at least
\* when it is up and no signal is pending.
RunsOverKnown ==
    [][~told.running /\ told'.running /\ queue' = <<>> /\ net.active # "none"
          => told'.over = net'.active]_vars

=============================================================================
