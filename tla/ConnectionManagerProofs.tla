----------------------- MODULE ConnectionManagerProofs -----------------------
(***************************************************************************)
(* Theorems about ConnectionManager: its types, that the state is right    *)
(* when no signal is on its way, and what EvernoteSync is told.  The       *)
(* invariant says what the queue of signals must be worth: its last signal *)
(* of either kind is what the session, or the online state, now is, and a  *)
(* state that no signal of the session can correct any more is right.      *)
(***************************************************************************)
EXTENDS ConnectionManager, TLAPS

Nets == [session : SessionStates, online : BOOLEAN, opening : BOOLEAN,
         inRange : SUBSET Bearers, active : Bearers \cup {"none"}]
Tolds == [last : {"none", "connected", "disconnected"},
          asked : BOOLEAN, running : BOOLEAN, over : Bearers \cup {"none"}]

\* The signals of a kind in q, and the last of them.
None(q, kind)     == \A i \in 1..Len(q) : q[i].kind # kind
LastIs(q, kind, v) ==
    \A i \in 1..Len(q) :
        q[i].kind = kind /\ (\A j \in 1..Len(q) : j > i => q[j].kind # kind) => q[i].to = v

\* No state is Connected while cm.online is false; the queue ends in what is; and
\* without a signal of the session on its way the state is right for that session.
Follows ==
    /\ cm.state = "Connected" => cm.online
    /\ LastIs(queue, "session", net.session)
    /\ LastIs(queue, "online", net.online)
    /\ None(queue, "online") => cm.online = net.online
    /\ None(queue, "session") /\ net.session # "Closing" =>
          (cm.state = "Connected" <=> net.session = "Connected" /\ cm.online)

Inv == TypeOK /\ Follows /\ Told

-----------------------------------------------------------------------------
(* The queue.                                                              *)

LEMMA SignalTypes ==
    /\ \A s \in SessionStates : [kind |-> "session", to |-> s] \in Signals
    /\ \A b \in BOOLEAN : [kind |-> "online", to |-> b] \in Signals
    /\ \A x \in Signals : /\ x.kind \in {"session", "online"}
                          /\ x.kind = "session" => x.to \in SessionStates
                          /\ x.kind = "online" => x.to \in BOOLEAN
BY DEF Signals

LEMMA Appended ==
    ASSUME NEW q \in Seq(Signals), NEW x \in Signals
    PROVE  /\ Append(q, x) \in Seq(Signals) /\ Len(Append(q, x)) = Len(q) + 1
           /\ LastIs(Append(q, x), x.kind, x.to) /\ ~None(Append(q, x), x.kind)
           /\ \A k, v : k # x.kind => /\ None(Append(q, x), k) <=> None(q, k)
                                      /\ LastIs(q, k, v) => LastIs(Append(q, x), k, v)
<1> DEFINE r == Append(q, x)
<1>1. /\ r \in Seq(Signals) /\ Len(r) = Len(q) + 1 /\ r[Len(q) + 1] = x /\ Len(q) \in Nat
      /\ \A i \in 1..Len(q) : r[i] = q[i]
  OBVIOUS
<1> HIDE DEF r
<1>2. LastIs(r, x.kind, x.to) /\ ~None(r, x.kind)
  BY <1>1 DEF LastIs, None
<1>3. ASSUME NEW k, NEW v, k # x.kind
      PROVE  /\ None(r, k) <=> None(q, k)
             /\ LastIs(q, k, v) => LastIs(r, k, v)
  <2>1. None(r, k) <=> None(q, k)
    BY <1>1, <1>3 DEF None
  <2>2. ASSUME LastIs(q, k, v), NEW i \in 1..Len(r), r[i].kind = k,
               \A j \in 1..Len(r) : j > i => r[j].kind # k
        PROVE  r[i].to = v
    <3>1. i \in 1..Len(q) /\ q[i].kind = k
      BY <1>1, <1>3, <2>2
    <3>2. \A j \in 1..Len(q) : j > i => q[j].kind # k
      BY <1>1, <2>2
    <3> QED BY <1>1, <2>2, <3>1, <3>2 DEF LastIs
  <2> QED BY <2>1, <2>2 DEF LastIs
<1> QED BY <1>1, <1>2, <1>3 DEF r

LEMMA Taken ==
    ASSUME NEW q \in Seq(Signals), q # <<>>
    PROVE  /\ Head(q) \in Signals /\ Tail(q) \in Seq(Signals) /\ Len(Tail(q)) = Len(q) - 1
           /\ \A k, v : LastIs(q, k, v) =>
                 /\ LastIs(Tail(q), k, v)
                 /\ Head(q).kind = k /\ None(Tail(q), k) => Head(q).to = v
           /\ \A k : Head(q).kind # k /\ None(Tail(q), k) => None(q, k)
<1> DEFINE r == Tail(q)
           h == Head(q)
<1>1. /\ h \in Signals /\ r \in Seq(Signals) /\ Len(r) = Len(q) - 1 /\ Len(q) \in Nat
      /\ Len(q) > 0 /\ h = q[1]
      /\ \A i \in 1..Len(r) : r[i] = q[i + 1]
  OBVIOUS
<1> HIDE DEF r, h
<1>2. ASSUME NEW k, NEW v, LastIs(q, k, v)
      PROVE  /\ LastIs(r, k, v)
             /\ h.kind = k /\ None(r, k) => h.to = v
  <2>1. ASSUME NEW i \in 1..Len(r), r[i].kind = k,
               \A j \in 1..Len(r) : j > i => r[j].kind # k
        PROVE  r[i].to = v
    <3>1. i + 1 \in 1..Len(q) /\ q[i + 1].kind = k
      BY <1>1, <2>1
    <3>2. ASSUME NEW j \in 1..Len(q), j > i + 1 PROVE q[j].kind # k
      <4>1. j - 1 \in 1..Len(r) /\ j - 1 > i /\ r[j - 1] = q[(j - 1) + 1] /\ (j - 1) + 1 = j
        BY <1>1, <3>2
      <4> QED BY <2>1, <4>1
    <3>3. q[i + 1].to = v
      BY <1>2, <3>1, <3>2 DEF LastIs
    <3> QED BY <1>1, <3>3
  <2>2. ASSUME h.kind = k, None(r, k) PROVE h.to = v
    <3>1. 1 \in 1..Len(q) /\ q[1].kind = k
      BY <1>1, <2>2
    <3>2. ASSUME NEW j \in 1..Len(q), j > 1 PROVE q[j].kind # k
      <4>1. j - 1 \in 1..Len(r) /\ r[j - 1] = q[(j - 1) + 1] /\ (j - 1) + 1 = j
        BY <1>1, <3>2
      <4> QED BY <2>2, <4>1 DEF None
    <3> QED BY <1>1, <1>2, <3>1, <3>2 DEF LastIs
  <2> QED BY <2>1, <2>2 DEF LastIs
<1>3. ASSUME NEW k, h.kind # k, None(r, k) PROVE None(q, k)
  <2>1. ASSUME NEW j \in 1..Len(q) PROVE q[j].kind # k
    <3>1. CASE j = 1
      BY <1>1, <1>3, <3>1
    <3>2. CASE j > 1
      <4>1. j - 1 \in 1..Len(r) /\ r[j - 1] = q[(j - 1) + 1] /\ (j - 1) + 1 = j
        BY <1>1, <3>2
      <4> QED BY <1>3, <4>1 DEF None
    <3> QED BY <1>1, <3>1, <3>2
  <2> QED BY <2>1 DEF None
<1> QED BY <1>1, <1>2, <1>3 DEF r, h

-----------------------------------------------------------------------------
(* The operators.                                                          *)

\* What EvernoteSync is told agrees with a state.
Agree(c, t) ==
    /\ c.state = "Connected" => t.last = "connected"
    /\ t.last = "connected" => c.state \in {"Connected", "Connecting"}

\* A sync waits only for a connection that is being made.
Waits(c, t) == t.asked /\ ~t.running => c.state = "Connecting"

LEMMA ToldTypes ==
    ASSUME NEW t \in Tolds, NEW iap \in Bearers \cup {"none"}
    PROVE  /\ NetworkConnected(t, iap) \in Tolds /\ NetworkConnected(t, iap).last = "connected"
           /\ NetworkConnected(t, iap).asked => NetworkConnected(t, iap).running
           /\ \A u \in NetworkDisconnected(t) :
                 u \in Tolds /\ u.last = "disconnected" /\ (u.asked => u.running)
<1> DEFINE running == t.running \/ (t.asked /\ MayUse(iap))
           over == IF t.asked /\ ~t.running /\ MayUse(iap) THEN iap ELSE t.over
           asked == t.asked /\ (t.running \/ MayUse(iap))
<1>1. /\ running \in BOOLEAN /\ over \in Bearers \cup {"none"} /\ asked \in BOOLEAN
      /\ asked => running
  <2>1. MayUse(iap) \in BOOLEAN /\ t.running \in BOOLEAN /\ t.asked \in BOOLEAN
    BY ConstantsAssumption DEF MayUse, Tolds
  <2>2. t.over \in Bearers \cup {"none"}
    BY DEF Tolds
  <2> QED BY <2>1, <2>2
<1>2. NetworkConnected(t, iap) = [t EXCEPT !.last = "connected", !.running = running,
                                           !.over = over, !.asked = asked]
  BY DEF NetworkConnected
<1> HIDE DEF running, over, asked
<1>3. /\ NetworkConnected(t, iap) \in Tolds /\ NetworkConnected(t, iap).last = "connected"
      /\ NetworkConnected(t, iap).asked => NetworkConnected(t, iap).running
  BY <1>1, <1>2 DEF Tolds
<1>4. ASSUME NEW u \in NetworkDisconnected(t)
      PROVE  u \in Tolds /\ u.last = "disconnected" /\ (u.asked => u.running)
  <2>1. PICK a \in {FALSE, t.asked /\ t.running} :
           u = [t EXCEPT !.last = "disconnected", !.asked = a]
    BY <1>4 DEF NetworkDisconnected
  <2>2. a \in BOOLEAN /\ (a => t.running)
    BY DEF Tolds
  <2> QED BY <2>1, <2>2 DEF Tolds
<1> QED BY <1>3, <1>4

\* sessionStateChanged, on any members and listener.
LEMMA StateChangedTypes ==
    ASSUME net \in Nets, NEW c \in Members, NEW t \in Tolds, NEW s \in SessionStates, Agree(c, t),
           c.state = "Connected" => c.online
    PROVE  LET d == SessionStateChanged(c, s)
           IN /\ d \in Members
              /\ \A u \in ToldOfSession(c, t, s) :
                    u \in Tolds /\ Agree(d, u) /\ (Waits(c, t) => Waits(d, u))
              /\ d.online = c.online /\ d.scanning = c.scanning
              /\ d.state = "Connected" => d.online
              /\ s # "Closing" => (d.state = "Connected" <=> s = "Connected" /\ c.online)
              /\ s = "Closing" => d.state = c.state
<1> DEFINE state == CASE s = "Connecting" -> "Connecting"
                      [] s = "Connected" /\ c.online -> "Connected"
                      [] s \in {"Disconnected", "NotAvailable"} -> "Disconnected"
                      [] OTHER -> c.state
           iap == IapFor(c, s)
           d == SessionStateChanged(c, s)
<1>1. /\ c.state \in {"InitialState", "WillConnect", "Connecting", "Connected", "Disconnected"}
      /\ c.iap \in Bearers \cup {"none"} /\ c.online \in BOOLEAN
  BY DEF Members
<1>2. PrimaryIap \in Bearers \cup {"none"} /\ net.active \in Bearers \cup {"none"}
  BY DEF PrimaryIap, Nets, Bearers
<1>3. iap \in Bearers \cup {"none"}
  BY <1>1, <1>2 DEF IapFor
<1>4. d = [c EXCEPT !.state = state, !.iap = iap]
  BY DEF SessionStateChanged
<1>5. /\ state \in {"InitialState", "WillConnect", "Connecting", "Connected", "Disconnected"}
      /\ s = "Connecting" => state = "Connecting"
      /\ s = "Connected" => state = IF c.online THEN "Connected" ELSE c.state
      /\ s \in {"Disconnected", "NotAvailable"} => state = "Disconnected"
      /\ s = "Closing" => state = c.state
  BY <1>1 DEF SessionStates
<1> HIDE DEF state, iap, d
<1>6. d \in Members /\ d.state = state /\ d.online = c.online /\ d.scanning = c.scanning
  BY <1>3, <1>4, <1>5 DEF Members
<1>7. ASSUME NEW u \in ToldOfSession(c, t, s)
      PROVE  u \in Tolds /\ Agree(d, u) /\ (Waits(c, t) => Waits(d, u))
  <2>1. /\ u \in Tolds
        /\ s = "Connected" /\ c.online => u.last = "connected" /\ (u.asked => u.running)
        /\ s \in {"Disconnected", "NotAvailable"} =>
              u.last = "disconnected" /\ (u.asked => u.running)
        /\ ~(s = "Connected" /\ c.online) /\ s \notin {"Disconnected", "NotAvailable"} => u = t
    BY <1>1, <1>7, ToldTypes DEF ToldOfSession
  <2>2. Agree(d, u)
    BY <1>5, <1>6, <2>1 DEF Agree, SessionStates
  <2>3. Waits(c, t) => Waits(d, u)
    BY <1>5, <1>6, <2>1 DEF Waits, SessionStates
  <2> QED BY <2>1, <2>2, <2>3
<1> QED BY <1>5, <1>6, <1>7 DEF SessionStates, d

LEMMA Types ==
    ASSUME TypeOK
    PROVE  /\ net \in Nets /\ queue \in Seq(Signals) /\ cm \in Members /\ told \in Tolds
           /\ net.session \in SessionStates /\ net.online \in BOOLEAN
           /\ net.inRange \subseteq Bearers /\ net.active \in Bearers \cup {"none"}
           /\ PrimaryIap \in Bearers \cup {"none"}
BY DEF TypeOK, Nets, Tolds, PrimaryIap, Bearers

\* ensureConnectionStateIsUpToDate: the state stays right, if it is, or comes to be.
LEMMA EnsuredTypes ==
    ASSUME Inv, NEW t \in Tolds, Agree(cm, t)
    PROVE  /\ Ensured \in Members /\ ToldEnsured(t) \in Tolds /\ Agree(Ensured, ToldEnsured(t))
           /\ Waits(cm, t) => Waits(Ensured, ToldEnsured(t))
           /\ Ensured.online = cm.online
           /\ Ensured.state = "Connected" => cm.online
           /\ None(queue, "session") /\ net.session # "Closing" =>
                 (Ensured.state = "Connected" <=> net.session = "Connected" /\ cm.online)
           /\ net.session = "Connected" /\ cm.online => Ensured.state = "Connected"
<1>1. TypeOK /\ (cm.state = "Connected" => cm.online)
  BY DEF Inv, Follows
<1> USE <1>1, Types
<1>2. CASE Behind
  <2> DEFINE d == SessionStateChanged(cm, net.session)
             u == ToldEnsured(t)
  <2>0. u \in ToldOfSession(cm, t, net.session)
    BY <1>2 DEF ToldEnsured, ToldOfSession, Behind
  <2>1. /\ d \in Members /\ u \in Tolds /\ Agree(d, u) /\ (Waits(cm, t) => Waits(d, u))
        /\ d.online = cm.online
        /\ d.state = "Connected" => d.online
        /\ net.session # "Closing" => (d.state = "Connected" <=> net.session = "Connected" /\ cm.online)
    BY <2>0, StateChangedTypes
  <2>2. Ensured = [d EXCEPT !.registered = TRUE]
    BY <1>2 DEF Ensured
  <2> HIDE DEF d, u
  <2>3. Ensured \in Members /\ Ensured.state = d.state /\ Ensured.online = d.online
    BY <2>1, <2>2 DEF Members
  <2> QED BY <1>2, <2>1, <2>3 DEF Agree, Waits, Behind, u
<1>3. CASE ~Behind
  <2>1. Ensured = cm /\ ToldEnsured(t) = t
    BY <1>3 DEF Ensured, ToldEnsured
  <2>2. net.session = "Connected" => cm.state = "Connected"
    BY <1>3 DEF Behind
  <2> QED BY <2>1, <2>2 DEF Inv, Follows
<1> QED BY <1>2, <1>3

\* open() leaves the state of the session as it is.
LEMMA OpeningTypes ==
    ASSUME net \in Nets
    PROVE  Opening \in Nets /\ Opening.session = net.session /\ Opening.online = net.online
<1> DEFINE opening == net.session \in {"NotAvailable", "Disconnected", "Closing"}
<1>1. opening \in BOOLEAN
  OBVIOUS
<1>2. Opening = [net EXCEPT !.opening = opening]
  BY DEF Opening
<1> HIDE DEF opening
<1> QED BY <1>1, <1>2 DEF Nets

-----------------------------------------------------------------------------
(* The actions.                                                            *)

\* The queue stays within its bound.
LEMMA QueueTypes ==
    ASSUME TypeOK, Room, NEW x \in Signals, queue' = Append(queue, x)
    PROVE  queue' \in Seq(Signals) /\ Len(queue') <= MaxQueue
<1>1. /\ queue \in Seq(Signals) /\ Len(queue) < MaxQueue /\ Len(queue) \in Nat
  BY Types DEF Room
<1> QED BY <1>1, Appended, ConstantsAssumption

LEMMA SessionKeeps ==
    ASSUME Inv, NEW s \in SessionStates, SessionGoes(s)
    PROVE  Inv'
<1>1. TypeOK
  BY DEF Inv
<1> USE <1>1, Types
<1> DEFINE x == [kind |-> "session", to |-> s]
<1>2. x \in Signals /\ x.kind = "session" /\ x.to = s
  BY SignalTypes
<1>3. queue' = Append(queue, x) /\ Room /\ cm' = cm /\ told' = told
  BY DEF SessionGoes
<1>4. net' \in Nets /\ net'.session = s /\ net'.online = net.online
  <2>1. CASE s = "Connected"
    <3>1. PICK b \in net.inRange :
             net' = [net EXCEPT !.session = s, !.opening = FALSE, !.active = b]
      BY <2>1 DEF SessionGoes
    <3> QED BY <3>1 DEF Nets
  <2>2. CASE s # "Connected"
    <3>1. net' = [net EXCEPT !.session = s, !.opening = FALSE, !.active = "none"]
      BY <2>2 DEF SessionGoes
    <3> QED BY <3>1 DEF Nets
  <2> QED BY <2>1, <2>2
<1> HIDE DEF x
<1>5. queue' \in Seq(Signals) /\ Len(queue') <= MaxQueue
  BY <1>2, <1>3, QueueTypes
<1>6. TypeOK'
  BY <1>3, <1>4, <1>5 DEF TypeOK, Nets
<1>7. /\ LastIs(queue', "session", s) /\ ~None(queue', "session")
      /\ None(queue', "online") <=> None(queue, "online")
      /\ LastIs(queue, "online", net.online) => LastIs(queue', "online", net.online)
  BY <1>2, <1>3, Appended
<1>8. Follows'
  BY <1>3, <1>4, <1>7 DEF Inv, Follows
<1> QED BY <1>3, <1>6, <1>8 DEF Inv, Told

LEMMA OnlineKeeps ==
    ASSUME Inv, OnlineGoes
    PROVE  Inv'
<1>1. TypeOK
  BY DEF Inv
<1> USE <1>1, Types
<1> DEFINE x == [kind |-> "online", to |-> ~net.online]
<1>2. x \in Signals /\ x.kind = "online" /\ x.to = ~net.online
  BY SignalTypes
<1>3. queue' = Append(queue, x) /\ Room /\ cm' = cm /\ told' = told
  BY DEF OnlineGoes
<1>4. net' \in Nets /\ net'.session = net.session /\ net'.online = ~net.online
  BY DEF OnlineGoes, Nets
<1> HIDE DEF x
<1>5. queue' \in Seq(Signals) /\ Len(queue') <= MaxQueue
  BY <1>2, <1>3, QueueTypes
<1>6. TypeOK'
  BY <1>3, <1>4, <1>5 DEF TypeOK, Nets
<1>7. /\ LastIs(queue', "online", net'.online) /\ ~None(queue', "online")
      /\ None(queue', "session") <=> None(queue, "session")
      /\ LastIs(queue, "session", net.session) => LastIs(queue', "session", net.session)
  BY <1>2, <1>3, <1>4, Appended
<1>8. Follows'
  BY <1>3, <1>4, <1>7 DEF Inv, Follows
<1> QED BY <1>3, <1>6, <1>8 DEF Inv, Told

\* Steps that leave the session, the online state, the queue and the state.
LEMMA OtherKeeps ==
    ASSUME Inv, OpenFails \/ (\E bs \in SUBSET Bearers : NetworksChange(bs)) \/ StartScanning
                \/ SyncEnds
    PROVE  Inv'
<1>1. TypeOK
  BY DEF Inv
<1> USE <1>1, Types
<1>2. /\ net' \in Nets /\ net'.session = net.session /\ net'.online = net.online
      /\ queue' = queue
  <2>1. CASE OpenFails
    BY <2>1 DEF OpenFails, Nets
  <2>2. CASE \E bs \in SUBSET Bearers : NetworksChange(bs)
    BY <2>2 DEF NetworksChange, Nets
  <2> QED BY <2>1, <2>2 DEF StartScanning, SyncEnds
<1>3. cm' \in Members /\ cm'.state = cm.state /\ cm'.online = cm.online
  BY DEF OpenFails, NetworksChange, StartScanning, SyncEnds, Members
<1>4. /\ told' \in Tolds /\ told'.last = told.last
      /\ told'.asked /\ ~told'.running => told.asked /\ ~told.running
  BY DEF OpenFails, NetworksChange, StartScanning, SyncEnds, Tolds
<1>5. TypeOK' /\ Told'
  BY <1>2, <1>3, <1>4 DEF Inv, TypeOK, Told, Nets, Tolds
<1>6. Follows'
  BY <1>2, <1>3 DEF Inv, Follows
<1> QED BY <1>5, <1>6 DEF Inv

LEMMA TakenTypes ==
    ASSUME Inv, queue # <<>>, queue' = Tail(queue)
    PROVE  /\ Next1 \in Signals /\ queue' \in Seq(Signals) /\ Len(queue') <= MaxQueue
           /\ LastIs(queue', "session", net.session) /\ LastIs(queue', "online", net.online)
           /\ Next1.kind = "session" /\ None(queue', "session") => Next1.to = net.session
           /\ Next1.kind = "online" /\ None(queue', "online") => Next1.to = net.online
           /\ Next1.kind = "session" /\ None(queue', "online") => None(queue, "online")
           /\ Next1.kind = "online" /\ None(queue', "session") => None(queue, "session")
<1>1. queue \in Seq(Signals) /\ Len(queue) <= MaxQueue
  BY DEF Inv, TypeOK
<1>2. /\ Head(queue) \in Signals /\ Tail(queue) \in Seq(Signals)
      /\ Len(Tail(queue)) = Len(queue) - 1
  BY <1>1, Taken
<1>3. LastIs(queue, "session", net.session) /\ LastIs(queue, "online", net.online)
  BY DEF Inv, Follows
<1>4. /\ LastIs(Tail(queue), "session", net.session)
      /\ Head(queue).kind = "session" /\ None(Tail(queue), "session") => Head(queue).to = net.session
  BY <1>1, <1>3, Taken
<1>5. /\ LastIs(Tail(queue), "online", net.online)
      /\ Head(queue).kind = "online" /\ None(Tail(queue), "online") => Head(queue).to = net.online
  BY <1>1, <1>3, Taken
<1>6. /\ Head(queue).kind # "online" /\ None(Tail(queue), "online") => None(queue, "online")
      /\ Head(queue).kind # "session" /\ None(Tail(queue), "session") => None(queue, "session")
  BY <1>1, Taken
<1>7. Len(queue') <= MaxQueue
  BY <1>1, <1>2, ConstantsAssumption
<1> QED BY <1>2, <1>4, <1>5, <1>6, <1>7 DEF Next1

LEMMA DeliverSessionKeeps ==
    ASSUME Inv, DeliverSession
    PROVE  Inv'
<1>1. /\ TypeOK /\ Agree(cm, told) /\ Waits(cm, told)
      /\ cm.state = "Connected" => cm.online
      /\ queue # <<>> /\ Next1.kind = "session" /\ queue' = Tail(queue) /\ net' = net
  BY DEF Inv, Told, Agree, Waits, Follows, DeliverSession
<1> USE <1>1, Types
<1>2. Next1 \in Signals /\ Next1.to \in SessionStates
  BY TakenTypes, SignalTypes
<1> DEFINE c == SessionStateChanged(cm, Next1.to)
           silent == c.silent /\ c.state = "Connecting"
<1>3. /\ c \in Members
      /\ \A u \in ToldOfSession(cm, told, Next1.to) :
            u \in Tolds /\ Agree(c, u) /\ (Waits(cm, told) => Waits(c, u))
      /\ c.online = cm.online
      /\ c.state = "Connected" => c.online
      /\ Next1.to # "Closing" => (c.state = "Connected" <=> Next1.to = "Connected" /\ cm.online)
  BY <1>2, StateChangedTypes
<1>4. cm' = [c EXCEPT !.silent = silent] /\ told' \in ToldOfSession(cm, told, Next1.to)
  BY DEF DeliverSession
<1>5. silent \in BOOLEAN
  BY <1>3 DEF Members
<1> HIDE DEF c, silent
<1>6. cm' \in Members /\ cm'.state = c.state /\ cm'.online = cm.online
  BY <1>3, <1>4, <1>5 DEF Members
<1>7. TypeOK' /\ Told'
  <2>1. told' \in Tolds /\ Agree(c, told') /\ Waits(c, told')
    BY <1>1, <1>3, <1>4
  <2>2. Told'
    BY <1>6, <2>1 DEF Told, Agree, Waits
  <2> QED BY <1>6, <2>1, <2>2, TakenTypes DEF TypeOK, Tolds
<1>8. Follows'
  BY <1>3, <1>6, TakenTypes DEF Inv, Follows
<1> QED BY <1>7, <1>8 DEF Inv

LEMMA DeliverOnlineKeeps ==
    ASSUME Inv, DeliverOnline
    PROVE  Inv'
<1>1. /\ TypeOK /\ queue # <<>> /\ Next1.kind = "online" /\ queue' = Tail(queue) /\ net' = net
  BY DEF Inv, DeliverOnline
<1> USE <1>1, Types
<1>2. Next1 \in Signals /\ Next1.to \in BOOLEAN
  BY TakenTypes, SignalTypes
<1> DEFINE up   == Next1.to /\ net.session = "Connected" /\ cm.state # "Connected"
           down == ~Next1.to /\ cm.state # "Disconnected"
           state == IF up THEN "Connected" ELSE IF down THEN "Disconnected" ELSE cm.state
           iap == IF up THEN net.active ELSE IF down THEN "none" ELSE cm.iap
<1>3. /\ state \in {"InitialState", "WillConnect", "Connecting", "Connected", "Disconnected"}
      /\ iap \in Bearers \cup {"none"}
  BY DEF Members
<1>4. cm' = [cm EXCEPT !.online = Next1.to, !.state = state, !.iap = iap]
  BY DEF DeliverOnline
<1>5. /\ told' \in Tolds
      /\ up => told'.last = "connected" /\ (told'.asked => told'.running)
      /\ down => told'.last = "disconnected" /\ (told'.asked => told'.running)
      /\ ~up /\ ~down => told' = told
  BY ToldTypes DEF DeliverOnline
<1>6. /\ up => state = "Connected"
      /\ down => state = "Disconnected"
      /\ ~up /\ ~down => state = cm.state
  BY <1>2
<1> HIDE DEF state, iap
<1>7. cm' \in Members /\ cm'.state = state /\ cm'.online = Next1.to
  BY <1>2, <1>3, <1>4 DEF Members
<1>8. Told'
  BY <1>5, <1>6, <1>7 DEF Inv, Told
<1>9. TypeOK'
  BY <1>5, <1>7, TakenTypes DEF TypeOK, Tolds
<1>10. Follows'
  <2>1. cm'.state = "Connected" => cm'.online
    BY <1>2, <1>6, <1>7
  <2>2. None(queue', "session") /\ net.session # "Closing" =>
           (cm'.state = "Connected" <=> net.session = "Connected" /\ cm'.online)
    BY <1>2, <1>6, <1>7, TakenTypes DEF Inv, Follows
  <2>3. None(queue', "online") => cm'.online = net.online
    BY <1>7, TakenTypes
  <2> QED BY <2>1, <2>2, <2>3, TakenTypes DEF Follows
<1> QED BY <1>8, <1>9, <1>10 DEF Inv

\* Whatever follows ensureConnectionStateIsUpToDate, if it makes no Connected of the
\* state, nor takes one away.
LEMMA EnsuredKeeps ==
    ASSUME Inv, NEW t \in Tolds, Agree(cm, t), queue' = queue,
           net' \in Nets, net'.session = net.session, net'.online = net.online,
           cm' \in Members, cm'.online = Ensured.online,
           \/ cm'.state = Ensured.state
           \/ Ensured.state \notin {"Connected", "Connecting"} /\ cm'.state # "Connected",
           told' \in Tolds, told'.last = ToldEnsured(t).last \/
              (told'.last = "connected" /\ cm'.state = "Connected"),
           Waits(cm', told')
    PROVE  Inv'
<1>1. TypeOK
  BY DEF Inv
<1>2. TypeOK'
  BY <1>1 DEF TypeOK, Nets, Tolds
<1>3. /\ Agree(Ensured, ToldEnsured(t)) /\ Ensured.online = cm.online
      /\ Ensured.state = "Connected" => cm.online
      /\ None(queue, "session") /\ net.session # "Closing" =>
            (Ensured.state = "Connected" <=> net.session = "Connected" /\ cm.online)
  BY EnsuredTypes
<1>4. Told'
  BY <1>3 DEF Told, Agree, Waits
<1>5. Follows'
  BY <1>3 DEF Inv, Follows
<1> QED BY <1>2, <1>4, <1>5 DEF Inv

LEMMA ScanKeeps ==
    ASSUME Inv, ScanFinished
    PROVE  Inv'
<1>1. /\ TypeOK /\ Agree(cm, told) /\ Waits(cm, told)
      /\ queue' = queue /\ told' = ToldEnsured(told)
  BY DEF Inv, Told, Agree, Waits, ScanFinished
<1> USE <1>1, Types
<1> DEFINE c == [Ensured EXCEPT !.scanning = FALSE]
           opens == PrimaryIap = "wifi" /\ (net.active = "wifi" \/ WifiAutoConnect)
<1>2. Ensured \in Members /\ told' \in Tolds /\ Waits(Ensured, told')
  BY EnsuredTypes
<1>3. c \in Members /\ c.state = Ensured.state /\ c.online = Ensured.online
  BY <1>2 DEF Members
<1>4. opens \in BOOLEAN
  BY ConstantsAssumption
<1>5. CASE cm' = c /\ UNCHANGED net
  <2>1. Waits(cm', told')
    BY <1>2, <1>3, <1>5 DEF Waits
  <2> HIDE DEF c
  <2> QED BY <1>2, <1>3, <1>5, <2>1, EnsuredKeeps
<1>6. CASE /\ c.state \notin {"Connected", "Connecting"}
           /\ cm' = [c EXCEPT !.state = IF opens THEN "Connecting" ELSE "WillConnect",
                              !.registered = c.registered \/ opens, !.iap = PrimaryIap,
                              !.silent = IF opens THEN FALSE ELSE c.silent]
           /\ net' = IF opens THEN Opening ELSE net
  <2>1. net' \in Nets /\ net'.session = net.session /\ net'.online = net.online
    BY <1>6, OpeningTypes
  <2> DEFINE state == IF opens THEN "Connecting" ELSE "WillConnect"
             registered == c.registered \/ opens
             silent == IF opens THEN FALSE ELSE c.silent
  <2>2. /\ state \in {"Connecting", "WillConnect"} /\ registered \in BOOLEAN
        /\ silent \in BOOLEAN
    BY <1>3, <1>4 DEF Members
  <2>3. cm' = [c EXCEPT !.state = state, !.registered = registered, !.iap = PrimaryIap,
                        !.silent = silent]
    BY <1>6
  <2> HIDE DEF c, state, registered, silent, opens
  <2>4. cm' \in Members /\ cm'.state = state /\ cm'.online = c.online
    BY <1>3, <2>2, <2>3 DEF Members
  <2>5. Waits(cm', told')
    BY <1>2, <1>3, <1>6 DEF Waits
  <2> QED BY <1>2, <1>3, <1>6, <2>1, <2>2, <2>4, <2>5, EnsuredKeeps
<1> QED BY <1>5, <1>6 DEF ScanFinished

LEMMA RequestKeeps ==
    ASSUME Inv, RequestConnection
    PROVE  Inv'
<1> DEFINE a == [told EXCEPT !.asked = TRUE]
           c == Ensured
           t == ToldEnsured(a)
<1>1. TypeOK /\ Agree(cm, told) /\ queue' = queue
  BY DEF Inv, Told, Agree, RequestConnection
<1> USE <1>1, Types
<1>2. a \in Tolds /\ Agree(cm, a)
  BY DEF Tolds, Agree
<1> HIDE DEF a
<1>3. c \in Members /\ t \in Tolds
  BY <1>2, EnsuredTypes
<1>4. c.iap \in Bearers \cup {"none"}
  BY <1>3 DEF Members
<1>5. CASE c.state = "Connected" /\ cm' = c /\ told' = NetworkConnected(t, c.iap) /\ net' = net
  <2>1. told' \in Tolds /\ told'.last = "connected" /\ Waits(cm', told')
    BY <1>3, <1>4, <1>5, ToldTypes DEF Waits
  <2> QED BY <1>2, <1>3, <1>5, <2>1, EnsuredKeeps
<1>6. CASE c.state = "Connecting" /\ cm' = c /\ told' = t /\ net' = net
  <2>1. Waits(cm', told')
    BY <1>6 DEF Waits
  <2> QED BY <1>2, <1>3, <1>6, <2>1, EnsuredKeeps
<1>7. CASE /\ c.state \notin {"Connected", "Connecting"}
           /\ cm' = [c EXCEPT !.state = "Connecting", !.registered = TRUE, !.silent = FALSE]
           /\ net' = Opening /\ told' = t
  <2>1. net' \in Nets /\ net'.session = net.session /\ net'.online = net.online
    BY <1>7, OpeningTypes
  <2> HIDE DEF c
  <2>2. cm' \in Members /\ cm'.state = "Connecting" /\ cm'.online = c.online
    BY <1>3, <1>7 DEF Members
  <2>3. Waits(cm', told')
    BY <2>2 DEF Waits
  <2> QED BY <1>2, <1>3, <1>7, <2>1, <2>2, <2>3, EnsuredKeeps DEF c
<1>8. CASE cm' = c /\ told' = [t EXCEPT !.asked = FALSE] /\ net' = net
  <2> HIDE DEF t
  <2>1. told' \in Tolds /\ told'.last = t.last /\ Waits(cm', told')
    BY <1>3, <1>8 DEF Tolds, Waits
  <2> QED BY <1>2, <1>3, <1>8, <2>1, EnsuredKeeps DEF t
<1> QED BY <1>5, <1>6, <1>7, <1>8 DEF RequestConnection, a

-----------------------------------------------------------------------------
(* The theorems.                                                           *)

LEMMA InitHolds == Init => Inv
<1> SUFFICES ASSUME Init PROVE Inv
  OBVIOUS
<1>1. /\ net \in Nets /\ queue = <<>> /\ net.session \in {"Disconnected", "Connected"}
      /\ net.active \in Bearers \cup {"none"} /\ net.online \in BOOLEAN
  <2>1. net \in [session : {"Disconnected", "Connected"}, online : BOOLEAN, opening : {FALSE},
                 inRange : SUBSET Bearers, active : Bearers \cup {"none"}] /\ queue = <<>>
    BY DEF Init
  <2> QED BY <2>1 DEF Nets, SessionStates
<1> DEFINE c == [state |-> "InitialState", online |-> net.online, registered |-> FALSE,
                 scanning |-> FALSE, iap |-> "none", silent |-> FALSE]
           up == net.session = "Connected"
<1>2. c \in Members /\ c.state = "InitialState" /\ c.online = net.online
  BY <1>1 DEF Members
<1>3. cm = IF up THEN [c EXCEPT !.state = IF net.online THEN "Connected" ELSE "InitialState",
                                !.iap = net.active, !.registered = ~net.online]
                 ELSE c
  BY DEF Init
<1>4. /\ cm \in Members /\ cm.online = net.online
      /\ cm.state = IF up /\ net.online THEN "Connected" ELSE "InitialState"
  BY <1>1, <1>2, <1>3 DEF Members
<1>5. /\ told \in Tolds /\ ~told.asked
      /\ told.last = IF cm.state = "Connected" THEN "connected" ELSE "none"
  BY DEF Init, Tolds
<1>6. TypeOK
  <2>1. <<>> \in Seq(Signals) /\ Len(<<>>) = 0
    OBVIOUS
  <2> QED BY <1>1, <1>4, <1>5, <2>1, ConstantsAssumption DEF TypeOK, Nets, Tolds
<1>7. Told
  BY <1>4, <1>5 DEF Told
<1>8. Follows
  BY <1>1, <1>4 DEF Follows, LastIs, None
<1> QED BY <1>6, <1>7, <1>8 DEF Inv

LEMMA NextHolds == Inv /\ [Next]_vars => Inv'
<1> SUFFICES ASSUME Inv, [Next]_vars PROVE Inv'
  OBVIOUS
<1>1. CASE UNCHANGED vars
  BY <1>1 DEF vars, Inv, TypeOK, Follows, Told
<1> QED
  BY <1>1, SessionKeeps, OnlineKeeps, OtherKeeps, DeliverSessionKeeps, DeliverOnlineKeeps,
     ScanKeeps, RequestKeeps DEF Next, Deliver

LEMMA InvHolds == Spec => []Inv
BY InitHolds, NextHolds, PTL DEF Spec

\* The members, the queue and the listener have their types, for any bound.
THEOREM TypeCorrect ==
    Spec => []TypeOK
<1>1. Inv => TypeOK
  BY DEF Inv
<1> QED
  BY <1>1, InvHolds, PTL

\* With no signal on its way the state is Connected exactly if the session is up and
\* online, however many signals came before and in whatever order.
THEOREM ConnectedCorrect ==
    Spec => []ConnectedMeansUp
<1>1. Inv => ConnectedMeansUp
  BY DEF Inv, Follows, ConnectedMeansUp, None
<1> QED
  BY <1>1, InvHolds, PTL

\* EvernoteSync is told of every connection that is there, and of none that is not; and no
\* sync goes on waiting in a state in which no connection is being made.
THEOREM ToldCorrect ==
    Spec => []Told
<1>1. Inv => Told
  BY DEF Inv
<1> QED
  BY <1>1, InvHolds, PTL
=============================================================================
