-------------------------- MODULE LiveClientProofs --------------------------
(* What is proved of LiveClient for any projects and any number of switches  *)
(* and faults: sockets and timers never multiply, and the reconnect          *)
(* listeners hear of each recovery once.                                     *)
EXTENDS LiveClient, FiniteSetTheorems, TLAPS

Sockets == [project : Projects, state : States]
LiveOf(s) == {i \in DOMAIN s : s[i].state # "closed"}

-----------------------------------------------------------------------------
(* Sockets that are not closed yet.                                          *)

LEMMA LiveFinite ==
    ASSUME NEW s \in Seq(Sockets)
    PROVE  IsFiniteSet(LiveOf(s)) /\ Cardinality(LiveOf(s)) \in Nat
<1>1. IsFiniteSet(1..Len(s)) /\ LiveOf(s) \subseteq 1..Len(s)
  BY FS_Interval DEF LiveOf
<1>2. IsFiniteSet(LiveOf(s))
  BY <1>1, FS_Subset
<1>3. QED
  BY <1>2, FS_CardinalityType

LEMMA InType ==
    ASSUME NEW s \in Seq(Sockets), NEW i \in DOMAIN s, NEW st \in States
    PROVE  /\ In(s, i, st) \in Seq(Sockets)
           /\ Len(In(s, i, st)) = Len(s)
           /\ \A j \in 1..Len(s) :
                 In(s, i, st)[j].state = IF j = i THEN st ELSE s[j].state
<1>1. \A j \in 1..Len(s) : s[j] \in Sockets
  OBVIOUS
<1>2. [s[i] EXCEPT !.state = st] \in Sockets /\ [s[i] EXCEPT !.state = st].state = st
  BY <1>1 DEF Sockets
<1>3. QED
  BY <1>2 DEF In

LEMMA DialType ==
    ASSUME NEW s \in Seq(Sockets), NEW id \in Projects
    PROVE  Dial(s, id) \in Seq(Sockets)
<1>1. [project |-> id, state |-> "connecting"] \in Sockets
  BY DEF Sockets, States
<1>2. QED
  BY <1>1 DEF Dial

LEMMA DialLive ==
    ASSUME NEW s \in Seq(Sockets), NEW id \in Projects
    PROVE  Cardinality(LiveOf(Dial(s, id))) = Cardinality(LiveOf(s)) + 1
<1>1. Len(Dial(s, id)) = Len(s) + 1 /\ Len(s) \in Nat
  BY DEF Dial
<1>2. /\ Dial(s, id)[Len(s) + 1].state = "connecting"
      /\ \A j \in 1..Len(s) : Dial(s, id)[j] = s[j]
  BY DEF Dial
<1>3. LiveOf(Dial(s, id)) = LiveOf(s) \cup {Len(s) + 1}
  <2>1. DOMAIN Dial(s, id) = 1..(Len(s) + 1) /\ DOMAIN s = 1..Len(s)
    BY <1>1, DialType
  <2>2. QED
    BY <1>2, <2>1 DEF LiveOf
<1>4. Len(s) + 1 \notin LiveOf(s)
  BY DEF LiveOf
<1>5. QED
  BY <1>3, <1>4, LiveFinite, FS_AddElement

LEMMA InLive ==
    ASSUME NEW s \in Seq(Sockets), NEW i \in LiveOf(s),
           NEW st \in States, st # "closed"
    PROVE  LiveOf(In(s, i, st)) = LiveOf(s)
<1>1. i \in DOMAIN s /\ DOMAIN s = 1..Len(s) /\ s[i].state # "closed"
  BY DEF LiveOf
<1>2. /\ In(s, i, st) \in Seq(Sockets) /\ Len(In(s, i, st)) = Len(s)
      /\ \A j \in 1..Len(s) : In(s, i, st)[j].state = IF j = i THEN st ELSE s[j].state
  BY <1>1, InType, Zenon
<1>3. \A j \in 1..Len(s) : In(s, i, st)[j].state # "closed" <=> s[j].state # "closed"
  BY <1>1, <1>2
<1>4. QED
  BY <1>1, <1>2, <1>3 DEF LiveOf

LEMMA InClosed ==
    ASSUME NEW s \in Seq(Sockets), NEW i \in LiveOf(s)
    PROVE  Cardinality(LiveOf(In(s, i, "closed"))) = Cardinality(LiveOf(s)) - 1
<1>1. i \in DOMAIN s /\ DOMAIN s = 1..Len(s) /\ "closed" \in States
  BY DEF LiveOf, States
<1>2. DOMAIN In(s, i, "closed") = 1..Len(s)
  BY <1>1, InType
<1>3. LiveOf(In(s, i, "closed")) = LiveOf(s) \ {i}
  BY <1>1, <1>2, InType DEF LiveOf
<1>4. QED
  BY <1>3, LiveFinite, FS_RemoveElement

LEMMA CloseWsLive ==
    ASSUME NEW s \in Seq(Sockets)
    PROVE  CloseWs(s) \in Seq(Sockets) /\ LiveOf(CloseWs(s)) = LiveOf(s)
<1>1. CASE s # <<>> /\ s[Len(s)].state \in {"connecting", "open"}
  <2>1. CloseWs(s) = In(s, Len(s), "closing")
    BY <1>1 DEF CloseWs
  <2>2. Len(s) \in DOMAIN s /\ "closing" \in States
    BY <1>1 DEF States
  <2>3. Len(s) \in LiveOf(s)
    BY <1>1, <2>2 DEF LiveOf
  <2>4. QED
    BY <2>1, <2>2, <2>3, InType, InLive
<1>2. CASE ~(s # <<>> /\ s[Len(s)].state \in {"connecting", "open"})
  BY <1>2 DEF CloseWs
<1>3. QED
  BY <1>1, <1>2

\* Cardinality at most one means at most one socket.
LEMMA OneLive ==
    ASSUME NEW s \in Seq(Sockets), Cardinality(LiveOf(s)) <= 1,
           NEW i \in LiveOf(s), NEW j \in LiveOf(s)
    PROVE  i = j
<1>1. SUFFICES ASSUME i # j PROVE FALSE
  OBVIOUS
<1>2. IsFiniteSet(LiveOf(s) \ {i}) /\ Cardinality(LiveOf(s) \ {i}) = Cardinality(LiveOf(s)) - 1
  BY LiveFinite, FS_RemoveElement
<1>3. Cardinality(LiveOf(s)) = 1 /\ Cardinality(LiveOf(s) \ {i}) = 0
  BY <1>2, LiveFinite, FS_CardinalityType
<1>4. LiveOf(s) \ {i} = {}
  BY <1>2, <1>3, FS_EmptySet
<1>5. QED
  BY <1>1, <1>4

LEMMA NoneLive ==
    ASSUME NEW s \in Seq(Sockets), Cardinality(LiveOf(s)) = 0
    PROVE  LiveOf(s) = {}
BY LiveFinite, FS_EmptySet

-----------------------------------------------------------------------------
(* The inductive invariant.  Before the first switch nothing has happened;   *)
(* after one switch at most one socket is live, and connected says whether   *)
(* it is open.                                                               *)

Asleep ==
    /\ switches = 0 =>
          ~token /\ ~connected /\ ~hadConnection /\ lost = 0 /\ fired = 0
    /\ switches > 0 => token /\ projectID # None

OneChain ==
    switches <= 1 =>
        /\ \A i \in DOMAIN sock : sock[i].state # "closing"
        /\ connected <=> \E i \in DOMAIN sock : sock[i].state = "open"
        /\ connected => hadConnection

ClientInv ==
    TypeOK /\ OneRetryEach /\ Asleep /\ OneChain /\ RecoveriesMatch

LEMMA InitInv ==
    Init => ClientInv
<1>1. SUFFICES ASSUME Init PROVE ClientInv
  OBVIOUS
<1>2. sock \in Seq(Sockets) /\ DOMAIN sock = {}
  BY <1>1 DEF Init
<1>3. TypeOK
  <2>1. 0 \in 0..MaxSwitches /\ 0 \in 0..MaxFaults
    BY ClientConstants
  <2>2. QED
    BY <1>1, <1>2, <2>1 DEF Init, TypeOK, Sockets
<1>4. Live = {}
  BY <1>2 DEF Live
<1>5. OneRetryEach
  BY <1>1, <1>4, FS_EmptySet DEF Init, OneRetryEach
<1>6. Asleep
  BY <1>1 DEF Init, Asleep
<1>7. OneChain
  BY <1>1, <1>2 DEF Init, OneChain
<1>8. RecoveriesMatch
  <2>1. fired = 0 /\ lost = 0 /\ (IF hadConnection /\ ~connected THEN 1 ELSE 0) = 0
    BY <1>1 DEF Init
  <2>2. 0 = 0 - 0
    OBVIOUS
  <2>3. QED
    BY <2>1, <2>2, Zenon DEF RecoveriesMatch
<1>9. QED
  BY <1>3, <1>5, <1>6, <1>7, <1>8 DEF ClientInv

LEMMA SwitchInv ==
    ASSUME ClientInv, NEW id \in Projects, NEW auth \in BOOLEAN, SetProjectID(id, auth)
    PROVE  ClientInv'
<1> DEFINE left == IF connected THEN CloseWs(sock) ELSE sock
<1>1. sock \in Seq(Sockets) /\ switches \in Nat /\ timers \in Nat
  BY ClientConstants DEF ClientInv, TypeOK, Sockets
<1>2. left \in Seq(Sockets) /\ LiveOf(left) = LiveOf(sock)
  BY <1>1, CloseWsLive
<1>3. sock' = IF token' THEN Dial(left, id) ELSE left
  BY DEF SetProjectID
<1>4. token' = (token \/ auth) /\ token \in BOOLEAN /\ (switches > 0 => token)
  BY DEF SetProjectID, ClientInv, TypeOK, Asleep
<1>5. ~token' => sock' = sock /\ switches' = switches /\ switches = 0 /\ ~connected
  BY <1>1, <1>4 DEF SetProjectID, ClientInv, Asleep
<1> HIDE DEF left
<1>6. sock' \in Seq(Sockets)
  BY <1>2, <1>3, DialType
<1>7. TypeOK'
  <2>1. switches' \in 0..MaxSwitches
    BY <1>1, ClientConstants DEF SetProjectID
  <2>2. token' \in BOOLEAN /\ connected' \in BOOLEAN /\ hadConnection' \in BOOLEAN
    BY <1>4 DEF SetProjectID
  <2>3. projectID' \in Projects \cup {None}
    BY DEF SetProjectID
  <2>4. QED
    BY <1>6, <2>1, <2>2, <2>3 DEF SetProjectID, ClientInv, TypeOK, Sockets
<1>8. OneRetryEach'
  <2>1. Cardinality(LiveOf(sock)) + timers = switches
    BY DEF ClientInv, OneRetryEach, Live, LiveOf
  <2>2. Cardinality(LiveOf(left)) \in Nat
    BY <1>2, LiveFinite
  <2>3. Cardinality(LiveOf(sock')) = Cardinality(LiveOf(left)) + (IF token' THEN 1 ELSE 0)
    BY <1>2, <1>3, <2>2, DialLive
  <2>4. Cardinality(LiveOf(sock')) + timers' = switches'
    BY <1>1, <1>2, <2>1, <2>2, <2>3 DEF SetProjectID
  <2>5. QED
    BY <2>4 DEF OneRetryEach, Live, LiveOf
<1>9. Asleep' /\ OneChain' /\ RecoveriesMatch'
  <2>1. CASE ~token'
    <3>1. Asleep'
      BY <1>4, <1>5, <2>1 DEF SetProjectID, ClientInv, Asleep
    <3>2. OneChain'
      BY <1>1, <1>5, <2>1 DEF SetProjectID, ClientInv, OneChain
    <3>3. RecoveriesMatch'
      BY <1>1, <1>4, <1>5, <2>1 DEF SetProjectID, ClientInv, Asleep, RecoveriesMatch
    <3>4. QED
      BY <3>1, <3>2, <3>3
  <2>2. CASE token' /\ switches > 0
    <3>1. ~(switches' <= 1) /\ switches' # 0
      BY <1>1, <2>2 DEF SetProjectID
    <3>2. projectID' # None
      BY ClientConstants DEF SetProjectID
    <3>3. QED
      BY <2>2, <3>1, <3>2, Zenon DEF Asleep, OneChain, RecoveriesMatch
  <2>3. CASE token' /\ switches = 0
    <3>1. ~token /\ ~connected /\ ~hadConnection /\ lost = 0 /\ fired = 0
      BY <2>3 DEF ClientInv, Asleep
    <3>2. sock' = Dial(sock, id) /\ switches' = 1
      BY <1>3, <2>3, <3>1 DEF SetProjectID, left
    <3>3. LiveOf(sock) = {}
      <4>1. Cardinality(LiveOf(sock)) + timers = 0
        BY <2>3 DEF ClientInv, OneRetryEach, Live, LiveOf
      <4>2. QED
        BY <1>1, <4>1, LiveFinite, NoneLive
    <3>4. \A i \in DOMAIN sock' : sock'[i].state \in {"connecting", "closed"}
      BY <1>1, <3>2, <3>3 DEF Dial, LiveOf
    <3>5. OneChain'
      BY <3>4 DEF SetProjectID, OneChain
    <3>6. Asleep'
      BY <2>3, <3>2, ClientConstants DEF SetProjectID, Asleep
    <3>7. lost' = 0 /\ fired' = 0 /\ (IF hadConnection' /\ ~connected' THEN 1 ELSE 0) = 0
      BY <3>1 DEF SetProjectID
    <3>8. RecoveriesMatch'
      <4>1. 0 = 0 - 0
        OBVIOUS
      <4>2. QED
        BY <3>7, <4>1, Zenon DEF RecoveriesMatch
    <3>9. QED
      BY <3>5, <3>6, <3>8
  <2>4. QED
    BY <1>1, <1>4, <2>1, <2>2, <2>3
<1>10. QED
  BY <1>7, <1>8, <1>9 DEF ClientInv

\* An established connection is made known once, and there was none before it.
LEMMA OpenInv ==
    ASSUME ClientInv, NEW i \in DOMAIN sock, OnOpen(i)
    PROVE  ClientInv'
<1>1. sock \in Seq(Sockets) /\ timers \in Nat /\ switches \in Nat /\ fired \in Nat /\ lost \in Nat
  BY ClientConstants DEF ClientInv, TypeOK, Sockets
<1>2. /\ sock[i].state = "connecting" /\ i \in LiveOf(sock)
      /\ sock' = In(sock, i, "open") /\ "open" \in States /\ connected' /\ hadConnection'
  BY DEF OnOpen, LiveOf, States
<1>3. /\ sock' \in Seq(Sockets) /\ DOMAIN sock' = DOMAIN sock
      /\ \A j \in DOMAIN sock : sock'[j].state = IF j = i THEN "open" ELSE sock[j].state
  <2>1. /\ In(sock, i, "open") \in Seq(Sockets) /\ Len(In(sock, i, "open")) = Len(sock)
        /\ \A j \in 1..Len(sock) :
              In(sock, i, "open")[j].state = IF j = i THEN "open" ELSE sock[j].state
    BY <1>1, <1>2, InType, Zenon
  <2>2. DOMAIN sock = 1..Len(sock) /\ DOMAIN In(sock, i, "open") = 1..Len(sock)
    BY <1>1, <2>1
  <2>3. QED
    BY <1>2, <2>1, <2>2
<1>4. fired' = fired + (IF hadConnection THEN 1 ELSE 0)
  BY DEF OnOpen
<1>5. TypeOK'
  <2>1. fired' \in Nat /\ connected' \in BOOLEAN /\ hadConnection' \in BOOLEAN
    BY <1>1, <1>4 DEF OnOpen
  <2>2. QED
    BY <1>3, <2>1 DEF OnOpen, ClientInv, TypeOK, Sockets
<1>6. OneRetryEach'
  <2>1. LiveOf(sock') = LiveOf(sock)
    BY <1>1, <1>2, InLive
  <2>2. QED
    BY <2>1 DEF OnOpen, ClientInv, OneRetryEach, Live, LiveOf
<1>7. switches # 0
  <2>1. Cardinality(LiveOf(sock)) + timers = switches
    BY DEF ClientInv, OneRetryEach, Live, LiveOf
  <2>2. QED
    BY <1>1, <1>2, <2>1, LiveFinite, NoneLive
<1>8. Asleep'
  BY <1>1, <1>7 DEF OnOpen, ClientInv, Asleep
<1>9. switches <= 1 => ~connected
  <2>1. SUFFICES ASSUME switches <= 1, connected PROVE FALSE
    OBVIOUS
  <2>2. PICK j \in DOMAIN sock : sock[j].state = "open"
    BY <2>1 DEF ClientInv, OneChain
  <2>3. j \in LiveOf(sock)
    BY <2>2 DEF LiveOf
  <2>4. Cardinality(LiveOf(sock)) <= 1
    <3>1. Cardinality(LiveOf(sock)) + timers = switches
      BY DEF ClientInv, OneRetryEach, Live, LiveOf
    <3>2. QED
      BY <1>1, <2>1, <3>1, LiveFinite
  <2>5. QED
    BY <1>1, <1>2, <2>2, <2>3, <2>4, OneLive
<1>10. OneChain'
  <2>1. SUFFICES ASSUME switches <= 1 PROVE OneChain'
    BY DEF OnOpen, OneChain
  <2>2. \A j \in DOMAIN sock : sock[j].state # "closing"
    BY <2>1 DEF ClientInv, OneChain
  <2>3. QED
    BY <1>2, <1>3, <2>2 DEF OneChain
<1>11. RecoveriesMatch'
  <2>1. SUFFICES ASSUME switches <= 1 PROVE fired' = lost'
    BY <1>1, <1>2 DEF OnOpen, RecoveriesMatch, ClientInv, TypeOK
  <2>2. fired = lost - (IF hadConnection THEN 1 ELSE 0)
    BY <1>9, <2>1 DEF ClientInv, RecoveriesMatch
  <2>3. lost' = lost
    BY DEF OnOpen
  <2>4. QED
    BY <1>1, <1>4, <2>2, <2>3
<1>12. QED
  BY <1>5, <1>6, <1>8, <1>10, <1>11 DEF ClientInv

\* The end of a socket: its retry takes its place.
LEMMA CloseKeeps ==
    ASSUME ClientInv, NEW i \in DOMAIN sock, sock[i].state # "closed", OnClose(i),
           faults' \in 0..MaxFaults, lost' \in Nat,
           lost' = lost + (IF sock[i].state = "open" THEN 1 ELSE 0)
    PROVE  ClientInv'
<1>1. sock \in Seq(Sockets) /\ timers \in Nat /\ switches \in Nat /\ fired \in Nat /\ lost \in Nat
  BY ClientConstants DEF ClientInv, TypeOK, Sockets
<1>2. i \in LiveOf(sock) /\ sock' = In(sock, i, "closed") /\ "closed" \in States
  BY DEF OnClose, LiveOf, States
<1>3. /\ sock' \in Seq(Sockets) /\ DOMAIN sock' = DOMAIN sock
      /\ \A j \in DOMAIN sock : sock'[j].state = IF j = i THEN "closed" ELSE sock[j].state
  <2>1. /\ In(sock, i, "closed") \in Seq(Sockets) /\ Len(In(sock, i, "closed")) = Len(sock)
        /\ \A j \in 1..Len(sock) :
              In(sock, i, "closed")[j].state = IF j = i THEN "closed" ELSE sock[j].state
    BY <1>1, <1>2, InType, Zenon
  <2>2. DOMAIN sock = 1..Len(sock) /\ DOMAIN In(sock, i, "closed") = 1..Len(sock)
    BY <1>1, <2>1
  <2>3. QED
    BY <1>2, <2>1, <2>2
<1>4. TypeOK'
  <2>1. timers' \in Nat
    BY <1>1 DEF OnClose
  <2>2. connected' \in BOOLEAN
    BY DEF OnClose
  <2>3. QED
    BY <1>3, <2>1, <2>2 DEF OnClose, ClientInv, TypeOK, Sockets
<1>5. Cardinality(LiveOf(sock)) + timers = switches
  BY DEF ClientInv, OneRetryEach, Live, LiveOf
<1>6. OneRetryEach'
  <2>1. Cardinality(LiveOf(sock')) = Cardinality(LiveOf(sock)) - 1
    BY <1>1, <1>2, InClosed
  <2>2. Cardinality(LiveOf(sock')) + timers' = switches'
    BY <1>1, <1>5, <2>1, LiveFinite DEF OnClose
  <2>3. QED
    BY <2>2 DEF OneRetryEach, Live, LiveOf
<1>7. switches # 0
  BY <1>1, <1>2, <1>5, LiveFinite, NoneLive
<1>8. Asleep'
  BY <1>1, <1>7 DEF OnClose, ClientInv, Asleep
<1>9. ASSUME switches <= 1, NEW j \in DOMAIN sock, sock[j].state = "open"
      PROVE  j = i
  <2>1. j \in LiveOf(sock)
    BY <1>9 DEF LiveOf
  <2>2. Cardinality(LiveOf(sock)) <= 1
    BY <1>1, <1>5, <1>9, LiveFinite
  <2>3. QED
    BY <1>1, <1>2, <2>1, <2>2, OneLive
<1>10. OneChain'
  <2>1. SUFFICES ASSUME switches <= 1 PROVE OneChain'
    BY DEF OnClose, OneChain
  <2>2. \A j \in DOMAIN sock : sock[j].state # "closing"
    BY <2>1 DEF ClientInv, OneChain
  <2>3. ~connected' /\ \A j \in DOMAIN sock' : sock'[j].state \notin {"closing", "open"}
    BY <1>3, <1>9, <2>1, <2>2 DEF OnClose
  <2>4. QED
    BY <2>3 DEF OneChain
<1>11. RecoveriesMatch'
  <2>1. SUFFICES ASSUME switches <= 1
                 PROVE  fired' = lost' - (IF hadConnection' THEN 1 ELSE 0)
    BY DEF OnClose, RecoveriesMatch
  <2>2. fired' = fired /\ hadConnection' = hadConnection
    BY DEF OnClose
  <2>3. CASE sock[i].state = "open"
    <3>1. connected /\ hadConnection
      BY <2>1, <2>3 DEF ClientInv, OneChain
    <3>2. fired = lost - 0
      BY <2>1, <3>1, Zenon DEF ClientInv, RecoveriesMatch
    <3>3. fired = (lost + 1) - 1 /\ lost' = lost + 1
      BY <1>1, <2>3, <3>2
    <3>4. QED
      BY <2>2, <3>1, <3>3
  <2>4. CASE sock[i].state # "open"
    <3>1. ~connected
      BY <1>9, <2>1, <2>4 DEF ClientInv, OneChain
    <3>2. fired = lost - (IF hadConnection THEN 1 ELSE 0)
      BY <2>1, <3>1 DEF ClientInv, RecoveriesMatch
    <3>3. lost' = lost
      BY <1>1, <2>4
    <3>4. QED
      BY <2>2, <3>2, <3>3
  <2>5. QED
    BY <2>3, <2>4
<1>12. QED
  BY <1>4, <1>6, <1>8, <1>10, <1>11 DEF ClientInv

LEMMA FaultInv ==
    ASSUME ClientInv, NEW i \in DOMAIN sock, Fault(i)
    PROVE  ClientInv'
<1>1. lost \in Nat /\ faults \in 0..MaxFaults /\ MaxFaults \in Nat
  BY ClientConstants DEF ClientInv, TypeOK
<1>2. faults' \in 0..MaxFaults /\ lost' \in Nat
  BY <1>1 DEF Fault
<1>3. sock[i].state # "closed"
  BY DEF Fault
<1>4. QED
  BY <1>2, <1>3, CloseKeeps DEF Fault

LEMMA ClosedInv ==
    ASSUME ClientInv, NEW i \in DOMAIN sock, Closed(i)
    PROVE  ClientInv'
<1>1. lost \in Nat /\ faults \in 0..MaxFaults
  BY DEF ClientInv, TypeOK
<1>2. faults' = faults /\ lost' = lost /\ lost = lost + 0 /\ sock[i].state = "closing"
  BY <1>1 DEF Closed
<1>3. lost' = lost + (IF sock[i].state = "open" THEN 1 ELSE 0)
  BY <1>2
<1>4. QED
  BY <1>1, <1>2, <1>3, CloseKeeps DEF Closed

\* A timer becomes a socket; it always dials, for the token is never dropped.
LEMMA RedialInv ==
    ASSUME ClientInv, Redial
    PROVE  ClientInv'
<1>1. sock \in Seq(Sockets) /\ timers \in Nat /\ switches \in Nat
  BY ClientConstants DEF ClientInv, TypeOK, Sockets
<1>2. Cardinality(LiveOf(sock)) + timers = switches
  BY DEF ClientInv, OneRetryEach, Live, LiveOf
<1>3. switches > 0 /\ token
  BY <1>1, <1>2, LiveFinite DEF Redial, ClientInv, Asleep
<1>4. projectID \in Projects
  BY <1>3 DEF ClientInv, TypeOK, Asleep
<1>5. sock' = Dial(sock, projectID) /\ timers' = timers - 1 /\ timers' \in Nat
  BY <1>1, <1>3, <1>4, ClientConstants DEF Redial
<1>6. sock' \in Seq(Sockets)
  BY <1>1, <1>4, <1>5, DialType
<1>7. TypeOK'
  BY <1>5, <1>6 DEF Redial, clientVars, ClientInv, TypeOK, Sockets
<1>8. OneRetryEach'
  <2>1. Cardinality(LiveOf(sock')) = Cardinality(LiveOf(sock)) + 1
    BY <1>1, <1>4, <1>5, DialLive
  <2>2. Cardinality(LiveOf(sock')) + timers' = switches'
    BY <1>1, <1>2, <1>5, <2>1, LiveFinite DEF Redial
  <2>3. QED
    BY <2>2 DEF OneRetryEach, Live, LiveOf
<1>9. Asleep' /\ RecoveriesMatch'
  BY DEF Redial, clientVars, ClientInv, Asleep, RecoveriesMatch
<1>10. OneChain'
  <2>1. SUFFICES ASSUME switches <= 1 PROVE OneChain'
    BY DEF Redial, clientVars, OneChain
  <2>2. Len(sock') = Len(sock) + 1 /\ sock'[Len(sock) + 1].state = "connecting"
    BY <1>1, <1>5 DEF Dial
  <2>3. DOMAIN sock' = 1..(Len(sock) + 1) /\ DOMAIN sock = 1..Len(sock) /\ Len(sock) \in Nat
    BY <1>1, <1>6, <2>2
  <2>4. \A j \in 1..Len(sock) : sock'[j] = sock[j]
    BY <1>1, <1>5 DEF Dial
  <2>5. \A j \in DOMAIN sock' : sock'[j].state # "closing"
    BY <2>1, <2>2, <2>3, <2>4 DEF ClientInv, OneChain
  <2>6. (\E j \in DOMAIN sock' : sock'[j].state = "open")
           <=> \E j \in DOMAIN sock : sock[j].state = "open"
    BY <2>2, <2>3, <2>4
  <2>7. (connected <=> \E j \in DOMAIN sock : sock[j].state = "open")
           /\ (connected => hadConnection)
    BY <2>1 DEF ClientInv, OneChain
  <2>8. QED
    BY <2>5, <2>6, <2>7 DEF Redial, clientVars, OneChain
<1>11. QED
  BY <1>7, <1>8, <1>9, <1>10 DEF ClientInv

LEMMA StutterInv ==
    ASSUME ClientInv, UNCHANGED vars
    PROVE  ClientInv'
BY DEF ClientInv, TypeOK, OneRetryEach, Live, Asleep, OneChain, RecoveriesMatch,
       vars, clientVars

-----------------------------------------------------------------------------
\* The inductive invariant holds in every reachable state.
THEOREM ClientCorrect == Spec => []ClientInv
<1>1. Init => ClientInv
  BY InitInv
<1>2. ClientInv /\ [Next]_vars => ClientInv'
  <2>1. SUFFICES ASSUME ClientInv, Next PROVE ClientInv'
    BY StutterInv
  <2>2. CASE \E id \in Projects, auth \in BOOLEAN : SetProjectID(id, auth)
    BY <2>1, <2>2, SwitchInv
  <2>3. CASE \E i \in DOMAIN sock : OnOpen(i)
    BY <2>1, <2>3, OpenInv
  <2>4. CASE \E i \in DOMAIN sock : Fault(i)
    BY <2>1, <2>4, FaultInv
  <2>5. CASE \E i \in DOMAIN sock : Closed(i)
    BY <2>1, <2>5, ClosedInv
  <2>6. CASE Redial
    BY <2>1, <2>6, RedialInv
  <2>7. QED
    BY <2>1, <2>2, <2>3, <2>4, <2>5, <2>6 DEF Next
<1>3. QED
  BY <1>1, <1>2, PTL DEF Spec

\* However switches, drops and failures interleave, there are as many live
\* sockets and sleeping retries as switches that dialled.
THEOREM RetriesCorrect == Spec => []OneRetryEach
<1>1. ClientInv => OneRetryEach
  BY DEF ClientInv
<1>2. QED
  BY <1>1, ClientCorrect, PTL

\* With one project chosen, the reconnect listeners are called once for each
\* connection lost and won back.
THEOREM RecoveriesCorrect == Spec => []RecoveriesMatch
<1>1. ClientInv => RecoveriesMatch
  BY DEF ClientInv
<1>2. QED
  BY <1>1, ClientCorrect, PTL
=============================================================================
