---------------------------- MODULE LiveHubProofs ----------------------------
(***************************************************************************)
(* What is proved of LiveHub for any connections, scopes and capacities:   *)
(* types, the bookkeeping of the Run loop (Send closed once, one           *)
(* subscription per scope in use), and the order of messages (NoGap).      *)
(***************************************************************************)
EXTENDS LiveHub, SequenceTheorems, TLAPS

-----------------------------------------------------------------------------
(* Queues.                                                                  *)

LEMMA QueueAppend ==
    ASSUME NEW q \in Seq(Conns), NEW c \in Conns, Distinct(q), ~InQueue(q, c)
    PROVE  /\ Distinct(Append(q, c))
           /\ \A d \in Conns : InQueue(Append(q, c), d) <=> InQueue(q, d) \/ d = c
BY DEF Distinct, InQueue

LEMMA QueueTail ==
    ASSUME NEW q \in Seq(Conns), q # <<>>, Distinct(q)
    PROVE  /\ Distinct(Tail(q))
           /\ Head(q) \in Conns /\ InQueue(q, Head(q))
           /\ \A d \in Conns : InQueue(Tail(q), d) <=> InQueue(q, d) /\ d # Head(q)
<1>1. Len(Tail(q)) = Len(q) - 1 /\ \A i \in 1..(Len(q) - 1) : Tail(q)[i] = q[i + 1]
  OBVIOUS
<1>2. Head(q) = q[1] /\ Len(q) \in Nat /\ Len(q) > 0 /\ \A i \in 1..Len(q) : q[i] \in Conns
  OBVIOUS
<1>3. Distinct(Tail(q))
  <2>1. SUFFICES ASSUME NEW i \in 1..(Len(q) - 1), NEW j \in 1..(Len(q) - 1),
                        q[i + 1] = q[j + 1]
                 PROVE  i = j
    BY <1>1 DEF Distinct
  <2>2. i + 1 \in 1..Len(q) /\ j + 1 \in 1..Len(q)
    BY <1>2
  <2>3. i + 1 = j + 1
    BY <2>1, <2>2 DEF Distinct
  <2>4. QED
    BY <2>3
<1>4. ASSUME NEW d \in Conns
      PROVE  InQueue(Tail(q), d) <=> InQueue(q, d) /\ d # Head(q)
  <2>1. ASSUME InQueue(Tail(q), d) PROVE InQueue(q, d) /\ d # Head(q)
    <3>1. PICK i \in 1..(Len(q) - 1) : q[i + 1] = d
      BY <1>1, <2>1 DEF InQueue
    <3>2. i + 1 \in 1..Len(q) /\ i + 1 # 1 /\ 1 \in 1..Len(q)
      BY <1>2
    <3>3. QED
      BY <1>2, <3>1, <3>2 DEF InQueue, Distinct
  <2>2. ASSUME InQueue(q, d), d # Head(q) PROVE InQueue(Tail(q), d)
    <3>1. PICK i \in 1..Len(q) : q[i] = d
      BY <2>2 DEF InQueue
    <3>2. i # 1 /\ i - 1 \in 1..(Len(q) - 1) /\ (i - 1) + 1 = i
      BY <1>2, <2>2, <3>1
    <3>3. QED
      BY <1>1, <3>1, <3>2 DEF InQueue
  <2>3. QED
    BY <2>1, <2>2
<1>5. InQueue(q, Head(q))
  BY <1>2 DEF InQueue
<1>6. QED
  BY <1>2, <1>3, <1>4, <1>5

-----------------------------------------------------------------------------
(* Types.                                                                   *)

LEMMA UnlistTypes ==
    ASSUME TypeOK, NEW s \in Scopes, NEW gone \in SUBSET Conns,
           conns[s] \subseteq gone => subs[s] \in Conns, Unlist(s, gone)
    PROVE  /\ conns' \in [Scopes -> SUBSET Conns]
           /\ subs' \in [Scopes -> Conns \cup {Nil}]
           /\ feed' \in [Conns -> Feeds]
<1>1. conns' \in [Scopes -> SUBSET Conns]
  BY DEF TypeOK, Unlist
<1>2. CASE conns[s] \subseteq gone
  <2>1. subs' \in [Scopes -> Conns \cup {Nil}]
    BY <1>2 DEF TypeOK, Unlist
  <2>2. feed' = [feed EXCEPT ![subs[s]].cancelled = TRUE] /\ feed[subs[s]] \in Feeds
    BY <1>2 DEF TypeOK, Unlist
  <2>3. [feed[subs[s]] EXCEPT !.cancelled = TRUE] \in Feeds
    BY <2>2 DEF Feeds
  <2>4. QED
    BY <1>1, <2>1, <2>2, <2>3 DEF TypeOK
<1>3. CASE ~(conns[s] \subseteq gone)
  BY <1>1, <1>3 DEF TypeOK, Unlist
<1>4. QED
  BY <1>2, <1>3

LEMMA ConnTypes ==
    ASSUME TypeOK, NEW c \in Conns, ConnStep(c)
    PROVE  TypeOK'
<1>1. sock[c] \in Socks /\ send[c] \in Seq(Messages) /\ got[c] \in Seq(Messages)
  BY DEF TypeOK
<1>2. ASSUME NEW r \in {"none", "registering", "reading", "leaving", "done"},
             NEW w \in {"none", "pumping", "done"}
      PROVE  /\ [sock[c] EXCEPT !.reader = r] \in Socks
             /\ [sock[c] EXCEPT !.peer = FALSE] \in Socks
             /\ [sock[c] EXCEPT !.reader = r, !.writer = w] \in Socks
             /\ [sock[c] EXCEPT !.reader = r, !.closed = TRUE] \in Socks
             /\ [sock[c] EXCEPT !.writer = w, !.closed = TRUE] \in Socks
  BY <1>1 DEF Socks
<1>3. CASE Connect(c)
  BY <1>2, <1>3 DEF TypeOK, Connect, hubVars
<1>4. CASE Register(c)
  BY <1>2, <1>4 DEF TypeOK, Register
<1>5. CASE Disconnect(c)
  BY <1>2, <1>5 DEF TypeOK, Disconnect, hubVars
<1>6. CASE ReadFail(c)
  BY <1>2, <1>6 DEF TypeOK, ReadFail, hubVars
<1>7. CASE Unregister(c)
  BY <1>2, <1>7 DEF TypeOK, Unregister
<1>8. ASSUME send[c] # <<>>
      PROVE  Head(send[c]) \in Messages /\ Tail(send[c]) \in Seq(Messages)
  BY <1>1, <1>8
<1>9. CASE Write(c)
  <2>1. send' \in [Conns -> Seq(Messages)]
    BY <1>8, <1>9 DEF TypeOK, Write
  <2>2. got' \in [Conns -> Seq(Messages)]
    <3>1. send[c] # <<>>
      BY <1>9 DEF Write
    <3>2. Append(got[c], Head(send[c])) \in Seq(Messages)
      BY <1>1, <1>8, <3>1
    <3>3. QED
      BY <1>9, <3>2 DEF TypeOK, Write
  <2>3. QED
    BY <1>9, <2>1, <2>2 DEF TypeOK, Write, hubVars
<1>10. CASE WriteFail(c)
  BY <1>2, <1>8, <1>10 DEF TypeOK, WriteFail, WriterEnds, hubVars
<1>11. CASE SendClosed(c)
  BY <1>2, <1>11 DEF TypeOK, SendClosed, WriterEnds, hubVars
<1>12. QED
  BY <1>3, <1>4, <1>5, <1>6, <1>7, <1>9, <1>10, <1>11 DEF ConnStep

LEMMA FeedTypes ==
    ASSUME TypeOK, NEW c \in Conns, FeedStep(c)
    PROVE  TypeOK'
<1>1. feed[c] \in Feeds
  BY DEF TypeOK
<1>2. ASSUME NEW pc \in FeedPcs
      PROVE  /\ [feed[c] EXCEPT !.pc = pc] \in Feeds
             /\ [feed[c] EXCEPT !.received = @ + 1] \in Feeds
             /\ [feed[c] EXCEPT !.pc = pc, !.forwarded = @ + 1] \in Feeds
             /\ [feed |-> c, n |-> feed[c].forwarded + 1] \in Messages
  <2>1. feed[c].received + 1 \in Nat /\ feed[c].forwarded + 1 \in Nat
    BY <1>1 DEF Feeds
  <2>2. [feed[c] EXCEPT !.pc = pc] \in Feeds
    BY <1>1 DEF Feeds
  <2>3. ASSUME NEW k \in Nat
        PROVE  /\ [feed[c] EXCEPT !.received = k] \in Feeds
               /\ [feed[c] EXCEPT !.pc = pc, !.forwarded = k] \in Feeds
    BY <1>1 DEF Feeds
  <2>4. [feed |-> c, n |-> feed[c].forwarded + 1] \in Messages
    BY <2>1 DEF Messages
  <2>5. QED
    BY <2>1, <2>2, <2>3, <2>4
<1>3. CASE Subscribed(c)
  BY <1>2, <1>3 DEF TypeOK, Subscribed, FeedGoto, FeedPcs, hubVars
<1>4. CASE Receive(c)
  BY <1>2, <1>4 DEF TypeOK, Receive, FeedPcs, hubVars
<1>5. CASE TakeMessage(c)
  BY <1>2, <1>5 DEF TypeOK, TakeMessage, FeedGoto, FeedPcs, hubVars
<1>6. CASE Forward(c)
  <2>1. [feed[c] EXCEPT !.pc = "listening", !.forwarded = @ + 1] \in Feeds
    BY <1>2 DEF FeedPcs
  <2>2. feed' \in [Conns -> Feeds]
    BY <1>6, <1>2, <2>1 DEF TypeOK, Forward, FeedPcs
  <2>3. inbound' \in Seq(Messages)
    BY <1>2, <1>6 DEF TypeOK, Forward, FeedPcs
  <2>4. QED
    BY <1>6, <2>2, <2>3 DEF TypeOK, Forward
<1>7. CASE Unsubscribe(c)
  BY <1>2, <1>7 DEF TypeOK, Unsubscribe, FeedGoto, FeedPcs, hubVars
<1>8. QED
  BY <1>3, <1>4, <1>5, <1>6, <1>7 DEF FeedStep

LEMMA RegisterTypes ==
    ASSUME TypeOK, HubRegister
    PROVE  TypeOK'
<1> DEFINE c == Head(register)
<1>1. c \in Conns /\ register' \in Seq(Conns)
  BY DEF TypeOK, HubRegister
<1>2. ScopeOf[c] \in Scopes
  BY <1>1, ScopeAssumption
<1>3. feed[c] \in Feeds /\ [feed[c] EXCEPT !.pc = "subscribing"] \in Feeds
  BY <1>1 DEF TypeOK, Feeds, FeedPcs
<1>4. conns' \in [Scopes -> SUBSET Conns]
  BY <1>1, <1>2 DEF TypeOK, HubRegister, AddConn
<1>5. subs' \in [Scopes -> Conns \cup {Nil}] /\ feed' \in [Conns -> Feeds]
  BY <1>1, <1>2, <1>3 DEF TypeOK, HubRegister, AddConn
<1>6. QED
  BY <1>1, <1>4, <1>5 DEF TypeOK, HubRegister

LEMMA ClosesTypes ==
    ASSUME TypeOK, NEW c \in Conns
    PROVE  /\ [sock[c] EXCEPT !.closes = @ + 1] \in Socks
           /\ [sock[c] EXCEPT !.closes = @ + 1, !.closed = TRUE] \in Socks
<1>1. sock[c] \in Socks
  BY DEF TypeOK
<1>2. sock[c].closes + 1 \in Nat
  BY <1>1 DEF Socks
<1>3. ASSUME NEW k \in Nat
      PROVE  /\ [sock[c] EXCEPT !.closes = k] \in Socks
             /\ [sock[c] EXCEPT !.closes = k, !.closed = TRUE] \in Socks
  BY <1>1 DEF Socks
<1>4. QED
  BY <1>2, <1>3

LEMMA UnregisterTypes ==
    ASSUME TypeOK, OneFeedPerScope, HubUnregister
    PROVE  TypeOK'
<1> DEFINE c == Head(unregister)
<1>1. c \in Conns /\ unregister' \in Seq(Conns) /\ RemoveConn(c)
  BY DEF TypeOK, HubUnregister
<1>2. ScopeOf[c] \in Scopes
  BY <1>1, ScopeAssumption
<1>3. CASE c \in conns[ScopeOf[c]]
  <2>1. subs[ScopeOf[c]] \in Conns
    BY <1>2, <1>3 DEF TypeOK, OneFeedPerScope
  <2>2. Unlist(ScopeOf[c], {c}) /\ sock' = [sock EXCEPT ![c].closes = @ + 1]
    BY <1>1, <1>3 DEF RemoveConn
  <2>3. /\ conns' \in [Scopes -> SUBSET Conns]
        /\ subs' \in [Scopes -> Conns \cup {Nil}]
        /\ feed' \in [Conns -> Feeds]
    BY <1>1, <1>2, <2>1, <2>2, UnlistTypes
  <2>4. [sock[c] EXCEPT !.closes = @ + 1] \in Socks
    BY <1>1, ClosesTypes
  <2>5. sock' \in [Conns -> Socks]
    BY <1>1, <2>2, <2>4 DEF TypeOK
  <2>6. QED
    BY <1>1, <2>3, <2>5 DEF TypeOK, HubUnregister
<1>4. CASE c \notin conns[ScopeOf[c]]
  BY <1>1, <1>4 DEF TypeOK, HubUnregister, RemoveConn
<1>5. QED
  BY <1>3, <1>4

LEMMA InboundTypes ==
    ASSUME TypeOK, OneFeedPerScope, HubInbound
    PROVE  TypeOK'
<1> DEFINE msg == Head(inbound)
           s == ScopeOf[msg.feed]
<1>1. msg \in Messages /\ inbound' \in Seq(Messages) /\ Broadcast(msg)
  BY DEF TypeOK, HubInbound
<1>2. s \in Scopes
  BY <1>1, ScopeAssumption DEF Messages
<1>3. Slow(s) \subseteq Conns /\ Slow(s) \subseteq conns[s]
  BY <1>2 DEF TypeOK, Slow
<1>4. send' \in [Conns -> Seq(Messages)]
  <2>1. \A d \in Conns : Append(send[d], msg) \in Seq(Messages)
    BY <1>1 DEF TypeOK
  <2>2. Deliver(s, msg)
    BY <1>1 DEF Broadcast
  <2>3. QED
    BY <2>1, <2>2 DEF TypeOK, Deliver
<1>5. sock' \in [Conns -> Socks]
  <2>1. \A d \in Conns : [sock[d] EXCEPT !.closes = @ + 1, !.closed = TRUE] \in Socks
    BY ClosesTypes
  <2>2. QED
    BY <1>1, <2>1 DEF TypeOK, Broadcast
<1>6. /\ conns' \in [Scopes -> SUBSET Conns]
      /\ subs' \in [Scopes -> Conns \cup {Nil}]
      /\ feed' \in [Conns -> Feeds]
  <2>1. CASE Slow(s) # {}
    <3>1. subs[s] \in Conns
      BY <1>2, <1>3, <2>1 DEF TypeOK, OneFeedPerScope
    <3>2. Unlist(s, Slow(s))
      BY <1>1, <2>1 DEF Broadcast
    <3>3. QED
      BY <1>2, <1>3, <3>1, <3>2, UnlistTypes
  <2>2. CASE Slow(s) = {}
    BY <1>1, <2>2 DEF TypeOK, Broadcast
  <2>3. QED
    BY <2>1, <2>2
<1>7. QED
  BY <1>1, <1>4, <1>5, <1>6 DEF TypeOK, HubInbound

-----------------------------------------------------------------------------
(* The bookkeeping.                                                         *)

LEMMA ConnKeeps ==
    ASSUME HubInv, NEW c \in Conns, ConnStep(c)
    PROVE  Enrolment' /\ SendClosedOnce' /\ OneFeedPerScope'
<1> DEFINE Early(d) == sock[d].reader \in {"none", "registering"}
<1>1. /\ conns' = conns /\ subs' = subs /\ feed' = feed
      /\ \A d \in Conns : sock'[d].closes = sock[d].closes
      /\ \A d \in Conns : Early(d)' => Early(d)
  <2>1. conns' = conns /\ subs' = subs /\ feed' = feed
    BY DEF ConnStep, Connect, Register, Disconnect, ReadFail, Unregister,
           Write, WriteFail, SendClosed, hubVars
  <2>2. sock \in [Conns -> Socks]
    BY DEF HubInv, TypeOK
  <2>3. CASE Connect(c)
    BY <2>1, <2>2, <2>3 DEF Connect
  <2>4. CASE Register(c)
    BY <2>1, <2>2, <2>4 DEF Register
  <2>5. CASE Disconnect(c)
    BY <2>1, <2>2, <2>5 DEF Disconnect
  <2>6. CASE ReadFail(c)
    BY <2>1, <2>2, <2>6 DEF ReadFail
  <2>7. CASE Unregister(c)
    BY <2>1, <2>2, <2>7 DEF Unregister
  <2>8. CASE Write(c)
    BY <2>1, <2>2, <2>8 DEF Write
  <2>9. CASE WriteFail(c)
    BY <2>1, <2>2, <2>9 DEF WriteFail, WriterEnds
  <2>10. CASE SendClosed(c)
    BY <2>1, <2>2, <2>10 DEF SendClosed, WriterEnds
  <2>11. QED
    BY <2>3, <2>4, <2>5, <2>6, <2>7, <2>8, <2>9, <2>10 DEF ConnStep
<1>2. SendClosedOnce'
  BY <1>1 DEF HubInv, SendClosedOnce, Listed
<1>3. OneFeedPerScope'
  BY <1>1 DEF HubInv, OneFeedPerScope, Running
<1>4. CASE Register(c)
  <2>1. Early(c) /\ ~Early(c)' /\ register' = Append(register, c)
    BY <1>4 DEF HubInv, TypeOK, Register
  <2>2. ~InQueue(register, c) /\ ~Listed(c) /\ sock[c].closes = 0 /\ feed[c].pc = "none"
    BY <2>1 DEF HubInv, Enrolment
  <2>3. /\ Distinct(register')
        /\ \A d \in Conns : InQueue(register', d) <=> InQueue(register, d) \/ d = c
    BY <2>1, <2>2, QueueAppend DEF HubInv, TypeOK, Enrolment
  <2>4. QED
    BY <1>1, <1>2, <1>3, <2>1, <2>2, <2>3 DEF HubInv, Enrolment, Listed
<1>5. CASE ~Register(c)
  <2>1. register' = register
    BY <1>5 DEF ConnStep, Connect, Disconnect, ReadFail, Unregister, Write, WriteFail,
                SendClosed, hubVars
  <2>2. QED
    BY <1>1, <1>2, <1>3, <2>1 DEF HubInv, Enrolment, Listed
<1>6. QED
  BY <1>4, <1>5

LEMMA FeedKeeps ==
    ASSUME HubInv, NEW c \in Conns, FeedStep(c)
    PROVE  Enrolment' /\ SendClosedOnce' /\ OneFeedPerScope'
<1>1. conns' = conns /\ subs' = subs /\ register' = register /\ sock' = sock
  BY DEF FeedStep, Subscribed, Receive, TakeMessage, Forward, Unsubscribe, hubVars
<1>2. \A d \in Conns : /\ feed'[d].cancelled <=> feed[d].cancelled
                       /\ feed'[d].pc = "none" <=> feed[d].pc = "none"
                       /\ ~feed[d].cancelled => (Running(d)' <=> Running(d))
  <2>1. feed \in [Conns -> Feeds]
    BY DEF HubInv, TypeOK
  <2>2. CASE Subscribed(c)
    BY <2>1, <2>2 DEF Subscribed, FeedGoto, Running
  <2>3. CASE Receive(c)
    BY <2>1, <2>3 DEF Receive, Running
  <2>4. CASE TakeMessage(c)
    BY <2>1, <2>4 DEF TakeMessage, FeedGoto, Running
  <2>5. CASE Forward(c)
    BY <2>1, <2>5 DEF Forward, Running
  <2>6. CASE Unsubscribe(c)
    BY <2>1, <2>6 DEF Unsubscribe, FeedGoto, Running
  <2>7. QED
    BY <2>2, <2>3, <2>4, <2>5, <2>6 DEF FeedStep
<1>3. Enrolment'
  BY <1>1, <1>2 DEF HubInv, Enrolment, Listed
<1>4. SendClosedOnce'
  BY <1>1 DEF HubInv, SendClosedOnce, Listed
<1>5. OneFeedPerScope'
  <2>1. \A s \in Scopes :
           /\ subs[s] = Nil <=> conns[s] = {}
           /\ subs[s] # Nil => /\ subs[s] \in Conns /\ ScopeOf[subs[s]] = s
                              /\ Running(subs[s])' /\ ~feed'[subs[s]].cancelled
    <3>1. TAKE s \in Scopes
    <3>2. subs[s] = Nil <=> conns[s] = {}
      BY DEF HubInv, OneFeedPerScope
    <3>3. subs[s] # Nil => /\ subs[s] \in Conns /\ ScopeOf[subs[s]] = s
                           /\ Running(subs[s]) /\ ~feed[subs[s]].cancelled
      BY DEF HubInv, TypeOK, OneFeedPerScope
    <3>4. QED
      BY <1>1, <1>2, <3>2, <3>3
  <2>2. \A d \in Conns : Running(d)' /\ ~feed'[d].cancelled => subs[ScopeOf[d]] = d
    BY <1>2 DEF HubInv, OneFeedPerScope
  <2>3. QED
    BY <1>1, <2>1, <2>2 DEF OneFeedPerScope
<1>6. QED
  BY <1>3, <1>4, <1>5

LEMMA RegisterKeeps ==
    ASSUME HubInv, HubRegister
    PROVE  Enrolment' /\ SendClosedOnce' /\ OneFeedPerScope'
<1> DEFINE c == Head(register)
           s == ScopeOf[c]
<1>1. /\ c \in Conns /\ InQueue(register, c) /\ Distinct(register')
      /\ \A d \in Conns : InQueue(register', d) <=> InQueue(register, d) /\ d # c
  BY QueueTail DEF HubInv, TypeOK, Enrolment, HubRegister
<1>2. s \in Scopes
  BY <1>1, ScopeAssumption
<1>3. ~Listed(c) /\ sock[c].closes = 0 /\ feed[c].pc = "none" /\ ~feed[c].cancelled
  BY <1>1 DEF HubInv, Enrolment
<1>4. /\ sock' = sock
      /\ \A t \in Scopes : conns'[t] = IF t = s THEN conns[t] \cup {c} ELSE conns[t]
  BY <1>1, <1>2 DEF HubInv, TypeOK, HubRegister, AddConn
<1>5. \A d \in Conns : Listed(d)' <=> Listed(d) \/ d = c
  BY <1>1, <1>4, ScopeAssumption DEF Listed
<1>6. SendClosedOnce'
  BY <1>3, <1>4, <1>5 DEF HubInv, SendClosedOnce
<1>7. ASSUME \A d \in Conns : /\ feed'[d].cancelled <=> feed[d].cancelled
                              /\ d # c => feed'[d].pc = feed[d].pc
      PROVE  Enrolment'
  <2>1. ~(sock[c].reader \in {"none", "registering"})
    BY <1>1 DEF HubInv, Enrolment
  <2>2. \A t \in Scopes : \A d \in conns'[t] : ScopeOf[d] = t
    <3>1. TAKE t \in Scopes
    <3>2. TAKE d \in conns'[t]
    <3>3. d \in conns[t] \/ (d = c /\ t = s)
      BY <1>4
    <3>4. QED
      BY <3>3 DEF HubInv, Enrolment
  <2>3. QED
    BY <1>1, <1>3, <1>4, <1>5, <1>7, <2>1, <2>2 DEF HubInv, Enrolment
<1>8. CASE conns[s] = {}
  <2>1. subs' = [subs EXCEPT ![s] = c] /\ feed' = [feed EXCEPT ![c].pc = "subscribing"]
    BY <1>8 DEF HubRegister, AddConn
  <2>2. feed \in [Conns -> Feeds] /\ subs \in [Scopes -> Conns \cup {Nil}]
    BY DEF HubInv, TypeOK
  <2>3. /\ \A t \in Scopes : subs'[t] = IF t = s THEN c ELSE subs[t]
        /\ feed'[c].pc = "subscribing"
    BY <1>1, <1>2, <2>1, <2>2
  <2>4. \A d \in Conns : /\ feed'[d].cancelled <=> feed[d].cancelled
                         /\ d # c => feed'[d].pc = feed[d].pc
    BY <1>1, <2>1, <2>2
  <2>5. feed'[c].pc \notin {"none", "ended"} /\ ~feed'[c].cancelled /\ c # Nil
    BY <1>1, <1>3, <2>3, <2>4, NilAssumption
  <2>6. \A d \in Conns : d # c => (Running(d)' <=> Running(d))
    BY <2>4 DEF Running
  <2>7. \A d \in Conns : Running(d) /\ ~feed[d].cancelled => ScopeOf[d] # s
    BY <1>2, <1>8, NilAssumption DEF HubInv, OneFeedPerScope
  <2>8. \A t \in Scopes :
           /\ subs'[t] = Nil <=> conns'[t] = {}
           /\ subs'[t] # Nil => /\ ScopeOf[subs'[t]] = t
                               /\ feed'[subs'[t]].pc \notin {"none", "ended"}
                               /\ ~feed'[subs'[t]].cancelled
    <3>1. TAKE t \in Scopes
    <3>2. CASE t = s
      BY <1>4, <2>3, <2>5, <3>2
    <3>3. CASE t # s
      <4>1. subs'[t] = subs[t] /\ conns'[t] = conns[t]
        BY <1>4, <2>3, <3>3
      <4>2. subs[t] # Nil => /\ subs[t] \in Conns /\ subs[t] # c /\ ScopeOf[subs[t]] = t
                             /\ Running(subs[t]) /\ ~feed[subs[t]].cancelled
        BY <2>2, <3>3 DEF HubInv, OneFeedPerScope
      <4>3. subs[t] = Nil <=> conns[t] = {}
        BY DEF HubInv, OneFeedPerScope
      <4>4. QED
        BY <2>4, <2>6, <4>1, <4>2, <4>3 DEF Running
    <3>4. QED
      BY <3>2, <3>3
  <2>9. \A d \in Conns :
           Running(d)' /\ ~feed'[d].cancelled => subs'[ScopeOf[d]] = d
    BY <2>3, <2>4, <2>6, <2>7, ScopeAssumption DEF HubInv, OneFeedPerScope
  <2>10. QED
    BY <1>6, <1>7, <2>4, <2>8, <2>9 DEF OneFeedPerScope, Running
<1>9. CASE conns[s] # {}
  <2>1. subs' = subs /\ feed' = feed
    BY <1>9 DEF HubRegister, AddConn
  <2>2. \A t \in Scopes : conns'[t] = {} <=> conns[t] = {}
    BY <1>4, <1>9
  <2>3. OneFeedPerScope'
    BY <2>1, <2>2 DEF HubInv, OneFeedPerScope, Running
  <2>4. QED
    BY <1>6, <1>7, <2>1, <2>3
<1>10. QED
  BY <1>8, <1>9

LEMMA UnlistKeeps ==
    ASSUME HubInv, NEW s \in Scopes, NEW gone \in SUBSET Conns,
           gone \subseteq conns[s], gone # {}, Unlist(s, gone)
    PROVE  /\ OneFeedPerScope'
           /\ \A d \in Conns : Listed(d)' <=> Listed(d) /\ d \notin gone
           /\ \A t \in Scopes : \A d \in conns'[t] : ScopeOf[d] = t
           /\ \A d \in Conns : /\ feed'[d].pc = feed[d].pc
                               /\ feed[d].pc = "none" => ~feed'[d].cancelled
<1>1. \A t \in Scopes : conns'[t] = IF t = s THEN conns[t] \ gone ELSE conns[t]
  BY DEF HubInv, TypeOK, Unlist
<1>2. \A d \in Conns : Listed(d)' <=> Listed(d) /\ d \notin gone
  <2>1. \A d \in gone : ScopeOf[d] = s
    BY DEF HubInv, Enrolment
  <2>2. QED
    BY <1>1, <2>1, ScopeAssumption DEF Listed
<1>3. \A t \in Scopes : \A d \in conns'[t] : ScopeOf[d] = t
  BY <1>1 DEF HubInv, Enrolment
<1>4. CASE conns[s] \subseteq gone
  <2> DEFINE f == subs[s]
  <2>1. f \in Conns /\ ScopeOf[f] = s /\ Running(f) /\ ~feed[f].cancelled
    BY DEF HubInv, TypeOK, OneFeedPerScope
  <2>2. /\ \A t \in Scopes : subs'[t] = IF t = s THEN Nil ELSE subs[t]
        /\ \A d \in Conns : feed'[d].pc = feed[d].pc
        /\ \A d \in Conns : d # f => feed'[d] = feed[d]
        /\ feed'[f].cancelled
    <3>1. subs' = [subs EXCEPT ![s] = Nil] /\ feed' = [feed EXCEPT ![f].cancelled = TRUE]
      BY <1>4 DEF Unlist
    <3>2. feed \in [Conns -> Feeds] /\ subs \in [Scopes -> Conns \cup {Nil}]
      BY DEF HubInv, TypeOK
    <3>3. \A t \in Scopes : subs'[t] = IF t = s THEN Nil ELSE subs[t]
      BY <3>1, <3>2
    <3>4. /\ \A d \in Conns : feed'[d].pc = feed[d].pc
          /\ \A d \in Conns : d # f => feed'[d] = feed[d]
          /\ feed'[f].cancelled
      BY <2>1, <3>1, <3>2 DEF Feeds
    <3>5. QED
      BY <3>3, <3>4
  <2>3. \A d \in Conns : Running(d)' <=> Running(d)
    BY <2>2 DEF Running
  <2>4. \A t \in Scopes :
           /\ subs'[t] = Nil <=> conns'[t] = {}
           /\ subs'[t] # Nil => /\ ScopeOf[subs'[t]] = t
                               /\ feed'[subs'[t]].pc \notin {"none", "ended"}
                               /\ ~feed'[subs'[t]].cancelled
    <3>1. TAKE t \in Scopes
    <3>2. CASE t = s
      BY <1>1, <1>4, <2>2, <3>2
    <3>3. CASE t # s
      <4>1. subs[t] # Nil => subs[t] \in Conns /\ subs[t] # f
        BY <2>1, <3>3 DEF HubInv, TypeOK, OneFeedPerScope
      <4>2. subs'[t] = subs[t] /\ conns'[t] = conns[t]
        BY <1>1, <2>2, <3>3
      <4>3. QED
        BY <2>2, <2>3, <4>1, <4>2 DEF HubInv, OneFeedPerScope, Running
    <3>4. QED
      BY <3>2, <3>3
  <2>5. \A d \in Conns : Running(d)' /\ ~feed'[d].cancelled => subs'[ScopeOf[d]] = d
    <3>1. SUFFICES ASSUME NEW d \in Conns, Running(d), ~feed'[d].cancelled
                   PROVE  subs'[ScopeOf[d]] = d
      BY <2>3
    <3>2. d # f
      BY <2>2, <3>1
    <3>3. subs[ScopeOf[d]] = d
      BY <2>2, <3>1, <3>2 DEF HubInv, OneFeedPerScope
    <3>4. QED
      BY <2>2, <3>2, <3>3, ScopeAssumption
  <2>6. \A d \in Conns : feed[d].pc = "none" => ~feed'[d].cancelled
    BY <2>1, <2>2 DEF HubInv, Enrolment, Running
  <2>7. QED
    BY <1>2, <1>3, <2>2, <2>4, <2>5, <2>6 DEF OneFeedPerScope, Running
<1>5. CASE ~(conns[s] \subseteq gone)
  <2>1. subs' = subs /\ feed' = feed
    BY <1>5 DEF Unlist
  <2>2. \A t \in Scopes : conns'[t] = {} <=> conns[t] = {}
    BY <1>1, <1>5
  <2>3. OneFeedPerScope'
    BY <2>1, <2>2 DEF HubInv, OneFeedPerScope, Running
  <2>4. QED
    BY <1>2, <1>3, <2>1, <2>3 DEF HubInv, Enrolment
<1>6. QED
  BY <1>4, <1>5

\* What both ways of dropping connections leave of Enrolment and SendClosedOnce.
LEMMA DropKeeps ==
    ASSUME HubInv, NEW s \in Scopes, NEW gone \in SUBSET Conns,
           gone \subseteq conns[s], gone # {}, Unlist(s, gone),
           register' = register,
           \A d \in Conns : sock'[d].reader = sock[d].reader,
           \A d \in Conns :
              sock'[d].closes = IF d \in gone THEN sock[d].closes + 1 ELSE sock[d].closes
    PROVE  Enrolment' /\ SendClosedOnce' /\ OneFeedPerScope'
<1>1. /\ OneFeedPerScope'
      /\ \A d \in Conns : Listed(d)' <=> Listed(d) /\ d \notin gone
      /\ \A t \in Scopes : \A d \in conns'[t] : ScopeOf[d] = t
      /\ \A d \in Conns : /\ feed'[d].pc = feed[d].pc
                          /\ feed[d].pc = "none" => ~feed'[d].cancelled
  BY UnlistKeeps
<1>2. \A d \in gone : Listed(d) /\ sock[d].closes = 0
  <2>1. TAKE d \in gone
  <2>2. Listed(d)
    BY DEF HubInv, Enrolment, Listed
  <2>3. sock[d] \in Socks
    BY DEF HubInv, TypeOK
  <2>4. QED
    BY <2>2, <2>3 DEF HubInv, SendClosedOnce, Socks
<1>3. SendClosedOnce'
  <2>1. SUFFICES ASSUME NEW d \in Conns
                 PROVE  sock'[d].closes <= (IF Listed(d)' THEN 0 ELSE 1)
    BY DEF SendClosedOnce
  <2>2. sock[d].closes <= (IF Listed(d) THEN 0 ELSE 1) /\ sock[d].closes \in Nat
    BY DEF HubInv, SendClosedOnce, TypeOK, Socks
  <2>3. CASE d \in gone
    BY <1>1, <1>2, <2>3
  <2>4. CASE d \notin gone
    BY <1>1, <2>2, <2>4
  <2>5. QED
    BY <2>3, <2>4
<1>4. Enrolment'
  <2>1. \A d \in gone : /\ ~(sock[d].reader \in {"none", "registering"})
                        /\ ~InQueue(register, d)
    BY <1>2 DEF HubInv, Enrolment
  <2>2. QED
    BY <1>1, <2>1 DEF HubInv, Enrolment
<1>5. QED
  BY <1>1, <1>3, <1>4

LEMMA UnregisterKeeps ==
    ASSUME HubInv, HubUnregister
    PROVE  Enrolment' /\ SendClosedOnce' /\ OneFeedPerScope'
<1> DEFINE c == Head(unregister)
<1>1. c \in Conns /\ RemoveConn(c) /\ register' = register
  BY DEF HubInv, TypeOK, HubUnregister
<1>2. ScopeOf[c] \in Scopes
  BY <1>1, ScopeAssumption
<1>3. CASE c \in conns[ScopeOf[c]]
  <2>1. Unlist(ScopeOf[c], {c}) /\ sock' = [sock EXCEPT ![c].closes = @ + 1]
    BY <1>1, <1>3 DEF RemoveConn
  <2>2. sock \in [Conns -> Socks]
    BY DEF HubInv, TypeOK
  <2>3. \A d \in Conns :
           /\ sock'[d].reader = sock[d].reader
           /\ sock'[d].closes = IF d \in {c} THEN sock[d].closes + 1 ELSE sock[d].closes
    BY <1>1, <2>1, <2>2 DEF Socks
  <2>4. QED
    BY <1>1, <1>2, <1>3, <2>1, <2>3, DropKeeps
<1>4. CASE c \notin conns[ScopeOf[c]]
  <2>1. UNCHANGED <<conns, subs, feed, sock>>
    BY <1>1, <1>4 DEF RemoveConn
  <2>2. QED
    BY <1>1, <2>1 DEF HubInv, Enrolment, SendClosedOnce, OneFeedPerScope, Listed, Running
<1>5. QED
  BY <1>3, <1>4

LEMMA InboundKeeps ==
    ASSUME HubInv, HubInbound
    PROVE  Enrolment' /\ SendClosedOnce' /\ OneFeedPerScope'
<1> DEFINE msg == Head(inbound)
           s == ScopeOf[msg.feed]
<1>1. msg \in Messages /\ Broadcast(msg) /\ register' = register
  BY DEF HubInv, TypeOK, HubInbound
<1>2. s \in Scopes
  BY <1>1, ScopeAssumption DEF Messages
<1>3. Slow(s) \subseteq Conns /\ Slow(s) \subseteq conns[s]
  BY <1>2 DEF HubInv, TypeOK, Slow
<1>4. \A d \in Conns :
         /\ sock'[d].reader = sock[d].reader
         /\ sock'[d].closes = IF d \in Slow(s) THEN sock[d].closes + 1 ELSE sock[d].closes
  <2>1. sock \in [Conns -> Socks]
    BY DEF HubInv, TypeOK
  <2>2. QED
    BY <1>1, <2>1 DEF Broadcast, Socks
<1>5. CASE Slow(s) # {}
  <2>1. Unlist(s, Slow(s))
    BY <1>1, <1>5 DEF Broadcast
  <2>2. QED
    BY <1>1, <1>2, <1>3, <1>4, <1>5, <2>1, DropKeeps
<1>6. CASE Slow(s) = {}
  <2>1. UNCHANGED <<conns, subs, feed>>
    BY <1>1, <1>6 DEF Broadcast
  <2>2. \A d \in Conns : sock'[d].closes = sock[d].closes
    BY <1>4, <1>6
  <2>3. QED
    BY <1>1, <1>4, <2>1, <2>2
       DEF HubInv, Enrolment, SendClosedOnce, OneFeedPerScope, Listed, Running
<1>7. QED
  BY <1>5, <1>6

-----------------------------------------------------------------------------
LEMMA HubInit == Init => HubInv
<1>1. SUFFICES ASSUME Init PROVE HubInv
  OBVIOUS
<1>2. TypeOK
  BY <1>1 DEF Init, TypeOK, Feeds, FeedPcs, Socks
<1>3. Enrolment
  BY <1>1, ScopeAssumption DEF Init, Enrolment, Distinct, InQueue, Listed
<1>4. SendClosedOnce
  <2>1. \A c \in Conns : sock[c].closes = 0
    BY <1>1 DEF Init
  <2>2. ASSUME NEW c \in Conns PROVE sock[c].closes <= (IF Listed(c) THEN 0 ELSE 1)
    <3>1. 0 <= (IF Listed(c) THEN 0 ELSE 1)
      BY DEF Listed
    <3>2. QED
      BY <2>1, <3>1
  <2>3. QED
    BY <2>2 DEF SendClosedOnce
<1>5. OneFeedPerScope
  BY <1>1, NilAssumption DEF Init, OneFeedPerScope, Running
<1>6. QED
  BY <1>2, <1>3, <1>4, <1>5 DEF HubInv

LEMMA HubNext == HubInv /\ [Next]_vars => HubInv'
<1>1. SUFFICES ASSUME HubInv, [Next]_vars PROVE HubInv'
  OBVIOUS
<1>2. TypeOK /\ OneFeedPerScope
  BY <1>1 DEF HubInv
<1>3. CASE HubRegister
  BY <1>1, <1>2, <1>3, RegisterTypes, RegisterKeeps DEF HubInv
<1>4. CASE HubUnregister
  BY <1>1, <1>2, <1>4, UnregisterTypes, UnregisterKeeps DEF HubInv
<1>5. CASE HubInbound
  BY <1>1, <1>2, <1>5, InboundTypes, InboundKeeps DEF HubInv
<1>6. ASSUME NEW c \in Conns, ConnStep(c) PROVE HubInv'
  BY <1>1, <1>2, <1>6, ConnTypes, ConnKeeps DEF HubInv
<1>7. ASSUME NEW c \in Conns, FeedStep(c) PROVE HubInv'
  BY <1>1, <1>2, <1>7, FeedTypes, FeedKeeps DEF HubInv
<1>8. CASE UNCHANGED vars
  BY <1>1, <1>8 DEF HubInv, TypeOK, Enrolment, SendClosedOnce, OneFeedPerScope, Listed,
                    Running, vars, hubVars
<1>9. QED
  BY <1>1, <1>3, <1>4, <1>5, <1>6, <1>7, <1>8 DEF Next

\* The variables keep their types, whatever the capacities of the channels.
THEOREM HubTypeCorrect == Spec => []TypeOK
<1>1. HubInv => TypeOK
  BY DEF HubInv
<1>2. QED
  BY <1>1, HubInit, HubNext, PTL DEF Spec

\* No Send is closed twice or written to after it was closed, in whatever order
\* the Run loop serves its channels and whoever drops a connection.
THEOREM SendSafe == Spec => []SendClosedOnce
<1>1. HubInv => SendClosedOnce
  BY DEF HubInv
<1>2. QED
  BY <1>1, HubInit, HubNext, PTL DEF Spec

\* A scope in use has one live subscription, and a scope out of use none.
THEOREM SubscriptionsMatch == Spec => []OneFeedPerScope
<1>1. HubInv => OneFeedPerScope
  BY DEF HubInv
<1>2. QED
  BY <1>1, HubInit, HubNext, PTL DEF Spec

-----------------------------------------------------------------------------
(* Runs of a subscription.                                                  *)

\* The next message keeps the run going; one of another subscription is no gap.
LEMMA RunAppend ==
    ASSUME NEW q \in Seq(Messages), NEW m \in Messages, NEW f \in Conns, NEW top \in Nat,
           RunUpTo(q, f, top), m.feed = f => m.n = top + 1
    PROVE  RunUpTo(Append(q, m), f, IF m.feed = f THEN top + 1 ELSE top)
<1> DEFINE r == Append(q, m)
           last == Len(q) + 1
<1>1. /\ Len(q) \in Nat /\ Len(r) = last /\ r[last] = m
      /\ \A i \in 1..Len(q) : r[i] = q[i]
  BY AppendProperties, LenProperties
<1> HIDE DEF r
<1>2. ASSUME NEW i \in 1..Len(q), q[i].feed = f, \A k \in (i + 1)..Len(q) : q[k].feed # f
      PROVE  q[i].n = top
  BY <1>2 DEF RunUpTo
<1>3. Unbroken(r, f)
  <2>1. SUFFICES ASSUME NEW i \in 1..last, NEW j \in 1..last, Follows(r, f, i, j)
                 PROVE  r[j].n = r[i].n + 1
    BY <1>1 DEF Unbroken
  <2>2. i < j /\ i \in 1..Len(q) /\ r[i] = q[i] /\ q[i].feed = f
    BY <1>1, <2>1 DEF Follows
  <2>3. \A k \in (i + 1)..(j - 1) : k \in 1..Len(q) /\ q[k].feed # f
    BY <1>1, <2>1 DEF Follows
  <2>4. CASE j = last
    <3>1. \A k \in (i + 1)..Len(q) : q[k].feed # f
      BY <1>1, <2>3, <2>4
    <3>2. q[i].n = top
      BY <1>2, <2>2, <3>1
    <3>3. m.feed = f
      BY <1>1, <2>1, <2>4 DEF Follows
    <3>4. QED
      BY <1>1, <2>2, <2>4, <3>2, <3>3
  <2>5. CASE j # last
    <3>1. j \in 1..Len(q) /\ r[j] = q[j]
      BY <1>1, <2>5
    <3>2. Follows(q, f, i, j)
      BY <2>1, <2>2, <2>3, <3>1 DEF Follows
    <3>3. QED
      BY <2>2, <3>1, <3>2 DEF RunUpTo, Unbroken
  <2>6. QED
    BY <2>4, <2>5
<1>4. ASSUME NEW i \in 1..last, r[i].feed = f, \A k \in (i + 1)..last : r[k].feed # f
      PROVE  r[i].n = IF m.feed = f THEN top + 1 ELSE top
  <2>1. CASE i = last
    BY <1>1, <1>4, <2>1
  <2>2. CASE i # last
    <3>1. i \in 1..Len(q) /\ last \in (i + 1)..last
      BY <1>1, <2>2
    <3>2. m.feed # f
      BY <1>1, <1>4, <3>1
    <3>3. \A k \in (i + 1)..Len(q) : q[k].feed # f
      BY <1>1, <1>4
    <3>4. q[i].feed = f
      BY <1>1, <1>4, <3>1
    <3>5. QED
      BY <1>1, <1>2, <3>1, <3>2, <3>3, <3>4
  <2>3. QED
    BY <2>1, <2>2
<1>5. QED
  BY <1>1, <1>3, <1>4 DEF RunUpTo, r

\* Cutting off the front leaves a run.
LEMMA RunTail ==
    ASSUME NEW q \in Seq(Messages), q # <<>>, NEW f \in Conns, NEW top \in Nat,
           RunUpTo(q, f, top)
    PROVE  RunUpTo(Tail(q), f, top)
<1> DEFINE r == Tail(q)
<1>1. /\ Len(q) \in Nat /\ Len(r) = Len(q) - 1
      /\ \A i \in 1..(Len(q) - 1) : r[i] = q[i + 1] /\ i + 1 \in 1..Len(q)
  BY HeadTailProperties, LenProperties
<1> HIDE DEF r
<1>2. Unbroken(r, f)
  <2>1. SUFFICES ASSUME NEW i \in 1..(Len(q) - 1), NEW j \in 1..(Len(q) - 1),
                        Follows(r, f, i, j)
                 PROVE  r[j].n = r[i].n + 1
    BY <1>1 DEF Unbroken
  <2>2. i + 1 < j + 1 /\ q[i + 1].feed = f /\ q[j + 1].feed = f
    BY <1>1, <2>1 DEF Follows
  <2>3. ASSUME NEW k \in (i + 2)..j PROVE q[k].feed # f
    <3>1. k - 1 \in (i + 1)..(j - 1) /\ k - 1 \in 1..(Len(q) - 1) /\ (k - 1) + 1 = k
      BY <1>1
    <3>2. r[k - 1].feed # f
      BY <2>1, <3>1 DEF Follows
    <3>3. QED
      BY <1>1, <3>1, <3>2
  <2>4. Follows(q, f, i + 1, j + 1)
    BY <2>2, <2>3 DEF Follows
  <2>5. QED
    BY <1>1, <2>4 DEF RunUpTo, Unbroken
<1>3. ASSUME NEW i \in 1..(Len(q) - 1), r[i].feed = f,
             \A k \in (i + 1)..(Len(q) - 1) : r[k].feed # f
      PROVE  r[i].n = top
  <2>1. ASSUME NEW k \in (i + 2)..Len(q) PROVE q[k].feed # f
    <3>1. k - 1 \in (i + 1)..(Len(q) - 1) /\ k - 1 \in 1..(Len(q) - 1) /\ (k - 1) + 1 = k
      BY <1>1
    <3>2. r[k - 1].feed # f
      BY <1>3, <3>1
    <3>3. QED
      BY <1>1, <3>1, <3>2
  <2>2. QED
    BY <1>1, <1>3, <2>1 DEF RunUpTo
<1>4. QED
  BY <1>1, <1>2, <1>3 DEF RunUpTo, r

\* So does taking a message of another subscription out of the middle.
LEMMA RunSkip ==
    ASSUME NEW p \in Seq(Messages), NEW q \in Seq(Messages), q # <<>>,
           NEW f \in Conns, NEW top \in Nat, RunUpTo(p \o q, f, top), Head(q).feed # f
    PROVE  RunUpTo(p \o Tail(q), f, top)
<1> DEFINE w == p \o q
           r == p \o Tail(q)
           here(i) == IF i <= Len(p) THEN i ELSE i + 1
           len == Len(p) + Len(q) - 1
<1>1. Tail(q) \in Seq(Messages) /\ Len(Tail(q)) = Len(q) - 1 /\ Head(q) = q[1]
  BY HeadTailProperties, LenProperties
<1>2. /\ Len(p) \in Nat /\ Len(q) \in Nat \ {0} /\ len \in Nat
      /\ Len(w) = len + 1 /\ Len(r) = len
  BY <1>1, ConcatProperties, EmptySeq, LenProperties
<1>3. \A i \in 1..len : r[i] = w[here(i)] /\ here(i) \in 1..(len + 1)
  <2>1. TAKE i \in 1..len
  <2>2. r[i] = IF i <= Len(p) THEN p[i] ELSE Tail(q)[i - Len(p)]
    BY <1>1, <1>2, ConcatProperties
  <2>3. i + 1 \in 1..(Len(p) + Len(q)) /\ i \in 1..(Len(p) + Len(q))
    BY <1>2
  <2>4. /\ w[i] = IF i <= Len(p) THEN p[i] ELSE q[i - Len(p)]
        /\ w[i + 1] = IF i + 1 <= Len(p) THEN p[i + 1] ELSE q[(i + 1) - Len(p)]
    BY <2>3, ConcatProperties
  <2>5. CASE i <= Len(p)
    BY <1>2, <2>2, <2>4, <2>5
  <2>6. CASE ~(i <= Len(p))
    <3>1. i - Len(p) \in 1..(Len(q) - 1) /\ (i - Len(p)) + 1 = (i + 1) - Len(p)
      BY <1>2, <2>6
    <3>2. Tail(q)[i - Len(p)] = q[(i - Len(p)) + 1]
      BY <1>1, <3>1, HeadTailProperties
    <3>3. ~(i + 1 <= Len(p))
      BY <1>2, <2>6
    <3>4. QED
      BY <1>2, <2>2, <2>4, <2>6, <3>1, <3>2, <3>3
  <2>7. QED
    BY <2>5, <2>6
<1>4. w[Len(p) + 1].feed # f
  <2>1. Len(p) + 1 \in 1..(Len(p) + Len(q)) /\ ~(Len(p) + 1 <= Len(p)) /\ (Len(p) + 1) - Len(p) = 1
    BY <1>2
  <2>2. w[Len(p) + 1] = q[1]
    BY <2>1, ConcatProperties
  <2>3. QED
    BY <1>1, <2>2
<1> HIDE DEF w, r, len
<1>5. ASSUME NEW i \in 1..len, NEW k \in (here(i) + 1)..(len + 1), w[k].feed = f
      PROVE  \E j \in (i + 1)..len : here(j) = k
  <2>1. k # Len(p) + 1
    BY <1>4, <1>5
  <2>2. CASE k <= Len(p)
    <3>1. k \in (i + 1)..len /\ here(k) = k
      BY <1>2, <2>2 DEF len
    <3>2. QED
      BY <3>1
  <2>3. CASE ~(k <= Len(p))
    <3>1. k - 1 \in (i + 1)..len /\ here(k - 1) = k
      BY <1>2, <2>1, <2>3
    <3>2. QED
      BY <3>1
  <2>4. QED
    BY <2>2, <2>3
<1>6. Unbroken(r, f)
  <2>1. SUFFICES ASSUME NEW i \in 1..len, NEW j \in 1..len, Follows(r, f, i, j)
                 PROVE  r[j].n = r[i].n + 1
    BY <1>2 DEF Unbroken
  <2>2. here(i) < here(j) /\ w[here(i)].feed = f /\ w[here(j)].feed = f
    BY <1>2, <1>3, <2>1 DEF Follows
  <2>3. ASSUME NEW k \in (here(i) + 1)..(here(j) - 1) PROVE w[k].feed # f
    <3>1. SUFFICES ASSUME w[k].feed = f PROVE FALSE
      OBVIOUS
    <3>2. here(i) \in 1..(len + 1) /\ here(j) \in 1..(len + 1)
      BY <1>3
    <3>3. k \in (here(i) + 1)..(len + 1) /\ k < here(j)
      BY <1>2, <3>2
    <3>4. PICK h \in (i + 1)..len : here(h) = k
      BY <1>5, <3>1, <3>3
    <3>5. h \in (i + 1)..(j - 1) /\ h \in 1..len
      BY <1>2, <3>3, <3>4
    <3>6. r[h].feed # f
      BY <2>1, <3>5 DEF Follows
    <3>7. QED
      BY <1>3, <3>1, <3>4, <3>5, <3>6
  <2>4. Follows(w, f, here(i), here(j))
    BY <2>2, <2>3 DEF Follows
  <2>5. here(i) \in 1..Len(w) /\ here(j) \in 1..Len(w)
    BY <1>2, <1>3
  <2>6. Unbroken(w, f)
    BY DEF RunUpTo, w
  <2>7. w[here(j)].n = w[here(i)].n + 1
    BY <2>4, <2>5, <2>6 DEF Unbroken
  <2>8. QED
    BY <1>3, <2>7
<1>7. ASSUME NEW i \in 1..len, r[i].feed = f, \A k \in (i + 1)..len : r[k].feed # f
      PROVE  r[i].n = top
  <2>1. \A k \in (here(i) + 1)..(len + 1) : w[k].feed # f
    <3>1. SUFFICES ASSUME NEW k \in (here(i) + 1)..(len + 1), w[k].feed = f PROVE FALSE
      OBVIOUS
    <3>2. PICK h \in (i + 1)..len : here(h) = k
      BY <1>5, <3>1
    <3>3. h \in 1..len
      BY <1>2, <3>2
    <3>4. QED
      BY <1>3, <1>7, <3>1, <3>2, <3>3
  <2>2. QED
    BY <1>2, <1>3, <1>7, <2>1 DEF RunUpTo, w
<1>8. QED
  BY <1>2, <1>6, <1>7 DEF RunUpTo, r

\* The front part of an unbroken sequence is unbroken.
LEMMA UnbrokenFront ==
    ASSUME NEW p \in Seq(Messages), NEW q \in Seq(Messages), NEW f \in Conns,
           Unbroken(p \o q, f)
    PROVE  Unbroken(p, f)
<1> DEFINE w == p \o q
<1>1. /\ Len(p) \in Nat /\ Len(q) \in Nat /\ Len(w) = Len(p) + Len(q)
      /\ \A i \in 1..Len(p) : i \in 1..(Len(p) + Len(q)) /\ w[i] = p[i]
  <2>1. Len(p) \in Nat /\ Len(q) \in Nat
    BY LenProperties
  <2>2. \A i \in 1..Len(p) : i \in 1..(Len(p) + Len(q)) /\ i <= Len(p)
    BY <2>1
  <2>3. QED
    BY <2>1, <2>2, ConcatProperties
<1> HIDE DEF w
<1>2. SUFFICES ASSUME NEW i \in 1..Len(p), NEW j \in 1..Len(p), Follows(p, f, i, j)
               PROVE  p[j].n = p[i].n + 1
  BY DEF Unbroken
<1>3. \A k \in (i + 1)..(j - 1) : k \in 1..Len(p)
  BY <1>1
<1>4. Follows(w, f, i, j)
  BY <1>1, <1>2, <1>3 DEF Follows
<1>5. QED
  BY <1>1, <1>2, <1>4 DEF Unbroken, w

\* Moving the head of the second sequence to the end of the first changes nothing.
LEMMA PassOn ==
    ASSUME NEW S, NEW p \in Seq(S), NEW q \in Seq(S), q # <<>>
    PROVE  /\ Head(q) \in S /\ Tail(q) \in Seq(S) /\ Append(p, Head(q)) \in Seq(S)
           /\ Append(p, Head(q)) \o Tail(q) = p \o q
<1>1. /\ Head(q) \in S /\ Tail(q) \in Seq(S) /\ Len(Tail(q)) = Len(q) - 1
      /\ Head(q) = q[1] /\ \A i \in 1..Len(Tail(q)) : Tail(q)[i] = q[i + 1]
  BY HeadTailProperties
<1> DEFINE a == Append(p, Head(q))
           t == Tail(q)
<1>2. /\ a \in Seq(S) /\ Len(a) = Len(p) + 1 /\ a[Len(p) + 1] = q[1]
      /\ \A i \in 1..Len(p) : a[i] = p[i]
  BY <1>1, AppendProperties
<1>3. Len(p) \in Nat /\ Len(q) \in Nat /\ Len(q) > 0
  BY LenProperties, EmptySeq
<1>4. t \in Seq(S) /\ Len(t) = Len(q) - 1 /\ \A i \in 1..(Len(q) - 1) : t[i] = q[i + 1]
  BY <1>1
<1> HIDE DEF a, t
<1>5. /\ a \o t \in Seq(S) /\ Len(a \o t) = Len(p) + Len(q)
      /\ \A i \in 1..(Len(p) + Len(q)) :
            (a \o t)[i] = IF i <= Len(p) + 1 THEN a[i] ELSE t[i - (Len(p) + 1)]
  <2>1. Len(a) + Len(t) = Len(p) + Len(q) /\ Len(a) = Len(p) + 1
    BY <1>2, <1>3, <1>4
  <2>2. /\ a \o t \in Seq(S) /\ Len(a \o t) = Len(a) + Len(t)
        /\ \A i \in 1..(Len(a) + Len(t)) :
              (a \o t)[i] = IF i <= Len(a) THEN a[i] ELSE t[i - Len(a)]
    BY <1>2, <1>4, ConcatProperties
  <2>3. QED
    BY <2>1, <2>2
<1>6. /\ p \o q \in Seq(S) /\ Len(p \o q) = Len(p) + Len(q)
      /\ \A i \in 1..(Len(p) + Len(q)) :
            (p \o q)[i] = IF i <= Len(p) THEN p[i] ELSE q[i - Len(p)]
  BY ConcatProperties
<1>7. \A i \in 1..(Len(p) + Len(q)) : (a \o t)[i] = (p \o q)[i]
  <2>1. TAKE i \in 1..(Len(p) + Len(q))
  <2>2. CASE i <= Len(p)
    BY <1>2, <1>3, <1>5, <1>6, <2>2
  <2>3. CASE i = Len(p) + 1
    <3>1. i - Len(p) = 1 /\ ~(i <= Len(p)) /\ i <= Len(p) + 1
      BY <1>3, <2>3
    <3>2. QED
      BY <1>2, <1>5, <1>6, <2>3, <3>1
  <2>4. CASE i > Len(p) + 1
    <3>1. /\ i - (Len(p) + 1) \in 1..(Len(q) - 1) /\ (i - (Len(p) + 1)) + 1 = i - Len(p)
          /\ ~(i <= Len(p)) /\ ~(i <= Len(p) + 1)
      BY <1>3, <2>4
    <3>2. QED
      BY <1>4, <1>5, <1>6, <3>1
  <2>5. i <= Len(p) \/ i = Len(p) + 1 \/ i > Len(p) + 1
    BY <1>3
  <2>6. QED
    BY <2>2, <2>3, <2>4, <2>5
<1>8. a \o t = p \o q
  BY <1>5, <1>6, <1>7, SeqEqual
<1>9. QED
  BY <1>1, <1>2, <1>8 DEF a, t

\* A message of another subscription opens no gap.
LEMMA UnbrokenMore ==
    ASSUME NEW q, NEW r, NEW f, Len(q) \in Nat, Len(r) = Len(q) + 1,
           \A k \in 1..Len(q) : r[k] = q[k], r[Len(q) + 1].feed # f, Unbroken(q, f)
    PROVE  Unbroken(r, f)
<1>1. SUFFICES ASSUME NEW i \in 1..(Len(q) + 1), NEW j \in 1..(Len(q) + 1),
                      Follows(r, f, i, j)
               PROVE  r[j].n = r[i].n + 1
  BY DEF Unbroken
<1>2. i \in 1..Len(q) /\ j \in 1..Len(q)
  BY <1>1 DEF Follows
<1>3. \A k \in (i + 1)..(j - 1) : k \in 1..Len(q)
  BY <1>2
<1>4. Follows(q, f, i, j)
  BY <1>1, <1>2, <1>3 DEF Follows
<1>5. QED
  BY <1>2, <1>4 DEF Unbroken

LEMMA AppendConcat ==
    ASSUME NEW S, NEW p \in Seq(S), NEW q \in Seq(S), NEW e \in S
    PROVE  p \o Append(q, e) = Append(p \o q, e)
<1>1. <<e>> \in Seq(S)
  OBVIOUS
<1>2. p \o q \in Seq(S)
  BY ConcatProperties
<1>3. Append(q, e) = q \o <<e>> /\ Append(p \o q, e) = (p \o q) \o <<e>>
  BY <1>2, AppendIsConcat
<1>4. (p \o q) \o <<e>> = p \o (q \o <<e>>)
  BY <1>1, ConcatAssociative
<1>5. QED
  BY <1>3, <1>4

-----------------------------------------------------------------------------
(* The steps of the hub on these runs.                                      *)

\* What a step does not touch of a connection's pipeline stays as it was.
LEMMA PipeSame ==
    ASSUME NEW d \in Conns, Pipe(d), inbound' = inbound,
           \A f \in Conns : feed'[f].forwarded = feed[f].forwarded,
           send'[d] = send[d], got'[d] = got[d],
           ~Listed(d)' /\ sock'[d].closes = 0 => ~Listed(d),
           sock'[d].closes = 0 => sock[d].closes = 0,
           sock'[d].peer /\ ~sock'[d].closed => sock[d].peer /\ ~sock[d].closed
    PROVE  Pipe(d)'
BY DEF Pipe

LEMMA SocketTypes ==
    ASSUME TypeOK, NEW c \in Conns
    PROVE  /\ send[c] \in Seq(Messages) /\ got[c] \in Seq(Messages)
           /\ sock[c].peer \in BOOLEAN /\ sock[c].closed \in BOOLEAN
           /\ sock[c].closes \in Nat /\ feed[c].forwarded \in Nat
BY DEF TypeOK, Socks, Feeds

\* What the Run loop changes of a subscription is not what it forwarded.
LEMMA ForwardedKept ==
    ASSUME TypeOK, NEW x, NEW v,
           \/ feed' = feed
           \/ feed' = [feed EXCEPT ![x].pc = v]
           \/ feed' = [feed EXCEPT ![x].cancelled = v]
    PROVE  \A f \in Conns : feed'[f].forwarded = feed[f].forwarded
<1>1. SUFFICES ASSUME NEW f \in Conns PROVE feed'[f].forwarded = feed[f].forwarded
  OBVIOUS
<1>2. feed \in [Conns -> Feeds] /\ feed[f] \in Feeds
  BY DEF TypeOK
<1>3. \/ feed'[f] = feed[f]
      \/ feed'[f] = [feed[f] EXCEPT !.pc = v]
      \/ feed'[f] = [feed[f] EXCEPT !.cancelled = v]
  BY <1>2
<1>4. QED
  BY <1>2, <1>3 DEF Feeds

LEMMA ConnStreams ==
    ASSUME StreamInv, NEW c \in Conns, ConnStep(c)
    PROVE  Pipeline' /\ NoGap'
<1>1. TypeOK /\ Pipeline /\ NoGap
  BY DEF StreamInv, HubInv
<1>2. sock \in [Conns -> Socks] /\ send \in [Conns -> Seq(Messages)]
      /\ got \in [Conns -> Seq(Messages)]
  BY <1>1 DEF TypeOK
<1>3. conns' = conns /\ feed' = feed /\ inbound' = inbound
  BY DEF ConnStep, Connect, Register, Disconnect, ReadFail, Unregister,
         Write, WriteFail, SendClosed, hubVars
<1>4. \A d \in Conns : Listed(d)' <=> Listed(d)
  BY <1>3 DEF Listed
<1>5. \A f \in Conns : RunUpTo(inbound, f, feed[f].forwarded)'
  BY <1>1, <1>3 DEF Pipeline
<1>6. \A d \in Conns :
         /\ sock'[d].closes = sock[d].closes
         /\ sock'[d].peer /\ ~sock'[d].closed => sock[d].peer /\ ~sock[d].closed
  <2>1. CASE Connect(c)
    BY <1>2, <2>1 DEF Connect
  <2>2. CASE Register(c)
    BY <1>2, <2>2 DEF Register
  <2>3. CASE Disconnect(c)
    BY <1>2, <2>3 DEF Disconnect
  <2>4. CASE ReadFail(c)
    BY <1>2, <2>4 DEF ReadFail
  <2>5. CASE Unregister(c)
    BY <1>2, <2>5 DEF Unregister
  <2>6. CASE Write(c)
    BY <1>2, <2>6 DEF Write
  <2>7. CASE WriteFail(c)
    BY <1>2, <2>7 DEF WriteFail, WriterEnds
  <2>8. CASE SendClosed(c)
    BY <1>2, <2>8 DEF SendClosed, WriterEnds
  <2>9. QED
    BY <2>1, <2>2, <2>3, <2>4, <2>5, <2>6, <2>7, <2>8 DEF ConnStep
<1>7. ASSUME NEW d \in Conns, send'[d] = send[d], got'[d] = got[d]
      PROVE  Pipe(d)'
  BY <1>1, <1>3, <1>4, <1>6, <1>7, PipeSame DEF Pipeline
<1>8. CASE Write(c) \/ WriteFail(c)
  <2>1. /\ send[c] # <<>>
        /\ send' = [send EXCEPT ![c] = Tail(@)]
    BY <1>8 DEF Write, WriteFail
  <2>2. /\ Head(send[c]) \in Messages /\ Tail(send[c]) \in Seq(Messages)
        /\ Append(got[c], Head(send[c])) \o Tail(send[c]) = got[c] \o send[c]
        /\ Append(got[c], Head(send[c])) \in Seq(Messages)
    BY <1>2, <2>1, PassOn
  <2>3. send'[c] = Tail(send[c]) /\ \A d \in Conns : d # c => send'[d] = send[d]
    BY <1>2, <2>1
  <2>4. \A d \in Conns : d # c => got'[d] = got[d]
    BY <1>2, <1>8 DEF Write, WriteFail
  <2>5. Listed(c) \/ sock[c].closes # 0
    BY <1>1, <2>1 DEF Pipeline, Pipe
  <2>6. \A i \in 1..Len(Tail(send[c])) : ScopeOf[Tail(send[c])[i].feed] = ScopeOf[c]
    <3>1. TAKE i \in 1..Len(Tail(send[c]))
    <3>2. i + 1 \in 1..Len(send[c]) /\ Tail(send[c])[i] = send[c][i + 1]
      BY <1>2, <2>1, HeadTailProperties, LenProperties
    <3>3. QED
      BY <1>1, <3>2 DEF Pipeline, Pipe
  <2>7. CASE sock'[c].peer /\ ~sock'[c].closed
    <3>1. sock[c].peer /\ ~sock[c].closed
      BY <1>6, <2>7
    <3>2. Write(c)
      BY <1>8, <3>1 DEF WriteFail
    <3>3. got'[c] = Append(got[c], Head(send[c]))
      BY <1>2, <3>1, <3>2 DEF Write
    <3>4. got'[c] \o send'[c] = got[c] \o send[c]
      BY <2>2, <2>3, <3>3
    <3>5. Pipe(c)'
      BY <1>1, <1>3, <1>4, <1>6, <2>3, <2>5, <2>6, <3>1, <3>4 DEF Pipeline, Pipe
    <3>6. \A f \in Conns : Unbroken(got'[c], f)
      <4>1. TAKE f \in Conns
      <4>2. Unbroken(got'[c] \o send'[c], f)
        BY <1>1, <3>1, <3>4 DEF Pipeline, Pipe
      <4>3. got'[c] \in Seq(Messages) /\ send'[c] \in Seq(Messages)
        BY <2>2, <2>3, <3>3
      <4>4. QED
        BY <4>2, <4>3, UnbrokenFront
    <3>7. NoGap'
      BY <1>1, <2>4, <3>6 DEF NoGap
    <3>8. QED
      BY <1>5, <1>7, <2>3, <2>4, <3>5, <3>7 DEF Pipeline
  <2>8. CASE ~(sock'[c].peer /\ ~sock'[c].closed)
    <3>1. Pipe(c)'
      BY <1>4, <1>6, <2>3, <2>5, <2>6, <2>8 DEF Pipe
    <3>2. got' = got
      <4>1. CASE WriteFail(c)
        BY <4>1 DEF WriteFail
      <4>2. CASE Write(c)
        <5>1. sock' = sock /\ ~sock[c].closed
          BY <4>2 DEF Write
        <5>2. ~sock[c].peer
          BY <2>8, <5>1
        <5>3. QED
          BY <4>2, <5>2 DEF Write
      <4>3. QED
        BY <1>8, <4>1, <4>2
    <3>3. NoGap'
      BY <1>1, <3>2 DEF NoGap
    <3>4. QED
      BY <1>5, <1>7, <2>3, <2>4, <3>1, <3>3 DEF Pipeline
  <2>9. QED
    BY <2>7, <2>8
<1>9. CASE ~(Write(c) \/ WriteFail(c))
  <2>1. send' = send /\ got' = got
    BY <1>9 DEF ConnStep, Connect, Register, Disconnect, ReadFail, Unregister,
                SendClosed
  <2>2. NoGap'
    BY <1>1, <2>1 DEF NoGap
  <2>3. QED
    BY <1>5, <1>7, <2>1, <2>2 DEF Pipeline
<1>10. QED
  BY <1>8, <1>9

LEMMA FeedStreams ==
    ASSUME StreamInv, NEW c \in Conns, FeedStep(c)
    PROVE  Pipeline' /\ NoGap'
<1>1. TypeOK /\ Pipeline /\ NoGap /\ feed \in [Conns -> Feeds]
  BY DEF StreamInv, HubInv, TypeOK
<1>2. conns' = conns /\ sock' = sock /\ send' = send /\ got' = got
  BY DEF FeedStep, Subscribed, Receive, TakeMessage, Forward, Unsubscribe, hubVars
<1>3. NoGap'
  BY <1>1, <1>2 DEF NoGap
<1>4. \A d \in Conns : Listed(d)' <=> Listed(d)
  BY <1>2 DEF Listed
<1>5. CASE Forward(c)
  <2> DEFINE m == [feed |-> c, n |-> feed[c].forwarded + 1]
  <2>1. inbound' = Append(inbound, m)
    BY <1>5 DEF Forward
  <2>2. feed[c].forwarded \in Nat /\ m \in Messages /\ m.feed = c
        /\ m.n = feed[c].forwarded + 1 /\ inbound \in Seq(Messages)
    <3>1. feed[c].forwarded \in Nat /\ feed[c].forwarded + 1 \in Nat
      BY <1>1, SocketTypes
    <3>2. inbound \in Seq(Messages)
      BY <1>1 DEF TypeOK
    <3>3. m \in Messages /\ m.feed = c /\ m.n = feed[c].forwarded + 1
      BY <3>1 DEF Messages
    <3>4. QED
      BY <3>1, <3>2, <3>3
  <2>3. \A f \in Conns : /\ feed[f].forwarded \in Nat
                         /\ feed'[f].forwarded = IF m.feed = f THEN feed[f].forwarded + 1
                                                               ELSE feed[f].forwarded
    <3>1. feed' = [feed EXCEPT ![c].pc = "listening", ![c].forwarded = @ + 1]
      BY <1>5 DEF Forward
    <3>2. \A f \in Conns : f # c => feed'[f] = feed[f]
      BY <1>1, <3>1
    <3>3. feed'[c].forwarded = feed[c].forwarded + 1
      BY <1>1, <3>1 DEF Feeds
    <3>4. QED
      BY <1>1, <2>2, <3>2, <3>3, SocketTypes
  <2> HIDE DEF m
  <2>4. ASSUME NEW f \in Conns, NEW q \in Seq(Messages), RunUpTo(q, f, feed[f].forwarded)
        PROVE  RunUpTo(Append(q, m), f, feed'[f].forwarded)
    <3>1. m.feed = f => m.n = feed[f].forwarded + 1
      BY <2>2
    <3>2. RunUpTo(Append(q, m), f,
                  IF m.feed = f THEN feed[f].forwarded + 1 ELSE feed[f].forwarded)
      BY <2>2, <2>3, <2>4, <3>1, RunAppend
    <3>3. QED
      BY <2>3, <3>2
  <2>5. \A f \in Conns : RunUpTo(inbound', f, feed'[f].forwarded)
    BY <1>1, <2>1, <2>2, <2>4 DEF Pipeline
  <2>6. ASSUME NEW d \in Conns PROVE Pipe(d)'
    <3> DEFINE p == got[d] \o send[d]
    <3>1. p \in Seq(Messages)
      BY <1>1, SocketTypes, ConcatProperties
    <3>2. p \o Append(inbound, m) = Append(p \o inbound, m) /\ p \o inbound \in Seq(Messages)
      <4> HIDE DEF p
      <4>1. QED
        BY <2>2, <3>1, AppendConcat, ConcatProperties
    <3>3. Pipe(d)
      BY <1>1 DEF Pipeline
    <3>4. ASSUME NEW f \in Conns, sock[d].peer, ~sock[d].closed, sock[d].closes = 0,
                 ScopeOf[f] = ScopeOf[d]
          PROVE  RunUpTo(p \o inbound', f, feed'[f].forwarded)
      <4>1. RunUpTo(p \o inbound, f, feed[f].forwarded)
        BY <3>3, <3>4 DEF Pipe
      <4>2. QED
        BY <2>1, <2>4, <3>2, <4>1
    <3>5. QED
      BY <1>2, <1>4, <3>3, <3>4 DEF Pipe
  <2>7. QED
    BY <1>3, <2>5, <2>6 DEF Pipeline
<1>6. CASE ~Forward(c)
  <2>1. inbound' = inbound
    BY <1>6 DEF FeedStep, Subscribed, Receive, TakeMessage, Unsubscribe, hubVars
  <2>2. \A f \in Conns : feed'[f].forwarded = feed[f].forwarded
    BY <1>1, <1>6 DEF FeedStep, Subscribed, Receive, TakeMessage, Unsubscribe, FeedGoto, Feeds
  <2>3. \A d \in Conns : Pipe(d)'
    BY <1>1, <1>2, <1>4, <2>1, <2>2, PipeSame DEF Pipeline
  <2>4. QED
    BY <1>1, <1>3, <2>1, <2>2, <2>3 DEF Pipeline
<1>7. QED
  BY <1>5, <1>6

\* Adding or removing a connection leaves every pipeline as it was.
LEMMA ListStreams ==
    ASSUME StreamInv, HubRegister \/ HubUnregister
    PROVE  Pipeline' /\ NoGap'
<1>1. TypeOK /\ Pipeline /\ NoGap
  BY DEF StreamInv, HubInv
<1>2. inbound' = inbound /\ send' = send /\ got' = got
  BY DEF HubRegister, HubUnregister
<1>3. \A f \in Conns : feed'[f].forwarded = feed[f].forwarded
  <2>1. CASE HubRegister
    <3>1. \/ feed' = feed
          \/ feed' = [feed EXCEPT ![Head(register)].pc = "subscribing"]
      BY <2>1 DEF HubRegister, AddConn
    <3>2. QED
      BY <1>1, <3>1, ForwardedKept
  <2>2. CASE HubUnregister
    <3>1. \/ feed' = feed
          \/ feed' = [feed EXCEPT ![subs[ScopeOf[Head(unregister)]]].cancelled = TRUE]
      BY <2>2 DEF HubUnregister, RemoveConn, Unlist
    <3>2. QED
      BY <1>1, <3>1, ForwardedKept
  <2>3. QED
    BY <2>1, <2>2
<1>4. \A d \in Conns :
         /\ sock'[d].closes = 0 => sock[d].closes = 0
         /\ sock'[d].peer = sock[d].peer /\ sock'[d].closed = sock[d].closed
         /\ ~Listed(d)' /\ sock'[d].closes = 0 => ~Listed(d)
  <2>1. CASE HubRegister
    <3>1. Head(register) \in Conns /\ sock' = sock
      BY <1>1, <2>1 DEF TypeOK, HubRegister
    <3>2. \A d \in Conns : Listed(d) => Listed(d)'
      BY <1>1, <2>1, <3>1, ScopeAssumption DEF TypeOK, HubRegister, AddConn, Listed
    <3>3. QED
      BY <3>1, <3>2
  <2>2. CASE HubUnregister
    <3> DEFINE c == Head(unregister)
    <3>1. c \in Conns /\ RemoveConn(c) /\ sock \in [Conns -> Socks]
      BY <1>1, <2>2 DEF TypeOK, HubUnregister
    <3>2. CASE c \in conns[ScopeOf[c]]
      <4>1. /\ conns' = [conns EXCEPT ![ScopeOf[c]] = @ \ {c}]
            /\ sock' = [sock EXCEPT ![c].closes = @ + 1]
        BY <3>1, <3>2 DEF RemoveConn, Unlist
      <4>2. sock[c].closes \in Nat /\ sock'[c].closes = sock[c].closes + 1
        BY <3>1, <4>1 DEF Socks
      <4>3. \A d \in Conns : d # c => sock'[d] = sock[d]
        BY <3>1, <4>1
      <4>4. sock'[c].peer = sock[c].peer /\ sock'[c].closed = sock[c].closed
        BY <3>1, <4>1 DEF Socks
      <4>5. \A d \in Conns : d # c /\ Listed(d) => Listed(d)'
        BY <1>1, <3>1, <4>1, ScopeAssumption DEF TypeOK, Listed
      <4>6. QED
        BY <4>2, <4>3, <4>4, <4>5
    <3>3. CASE c \notin conns[ScopeOf[c]]
      BY <3>1, <3>3 DEF RemoveConn, Listed
    <3>4. QED
      BY <3>2, <3>3
  <2>3. QED
    BY <2>1, <2>2
<1>5. \A d \in Conns : Pipe(d)'
  BY <1>1, <1>2, <1>3, <1>4, PipeSame DEF Pipeline
<1>6. QED
  BY <1>1, <1>2, <1>3, <1>5 DEF Pipeline, NoGap

LEMMA InboundStreams ==
    ASSUME StreamInv, HubInbound
    PROVE  Pipeline' /\ NoGap'
<1> DEFINE msg == Head(inbound)
           s == ScopeOf[msg.feed]
<1>1. TypeOK /\ Pipeline /\ NoGap /\ Enrolment /\ SendClosedOnce
  BY DEF StreamInv, HubInv
<1>2. /\ inbound \in Seq(Messages) /\ inbound # <<>> /\ inbound' = Tail(inbound)
      /\ Broadcast(msg) /\ got' = got
  BY <1>1 DEF TypeOK, HubInbound
<1>3. msg \in Messages /\ msg.feed \in Conns /\ Tail(inbound) \in Seq(Messages) /\ s \in Scopes
  <2>1. msg \in Messages /\ Tail(inbound) \in Seq(Messages)
    BY <1>2, HeadTailProperties
  <2>2. msg.feed \in Conns
    BY <2>1 DEF Messages
  <2>3. QED
    BY <2>1, <2>2, ScopeAssumption
<1>4. \A f \in Conns : feed'[f].forwarded = feed[f].forwarded /\ feed[f].forwarded \in Nat
  <2>1. \/ feed' = feed
        \/ feed' = [feed EXCEPT ![subs[s]].cancelled = TRUE]
    BY <1>2 DEF Broadcast, Unlist
  <2>2. QED
    BY <1>1, <2>1, ForwardedKept, SocketTypes
<1>5. NoGap'
  BY <1>1, <1>2 DEF NoGap
<1>6. \A f \in Conns : RunUpTo(inbound', f, feed'[f].forwarded)
  BY <1>1, <1>2, <1>4, RunTail DEF Pipeline
<1>7. ASSUME NEW d \in Conns PROVE Pipe(d)'
  <2> DEFINE p == got[d] \o send[d]
  <2>1. /\ Pipe(d) /\ send[d] \in Seq(Messages) /\ got[d] \in Seq(Messages)
        /\ p \in Seq(Messages) /\ sock[d].closes \in Nat
    BY <1>1, SocketTypes, ConcatProperties DEF Pipeline
  <2>2. d \in conns[s] => Listed(d) /\ ScopeOf[d] = s
    BY <1>1, <1>3 DEF Enrolment, Listed
  <2>3. ASSUME d \notin Slow(s)
        PROVE  sock'[d] = sock[d] /\ (Listed(d)' <=> Listed(d))
    <3>1. sock'[d] = sock[d]
      BY <1>2, <2>3 DEF Broadcast
    <3>2. \A t \in Scopes : d \in conns'[t] <=> d \in conns[t]
      BY <1>1, <1>2, <1>3, <2>3 DEF TypeOK, Broadcast, Unlist
    <3>3. QED
      BY <3>1, <3>2, ScopeAssumption DEF Listed
  <2>4. CASE d \in Slow(s)
    <3>1. sock'[d].closed /\ sock'[d].closes = sock[d].closes + 1
      <4>1. sock[d] \in Socks /\ sock'[d] = [sock[d] EXCEPT !.closes = @ + 1, !.closed = TRUE]
        BY <1>1, <1>2, <2>4 DEF TypeOK, Broadcast
      <4>2. QED
        BY <4>1 DEF Socks
    <3>2. send'[d] = send[d]
      BY <1>2, <2>4 DEF Broadcast, Deliver
    <3>3. QED
      BY <2>1, <3>1, <3>2 DEF Pipe
  <2>5. CASE d \in conns[s] \ Slow(s)
    <3>1. send'[d] = Append(send[d], msg)
      BY <1>2, <2>5 DEF Broadcast, Deliver
    <3>2. Listed(d) /\ ScopeOf[d] = s /\ sock[d].closes = 0
      BY <1>1, <2>1, <2>2, <2>5 DEF SendClosedOnce
    <3>3. Append(p, msg) = got[d] \o Append(send[d], msg)
      <4> DEFINE had == got[d]
                 waits == send[d]
      <4>1. had \in Seq(Messages) /\ waits \in Seq(Messages) /\ msg \in Messages
        BY <1>3, <2>1
      <4> HIDE DEF msg, had, waits
      <4>2. had \o Append(waits, msg) = Append(had \o waits, msg)
        BY <4>1, AppendConcat
      <4>3. QED
        BY <4>2 DEF had, waits
    <3>4. /\ Append(p, msg) \o Tail(inbound) = p \o inbound
          /\ Append(p, msg) \in Seq(Messages)
      BY <1>2, <2>1, PassOn
    <3>5. \A i \in 1..Len(send'[d]) : ScopeOf[send'[d][i].feed] = ScopeOf[d]
      <4>1. TAKE i \in 1..Len(send'[d])
      <4>2. /\ Len(send[d]) \in Nat /\ Len(send'[d]) = Len(send[d]) + 1
            /\ send'[d][Len(send[d]) + 1] = msg
            /\ \A k \in 1..Len(send[d]) : send'[d][k] = send[d][k]
        BY <1>3, <2>1, <3>1, AppendProperties, LenProperties
      <4>3. i \in 1..Len(send[d]) \/ i = Len(send[d]) + 1
        BY <4>2
      <4>4. QED
        BY <2>1, <3>2, <4>2, <4>3 DEF Pipe
    <3>6. ASSUME NEW f \in Conns, sock[d].peer, ~sock[d].closed
          PROVE  /\ ScopeOf[f] = ScopeOf[d] =>
                       RunUpTo((got'[d] \o send'[d]) \o inbound', f, feed'[f].forwarded)
                 /\ Unbroken(got'[d] \o send'[d], f)
      <4>1. got'[d] \o send'[d] = Append(p, msg)
        BY <1>2, <3>1, <3>3
      <4>2. (got'[d] \o send'[d]) \o inbound' = p \o inbound
        BY <1>2, <3>4, <4>1
      <4>3. CASE ScopeOf[f] = ScopeOf[d]
        <5>1. RunUpTo(p \o inbound, f, feed[f].forwarded)
          BY <2>1, <3>2, <3>6, <4>3 DEF Pipe
        <5>2. Unbroken(Append(p, msg) \o Tail(inbound), f)
          BY <3>4, <5>1 DEF RunUpTo
        <5>3. Unbroken(Append(p, msg), f)
          BY <1>3, <3>4, <5>2, UnbrokenFront
        <5>4. QED
          BY <1>4, <4>1, <4>2, <5>1, <5>3
      <4>4. CASE ScopeOf[f] # ScopeOf[d]
        <5>1. Unbroken(p, f) /\ msg.feed # f
          BY <2>1, <3>2, <3>6, <4>4 DEF Pipe
        <5>2. /\ Len(p) \in Nat /\ Len(Append(p, msg)) = Len(p) + 1
              /\ Append(p, msg)[Len(p) + 1] = msg
              /\ \A k \in 1..Len(p) : Append(p, msg)[k] = p[k]
          <6> HIDE DEF msg, p
          <6>1. QED
            BY <1>3, <2>1, AppendProperties, LenProperties
        <5>3. Unbroken(Append(p, msg), f)
          BY <5>1, <5>2, UnbrokenMore
        <5>4. QED
          BY <4>1, <4>4, <5>3
      <4>5. QED
        BY <4>3, <4>4
    <3>7. sock'[d] = sock[d] /\ (Listed(d)' <=> Listed(d))
      BY <2>3, <2>5
    <3>8. QED
      BY <3>2, <3>5, <3>6, <3>7 DEF Pipe
  <2>6. CASE d \notin conns[s]
    <3>1. d \notin Slow(s)
      BY <2>6 DEF Slow
    <3>2. send'[d] = send[d] /\ got'[d] = got[d]
      BY <1>2, <2>6 DEF Broadcast, Deliver
    <3>3. sock'[d] = sock[d] /\ (Listed(d)' <=> Listed(d))
      BY <2>3, <3>1
    <3>4. ASSUME NEW f \in Conns, sock[d].peer, ~sock[d].closed, sock[d].closes = 0,
                 ScopeOf[f] = ScopeOf[d]
          PROVE  RunUpTo(p \o inbound', f, feed'[f].forwarded)
      <4>1. CASE Listed(d)
        <5>1. msg.feed # f
          BY <2>6, <3>4, <4>1 DEF Listed
        <5>2. RunUpTo(p \o inbound, f, feed[f].forwarded)
          BY <2>1, <3>4 DEF Pipe
        <5>3. RunUpTo(p \o Tail(inbound), f, feed[f].forwarded)
          BY <1>2, <1>4, <2>1, <5>1, <5>2, RunSkip
        <5>4. QED
          BY <1>2, <1>4, <5>3
      <4>2. CASE ~Listed(d)
        <5>1. send[d] = <<>> /\ got[d] = <<>>
          BY <2>1, <3>4, <4>2 DEF Pipe
        <5>2. <<>> \o <<>> = <<>> /\ <<>> \in Seq(Messages)
          BY ConcatEmptySeq, EmptySeq
        <5>3. p \o inbound' = inbound'
          BY <1>2, <1>3, <5>1, <5>2, ConcatEmptySeq
        <5>4. QED
          BY <1>6, <5>3
      <4>3. QED
        BY <4>1, <4>2
    <3>5. QED
      BY <2>1, <3>2, <3>3, <3>4 DEF Pipe
  <2>7. QED
    BY <2>4, <2>5, <2>6
<1>8. QED
  BY <1>5, <1>6, <1>7 DEF Pipeline

LEMMA StreamInit == Init => StreamInv
<1>1. SUFFICES ASSUME Init PROVE Pipeline /\ NoGap
  BY HubInit DEF StreamInv
<1>2. inbound = <<>> /\ \A c \in Conns : send[c] = <<>> /\ got[c] = <<>>
  BY <1>1 DEF Init
<1>3. /\ <<>> \in Seq(Messages) /\ Len(<<>>) = 0
      /\ <<>> \o <<>> = <<>>
  BY EmptySeq, ConcatEmptySeq
<1>4. \A f \in Conns : Unbroken(<<>>, f) /\ RunUpTo(<<>>, f, feed[f].forwarded)
  BY <1>3 DEF Unbroken, RunUpTo
<1>5. ASSUME NEW c \in Conns PROVE Pipe(c)
  <2>1. got[c] \o send[c] = <<>> /\ (got[c] \o send[c]) \o inbound = <<>>
    BY <1>2, <1>3
  <2>2. \A i \in 1..Len(send[c]) : ScopeOf[send[c][i].feed] = ScopeOf[c]
    BY <1>2, <1>3
  <2>3. QED
    BY <1>2, <1>4, <2>1, <2>2 DEF Pipe
<1>6. QED
  BY <1>2, <1>4, <1>5 DEF Pipeline, NoGap

LEMMA StreamNext == StreamInv /\ [Next]_vars => StreamInv'
<1>1. SUFFICES ASSUME StreamInv, [Next]_vars PROVE StreamInv'
  OBVIOUS
<1>2. HubInv'
  BY <1>1, HubNext DEF StreamInv
<1>3. CASE HubRegister \/ HubUnregister
  BY <1>1, <1>2, <1>3, ListStreams DEF StreamInv
<1>4. CASE HubInbound
  BY <1>1, <1>2, <1>4, InboundStreams DEF StreamInv
<1>5. ASSUME NEW c \in Conns, ConnStep(c) PROVE StreamInv'
  BY <1>1, <1>2, <1>5, ConnStreams DEF StreamInv
<1>6. ASSUME NEW c \in Conns, FeedStep(c) PROVE StreamInv'
  BY <1>1, <1>2, <1>6, FeedStreams DEF StreamInv
<1>7. CASE UNCHANGED vars
  BY <1>1, <1>2, <1>7 DEF StreamInv, Pipeline, Pipe, NoGap, Listed, vars, hubVars
<1>8. QED
  BY <1>1, <1>3, <1>4, <1>5, <1>6, <1>7 DEF Next

\* No browser is skipped: what it receives of a subscription has no hole,
\* whatever the capacities, however often connections come, stall and go, and
\* in whatever order the Run loop serves its channels.
THEOREM NoGapCorrect == Spec => []NoGap
<1>1. StreamInv => NoGap
  BY DEF StreamInv
<1>2. QED
  BY <1>1, StreamInit, StreamNext, PTL DEF Spec
=============================================================================
