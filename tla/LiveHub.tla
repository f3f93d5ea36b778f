------------------------------- MODULE LiveHub -------------------------------
(***************************************************************************)
(* The hub of live connections (server/handler/liveapi/hub.go): browsers   *)
(* hold WebSockets, each scoped to a (user, project) pair, and the hub     *)
(* subscribes to one Redis channel per scope and hands every message of it *)
(* to the connections of the scope.  Actors: the Run loop, one             *)
(* subscription goroutine per live scope, and the two pumps of each        *)
(* connection; they meet in Go channels.                                   *)
(*                                                                         *)
(* A message is the number under which its subscription received it.  The  *)
(* goroutine that addConn starts for a new scope is named after the        *)
(* connection that made the scope new.  Redis may lose messages; frames    *)
(* from the browser only pass through ReadPump and are left out.  Run is   *)
(* given context.Background(), so shutdown is never reached.               *)
(***************************************************************************)
EXTENDS Naturals, Sequences

CONSTANTS
    Conns,        \* WebSocket connections, each used once
    Scopes,       \* (user, project) pairs
    ScopeOf,      \* the scope of each connection
    Stalled,      \* connections whose browser may stop reading for ever
    Nil,
    SendCap,      \* sendBufSize
    QueueCap,     \* capacity of the register and unregister channels
    InboundCap,   \* capacity of the inbound channel
    MaxReceived   \* bound: messages each subscription receives

ASSUME ScopeAssumption == ScopeOf \in [Conns -> Scopes] /\ Stalled \subseteq Conns
ASSUME CapAssumption ==
    /\ SendCap \in Nat \ {0} /\ QueueCap \in Nat \ {0} /\ InboundCap \in Nat \ {0}
    /\ MaxReceived \in [Conns -> Nat]
ASSUME NilAssumption == Nil \notin Conns

VARIABLES
    conns,       \* conns[s]: the connections listed for the scope; {} is no entry
    subs,        \* subs[s]: the subscription whose cancel function is kept, or Nil
    register,    \* channel of connections to add
    unregister,  \* channel of connections to remove
    inbound,     \* channel of messages from Redis
    feed,        \* feed[c]: the subscription goroutine started for c's scope
    sock,        \* sock[c]: the WebSocket and its two pumps
    send,        \* send[c]: buffered content of c.Send
    got          \* got[c]: history of what the browser received

hubVars == <<conns, subs, register, unregister, inbound>>
vars == <<hubVars, feed, sock, send, got>>

HasRoom(ch, cap) == Len(ch) < cap

-----------------------------------------------------------------------------
(* A connection: handleWebSocket, ReadPump and WritePump.                   *)

Connect(c) ==
    /\ sock[c].reader = "none"
    /\ sock' = [sock EXCEPT ![c].reader = "registering"]
    /\ UNCHANGED <<hubVars, feed, send, got>>

\* Register blocks while the channel is full; then both pumps start.
Register(c) ==
    /\ sock[c].reader = "registering"
    /\ HasRoom(register, QueueCap)
    /\ register' = Append(register, c)
    /\ sock' = [sock EXCEPT ![c] = [@ EXCEPT !.reader = "reading", !.writer = "pumping"]]
    /\ UNCHANGED <<conns, subs, unregister, inbound, feed, send, got>>

\* The browser closes the page, or the network takes it away.
Disconnect(c) ==
    /\ sock[c].reader # "none"
    /\ sock[c].peer
    /\ sock' = [sock EXCEPT ![c].peer = FALSE]
    /\ UNCHANGED <<hubVars, feed, send, got>>

\* ReadPump: Read fails on a WebSocket closed at either end.
ReadFail(c) ==
    /\ sock[c].reader = "reading"
    /\ ~sock[c].peer \/ sock[c].closed
    /\ sock' = [sock EXCEPT ![c].reader = "leaving"]
    /\ UNCHANGED <<hubVars, feed, send, got>>

\* The deferred Unregister, which blocks while the channel is full, and Close.
Unregister(c) ==
    /\ sock[c].reader = "leaving"
    /\ HasRoom(unregister, QueueCap)
    /\ unregister' = Append(unregister, c)
    /\ sock' = [sock EXCEPT ![c] = [@ EXCEPT !.reader = "done", !.closed = TRUE]]
    /\ UNCHANGED <<conns, subs, register, inbound, feed, send, got>>

\* WritePump: a write to a browser that is gone may still succeed.
Write(c) ==
    /\ sock[c].writer = "pumping"
    /\ send[c] # <<>>
    /\ ~sock[c].closed
    /\ send' = [send EXCEPT ![c] = Tail(@)]
    /\ \/ sock[c].peer /\ got' = [got EXCEPT ![c] = Append(@, Head(send[c]))]
       \/ ~sock[c].peer /\ UNCHANGED got
    /\ UNCHANGED <<hubVars, feed, sock>>

WriterEnds(c) ==
    sock' = [sock EXCEPT ![c] = [@ EXCEPT !.writer = "done", !.closed = TRUE]]

WriteFail(c) ==
    /\ sock[c].writer = "pumping"
    /\ send[c] # <<>>
    /\ ~sock[c].peer \/ sock[c].closed
    /\ send' = [send EXCEPT ![c] = Tail(@)]
    /\ WriterEnds(c)
    /\ UNCHANGED <<hubVars, feed, got>>

\* The range over a closed and drained channel ends.
SendClosed(c) ==
    /\ sock[c].writer = "pumping"
    /\ send[c] = <<>>
    /\ sock[c].closes > 0
    /\ WriterEnds(c)
    /\ UNCHANGED <<hubVars, feed, send, got>>

-----------------------------------------------------------------------------
(* The Run loop; select takes any branch that is ready.                     *)

\* addConn: the first connection of a scope starts its subscription.
AddConn(c) ==
    LET s == ScopeOf[c] IN
    /\ conns' = [conns EXCEPT ![s] = @ \cup {c}]
    /\ IF conns[s] = {}
       THEN /\ subs' = [subs EXCEPT ![s] = c]
            /\ feed' = [feed EXCEPT ![c].pc = "subscribing"]
       ELSE UNCHANGED <<subs, feed>>

HubRegister ==
    /\ register # <<>>
    /\ register' = Tail(register)
    /\ AddConn(Head(register))
    /\ UNCHANGED <<unregister, inbound, sock, send, got>>

\* Mutation: the subscription of an emptied scope is left running.
UnlistKeepingFeed(s, gone) ==
    /\ conns' = [conns EXCEPT ![s] = @ \ gone]
    /\ IF conns[s] \subseteq gone
       THEN subs' = [subs EXCEPT ![s] = Nil]
       ELSE UNCHANGED subs
    /\ UNCHANGED feed

\* What removeConn does to the maps for connections of scope s that are listed:
\* an emptied scope loses its entries and its subscription is cancelled.
Unlist(s, gone) ==
    /\ conns' = [conns EXCEPT ![s] = @ \ gone]
    /\ IF conns[s] \subseteq gone
       THEN /\ subs' = [subs EXCEPT ![s] = Nil]
            /\ feed' = [feed EXCEPT ![subs[s]].cancelled = TRUE]
       ELSE UNCHANGED <<subs, feed>>

\* Mutation: Send is closed without asking whether the connection is listed.
RemoveConnUnchecked(c) ==
    IF conns[ScopeOf[c]] # {}
    THEN /\ Unlist(ScopeOf[c], {c})
         /\ sock' = [sock EXCEPT ![c].closes = @ + 1]
    ELSE UNCHANGED <<conns, subs, feed, sock>>

\* Mutation: Send is left open, for the collector to take.
RemoveConnLeavingOpen(c) ==
    /\ IF c \in conns[ScopeOf[c]]
       THEN Unlist(ScopeOf[c], {c})
       ELSE UNCHANGED <<conns, subs, feed>>
    /\ UNCHANGED sock

\* removeConn: a connection that is not listed (any more) is left alone.
RemoveConn(c) ==
    IF c \in conns[ScopeOf[c]]
    THEN /\ Unlist(ScopeOf[c], {c})
         /\ sock' = [sock EXCEPT ![c].closes = @ + 1]
    ELSE UNCHANGED <<conns, subs, feed, sock>>

HubUnregister ==
    /\ unregister # <<>>
    /\ unregister' = Tail(unregister)
    /\ RemoveConn(Head(unregister))
    /\ UNCHANGED <<register, inbound, send, got>>

\* Those of the scope whose buffer is full when a message comes.
Slow(s) == {c \in conns[s] : ~HasRoom(send[c], SendCap)}

Deliver(s, msg) ==
    send' = [c \in Conns |-> IF c \in conns[s] \ Slow(s) THEN Append(send[c], msg) ELSE send[c]]

\* Mutation: a slow connection just misses the message.
BroadcastSkipping(msg) ==
    Deliver(ScopeOf[msg.feed], msg) /\ UNCHANGED <<conns, subs, feed, sock>>

\* Mutation: the send to each connection blocks.
BroadcastBlocking(msg) ==
    /\ Slow(ScopeOf[msg.feed]) = {}
    /\ Deliver(ScopeOf[msg.feed], msg)
    /\ UNCHANGED <<conns, subs, feed, sock>>

\* broadcast: never blocks; a slow connection is removed and closed.
Broadcast(msg) ==
    LET s == ScopeOf[msg.feed] IN
    /\ Deliver(s, msg)
    /\ IF Slow(s) # {} THEN Unlist(s, Slow(s)) ELSE UNCHANGED <<conns, subs, feed>>
    /\ sock' = [c \in Conns |-> IF c \in Slow(s)
                                THEN [sock[c] EXCEPT !.closes = @ + 1, !.closed = TRUE]
                                ELSE sock[c]]

HubInbound ==
    /\ inbound # <<>>
    /\ inbound' = Tail(inbound)
    /\ Broadcast(Head(inbound))
    /\ UNCHANGED <<register, unregister, got>>

-----------------------------------------------------------------------------
(* subscribeRedis: one goroutine per subscription.                          *)

FeedGoto(c, from, to) ==
    /\ feed[c].pc = from
    /\ feed' = [feed EXCEPT ![c].pc = to]

\* Redis has taken the SUBSCRIBE; what was published before is lost.
Subscribed(c) ==
    /\ FeedGoto(c, "subscribing", "listening")
    /\ UNCHANGED <<hubVars, sock, send, got>>

\* Redis delivers a message of the channel to the subscription's buffer.
Receive(c) ==
    /\ feed[c].pc \in {"listening", "forwarding"}
    /\ feed[c].received < MaxReceived[c]
    /\ feed' = [feed EXCEPT ![c].received = @ + 1]
    /\ UNCHANGED <<hubVars, sock, send, got>>

\* The select takes a message, whether or not the context has ended.
TakeMessage(c) ==
    /\ feed[c].forwarded < feed[c].received
    /\ FeedGoto(c, "listening", "forwarding")
    /\ UNCHANGED <<hubVars, sock, send, got>>

\* Forward blocks on a full channel and does not look at the context.
Forward(c) ==
    /\ feed[c].pc = "forwarding"
    /\ HasRoom(inbound, InboundCap)
    /\ inbound' = Append(inbound, [feed |-> c, n |-> feed[c].forwarded + 1])
    /\ feed' = [feed EXCEPT ![c].pc = "listening", ![c].forwarded = @ + 1]
    /\ UNCHANGED <<conns, subs, register, unregister, sock, send, got>>

\* The select takes ctx.Done.
Unsubscribe(c) ==
    /\ feed[c].cancelled
    /\ FeedGoto(c, "listening", "ended")
    /\ UNCHANGED <<hubVars, sock, send, got>>

-----------------------------------------------------------------------------
Init ==
    /\ conns = [s \in Scopes |-> {}]
    /\ subs = [s \in Scopes |-> Nil]
    /\ register = <<>> /\ unregister = <<>> /\ inbound = <<>>
    /\ feed = [c \in Conns |->
                 [pc |-> "none", cancelled |-> FALSE, received |-> 0, forwarded |-> 0]]
    /\ sock = [c \in Conns |-> [peer |-> TRUE, closed |-> FALSE, reader |-> "none",
                                writer |-> "none", closes |-> 0]]
    /\ send = [c \in Conns |-> <<>>]
    /\ got = [c \in Conns |-> <<>>]

ConnStep(c) ==
    \/ Connect(c) \/ Register(c) \/ Disconnect(c) \/ ReadFail(c) \/ Unregister(c)
    \/ Write(c) \/ WriteFail(c) \/ SendClosed(c)

FeedStep(c) ==
    \/ Subscribed(c) \/ Receive(c) \/ TakeMessage(c) \/ Forward(c) \/ Unsubscribe(c)

Next ==
    \/ HubRegister \/ HubUnregister \/ HubInbound
    \/ \E c \in Conns : ConnStep(c) \/ FeedStep(c)

Spec == Init /\ [][Next]_vars

\* Go's select chooses among ready branches at random and serves blocked
\* senders in order; every goroutine is scheduled.  A browser may stop reading
\* (Stalled): its writer then only moves when the WebSocket or Send is closed.
Fairness ==
    /\ WF_vars(HubRegister) /\ WF_vars(HubUnregister) /\ WF_vars(HubInbound)
    /\ \A c \in Conns :
          /\ SF_vars(Register(c)) /\ WF_vars(ReadFail(c)) /\ SF_vars(Unregister(c))
          /\ WF_vars(SendClosed(c)) /\ WF_vars(sock[c].closed /\ WriteFail(c))
          /\ WF_vars(Subscribed(c)) /\ WF_vars(TakeMessage(c))
          /\ SF_vars(Forward(c)) /\ SF_vars(Unsubscribe(c))
    /\ \A c \in Conns \ Stalled : WF_vars(Write(c) \/ WriteFail(c))

FairSpec == Spec /\ Fairness

-----------------------------------------------------------------------------
FeedPcs == {"none", "subscribing", "listening", "forwarding", "ended"}
Feeds == [pc : FeedPcs, cancelled : BOOLEAN, received : Nat, forwarded : Nat]
Socks == [peer : BOOLEAN, closed : BOOLEAN,
          reader : {"none", "registering", "reading", "leaving", "done"},
          writer : {"none", "pumping", "done"}, closes : Nat]
Messages == [feed : Conns, n : Nat]

\* The types of the variables.
TypeOK ==
    /\ conns \in [Scopes -> SUBSET Conns]
    /\ subs \in [Scopes -> Conns \cup {Nil}]
    /\ register \in Seq(Conns) /\ unregister \in Seq(Conns)
    /\ inbound \in Seq(Messages)
    /\ feed \in [Conns -> Feeds]
    /\ sock \in [Conns -> Socks]
    /\ send \in [Conns -> Seq(Messages)]
    /\ got \in [Conns -> Seq(Messages)]

Listed(c) == c \in conns[ScopeOf[c]]
Running(c) == feed[c].pc \notin {"none", "ended"}

\* The hub never sends on a closed Send nor closes it twice, either of which
\* would bring the server down: not when a slow connection is dropped and its
\* ReadPump unregisters it later, nor when the two queues overtake each other.
SendClosedOnce ==
    \A c \in Conns : sock[c].closes <= (IF Listed(c) THEN 0 ELSE 1)

\* A scope with connections has exactly one subscription that is not cancelled,
\* the one its cancel function is kept for; a scope without has none.
OneFeedPerScope ==
    /\ \A s \in Scopes :
          /\ subs[s] = Nil <=> conns[s] = {}
          /\ subs[s] # Nil => /\ ScopeOf[subs[s]] = s
                             /\ Running(subs[s]) /\ ~feed[subs[s]].cancelled
    /\ \A c \in Conns :
          Running(c) /\ ~feed[c].cancelled => subs[ScopeOf[c]] = c

\* Message j is the next one of subscription f after message i.
Follows(q, f, i, j) ==
    /\ i < j /\ q[i].feed = f /\ q[j].feed = f
    /\ \A k \in (i + 1)..(j - 1) : q[k].feed # f

Unbroken(q, f) ==
    \A i, j \in 1..Len(q) : Follows(q, f, i, j) => q[j].n = q[i].n + 1

\* What a browser receives of one subscription is an unbroken run of it, in
\* order: a connection that cannot keep up is closed, never skipped.
NoGap == \A c, f \in Conns : Unbroken(got[c], f)

\* While connection c is listed, a message its scope's subscription has taken
\* from Redis reaches it or c is over, whatever a stalled browser does.
Delivered ==
    \A c \in Conns \ Stalled : \A f \in Conns : \A n \in 1..MaxReceived[f] :
        Listed(c) /\ subs[ScopeOf[c]] = f /\ feed[f].forwarded < n /\ n <= feed[f].received
            ~> \/ \E i \in 1..Len(got[c]) : got[c][i] = [feed |-> f, n |-> n]
               \/ sock[c].closed \/ ~sock[c].peer

\* The goroutines of a listed connection whose browser has gone all end and
\* the hub forgets it, stalled or not.
LeaversEnd ==
    \A c \in Conns :
        Listed(c) /\ ~sock[c].peer /\ sock[c].reader \in {"reading", "leaving"}
            ~> ~Listed(c) /\ sock[c].writer = "done" /\ sock[c].reader = "done"

\* A cancelled subscription ends, though it does not look at its context while
\* it waits for room in the inbound channel.
FeedsEnd == \A c \in Conns : feed[c].cancelled ~> feed[c].pc = "ended"

-----------------------------------------------------------------------------
(* The inductive invariant behind the two above.                            *)

InQueue(q, c) == \E i \in 1..Len(q) : q[i] = c
Distinct(q) == \A i, j \in 1..Len(q) : q[i] = q[j] => i = j

\* A connection is listed at most once in its life: after it was registered,
\* and until Send is closed.  Until it is listed it has started no subscription.
Enrolment ==
    /\ \A s \in Scopes : \A c \in conns[s] : ScopeOf[c] = s
    /\ Distinct(register)
    /\ \A c \in Conns :
          /\ sock[c].reader \in {"none", "registering"} =>
                ~InQueue(register, c) /\ ~Listed(c)
          /\ sock[c].reader \in {"none", "registering"} \/ InQueue(register, c) =>
                sock[c].closes = 0 /\ feed[c].pc = "none"
          /\ InQueue(register, c) => ~Listed(c)
          /\ feed[c].pc = "none" => ~feed[c].cancelled

HubInv == TypeOK /\ Enrolment /\ SendClosedOnce /\ OneFeedPerScope

-----------------------------------------------------------------------------
(* The inductive invariant behind NoGap.                                    *)

\* An unbroken run of subscription f whose last message is number top.
RunUpTo(q, f, top) ==
    /\ Unbroken(q, f)
    /\ \A i \in 1..Len(q) :
          q[i].feed = f /\ (\A k \in (i + 1)..Len(q) : q[k].feed # f) => q[i].n = top

\* Until c is dropped, what it received, what waits in Send and what waits in
\* the inbound channel are one run of its scope's subscription, up to what that
\* has forwarded; of a dropped connection only the inbound channel is cut off.
Pipe(c) ==
    /\ ~Listed(c) /\ sock[c].closes = 0 => send[c] = <<>> /\ got[c] = <<>>
    /\ sock[c].peer /\ ~sock[c].closed => \A f \in Conns :
          /\ sock[c].closes = 0 /\ ScopeOf[f] = ScopeOf[c] =>
                RunUpTo((got[c] \o send[c]) \o inbound, f, feed[f].forwarded)
          /\ Unbroken(got[c] \o send[c], f)
    /\ \A i \in 1..Len(send[c]) : ScopeOf[send[c][i].feed] = ScopeOf[c]

Pipeline ==
    /\ \A f \in Conns : RunUpTo(inbound, f, feed[f].forwarded)
    /\ \A c \in Conns : Pipe(c)

StreamInv == HubInv /\ Pipeline /\ NoGap

-----------------------------------------------------------------------------
\* hub.go: "Unregister queues a connection for removal by the Run loop", so one
\* that no queue holds any more, and whose ReadPump is over, is not listed.
UnregisteredStaysOut ==
    \A c \in Conns :
        /\ sock[c].reader = "done"
        /\ ~InQueue(register, c) /\ ~InQueue(unregister, c)
        => ~Listed(c)
=============================================================================
