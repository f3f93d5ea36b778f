----------------------------- MODULE LiveClient -----------------------------
(* The browser's end of the live connection (live/client.go): the WebSocket  *)
(* that serves the project the user chose, and its automatic reconnection.   *)
(* WebAssembly runs one goroutine at a time and none of the handlers blocks, *)
(* so each is one action.  The three seconds before a new attempt are any    *)
(* time at all.                                                              *)
EXTENDS Integers, Sequences, FiniteSets

CONSTANTS
    Projects,      \* ids a project may have
    None,          \* no project chosen yet
    MaxSwitches,   \* bound: clicks on the Connect button
    MaxFaults      \* bound: attempts that fail and connections that drop

ASSUME ClientConstants ==
    /\ None \notin Projects
    /\ MaxSwitches \in Nat /\ MaxFaults \in Nat

VARIABLES
    projectID, token, connected, hadConnection,    \* the fields of Client
    sock,      \* every socket dialled, with its project; the last one is ws
    timers,    \* goroutines asleep until they dial again
    switches,  \* calls of SetProjectID that dialled
    faults,    \* failures of the network so far
    lost,      \* established connections closed by the network
    fired      \* times the reconnect listeners were called

clientVars == <<projectID, token, connected, hadConnection>>
vars == <<clientVars, sock, timers, switches, faults, lost, fired>>

States == {"connecting", "open", "closing", "closed"}
Live == {i \in DOMAIN sock : sock[i].state # "closed"}

Dial(socks, id) == Append(socks, [project |-> id, state |-> "connecting"])
In(socks, i, state) == [socks EXCEPT ![i].state = state]

\* Closing a socket that is closed already does nothing.
CloseWs(socks) ==
    IF socks # <<>> /\ socks[Len(socks)].state \in {"connecting", "open"}
    THEN In(socks, Len(socks), "closing") ELSE socks

-----------------------------------------------------------------------------
\* The Connect button of the settings dialog.  The token is read when none is
\* kept yet; the page may not have one.
SetProjectID(id, auth) ==
    LET left == IF connected THEN CloseWs(sock) ELSE sock IN
    /\ switches < MaxSwitches
    /\ connected' = FALSE /\ hadConnection' = FALSE
    /\ projectID' = id
    /\ token' = (token \/ auth)
    /\ sock' = IF token' THEN Dial(left, id) ELSE left
    /\ switches' = switches + (IF token' THEN 1 ELSE 0)
    /\ UNCHANGED <<timers, faults, lost, fired>>

\* onopen
OnOpen(i) ==
    /\ sock[i].state = "connecting"
    /\ sock' = In(sock, i, "open")
    /\ connected' = TRUE /\ hadConnection' = TRUE
    /\ fired' = fired + (IF hadConnection THEN 1 ELSE 0)
    /\ UNCHANGED <<projectID, token, timers, switches, faults, lost>>

\* Mutants of the next: a retry only after a connection that was open; a history that ends
\* with the connection; and a second retry from onerror.
OnCloseRetryingOpen(i) ==
    /\ sock' = In(sock, i, "closed")
    /\ connected' = FALSE
    /\ timers' = timers + (IF sock[i].state = "connecting" THEN 0 ELSE 1)
    /\ UNCHANGED <<projectID, token, hadConnection, switches, fired>>

OnCloseForgetting(i) ==
    /\ sock' = In(sock, i, "closed")
    /\ connected' = FALSE /\ hadConnection' = FALSE
    /\ timers' = timers + 1
    /\ UNCHANGED <<projectID, token, switches, fired>>

OnCloseTwice(i) ==
    /\ sock' = In(sock, i, "closed")
    /\ connected' = FALSE
    /\ timers' = timers + (IF sock[i].state = "connecting" THEN 2 ELSE 1)
    /\ UNCHANGED <<projectID, token, hadConnection, switches, fired>>

\* onclose: of any socket of this client, whichever project it served.
OnClose(i) ==
    /\ sock' = In(sock, i, "closed")
    /\ connected' = FALSE
    /\ timers' = timers + 1
    /\ UNCHANGED <<projectID, token, hadConnection, switches, fired>>

\* The network closes a connection, or an attempt to connect fails.
Fault(i) ==
    /\ sock[i].state \in {"connecting", "open"}
    /\ faults < MaxFaults
    /\ faults' = faults + 1
    /\ lost' = lost + (IF sock[i].state = "open" THEN 1 ELSE 0)
    /\ OnClose(i)

\* The end of a socket the client closed itself.
Closed(i) ==
    /\ sock[i].state = "closing"
    /\ OnClose(i)
    /\ UNCHANGED <<faults, lost>>

\* The goroutine onclose left wakes up.
Redial ==
    /\ timers > 0
    /\ timers' = timers - 1
    /\ sock' = IF token /\ projectID # None THEN Dial(sock, projectID) ELSE sock
    /\ UNCHANGED <<clientVars, switches, faults, lost, fired>>

-----------------------------------------------------------------------------
Init ==
    /\ projectID = None /\ token = FALSE
    /\ connected = FALSE /\ hadConnection = FALSE
    /\ sock = <<>> /\ timers = 0
    /\ switches = 0 /\ faults = 0 /\ lost = 0 /\ fired = 0

Next ==
    \/ \E id \in Projects, auth \in BOOLEAN : SetProjectID(id, auth)
    \/ \E i \in DOMAIN sock : OnOpen(i) \/ Fault(i) \/ Closed(i)
    \/ Redial

Spec == Init /\ [][Next]_vars

\* An attempt ends one way or the other, and so does a handshake of closing;
\* sleeping goroutines wake up.  The user need not do anything.
Fairness ==
    /\ WF_vars(\E i \in DOMAIN sock : OnOpen(i))
    /\ WF_vars(\E i \in DOMAIN sock : Closed(i))
    /\ WF_vars(Redial)

FairSpec == Spec /\ Fairness

-----------------------------------------------------------------------------
\* The types of the variables.
TypeOK ==
    /\ projectID \in Projects \cup {None}
    /\ token \in BOOLEAN /\ connected \in BOOLEAN /\ hadConnection \in BOOLEAN
    /\ sock \in Seq([project : Projects, state : States])
    /\ timers \in Nat
    /\ switches \in 0..MaxSwitches /\ faults \in 0..MaxFaults
    /\ lost \in Nat /\ fired \in Nat

\* Reconnecting never multiplies connections: sockets not yet closed and
\* timers together are as many as the calls of SetProjectID that dialled, for
\* a socket has one onclose and that dials once.
OneRetryEach == Cardinality(Live) + timers = switches

\* While one project is all the user ever chose, the reconnect listeners are
\* called once for every connection the network took away, when the next
\* attempt succeeds, however many fail in between; never for the first.
RecoveriesMatch ==
    switches <= 1 =>
        fired = lost - (IF hadConnection /\ ~connected THEN 1 ELSE 0)

\* When the user and the network leave it alone, the client ends up connected
\* by its newest socket, to the project chosen last: neither a late onclose of
\* an earlier socket nor a failed attempt leaves it disconnected.
Heals ==
    <>[](token => /\ connected
                  /\ sock[Len(sock)] = [project |-> projectID, state |-> "open"])

\* client.go: "IsConnected reports whether the WebSocket is currently open",
\* and Send relies on it: sending on a socket still connecting throws.
ConnectedMeansOpen ==
    connected => sock[Len(sock)].state # "connecting"
=============================================================================
