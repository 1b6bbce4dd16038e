----------------------------- MODULE TcpServer ------------------------------
(***************************************************************************)
(* Server of src/net/tcp.ts over its freedom.js socket.  The connections   *)
(* it accepts are those of TcpConnection, of which only the closing        *)
(* matters here.                                                           *)
(*                                                                         *)
(* External assumption: a socket handles its calls in the order they are   *)
(* made, and what it reports (new connections, disconnection, the outcome  *)
(* of close) arrives in the order in which it happened.                    *)
(***************************************************************************)
EXTENDS Counter, Sequences, FiniteSets

CONSTANTS
    SocketIds,         \* ids of the sockets that clients connect with
    maxConnections_,   \* the constructor's argument
    MaxEvents          \* bound: onDisconnect events of one disconnection

ASSUME ServerAssumption ==
    /\ IsFiniteSet(SocketIds)
    /\ maxConnections_ \in Nat
    /\ MaxEvents \in Nat

VARIABLES
    server,   \* the Server object, and the promise of its shutdown()
    socket,   \* external: the listening socket
    client    \* client[id]: what became of a client's connection

vars == <<server, socket, client>>

SocketCloseKind == {"WE_CLOSED_IT", "NEVER_CONNECTED", "UNKOWN"}

\* opening is the call that onceListening waits for; stops counts the calls of
\* close that have not settled; info is what the onDisconnect handler was
\* given first; closing are the connections shutdown() waits for.
Server ==
    [counter_ : CounterType,
     opening : {"unused", "listen", "getInfo", "done"},
     onceListening_ : {"pending", "fulfilled", "rejected"},
     onceShutdown_ : {"pending"} \union SocketCloseKind,
     stops : Nat,
     info : {"none", "SUCCESS", "OTHER"},
     connections_ : SUBSET SocketIds,
     shutdown : {"unused", "stopping", "closing", "fulfilled", "rejected"},
     closing : SUBSET SocketIds]

\* What the socket reports.
Event ==
    [type : {"connection"}, id : SocketIds]
        \union [type : {"disconnect"}, errcode : {"SUCCESS", "OTHER"}]
        \union [type : {"stopped"}, ok : BOOLEAN,
                caller : {"stopListening", "shutdown"}]

\* calls are close calls it has yet to handle, by who made them.
Socket ==
    [up : BOOLEAN, calls : Seq({"stopListening", "shutdown"}),
     events : Seq(Event)]

ClientState ==
    {"new", "connecting", "dropped", "open", "closing", "closed"}

Active == {id \in SocketIds : client[id] \in {"open", "closing"}}

Init ==
    /\ server = [counter_ |-> NewCounter, opening |-> "unused",
                 onceListening_ |-> "pending", onceShutdown_ |-> "pending",
                 stops |-> 0, info |-> "none", connections_ |-> {},
                 shutdown |-> "unused", closing |-> {}]
    /\ socket = [up |-> FALSE, calls |-> <<>>, events |-> <<>>]
    /\ client = [id \in SocketIds |-> "new"]

-----------------------------------------------------------------------------
(* Pieces of a task, each from Server to Server. *)

\* fulfillShutdown_: only the first call counts.
FulfillShutdown(s, kind) ==
    [s EXCEPT !.onceShutdown_ = IF @ = "pending" THEN kind ELSE @]

KindOf(s) ==
    IF s.counter_.onceDestroyed_ = "fulfilled" /\ s.info = "SUCCESS"
    THEN "WE_CLOSED_IT" ELSE "UNKOWN"

\* after_ in the counter, with the onDisconnect handler's callbacks.
AfterCall(s) ==
    LET d == [s EXCEPT !.counter_ = After(@)]
    IN  IF d.counter_.onceDestroyed_ # "pending" /\ d.info # "none"
        THEN FulfillShutdown(d, KindOf(d)) ELSE d

\* Promise.all in closeAll: shutdown() fulfills when its connections closed.
JoinClosed(s) ==
    IF s.shutdown = "closing" /\ s.closing = {}
    THEN [s EXCEPT !.shutdown = "fulfilled"] ELSE s

\* Mistake: shutdown() handles only the fulfillment of stopListening.
StopFailedUnseen(s) == s

\* stopListening rejects, and shutdown() with it: nothing is closed.
StopFailed(s) == [s EXCEPT !.shutdown = "rejected"]

\* Mistake: off by one.
FullPastLimit == Cardinality(server.connections_) > maxConnections_

Full == Cardinality(server.connections_) >= maxConnections_

CloseConnections(ids) ==
    client' = [id \in SocketIds |->
                  IF id \in ids THEN "closing" ELSE client[id]]

-----------------------------------------------------------------------------
(* Operations. *)

\* "Should only be called once" (tcp.ts:136), and before anything else is.
Listen ==
    /\ server.opening = "unused"
    /\ server.shutdown = "unused" /\ server.stops = 0
    /\ server' = [server EXCEPT !.opening = "listen", !.counter_ = Before(@)]
    /\ UNCHANGED <<socket, client>>

\* Mistake: onceShutdown fulfills when close is called.
StopTellsAtOnce(caller) ==
    /\ server' = FulfillShutdown(
                     [server EXCEPT !.counter_ = Before(@), !.stops = @ + 1,
                        !.shutdown = IF caller = "shutdown" THEN "stopping"
                                     ELSE @],
                     "WE_CLOSED_IT")
    /\ socket' = [socket EXCEPT !.calls = Append(@, caller)]
    /\ UNCHANGED client

\* The call of close that both stopListening() and shutdown() make.
Stop(caller) ==
    /\ server' = [server EXCEPT !.counter_ = Before(@), !.stops = @ + 1,
                     !.shutdown = IF caller = "shutdown" THEN "stopping" ELSE @]
    /\ socket' = [socket EXCEPT !.calls = Append(@, caller)]
    /\ UNCHANGED client

\* stopListening(); bound: one call at a time, none after the disconnection.
StopListening ==
    /\ server.stops = 0
    /\ server.opening # "unused"
    /\ server.info = "none"
    /\ Stop("stopListening")

\* shutdown(): stopListening first, closeAll when it fulfills.
Shutdown ==
    /\ server.shutdown = "unused"
    /\ Stop("shutdown")

\* closeAll() by itself.
CloseAll ==
    /\ CloseConnections(server.connections_)
    /\ UNCHANGED <<server, socket>>

-----------------------------------------------------------------------------
(* Calls of the socket settle. *)

ListenFulfills ==
    /\ server.opening = "listen"
    /\ server' = [server EXCEPT !.opening = "getInfo"]
    /\ socket' = [socket EXCEPT !.up = TRUE]
    /\ UNCHANGED client

InfoFulfills ==
    /\ server.opening = "getInfo"
    /\ server' = [AfterCall(server) EXCEPT !.opening = "done",
                                           !.onceListening_ = "fulfilled"]
    /\ UNCHANGED <<socket, client>>

ListenRejects ==
    /\ server.opening \in {"listen", "getInfo"}
    /\ server' = FulfillShutdown(
                     [AfterCall(server) EXCEPT !.opening = "done",
                                               !.onceListening_ = "rejected"],
                     "NEVER_CONNECTED")
    /\ UNCHANGED <<socket, client>>

\* The outcome of close: shutdown() goes on to closeAll.
StopSettles ==
    /\ socket.events # <<>>
    /\ Head(socket.events).type = "stopped"
    /\ socket' = [socket EXCEPT !.events = Tail(@)]
    /\ LET e == Head(socket.events)
           s == [AfterCall(server) EXCEPT !.stops = @ - 1]
       IN  IF e.caller = "stopListening"
           THEN server' = s /\ UNCHANGED client
           ELSE IF ~ e.ok
           THEN server' = StopFailed(s) /\ UNCHANGED client
           ELSE /\ CloseConnections(s.connections_)
                /\ server' = JoinClosed([s EXCEPT !.shutdown = "closing",
                                                  !.closing = s.connections_])

-----------------------------------------------------------------------------
(* Handlers. *)

\* onConnectionHandler_: beyond the limit the connection is dropped.
OnConnection ==
    /\ socket.events # <<>>
    /\ Head(socket.events).type = "connection"
    /\ socket' = [socket EXCEPT !.events = Tail(@)]
    /\ LET id == Head(socket.events).id
       IN  IF Full
           THEN /\ client' = [client EXCEPT ![id] = "dropped"]
                /\ UNCHANGED server
           ELSE /\ client' = [client EXCEPT ![id] = "open"]
                /\ server' = [server EXCEPT !.connections_ = @ \union {id}]

\* onDisconnectHandler_; the callbacks of an earlier call come first.
OnDisconnect ==
    /\ socket.events # <<>>
    /\ Head(socket.events).type = "disconnect"
    /\ socket' = [socket EXCEPT !.events = Tail(@)]
    /\ server' = AfterCall([server EXCEPT
                     !.info = IF @ = "none" THEN Head(socket.events).errcode
                              ELSE @])
    /\ UNCHANGED client

\* A connection's onceClosed fulfills: discard it.
ConnectionClosed(id) ==
    /\ id \in Active
    /\ client' = [client EXCEPT ![id] = "closed"]
    /\ server' = JoinClosed([server EXCEPT !.connections_ = @ \ {id},
                                           !.closing = @ \ {id}])
    /\ UNCHANGED socket

-----------------------------------------------------------------------------
(* External: the socket. *)

Incoming(id) ==
    /\ socket.up
    /\ client[id] = "new"
    /\ client' = [client EXCEPT ![id] = "connecting"]
    /\ socket' = [socket EXCEPT
                     !.events = Append(@, [type |-> "connection", id |-> id])]
    /\ UNCHANGED server

Disconnects(errcode) ==
    { [i \in 1 .. n |-> [type |-> "disconnect", errcode |-> errcode]] :
          n \in 1 .. MaxEvents }

\* close: a socket that is up goes down and fulfills it, before or after it
\* reports the disconnection; one that is not may do either.
SocketCloses ==
    /\ socket.calls # <<>>
    /\ server.opening # "listen"
    /\ LET stopped(ok) ==
               <<[type |-> "stopped", ok |-> ok, caller |-> Head(socket.calls)]>>
           reports(es) ==
               socket' = [up |-> FALSE, calls |-> Tail(socket.calls),
                          events |-> socket.events \o es]
       IN  IF socket.up
           THEN \E ds \in Disconnects("SUCCESS") :
                   reports(ds \o stopped(TRUE)) \/ reports(stopped(TRUE) \o ds)
           ELSE \E ok \in BOOLEAN : reports(stopped(ok))
    /\ UNCHANGED <<server, client>>

SocketFails ==
    /\ socket.up
    /\ \E ds \in Disconnects("OTHER") :
          socket' = [socket EXCEPT !.up = FALSE, !.events = @ \o ds]
    /\ UNCHANGED <<server, client>>

\* What the owner of the server calls.
OwnerCalls == Listen \/ StopListening \/ Shutdown \/ CloseAll

\* Tasks of the server, and steps of the socket and of the clients.
ServerTasks ==
    \/ ListenFulfills \/ InfoFulfills \/ ListenRejects \/ StopSettles
    \/ OnConnection \/ OnDisconnect
    \/ \E id \in SocketIds : ConnectionClosed(id)

SocketSteps ==
    \/ SocketCloses \/ SocketFails
    \/ \E id \in SocketIds : Incoming(id)

Next == OwnerCalls \/ ServerTasks \/ SocketSteps

Spec == Init /\ [][Next]_vars
-----------------------------------------------------------------------------
(* Properties *)

TypeOK ==
    /\ server \in Server
    /\ socket \in Socket
    /\ client \in [SocketIds -> ClientState]

\* When shutdown() has fulfilled, no connection is open and none will be:
\* tcp.ts:203-204, "make sure no new connections happen while we're trying to
\* close all the connections".
ShutdownClosesAll ==
    server.shutdown = "fulfilled" =>
        \A id \in SocketIds : client[id] \in {"new", "dropped", "closed"}

\* The limit holds of connections that are really open, not only of those in
\* the server's table (tcp.ts:162).
WithinLimit == Cardinality(Active) <= maxConnections_

\* onceShutdown reports a socket that stopped accepting (tcp.ts:250-251), also
\* to the table: whoever reads connections() then misses none.
ShutdownIsFinal ==
    server.onceShutdown_ \in {"WE_CLOSED_IT", "UNKOWN"} =>
        ~ socket.up /\ \A id \in SocketIds : client[id] # "connecting"

\* shutdown() always settles, whatever else happens to the socket, and so does
\* onceShutdown after every disconnection.
ShutdownSettles ==
    /\ server.shutdown = "stopping" ~> server.shutdown \in {"fulfilled", "rejected"}
    /\ server.info # "none" ~> server.onceShutdown_ # "pending"
=============================================================================
