--------------------------- MODULE TcpConnection ----------------------------
(***************************************************************************)
(* Connection of src/net/tcp.ts: one TCP connection over a freedom.js      *)
(* socket.  The socket settles its calls in any order and reports its own  *)
(* disconnection at any time, also before calls have settled and more than *)
(* once; a Counter decides when the socket object may be destroyed.        *)
(*                                                                         *)
(* An action is one task together with the promise callbacks it makes      *)
(* runnable.                                                               *)
(***************************************************************************)
EXTENDS Counter

CONSTANTS
    Kinds,        \* connection kinds: an accepted socket, or an endpoint to
                  \* connect to
    MaxRequests,  \* bound: calls the user makes
    MaxEvents     \* bound: onDisconnect events of one disconnection

ASSUME TcpAssumption ==
    /\ Kinds \subseteq {"existing", "endpoint"}
    /\ MaxRequests \in Nat
    /\ MaxEvents \in Nat

VARIABLES
    conn,      \* the Connection object
    socket,    \* external: the freedom.js socket
    requests   \* calls the user made so far

vars == <<conn, socket, requests>>

Calls == {"pause", "resume", "close", "write"}

SocketCloseKind ==
    {"WE_CLOSED_IT", "REMOTELY_CLOSED", "NEVER_CONNECTED", "UNKOWN"}

\* What a disconnection says of itself; OTHER stands for every other code,
\* and for an event without info.
ErrCode == {"SUCCESS", "CONNECTION_CLOSED", "OTHER"}

KindOf(errcode) ==
    CASE errcode = "SUCCESS"           -> "WE_CLOSED_IT"
      [] errcode = "CONNECTION_CLOSED" -> "REMOTELY_CLOSED"
      [] OTHER                         -> "UNKOWN"

\* opening is the call that onceConnected waits for, "none" when it settled;
\* info is what the onDisconnect handler was given; calls are those of the
\* socket that have not settled; handling says whether dataToSocketQueue, a
\* number of buffers, has a handler.
Connection ==
    [kind : {"existing", "endpoint"},
     startPaused_ : BOOLEAN,
     state_ : {"CONNECTING", "CONNECTED", "CLOSED"},
     opening : {"connect", "getInfo", "none"},
     onceConnected : {"pending", "fulfilled", "rejected"},
     onceClosed : {"pending"} \union SocketCloseKind,
     info : {"none"} \union ErrCode,
     counter_ : CounterType,
     calls : [Calls -> Nat],
     handling : BOOLEAN,
     dataToSocketQueue : Nat]

\* up: connected; closing: close() was called; events: yet to be handled.
Socket == [up : BOOLEAN, closing : BOOLEAN, events : [ErrCode -> Nat]]

-----------------------------------------------------------------------------
(* Pieces of a task, each from Connection to Connection. *)

\* fulfillClosed_: only the first call counts.
FulfillClosed(c, kind) ==
    [c EXCEPT !.onceClosed = IF @ = "pending" THEN kind ELSE @]

\* counter_.wrap: the call goes out.
Wrap(c, call) ==
    [c EXCEPT !.counter_ = Before(@), !.calls[call] = @ + 1]

\* Mistake: onceClosed is given the socket's code as it is.
AfterCallRaw(c) ==
    LET d == [c EXCEPT !.counter_ = After(@)]
    IN  IF d.counter_.onceDestroyed_ = "fulfilled" /\ d.info # "none"
        THEN FulfillClosed(d, d.info) ELSE d

\* after_ in the counter; when the socket is destroyed and the onDisconnect
\* handler has run, its callback on onceDestroyed() fulfills onceClosed.
AfterCall(c) ==
    LET d == [c EXCEPT !.counter_ = After(@)]
    IN  IF d.counter_.onceDestroyed_ = "fulfilled" /\ d.info # "none"
        THEN FulfillClosed(d, KindOf(d.info)) ELSE d

\* dataToSocketQueue hands what is queued to its handler, if it has one: the
\* handler writes, and the queue does not wait for it.
Flush(c) ==
    IF ~ c.handling THEN c
    ELSE [c EXCEPT !.counter_.counter_ = @ + c.dataToSocketQueue,
                   !.calls["write"] = @ + c.dataToSocketQueue,
                   !.dataToSocketQueue = 0]

\* onceConnected fulfills: note CONNECTED, and write what is queued.
Connected(c) ==
    Flush([c EXCEPT !.opening = "none",
                    !.onceConnected = "fulfilled",
                    !.state_ = IF @ = "CONNECTING" THEN "CONNECTED" ELSE @,
                    !.handling = TRUE])

Rejected(c) ==
    FulfillClosed([c EXCEPT !.opening = "none", !.onceConnected = "rejected"],
                  "NEVER_CONNECTED")

-----------------------------------------------------------------------------
(* The constructor; its call is already counted. *)

NewConnection(kind, paused) ==
    [kind |-> kind,
     startPaused_ |-> paused,
     state_ |-> IF kind = "existing" THEN "CONNECTED" ELSE "CONNECTING",
     opening |-> IF kind = "existing" THEN "getInfo" ELSE "connect",
     onceConnected |-> "pending",
     onceClosed |-> "pending",
     info |-> "none",
     counter_ |-> Before(NewCounter),
     calls |-> [call \in Calls |-> 0],
     handling |-> FALSE,
     dataToSocketQueue |-> 0]

Init ==
    \E kind \in Kinds, paused \in BOOLEAN :
        /\ conn = NewConnection(kind, paused)
        /\ socket = [up |-> kind = "existing", closing |-> FALSE,
                     events |-> [e \in ErrCode |-> 0]]
        /\ requests = 0

\* connect() fulfills: pause at once, then ask for the addresses.
ConnectFulfills ==
    /\ conn.opening = "connect"
    /\ conn' = [Wrap(conn, "pause") EXCEPT !.opening = "getInfo"]
    /\ socket' = [socket EXCEPT !.up = TRUE]
    /\ UNCHANGED requests

\* getInfo() fulfills: a new connection resumes unless it starts paused.
InfoFulfills ==
    /\ conn.opening = "getInfo"
    /\ LET resumed == IF conn.kind = "endpoint" /\ ~ conn.startPaused_
                      THEN Wrap(conn, "resume") ELSE conn
       IN  conn' = Connected(AfterCall(resumed))
    /\ UNCHANGED <<socket, requests>>

\* connect() or getInfo() rejects; a failed connect may also be reported as a
\* disconnection.
OpeningRejects ==
    /\ conn.opening # "none"
    /\ conn' = Rejected(AfterCall(conn))
    /\ \/ UNCHANGED socket
       \/ /\ conn.opening = "connect"
          /\ socket' = [socket EXCEPT !.events["OTHER"] = @ + 1]
    /\ UNCHANGED requests

\* Any other call of the socket settles.
CallSettles(call) ==
    /\ conn.calls[call] > 0
    /\ conn' = AfterCall([conn EXCEPT !.calls[call] = @ - 1])
    /\ UNCHANGED <<socket, requests>>

\* Mistake: no test for the closed state.
OnDisconnectAgain(errcode) ==
    /\ socket.events[errcode] > 0
    /\ socket' = [socket EXCEPT !.events[errcode] = @ - 1]
    /\ conn' = AfterCall([conn EXCEPT !.state_ = "CLOSED",
                                      !.info = errcode,
                                      !.handling = FALSE,
                                      !.dataToSocketQueue = 0])
    /\ UNCHANGED requests

\* Mistake: onceClosed does not wait for the socket to be destroyed.
OnDisconnectAtOnce(errcode) ==
    /\ socket.events[errcode] > 0
    /\ socket' = [socket EXCEPT !.events[errcode] = @ - 1]
    /\ conn' = IF conn.state_ = "CLOSED" THEN conn
               ELSE FulfillClosed(
                        AfterCall([conn EXCEPT !.state_ = "CLOSED",
                                               !.info = errcode,
                                               !.handling = FALSE,
                                               !.dataToSocketQueue = 0]),
                        KindOf(errcode))
    /\ UNCHANGED requests

\* Mistake: the counter is not discarded.
OnDisconnectKept(errcode) ==
    /\ socket.events[errcode] > 0
    /\ socket' = [socket EXCEPT !.events[errcode] = @ - 1]
    /\ conn' = [conn EXCEPT !.state_ = "CLOSED",
                            !.info = errcode,
                            !.handling = FALSE,
                            !.dataToSocketQueue = 0]
    /\ UNCHANGED requests

\* The onDisconnect handler.
OnDisconnect(errcode) ==
    /\ socket.events[errcode] > 0
    /\ socket' = [socket EXCEPT !.events[errcode] = @ - 1]
    /\ conn' = IF conn.state_ = "CLOSED" THEN conn
               ELSE AfterCall([conn EXCEPT !.state_ = "CLOSED",
                                           !.info = errcode,
                                           !.handling = FALSE,
                                           !.dataToSocketQueue = 0])
    /\ UNCHANGED requests

-----------------------------------------------------------------------------
(* The user. *)

Request ==
    /\ requests < MaxRequests
    /\ requests' = requests + 1

\* send(): the buffer is queued, and written if there is a handler.
Send ==
    /\ Request
    /\ conn' = Flush([conn EXCEPT !.dataToSocketQueue = @ + 1])
    /\ UNCHANGED socket

\* pause() and resume() look at nothing.
PauseOrResume(call) ==
    /\ Request
    /\ conn' = Wrap(conn, call)
    /\ UNCHANGED socket

\* close(): nothing but onceClosed to wait for when already closed.
Close ==
    /\ Request
    /\ conn.state_ # "CLOSED"
    /\ conn' = Wrap(conn, "close")
    /\ socket' = [socket EXCEPT !.closing = TRUE]

-----------------------------------------------------------------------------
(* External: a socket that is up goes down, because close() was called or   *)
(* for its own reasons, and reports it once or more.                        *)

SocketDown(errcode) ==
    /\ socket.up
    /\ errcode = "SUCCESS" => socket.closing
    /\ \E n \in 1 .. MaxEvents :
          socket' = [socket EXCEPT !.up = FALSE, !.events[errcode] = @ + n]
    /\ UNCHANGED <<conn, requests>>

Next ==
    \/ ConnectFulfills
    \/ InfoFulfills
    \/ OpeningRejects
    \/ \E call \in Calls : CallSettles(call)
    \/ \E errcode \in ErrCode : OnDisconnect(errcode) \/ SocketDown(errcode)
    \/ Send
    \/ \E call \in {"pause", "resume"} : PauseOrResume(call)
    \/ Close

Spec == Init /\ [][Next]_vars

\* Calls settle, events are handled, and a socket told to close goes down;
\* the user need not do anything.
Fairness ==
    /\ WF_vars(ConnectFulfills \/ InfoFulfills \/ OpeningRejects)
    /\ \A call \in Calls : WF_vars(CallSettles(call))
    /\ \A errcode \in ErrCode : WF_vars(OnDisconnect(errcode))
    /\ WF_vars(SocketDown("SUCCESS"))

FairSpec == Spec /\ Fairness
-----------------------------------------------------------------------------
(* Properties *)

TypeOK ==
    /\ conn \in Connection
    /\ socket \in Socket
    /\ requests \in 0 .. MaxRequests

\* Calls on the socket that have not settled.
Outstanding(c) ==
    c.calls["pause"] + c.calls["resume"] + c.calls["close"] + c.calls["write"]
    + (IF c.opening = "none" THEN 0 ELSE 1)

\* The counter is right, even past the end: one for each call outstanding, and
\* one less for the disconnection, which is discarded once however often it is
\* reported and whatever failed before it.
CounterExact ==
    conn.counter_.counter_ =
        Outstanding(conn) - (IF conn.state_ = "CLOSED" THEN 1 ELSE 0)

\* The socket object is destroyed only after the disconnection, and when
\* every call made before that has settled: what may be outstanding after such
\* a step are the writes of buffers that waited for a handler.
DestroyedIdle ==
    [][conn'.counter_.destructions # conn.counter_.destructions =>
          /\ conn'.state_ = "CLOSED"
          /\ Outstanding(conn') = conn'.calls["write"]
          /\ conn'.calls["write"] <= conn.dataToSocketQueue]_vars

\* A disconnection is reported to the users of onceClosed by its own reason,
\* unless the connection was never made, and when the socket is gone.
ClosedTells ==
    conn.onceClosed \notin {"pending", "NEVER_CONNECTED"} =>
        /\ conn.state_ = "CLOSED"
        /\ conn.onceClosed = KindOf(conn.info)
        /\ conn.counter_.destructions > 0

\* Every disconnection, and every close(), is reported once the socket's calls
\* have settled (tcp.ts:395-396, "Fulfills onceClosed", and tcp.ts:441-442).
ClosedSettles ==
    conn.state_ = "CLOSED" \/ socket.closing ~> conn.onceClosed # "pending"
=============================================================================
