------------------------------- MODULE Proxy --------------------------------
(***************************************************************************)
(* The life of the proxy as a whole: SocksToRtc at the local end, which    *)
(* owns a TCP server (TcpServer) and a peer connection, and RtcToNet at    *)
(* the remote end, which owns a peer connection                            *)
(* (src/socks-to-rtc/socks-to-rtc.ts, src/rtc-to-net/rtc-to-net.ts).       *)
(* Their sessions are those of Sessions.                                   *)
(*                                                                         *)
(* The callbacks of promises are steps of their own, which precede every   *)
(* other task (Quiet).                                                     *)
(***************************************************************************)
EXTENDS TcpServer

VARIABLES
    proxy,   \* proxy[e]: the SocksToRtc or RtcToNet object at end e
    peer     \* peer[e]: its peer connection

proxyVars == <<proxy, peer>>

Ends == {"local", "remote"}

Promised == {"pending", "fulfilled", "rejected"}

\* stopping: fulfillStopping_ was called; freed: stopResources_ was; told: the
\* promise that start() of SocksToRtc returned.
ProxyObject ==
    [started : BOOLEAN, stopping : BOOLEAN, freed : BOOLEAN, told : Promised]

PeerConnection ==
    [onceConnected : Promised, onceDisconnected : {"pending", "settled"},
     closed : BOOLEAN]

ProxyInit ==
    /\ Init
    /\ proxy = [e \in Ends |-> [started |-> FALSE, stopping |-> FALSE,
                                freed |-> FALSE, told |-> "pending"]]
    /\ peer = [e \in Ends |-> [onceConnected |-> "pending",
                               onceDisconnected |-> "pending", closed |-> FALSE]]

-----------------------------------------------------------------------------
(* Promises that are made of others. *)

\* onceReady: RtcToNet waits for its peer connection, SocksToRtc for its
\* server, too.
OnceReady(e) ==
    LET parts == {peer[e].onceConnected} \union
                    (IF e = "local" THEN {server.onceListening_} ELSE {})
    IN  CASE "rejected" \in parts -> "rejected"
          [] parts = {"fulfilled"} -> "fulfilled"
          [] OTHER -> "pending"

\* Mistake: nothing waits for the end of the peer connection.
StoppingWithServer(e) ==
    \/ proxy[e].stopping
    \/ /\ proxy[e].started
       /\ OnceReady(e) = "rejected" \/ (e = "local" /\ server.onceShutdown_ # "pending")

\* onceStopping_ is fulfilled: by stop(), or once started by a startup that
\* failed, by the end of the server, or by that of the peer connection.
Stopping(e) ==
    \/ proxy[e].stopping
    \/ /\ proxy[e].started
       /\ \/ OnceReady(e) = "rejected"
          \/ e = "local" /\ server.onceShutdown_ # "pending"
          \/ peer[e].onceDisconnected = "settled"

\* Mistake: it does not wait for the server.
StoppedAtOnce(e) == IF proxy[e].freed THEN "fulfilled" ELSE "pending"

\* onceStopped: stopResources_ of SocksToRtc waits for shutdown().
OnceStopped(e) ==
    IF ~ proxy[e].freed THEN "pending"
    ELSE IF e = "remote" THEN "fulfilled"
    ELSE IF server.shutdown \in {"fulfilled", "rejected"} THEN server.shutdown
    ELSE "pending"

-----------------------------------------------------------------------------
(* Callbacks. *)

\* The promise that start() of SocksToRtc returned: onceReady settles it, or
\* onceStopping_ rejects it, if that is first.  RtcToNet's is its onceReady.
MustTell(e) ==
    /\ e = "local" /\ proxy[e].started /\ proxy[e].told = "pending"
    /\ Stopping(e) \/ OnceReady(e) # "pending"

Tell(e) ==
    /\ MustTell(e)
    /\ proxy' = [proxy EXCEPT ![e].told =
                    IF Stopping(e) THEN "rejected" ELSE OnceReady(e)]
    /\ UNCHANGED <<vars, peer>>

MustFree(e) == proxy[e].started /\ Stopping(e) /\ ~ proxy[e].freed

\* stopResources_: the peer connection is closed, and the server shut down.
StopResources(e) ==
    /\ MustFree(e)
    /\ proxy' = [proxy EXCEPT ![e].freed = TRUE, ![e].stopping = TRUE]
    /\ peer' = [peer EXCEPT ![e].closed = TRUE]
    /\ IF e = "local" THEN Shutdown ELSE UNCHANGED vars

Callback == \E e \in Ends : Tell(e) \/ StopResources(e)

Quiet == \A e \in Ends : ~ (MustTell(e) \/ MustFree(e))

-----------------------------------------------------------------------------
(* Calls of the proxy's user. *)

\* start(), once: SocksToRtc with a server that nothing was done to.
Start(e) ==
    /\ ~ proxy[e].started
    /\ proxy' = [proxy EXCEPT ![e].started = TRUE]
    /\ IF e = "local" THEN Listen ELSE UNCHANGED vars
    /\ UNCHANGED peer

\* stop(): at any time, also before start(); later calls change nothing.
StopCalled(e) ==
    /\ ~ Stopping(e)
    /\ proxy' = [proxy EXCEPT ![e].stopping = TRUE]
    /\ UNCHANGED <<vars, peer>>

-----------------------------------------------------------------------------
(* External: the peer connection. *)

Connects(e) ==
    /\ \A o \in Ends : proxy[o].started /\ ~ peer[o].closed
    /\ peer[e].onceConnected = "pending"
    /\ peer' = [peer EXCEPT ![e].onceConnected = "fulfilled"]
    /\ UNCHANGED <<vars, proxy>>

ConnectFails(e) ==
    /\ proxy[e].started
    /\ peer[e].onceConnected = "pending"
    /\ peer' = [peer EXCEPT ![e].onceConnected = "rejected"]
    /\ UNCHANGED <<vars, proxy>>

Disconnected(e) ==
    /\ peer[e].onceConnected # "pending" \/ peer[e].closed
    /\ peer[e].onceDisconnected = "pending"
    /\ peer' = [peer EXCEPT ![e].onceDisconnected = "settled"]
    /\ UNCHANGED <<vars, proxy>>

\* A connection that either end closed ends at both.
WasClosed(e) ==
    /\ peer[e].onceConnected = "fulfilled"
    /\ \E o \in Ends : peer[o].closed

-----------------------------------------------------------------------------

\* Another owner uses its server in any way; bound: not one that has a proxy,
\* and not beside one.
OtherOwner ==
    /\ server.opening # "unused" \/ server.shutdown # "unused"
    /\ ~ proxy["local"].started

Unproxied == \A e \in Ends : ~ proxy[e].started /\ ~ proxy[e].stopping

Task ==
    \/ Unproxied /\ OwnerCalls /\ UNCHANGED proxyVars
    \/ (ServerTasks \/ SocketSteps) /\ UNCHANGED proxyVars
    \/ /\ ~ OtherOwner
       /\ \E e \in Ends :
             \/ Start(e) \/ StopCalled(e)
             \/ Connects(e) \/ ConnectFails(e) \/ Disconnected(e)

allVars == <<vars, proxyVars>>

ProxyNext == Callback \/ (Quiet /\ Task)

ProxySpec == ProxyInit /\ [][ProxyNext]_allVars

\* Callbacks run, calls settle, events are handled, a connection told to close
\* does (TcpConnection's ClosedSettles), and a closed peer connection ends;
\* nobody needs to call start() or stop(), or to connect.
SystemTask ==
    \/ /\ \/ ListenFulfills \/ InfoFulfills \/ ListenRejects \/ StopSettles
          \/ OnConnection \/ OnDisconnect \/ SocketCloses
          \/ \E id \in SocketIds : client[id] = "closing" /\ ConnectionClosed(id)
       /\ UNCHANGED proxyVars
    \/ \E e \in Ends : WasClosed(e) /\ Disconnected(e)

Fairness == WF_allVars(Callback \/ (Quiet /\ SystemTask))

FairSpec == ProxySpec /\ Fairness

-----------------------------------------------------------------------------
(* Properties *)

ProxyTypeOK ==
    /\ TypeOK
    /\ proxy \in [Ends -> ProxyObject]
    /\ peer \in [Ends -> PeerConnection]

\* stop() of the proxy "fulfills once both have terminated"
\* (socks-to-rtc.ts:194-196): then its server accepts nothing any more, no
\* client is left, the peer connection is closed, and whoever called start()
\* has been told.  The same of the clients holds when any owner's shutdown()
\* has fulfilled.
StoppedReleases ==
    /\ ShutdownClosesAll
    /\ OnceStopped("local") = "fulfilled" =>
          /\ ~ socket.up
          /\ peer["local"].closed
          /\ Quiet => proxy["local"].told # "pending"

\* Each end stops for good whenever it is told to, its startup fails, its server
\* or its peer connection ends: and so, when they were connected, does the
\* other end.
ProxyStops ==
    \A e \in Ends :
        proxy[e].started /\ (Stopping(e) \/ WasClosed(e))
            ~> OnceStopped(e) # "pending"
=============================================================================
