------------------------------- MODULE ChurnPipe -------------------------------
(***************************************************************************)
(* A churn pipe (src/churn-pipe/churn-pipe.ts): one public socket, which   *)
(* carries obfuscated datagrams, and one mirror socket on localhost for    *)
(* every remote endpoint, which stands for it towards the browser.  A pipe *)
(* is a record; each operation takes the pipe to the pipe it leaves.       *)
(* Datagrams carry no payload, only whether they are obfuscated.           *)
(***************************************************************************)
EXTENDS Naturals

CONSTANTS Endpoints, None

\* publicSocket_: "waiting" is between a bind that was rejected and the timer
\* that would try again; "stuck", when the timer has thrown.
\* mirrorSockets_[e]: "none" is not in the table; held[e]: a datagram came from
\* e before there was a socket, and waits for its bind.  info: what getInfo came
\* to, which bindRemote calls when its mirror socket is bound.
NewPipe ==
    [publicSocket_ |-> "none", publicEndpoint |-> None,
     mirrorSockets_ |-> [e \in Endpoints |-> "none"],
     held |-> [e \in Endpoints |-> FALSE], info |-> "none",
     transformer_ |-> "none", browserEndpoint_ |-> None]

\* The public socket can be made once; its bind is outstanding.
BindLocal(pipe, publicEndpoint) ==
    IF pipe.publicSocket_ # "none" THEN pipe
    ELSE [pipe EXCEPT !.publicSocket_ = "binding", !.publicEndpoint = publicEndpoint]

\* retry_ looks at rejections only; a result code is for bindLocal.
LocalBound(pipe, result) ==
    [pipe EXCEPT !.publicSocket_ =
        CASE result = "bound" -> "bound"
          [] result = "code" -> "failed"
          [] result = "rejected" -> "waiting"]

\* The timer of retry_ calls this.retry_, of a function that is nobody's
\* method: it throws, and the promise of bindLocal is never settled.
RetryTimer(pipe) == [pipe EXCEPT !.publicSocket_ = "stuck"]

\* getMirrorSocket_: made, bound and entered in the table on first use.  What
\* comes after gets the socket at once, bound or not.
GetMirrorSocket(pipe, e) ==
    [pipe EXCEPT !.mirrorSockets_[e] = IF @ = "none" THEN "binding" ELSE @]

\* A socket that failed stays in the table; what waited for it is lost.
MirrorBound(pipe, e, result) ==
    [pipe EXCEPT !.mirrorSockets_[e] = IF result = "bound" THEN "bound" ELSE "failed",
                 !.held[e] = FALSE]

\* bindRemote, for e: getInfo is called when the mirror socket is bound, and is
\* fulfilled with the socket's endpoint or rejected.
Asked(pipe, e) == pipe.mirrorSockets_[e] = "bound" /\ pipe.info = "none"

Informed(pipe, result) == [pipe EXCEPT !.info = result]

\* setTransformer, bindLocal, setBrowserEndpoint and bindRemote: the caller
\* sends all four at once, and the first bind settles after the last is handled.
Configure(publicEndpoint, browserEndpoint, remoteEndpoint) ==
    GetMirrorSocket(
        BindLocal([NewPipe EXCEPT !.transformer_ = "caesar",
                                  !.browserEndpoint_ = browserEndpoint],
                  publicEndpoint),
        remoteEndpoint)

\* onData of the mirror socket of e: it leaves through the public socket.
Sends(pipe, e) == pipe.mirrorSockets_[e] = "bound" /\ pipe.publicSocket_ = "bound"

Obfuscated(pipe) == pipe.transformer_ = "caesar"

\* Mistake: only endpoints that were signalled are listened to.
IncomingSignalled(pipe, e) == pipe

\* onIncomingData_, for a datagram from e: it is held for a socket that is new,
\* and sent at once through one that is in the table.
Incoming(pipe, e) ==
    [GetMirrorSocket(pipe, e) EXCEPT
        !.held[e] = @ \/ pipe.mirrorSockets_[e] = "none"]

\* The datagram gets through; from a socket that is not bound it is lost.
Reaches(pipe, e) == pipe.mirrorSockets_[e] = "bound"
================================================================================
