--------------------------------- MODULE Churn ---------------------------------
(***************************************************************************)
(* Two churn connections that set up an obfuscated path (src/churn/        *)
(* churn.ts).  Each end has a short-lived probe connection, which finds    *)
(* the end's public endpoint, an obfuscated connection, which is WebRTC    *)
(* with the peer's endpoint replaced by that of a local mirror socket, and *)
(* a churn pipe between that socket and the network.  The ends send each   *)
(* other signals, in order.                                                *)
(*                                                                         *)
(* WebRTC itself is external: it offers or answers, finds candidates and   *)
(* sends datagrams when it may.  Its connection states, closing, and the   *)
(* end-of-candidates signal, which the peer ignores, are left out.         *)
(***************************************************************************)
EXTENDS ChurnPipe, Sequences, SequencesExt, FiniteSets

CONSTANTS
    ProbeLines,   \* kinds of candidate that probes may find
    MaxProbe,     \* bound: candidates of a probe
    Lines,        \* kinds of candidate of an obfuscated connection
    MaxLines,     \* bound: candidates of each obfuscated connection
    BindResults,  \* what bind of a socket may come to
    Remapped      \* ends whose NAT may use a port the probe did not see

Sides == {"caller", "callee"}
Peer(s) == IF s = "caller" THEN "callee" ELSE "caller"

\* An address of an end: of its WebRTC, as the network sees it, ...
At(s, where) == <<s, where>>
Places == {"webrtc", "public", "srflx", "base", "private", "remapped"}

ASSUME ChurnAssumption ==
    /\ Endpoints = Sides \X Places
    /\ None \notin Endpoints
    /\ ProbeLines \subseteq {"public", "srflx", "private", "skipped", "malformed"}
    /\ Lines \subseteq {"host", "ipv6", "other"}
    /\ BindResults \subseteq {"bound", "code", "rejected"}
    /\ MaxProbe \in Nat /\ MaxLines \in [Sides -> Nat] /\ Remapped \subseteq Sides

VARIABLES
    end,      \* end[s]: the churn connection of s
    pipe,     \* pipe[s]: its churn pipe
    signals,  \* signals[s]: signals on their way to s
    wire,     \* datagrams between the public sockets
    heard,    \* heard[s]: endpoints from whose mirror WebRTC of s has heard
    found     \* history: the candidates of the obfuscated connection of s

vars == <<end, pipe, signals, wire, heard, found>>

\* nat: what probing came to; the other promises by the endpoint they hold.
\* deferred: candidates that wait for the forwarding socket; given: the
\* candidates that local WebRTC has; described: what it knows of the session.
NewEnd ==
    [probeCandidates_ |-> <<>>, probing |-> "gathering", nat |-> None,
     webRtcEndpoint |-> None, remoteEndpoint |-> None, forwarding |-> FALSE,
     deferred |-> <<>>, given |-> <<>>, described |-> {}]

\* A candidate line: its kind and the endpoint in it.  None is 0.0.0.0:0.
Line(kind, endpoint) == [kind |-> kind, endpoint |-> endpoint]

NoLine == Line("other", None)
Signal(type, line, endpoint, sdp) ==
    [type |-> type, line |-> line, endpoint |-> endpoint, sdp |-> sdp]

Init ==
    /\ end = [s \in Sides |-> NewEnd]
    /\ pipe = [s \in Sides |-> NewPipe]
    /\ signals = [s \in Sides |-> <<>>]
    /\ wire = {}
    /\ heard = [s \in Sides |-> {}]
    /\ found = [s \in Sides |-> <<>>]

-----------------------------------------------------------------------------
(* Candidates *)

\* filterCandidatesFromSdp: a description, as the endpoints its candidates name.
FilterCandidatesFromSdp(sdp) == {}

\* SelectSeq of module Sequences, as a recursive function.
Select(s, Test(_)) ==
    LET pick[n \in 0 .. Len(s)] ==
            IF n = 0 THEN <<>>
            ELSE IF Test(s[n]) THEN Append(pick[n - 1], s[n]) ELSE pick[n - 1]
    IN  pick[Len(s)]

\* splitHostCandidateLine_, in both of its users, throws for another type.
IsHost(line) == line.kind # "other"

SetEndpoint(line, endpoint) == [line EXCEPT !.endpoint = endpoint]

\* selectPublicAddress: a public host, or what STUN saw, or a private host; it
\* throws when there is none, or any line it cannot parse.
SelectPublicAddress(s, candidates) ==
    LET has(kind) == kind \in ToSet(candidates)
        pair(inner, outer) == [internal |-> At(s, inner), external |-> At(s, outer)]
    IN  IF has("malformed") THEN None
        ELSE IF has("public") THEN pair("public", "public")
        ELSE IF has("srflx") THEN pair("base", "srflx")
        ELSE IF has("private") THEN pair("private", "private")
        ELSE None

-----------------------------------------------------------------------------
(* One end *)

\* Mistake: the pipe does not wait for the probe.
BecomeUnprobed(s, e) ==
    /\ end' = [end EXCEPT ![s] = e]
    /\ pipe' = IF /\ pipe[s].publicSocket_ = "none"
                  /\ e.webRtcEndpoint # None /\ e.remoteEndpoint # None
               THEN [pipe EXCEPT ![s] = Configure(At(s, "webrtc"), e.webRtcEndpoint,
                                                  e.remoteEndpoint)]
               ELSE pipe

\* Mistake: only the WebRTC endpoint looks for the two others when it comes.
BecomeInTurn(s, e) ==
    /\ end' = [end EXCEPT ![s] = e]
    /\ pipe' = IF /\ pipe[s].publicSocket_ = "none"
                  /\ end[s].webRtcEndpoint = None
                  /\ e.webRtcEndpoint # None /\ e.remoteEndpoint # None /\ e.nat # None
               THEN [pipe EXCEPT ![s] = Configure(e.nat.internal, e.webRtcEndpoint,
                                                  e.remoteEndpoint)]
               ELSE pipe

\* Promise.all: whichever of the three endpoints comes last configures the pipe.
Become(s, e) ==
    /\ end' = [end EXCEPT ![s] = e]
    /\ pipe' = IF /\ pipe[s].publicSocket_ = "none"
                  /\ e.webRtcEndpoint # None /\ e.remoteEndpoint # None /\ e.nat # None
               THEN [pipe EXCEPT ![s] = Configure(e.nat.internal, e.webRtcEndpoint,
                                                  e.remoteEndpoint)]
               ELSE pipe

SignalPeer(s, signal) == signals' = [signals EXCEPT ![Peer(s)] = Append(@, signal)]

ProbeCandidate(s, kind) ==
    /\ end[s].probing = "gathering"
    /\ Len(end[s].probeCandidates_) < MaxProbe
    /\ end' = [end EXCEPT ![s].probeCandidates_ = Append(@, kind)]
    /\ UNCHANGED <<pipe, signals, wire, heard, found>>

\* NO_MORE_CANDIDATES: the probe is closed, to free its port.
ProbeEnds(s) ==
    /\ end[s].probing = "gathering"
    /\ end' = [end EXCEPT ![s].probing = "closing"]
    /\ UNCHANGED <<pipe, signals, wire, heard, found>>

\* probeConnection_.close().then: when no address can be selected the callback
\* throws and probing never completes.
ProbeClosed(s) ==
    LET nat == SelectPublicAddress(s, end[s].probeCandidates_) IN
    /\ end[s].probing = "closing"
    /\ Become(s, [end[s] EXCEPT !.probing = IF nat = None THEN "failed" ELSE "complete",
                                !.nat = nat])
    /\ IF nat = None THEN UNCHANGED signals
       ELSE SignalPeer(s, Signal("PUBLIC_ENDPOINT", NoLine, nat.external, {}))
    /\ UNCHANGED <<wire, heard, found>>

\* WebRTC offers, or answers an offer.  Candidates may be in the description.
Describes(s) ==
    LET type == IF s = "caller" THEN "OFFER" ELSE "ANSWER" IN
    /\ type \notin end[s].described
    /\ s = "callee" => "OFFER" \in end[s].described
    /\ end' = [end EXCEPT ![s].described = @ \cup {type}]
    /\ SignalPeer(s, Signal(type, NoLine, None,
                            FilterCandidatesFromSdp({At(s, "webrtc")})))
    /\ UNCHANGED <<pipe, wire, heard, found>>

\* What the peer is told of a candidate: only a host line that is not IPv6 is
\* rewritten; when that is impossible the line goes out as it is.
Obfuscate(line) == IF line.kind = "host" THEN SetEndpoint(line, None) ELSE line

\* WebRTC finds a candidate.
FindsCandidate(s, kind) ==
    LET line == Line(kind, At(s, "webrtc")) IN
    /\ end[s].described \cap {IF s = "caller" THEN "OFFER" ELSE "ANSWER"} # {}
    /\ Len(found[s]) < MaxLines[s]
    /\ found' = [found EXCEPT ![s] = Append(@, kind)]
    /\ Become(s, IF kind = "host" /\ end[s].webRtcEndpoint = None
                 THEN [end[s] EXCEPT !.webRtcEndpoint = line.endpoint] ELSE end[s])
    /\ SignalPeer(s, Signal("CANDIDATE", Obfuscate(line), None, {}))
    /\ UNCHANGED <<wire, heard>>

\* Candidates for WebRTC, with the forwarding socket's endpoint, that of the
\* mirror socket of the peer; setCandidateLineEndpoint throws for the others.
Give(e, lines, at) ==
    LET hosts == Select(lines, IsHost)
    IN  [e EXCEPT !.given = @ \o
            [i \in DOMAIN hosts |-> SetEndpoint(hosts[i], at)]]

\* Mistake: candidates are handled as they come.
HandleCandidateAtOnce(e, line) == Give(e, <<line>>, line.endpoint)

\* A candidate waits for the forwarding socket.
HandleCandidate(e, line) ==
    IF e.forwarding THEN Give(e, <<line>>, e.remoteEndpoint)
    ELSE [e EXCEPT !.deferred = Append(@, line)]

\* handleSignalMessage: the first public endpoint counts.
HandleSignal(s) ==
    /\ signals[s] # <<>>
    /\ signals' = [signals EXCEPT ![s] = Tail(@)]
    /\ LET m == Head(signals[s])
           e == end[s]
       IN  \/ /\ m.type = "PUBLIC_ENDPOINT"
              /\ Become(s, IF e.remoteEndpoint # None THEN e
                           ELSE [e EXCEPT !.remoteEndpoint = m.endpoint])
           \/ /\ m.type = "CANDIDATE"
              /\ Become(s, HandleCandidate(e, m.line))
           \/ /\ m.type \in {"OFFER", "ANSWER"}
              /\ Become(s, [e EXCEPT !.described = @ \cup {m.type}])
    /\ UNCHANGED <<wire, heard, found>>

-----------------------------------------------------------------------------
(* Its pipe *)

LocalBindSettles(s, result) ==
    /\ pipe[s].publicSocket_ = "binding"
    /\ pipe' = [pipe EXCEPT ![s] = LocalBound(@, result)]
    /\ UNCHANGED <<end, signals, wire, heard, found>>

TimerFires(s) ==
    /\ pipe[s].publicSocket_ = "waiting"
    /\ pipe' = [pipe EXCEPT ![s] = RetryTimer(@)]
    /\ UNCHANGED <<end, signals, wire, heard, found>>

\* Mistake: what waited is handled last in, first out.
ForwardingBackwards(e) ==
    [Give(e, Reverse(e.deferred), e.remoteEndpoint)
        EXCEPT !.forwarding = TRUE, !.deferred = <<>>]

\* haveForwardingSocketEndpoint_: what waited is handled, in order.
Forwarding(e) ==
    [Give(e, e.deferred, e.remoteEndpoint)
        EXCEPT !.forwarding = TRUE, !.deferred = <<>>]

\* The bind of a mirror socket, for which a datagram may wait.
MirrorBindSettles(s, e, result) ==
    /\ pipe[s].mirrorSockets_[e] = "binding"
    /\ pipe' = [pipe EXCEPT ![s] = MirrorBound(@, e, result)]
    /\ heard' = IF result = "bound" /\ pipe[s].held[e]
                THEN [heard EXCEPT ![s] = @ \cup {e}] ELSE heard
    /\ UNCHANGED <<end, signals, wire, found>>

\* getInfo of the mirror socket of the peer: it gives the forwarding socket, or
\* bindRemote is rejected, which nobody handles.
InfoSettles(s, result) ==
    /\ end[s].remoteEndpoint # None
    /\ Asked(pipe[s], end[s].remoteEndpoint)
    /\ pipe' = [pipe EXCEPT ![s] = Informed(@, result)]
    /\ end' = IF result = "fulfilled" THEN [end EXCEPT ![s] = Forwarding(@)] ELSE end
    /\ UNCHANGED <<signals, wire, heard, found>>

\* Where datagrams of s come from: a NAT maps its address to the one the probe
\* saw, or to another.
Sources(s) ==
    IF end[s].nat = None THEN {}
    ELSE {end[s].nat.external} \cup
            (IF s \in Remapped /\ end[s].nat.external = At(s, "srflx")
             THEN {At(s, "remapped")} ELSE {})

\* WebRTC sends to a peer that it was given, or that it has heard from.
Targets(s) ==
    heard[s] \cup
        (IF {"OFFER", "ANSWER"} \subseteq end[s].described
         THEN {line.endpoint : line \in ToSet(end[s].given)} ELSE {})

SendsDatagram(s) ==
    \E to \in Targets(s), from \in Sources(s) :
        /\ Sends(pipe[s], to)
        /\ wire' = wire \cup
               {[from |-> from, to |-> to, obfuscated |-> Obfuscated(pipe[s])]}
        /\ UNCHANGED <<end, pipe, signals, heard, found>>

\* A datagram arrives at a socket that is bound, or it is lost.
Receives(s, p) ==
    /\ p \in wire
    /\ pipe[s].publicSocket_ = "bound"
    /\ p.to \in Sources(s)
    /\ wire' = wire \ {p}
    /\ pipe' = [pipe EXCEPT ![s] = Incoming(@, p.from)]
    /\ heard' = IF Reaches(pipe[s], p.from)
                THEN [heard EXCEPT ![s] = @ \cup {p.from}] ELSE heard
    /\ UNCHANGED <<end, signals, found>>

Lost(p) ==
    /\ p \in wire
    /\ wire' = wire \ {p}
    /\ UNCHANGED <<end, pipe, signals, heard, found>>

-----------------------------------------------------------------------------
Settles(s) ==
    \/ TimerFires(s)
    \/ \E result \in BindResults :
          \/ LocalBindSettles(s, result)
          \/ \E e \in Endpoints : MirrorBindSettles(s, e, result)
    \/ \E result \in {"fulfilled", "rejected"} : InfoSettles(s, result)

Next ==
    \/ \E s \in Sides :
          \/ ProbeEnds(s) \/ ProbeClosed(s) \/ Describes(s)
          \/ HandleSignal(s) \/ Settles(s)
          \/ \E kind \in ProbeLines : ProbeCandidate(s, kind)
          \/ \E kind \in Lines : FindsCandidate(s, kind)
          \/ SendsDatagram(s)
          \/ \E p \in wire : Receives(s, p)
    \/ \E p \in wire : Lost(p)

Spec == Init /\ [][Next]_vars

\* Closing the probe and binding settle, timers fire, signals are handled, and
\* WebRTC repeats its connectivity checks: a datagram that is sent again and
\* again arrives.  What WebRTC finds, and when, is its own affair.
FairSpec ==
    /\ Spec
    /\ \A s \in Sides :
          /\ WF_vars(ProbeClosed(s)) /\ WF_vars(HandleSignal(s)) /\ WF_vars(Settles(s))
          /\ WF_vars(SendsDatagram(s))
          /\ SF_vars(\E p \in wire : Receives(s, p))

-----------------------------------------------------------------------------
(* Properties *)

\* Whichever of its three endpoints comes last, a pipe is set up once, with its
\* own end's internal address and WebRTC endpoint, and with the address that
\* the other end's probe came to.
PipeMatches ==
    \A s \in Sides : pipe[s].publicSocket_ # "none" =>
        /\ end[s].nat # None /\ end[Peer(s)].nat # None
        /\ pipe[s].publicEndpoint = end[s].nat.internal
        /\ pipe[s].browserEndpoint_ = At(s, "webrtc")
        /\ pipe[s].mirrorSockets_[end[Peer(s)].nat.external] # "none"

\* Nothing bypasses the pipes: WebRTC is only given a mirror socket of its own
\* pipe, bound, that stands for its peer; no description names a candidate and
\* no IPv4 host candidate an address, while lines of other kinds go out as they
\* are (churn.ts:387-392); what is on the network is obfuscated.
NothingBypasses ==
    /\ \A s \in Sides : \A line \in ToSet(end[s].given) :
          /\ end[Peer(s)].nat # None /\ line.endpoint = end[Peer(s)].nat.external
          /\ pipe[s].mirrorSockets_[line.endpoint] = "bound"
    /\ \A s \in Sides : \A m \in ToSet(signals[s]) :
          m.sdp = {} /\ (m.line.kind = "host" => m.line.endpoint = None)
    /\ \A p \in wire : p.obfuscated

Kinds(lines) == [i \in DOMAIN lines |-> lines[i].kind]

\* Kinds of the candidates on their way to s, and of all that matter to it.
IsCandidate(m) == m.type = "CANDIDATE"
IsUsable(kind) == kind # "other"

InFlight(s) ==
    LET ms == Select(signals[s], IsCandidate)
    IN  [i \in DOMAIN ms |-> ms[i].line.kind]

Usable(kinds) == Select(kinds, IsUsable)

\* No candidate that WebRTC can use is lost, repeated or overtaken, whether it
\* came before the forwarding socket was bound or after.
CandidatesInOrder ==
    \A s \in Sides :
        Usable(found[Peer(s)]) =
            Kinds(end[s].given)
                \o Usable(Kinds(end[s].deferred) \o InFlight(s))

\* Both ends' probes found an address, and s knows its WebRTC endpoint.
Ready(s) ==
    end[s].nat # None /\ end[Peer(s)].nat # None /\ end[s].webRtcEndpoint # None

\* bindRemote came to nothing: the bind of the peer's mirror socket failed, or
\* getInfo was rejected after it.
BindRemoteFailed(s) ==
    \/ pipe[s].info = "rejected"
    \/ /\ end[s].remoteEndpoint # None
       /\ pipe[s].mirrorSockets_[end[s].remoteEndpoint] = "failed"

\* The ends do not wait for each other for ever: when probing came to something
\* at both ends, deferred candidates reach WebRTC unless bindRemote fails, for
\* which the code has no answer (churn.ts:341).
CandidatesGiven ==
    \A s \in Sides :
        Ready(s) /\ end[s].deferred # <<>>
            ~> end[s].deferred = <<>> \/ BindRemoteFailed(s)

\* WebRTC of s has what it needs to send, and sockets to send through.
Flows(s) ==
    /\ pipe[s].publicSocket_ = "bound" /\ end[s].given # <<>>
    /\ {"OFFER", "ANSWER"} \subseteq end[s].described

\* The socket that was to stand for an address of the peer could not be bound.
MirrorFailed(s) == \E e \in Sources(Peer(s)) : pipe[s].mirrorSockets_[e] = "failed"

\* Once both ends can send, each hears from the other, although datagrams that
\* come before a mirror socket is bound are lost.
TrafficFlows ==
    \A s \in Sides : Flows(s) /\ Flows(Peer(s)) ~> heard[s] # {} \/ MirrorFailed(s)

\* churn-pipe.ts:25-26, "Retry an async function with exponential backoff for up
\* to 2 seconds before failing.": after a bind that is rejected, the pipe gets
\* its socket or bindLocal fails.
BindRetried ==
    \A s \in Sides :
        pipe[s].publicSocket_ = "waiting" ~> pipe[s].publicSocket_ \in {"bound", "failed"}
================================================================================
