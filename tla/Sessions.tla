------------------------------ MODULE Sessions ------------------------------
(***************************************************************************)
(* The two sessions that carry one SOCKS client's connection over a pooled *)
(* data channel: SocksToRtc.Session (src/socks-to-rtc/socks-to-rtc.ts) at  *)
(* the "local" end, between the client's socket and the channel, and       *)
(* RtcToNet.Session (src/rtc-to-net/rtc-to-net.ts) at the "remote" end,    *)
(* between the channel and the server's socket.  Pool gives the channels;  *)
(* the sessions are its users.  Each lease of a channel has one session    *)
(* per end, named by the lease; but a session holds the PoolChannel, which *)
(* is the same object in every lease.                                      *)
(*                                                                         *)
(* A task of the event loop is one step, followed by one step for each of  *)
(* the promise callbacks it makes runnable (Microtask); no other task runs *)
(* before they are done.                                                   *)
(***************************************************************************)
EXTENDS Pool

CONSTANTS
    MaxData,   \* bound: data messages each socket delivers to its session
    Overflows  \* ends whose channels may go into overflow

ASSUME SessionsAssumption ==
    MaxData \in Nat /\ Overflows \subseteq Sides

Leases == 1 .. MaxLeases

\* The sessions are the users of the pool: they send, Pool's users do not.
NoUnread == [c \in Channels |-> 0]

VARIABLES
    session,   \* session[s][c][k]: of end s, for lease k of channel c
    first,     \* first[s][c][k]: what the first message to end s in lease k
               \* holds ("taken" when it was read); those after it are data
    overflow,  \* overflow[s][c]: isInOverflow() of the data channel, and the
               \* lease whose session set the overflow listener
    strayed,   \* history: sessions that used a channel in a lease of another
    late       \* history: channels on which a socket answered, or delivered
               \* data, when the lease of its session was over

poolVars == <<numChannels_, pool_, dc, chan, wire, accepted, missed>>
sessionVars == <<poolVars, session, first, overflow, strayed, late>>

\* REFUSED stands for NOT_ALLOWED and UNSUPPORTED_COMMAND, FAILURE also for the
\* replies that tell why a connection failed.
Reply == {"SUCCEEDED", "FAILURE", "REFUSED"}

SocksStep == {"auth", "request", "sending", "awaiting", "answering", "unanswered"}
RtcStep == {"endpoint", "connecting", "replying"}

\* step: how far onceReady is; stop: why onceStopping_ was fulfilled.
\* socket: the tcp.Connection, reduced to whether onceClosed is fulfilled.
\* reads: the lease whose dataFromPeerQueue has this session's handler.
\* listens: the lease whose onceClosed stops this session.
\* paused: the last of pause() and resume(), from the handshake on.
\* queued: data in dataFromSocketQueue, before the session is linked.
\* sent, got: data from the socket, and from the channel to the socket.
Session ==
    [step : {"none", "linked", "failed"} \cup SocksStep \cup RtcStep,
     stop : {"no", "failed", "socketClosed", "channelClosed"},
     socket : {"none", "connecting", "open", "gone"},
     reply : Reply \cup {"none"}, paused : {"no", "handshake", "overflow"},
     reads : Nat, listens : Nat, queued : Nat, sent : Nat, got : Nat]

NoSession ==
    [step |-> "none", stop |-> "no", socket |-> "none", reply |-> "none",
     paused |-> "no", reads |-> 0, listens |-> 0, queued |-> 0, sent |-> 0, got |-> 0]

SessionsInit ==
    /\ Init
    /\ session = [s \in Sides |-> [c \in Channels |-> [k \in Leases |-> NoSession]]]
    /\ first = [s \in Sides |-> [c \in Channels |-> [k \in Leases |-> "none"]]]
    /\ overflow = [s \in Sides |-> [c \in Channels |-> [high |-> FALSE, listener |-> 0]]]
    /\ strayed = {}
    /\ late = {}

-----------------------------------------------------------------------------
(* What sessions do to channels and to themselves *)

Become(s, c, k, me) == session' = [session EXCEPT ![s][c][k] = me]

\* A session k that uses the channel in its present lease.
Uses(s, c, k) ==
    strayed' = IF chan[s][c].lease = k THEN strayed
               ELSE strayed \cup {<<s, c, k>>}

\* A socket makes session k go on with the channel, whoever has it by now.
GoesOn(s, c, k) ==
    late' = IF chan[s][c].lease = k THEN late ELSE late \cup {c}

\* send() on an OPEN channel; on any other it is rejected, with no effect.
Say(s, c, k, what) ==
    IF chan[s][c].state # "OPEN" THEN UNCHANGED <<poolVars, first, strayed>>
    ELSE /\ wire' = Post(wire, s, c, Msg("DATA", chan[s][c].lease))
         /\ first' = [first EXCEPT ![Peer(s)][c][chan[s][c].lease] =
                         IF @ = "none" THEN what ELSE @]
         /\ Uses(s, c, k)
         /\ UNCHANGED <<numChannels_, pool_, dc, chan, accepted, missed>>

\* setSyncHandler and setSyncNextHandler replace the handler of the channel's
\* present queue.
Reading(s, c, k, me) ==
    session' = [session EXCEPT ![s][c] =
        [j \in Leases |->
            IF j = k THEN [me EXCEPT !.reads = chan[s][c].lease]
            ELSE IF @[j].reads = chan[s][c].lease THEN [@[j] EXCEPT !.reads = 0]
            ELSE @[j]]]

\* A write to a connection that was closed is queued and never settles.
Answering(me, reply) ==
    [me EXCEPT !.reply = reply,
               !.step = IF me.socket = "open" THEN "answering" ELSE "unanswered"]

\* Mistake: any well-formed response counts as a success.
LinkedOrNotUnread(me) == [me EXCEPT !.step = "linked"]

\* The response was written: only SUCCEEDED makes the session ready.
LinkedOrNot(me) ==
    [me EXCEPT !.step = IF me.reply = "SUCCEEDED" THEN "linked" ELSE "failed"]

-----------------------------------------------------------------------------
(* Callbacks *)

\* A session starts when its channel opened: open() resolved for a client at
\* the local end, who may have left; peerOpenedChannelQueue at the remote one.
Start(s, c) ==
    LET k == chan[s][c].lease IN
    /\ chan[s][c].onceOpened = "settled"
    /\ k \in Leases
    /\ session[s][c][k].step = "none"
    /\ \/ /\ s = "local"
          /\ \E socket \in {"open", "gone"} :
                Become(s, c, k, [NoSession EXCEPT !.step = "auth",
                                                  !.socket = socket])
       \/ /\ s = "remote"
          /\ Reading(s, c, k, [NoSession EXCEPT !.step = "endpoint",
                                                !.listens = k])
    /\ UNCHANGED <<poolVars, first, strayed>>

\* receiveEndpointFromPeer_ and getTcpConnection_: anything but a CONNECT
\* request is refused, and so is an address that is not allowed.
Endpoint(me, what) ==
    {[me EXCEPT !.step = "replying", !.reply = "REFUSED"]} \cup
    IF what # "request" THEN {}
    ELSE {[me EXCEPT !.step = "connecting", !.socket = "connecting",
                     !.paused = "handshake"]}

\* Mistake: setSyncHandler for setSyncNextHandler, later messages are dropped.
TakenAll(s, c, me, what) ==
    CASE me.step = "awaiting" ->
           {[Answering(me, IF what \in Reply THEN what ELSE "FAILURE")
                EXCEPT !.reads = chan[s][c].lease]}
      [] me.step = "endpoint" ->
           {[e EXCEPT !.reads = 0] : e \in Endpoint(me, what)}
      [] OTHER ->
           {[me EXCEPT !.got = IF what = "data" /\ me.step = "linked"
                                  /\ me.socket = "open" THEN @ + 1 ELSE @]}

\* What a session may be after the next message of its queue: the response to
\* the client, the request, or data for the socket.
Taken(s, c, me, what) ==
    CASE me.step = "awaiting" ->
           {[Answering(me, IF what \in Reply THEN what ELSE "FAILURE")
                EXCEPT !.reads = 0]}
      [] me.step = "endpoint" ->
           {[e EXCEPT !.reads = 0] : e \in Endpoint(me, what)}
      [] OTHER ->
           {[me EXCEPT !.got = IF what = "data" /\ me.socket = "open"
                               THEN @ + 1 ELSE @]}

\* The session whose handler is set on the queue takes its oldest message.
Take(s, c, k) ==
    LET lease == Head(chan[s][c].dataFromPeerQueue)
        what  == IF first[s][c][lease] = "taken" THEN "data"
                 ELSE first[s][c][lease]
    IN  /\ session[s][c][k].reads = chan[s][c].lease
        /\ Handle(s, c)
        /\ \E me \in Taken(s, c, session[s][c][k], what) : Become(s, c, k, me)
        /\ first' = [first EXCEPT ![s][c][lease] = "taken"]
        /\ UNCHANGED strayed

\* replyToPeer_: then the session is linked if it has a connection, even when
\* the reply is FAILURE; else it fails.
SendReply(c, k) ==
    LET me == session["remote"][c][k] IN
    /\ me.step = "replying"
    /\ Say("remote", c, k, me.reply)
    /\ IF me.socket = "open"
       THEN Reading("remote", c, k, [me EXCEPT !.step = "linked"])
       ELSE Become("remote", c, k, [me EXCEPT !.step = "failed"])

\* linkSocketAndChannel_ empties dataFromSocketQueue before anything else.
Flush(s, c, k) ==
    /\ session[s][c][k].step = "linked"
    /\ session[s][c][k].queued > 0
    /\ Say(s, c, k, "data")
    /\ Become(s, c, k, [session[s][c][k] EXCEPT !.queued = @ - 1])

\* The sessions when a channel goes into overflow, or leaves it: the overflow
\* listener pauses and resumes the socket of the session that set it.
Signalled(sessions, s, c, high) ==
    LET k == overflow[s][c].listener IN
    IF k = 0 \/ sessions[s][c][k].socket = "gone" THEN sessions
    ELSE [sessions EXCEPT ![s][c][k].paused = IF high THEN "overflow" ELSE "no"]

\* isInOverflow() once what the handshake kept has been sent.
Levels(s, c) == {overflow[s][c].high} \cup {TRUE : end \in Overflows \cap {s}}

\* Mistake: the socket is resumed whatever the channel says.
LinkResuming(s, c, k) ==
    LET me == session[s][c][k] IN
    /\ me.step = "linked" /\ me.queued = 0 /\ me.paused = "handshake"
    /\ \E high \in Levels(s, c) :
          overflow' = [overflow EXCEPT ![s][c] = [high |-> high, listener |-> k]]
    /\ Become(s, c, k, [me EXCEPT !.paused = "no"])
    /\ UNCHANGED <<poolVars, first, strayed>>

\* The rest of linkSocketAndChannel_: what was sent before may have put the
\* channel into overflow; else the socket is resumed.
Link(s, c, k) ==
    LET me == session[s][c][k] IN
    /\ me.step = "linked" /\ me.queued = 0 /\ me.paused = "handshake"
    /\ \E high \in Levels(s, c) :
          /\ overflow' = [overflow EXCEPT ![s][c] = [high |-> high, listener |-> k]]
          /\ Become(s, c, k, [me EXCEPT !.paused = IF high THEN "overflow" ELSE "no"])
    /\ UNCHANGED <<poolVars, first, strayed>>

\* Mistake: the session does not listen to its channel.
DueDeaf(s, c, k) ==
    LET me == session[s][c][k] IN
    IF me.stop # "no" THEN {}
    ELSE IF me.step = "failed" THEN {"failed"}
    ELSE IF me.step = "linked" /\ me.socket = "gone" THEN {"socketClosed"}
    ELSE {}

\* Why a session is to stop: onceReady was rejected, the connection of a
\* linked session closed, or the channel did.
Due(s, c, k) ==
    LET me == session[s][c][k] IN
    { why \in {"failed", "socketClosed", "channelClosed"} :
        /\ me.stop = "no"
        /\ CASE why = "failed" -> me.step = "failed"
             [] why = "socketClosed" ->
                   me.step = "linked" /\ me.queued = 0 /\ me.socket = "gone"
             [] why = "channelClosed" ->
                   /\ me.listens # 0
                   /\ \/ me.listens < chan[s][c].lease
                      \/ chan[s][c].onceClosed = "settled" }

\* Mistake: only the connection is closed, the channel stays leased.
StopSocketOnly(s, c, k, why) ==
    /\ Become(s, c, k, [session[s][c][k] EXCEPT !.stop = why])
    /\ UNCHANGED <<poolVars, first, strayed>>

\* stopResources_: close the channel, whoever has it now, and the connection,
\* which is gone only later (SocketGone).
Stop(s, c, k, why) ==
    /\ Become(s, c, k, [session[s][c][k] EXCEPT !.stop = why])
    /\ IF chan[s][c].state = "OPEN"
       THEN Close(s, c) /\ Uses(s, c, k)
       ELSE UNCHANGED <<poolVars, strayed>>
    /\ UNCHANGED first

Microtask ==
    \E s \in Sides, c \in Channels :
       \/ \E k \in Leases : Link(s, c, k)
       \/ /\ \/ Start(s, c)
             \/ \E k \in Leases :
                   \/ Take(s, c, k)
                   \/ Flush(s, c, k)
                   \/ SendReply(c, k)
                   \/ \E why \in Due(s, c, k) : Stop(s, c, k, why)
          /\ UNCHANGED overflow

\* No callback is waiting to run.
Quiet ==
    \A s \in Sides, c \in Channels :
       /\ chan[s][c].onceOpened = "settled" /\ chan[s][c].lease \in Leases
             => session[s][c][chan[s][c].lease].step # "none"
       /\ \A k \in Leases :
             /\ session[s][c][k].step # "replying"
             /\ session[s][c][k].step = "linked" =>
                   session[s][c][k].queued = 0 /\ session[s][c][k].paused # "handshake"
             /\ Due(s, c, k) = {}
             /\ session[s][c][k].reads = chan[s][c].lease
                   => chan[s][c].dataFromPeerQueue = <<>>
-----------------------------------------------------------------------------
(* Tasks *)

\* What the pool does by itself, and the clients for whom it opens a channel
\* (makeTcpToRtcSession_).
PoolTask ==
    /\ \/ OpenPooled
       \/ OpenNew
       \/ \E c \in Channels : OpenedLocal(c) \/ ArriveEarly(c) \/ OpenedRemote(c)
       \/ \E s \in Sides, c \in Channels : AckSettled(s, c) \/ Closed(s, c)
    /\ UNCHANGED <<session, first, strayed>>

\* A message arrives, when the sends that PromptSends speaks of have settled.
Arrives(s, c) ==
    /\ PromptSends => \A k \in Leases : session[s][c][k].step # "sending"
    /\ Deliver(s, c)
    /\ UNCHANGED <<session, first, strayed>>

\* doAuthHandshake_: the client's first message, which may be nonsense.
ReceiveAuth(c, k) ==
    LET me == session["local"][c][k] IN
    /\ me.step = "auth"
    /\ \E step \in {"request", "failed"} :
          Become("local", c, k, [me EXCEPT !.step = step])
    /\ UNCHANGED <<poolVars, first, strayed>>

\* doRequestHandshake_: the client's request goes to the peer; if it is
\* nonsense, or the channel is not open, the client is answered FAILURE.
ReceiveRequest(c, k) ==
    LET me == session["local"][c][k] IN
    /\ me.step = "request"
    /\ \/ /\ chan["local"][c].state = "OPEN"
          /\ Say("local", c, k, "request")
          /\ Become("local", c, k, [me EXCEPT !.step = "sending",
                                                !.paused = "handshake"])
       \/ /\ Become("local", c, k, Answering(me, "FAILURE"))
          /\ UNCHANGED <<poolVars, first, strayed>>

\* The send of the request settles: wait for the response.
RequestSent(c, k) ==
    LET me == session["local"][c][k] IN
    /\ me.step = "sending"
    /\ \/ Reading("local", c, k, [me EXCEPT !.step = "awaiting"])
       \/ /\ Broken(c)
          /\ Become("local", c, k, Answering(me, "FAILURE"))
    /\ UNCHANGED <<poolVars, first, strayed>>

\* The response was written to the client, or could not be; if the session is
\* ready, linkSocketAndChannel_ and the wait for the channel to close.  By then
\* the peer may have closed the channel, and another client may have it.
Answered(c, k) ==
    LET me   == session["local"][c][k]
        next == LinkedOrNot(me)
        open == chan["local"][c].state = "OPEN"
    IN  /\ me.step = "answering"
        /\ \/ /\ next.step = "linked"
              /\ Reading("local", c, k,
                         [next EXCEPT !.listens = chan["local"][c].lease])
              /\ GoesOn("local", c, k)
           \/ /\ next.step = "failed" \/ me.socket = "gone"
              /\ Become("local", c, k, [me EXCEPT !.step = "failed"])
              /\ IF open THEN GoesOn("local", c, k) ELSE UNCHANGED late
        /\ UNCHANGED <<poolVars, first, strayed>>

\* Mistake: when the connection fails the peer is not told.
ConnectsSilent(c, k) ==
    LET me == session["remote"][c][k] IN
    /\ me.step = "connecting"
    /\ \E step \in {"replying", "failed"} :
          Become("remote", c, k,
                 [me EXCEPT !.step = step,
                            !.reply = IF step = "failed" THEN @ ELSE "SUCCEEDED",
                            !.socket = IF step = "failed" THEN "gone" ELSE "open"])
    /\ UNCHANGED <<poolVars, first, strayed>>

\* onceConnected, fulfilled with an address that is allowed or not
\* (getReplyFromInfo_), or rejected (getReplyFromError_).
Connects(c, k) ==
    LET me == session["remote"][c][k] IN
    /\ me.step = "connecting"
    /\ \E reply \in {"SUCCEEDED", "FAILURE"}, socket \in {"open", "gone"} :
          /\ reply = "SUCCEEDED" => socket = "open"
          /\ Become("remote", c, k, [me EXCEPT !.step = "replying",
                                               !.reply = reply,
                                               !.socket = socket])
    /\ UNCHANGED <<poolVars, first, strayed>>

\* The send of a reply other than SUCCEEDED settles: stop().
RefusalSent(c, k) ==
    LET me == session["remote"][c][k] IN
    /\ me.step = "linked"
    /\ me.reply # "SUCCEEDED"
    /\ me.stop = "no"
    /\ Stop("remote", c, k, "failed")

\* Data from the socket goes out on the channel of a linked session, even when
\* the session was stopped; where the channel is not open it is lost, with an
\* error in the log.  What comes after the request, before the pause of the
\* socket takes effect, waits.
SocketData(s, c, k) ==
    LET me   == session[s][c][k]
        open == chan[s][c].state = "OPEN"
    IN  /\ me.sent < MaxData
        /\ \/ /\ me.step = "linked"
              /\ me.socket = "open"
              /\ me.stop = "no" \/ open
              /\ Say(s, c, k, "data")
              /\ IF open THEN GoesOn(s, c, k) ELSE UNCHANGED late
              /\ LET fed == [session EXCEPT ![s][c][k].sent = @ + 1] IN
                 \/ session' = fed /\ UNCHANGED overflow
                 \/ /\ s \in Overflows /\ open
                    /\ session' = Signalled(fed, s, c, TRUE)
                    /\ overflow' = [overflow EXCEPT ![s][c].high = TRUE]
           \/ /\ me.step \in {"sending", "awaiting", "answering", "connecting"}
              /\ me.socket # "gone"
              /\ Become(s, c, k, [me EXCEPT !.sent = @ + 1, !.queued = @ + 1])
              /\ UNCHANGED <<poolVars, first, overflow, strayed, late>>

\* The data channel's buffer empties.
Drains(s, c) ==
    /\ overflow[s][c].high /\ ~ Broken(c)
    /\ overflow' = [overflow EXCEPT ![s][c].high = FALSE]
    /\ session' = Signalled(session, s, c, FALSE)
    /\ UNCHANGED <<poolVars, first, strayed>>

\* tcp.Connection.onceClosed: the far end left, or close() was called.
SocketGone(s, c, k) ==
    /\ session[s][c][k].socket = "open"
    /\ Become(s, c, k, [session[s][c][k] EXCEPT !.socket = "gone"])
    /\ UNCHANGED <<poolVars, first, strayed>>

Task ==
    \/ /\ \/ PoolTask
          \/ \E s \in Sides, c \in Channels :
                \/ Arrives(s, c)
                \/ \E k \in Leases : SocketGone(s, c, k)
          \/ \E c \in Channels, k \in Leases :
                \/ ReceiveAuth(c, k)
                \/ ReceiveRequest(c, k)
                \/ RequestSent(c, k)
                \/ Connects(c, k)
                \/ RefusalSent(c, k)
       /\ UNCHANGED <<overflow, late>>
    \/ \E c \in Channels, k \in Leases : Answered(c, k) /\ UNCHANGED overflow
    \/ \E s \in Sides, c \in Channels :
          \/ Drains(s, c) /\ UNCHANGED late
          \/ \E k \in Leases : SocketData(s, c, k)

SessionsNext == \/ Microtask /\ UNCHANGED late
                \/ Quiet /\ Task

SessionsSpec == SessionsInit /\ [][SessionsNext]_sessionVars

\* What happens without clients and servers: messages arrive; sends, writes and
\* connections settle; a socket that was told to close does; the end of a data
\* channel reaches both of its ends.
SystemTask ==
    \/ /\ \/ \E c \in Channels :
                /\ OpenedLocal(c) \/ OpenedRemote(c)
                /\ UNCHANGED <<session, first, strayed>>
          \/ \E s \in Sides, c \in Channels :
                \/ Arrives(s, c)
                \/ /\ AckSettled(s, c) \/ (Broken(c) /\ Closed(s, c))
                   /\ UNCHANGED <<session, first, strayed>>
                \/ \E k \in Leases : session[s][c][k].stop # "no" /\ SocketGone(s, c, k)
          \/ \E c \in Channels, k \in Leases :
                RequestSent(c, k) \/ Connects(c, k) \/ RefusalSent(c, k)
       /\ UNCHANGED <<overflow, late>>
    \/ \E c \in Channels, k \in Leases : Answered(c, k) /\ UNCHANGED overflow
    \/ \E s \in Sides, c \in Channels : Drains(s, c) /\ UNCHANGED late

\* The event loops run what is ready; clients and servers need do nothing.
SessionsFairness ==
    WF_sessionVars((Microtask /\ UNCHANGED late) \/ (Quiet /\ SystemTask))

SessionsFairSpec == SessionsSpec /\ SessionsFairness
-----------------------------------------------------------------------------
(* Properties *)

SessionsTypeOK ==
    /\ TypeOK
    /\ session \in [Sides -> [Channels -> [Leases -> Session]]]
    /\ first \in [Sides -> [Channels -> [Leases ->
                     {"none", "request", "data", "taken"} \cup Reply]]]
    /\ overflow \in [Sides -> [Channels -> [high : BOOLEAN, listener : 0 .. MaxLeases]]]
    /\ strayed \subseteq Sides \X Channels \X Leases
    /\ late \subseteq Channels

\* Channels on which no CLOSE was missed and no socket was late.
Sound == Intact \ late

\* A session sends on a channel, or closes it, in a lease of another only when
\* a CLOSE was missed there or its own socket, or another's on that channel,
\* was late: nothing else that sessions do gives a client the data of another,
\* or ends another's connection, and never on another channel.
StraysOnlyLate == \A c \in Sound : \A s \in Sides, k \in Leases : <<s, c, k>> \notin strayed

\* No session sends on a channel, or closes it, in a lease of another, as if
\* each had a data channel of its own: PoolChannel "provides behavior that is
\* intended to be indistinguishable to the caller" (pool.ts:161-162).
NoCrossTalk == strayed = {}

\* What the client is told is what the session at the other end of its own
\* lease decided, or FAILURE; and who was not told SUCCEEDED by it has sent
\* nothing to the server.
RepliesAgree ==
    \A c \in Sound, k \in Leases :
        LET socks == session["local"][c][k]
            rtc   == session["remote"][c][k]
        IN  /\ socks.reply \in {"none", "FAILURE", rtc.reply}
            /\ rtc.reply # "SUCCEEDED" => rtc.got = 0 /\ socks.step # "linked"

\* Data is not lost at the end: when a session learns from its channel that
\* the peer is through, it has handed its socket all that the peer's socket
\* had delivered (socks-to-rtc.ts:493-497, "This should be safe now").
NothingLost ==
    \A s \in Sides, c \in Sound, k \in Leases :
        /\ session[s][c][k].stop = "channelClosed"
        /\ session["local"][c][k].step = "linked"
        /\ ~ Broken(c)
        => session[s][c][k].got = session[Peer(s)][c][k].sent

\* A linked session takes data from its socket exactly while its channel is not
\* in overflow, however early the overflow came: no socket stays paused, as "the
\* socket will eventually be resumed by the overflow listener"
\* (socks-to-rtc.ts:525-528), and no channel's buffer grows without bound.
PausedInOverflow ==
    \A s \in Sides, c \in Sound, k \in Leases :
        LET me == session[s][c][k] IN
        Quiet /\ me.step = "linked" /\ me.socket = "open" /\ me.stop = "no" =>
            /\ me.paused = "overflow" <=> overflow[s][c].high
            /\ me.paused # "handshake"

\* A request that was sent is answered, unless the data channel closes, a CLOSE
\* was missed, or a socket was late.
RequestAnswered ==
    \A c \in Channels, k \in Leases :
        LET me == session["local"][c][k]
        IN  me.step \in {"sending", "awaiting"}
            ~> me.reply # "none" \/ Broken(c) \/ c \notin Sound

\* When either end of a linked connection goes, both sessions stop, both
\* sockets close, and the channel is free for another client.
LinkedEnds ==
    \A c \in Channels, k \in Leases :
        LET over == \E s \in Sides : session[s][c][k].socket = "gone"
        IN  session["local"][c][k].step = "linked" /\ (over \/ Broken(c))
            ~> \/ c \notin Sound
               \/ /\ \A s \in Sides : session[s][c][k].socket # "open"
                  /\ \A s \in Sides : session[s][c][k].stop # "no"
                  /\ chan["local"][c].lease > k \/ Broken(c)

\* socks-to-rtc.ts:278-284: onceStopped "Fulfills once the SOCKS session has
\* terminated [...] in response to: [...] TCP connection or datachannel
\* termination".
ClientGoneStops ==
    \A c \in Channels, k \in Leases :
        LET me == session["local"][c][k]
        IN  me.socket = "gone" ~> me.stop # "no"
=============================================================================
