-------------------------------- MODULE Pool --------------------------------
(***************************************************************************)
(* The data channel pool of src/pool/pool.ts: virtual channels over long   *)
(* lived data channels.  The "local" end runs a LocalPool, which leases    *)
(* channels to its user; the "remote" end runs the RemotePool that serves  *)
(* the same data channels.  OPEN and CLOSE control messages travel in band *)
(* with the data, and a channel whose CLOSE was acknowledged is reset and  *)
(* leased again.  The pool the remote peer keeps for channels of its own   *)
(* is a second, disjoint copy (pool.ts:30-32).                             *)
(*                                                                         *)
(* An action is one task of a JavaScript event loop together with the      *)
(* promise callbacks it makes runnable: nothing runs between them.         *)
(***************************************************************************)
EXTENDS Integers, Sequences, SequencesExt

CONSTANTS
    MaxChannels,  \* bound: data channels the local end may create
    MaxLeases,    \* bound: leases per channel
    MaxUnread,    \* bound: on channel c, a user sends only while the peer has
                  \* fewer than MaxUnread[c] messages unread
    PromptSends,  \* the promise of a data channel's send settles before any
                  \* message the peer sends in answer is delivered
    MayBreak      \* a data channel may close underneath its wrappers

ASSUME PoolAssumption ==
    /\ MaxChannels \in Nat \ {0}
    /\ MaxLeases \in Nat
    /\ MaxUnread \in [0 .. MaxChannels - 1 -> Nat]
    /\ PromptSends \in BOOLEAN
    /\ MayBreak \in BOOLEAN

Sides == {"local", "remote"}
Peer(s) == IF s = "local" THEN "remote" ELSE "local"

Channels == 0 .. MaxChannels - 1          \* 'p' + numChannels_

VARIABLES
    numChannels_,   \* LocalPool: channels created so far
    pool_,          \* LocalPool: channels that wait to be leased again
    dc,             \* dc[s][c]: end s of data channel c
    chan,           \* chan[s][c]: the PoolChannel that wraps it
    wire,           \* wire[s][c]: messages on their way to end s
    accepted,       \* accepted[c]: times c was handed to the remote user
    missed          \* history: channels whose CLOSE came before the remote
                    \* wrapper had opened and so had no effect

vars == <<numChannels_, pool_, dc, chan, wire, accepted, missed>>

-----------------------------------------------------------------------------
(* PoolChannel *)

State == {"OPEN", "CLOSING", "CLOSED", "PERMANENTLY_CLOSED"}

\* A promise is "fulfilled" until its callbacks have run, "settled" after.
Promise == {"pending", "fulfilled", "settled"}

\* Messages and queued data carry the lease of their sender, which the code
\* does not: leases exist to state what belongs to whom.
Message == [type : {"OPEN", "DATA", "CLOSE"}, lease : Nat]

Msg(type, lease) == [type |-> type, lease |-> lease]

\* ack: the answer to a CLOSE waits for the queue to drain, then for its own
\* send to settle.
PoolChannel ==
    [state : State, onceOpened : Promise, onceClosed : Promise,
     dataFromPeerQueue : Seq(Nat), ack : {"none", "draining", "sending"},
     lease : Nat]

Fulfill(p) == IF p = "pending" THEN "fulfilled" ELSE p

\* reset() of a CLOSED channel: new promises, a new queue.
Reset(lease) ==
    [state |-> "CLOSED", onceOpened |-> "pending", onceClosed |-> "pending",
     dataFromPeerQueue |-> <<>>, ack |-> "none", lease |-> lease]

\* Mistake: State is confused with the enum of control messages.
OnControlMessageConfused(e, type) ==
    IF type = "OPEN" THEN [e EXCEPT !.onceOpened = Fulfill(@)]
    ELSE IF e.state = "OPEN" THEN [e EXCEPT !.state = type, !.ack = "draining"]
    ELSE [e EXCEPT !.onceClosed = Fulfill(@)]

\* Mistake: two CLOSEs that cross are taken for redundant ones.
OnControlMessageNoCrossing(e, type) ==
    IF type = "OPEN" THEN [e EXCEPT !.onceOpened = Fulfill(@)]
    ELSE IF e.state = "OPEN" THEN [e EXCEPT !.state = "CLOSING", !.ack = "draining"]
    ELSE e

OnControlMessage(e, type) ==
    IF type = "OPEN" THEN [e EXCEPT !.onceOpened = Fulfill(@)]
    ELSE CASE e.state = "OPEN" ->
                [e EXCEPT !.state = "CLOSING", !.ack = "draining"]
           [] e.state = "CLOSING" -> [e EXCEPT !.onceClosed = Fulfill(@)]
           [] OTHER -> e                        \* redundant close

OnDataFromPeer(e, m) ==
    IF m.type = "DATA"
    THEN [e EXCEPT !.dataFromPeerQueue = Append(@, m.lease)]
    ELSE OnControlMessage(e, m.type)

\* The callbacks of onceOpened, of lastDataFromPeerHandled_ (the ack of a
\* CLOSE) and of onceClosed, run to completion after the task's own code.
OpenedCallback(e) ==
    IF e.onceOpened # "fulfilled" THEN e
    ELSE [e EXCEPT !.onceOpened = "settled",
                   !.state = IF @ = "CLOSED" THEN "OPEN" ELSE @]

DrainedCallback(e) ==
    IF e.ack = "draining" /\ e.dataFromPeerQueue = <<>>
    THEN [e EXCEPT !.ack = "sending"]
    ELSE e

\* Mistake: reset() forgets to replace the queue.
ClosedCallbackOldQueue(e) ==
    IF e.onceClosed # "fulfilled" THEN e
    ELSE IF e.state = "PERMANENTLY_CLOSED"
         THEN [e EXCEPT !.onceClosed = "settled"]
         ELSE [Reset(e.lease + 1) EXCEPT
                  !.dataFromPeerQueue = e.dataFromPeerQueue]

\* Mistake: a permanently closed channel is reset like any other.
ClosedCallbackAlways(e) ==
    IF e.onceClosed # "fulfilled" THEN e ELSE Reset(e.lease + 1)

ClosedCallback(e) ==
    IF e.onceClosed # "fulfilled" THEN e
    ELSE IF e.state = "PERMANENTLY_CLOSED"
         THEN [e EXCEPT !.onceClosed = "settled"]
         ELSE Reset(e.lease + 1)

\* The channel after all callbacks that are ready.
Callbacks(e) == ClosedCallback(DrainedCallback(OpenedCallback(e)))

Broken(c) == \E s \in Sides : dc[s][c] = "closed"

\* What end s sends on c; a data channel that has closed carries nothing.
Post(w, s, c, m) ==
    IF Broken(c) THEN w ELSE [w EXCEPT ![Peer(s)][c] = Append(@, m)]

\* The end of a task that left channel c of end s as e, the wires as w and
\* the local pool as p: every callback runs, and a local channel that was
\* reset returns to the pool.
RunCallbacks(s, c, e, w, p) ==
    /\ chan' = [chan EXCEPT ![s][c] = Callbacks(e)]
    /\ wire' = IF DrainedCallback(e).ack # e.ack
               THEN Post(w, s, c, Msg("CLOSE", e.lease)) ELSE w
    /\ pool_' = IF s = "local" /\ Callbacks(e).lease # e.lease
                THEN Append(p, c) ELSE p
    /\ accepted' = IF s = "remote" /\ e.onceOpened = "fulfilled"
                   THEN [accepted EXCEPT ![c] = @ + 1] ELSE accepted
    /\ UNCHANGED missed

-----------------------------------------------------------------------------
(* LocalPool and RemotePool *)

Init ==
    /\ numChannels_ = 0
    /\ pool_ = <<>>
    /\ dc = [s \in Sides |-> [c \in Channels |-> "none"]]
    /\ chan = [s \in Sides |-> [c \in Channels |-> Reset(1)]]
    /\ wire = [s \in Sides |-> [c \in Channels |-> <<>>]]
    /\ accepted = [c \in Channels |-> 0]
    /\ missed = {}

\* open(): OPEN goes out and the channel counts as open at once.
Open(c, p) ==
    LET e == chan["local"][c]
    IN  IF e.state = "OPEN"                     \* rejected: already open
        THEN pool_' = p /\ UNCHANGED <<chan, wire, accepted, missed>>
        ELSE RunCallbacks("local", c,
                          [e EXCEPT !.onceOpened = Fulfill(@)],
                          Post(wire, "local", c, Msg("OPEN", e.lease)), p)

\* Mistake: the channel is read from the pool and stays there.
OpenPooledPeek ==
    /\ pool_ # <<>>
    /\ chan["local"][Head(pool_)].lease <= MaxLeases
    /\ Open(Head(pool_), pool_)
    /\ UNCHANGED <<numChannels_, dc>>

\* openDataChannel with a pooled channel: reuseOrCreate_ takes the oldest.
OpenPooled ==
    /\ pool_ # <<>>
    /\ chan["local"][Head(pool_)].lease <= MaxLeases
    /\ Open(Head(pool_), Tail(pool_))
    /\ UNCHANGED <<numChannels_, dc>>

\* openDataChannel with an empty pool: ask the peer connection for a channel.
OpenNew ==
    /\ pool_ = <<>>
    /\ numChannels_ < MaxChannels
    /\ numChannels_' = numChannels_ + 1
    /\ dc' = [s \in Sides |-> [dc[s] EXCEPT ![numChannels_] = "opening"]]
    /\ UNCHANGED <<pool_, chan, wire, accepted, missed>>

\* The new data channel opened at the local end: wrap it and open() it.
OpenedLocal(c) ==
    /\ dc["local"][c] = "opening"
    /\ dc' = [dc EXCEPT !["local"][c] = "open"]
    /\ Open(c, pool_)
    /\ UNCHANGED numChannels_

\* A message reaches the data channel before RemotePool has wrapped it.  The
\* wrapper's constructor will replay it, with the others, before any callback
\* runs; as nothing else can touch the wrapper first, the model applies it to
\* the future wrapper right away.  A CLOSE finds that wrapper CLOSED, is taken
\* for a redundant one and is lost.
ArriveEarly(c) ==
    LET m == Head(wire["remote"][c])
    IN  /\ dc["remote"][c] = "opening"
        /\ wire["remote"][c] # <<>>
        /\ chan' = [chan EXCEPT !["remote"][c] = OnDataFromPeer(@, m)]
        /\ wire' = [wire EXCEPT !["remote"][c] = Tail(@)]
        /\ missed' = IF m.type = "CLOSE" THEN missed \cup {c} ELSE missed
        /\ UNCHANGED <<numChannels_, pool_, dc, accepted>>

\* onNewChannel_: the wrapper is made, what arrived early has been replayed,
\* and its callbacks run.
OpenedRemote(c) ==
    /\ dc["remote"][c] = "opening"
    /\ dc' = [dc EXCEPT !["remote"][c] = "open"]
    /\ RunCallbacks("remote", c, chan["remote"][c], wire, pool_)
    /\ UNCHANGED numChannels_

-----------------------------------------------------------------------------
(* What the users of a channel and the data channel under it do. *)

\* send(): rejected, with no effect, unless the channel is OPEN.
Send(s, c) ==
    /\ chan[s][c].state = "OPEN"
    /\ Len(wire[Peer(s)][c]) + Len(chan[Peer(s)][c].dataFromPeerQueue)
          < MaxUnread[c]
    /\ wire' = Post(wire, s, c, Msg("DATA", chan[s][c].lease))
    /\ UNCHANGED <<numChannels_, pool_, dc, chan, accepted, missed>>

\* Mistake: close() is over when CLOSE is sent, whatever the peer does.
CloseAtOnce(s, c) ==
    /\ chan[s][c].state = "OPEN"
    /\ RunCallbacks(s, c, [chan[s][c] EXCEPT !.state = "CLOSING",
                                             !.onceClosed = Fulfill(@)],
                    Post(wire, s, c, Msg("CLOSE", chan[s][c].lease)), pool_)
    /\ UNCHANGED <<numChannels_, dc>>

\* close(): no effect unless the channel is OPEN.
Close(s, c) ==
    /\ chan[s][c].state = "OPEN"
    /\ chan' = [chan EXCEPT ![s][c].state = "CLOSING"]
    /\ wire' = Post(wire, s, c, Msg("CLOSE", chan[s][c].lease))
    /\ UNCHANGED <<numChannels_, pool_, dc, accepted, missed>>

\* Mistake: lastDataFromPeerHandled_ is not kept, the ack does not see this.
HandleUnseen(s, c) ==
    /\ chan[s][c].dataFromPeerQueue # <<>>
    /\ chan[s][c].onceOpened = "settled"
    /\ chan' = [chan EXCEPT ![s][c].dataFromPeerQueue = Tail(@)]
    /\ UNCHANGED <<numChannels_, pool_, dc, wire, accepted, missed>>

\* The user's handler takes the oldest item of dataFromPeerQueue; the last
\* one resolves lastDataFromPeerHandled_.
Handle(s, c) ==
    /\ chan[s][c].dataFromPeerQueue # <<>>
    /\ chan[s][c].onceOpened = "settled"
    /\ RunCallbacks(s, c, [chan[s][c] EXCEPT !.dataFromPeerQueue = Tail(@)],
                    wire, pool_)
    /\ UNCHANGED <<numChannels_, dc>>

\* A message is delivered to a wrapper.
Deliver(s, c) ==
    /\ dc[s][c] = "open"
    /\ wire[s][c] # <<>>
    /\ PromptSends => chan[s][c].ack # "sending"
    /\ RunCallbacks(s, c, OnDataFromPeer(chan[s][c], Head(wire[s][c])),
                    [wire EXCEPT ![s][c] = Tail(@)], pool_)
    /\ UNCHANGED <<numChannels_, dc>>

\* The send of the CLOSE that answers a CLOSE settles: .then(fulfillClosed_).
AckSettled(s, c) ==
    /\ chan[s][c].ack = "sending"
    /\ RunCallbacks(s, c, [chan[s][c] EXCEPT !.ack = "none",
                                             !.onceClosed = Fulfill(@)],
                    wire, pool_)
    /\ UNCHANGED <<numChannels_, dc>>

\* dc_.onceClosed: the data channel closed under the wrapper, for good.
Closed(s, c) ==
    /\ dc[s][c] = "open"
    /\ MayBreak \/ Broken(c)
    /\ dc' = [dc EXCEPT ![s][c] = "closed"]
    /\ RunCallbacks(s, c, [chan[s][c] EXCEPT !.state = "PERMANENTLY_CLOSED",
                                             !.onceClosed = Fulfill(@)],
                    [wire EXCEPT ![s][c] = <<>>], pool_)
    /\ UNCHANGED numChannels_

UserAction(s, c) == Send(s, c) \/ Close(s, c)

SystemAction(s, c) ==
    \/ Handle(s, c)
    \/ Deliver(s, c)
    \/ AckSettled(s, c)

Next ==
    \/ OpenPooled
    \/ OpenNew
    \/ \E c \in Channels : OpenedLocal(c) \/ ArriveEarly(c) \/ OpenedRemote(c)
    \/ \E s \in Sides, c \in Channels :
          UserAction(s, c) \/ SystemAction(s, c) \/ Closed(s, c)

Spec == Init /\ [][Next]_vars

\* Data channels open, messages arrive, sends settle and users read what they
\* are sent; users need not open, send or close anything.
Fairness ==
    \A c \in Channels :
        /\ WF_vars(OpenedLocal(c))
        /\ WF_vars(OpenedRemote(c))
        /\ \A s \in Sides :
              /\ WF_vars(Handle(s, c))
              /\ WF_vars(Deliver(s, c))
              /\ WF_vars(AckSettled(s, c))

FairSpec == Spec /\ Fairness
-----------------------------------------------------------------------------
(* Properties *)

TypeOK ==
    /\ numChannels_ \in 0 .. MaxChannels
    /\ pool_ \in Seq(Channels)
    /\ dc \in [Sides -> [Channels -> {"none", "opening", "open", "closed"}]]
    /\ chan \in [Sides -> [Channels -> PoolChannel]]
    /\ wire \in [Sides -> [Channels -> Seq(Message)]]
    /\ accepted \in [Channels -> Nat]
    /\ missed \subseteq Channels

\* What is promised of a channel is promised until a CLOSE is missed on it,
\* and whatever happens to the other channels.
Intact == Channels \ missed

\* No channel is in the pool twice, and none that waits there is still leased:
\* two users never share a channel (LocalPool.pool_ and onChannelClosed_).
PoolSound ==
    /\ IsInjective(pool_)
    /\ \A i \in 1 .. Len(pool_) :
          /\ dc["local"][pool_[i]] \in {"open", "closed"}
          /\ chan["local"][pool_[i]].state \notin {"OPEN", "CLOSING"}

\* What a user finds in its queue was sent to the lease the user holds, never
\* to an earlier or a later lease of the same data channel (reset's new queue
\* and the drain before the ack of a CLOSE).
LeaseIsolation ==
    \A s \in Sides, c \in Intact :
        \A i \in 1 .. Len(chan[s][c].dataFromPeerQueue) :
            chan[s][c].dataFromPeerQueue[i] = chan[s][c].lease

\* When an intact channel whose data channel still works is back in the pool,
\* the peer accepted its last lease exactly once and will send nothing more
\* for it: leasing it again is safe.
PooledMeansPeerDone ==
    \A i \in 1 .. Len(pool_) :
        LET c == pool_[i]
        IN  c \in Intact /\ ~ Broken(c) =>
               /\ wire["local"][c] = <<>>
               /\ chan["remote"][c].state # "OPEN"
               /\ accepted[c] = chan["local"][c].lease - 1

\* A CLOSE is lost in one way only, by coming before the remote wrapper: on an
\* intact channel, while one end waits for the other to close, a message is in
\* flight or an ack is on its way (onControlMessage_'s three cases).
NoOrphanedClose ==
    \A s \in Sides, c \in Intact :
        chan[s][c].state = "CLOSING" =>
            \/ Broken(c)
            \/ chan[s][c].ack # "none"
            \/ chan[Peer(s)][c].ack # "none"
            \/ wire[s][c] # <<>>
            \/ wire[Peer(s)][c] # <<>>

\* Every close completes: the end that waits gets its answer, and the lease
\* both ends were in ends with the channel back in the pool, unless the data
\* channel closes first or a CLOSE was missed.
CloseCompletes ==
    \A s \in Sides, c \in Channels :
        LET waits == chan[s][c].state = "CLOSING"
            same  == chan[s][c].lease = chan["local"][c].lease
            spoilt == Broken(c) \/ c \in missed
        IN  /\ waits ~> ~ waits \/ spoilt
            /\ waits /\ same ~> Contains(pool_, c) \/ spoilt
-----------------------------------------------------------------------------
(* Refinement *)

\* PoolChannel's states, as parts in a lease.
PartOf(state) ==
    CASE state = "OPEN" -> "active"
      [] state = "CLOSING" -> "leaving"
      [] state = "CLOSED" -> "idle"
      [] state = "PERMANENTLY_CLOSED" -> "dead"

\* open() fulfills onceOpened: the leases taken are the resets before it, plus
\* the one it starts.
TakenBy(e) == IF e.onceOpened = "settled" THEN e.lease ELSE e.lease - 1

\* A channel that missed a CLOSE counts as dead at the opening end, and its
\* peer as one that never joins: nothing more is promised of its leases.
Lease == INSTANCE ChannelLease WITH
    opener <- [c \in Channels |-> IF c \in missed THEN "dead"
                                  ELSE PartOf(chan["local"][c].state)],
    peer   <- [c \in Channels |-> IF c \in missed THEN "idle"
                                  ELSE PartOf(chan["remote"][c].state)],
    lease  <- [c \in Channels |-> TakenBy(chan["local"][c])],
    joined <- [c \in Channels |-> IF c \in missed THEN 0 ELSE accepted[c]]

\* The two ends of every virtual channel implement a sequence of leases: the
\* opener takes a new one only after the peer joined and left the one before,
\* and the peer joins each lease exactly once (pool.ts:161-166).
ImplementsLease == Lease!Spec
=============================================================================
