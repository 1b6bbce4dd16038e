----------------------------- MODULE PoolProofs -----------------------------
(***************************************************************************)
(* Proofs about Pool, for every value of its constants: its types, and     *)
(* that no channel is in the pool twice or leased while it waits there.    *)
(* Then, when the send of a CLOSE settles before its answer comes, of each *)
(* channel until a CLOSE is missed on it: that leases keep their data      *)
(* apart, that no CLOSE is lost, that a pooled channel is free at the      *)
(* peer, and that the pool implements ChannelLease.                        *)
(***************************************************************************)
EXTENDS Pool, TLAPS

\* An ack is only owed by an end that is closing, or whose data channel went.
AckOwed(e) == e.ack # "none" => e.state \in {"CLOSING", "PERMANENTLY_CLOSED"}

\* Between tasks no close callback is due.
AckInv ==
    \A s \in Sides, c \in Channels :
        /\ AckOwed(chan[s][c])
        /\ chan[s][c].onceClosed # "fulfilled"

\* No OPEN is on its way to the local end.
NoOpenToLocal(w) ==
    \A c \in Channels : \A i \in 1 .. Len(w["local"][c]) :
        w["local"][c][i].type # "OPEN"

\* The local end has no open callback due between tasks; the remote end may,
\* until its wrapper is made.
LocalInv ==
    /\ NoOpenToLocal(wire)
    /\ \A c \in Channels : chan["local"][c].onceOpened # "fulfilled"

\* An end leaves its first state only once its data channel opened, which
\* never happens to a channel that was not created.
WrappedInv ==
    \A s \in Sides, c \in Channels :
        /\ chan[s][c].state # "CLOSED" \/ chan[s][c].onceOpened = "settled"
           => dc[s][c] \in {"open", "closed"}
        /\ c >= numChannels_ => dc[s][c] = "none"

\* The remote user gets no channel before its wrapper is made.
FreshInv ==
    \A c \in Channels : dc["remote"][c] \in {"none", "opening"} => accepted[c] = 0

\* PoolSound is not inductive: a pooled channel must also owe no ack and have
\* no OPEN on its way, or a later task could open it or push it again.
IInv == TypeOK /\ AckInv /\ LocalInv /\ WrappedInv /\ FreshInv /\ PoolSound

-----------------------------------------------------------------------------
(* The callbacks, on one channel. *)

\* Callbacks turn a PoolChannel into a PoolChannel that has none left to run.
LEMMA CallbacksType ==
    ASSUME NEW e \in PoolChannel
    PROVE  /\ Callbacks(e) \in PoolChannel
           /\ Callbacks(e).onceClosed # "fulfilled"
           /\ Callbacks(e).onceOpened # "fulfilled"
  <1>1. OpenedCallback(e) \in PoolChannel
        /\ OpenedCallback(e).onceOpened # "fulfilled"
    BY DEF OpenedCallback, PoolChannel, Promise, State
  <1>2. ASSUME NEW f \in PoolChannel, f.onceOpened # "fulfilled"
        PROVE  /\ DrainedCallback(f) \in PoolChannel
               /\ DrainedCallback(f).onceOpened # "fulfilled"
    BY <1>2 DEF DrainedCallback, PoolChannel
  <1>3. ASSUME NEW f \in PoolChannel, f.onceOpened # "fulfilled"
        PROVE  /\ ClosedCallback(f) \in PoolChannel
               /\ ClosedCallback(f).onceOpened # "fulfilled"
               /\ ClosedCallback(f).onceClosed # "fulfilled"
    BY <1>3 DEF ClosedCallback, Reset, PoolChannel, Promise, State
  <1> QED
    BY <1>1, <1>2, <1>3 DEF Callbacks

\* Callbacks keep an owed ack owed, and say when a channel is reset: when its
\* close was fulfilled and its data channel still works.
LEMMA CallbacksState ==
    ASSUME NEW e \in PoolChannel, AckOwed(e)
    PROVE  /\ AckOwed(Callbacks(e))
           /\ Callbacks(e).lease # e.lease =>
                 /\ e.onceClosed = "fulfilled"
                 /\ e.state # "PERMANENTLY_CLOSED"
                 /\ Callbacks(e).state = "CLOSED"
           /\ e.state = "PERMANENTLY_CLOSED" =>
                 Callbacks(e).state = "PERMANENTLY_CLOSED"
           /\ Callbacks(e).lease = e.lease /\ e.onceOpened # "fulfilled" =>
                 Callbacks(e).state = e.state
  <1> DEFINE o == OpenedCallback(e)
             d == DrainedCallback(o)
  <1>1. /\ o \in PoolChannel
        /\ AckOwed(o)
        /\ o.lease = e.lease
        /\ o.onceClosed = e.onceClosed
        /\ o.state = "PERMANENTLY_CLOSED" <=> e.state = "PERMANENTLY_CLOSED"
        /\ e.onceOpened # "fulfilled" => o.state = e.state
    BY DEF OpenedCallback, PoolChannel, Promise, State, AckOwed
  <1>2. /\ d \in PoolChannel
        /\ AckOwed(d)
        /\ d.lease = o.lease
        /\ d.onceClosed = o.onceClosed
        /\ d.state = o.state
    BY <1>1 DEF DrainedCallback, PoolChannel, AckOwed
  <1>3. CASE d.onceClosed = "fulfilled" /\ d.state # "PERMANENTLY_CLOSED"
    <2>1. Callbacks(e) = Reset(d.lease + 1)
      BY <1>3 DEF Callbacks, ClosedCallback
    <2>2. d.lease \in Nat /\ d.lease + 1 # d.lease
      BY <1>2 DEF PoolChannel
    <2> QED
      BY <1>1, <1>2, <1>3, <2>1, <2>2 DEF Reset, AckOwed
  <1>4. CASE ~ (d.onceClosed = "fulfilled" /\ d.state # "PERMANENTLY_CLOSED")
    <2>1. /\ Callbacks(e).state = d.state
          /\ Callbacks(e).lease = d.lease
          /\ Callbacks(e).ack = d.ack
      BY <1>2, <1>4 DEF Callbacks, ClosedCallback, PoolChannel, Promise
    <2> QED
      BY <1>1, <1>2, <2>1 DEF AckOwed
  <1> QED
    BY <1>3, <1>4
\* A message keeps the types, leaves CLOSED and PERMANENTLY_CLOSED alone, and
\* fulfills a close only at an end that is closing.
LEMMA OnDataFromPeerType ==
    ASSUME NEW e \in PoolChannel, NEW m \in Message, AckOwed(e)
    PROVE  LET f == OnDataFromPeer(e, m)
           IN  /\ f \in PoolChannel /\ AckOwed(f)
               /\ e.state \in {"CLOSED", "PERMANENTLY_CLOSED"} =>
                     /\ f.state = e.state
                     /\ f.onceClosed = e.onceClosed
               /\ e.onceOpened # "settled" => f.onceOpened # "settled"
               /\ m.type # "OPEN" => f.onceOpened = e.onceOpened
  <1> DEFINE f == OnDataFromPeer(e, m)
  <1>1. CASE m.type = "DATA"
    <2> DEFINE q == Append(e.dataFromPeerQueue, m.lease)
    <2>1. q \in Seq(Nat)
      BY DEF Message, PoolChannel
    <2>2. f = [e EXCEPT !.dataFromPeerQueue = q]
      BY <1>1 DEF OnDataFromPeer
    <2> HIDE DEF q, f
    <2>3. f \in PoolChannel
      BY <2>1, <2>2 DEF PoolChannel
    <2>4. /\ f.state = e.state /\ f.onceClosed = e.onceClosed
          /\ f.onceOpened = e.onceOpened /\ f.ack = e.ack
      BY <2>2 DEF PoolChannel
    <2> QED
      BY <2>3, <2>4 DEF AckOwed, f
  <1>2. CASE m.type = "OPEN"
    <2>1. f = [e EXCEPT !.onceOpened = Fulfill(@)]
      BY <1>2 DEF OnDataFromPeer, OnControlMessage
    <2> QED
      BY <2>1, <1>2 DEF PoolChannel, AckOwed, Fulfill, Promise
  <1>3. CASE m.type = "CLOSE"
    <2>1. CASE e.state = "OPEN"
      <3>1. f = [e EXCEPT !.state = "CLOSING", !.ack = "draining"]
        BY <1>3, <2>1 DEF OnDataFromPeer, OnControlMessage
      <3> QED
        BY <3>1, <2>1 DEF PoolChannel, AckOwed, State
    <2>2. CASE e.state = "CLOSING"
      <3>1. f = [e EXCEPT !.onceClosed = Fulfill(@)]
        BY <1>3, <2>2 DEF OnDataFromPeer, OnControlMessage
      <3> QED
        BY <3>1, <2>2 DEF PoolChannel, AckOwed, Fulfill, Promise
    <2>3. CASE e.state \notin {"OPEN", "CLOSING"}
      <3>1. f = e
        BY <1>3, <2>3 DEF OnDataFromPeer, OnControlMessage
      <3> QED
        BY <3>1
    <2> QED
      BY <2>1, <2>2, <2>3
  <1> QED
    BY <1>1, <1>2, <1>3 DEF Message

-----------------------------------------------------------------------------
(* A whole task. *)

\* The type of both ends' wires.
WireType == [Sides -> [Channels -> Seq(Message)]]

\* Sending a message keeps the wires well formed, and only the local end
\* sends OPEN.
LEMMA PostType ==
    ASSUME NEW w \in WireType, NEW s \in Sides, NEW c \in Channels,
           NEW m \in Message, NoOpenToLocal(w),
           s = "remote" => m.type # "OPEN"
    PROVE  Post(w, s, c, m) \in WireType /\ NoOpenToLocal(Post(w, s, c, m))
  <1>1. CASE Broken(c)
    BY <1>1 DEF Post
  <1>2. CASE ~ Broken(c)
    <2> DEFINE q == w[Peer(s)][c]
    <2>1. Peer(s) \in Sides /\ (Peer(s) = "local" => s = "remote")
      BY DEF Peer, Sides
    <2>2. q \in Seq(Message) /\ Append(q, m) \in Seq(Message)
      BY <2>1 DEF WireType
    <2>3. /\ Len(Append(q, m)) = Len(q) + 1
          /\ \A i \in 1 .. Len(q) : Append(q, m)[i] = q[i]
          /\ Append(q, m)[Len(q) + 1] = m
      BY <2>2
    <2>4. Post(w, s, c, m) = [w EXCEPT ![Peer(s)][c] = Append(q, m)]
      BY <1>2 DEF Post
    <2>5. Post(w, s, c, m) \in WireType
      BY <2>1, <2>2, <2>4 DEF WireType
    <2>6. ASSUME NEW d \in Channels,
                 NEW i \in 1 .. Len(Post(w, s, c, m)["local"][d])
          PROVE  Post(w, s, c, m)["local"][d][i].type # "OPEN"
      <3>1. CASE Peer(s) = "local" /\ d = c
        <4>1. Post(w, s, c, m)["local"][d] = Append(q, m)
          BY <3>1, <2>4 DEF WireType, Sides
        <4>2. q = w["local"][d] /\ Len(q) \in Nat
          BY <3>1, <2>2
        <4>3. CASE i = Len(q) + 1
          BY <2>1, <2>3, <3>1, <4>1, <4>3
        <4>4. CASE i # Len(q) + 1
          <5>1. i \in 1 .. Len(q)
            BY <2>3, <4>1, <4>2, <4>4
          <5> QED
            BY <2>3, <4>1, <4>2, <5>1 DEF NoOpenToLocal
        <4> QED
          BY <4>3, <4>4
      <3>2. CASE ~ (Peer(s) = "local" /\ d = c)
        <4>1. Post(w, s, c, m)["local"][d] = w["local"][d]
          BY <2>1, <2>4, <3>2 DEF WireType, Sides
        <4> QED
          BY <4>1, <2>6 DEF NoOpenToLocal
      <3> QED
        BY <3>1, <3>2
    <2> QED
      BY <2>5, <2>6 DEF NoOpenToLocal
  <1> QED
    BY <1>1, <1>2
\* A task that leaves channel c of end s as e, the wires as w and the pool as
\* p keeps the invariant, if p is sound but for c, and c is not in p when the
\* callbacks will reset it or open it.
LEMMA RunCallbacksKeeps ==
    ASSUME IInv,
           NEW s \in Sides, NEW c \in Channels, NEW e \in PoolChannel,
           NEW w \in WireType, NEW p \in Seq(Channels),
           AckOwed(e), NoOpenToLocal(w), IsInjective(p),
           \A i \in 1 .. Len(p) :
              /\ dc["local"][p[i]] \in {"open", "closed"}
              /\ chan["local"][p[i]].state \notin {"OPEN", "CLOSING"}
              /\ p[i] = c /\ s = "local" =>
                    /\ e.state \notin {"OPEN", "CLOSING"}
                    /\ e.onceOpened # "fulfilled"
                    /\ e.onceClosed = "fulfilled" =>
                          e.state = "PERMANENTLY_CLOSED",
           dc' \in [Sides -> [Channels -> {"none", "opening", "open", "closed"}]],
           \A t \in Sides, d \in Channels :
              /\ dc[t][d] \in {"open", "closed"} =>
                    dc'[t][d] \in {"open", "closed"}
              /\ d >= numChannels_ => dc'[t][d] = "none",
           dc'[s][c] \in {"open", "closed"},
           numChannels_' = numChannels_,
           RunCallbacks(s, c, e, w, p)
    PROVE  IInv'
  <1> DEFINE f == Callbacks(e)
  <1>1. /\ f \in PoolChannel
        /\ f.onceClosed # "fulfilled"
        /\ f.onceOpened # "fulfilled"
    BY CallbacksType
  <1>2. /\ AckOwed(f)
        /\ f.lease # e.lease =>
              /\ e.onceClosed = "fulfilled"
              /\ e.state # "PERMANENTLY_CLOSED"
              /\ f.state = "CLOSED"
        /\ e.state = "PERMANENTLY_CLOSED" => f.state = "PERMANENTLY_CLOSED"
        /\ f.lease = e.lease /\ e.onceOpened # "fulfilled" =>
              f.state = e.state
    BY CallbacksState
  <1>3. chan' = [chan EXCEPT ![s][c] = f]
    BY DEF RunCallbacks
  <1>4. /\ chan' \in [Sides -> [Channels -> PoolChannel]]
        /\ chan'[s][c] = f
        /\ \A t \in Sides, d \in Channels :
              t # s \/ d # c => chan'[t][d] = chan[t][d]
    BY <1>1, <1>3 DEF IInv, TypeOK
  <1>5. wire' \in WireType /\ NoOpenToLocal(wire')
    <2>1. Msg("CLOSE", e.lease) \in Message /\ Msg("CLOSE", e.lease).type # "OPEN"
      BY DEF Msg, Message, PoolChannel
    <2>2. wire' = w \/ wire' = Post(w, s, c, Msg("CLOSE", e.lease))
      BY DEF RunCallbacks
    <2> QED
      BY <2>1, <2>2, PostType
  <1>6. accepted' \in [Channels -> Nat]
    BY DEF RunCallbacks, IInv, TypeOK
  <1>7. pool_' \in Seq(Channels) /\ missed' \subseteq Channels
    BY DEF RunCallbacks, IInv, TypeOK
  <1>8. TypeOK'
    BY <1>4, <1>5, <1>6, <1>7 DEF TypeOK, IInv, WireType
  <1>f. FreshInv'
    <2> SUFFICES ASSUME NEW d \in Channels, dc'["remote"][d] \in {"none", "opening"}
                 PROVE  accepted'[d] = 0
      BY DEF FreshInv
    <2>1. dc["remote"][d] \in {"none", "opening"} /\ ~ (s = "remote" /\ d = c)
      BY DEF IInv, TypeOK, Sides
    <2>2. accepted'[d] = accepted[d]
      BY <2>1 DEF RunCallbacks, IInv, TypeOK
    <2> QED
      BY <2>1, <2>2 DEF IInv, FreshInv
  <1>9. AckInv'
    BY <1>1, <1>2, <1>4 DEF AckInv, IInv
  <1>10. LocalInv' /\ WrappedInv'
    <2>1. NoOpenToLocal(wire)'
      BY <1>5 DEF NoOpenToLocal
    <2>2. ASSUME NEW t \in Sides, NEW d \in Channels
          PROVE  /\ t = "local" => chan'[t][d].onceOpened # "fulfilled"
                 /\ \/ chan'[t][d].state # "CLOSED"
                    \/ chan'[t][d].onceOpened = "settled"
                    => dc'[t][d] \in {"open", "closed"}
                 /\ d >= numChannels_' => dc'[t][d] = "none"
      <3>1. CASE t = s /\ d = c
        BY <1>1, <1>4, <3>1
      <3>2. CASE ~ (t = s /\ d = c)
        <4>1. chan'[t][d] = chan[t][d]
          BY <1>4, <3>2
        <4> QED
          BY <4>1 DEF IInv, LocalInv, WrappedInv
      <3> QED
        BY <3>1, <3>2
    <2>3. "local" \in Sides
      BY DEF Sides
    <2> QED
      BY <2>1, <2>2, <2>3 DEF LocalInv, WrappedInv
  <1>11. PoolSound'
    <2>1. ASSUME NEW i \in 1 .. Len(p), ~ (s = "local" /\ f.lease # e.lease)
          PROVE  chan'["local"][p[i]].state \notin {"OPEN", "CLOSING"}
      <3>1. p[i] \in Channels
        OBVIOUS
      <3>2. CASE s = "local" /\ p[i] = c
        BY <1>2, <1>4, <2>1, <3>2
      <3>3. CASE ~ (s = "local" /\ p[i] = c)
        BY <1>4, <3>1, <3>3 DEF Sides
      <3> QED
        BY <3>2, <3>3
    <2>2. CASE ~ (s = "local" /\ f.lease # e.lease)
      <3>1. pool_' = p
        BY <2>2 DEF RunCallbacks
      <3>2. \A i \in 1 .. Len(p) :
               /\ dc'["local"][p[i]] \in {"open", "closed"}
               /\ chan'["local"][p[i]].state \notin {"OPEN", "CLOSING"}
        <4> SUFFICES ASSUME NEW i \in 1 .. Len(p)
                     PROVE  /\ dc'["local"][p[i]] \in {"open", "closed"}
                            /\ chan'["local"][p[i]].state \notin {"OPEN", "CLOSING"}
          OBVIOUS
        <4>1. p[i] \in Channels /\ "local" \in Sides
          BY DEF Sides
        <4>2. dc'["local"][p[i]] \in {"open", "closed"}
          BY <4>1
        <4> QED
          BY <2>1, <2>2, <4>2
      <3> QED
        BY <3>1, <3>2 DEF PoolSound
    <2>3. CASE s = "local" /\ f.lease # e.lease
      <3>1. pool_' = Append(p, c)
        BY <2>3 DEF RunCallbacks
      <3>2. \A i \in 1 .. Len(p) : p[i] # c
        BY <1>2, <2>3
      <3>3. /\ Len(pool_') = Len(p) + 1
            /\ \A i \in 1 .. Len(p) : pool_'[i] = p[i]
            /\ pool_'[Len(p) + 1] = c
            /\ DOMAIN pool_' = 1 .. Len(p) + 1
            /\ DOMAIN p = 1 .. Len(p)
        BY <3>1
      <3>4. IsInjective(pool_')
        <4> SUFFICES ASSUME NEW i \in 1 .. Len(p) + 1, NEW j \in 1 .. Len(p) + 1,
                            pool_'[i] = pool_'[j]
                     PROVE  i = j
          BY <3>3 DEF IsInjective
        <4>1. CASE i \in 1 .. Len(p) /\ j \in 1 .. Len(p)
          BY <3>3, <4>1 DEF IsInjective
        <4>2. CASE i = Len(p) + 1 \/ j = Len(p) + 1
          BY <3>2, <3>3, <4>2
        <4> QED
          BY <4>1, <4>2
      <3>5. ASSUME NEW i \in 1 .. Len(pool_')
            PROVE  /\ dc'["local"][pool_'[i]] \in {"open", "closed"}
                   /\ chan'["local"][pool_'[i]].state \notin {"OPEN", "CLOSING"}
        <4>1. CASE i = Len(p) + 1
          BY <1>2, <1>4, <2>3, <3>3, <4>1
        <4>2. CASE i # Len(p) + 1
          <5>1. i \in 1 .. Len(p) /\ pool_'[i] = p[i] /\ p[i] \in Channels
            BY <3>3, <4>2
          <5>2. chan'["local"][p[i]] = chan["local"][p[i]]
            BY <1>4, <3>2, <5>1 DEF Sides
          <5>3. dc'["local"][p[i]] \in {"open", "closed"}
            BY <5>1 DEF Sides
          <5> QED
            BY <5>1, <5>2, <5>3
        <4> QED
          BY <4>1, <4>2
      <3> QED
        BY <3>4, <3>5 DEF PoolSound
    <2> QED
      BY <2>2, <2>3
  <1> QED
    BY <1>8, <1>9, <1>10, <1>11, <1>f DEF IInv
-----------------------------------------------------------------------------
(* The actions. *)

\* Two new pools, with no channel.
LEMMA InitIInv == Init => IInv
  <1> SUFFICES ASSUME Init PROVE IInv
    OBVIOUS
  <1>1. Reset(1) \in PoolChannel
    BY DEF Reset, PoolChannel, State, Promise
  <1>2. MaxChannels \in Nat
    BY PoolAssumption
  <1> QED
    BY <1>1, <1>2 DEF Init, IInv, TypeOK, AckInv, AckOwed, LocalInv, WrappedInv,
       FreshInv, NoOpenToLocal, PoolSound, IsInjective, Sides, Reset

\* open() of a channel that is not in what remains of the pool.
LEMMA OpenKeeps ==
    ASSUME IInv, NEW c \in Channels, NEW p \in Seq(Channels), IsInjective(p),
           \A i \in 1 .. Len(p) :
              /\ p[i] # c
              /\ dc["local"][p[i]] \in {"open", "closed"}
              /\ chan["local"][p[i]].state \notin {"OPEN", "CLOSING"},
           dc' \in [Sides -> [Channels -> {"none", "opening", "open", "closed"}]],
           \A t \in Sides, d \in Channels :
              /\ dc[t][d] \in {"open", "closed"} =>
                    dc'[t][d] \in {"open", "closed"}
              /\ d >= numChannels_ => dc'[t][d] = "none",
           dc'["local"][c] \in {"open", "closed"},
           numChannels_' = numChannels_,
           Open(c, p)
    PROVE  IInv'
  <1> DEFINE e == chan["local"][c]
             f == [e EXCEPT !.onceOpened = Fulfill(@)]
             w == Post(wire, "local", c, Msg("OPEN", e.lease))
  <1>1. "local" \in Sides /\ e \in PoolChannel /\ AckOwed(e)
    BY DEF IInv, TypeOK, Sides, AckInv
  <1>2. CASE e.state = "OPEN"
    <2>1. pool_' = p /\ UNCHANGED <<chan, wire, accepted, missed>>
      BY <1>2 DEF Open
    <2>2. FreshInv'
      BY <2>1 DEF IInv, TypeOK, FreshInv, Sides
    <2> QED
      BY <1>1, <2>1, <2>2 DEF IInv, TypeOK, AckInv, LocalInv, NoOpenToLocal, WrappedInv,
         PoolSound
  <1>3. CASE e.state # "OPEN"
    <2>1. RunCallbacks("local", c, f, w, p)
      BY <1>3 DEF Open
    <2>2. f \in PoolChannel /\ AckOwed(f)
      BY <1>1 DEF PoolChannel, Fulfill, Promise, AckOwed
    <2>3. Msg("OPEN", e.lease) \in Message
      BY <1>1 DEF Msg, Message, PoolChannel
    <2>4. wire \in WireType /\ NoOpenToLocal(wire)
      BY DEF IInv, TypeOK, LocalInv, WireType
    <2>5. w \in WireType /\ NoOpenToLocal(w)
      BY <1>1, <2>3, <2>4, PostType
    <2> HIDE DEF f, w, e
    <2> QED
      BY <1>1, <2>1, <2>2, <2>5, RunCallbacksKeeps
  <1> QED
    BY <1>2, <1>3

LEMMA OpenPooledKeeps == IInv /\ OpenPooled => IInv'
  <1> SUFFICES ASSUME IInv, OpenPooled PROVE IInv'
    OBVIOUS
  <1> DEFINE c == Head(pool_)
             p == Tail(pool_)
  <1>1. pool_ \in Seq(Channels) /\ pool_ # <<>>
    BY DEF IInv, TypeOK, OpenPooled
  <1>2. /\ c \in Channels /\ p \in Seq(Channels)
        /\ c = pool_[1]
        /\ Len(p) = Len(pool_) - 1 /\ Len(pool_) \in Nat \ {0}
        /\ \A i \in 1 .. Len(p) : p[i] = pool_[i + 1]
        /\ DOMAIN p = 1 .. Len(p) /\ DOMAIN pool_ = 1 .. Len(pool_)
    BY <1>1
  <1>3. \A i, j \in 1 .. Len(pool_) : pool_[i] = pool_[j] => i = j
    BY <1>2 DEF IInv, PoolSound, IsInjective
  <1>4. IsInjective(p)
    <2> SUFFICES ASSUME NEW i \in 1 .. Len(p), NEW j \in 1 .. Len(p), p[i] = p[j]
                 PROVE  i = j
      BY <1>2 DEF IsInjective
    <2>1. i + 1 \in 1 .. Len(pool_) /\ j + 1 \in 1 .. Len(pool_)
      BY <1>2
    <2>2. i + 1 = j + 1
      BY <1>2, <1>3, <2>1
    <2> QED
      BY <2>2
  <1>5. \A i \in 1 .. Len(p) :
           /\ p[i] # c
           /\ dc["local"][p[i]] \in {"open", "closed"}
           /\ chan["local"][p[i]].state \notin {"OPEN", "CLOSING"}
    <2> TAKE i \in 1 .. Len(p)
    <2>1. i + 1 \in 1 .. Len(pool_) /\ 1 \in 1 .. Len(pool_) /\ i + 1 # 1
      BY <1>2
    <2>2. p[i] = pool_[i + 1] /\ p[i] # c
      BY <1>2, <1>3, <2>1
    <2> QED
      BY <2>1, <2>2 DEF IInv, PoolSound
  <1>6. dc["local"][c] \in {"open", "closed"}
    BY <1>2 DEF IInv, PoolSound
  <1>7. dc' = dc /\ numChannels_' = numChannels_ /\ Open(c, p)
    BY DEF OpenPooled
  <1> HIDE DEF c, p
  <1> QED
    BY <1>2, <1>4, <1>5, <1>6, <1>7, OpenKeeps DEF IInv, TypeOK, WrappedInv

LEMMA OpenNewKeeps == IInv /\ OpenNew => IInv'
  <1> SUFFICES ASSUME IInv, OpenNew PROVE IInv'
    OBVIOUS
  <1>1. MaxChannels \in Nat /\ numChannels_ \in 0 .. MaxChannels
        /\ numChannels_ < MaxChannels /\ numChannels_' = numChannels_ + 1
    BY PoolAssumption DEF IInv, TypeOK, OpenNew
  <1>2. dc' \in [Sides -> [Channels -> {"none", "opening", "open", "closed"}]]
        /\ \A s \in Sides, c \in Channels :
              dc'[s][c] = IF c = numChannels_ THEN "opening" ELSE dc[s][c]
    BY DEF IInv, TypeOK, OpenNew
  <1>3. numChannels_ \in Channels
        /\ \A s \in Sides : dc[s][numChannels_] = "none"
    BY <1>1 DEF IInv, WrappedInv, Channels
  <1>4. UNCHANGED <<pool_, chan, wire, accepted, missed>> /\ pool_ = <<>>
    BY DEF OpenNew
  <1>5. TypeOK'
    BY <1>1, <1>2, <1>4 DEF IInv, TypeOK
  <1>6. AckInv' /\ PoolSound'
    BY <1>4 DEF IInv, AckInv, PoolSound
  <1>7. LocalInv' /\ FreshInv'
    BY <1>2, <1>3, <1>4 DEF IInv, LocalInv, NoOpenToLocal, FreshInv, Sides
  <1>8. WrappedInv'
    <2> SUFFICES
          ASSUME NEW s \in Sides, NEW c \in Channels
          PROVE  /\ chan[s][c].state # "CLOSED" \/ chan[s][c].onceOpened = "settled"
                    => dc'[s][c] \in {"open", "closed"}
                 /\ c >= numChannels_ + 1 => dc'[s][c] = "none"
      BY <1>1, <1>4 DEF WrappedInv
    <2>1. CASE c = numChannels_
      BY <1>1, <1>3, <2>1 DEF IInv, WrappedInv
    <2>2. CASE c # numChannels_
      <3>1. dc'[s][c] = dc[s][c]
        BY <1>2, <2>2
      <3>2. c >= numChannels_ + 1 => c >= numChannels_
        BY <1>1 DEF Channels
      <3> QED
        BY <3>1, <3>2 DEF IInv, WrappedInv
    <2> QED
      BY <2>1, <2>2
  <1> QED
    BY <1>5, <1>6, <1>7, <1>8 DEF IInv
\* What the opening of end s of c does to the data channels.
DcOpens(s, c) ==
    /\ dc' \in [Sides -> [Channels -> {"none", "opening", "open", "closed"}]]
    /\ \A t \in Sides, d \in Channels :
          /\ dc[t][d] \in {"open", "closed"} => dc'[t][d] \in {"open", "closed"}
          /\ d >= numChannels_ => dc'[t][d] = "none"
    /\ dc'[s][c] \in {"open", "closed"}

\* A data channel that was created moves to open or closed.
LEMMA DcOpensTyped ==
    ASSUME IInv, NEW s \in Sides, NEW c \in Channels,
           dc[s][c] \in {"opening", "open"},
           \E x \in {"open", "closed"} : dc' = [dc EXCEPT ![s][c] = x]
    PROVE  DcOpens(s, c)
  <1> PICK x \in {"open", "closed"} : dc' = [dc EXCEPT ![s][c] = x]
    OBVIOUS
  <1>1. /\ dc' \in [Sides -> [Channels -> {"none", "opening", "open", "closed"}]]
        /\ \A t \in Sides, d \in Channels :
              dc'[t][d] = IF t = s /\ d = c THEN x ELSE dc[t][d]
    BY DEF IInv, TypeOK
  <1> QED
    BY <1>1 DEF DcOpens, IInv, WrappedInv

\* The two actions in which a data channel opens, and the early arrivals.
LEMMA OpeningKeeps ==
    ASSUME IInv, NEW c \in Channels,
           OpenedLocal(c) \/ OpenedRemote(c) \/ ArriveEarly(c)
    PROVE  IInv'
  <1>0. "local" \in Sides /\ "remote" \in Sides
    BY DEF Sides
  <1>1. CASE OpenedLocal(c)
    <2>1. /\ dc["local"][c] = "opening"
          /\ dc' = [dc EXCEPT !["local"][c] = "open"]
          /\ Open(c, pool_)
          /\ numChannels_' = numChannels_
      BY <1>1 DEF OpenedLocal
    <2>2. DcOpens("local", c)
      BY <1>0, <2>1, DcOpensTyped
    <2>3. \A i \in 1 .. Len(pool_) :
             /\ pool_[i] # c
             /\ dc["local"][pool_[i]] \in {"open", "closed"}
             /\ chan["local"][pool_[i]].state \notin {"OPEN", "CLOSING"}
      BY <2>1 DEF IInv, PoolSound
    <2>4. pool_ \in Seq(Channels) /\ IsInjective(pool_)
      BY DEF IInv, TypeOK, PoolSound
    <2> QED
      BY <2>1, <2>2, <2>3, <2>4, OpenKeeps DEF DcOpens
  <1>2. CASE OpenedRemote(c)
    <2>1. /\ dc["remote"][c] = "opening"
          /\ dc' = [dc EXCEPT !["remote"][c] = "open"]
          /\ RunCallbacks("remote", c, chan["remote"][c], wire, pool_)
          /\ numChannels_' = numChannels_
      BY <1>2 DEF OpenedRemote
    <2>2. DcOpens("remote", c)
      BY <1>0, <2>1, DcOpensTyped
    <2>3. chan["remote"][c] \in PoolChannel /\ AckOwed(chan["remote"][c])
      BY <1>0 DEF IInv, TypeOK, AckInv
    <2>4. /\ wire \in WireType /\ NoOpenToLocal(wire)
          /\ pool_ \in Seq(Channels) /\ IsInjective(pool_)
      BY DEF IInv, TypeOK, WireType, LocalInv, PoolSound
    <2>5. \A i \in 1 .. Len(pool_) :
             /\ dc["local"][pool_[i]] \in {"open", "closed"}
             /\ chan["local"][pool_[i]].state \notin {"OPEN", "CLOSING"}
      BY DEF IInv, PoolSound
    <2> QED
      BY <1>0, <2>1, <2>2, <2>3, <2>4, <2>5, RunCallbacksKeeps DEF DcOpens
  <1>3. CASE ArriveEarly(c)
    <2> DEFINE e == chan["remote"][c]
               m == Head(wire["remote"][c])
    <2>1. /\ wire["remote"][c] # <<>>
          /\ chan' = [chan EXCEPT !["remote"][c] = OnDataFromPeer(e, m)]
          /\ wire' = [wire EXCEPT !["remote"][c] = Tail(@)]
          /\ UNCHANGED <<numChannels_, pool_, dc, accepted>>
          /\ missed' \subseteq Channels
      BY <1>3 DEF ArriveEarly, IInv, TypeOK
    <2>2. /\ e \in PoolChannel /\ AckOwed(e) /\ e.onceClosed # "fulfilled"
          /\ e.state = "CLOSED" /\ e.onceOpened # "settled"
      BY <1>0, <1>3 DEF ArriveEarly, IInv, TypeOK, AckInv, WrappedInv
    <2>3. /\ m \in Message
          /\ Tail(wire["remote"][c]) \in Seq(Message)
      BY <1>0, <2>1 DEF IInv, TypeOK
    <2>4. /\ OnDataFromPeer(e, m) \in PoolChannel
          /\ OnDataFromPeer(e, m).state = "CLOSED"
          /\ AckOwed(OnDataFromPeer(e, m))
          /\ OnDataFromPeer(e, m).onceOpened # "settled"
          /\ OnDataFromPeer(e, m).onceClosed = e.onceClosed
      BY <2>2, <2>3, OnDataFromPeerType
    <2> HIDE DEF e, m
    <2>5. /\ chan' \in [Sides -> [Channels -> PoolChannel]]
          /\ chan'["remote"][c] = OnDataFromPeer(e, m)
          /\ chan'["local"] = chan["local"]
          /\ \A d \in Channels : d # c => chan'["remote"][d] = chan["remote"][d]
      BY <1>0, <2>1, <2>4 DEF IInv, TypeOK
    <2>6. wire' \in WireType /\ wire'["local"] = wire["local"]
      BY <1>0, <2>1, <2>3 DEF IInv, TypeOK, WireType
    <2>7. TypeOK'
      BY <2>1, <2>5, <2>6 DEF IInv, TypeOK, WireType
    <2>8. AckInv' /\ WrappedInv'
      <3> SUFFICES
            ASSUME NEW s \in Sides, NEW d \in Channels
            PROVE  /\ AckOwed(chan'[s][d])
                   /\ chan'[s][d].onceClosed # "fulfilled"
                   /\ \/ chan'[s][d].state # "CLOSED"
                      \/ chan'[s][d].onceOpened = "settled"
                      => dc[s][d] \in {"open", "closed"}
                   /\ d >= numChannels_ => dc[s][d] = "none"
        BY <2>1 DEF AckInv, WrappedInv
      <3>1. CASE s = "remote" /\ d = c
        BY <1>0, <2>2, <2>4, <2>5, <3>1 DEF AckOwed, IInv, WrappedInv
      <3>2. CASE ~ (s = "remote" /\ d = c)
        <4>1. chan'[s][d] = chan[s][d]
          BY <2>5, <3>2 DEF Sides
        <4> QED
          BY <4>1 DEF IInv, AckInv, WrappedInv
      <3> QED
        BY <3>1, <3>2
    <2>9. LocalInv' /\ FreshInv' /\ PoolSound'
      BY <2>1, <2>5, <2>6 DEF IInv, LocalInv, NoOpenToLocal, FreshInv, PoolSound
    <2> QED
      BY <2>7, <2>8, <2>9 DEF IInv
  <1> QED
    BY <1>1, <1>2, <1>3
\* A user sends, however much the peer has not read yet.
Says(s, c) ==
    /\ chan[s][c].state = "OPEN"
    /\ wire' = Post(wire, s, c, Msg("DATA", chan[s][c].lease))
    /\ UNCHANGED <<numChannels_, pool_, dc, chan, accepted, missed>>

\* What is sent keeps the pool.
LEMMA SaysKeeps ==
    ASSUME IInv, NEW s \in Sides, NEW c \in Channels, Says(s, c)
    PROVE  IInv'
  <1> DEFINE e == chan[s][c]
  <1>1. Msg("DATA", e.lease) \in Message /\ Msg("DATA", e.lease).type # "OPEN"
    BY DEF IInv, TypeOK, PoolChannel, Msg, Message
  <1>2. wire \in WireType /\ NoOpenToLocal(wire)
    BY DEF IInv, TypeOK, LocalInv, WireType
  <1>3. /\ wire' = Post(wire, s, c, Msg("DATA", e.lease))
        /\ UNCHANGED <<numChannels_, pool_, dc, chan, accepted, missed>>
    BY DEF Says
  <1>4. wire' \in WireType /\ NoOpenToLocal(wire')
    BY <1>1, <1>2, <1>3, PostType
  <1> QED
    BY <1>3, <1>4 DEF IInv, TypeOK, AckInv, LocalInv, NoOpenToLocal,
       WrappedInv, FreshInv, PoolSound, WireType

\* What a user does to a channel.
LEMMA UserKeeps ==
    ASSUME IInv, NEW s \in Sides, NEW c \in Channels, UserAction(s, c)
    PROVE  IInv'
  <1> DEFINE e == chan[s][c]
  <1>1. e \in PoolChannel /\ AckOwed(e) /\ e.onceClosed # "fulfilled"
    BY DEF IInv, TypeOK, AckInv
  <1>2. Msg("CLOSE", e.lease) \in Message /\ Msg("CLOSE", e.lease).type # "OPEN"
    BY <1>1 DEF Msg, Message, PoolChannel
  <1>3. wire \in WireType /\ NoOpenToLocal(wire)
    BY DEF IInv, TypeOK, LocalInv, WireType
  <1>4. CASE Send(s, c)
    BY <1>4, SaysKeeps DEF Send, Says
  <1>5. CASE Close(s, c)
    <2> DEFINE f == [e EXCEPT !.state = "CLOSING"]
    <2>1. /\ e.state = "OPEN"
          /\ chan' = [chan EXCEPT ![s][c] = f]
          /\ wire' = Post(wire, s, c, Msg("CLOSE", e.lease))
          /\ UNCHANGED <<numChannels_, pool_, dc, accepted, missed>>
      BY <1>5 DEF Close
    <2>2. /\ f \in PoolChannel /\ AckOwed(f)
          /\ f.onceClosed = e.onceClosed /\ f.onceOpened = e.onceOpened
      BY <1>1, <2>1 DEF PoolChannel, State, AckOwed
    <2>3. wire' \in WireType /\ NoOpenToLocal(wire')
      BY <1>2, <1>3, <2>1, PostType
    <2> HIDE DEF f
    <2>4. /\ chan' \in [Sides -> [Channels -> PoolChannel]]
          /\ \A t \in Sides, d \in Channels :
                chan'[t][d] = IF t = s /\ d = c THEN f ELSE chan[t][d]
      BY <2>1, <2>2 DEF IInv, TypeOK
    <2>5. TypeOK'
      BY <2>1, <2>3, <2>4 DEF IInv, TypeOK, WireType
    <2>6. AckInv'
      BY <1>1, <2>2, <2>4 DEF IInv, AckInv
    <2>7. LocalInv' /\ WrappedInv'
      <3>1. \A t \in Sides, d \in Channels :
               /\ chan'[t][d].onceOpened = chan[t][d].onceOpened
               /\ chan'[t][d].state # "CLOSED" => chan[t][d].state # "CLOSED"
        BY <2>1, <2>2, <2>4
      <3>2. "local" \in Sides
        BY DEF Sides
      <3> QED
        BY <2>1, <2>3, <3>1, <3>2 DEF IInv, LocalInv, NoOpenToLocal, WrappedInv
    <2>9. FreshInv'
      BY <2>1 DEF IInv, FreshInv
    <2>8. PoolSound'
      <3>1. \A i \in 1 .. Len(pool_) : pool_[i] \in Channels /\ "local" \in Sides
        BY DEF IInv, TypeOK, Sides
      <3>2. \A i \in 1 .. Len(pool_) :
               chan'["local"][pool_[i]] = chan["local"][pool_[i]]
        BY <2>1, <2>4, <3>1 DEF IInv, PoolSound
      <3> QED
        BY <2>1, <3>2 DEF IInv, PoolSound
    <2> QED
      BY <2>5, <2>6, <2>7, <2>8, <2>9 DEF IInv
  <1> QED
    BY <1>4, <1>5 DEF UserAction

\* What the data channels, the queues and the sends do.
LEMMA SystemKeeps ==
    ASSUME IInv, NEW s \in Sides, NEW c \in Channels,
           SystemAction(s, c) \/ Closed(s, c)
    PROVE  IInv'
  <1> DEFINE e == chan[s][c]
  <1>1. /\ e \in PoolChannel /\ AckOwed(e) /\ e.onceClosed # "fulfilled"
        /\ s = "local" => e.onceOpened # "fulfilled"
    BY DEF IInv, TypeOK, AckInv, LocalInv
  <1>2. /\ wire \in WireType /\ NoOpenToLocal(wire)
        /\ pool_ \in Seq(Channels) /\ IsInjective(pool_)
    BY DEF IInv, TypeOK, LocalInv, WireType, PoolSound
  <1>3. \A i \in 1 .. Len(pool_) :
           /\ dc["local"][pool_[i]] \in {"open", "closed"}
           /\ chan["local"][pool_[i]].state \notin {"OPEN", "CLOSING"}
    BY DEF IInv, PoolSound
  <1>4. dc[s][c] \in {"open", "closed"} /\ dc' = dc => DcOpens(s, c)
    BY DEF DcOpens, IInv, TypeOK, WrappedInv
  <1>5. CASE Handle(s, c)
    <2> DEFINE f == [e EXCEPT !.dataFromPeerQueue = Tail(@)]
    <2>1. /\ e.dataFromPeerQueue # <<>>
          /\ e.onceOpened = "settled"
          /\ RunCallbacks(s, c, f, wire, pool_)
          /\ numChannels_' = numChannels_ /\ dc' = dc
      BY <1>5 DEF Handle
    <2>2. Tail(e.dataFromPeerQueue) \in Seq(Nat)
      BY <1>1, <2>1 DEF PoolChannel
    <2>4. f \in PoolChannel
      BY <1>1, <2>2 DEF PoolChannel
    <2>5. /\ f.state = e.state /\ AckOwed(f)
          /\ f.onceOpened = e.onceOpened /\ f.onceClosed = e.onceClosed
      BY <1>1 DEF PoolChannel, AckOwed
    <2>3. DcOpens(s, c)
      BY <1>4, <2>1 DEF IInv, WrappedInv
    <2>6. ASSUME NEW i \in 1 .. Len(pool_), pool_[i] = c, s = "local"
          PROVE  /\ f.state \notin {"OPEN", "CLOSING"}
                 /\ f.onceOpened # "fulfilled"
                 /\ f.onceClosed # "fulfilled"
      BY <1>1, <1>3, <2>5, <2>6
    <2> HIDE DEF f
    <2> QED
      BY <1>2, <1>3, <2>1, <2>3, <2>4, <2>5, <2>6, RunCallbacksKeeps
         DEF DcOpens
  <1>6. CASE Deliver(s, c)
    <2> DEFINE m == Head(wire[s][c])
               f == OnDataFromPeer(e, m)
               w == [wire EXCEPT ![s][c] = Tail(@)]
    <2>1. /\ dc[s][c] = "open"
          /\ wire[s][c] # <<>>
          /\ RunCallbacks(s, c, f, w, pool_)
          /\ numChannels_' = numChannels_ /\ dc' = dc
      BY <1>6 DEF Deliver
    <2>2. /\ m \in Message /\ w \in WireType
          /\ s = "local" => m.type # "OPEN"
      BY <1>2, <2>1 DEF WireType, NoOpenToLocal
    <2>3. NoOpenToLocal(w)
      <3> SUFFICES ASSUME NEW d \in Channels, NEW i \in 1 .. Len(w["local"][d])
                   PROVE  w["local"][d][i].type # "OPEN"
        BY DEF NoOpenToLocal
      <3>1. CASE s = "local" /\ d = c
        <4>1. /\ w["local"][d] = Tail(wire[s][c])
              /\ wire[s][c] \in Seq(Message) /\ wire[s][c] # <<>>
          BY <1>2, <2>1, <3>1 DEF WireType
        <4>2. i \in 1 .. Len(Tail(wire[s][c]))
          BY <4>1
        <4> HIDE DEF w
        <4>3. /\ i + 1 \in 1 .. Len(wire[s][c])
              /\ w["local"][d][i] = wire[s][c][i + 1]
          BY <4>1, <4>2
        <4> QED
          BY <1>2, <3>1, <4>3 DEF NoOpenToLocal
      <3>2. CASE ~ (s = "local" /\ d = c)
        <4>1. w["local"][d] = wire["local"][d]
          BY <1>2, <3>2 DEF WireType, Sides
        <4> QED
          BY <1>2, <4>1 DEF NoOpenToLocal
      <3> QED
        BY <3>1, <3>2
    <2>4. /\ f \in PoolChannel /\ AckOwed(f)
          /\ e.state \in {"CLOSED", "PERMANENTLY_CLOSED"} =>
                f.state = e.state /\ f.onceClosed = e.onceClosed
          /\ m.type # "OPEN" => f.onceOpened = e.onceOpened
      BY <1>1, <2>2, OnDataFromPeerType
    <2>5. DcOpens(s, c)
      BY <1>4, <2>1
    <2>6. ASSUME NEW i \in 1 .. Len(pool_), pool_[i] = c, s = "local"
          PROVE  /\ f.state \notin {"OPEN", "CLOSING"}
                 /\ f.onceOpened # "fulfilled"
                 /\ f.onceClosed # "fulfilled"
      <3>1. e.state \in {"CLOSED", "PERMANENTLY_CLOSED"}
        BY <1>1, <1>3, <2>6 DEF PoolChannel, State
      <3> QED
        BY <1>1, <2>2, <2>4, <2>6, <3>1
    <2> HIDE DEF f, w, m
    <2> QED
      BY <1>2, <1>3, <2>1, <2>2, <2>3, <2>4, <2>5, <2>6, RunCallbacksKeeps
         DEF DcOpens
  <1>7. CASE AckSettled(s, c)
    <2> DEFINE f == [e EXCEPT !.ack = "none", !.onceClosed = Fulfill(@)]
    <2>1. /\ e.ack = "sending"
          /\ RunCallbacks(s, c, f, wire, pool_)
          /\ numChannels_' = numChannels_ /\ dc' = dc
      BY <1>7 DEF AckSettled
    <2>2. /\ f \in PoolChannel /\ f.state = e.state /\ AckOwed(f)
          /\ f.onceOpened = e.onceOpened
      BY <1>1, <2>1 DEF PoolChannel, AckOwed, Fulfill, Promise
    <2>3. e.state \in {"CLOSING", "PERMANENTLY_CLOSED"}
      BY <1>1, <2>1 DEF AckOwed
    <2>4. DcOpens(s, c)
      BY <1>4, <2>1, <2>3 DEF IInv, WrappedInv
    <2>5. ASSUME NEW i \in 1 .. Len(pool_), pool_[i] = c, s = "local"
          PROVE  f.state = "PERMANENTLY_CLOSED" /\ f.onceOpened # "fulfilled"
      BY <1>1, <1>3, <2>2, <2>3, <2>5
    <2> HIDE DEF f
    <2> QED
      BY <1>2, <1>3, <2>1, <2>2, <2>4, <2>5, RunCallbacksKeeps DEF DcOpens
  <1>8. CASE Closed(s, c)
    <2> DEFINE f == [e EXCEPT !.state = "PERMANENTLY_CLOSED",
                              !.onceClosed = Fulfill(@)]
               w == [wire EXCEPT ![s][c] = <<>>]
    <2>1. /\ dc[s][c] = "open"
          /\ dc' = [dc EXCEPT ![s][c] = "closed"]
          /\ RunCallbacks(s, c, f, w, pool_)
          /\ numChannels_' = numChannels_
      BY <1>8 DEF Closed
    <2>2. /\ f \in PoolChannel /\ f.state = "PERMANENTLY_CLOSED" /\ AckOwed(f)
          /\ f.onceOpened = e.onceOpened
      BY <1>1 DEF PoolChannel, State, AckOwed, Fulfill, Promise
    <2>3. w \in WireType /\ NoOpenToLocal(w)
      BY <1>2 DEF WireType, NoOpenToLocal
    <2>4. DcOpens(s, c)
      BY <2>1, DcOpensTyped
    <2> HIDE DEF f, w
    <2> QED
      BY <1>1, <1>2, <1>3, <2>1, <2>2, <2>3, <2>4, RunCallbacksKeeps DEF DcOpens
  <1> QED
    BY <1>5, <1>6, <1>7, <1>8 DEF SystemAction

-----------------------------------------------------------------------------
(* The theorems. *)

\* The pool's invariant survives every step.
LEMMA StepKeeps ==
    ASSUME IInv, [Next]_vars
    PROVE  IInv'
  <1>1. CASE UNCHANGED vars
    BY <1>1 DEF vars, IInv, TypeOK, AckInv, LocalInv, NoOpenToLocal,
       WrappedInv, FreshInv, PoolSound
  <1>2. CASE OpenPooled
    BY <1>2, OpenPooledKeeps
  <1>3. CASE OpenNew
    BY <1>3, OpenNewKeeps
  <1>4. CASE \E c \in Channels :
                OpenedLocal(c) \/ ArriveEarly(c) \/ OpenedRemote(c)
    BY <1>4, OpeningKeeps
  <1>5. CASE \E s \in Sides, c \in Channels :
                UserAction(s, c) \/ SystemAction(s, c) \/ Closed(s, c)
    BY <1>5, UserKeeps, SystemKeeps
  <1> QED
    BY <1>1, <1>2, <1>3, <1>4, <1>5 DEF Next

\* IInv holds in every reachable state of the pool, however many channels and
\* leases there are and whatever the data channels do.
THEOREM Invariance == Spec => []IInv
  <1>1. IInv /\ [Next]_vars => IInv'
    BY StepKeeps
  <1> QED
    BY InitIInv, <1>1, PTL DEF Spec

\* The variables of the pool always have their types.
THEOREM TypeCorrect == Spec => []TypeOK
  BY Invariance, PTL DEF IInv

\* No channel is ever in the pool twice, or leased while it waits there: no
\* two users of a LocalPool share a channel.
THEOREM PoolSoundness == Spec => []PoolSound
  BY Invariance, PTL DEF IInv

-----------------------------------------------------------------------------
(* The link between the two ends of a channel: what leases they are in, and *)
(* what is on its way between them.                                         *)

\* A message of the given type and of lease k is on wire w.
Holds(w, type, k) ==
    \E i \in 1 .. Len(w) : w[i].type = type /\ w[i].lease = k

\* Some message of lease k is on wire w.
Carries(w, k) == \E i \in 1 .. Len(w) : w[i].lease = k

\* A stream of leases, each from its OPEN to its CLOSE.
Ordered(w) ==
    \A i, j \in 1 .. Len(w) : i < j =>
        \/ w[i].lease < w[j].lease
        \/ /\ w[i].lease = w[j].lease
           /\ w[i].type # "CLOSE" /\ w[j].type # "OPEN"

\* The data channel under an end still works.
Alive(e) == e.state # "PERMANENTLY_CLOSED"

\* An end that is closing has sent its CLOSE, unless it still has data to
\* handle before it answers.
SentClose(e) == e.state = "CLOSING" /\ e.ack # "draining"

\* One end by itself: its promises match its state, its queue its lease.
EndOK(e) ==
    /\ e.lease >= 1
    /\ AckOwed(e)
    /\ Alive(e) => /\ e.onceClosed = "pending"
                   /\ e.state = "CLOSED" <=> e.onceOpened # "settled"
    /\ ~ Alive(e) => e.onceClosed = "settled"
    /\ \A i \in 1 .. Len(e.dataFromPeerQueue) : e.dataFromPeerQueue[i] = e.lease

\* Between tasks, an end that owes an answer has data to handle first.
Drained(e) == e.ack = "draining" => e.dataFromPeerQueue # <<>>

\* What is on its way to the local end is of its own lease, never an OPEN.
ToLocal(L, w) ==
    /\ Ordered(w)
    /\ \A k \in Nat : Carries(w, k) =>
          /\ k = L.lease /\ ~ Holds(w, "OPEN", k)
          /\ L.state \in {"OPEN", "CLOSING"} /\ L.ack = "none"

\* What is on its way to the remote end is of its lease or of the next, which
\* comes after the CLOSE that ends this one.
ToRemote(R, w) ==
    /\ Ordered(w)
    /\ \A k \in Nat : Carries(w, k) => Alive(R) /\ k \in {R.lease, R.lease + 1}
    /\ Carries(w, R.lease) =>
          /\ R.ack = "none"
          /\ R.onceOpened = "pending" <=> Holds(w, "OPEN", R.lease)
    /\ Carries(w, R.lease + 1) =>
          /\ Holds(w, "OPEN", R.lease + 1)
          /\ R.state = "CLOSING"
          /\ R.ack = "sending" \/ (R.ack = "none" /\ Holds(w, "CLOSE", R.lease))

\* Leases accepted and taken: the remote end is never ahead of the local one.
Counts(L, R, wL, wR, n) ==
    /\ n = TakenBy(R)
    /\ \A k \in Nat : Carries(wR, k) => k <= TakenBy(L)
    /\ R.onceOpened # "pending" => R.lease <= TakenBy(L)
    /\ Alive(L) /\ (L.ack # "none" \/ Holds(wL, "CLOSE", L.lease)) =>
          n = L.lease /\ R.state # "OPEN"
    /\ L.state = "CLOSED" => n = L.lease - 1 /\ R.state # "OPEN"

\* Both ends in one lease: a CLOSE that was sent is on its way or being
\* answered.
SameLease(L, R, wL, wR) ==
    /\ L.lease = R.lease
    /\ SentClose(L) <=> Holds(wR, "CLOSE", L.lease) \/ R.ack # "none"
    /\ SentClose(R) <=> Holds(wL, "CLOSE", L.lease) \/ L.ack # "none"
    /\ L.ack = "none" \/ R.ack = "none"
    /\ L.state = "CLOSED" =>
          R.state = "CLOSED" /\ \A k \in Nat : ~ Carries(wR, k)
    /\ L.state # "CLOSED" =>
          R.onceOpened # "pending" \/ Holds(wR, "OPEN", L.lease)

\* The local end is in the next lease, or may begin it: the remote end is
\* about to finish.
LocalAhead(L, R, wL, wR) ==
    /\ L.lease = R.lease + 1
    /\ R.state = "CLOSING"
    /\ R.ack = "sending" \/ (R.ack = "none" /\ Holds(wR, "CLOSE", R.lease))
    /\ L.ack = "none" /\ \A k \in Nat : ~ Carries(wL, k)
    /\ SentClose(L) <=> Holds(wR, "CLOSE", L.lease)
    /\ L.state # "CLOSED" => Holds(wR, "OPEN", L.lease)

\* The remote end has finished the lease, and the local end is about to.
RemoteAhead(L, R, wL, wR) ==
    /\ R.lease = L.lease + 1
    /\ R.state = "CLOSED" /\ \A k \in Nat : ~ Carries(wR, k)
    /\ L.state = "CLOSING"
    /\ L.ack = "sending" \/ (L.ack = "none" /\ Holds(wL, "CLOSE", L.lease))

\* While both ends work, they are in one of these three situations.
Joint(L, R, wL, wR) ==
    \/ SameLease(L, R, wL, wR)
    \/ LocalAhead(L, R, wL, wR)
    \/ RemoteAhead(L, R, wL, wR)

\* L and R are linked by the wires wL to L and wR to R, R having accepted n
\* leases.
Linked(L, R, wL, wR, n) ==
    /\ EndOK(L) /\ EndOK(R)
    /\ L.onceOpened # "fulfilled"
    /\ ToLocal(L, wL) /\ ToRemote(R, wR)
    /\ Counts(L, R, wL, wR, n)
    /\ Alive(L) /\ Alive(R) => Joint(L, R, wL, wR)

\* The ends of channel c as they are now.
LinkOf(c) ==
    Linked(chan["local"][c], chan["remote"][c],
         wire["local"][c], wire["remote"][c], accepted[c])

\* What else holds of a channel's ends between tasks.
Around(c) ==
    /\ \A s \in Sides : /\ dc[s][c] = "closed" <=> ~ Alive(chan[s][c])
                        /\ Drained(chan[s][c])
    /\ chan["remote"][c].onceOpened = "fulfilled" => dc["remote"][c] = "opening"

\* IInv says nothing of what passes between the ends; this does, and with it
\* the ends, the wires and the count of each intact channel are an inductive
\* whole.
LinkInv == \A c \in Channels : c \notin missed => LinkOf(c) /\ Around(c)

\* Wire v is w with one more message at its end, or without its oldest.
Longer(v, w, type, lease) ==
    /\ \A k : Carries(v, k) <=> Carries(w, k) \/ k = lease
    /\ \A t, k : Holds(v, t, k) <=> Holds(w, t, k) \/ (t = type /\ k = lease)
    /\ Ordered(w)
       /\ (\A k \in Nat : Carries(w, k) =>
             \/ k < lease
             \/ k = lease /\ ~ Holds(w, "CLOSE", k) /\ type # "OPEN")
       => Ordered(v)

Shorter(v, w, type, lease) ==
    /\ Ordered(v)
    /\ Carries(w, lease) /\ Holds(w, type, lease)
    /\ \A k \in Nat : Carries(v, k) => Carries(w, k)
    /\ \A k \in Nat : Carries(w, k) => k >= lease
    /\ \A k \in Nat : Carries(w, k) => k = lease \/ Carries(v, k)
    /\ type = "CLOSE" => ~ Carries(v, lease)
    /\ \A k \in Nat : \A t \in {"OPEN", "CLOSE"} :
          Holds(v, t, k) <=> Holds(w, t, k) /\ ~ (t = type /\ k = lease)
    /\ type # "OPEN" => ~ Holds(w, "OPEN", lease)

\* What a step of either end may be to a lease.
LeaseStep(L, R, n, L2, R2, n2) ==
    LET opener == <<L.state, L2.state>>
        peer   == <<R.state, R2.state>>
        lease  == TakenBy(L)
        lease2 == TakenBy(L2)
        same   == R2.state = R.state /\ n2 = n
        kept   == L2.state = L.state /\ lease2 = lease
    IN  \/ same /\ kept
        \/ /\ same /\ lease2 = lease + 1
           /\ \/ opener = <<"CLOSED", "OPEN">> /\ R.state # "OPEN" /\ n = lease
              \/ L.state = "PERMANENTLY_CLOSED" /\ L2.state = L.state
        \/ kept /\ peer = <<"CLOSED", "OPEN">> /\ n < lease /\ n2 = n + 1
        \/ same /\ lease2 = lease /\ opener = <<"OPEN", "CLOSING">>
        \/ kept /\ n2 = n /\ peer = <<"OPEN", "CLOSING">>
        \/ /\ same /\ lease2 = lease /\ opener = <<"CLOSING", "CLOSED">>
           /\ n = lease /\ R.state # "OPEN"
        \/ /\ kept /\ n2 = n /\ peer = <<"CLOSING", "CLOSED">>
           /\ L.state = "OPEN" => n < lease
        \/ same /\ lease2 = lease /\ Alive(L) /\ ~ Alive(L2)
        \/ kept /\ n2 = n /\ Alive(R) /\ ~ Alive(R2)

-----------------------------------------------------------------------------
(* Wires. *)

\* What an empty wire carries, and that what is held is carried.
LEMMA EmptyWire ==
    /\ Ordered(<<>>)
    /\ \A k : ~ Carries(<<>>, k)
    /\ \A t, k : ~ Holds(<<>>, t, k)
<1>1. Len(<<>>) = 0 /\ 1 .. 0 = {}
  OBVIOUS
<1> QED
  BY <1>1 DEF Ordered, Carries, Holds

\* A message at the end of a wire.
LEMMA AppendWire ==
    ASSUME NEW w \in Seq(Message), NEW m \in Message
    PROVE  /\ Append(w, m) \in Seq(Message)
           /\ Longer(Append(w, m), w, m.type, m.lease)
<1> DEFINE v == Append(w, m)
           n == Len(w)
<1>1. /\ v \in Seq(Message) /\ n \in Nat /\ Len(v) = n + 1
      /\ \A i \in 1 .. n : v[i] = w[i]
      /\ v[n + 1] = m
  OBVIOUS
<1>2. \A i \in 1 .. n : w[i] \in Message
  OBVIOUS
<1> HIDE DEF v, n
<1>3. \A i \in 1 .. Len(v) : i \in 1 .. n \/ i = n + 1
  BY <1>1
<1>4. 1 .. n \subseteq 1 .. Len(v) /\ n + 1 \in 1 .. Len(v)
  BY <1>1
<1>5. \A k : Carries(v, k) <=> Carries(w, k) \/ k = m.lease
  BY <1>1, <1>3, <1>4 DEF Carries, n
<1>6. \A t, k : Holds(v, t, k) <=> Holds(w, t, k) \/ (m.type = t /\ m.lease = k)
  BY <1>1, <1>3, <1>4 DEF Holds, n
<1>7. ASSUME Ordered(w),
             \A k \in Nat : Carries(w, k) =>
                \/ k < m.lease
                \/ k = m.lease /\ ~ Holds(w, "CLOSE", k) /\ m.type # "OPEN"
      PROVE  Ordered(v)
  <2> SUFFICES ASSUME NEW i \in 1 .. Len(v), NEW j \in 1 .. Len(v), i < j
               PROVE  \/ v[i].lease < v[j].lease
                      \/ /\ v[i].lease = v[j].lease
                         /\ v[i].type # "CLOSE" /\ v[j].type # "OPEN"
    BY DEF Ordered
  <2>1. i \in 1 .. n
    BY <1>1
  <2>2. CASE j \in 1 .. n
    BY <1>1, <1>7, <2>1, <2>2 DEF Ordered, n
  <2>3. CASE j = n + 1
    <3>1. /\ w[i].lease \in Nat /\ Carries(w, w[i].lease)
          /\ w[i].type = "CLOSE" => Holds(w, "CLOSE", w[i].lease)
      BY <1>2, <2>1 DEF Message, Carries, Holds, n
    <3> QED
      BY <1>1, <1>7, <2>1, <2>3, <3>1
  <2> QED
    BY <1>3, <2>2, <2>3
<1> QED
  BY <1>1, <1>5, <1>6, <1>7 DEF v, Longer

\* A wire without its oldest message, by index.
LEMMA TailByIndex ==
    ASSUME NEW w, NEW v, NEW m, NEW n \in Nat \ {0},
           Len(w) = n, Len(v) = n - 1, m = w[1],
           \A i \in 1 .. n - 1 : v[i] = w[i + 1],
           \A i \in 1 .. n : w[i].lease \in Nat,
           Ordered(w)
    PROVE  Shorter(v, w, m.type, m.lease)
<1>1. \A i, j \in 1 .. n : i < j =>
        \/ w[i].lease < w[j].lease
        \/ /\ w[i].lease = w[j].lease
           /\ w[i].type # "CLOSE" /\ w[j].type # "OPEN"
  BY Zenon DEF Ordered
<1>5. \A t, k : Holds(w, t, k) <=>
                   \E i \in 1 .. n : w[i].type = t /\ w[i].lease = k
  BY Zenon DEF Holds
<1>6. \A k : Carries(w, k) <=> \E i \in 1 .. n : w[i].lease = k
  BY Zenon DEF Carries
<1>7. /\ 1 \in 1 .. n
      /\ \A i \in 1 .. n - 1 : i + 1 \in 1 .. n /\ i + 1 # 1
      /\ \A i \in 1 .. n : i # 1 =>
            1 < i /\ i - 1 \in 1 .. n - 1 /\ v[i - 1] = w[i]
  <2>1. /\ 1 \in 1 .. n
        /\ \A i \in 1 .. n - 1 : i + 1 \in 1 .. n /\ i + 1 # 1
    OBVIOUS
  <2>2. ASSUME NEW i \in 1 .. n, i # 1
        PROVE  1 < i /\ i - 1 \in 1 .. n - 1 /\ v[i - 1] = w[i]
    <3>1. 1 < i /\ i - 1 \in 1 .. n - 1 /\ (i - 1) + 1 = i
      BY <2>2
    <3> QED
      BY <3>1
  <2> QED
    BY <2>1, <2>2
<1>8. m.lease \in Nat
  BY <1>7
<1>9. Ordered(v)
  <2> SUFFICES ASSUME NEW i \in 1 .. n - 1, NEW j \in 1 .. n - 1, i < j
               PROVE  \/ v[i].lease < v[j].lease
                      \/ /\ v[i].lease = v[j].lease
                         /\ v[i].type # "CLOSE" /\ v[j].type # "OPEN"
    BY Zenon DEF Ordered
  <2>1. i + 1 \in 1 .. n /\ j + 1 \in 1 .. n /\ i + 1 < j + 1
    OBVIOUS
  <2> QED
    BY <1>1, <2>1
<1>10. ASSUME NEW j \in 1 .. n, j # 1
       PROVE  \/ m.lease < w[j].lease
              \/ /\ m.lease = w[j].lease
                 /\ m.type # "CLOSE" /\ w[j].type # "OPEN"
  BY <1>1, <1>7, <1>10
<1>11. /\ Carries(w, m.lease) /\ Holds(w, m.type, m.lease)
       /\ \A k \in Nat : Carries(w, k) => k >= m.lease
  BY <1>1, <1>5, <1>6, <1>7, <1>8, <1>10
<1>12. /\ \A k : Carries(v, k) <=> \E j \in 1 .. n : j # 1 /\ w[j].lease = k
       /\ \A t, k : Holds(v, t, k) <=>
             \E j \in 1 .. n : j # 1 /\ w[j].type = t /\ w[j].lease = k
  <2>1. /\ \A i \in 1 .. n - 1 : i + 1 \in 1 .. n /\ i + 1 # 1 /\ w[i + 1] = v[i]
        /\ \A j \in 1 .. n : j # 1 => j - 1 \in 1 .. n - 1 /\ v[j - 1] = w[j]
    BY <1>7
  <2>2. ASSUME NEW k
        PROVE  Carries(v, k) <=> \E j \in 1 .. n : j # 1 /\ w[j].lease = k
    <3>1. Carries(v, k) <=> \E i \in 1 .. n - 1 : v[i].lease = k
      BY Zenon DEF Carries
    <3>2. ASSUME NEW i \in 1 .. n - 1, v[i].lease = k
          PROVE  \E j \in 1 .. n : j # 1 /\ w[j].lease = k
      <4>1. i + 1 \in 1 .. n /\ i + 1 # 1 /\ w[i + 1].lease = k
        BY <2>1, <3>2
      <4> QED
        BY <4>1
    <3>3. ASSUME NEW j \in 1 .. n, j # 1, w[j].lease = k
          PROVE  \E i \in 1 .. n - 1 : v[i].lease = k
      <4>1. j - 1 \in 1 .. n - 1 /\ v[j - 1].lease = k
        BY <2>1, <3>3
      <4> QED
        BY <4>1
    <3> QED
      BY <3>1, <3>2, <3>3, Zenon
  <2>3. ASSUME NEW t, NEW k
        PROVE  Holds(v, t, k) <=>
                  \E j \in 1 .. n : j # 1 /\ w[j].type = t /\ w[j].lease = k
    <3>1. Holds(v, t, k) <=>
             \E i \in 1 .. n - 1 : v[i].type = t /\ v[i].lease = k
      BY Zenon DEF Holds
    <3>2. ASSUME NEW i \in 1 .. n - 1, v[i].type = t, v[i].lease = k
          PROVE  \E j \in 1 .. n : j # 1 /\ w[j].type = t /\ w[j].lease = k
      <4>1. /\ i + 1 \in 1 .. n /\ i + 1 # 1
            /\ w[i + 1].type = t /\ w[i + 1].lease = k
        BY <2>1, <3>2
      <4> QED
        BY <4>1
    <3>3. ASSUME NEW j \in 1 .. n, j # 1, w[j].type = t, w[j].lease = k
          PROVE  \E i \in 1 .. n - 1 : v[i].type = t /\ v[i].lease = k
      <4>1. j - 1 \in 1 .. n - 1 /\ v[j - 1].type = t /\ v[j - 1].lease = k
        BY <2>1, <3>3
      <4> QED
        BY <4>1
    <3> QED
      BY <3>1, <3>2, <3>3, Zenon
  <2> QED
    BY <2>2, <2>3
<1>13. /\ \A k \in Nat : Carries(v, k) => Carries(w, k)
       /\ \A k \in Nat : Carries(w, k) => k = m.lease \/ Carries(v, k)
  BY <1>1, <1>6, <1>12
<1>14. m.type = "CLOSE" => ~ Carries(v, m.lease)
  BY <1>8, <1>10, <1>12
<1>15. m.type # "OPEN" => ~ Holds(w, "OPEN", m.lease)
  BY <1>1, <1>5, <1>8, <1>10
<1>16. ASSUME NEW k \in Nat, NEW t \in {"OPEN", "CLOSE"}
       PROVE  Holds(v, t, k) <=> Holds(w, t, k) /\ ~ (t = m.type /\ k = m.lease)
  <2>1. ASSUME Holds(v, t, k)
        PROVE  Holds(w, t, k) /\ ~ (t = m.type /\ k = m.lease)
    <3>1. PICK j \in 1 .. n : j # 1 /\ w[j].type = t /\ w[j].lease = k
      BY <1>12, <2>1
    <3>2. Holds(w, t, k)
      BY <1>5, <3>1
    <3>3. ~ (t = m.type /\ k = m.lease)
      BY <1>8, <1>10, <3>1
    <3> QED
      BY <3>2, <3>3
  <2>2. ASSUME Holds(w, t, k), ~ (t = m.type /\ k = m.lease)
        PROVE  Holds(v, t, k)
    <3>1. PICK i \in 1 .. n : w[i].type = t /\ w[i].lease = k
      BY <1>5, <2>2
    <3>2. i # 1
      BY <1>1, <2>2, <3>1
    <3> QED
      BY <1>12, <3>1, <3>2
  <2> QED
    BY <2>1, <2>2
<1> QED
  BY <1>9, <1>11, <1>13, <1>14, <1>15, <1>16 DEF Shorter

\* A wire without its oldest message.
LEMMA TailWire ==
    ASSUME NEW w \in Seq(Message), w # <<>>, Ordered(w)
    PROVE  /\ Tail(w) \in Seq(Message) /\ Head(w) \in Message
           /\ Shorter(Tail(w), w, Head(w).type, Head(w).lease)
<1>1. /\ Tail(w) \in Seq(Message) /\ Head(w) \in Message /\ Len(w) \in Nat \ {0}
      /\ Len(Tail(w)) = Len(w) - 1 /\ Head(w) = w[1]
  OBVIOUS
<1>2. \A i \in 1 .. Len(w) - 1 : Tail(w)[i] = w[i + 1]
  OBVIOUS
<1>3. \A i \in 1 .. Len(w) : w[i].lease \in Nat
  <2>1. \A i \in 1 .. Len(w) : w[i] \in Message
    OBVIOUS
  <2>2. \A m \in Message : m.lease \in Nat
    BY DEF Message
  <2> QED
    BY <2>1, <2>2, Zenon
<1> QED
  BY <1>1, <1>2, <1>3, TailByIndex, Zenon

\* What a wire holds, it carries.
LEMMA HeldIsCarried ==
    ASSUME NEW w, NEW t, NEW k, Holds(w, t, k)
    PROVE  Carries(w, k)
BY DEF Holds, Carries

-----------------------------------------------------------------------------
(* Callbacks, field by field. *)

\* What the callbacks make of a channel that does not close.
LEMMA CallbacksEffect ==
    ASSUME NEW e \in PoolChannel
    PROVE  LET f == Callbacks(e)
           IN  /\ e.onceClosed = "fulfilled" /\ Alive(e) =>
                     f = Reset(e.lease + 1)
               /\ ~ (e.onceClosed = "fulfilled" /\ Alive(e)) =>
                     /\ f.state = IF e.onceOpened = "fulfilled" /\ e.state = "CLOSED"
                                  THEN "OPEN" ELSE e.state
                     /\ f.onceOpened = IF e.onceOpened = "fulfilled"
                                       THEN "settled" ELSE e.onceOpened
                     /\ f.onceClosed = IF e.onceClosed = "fulfilled"
                                       THEN "settled" ELSE e.onceClosed
                     /\ f.dataFromPeerQueue = e.dataFromPeerQueue
                     /\ f.ack = IF e.ack = "draining" /\ e.dataFromPeerQueue = <<>>
                                THEN "sending" ELSE e.ack
                     /\ f.lease = e.lease
<1> DEFINE o == OpenedCallback(e)
           d == DrainedCallback(o)
<1>1. /\ o \in PoolChannel
      /\ o.state = IF e.onceOpened = "fulfilled" /\ e.state = "CLOSED"
                   THEN "OPEN" ELSE e.state
      /\ o.onceOpened = IF e.onceOpened = "fulfilled" THEN "settled"
                        ELSE e.onceOpened
      /\ o.onceClosed = e.onceClosed /\ o.ack = e.ack /\ o.lease = e.lease
      /\ o.dataFromPeerQueue = e.dataFromPeerQueue
  BY DEF OpenedCallback, PoolChannel, Promise, State
<1> HIDE DEF o
<1>2. /\ d \in PoolChannel
      /\ d.state = o.state /\ d.onceOpened = o.onceOpened
      /\ d.onceClosed = o.onceClosed /\ d.lease = o.lease
      /\ d.dataFromPeerQueue = o.dataFromPeerQueue
      /\ d.ack = IF o.ack = "draining" /\ o.dataFromPeerQueue = <<>>
                 THEN "sending" ELSE o.ack
  BY <1>1 DEF DrainedCallback, PoolChannel
<1> HIDE DEF d
<1>3. Callbacks(e) = ClosedCallback(d)
  BY DEF Callbacks, d, o
<1>4. d.state = "PERMANENTLY_CLOSED" <=> e.state = "PERMANENTLY_CLOSED"
  BY <1>1, <1>2
<1>5. CASE e.onceClosed = "fulfilled" /\ Alive(e)
  BY <1>1, <1>2, <1>3, <1>4, <1>5 DEF ClosedCallback, Alive
<1>6. CASE e.onceClosed # "fulfilled"
  <2>1. ClosedCallback(d) = d
    BY <1>1, <1>2, <1>6 DEF ClosedCallback
  <2> QED
    BY <1>1, <1>2, <1>3, <1>6, <2>1
<1>7. CASE e.onceClosed = "fulfilled" /\ ~ Alive(e)
  <2>1. ClosedCallback(d) = [d EXCEPT !.onceClosed = "settled"]
    BY <1>1, <1>2, <1>4, <1>7 DEF ClosedCallback, Alive
  <2>2. LET f == [d EXCEPT !.onceClosed = "settled"]
        IN  /\ f.state = d.state /\ f.onceOpened = d.onceOpened
            /\ f.onceClosed = "settled" /\ f.lease = d.lease /\ f.ack = d.ack
            /\ f.dataFromPeerQueue = d.dataFromPeerQueue
    BY <1>2 DEF PoolChannel
  <2> QED
    BY <1>1, <1>2, <1>3, <1>7, <2>1, <2>2
<1> QED
  BY <1>5, <1>6, <1>7

-----------------------------------------------------------------------------
(* Steps of one channel's two ends. *)

\* A message sent, unless the data channel carries nothing any more.
Posted(v, w, type, lease, L, R) ==
    IF Alive(L) /\ Alive(R) THEN Longer(v, w, type, lease) ELSE v = w

\* The local end opens: a new lease begins.
LEMMA LocalOpensLink ==
    ASSUME NEW L \in PoolChannel, NEW R \in PoolChannel, NEW wL, NEW wR,
           NEW n \in Nat, Linked(L, R, wL, wR, n),
           NEW L2 \in PoolChannel,
           NEW v, L.state \notin {"OPEN", "CLOSING"},
           Posted(v, wR, "OPEN", L.lease, L, R),
           L2.state = (IF L.state = "CLOSED" THEN "OPEN" ELSE L.state),
           L2.onceOpened = "settled", L2.onceClosed = L.onceClosed,
           L2.dataFromPeerQueue = L.dataFromPeerQueue, L2.ack = L.ack,
           L2.lease = L.lease
    PROVE  /\ Linked(L2, R, wL, v, n)
           /\ LeaseStep(L, R, n, L2, R, n)
<1> USE DEF Linked, EndOK, ToLocal, ToRemote, Counts, Joint, SameLease, LocalAhead,
        RemoteAhead, Alive, SentClose, TakenBy, AckOwed, PoolChannel, Promise, State
<1>0. \A w, t, j : Holds(w, t, j) => Carries(w, j)
  BY HeldIsCarried
<1>1. EndOK(L2)
  BY <1>0
<1>2. ToLocal(L2, wL)
  BY <1>0 DEF Longer, Posted
<1>3. ToRemote(R, v)
  BY <1>0 DEF Longer, Posted
<1>4. Counts(L2, R, wL, v, n)
  <2>1. TakenBy(L) \in Int /\ TakenBy(L2) = L.lease /\ TakenBy(L) <= L.lease
    OBVIOUS
  <2> HIDE DEF TakenBy
  <2>2. \A k \in Nat : Carries(v, k) => k <= TakenBy(L2)
    BY <2>1 DEF Longer, Posted
  <2> QED
    BY <1>0, <2>1, <2>2
<1>5. Alive(L2) /\ Alive(R) => Joint(L2, R, wL, v)
  BY <1>0 DEF Longer, Posted
<1>6. LeaseStep(L, R, n, L2, R, n)
  BY <1>0 DEF Longer, Posted, LeaseStep
<1> QED
  BY <1>1, <1>2, <1>3, <1>4, <1>5, <1>6 DEF Linked

\* The local end sends data.
LEMMA LocalSendsLink ==
    ASSUME NEW L \in PoolChannel, NEW R \in PoolChannel, NEW wL, NEW wR,
           NEW n \in Nat, Linked(L, R, wL, wR, n),
           NEW v, L.state = "OPEN",
           Posted(v, wR, "DATA", L.lease, L, R)
    PROVE  Linked(L, R, wL, v, n)
<1> USE DEF Linked, EndOK, ToLocal, ToRemote, Counts, Joint, SameLease, LocalAhead,
        RemoteAhead, Alive, SentClose, TakenBy, AckOwed, PoolChannel, Promise, State
<1>0. \A w, t, j : Holds(w, t, j) => Carries(w, j)
  BY HeldIsCarried
<1>1. ToRemote(R, v)
  <2>1. CASE ~ Alive(R)
    BY <2>1 DEF Posted
  <2>2. CASE Alive(R) /\ SameLease(L, R, wL, wR)
    <3>1. Longer(v, wR, "DATA", L.lease) /\ ~ Holds(wR, "CLOSE", L.lease)
      BY <2>2 DEF Posted
    <3>2. Ordered(v)
      BY <2>2, <3>1 DEF Longer
    <3>3. R.onceOpened = "pending" <=> Holds(wR, "OPEN", R.lease)
      BY <1>0, <2>2
    <3> QED
      BY <1>0, <2>2, <3>1, <3>2, <3>3 DEF Longer
  <2>3. CASE Alive(R) /\ LocalAhead(L, R, wL, wR)
    <3>1. Longer(v, wR, "DATA", L.lease) /\ ~ Holds(wR, "CLOSE", L.lease)
      BY <2>3 DEF Posted
    <3>2. Ordered(v)
      BY <2>3, <3>1 DEF Longer
    <3> QED
      BY <1>0, <2>3, <3>1, <3>2 DEF Longer
  <2> QED
    BY <2>1, <2>2, <2>3
<1>2. Counts(L, R, wL, v, n)
  BY <1>0 DEF Longer, Posted
<1>3. Alive(L) /\ Alive(R) => Joint(L, R, wL, v)
  BY <1>0 DEF Longer, Posted
<1> QED
  BY <1>1, <1>2, <1>3

\* The local end closes: its CLOSE is the last it sends.
LEMMA LocalClosesLink ==
    ASSUME NEW L \in PoolChannel, NEW R \in PoolChannel, NEW wL, NEW wR,
           NEW n \in Nat, Linked(L, R, wL, wR, n),
           NEW L2 \in PoolChannel,
           NEW v, L.state = "OPEN",
           Posted(v, wR, "CLOSE", L.lease, L, R),
           L2.state = "CLOSING", L2.onceOpened = L.onceOpened,
           L2.onceClosed = L.onceClosed,
           L2.dataFromPeerQueue = L.dataFromPeerQueue, L2.ack = L.ack,
           L2.lease = L.lease
    PROVE  /\ Linked(L2, R, wL, v, n)
           /\ LeaseStep(L, R, n, L2, R, n)
<1> USE DEF Linked, EndOK, ToLocal, ToRemote, Counts, Joint, SameLease, LocalAhead,
        RemoteAhead, Alive, SentClose, TakenBy, AckOwed, PoolChannel, Promise, State
<1>0. \A w, t, j : Holds(w, t, j) => Carries(w, j)
  BY HeldIsCarried
<1>1. EndOK(L2)
  BY <1>0
<1>2. ToLocal(L2, wL)
  BY <1>0 DEF Longer, Posted
<1>3. ToRemote(R, v)
  BY <1>0 DEF Longer, Posted
<1>4. Counts(L2, R, wL, v, n)
  BY <1>0 DEF Longer, Posted
<1>5. Alive(L2) /\ Alive(R) => Joint(L2, R, wL, v)
  BY <1>0 DEF Longer, Posted
<1>6. LeaseStep(L, R, n, L2, R, n)
  BY <1>0 DEF Longer, Posted, LeaseStep
<1> QED
  BY <1>1, <1>2, <1>3, <1>4, <1>5, <1>6 DEF Linked

\* The local end has handled what came before a CLOSE, and answers it.
LEMMA LocalDrainsLink ==
    ASSUME NEW L \in PoolChannel, NEW R \in PoolChannel, NEW wL, NEW wR,
           NEW n \in Nat, Linked(L, R, wL, wR, n),
           NEW L2 \in PoolChannel,
           NEW v, L.ack = "draining",
           Posted(v, wR, "CLOSE", L.lease, L, R),
           L2.state = L.state, L2.onceOpened = L.onceOpened,
           L2.onceClosed = L.onceClosed,
           L2.dataFromPeerQueue = L.dataFromPeerQueue, L2.ack = "sending",
           L2.lease = L.lease
    PROVE  /\ Linked(L2, R, wL, v, n)
           /\ LeaseStep(L, R, n, L2, R, n)
<1> USE DEF Linked, EndOK, ToLocal, ToRemote, Counts, Joint, SameLease, LocalAhead,
        RemoteAhead, Alive, SentClose, TakenBy, AckOwed, PoolChannel, Promise, State
<1>0. \A w, t, j : Holds(w, t, j) => Carries(w, j)
  BY HeldIsCarried
<1>1. EndOK(L2)
  BY <1>0
<1>2. ToLocal(L2, wL)
  BY <1>0 DEF Longer, Posted
<1>3. ToRemote(R, v)
  BY <1>0 DEF Longer, Posted
<1>4. Counts(L2, R, wL, v, n)
  BY <1>0 DEF Longer, Posted
<1>5. Alive(L2) /\ Alive(R) => Joint(L2, R, wL, v)
  BY <1>0 DEF Longer, Posted
<1>6. LeaseStep(L, R, n, L2, R, n)
  BY <1>0 DEF Longer, Posted, LeaseStep
<1> QED
  BY <1>1, <1>2, <1>3, <1>4, <1>5, <1>6 DEF Linked

\* The user of the local end handles an item of its queue.
LEMMA LocalHandlesLink ==
    ASSUME NEW L \in PoolChannel, NEW R \in PoolChannel, NEW wL, NEW wR,
           NEW n \in Nat, Linked(L, R, wL, wR, n),
           NEW L2 \in PoolChannel,
           L.dataFromPeerQueue # <<>>,
           L2.state = L.state, L2.onceOpened = L.onceOpened,
           L2.onceClosed = L.onceClosed,
           L2.dataFromPeerQueue = Tail(L.dataFromPeerQueue), L2.ack = L.ack,
           L2.lease = L.lease
    PROVE  /\ Linked(L2, R, wL, wR, n)
           /\ LeaseStep(L, R, n, L2, R, n)
<1> USE DEF Linked, EndOK, ToLocal, ToRemote, Counts, Joint, SameLease, LocalAhead,
        RemoteAhead, Alive, SentClose, TakenBy, AckOwed, PoolChannel, Promise, State
<1>0. \A w, t, j : Holds(w, t, j) => Carries(w, j)
  BY HeldIsCarried
<1>1. EndOK(L2)
  BY <1>0
<1>2. ToLocal(L2, wL)
  BY <1>0
<1>3. ToRemote(R, wR)
  BY <1>0
<1>4. Counts(L2, R, wL, wR, n)
  BY <1>0
<1>5. Alive(L2) /\ Alive(R) => Joint(L2, R, wL, wR)
  BY <1>0
<1>6. LeaseStep(L, R, n, L2, R, n)
  BY <1>0 DEF LeaseStep
<1> QED
  BY <1>1, <1>2, <1>3, <1>4, <1>5, <1>6 DEF Linked

\* Data reach the local end, of the lease it is in.
LEMMA LocalHearsDataLink ==
    ASSUME NEW L \in PoolChannel, NEW R \in PoolChannel, NEW wL, NEW wR,
           NEW n \in Nat, Linked(L, R, wL, wR, n),
           NEW L2 \in PoolChannel,
           NEW v, NEW k \in Nat, Shorter(v, wL, "DATA", k),
           L.ack # "sending",
           L2.state = L.state, L2.onceOpened = L.onceOpened,
           L2.onceClosed = L.onceClosed,
           L2.dataFromPeerQueue = Append(L.dataFromPeerQueue, k),
           L2.ack = L.ack, L2.lease = L.lease
    PROVE  /\ Linked(L2, R, v, wR, n)
           /\ LeaseStep(L, R, n, L2, R, n)
<1> USE DEF Linked, EndOK, ToLocal, ToRemote, Counts, Joint, SameLease, LocalAhead,
        RemoteAhead, Alive, SentClose, TakenBy, AckOwed, PoolChannel, Promise, State
<1>0. \A w, t, j : Holds(w, t, j) => Carries(w, j)
  BY HeldIsCarried
<1>1. EndOK(L2)
  <2>1. k = L.lease
    BY <1>0 DEF Shorter
  <2> DEFINE q == L.dataFromPeerQueue
  <2>2. q \in Seq(Nat) /\ \A i \in 1 .. Len(q) : q[i] = k
    BY <2>1
  <2> HIDE DEF q
  <2>3. \A i \in 1 .. Len(Append(q, k)) : Append(q, k)[i] = k
    BY <2>2
  <2> QED
    BY <2>1, <2>3 DEF q
<1>2. ToLocal(L2, v)
  BY <1>0 DEF Shorter
<1>3. ToRemote(R, wR)
  BY <1>0 DEF Shorter
<1>4. Counts(L2, R, v, wR, n)
  BY <1>0 DEF Shorter
<1>5. Alive(L2) /\ Alive(R) => Joint(L2, R, v, wR)
  BY <1>0 DEF Shorter
<1>6. LeaseStep(L, R, n, L2, R, n)
  BY <1>0 DEF Shorter, LeaseStep
<1> QED
  BY <1>1, <1>2, <1>3, <1>4, <1>5, <1>6 DEF Linked

\* A CLOSE reaches the open local end.
LEMMA LocalHearsCloseLink ==
    ASSUME NEW L \in PoolChannel, NEW R \in PoolChannel, NEW wL, NEW wR,
           NEW n \in Nat, Linked(L, R, wL, wR, n),
           NEW L2 \in PoolChannel,
           NEW v, NEW k \in Nat, Shorter(v, wL, "CLOSE", k),
           L.ack # "sending", L.state = "OPEN",
           L2.state = "CLOSING", L2.onceOpened = L.onceOpened,
           L2.onceClosed = L.onceClosed,
           L2.dataFromPeerQueue = L.dataFromPeerQueue, L2.ack = "draining",
           L2.lease = L.lease
    PROVE  /\ Linked(L2, R, v, wR, n)
           /\ LeaseStep(L, R, n, L2, R, n)
<1> USE DEF Linked, EndOK, ToLocal, ToRemote, Counts, Joint, SameLease, LocalAhead,
        RemoteAhead, Alive, SentClose, TakenBy, AckOwed, PoolChannel, Promise, State
<1>0. \A w, t, j : Holds(w, t, j) => Carries(w, j)
  BY HeldIsCarried
<1>1. EndOK(L2)
  BY <1>0
<1>2. ToLocal(L2, v)
  BY <1>0 DEF Shorter
<1>3. ToRemote(R, wR)
  BY <1>0 DEF Shorter
<1>4. Counts(L2, R, v, wR, n)
  BY <1>0 DEF Shorter
<1>5. Alive(L2) /\ Alive(R) => Joint(L2, R, v, wR)
  BY <1>0 DEF Shorter
<1>6. LeaseStep(L, R, n, L2, R, n)
  BY <1>0 DEF Shorter, LeaseStep
<1> QED
  BY <1>1, <1>2, <1>3, <1>4, <1>5, <1>6 DEF Linked

\* A CLOSE reaches the closing local end: its lease is over.
LEMMA LocalHearsAnswerLink ==
    ASSUME NEW L \in PoolChannel, NEW R \in PoolChannel, NEW wL, NEW wR,
           NEW n \in Nat, Linked(L, R, wL, wR, n),
           NEW L2 \in PoolChannel,
           NEW v, NEW k \in Nat, Shorter(v, wL, "CLOSE", k),
           L.ack # "sending", L.state = "CLOSING",
           L2.state = "CLOSED", L2.onceOpened = "pending",
           L2.onceClosed = "pending", L2.dataFromPeerQueue = <<>>,
           L2.ack = "none", L2.lease = L.lease + 1
    PROVE  /\ Linked(L2, R, v, wR, n)
           /\ LeaseStep(L, R, n, L2, R, n)
<1> USE DEF Linked, EndOK, ToLocal, ToRemote, Counts, Joint, SameLease, LocalAhead,
        RemoteAhead, Alive, SentClose, TakenBy, AckOwed, PoolChannel, Promise, State
<1>0. \A w, t, j : Holds(w, t, j) => Carries(w, j)
  BY HeldIsCarried
<1>1. EndOK(L2)
  BY <1>0
<1>2. ToLocal(L2, v)
  BY <1>0 DEF Shorter
<1>3. ToRemote(R, wR)
  BY <1>0 DEF Shorter
<1>4. Counts(L2, R, v, wR, n)
  BY <1>0 DEF Shorter
<1>5. Alive(L2) /\ Alive(R) => Joint(L2, R, v, wR)
  BY <1>0 DEF Shorter
<1>6. LeaseStep(L, R, n, L2, R, n)
  BY <1>0 DEF Shorter, LeaseStep
<1> QED
  BY <1>1, <1>2, <1>3, <1>4, <1>5, <1>6 DEF Linked

\* The answer of the local end was sent: its lease is over.
LEMMA LocalAckedLink ==
    ASSUME NEW L \in PoolChannel, NEW R \in PoolChannel, NEW wL, NEW wR,
           NEW n \in Nat, Linked(L, R, wL, wR, n),
           NEW L2 \in PoolChannel,
           L.ack = "sending", Alive(L),
           L2.state = "CLOSED", L2.onceOpened = "pending",
           L2.onceClosed = "pending", L2.dataFromPeerQueue = <<>>,
           L2.ack = "none", L2.lease = L.lease + 1
    PROVE  /\ Linked(L2, R, wL, wR, n)
           /\ LeaseStep(L, R, n, L2, R, n)
<1> USE DEF Linked, EndOK, ToLocal, ToRemote, Counts, Joint, SameLease, LocalAhead,
        RemoteAhead, Alive, SentClose, TakenBy, AckOwed, PoolChannel, Promise, State
<1>0. \A w, t, j : Holds(w, t, j) => Carries(w, j)
  BY HeldIsCarried
<1>1. EndOK(L2)
  BY <1>0
<1>2. ToLocal(L2, wL)
  BY <1>0
<1>3. ToRemote(R, wR)
  BY <1>0
<1>4. Counts(L2, R, wL, wR, n)
  BY <1>0
<1>5. Alive(L2) /\ Alive(R) => Joint(L2, R, wL, wR)
  BY <1>0
<1>6. LeaseStep(L, R, n, L2, R, n)
  BY <1>0 DEF LeaseStep
<1> QED
  BY <1>1, <1>2, <1>3, <1>4, <1>5, <1>6 DEF Linked

\* The data channel closes under the local end.
LEMMA LocalDiesLink ==
    ASSUME NEW L \in PoolChannel, NEW R \in PoolChannel, NEW wL, NEW wR,
           NEW n \in Nat, Linked(L, R, wL, wR, n),
           NEW L2 \in PoolChannel,
           NEW v, \A k : ~ Carries(v, k), Ordered(v), Alive(L), L.onceOpened # "fulfilled",
           L2.state = "PERMANENTLY_CLOSED", L2.onceOpened = L.onceOpened,
           L2.onceClosed = "settled",
           L2.dataFromPeerQueue = L.dataFromPeerQueue, L2.ack = L.ack,
           L2.lease = L.lease
    PROVE  /\ Linked(L2, R, v, wR, n)
           /\ LeaseStep(L, R, n, L2, R, n)
<1> USE DEF Linked, EndOK, ToLocal, ToRemote, Counts, Joint, SameLease, LocalAhead,
        RemoteAhead, Alive, SentClose, TakenBy, AckOwed, PoolChannel, Promise, State
<1>0. \A w, t, j : Holds(w, t, j) => Carries(w, j)
  BY HeldIsCarried
<1>1. EndOK(L2)
  BY <1>0
<1>2. ToLocal(L2, v)
  BY <1>0
<1>3. ToRemote(R, wR)
  BY <1>0
<1>4. Counts(L2, R, v, wR, n)
  BY <1>0
<1>5. Alive(L2) /\ Alive(R) => Joint(L2, R, v, wR)
  BY <1>0
<1>6. LeaseStep(L, R, n, L2, R, n)
  BY <1>0 DEF LeaseStep
<1> QED
  BY <1>1, <1>2, <1>3, <1>4, <1>5, <1>6 DEF Linked

\* The remote end sends data.
LEMMA RemoteSendsLink ==
    ASSUME NEW L \in PoolChannel, NEW R \in PoolChannel, NEW wL, NEW wR,
           NEW n \in Nat, Linked(L, R, wL, wR, n),
           NEW v, R.state = "OPEN",
           Posted(v, wL, "DATA", R.lease, L, R)
    PROVE  Linked(L, R, v, wR, n)
<1> USE DEF Linked, EndOK, ToLocal, ToRemote, Counts, Joint, SameLease, LocalAhead,
        RemoteAhead, Alive, SentClose, TakenBy, AckOwed, PoolChannel, Promise, State
<1>0. \A w, t, j : Holds(w, t, j) => Carries(w, j)
  BY HeldIsCarried
<1>1. ToLocal(L, v)
  BY <1>0 DEF Longer, Posted
<1>2. Counts(L, R, v, wR, n)
  BY <1>0 DEF Longer, Posted
<1>3. Alive(L) /\ Alive(R) => Joint(L, R, v, wR)
  BY <1>0 DEF Longer, Posted
<1> QED
  BY <1>1, <1>2, <1>3

\* The remote end closes: its CLOSE is the last it sends.
LEMMA RemoteClosesLink ==
    ASSUME NEW L \in PoolChannel, NEW R \in PoolChannel, NEW wL, NEW wR,
           NEW n \in Nat, Linked(L, R, wL, wR, n),
           NEW R2 \in PoolChannel,
           NEW v, R.state = "OPEN",
           Posted(v, wL, "CLOSE", R.lease, L, R),
           R2.state = "CLOSING", R2.onceOpened = R.onceOpened,
           R2.onceClosed = R.onceClosed,
           R2.dataFromPeerQueue = R.dataFromPeerQueue, R2.ack = R.ack,
           R2.lease = R.lease
    PROVE  /\ Linked(L, R2, v, wR, n)
           /\ LeaseStep(L, R, n, L, R2, n)
<1> USE DEF Linked, EndOK, ToLocal, ToRemote, Counts, Joint, SameLease, LocalAhead,
        RemoteAhead, Alive, SentClose, TakenBy, AckOwed, PoolChannel, Promise, State
<1>0. \A w, t, j : Holds(w, t, j) => Carries(w, j)
  BY HeldIsCarried
<1>1. EndOK(R2)
  BY <1>0
<1>2. ToLocal(L, v)
  BY <1>0 DEF Longer, Posted
<1>3. ToRemote(R2, wR)
  BY <1>0 DEF Longer, Posted
<1>4. Counts(L, R2, v, wR, n)
  BY <1>0 DEF Longer, Posted
<1>5. Alive(L) /\ Alive(R2) => Joint(L, R2, v, wR)
  BY <1>0 DEF Longer, Posted
<1>6. LeaseStep(L, R, n, L, R2, n)
  BY <1>0 DEF Longer, Posted, LeaseStep
<1> QED
  BY <1>1, <1>2, <1>3, <1>4, <1>5, <1>6 DEF Linked

\* The remote end has handled what came before a CLOSE, and answers it.
LEMMA RemoteDrainsLink ==
    ASSUME NEW L \in PoolChannel, NEW R \in PoolChannel, NEW wL, NEW wR,
           NEW n \in Nat, Linked(L, R, wL, wR, n),
           NEW R2 \in PoolChannel,
           NEW v, R.ack = "draining",
           Posted(v, wL, "CLOSE", R.lease, L, R),
           R2.state = R.state, R2.onceOpened = R.onceOpened,
           R2.onceClosed = R.onceClosed,
           R2.dataFromPeerQueue = R.dataFromPeerQueue, R2.ack = "sending",
           R2.lease = R.lease
    PROVE  /\ Linked(L, R2, v, wR, n)
           /\ LeaseStep(L, R, n, L, R2, n)
<1> USE DEF Linked, EndOK, ToLocal, ToRemote, Counts, Joint, SameLease, LocalAhead,
        RemoteAhead, Alive, SentClose, TakenBy, AckOwed, PoolChannel, Promise, State
<1>0. \A w, t, j : Holds(w, t, j) => Carries(w, j)
  BY HeldIsCarried
<1>1. EndOK(R2)
  BY <1>0
<1>2. ToLocal(L, v)
  BY <1>0 DEF Longer, Posted
<1>3. ToRemote(R2, wR)
  BY <1>0 DEF Longer, Posted
<1>4. Counts(L, R2, v, wR, n)
  BY <1>0 DEF Longer, Posted
<1>5. Alive(L) /\ Alive(R2) => Joint(L, R2, v, wR)
  BY <1>0 DEF Longer, Posted
<1>6. LeaseStep(L, R, n, L, R2, n)
  BY <1>0 DEF Longer, Posted, LeaseStep
<1> QED
  BY <1>1, <1>2, <1>3, <1>4, <1>5, <1>6 DEF Linked

\* The user of the remote end handles an item of its queue.
LEMMA RemoteHandlesLink ==
    ASSUME NEW L \in PoolChannel, NEW R \in PoolChannel, NEW wL, NEW wR,
           NEW n \in Nat, Linked(L, R, wL, wR, n),
           NEW R2 \in PoolChannel,
           R.dataFromPeerQueue # <<>>,
           R2.state = R.state, R2.onceOpened = R.onceOpened,
           R2.onceClosed = R.onceClosed,
           R2.dataFromPeerQueue = Tail(R.dataFromPeerQueue), R2.ack = R.ack,
           R2.lease = R.lease
    PROVE  /\ Linked(L, R2, wL, wR, n)
           /\ LeaseStep(L, R, n, L, R2, n)
<1> USE DEF Linked, EndOK, ToLocal, ToRemote, Counts, Joint, SameLease, LocalAhead,
        RemoteAhead, Alive, SentClose, TakenBy, AckOwed, PoolChannel, Promise, State
<1>0. \A w, t, j : Holds(w, t, j) => Carries(w, j)
  BY HeldIsCarried
<1>1. EndOK(R2)
  BY <1>0
<1>2. ToLocal(L, wL)
  BY <1>0
<1>3. ToRemote(R2, wR)
  BY <1>0
<1>4. Counts(L, R2, wL, wR, n)
  BY <1>0
<1>5. Alive(L) /\ Alive(R2) => Joint(L, R2, wL, wR)
  BY <1>0
<1>6. LeaseStep(L, R, n, L, R2, n)
  BY <1>0 DEF LeaseStep
<1> QED
  BY <1>1, <1>2, <1>3, <1>4, <1>5, <1>6 DEF Linked

\* Data reach the remote end, of the lease it is in.
LEMMA RemoteHearsDataLink ==
    ASSUME NEW L \in PoolChannel, NEW R \in PoolChannel, NEW wL, NEW wR,
           NEW n \in Nat, Linked(L, R, wL, wR, n),
           NEW R2 \in PoolChannel,
           NEW v, NEW k \in Nat, Shorter(v, wR, "DATA", k),
           R.ack # "sending",
           R2.state = R.state, R2.onceOpened = R.onceOpened,
           R2.onceClosed = R.onceClosed,
           R2.dataFromPeerQueue = Append(R.dataFromPeerQueue, k),
           R2.ack = R.ack, R2.lease = R.lease
    PROVE  /\ Linked(L, R2, wL, v, n)
           /\ LeaseStep(L, R, n, L, R2, n)
<1> USE DEF Linked, EndOK, ToLocal, ToRemote, Counts, Joint, SameLease, LocalAhead,
        RemoteAhead, Alive, SentClose, TakenBy, AckOwed, PoolChannel, Promise, State
<1>0. \A w, t, j : Holds(w, t, j) => Carries(w, j)
  BY HeldIsCarried
<1>a. k = R.lease
  BY <1>0 DEF Shorter
<1>1. EndOK(R2)
  <2>1. k = R.lease
    BY <1>a DEF Shorter
  <2> DEFINE q == R.dataFromPeerQueue
  <2>2. q \in Seq(Nat) /\ \A i \in 1 .. Len(q) : q[i] = k
    BY <2>1
  <2> HIDE DEF q
  <2>3. \A i \in 1 .. Len(Append(q, k)) : Append(q, k)[i] = k
    BY <2>2
  <2> QED
    BY <2>1, <2>3 DEF q
<1>2. ToLocal(L, wL)
  BY <1>0 DEF Shorter
<1>3. ToRemote(R2, v)
  BY <1>0 DEF Shorter
<1>4. Counts(L, R2, wL, v, n)
  BY <1>0 DEF Shorter
<1>5. Alive(L) /\ Alive(R2) => Joint(L, R2, wL, v)
  BY <1>0 DEF Shorter
<1>6. LeaseStep(L, R, n, L, R2, n)
  BY <1>0 DEF Shorter, LeaseStep
<1> QED
  BY <1>1, <1>2, <1>3, <1>4, <1>5, <1>6 DEF Linked

\* A CLOSE reaches the open remote end.
LEMMA RemoteHearsCloseLink ==
    ASSUME NEW L \in PoolChannel, NEW R \in PoolChannel, NEW wL, NEW wR,
           NEW n \in Nat, Linked(L, R, wL, wR, n),
           NEW R2 \in PoolChannel,
           NEW v, NEW k \in Nat, Shorter(v, wR, "CLOSE", k),
           R.ack # "sending", R.state = "OPEN",
           R2.state = "CLOSING", R2.onceOpened = R.onceOpened,
           R2.onceClosed = R.onceClosed,
           R2.dataFromPeerQueue = R.dataFromPeerQueue, R2.ack = "draining",
           R2.lease = R.lease
    PROVE  /\ Linked(L, R2, wL, v, n)
           /\ LeaseStep(L, R, n, L, R2, n)
<1> USE DEF Linked, EndOK, ToLocal, ToRemote, Counts, Joint, SameLease, LocalAhead,
        RemoteAhead, Alive, SentClose, TakenBy, AckOwed, PoolChannel, Promise, State
<1>0. \A w, t, j : Holds(w, t, j) => Carries(w, j)
  BY HeldIsCarried
<1>a. k = R.lease
  BY <1>0 DEF Shorter
<1>1. EndOK(R2)
  BY <1>0
<1>2. ToLocal(L, wL)
  BY <1>0 DEF Shorter
<1>3. ToRemote(R2, v)
  BY <1>0, <1>a DEF Shorter
<1>4. Counts(L, R2, wL, v, n)
  BY <1>0 DEF Shorter
<1>5. Alive(L) /\ Alive(R2) => Joint(L, R2, wL, v)
  BY <1>0 DEF Shorter
<1>6. LeaseStep(L, R, n, L, R2, n)
  BY <1>0 DEF Shorter, LeaseStep
<1> QED
  BY <1>1, <1>2, <1>3, <1>4, <1>5, <1>6 DEF Linked

\* A CLOSE reaches the closing remote end: its lease is over.
LEMMA RemoteHearsAnswerLink ==
    ASSUME NEW L \in PoolChannel, NEW R \in PoolChannel, NEW wL, NEW wR,
           NEW n \in Nat, Linked(L, R, wL, wR, n),
           NEW R2 \in PoolChannel,
           NEW v, NEW k \in Nat, Shorter(v, wR, "CLOSE", k),
           R.ack # "sending", R.state = "CLOSING",
           R2.state = "CLOSED", R2.onceOpened = "pending",
           R2.onceClosed = "pending", R2.dataFromPeerQueue = <<>>,
           R2.ack = "none", R2.lease = R.lease + 1
    PROVE  /\ Linked(L, R2, wL, v, n)
           /\ LeaseStep(L, R, n, L, R2, n)
<1> USE DEF Linked, EndOK, ToLocal, ToRemote, Counts, Joint, SameLease, LocalAhead,
        RemoteAhead, Alive, SentClose, TakenBy, AckOwed, PoolChannel, Promise, State
<1>0. \A w, t, j : Holds(w, t, j) => Carries(w, j)
  BY HeldIsCarried
<1>a. k = R.lease
  BY <1>0 DEF Shorter
<1>1. EndOK(R2)
  BY <1>0
<1>2. ToLocal(L, wL)
  BY <1>0 DEF Shorter
<1>3. ToRemote(R2, v)
  BY <1>0 DEF Shorter
<1>4. Counts(L, R2, wL, v, n)
  BY <1>0 DEF Shorter
<1>5. Alive(L) /\ Alive(R2) => Joint(L, R2, wL, v)
  BY <1>0 DEF Shorter
<1>6. LeaseStep(L, R, n, L, R2, n)
  BY <1>0, <1>a DEF Shorter, LeaseStep
<1> QED
  BY <1>1, <1>2, <1>3, <1>4, <1>5, <1>6 DEF Linked

\* The answer of the remote end was sent: its lease is over.
LEMMA RemoteAckedLink ==
    ASSUME NEW L \in PoolChannel, NEW R \in PoolChannel, NEW wL, NEW wR,
           NEW n \in Nat, Linked(L, R, wL, wR, n),
           NEW R2 \in PoolChannel,
           R.ack = "sending", Alive(R),
           R2.state = "CLOSED", R2.onceOpened = "pending",
           R2.onceClosed = "pending", R2.dataFromPeerQueue = <<>>,
           R2.ack = "none", R2.lease = R.lease + 1
    PROVE  /\ Linked(L, R2, wL, wR, n)
           /\ LeaseStep(L, R, n, L, R2, n)
<1> USE DEF Linked, EndOK, ToLocal, ToRemote, Counts, Joint, SameLease, LocalAhead,
        RemoteAhead, Alive, SentClose, TakenBy, AckOwed, PoolChannel, Promise, State
<1>0. \A w, t, j : Holds(w, t, j) => Carries(w, j)
  BY HeldIsCarried
<1>1. EndOK(R2)
  BY <1>0
<1>2. ToLocal(L, wL)
  BY <1>0
<1>3. ToRemote(R2, wR)
  BY <1>0
<1>4. Counts(L, R2, wL, wR, n)
  BY <1>0
<1>5. Alive(L) /\ Alive(R2) => Joint(L, R2, wL, wR)
  <2> SUFFICES ASSUME Alive(L) PROVE Joint(L, R2, wL, wR)
    OBVIOUS
  <2>0. ~ Carries(wR, R.lease) /\ \A k \in Nat : Carries(wR, k) => k = R.lease + 1
    OBVIOUS
  <2>1. CASE SameLease(L, R, wL, wR)
    <3>1. \A k \in Nat : ~ Carries(wR, k)
      BY <2>0, <2>1
    <3> QED
      BY <1>0, <2>1, <3>1
  <2>2. CASE LocalAhead(L, R, wL, wR)
    <3>1. L.state = "CLOSED" => \A k \in Nat : ~ Carries(wR, k)
      BY <2>0, <2>2
    <3>2. SameLease(L, R2, wL, wR)
      BY <1>0, <2>2, <3>1
    <3> QED
      BY <3>2
  <2> QED
    BY <2>1, <2>2
<1>6. LeaseStep(L, R, n, L, R2, n)
  BY <1>0 DEF LeaseStep
<1> QED
  BY <1>1, <1>2, <1>3, <1>4, <1>5, <1>6 DEF Linked

\* The data channel closes under the remote end.
LEMMA RemoteDiesLink ==
    ASSUME NEW L \in PoolChannel, NEW R \in PoolChannel, NEW wL, NEW wR,
           NEW n \in Nat, Linked(L, R, wL, wR, n),
           NEW R2 \in PoolChannel,
           NEW v, \A k : ~ Carries(v, k), Ordered(v), Alive(R), R.onceOpened # "fulfilled",
           R2.state = "PERMANENTLY_CLOSED", R2.onceOpened = R.onceOpened,
           R2.onceClosed = "settled",
           R2.dataFromPeerQueue = R.dataFromPeerQueue, R2.ack = R.ack,
           R2.lease = R.lease
    PROVE  /\ Linked(L, R2, wL, v, n)
           /\ LeaseStep(L, R, n, L, R2, n)
<1> USE DEF Linked, EndOK, ToLocal, ToRemote, Counts, Joint, SameLease, LocalAhead,
        RemoteAhead, Alive, SentClose, TakenBy, AckOwed, PoolChannel, Promise, State
<1>0. \A w, t, j : Holds(w, t, j) => Carries(w, j)
  BY HeldIsCarried
<1>1. EndOK(R2)
  BY <1>0
<1>2. ToLocal(L, wL)
  BY <1>0
<1>3. ToRemote(R2, v)
  BY <1>0
<1>4. Counts(L, R2, wL, v, n)
  BY <1>0
<1>5. Alive(L) /\ Alive(R2) => Joint(L, R2, wL, v)
  BY <1>0
<1>6. LeaseStep(L, R, n, L, R2, n)
  BY <1>0 DEF LeaseStep
<1> QED
  BY <1>1, <1>2, <1>3, <1>4, <1>5, <1>6 DEF Linked

\* An OPEN reaches the remote end, which joins the lease.
LEMMA RemoteHearsOpenLink ==
    ASSUME NEW L \in PoolChannel, NEW R \in PoolChannel, NEW wL, NEW wR,
           NEW n \in Nat, Linked(L, R, wL, wR, n),
           NEW R2 \in PoolChannel,
           NEW v, NEW k \in Nat, Shorter(v, wR, "OPEN", k),
           R.ack # "sending", R.onceOpened # "fulfilled",
           R2.state = "OPEN", R2.onceOpened = "settled",
           R2.onceClosed = R.onceClosed,
           R2.dataFromPeerQueue = R.dataFromPeerQueue, R2.ack = R.ack,
           R2.lease = R.lease
    PROVE  /\ Linked(L, R2, wL, v, n + 1)
           /\ LeaseStep(L, R, n, L, R2, n + 1)
<1> USE DEF Linked, EndOK, ToLocal, ToRemote, Counts, Joint, SameLease, LocalAhead,
        RemoteAhead, Alive, SentClose, TakenBy, AckOwed, PoolChannel, Promise, State
<1>0. \A w, t, j : Holds(w, t, j) => Carries(w, j)
  BY HeldIsCarried
<1>a. k = R.lease
  BY <1>0 DEF Shorter
<1>1. EndOK(R2)
  BY <1>0, <1>a DEF Shorter
<1>2. ToLocal(L, wL)
  BY <1>0 DEF Shorter
<1>3. ToRemote(R2, v)
  BY <1>0, <1>a DEF Shorter
<1>4. Counts(L, R2, wL, v, n + 1)
  BY <1>0 DEF Shorter
<1>5. Alive(L) /\ Alive(R2) => Joint(L, R2, wL, v)
  BY <1>0 DEF Shorter
<1>6. LeaseStep(L, R, n, L, R2, n + 1)
  BY <1>0 DEF Shorter, LeaseStep
<1> QED
  BY <1>1, <1>2, <1>3, <1>4, <1>5, <1>6 DEF Linked

\* An OPEN reaches the remote end before its wrapper is made.
LEMMA RemoteHearsEarlyLink ==
    ASSUME NEW L \in PoolChannel, NEW R \in PoolChannel, NEW wL, NEW wR,
           NEW n \in Nat, Linked(L, R, wL, wR, n),
           NEW R2 \in PoolChannel,
           NEW v, NEW k \in Nat, Shorter(v, wR, "OPEN", k),
           R.state = "CLOSED",
           R2.state = R.state, R2.onceOpened = "fulfilled",
           R2.onceClosed = R.onceClosed,
           R2.dataFromPeerQueue = R.dataFromPeerQueue, R2.ack = R.ack,
           R2.lease = R.lease
    PROVE  /\ Linked(L, R2, wL, v, n)
           /\ LeaseStep(L, R, n, L, R2, n)
<1> USE DEF Linked, EndOK, ToLocal, ToRemote, Counts, Joint, SameLease, LocalAhead,
        RemoteAhead, Alive, SentClose, TakenBy, AckOwed, PoolChannel, Promise, State
<1>0. \A w, t, j : Holds(w, t, j) => Carries(w, j)
  BY HeldIsCarried
<1>a. k = R.lease
  BY <1>0 DEF Shorter
<1>1. EndOK(R2)
  BY <1>0
<1>2. ToLocal(L, wL)
  BY <1>0 DEF Shorter
<1>3. ToRemote(R2, v)
  BY <1>0, <1>a DEF Shorter
<1>4. Counts(L, R2, wL, v, n)
  BY <1>0 DEF Shorter
<1>5. Alive(L) /\ Alive(R2) => Joint(L, R2, wL, v)
  BY <1>0 DEF Shorter
<1>6. LeaseStep(L, R, n, L, R2, n)
  BY <1>0 DEF Shorter, LeaseStep
<1> QED
  BY <1>1, <1>2, <1>3, <1>4, <1>5, <1>6 DEF Linked

\* The wrapper that heard an early OPEN joins the lease.
LEMMA RemoteWrappedLink ==
    ASSUME NEW L \in PoolChannel, NEW R \in PoolChannel, NEW wL, NEW wR,
           NEW n \in Nat, Linked(L, R, wL, wR, n),
           NEW R2 \in PoolChannel,
           R.state = "CLOSED", R.onceOpened = "fulfilled",
           R2.state = "OPEN", R2.onceOpened = "settled",
           R2.onceClosed = R.onceClosed,
           R2.dataFromPeerQueue = R.dataFromPeerQueue, R2.ack = R.ack,
           R2.lease = R.lease
    PROVE  /\ Linked(L, R2, wL, wR, n + 1)
           /\ LeaseStep(L, R, n, L, R2, n + 1)
<1> USE DEF Linked, EndOK, ToLocal, ToRemote, Counts, Joint, SameLease, LocalAhead,
        RemoteAhead, Alive, SentClose, TakenBy, AckOwed, PoolChannel, Promise, State
<1>0. \A w, t, j : Holds(w, t, j) => Carries(w, j)
  BY HeldIsCarried
<1>1. EndOK(R2)
  BY <1>0
<1>2. ToLocal(L, wL)
  BY <1>0
<1>3. ToRemote(R2, wR)
  BY <1>0
<1>4. Counts(L, R2, wL, wR, n + 1)
  BY <1>0
<1>5. Alive(L) /\ Alive(R2) => Joint(L, R2, wL, wR)
  BY <1>0
<1>6. LeaseStep(L, R, n, L, R2, n + 1)
  BY <1>0 DEF LeaseStep
<1> QED
  BY <1>1, <1>2, <1>3, <1>4, <1>5, <1>6 DEF Linked

-----------------------------------------------------------------------------
(* Steps of the pool. *)

\* What a step did to channel c; to the others it did nothing.
StepOf(c) ==
    LeaseStep(chan["local"][c], chan["remote"][c], accepted[c],
              chan'["local"][c], chan'["remote"][c], accepted'[c])

\* The step leaves the other channels alone.
Elsewhere(c) ==
    \A d \in Channels : d # c =>
        /\ accepted'[d] = accepted[d]
        /\ \A s \in Sides : /\ chan'[s][d] = chan[s][d]
                            /\ wire'[s][d] = wire[s][d]
                            /\ dc'[s][d] = dc[s][d]

\* A step that is a step of channel c and keeps its link.
Steps(c) == Elsewhere(c) /\ LinkOf(c)' /\ Around(c)' /\ StepOf(c)

\* An end whose answer is due.
AnswerDue(e) == e.ack = "draining" /\ e.dataFromPeerQueue = <<>>

\* What is known of channel c before a step.
LEMMA Knows ==
    ASSUME IInv, LinkInv, NEW c \in Channels, c \notin missed
    PROVE  /\ "local" \in Sides /\ "remote" \in Sides
           /\ Peer("local") = "remote" /\ Peer("remote") = "local"
           /\ \A s \in Sides : /\ chan[s][c] \in PoolChannel
                               /\ wire[s][c] \in Seq(Message)
           /\ accepted[c] \in Nat
           /\ LinkOf(c) /\ Around(c)
           /\ Broken(c) <=> ~ (Alive(chan["local"][c]) /\ Alive(chan["remote"][c]))
           /\ wire \in WireType
<1>1. "local" \in Sides /\ "remote" \in Sides /\ \A s \in Sides : s = "local" \/ s = "remote"
  BY DEF Sides
<1>2. LinkOf(c) /\ Around(c)
  BY DEF LinkInv
<1> QED
  BY <1>1, <1>2 DEF IInv, TypeOK, Around, Broken, Peer, WireType

\* What a task that leaves channel c of end s as e, with q unread, comes to.
TaskDone(s, c, e, q) ==
    /\ chan'[s][c] = Callbacks(e) /\ chan'[Peer(s)][c] = chan[Peer(s)][c]
    /\ wire'[s][c] = q
    /\ wire'[Peer(s)][c] =
          IF AnswerDue(e) /\ ~ Broken(c)
          THEN Append(wire[Peer(s)][c], Msg("CLOSE", e.lease))
          ELSE wire[Peer(s)][c]
    /\ accepted'[c] = IF s = "remote" /\ e.onceOpened = "fulfilled"
                      THEN accepted[c] + 1 ELSE accepted[c]
    /\ (\A t \in Sides, d \in Channels : d # c => dc'[t][d] = dc[t][d])
          => Elsewhere(c)

\* A task, on channel c and elsewhere.
LEMMA TaskEffect ==
    ASSUME IInv, NEW s \in Sides, NEW c \in Channels,
           NEW e \in PoolChannel, NEW q \in Seq(Message), NEW w, NEW p,
           w = [wire EXCEPT ![s][c] = q],
           RunCallbacks(s, c, e, w, p)
    PROVE  TaskDone(s, c, e, q)
<1>1. /\ Peer(s) \in Sides /\ Peer(s) # s
      /\ chan \in [Sides -> [Channels -> PoolChannel]]
      /\ wire \in [Sides -> [Channels -> Seq(Message)]]
      /\ accepted \in [Channels -> Nat]
  BY DEF Peer, Sides, IInv, TypeOK
<1>2. DrainedCallback(e).ack # e.ack <=> AnswerDue(e)
  BY DEF DrainedCallback, AnswerDue, PoolChannel
<1>3. /\ chan' = [chan EXCEPT ![s][c] = Callbacks(e)]
      /\ wire' = IF AnswerDue(e) THEN Post(w, s, c, Msg("CLOSE", e.lease)) ELSE w
      /\ accepted' = IF s = "remote" /\ e.onceOpened = "fulfilled"
                     THEN [accepted EXCEPT ![c] = @ + 1] ELSE accepted
  BY <1>2 DEF RunCallbacks
<1>4. /\ w[s][c] = q
      /\ \A t \in Sides, d \in Channels : t # s \/ d # c => w[t][d] = wire[t][d]
      /\ DOMAIN w = Sides /\ \A t \in Sides : DOMAIN w[t] = Channels
  BY <1>1
<1> DEFINE longer == Append(wire[Peer(s)][c], Msg("CLOSE", e.lease))
<1>5. CASE AnswerDue(e) /\ ~ Broken(c)
  <2>1. wire' = [w EXCEPT ![Peer(s)][c] = longer]
    BY <1>1, <1>3, <1>4, <1>5 DEF Post
  <2> HIDE DEF longer
  <2>2. /\ wire'[s][c] = q /\ wire'[Peer(s)][c] = longer
        /\ \A t \in Sides, d \in Channels : d # c => wire'[t][d] = wire[t][d]
    BY <1>1, <1>4, <2>1
  <2> QED
    BY <1>1, <1>3, <1>5, <2>2 DEF Elsewhere, longer, TaskDone
<1>6. CASE ~ (AnswerDue(e) /\ ~ Broken(c))
  <2>1. wire' = w
    BY <1>3, <1>6 DEF Post
  <2>2. /\ wire'[s][c] = q /\ wire'[Peer(s)][c] = wire[Peer(s)][c]
        /\ \A t \in Sides, d \in Channels : d # c => wire'[t][d] = wire[t][d]
    BY <1>1, <1>4, <2>1
  <2> QED
    BY <1>1, <1>3, <1>6, <2>2 DEF Elsewhere, TaskDone
<1> QED
  BY <1>5, <1>6

\* The answer to a CLOSE goes out once nothing is left to handle.
LEMMA LocalFinishes ==
    ASSUME NEW e \in PoolChannel, NEW R \in PoolChannel, NEW wL,
           NEW wR \in Seq(Message), NEW n \in Nat, Linked(e, R, wL, wR, n),
           e.onceClosed # "fulfilled", e.onceOpened # "fulfilled", NEW v,
           v = IF AnswerDue(e) /\ Alive(e) /\ Alive(R)
               THEN Append(wR, Msg("CLOSE", e.lease)) ELSE wR
    PROVE  LET f == Callbacks(e)
           IN  /\ Linked(f, R, wL, v, n) /\ Drained(f)
               /\ f.state = e.state /\ f.onceOpened = e.onceOpened
               /\ f.lease = e.lease
<1>1. PICK f \in PoolChannel : /\ f = Callbacks(e)
         /\ f.state = e.state /\ f.onceOpened = e.onceOpened
         /\ f.onceClosed = e.onceClosed /\ f.lease = e.lease
         /\ f.dataFromPeerQueue = e.dataFromPeerQueue
         /\ f.ack = IF AnswerDue(e) THEN "sending" ELSE e.ack
  BY CallbacksEffect, CallbacksType DEF AnswerDue
<1>2. Drained(f)
  BY <1>1 DEF Drained, AnswerDue
<1>3. CASE AnswerDue(e)
  <2>1. Msg("CLOSE", e.lease) \in Message
        /\ Msg("CLOSE", e.lease).type = "CLOSE" /\ Msg("CLOSE", e.lease).lease = e.lease
    BY DEF Msg, Message, PoolChannel
  <2>2. Posted(v, wR, "CLOSE", e.lease, e, R)
    BY <1>3, <2>1, AppendWire DEF Posted
  <2>3. Linked(f, R, wL, v, n)
    BY <1>1, <1>3, <2>2, LocalDrainsLink DEF AnswerDue
  <2> QED
    BY <1>1, <1>2, <2>3
<1>4. CASE ~ AnswerDue(e)
  <2>1. f = e
    BY <1>1, <1>4 DEF Callbacks, OpenedCallback, DrainedCallback,
                      ClosedCallback, AnswerDue
  <2> QED
    BY <1>1, <1>2, <1>4, <2>1
<1> QED
  BY <1>3, <1>4

\* The same of the remote end.
LEMMA RemoteFinishes ==
    ASSUME NEW L \in PoolChannel, NEW e \in PoolChannel, NEW wR,
           NEW wL \in Seq(Message), NEW n \in Nat, Linked(L, e, wL, wR, n),
           e.onceClosed # "fulfilled", e.onceOpened # "fulfilled", NEW v,
           v = IF AnswerDue(e) /\ Alive(L) /\ Alive(e)
               THEN Append(wL, Msg("CLOSE", e.lease)) ELSE wL
    PROVE  LET f == Callbacks(e)
           IN  /\ Linked(L, f, v, wR, n) /\ Drained(f)
               /\ f.state = e.state /\ f.onceOpened = e.onceOpened
               /\ f.lease = e.lease
<1>1. PICK f \in PoolChannel : /\ f = Callbacks(e)
         /\ f.state = e.state /\ f.onceOpened = e.onceOpened
         /\ f.onceClosed = e.onceClosed /\ f.lease = e.lease
         /\ f.dataFromPeerQueue = e.dataFromPeerQueue
         /\ f.ack = IF AnswerDue(e) THEN "sending" ELSE e.ack
  BY CallbacksEffect, CallbacksType DEF AnswerDue
<1>2. Drained(f)
  BY <1>1 DEF Drained, AnswerDue
<1>3. CASE AnswerDue(e)
  <2>1. Msg("CLOSE", e.lease) \in Message
        /\ Msg("CLOSE", e.lease).type = "CLOSE" /\ Msg("CLOSE", e.lease).lease = e.lease
    BY DEF Msg, Message, PoolChannel
  <2>2. Posted(v, wL, "CLOSE", e.lease, L, e)
    BY <1>3, <2>1, AppendWire DEF Posted
  <2>3. Linked(L, f, v, wR, n)
    BY <1>1, <1>3, <2>2, RemoteDrainsLink DEF AnswerDue
  <2> QED
    BY <1>1, <1>2, <2>3
<1>4. CASE ~ AnswerDue(e)
  <2>1. f = e
    BY <1>1, <1>4 DEF Callbacks, OpenedCallback, DrainedCallback,
                      ClosedCallback, AnswerDue
  <2> QED
    BY <1>1, <1>2, <1>4, <2>1
<1> QED
  BY <1>3, <1>4

\* A message that is sent reaches the other end of its own channel only.
LEMMA PostEffect ==
    ASSUME IInv, LinkInv, NEW s \in Sides, NEW c \in Channels, c \notin missed,
           NEW type \in {"OPEN", "DATA", "CLOSE"}, NEW k \in Nat,
           wire' = Post(wire, s, c, Msg(type, k))
    PROVE  /\ Posted(wire'[Peer(s)][c], wire[Peer(s)][c], type, k,
                     chan["local"][c], chan["remote"][c])
           /\ wire'[s][c] = wire[s][c]
           /\ \A t \in Sides, d \in Channels : d # c => wire'[t][d] = wire[t][d]
<1>1. /\ Peer(s) \in Sides /\ Peer(s) # s
      /\ wire \in [Sides -> [Channels -> Seq(Message)]]
  BY DEF Peer, Sides, IInv, TypeOK
<1>2. /\ Msg(type, k) \in Message /\ Msg(type, k).type = type
      /\ Msg(type, k).lease = k
  BY DEF Msg, Message
<1>3. Broken(c) <=> ~ (Alive(chan["local"][c]) /\ Alive(chan["remote"][c]))
  BY Knows
<1>4. Longer(Append(wire[Peer(s)][c], Msg(type, k)), wire[Peer(s)][c], type, k)
  BY <1>1, <1>2, AppendWire
<1> DEFINE v == Append(wire[Peer(s)][c], Msg(type, k))
<1>5. CASE Broken(c)
  BY <1>3, <1>5 DEF Post, Posted
<1>6. CASE ~ Broken(c)
  <2>1. wire' = [wire EXCEPT ![Peer(s)][c] = v]
    BY <1>6 DEF Post
  <2> HIDE DEF v
  <2>2. /\ wire'[Peer(s)][c] = v /\ wire'[s][c] = wire[s][c]
        /\ \A t \in Sides, d \in Channels : d # c => wire'[t][d] = wire[t][d]
    BY <1>1, <2>1
  <2> QED
    BY <1>3, <1>4, <1>6, <2>2 DEF Posted, v
<1> QED
  BY <1>5, <1>6

\* A user sends.
LEMMA SaysSteps ==
    ASSUME IInv, LinkInv, NEW s \in Sides, NEW c \in Channels, c \notin missed, Says(s, c)
    PROVE  Steps(c)
<1>1. /\ chan[s][c].state = "OPEN" /\ UNCHANGED <<dc, chan, accepted>>
      /\ wire' = Post(wire, s, c, Msg("DATA", chan[s][c].lease))
  BY DEF Says
<1>2. /\ chan["local"][c] \in PoolChannel /\ chan["remote"][c] \in PoolChannel
      /\ chan[s][c].lease \in Nat /\ accepted[c] \in Nat
      /\ LinkOf(c) /\ Around(c)
      /\ Peer("local") = "remote" /\ Peer("remote") = "local"
  BY Knows DEF PoolChannel
<1>3. /\ Posted(wire'[Peer(s)][c], wire[Peer(s)][c], "DATA", chan[s][c].lease,
                chan["local"][c], chan["remote"][c])
      /\ wire'[s][c] = wire[s][c] /\ Elsewhere(c)
  BY <1>1, <1>2, PostEffect DEF Elsewhere
<1>4. LinkOf(c)'
  <2>1. CASE s = "local"
    BY <1>1, <1>2, <1>3, <2>1, LocalSendsLink DEF LinkOf
  <2>2. CASE s = "remote"
    BY <1>1, <1>2, <1>3, <2>2, RemoteSendsLink DEF LinkOf
  <2> QED
    BY <2>1, <2>2 DEF Sides
<1> QED
  BY <1>1, <1>2, <1>3, <1>4 DEF Steps, Around, StepOf, LeaseStep

\* A step of channel c, from what it makes of the ends and the wires.
LEMMA StepsBy ==
    ASSUME IInv, NEW c \in Channels, Elsewhere(c),
           NEW L, NEW R, NEW wL, NEW wR, NEW n,
           chan'["local"][c] = L, chan'["remote"][c] = R,
           wire'["local"][c] = wL, wire'["remote"][c] = wR, accepted'[c] = n,
           Linked(L, R, wL, wR, n),
           LeaseStep(chan["local"][c], chan["remote"][c], accepted[c], L, R, n),
           Drained(L), Drained(R),
           dc'["local"][c] = "closed" <=> ~ Alive(L),
           dc'["remote"][c] = "closed" <=> ~ Alive(R),
           R.onceOpened = "fulfilled" => dc'["remote"][c] = "opening"
    PROVE  Steps(c)
<1>1. LinkOf(c)'
  BY Zenon DEF LinkOf
<1>2. StepOf(c)
  BY Zenon DEF StepOf
<1>3. Around(c)'
  BY DEF Around, Sides
<1> QED
  BY <1>1, <1>2, <1>3 DEF Steps

\* A task of the local end that neither opens nor closes its channel.
LEMMA LocalTask ==
    ASSUME IInv, LinkInv, NEW c \in Channels, c \notin missed, NEW e \in PoolChannel,
           NEW q \in Seq(Message), NEW w, NEW p,
           w = [wire EXCEPT !["local"][c] = q],
           RunCallbacks("local", c, e, w, p), dc' = dc,
           Linked(e, chan["remote"][c], q, wire["remote"][c], accepted[c]),
           LeaseStep(chan["local"][c], chan["remote"][c], accepted[c],
                     e, chan["remote"][c], accepted[c]),
           e.onceClosed # "fulfilled", e.onceOpened # "fulfilled",
           Alive(e) <=> Alive(chan["local"][c])
    PROVE  Steps(c)
<1>1. /\ chan["remote"][c] \in PoolChannel /\ accepted[c] \in Nat
      /\ wire["remote"][c] \in Seq(Message)
      /\ Around(c)
      /\ Broken(c) <=> ~ (Alive(chan["local"][c]) /\ Alive(chan["remote"][c]))
      /\ "local" \in Sides /\ Peer("local") = "remote"
  BY Knows
<1>2. /\ chan'["local"][c] = Callbacks(e) /\ chan'["remote"][c] = chan["remote"][c]
      /\ wire'["local"][c] = q
      /\ wire'["remote"][c] =
            IF AnswerDue(e) /\ ~ Broken(c)
            THEN Append(wire["remote"][c], Msg("CLOSE", e.lease))
            ELSE wire["remote"][c]
      /\ accepted'[c] = accepted[c]
      /\ Elsewhere(c)
  <2>1. TaskDone("local", c, e, q)
    BY <1>1, TaskEffect
  <2> QED
    BY <1>1, <2>1 DEF TaskDone
<1>3. PICK f, v : f = Callbacks(e) /\ v = wire'["remote"][c]
  OBVIOUS
<1>4. v = IF AnswerDue(e) /\ Alive(e) /\ Alive(chan["remote"][c])
          THEN Append(wire["remote"][c], Msg("CLOSE", e.lease))
          ELSE wire["remote"][c]
  BY <1>1, <1>2, <1>3
<1>5. /\ Linked(f, chan["remote"][c], q, v, accepted[c]) /\ Drained(f)
      /\ f.state = e.state /\ f.onceOpened = e.onceOpened
      /\ f.lease = e.lease
  BY <1>1, <1>3, <1>4, LocalFinishes
<1>6. LeaseStep(chan["local"][c], chan["remote"][c], accepted[c],
                f, chan["remote"][c], accepted[c])
  BY <1>5 DEF LeaseStep, TakenBy, Alive
<1>7. /\ Drained(chan["remote"][c])
      /\ dc["local"][c] = "closed" <=> ~ Alive(f)
      /\ dc["remote"][c] = "closed" <=> ~ Alive(chan["remote"][c])
      /\ chan["remote"][c].onceOpened = "fulfilled" => dc["remote"][c] = "opening"
  BY <1>1, <1>5 DEF Around, Alive, Sides
<1> QED
  BY <1>2, <1>3, <1>5, <1>6, <1>7, StepsBy

\* A task of the remote end that neither opens nor closes its channel.
LEMMA RemoteTask ==
    ASSUME IInv, LinkInv, NEW c \in Channels, c \notin missed, NEW e \in PoolChannel,
           NEW q \in Seq(Message), NEW w, NEW p,
           w = [wire EXCEPT !["remote"][c] = q],
           RunCallbacks("remote", c, e, w, p), dc' = dc,
           Linked(chan["local"][c], e, wire["local"][c], q, accepted[c]),
           LeaseStep(chan["local"][c], chan["remote"][c], accepted[c],
                     chan["local"][c], e, accepted[c]),
           e.onceClosed # "fulfilled", e.onceOpened # "fulfilled",
           Alive(e) <=> Alive(chan["remote"][c])
    PROVE  Steps(c)
<1>1. /\ chan["local"][c] \in PoolChannel /\ accepted[c] \in Nat
      /\ wire["local"][c] \in Seq(Message)
      /\ Around(c)
      /\ Broken(c) <=> ~ (Alive(chan["local"][c]) /\ Alive(chan["remote"][c]))
      /\ "remote" \in Sides /\ Peer("remote") = "local"
  BY Knows
<1>2. /\ chan'["remote"][c] = Callbacks(e) /\ chan'["local"][c] = chan["local"][c]
      /\ wire'["remote"][c] = q
      /\ wire'["local"][c] =
            IF AnswerDue(e) /\ ~ Broken(c)
            THEN Append(wire["local"][c], Msg("CLOSE", e.lease))
            ELSE wire["local"][c]
      /\ accepted'[c] = accepted[c]
      /\ Elsewhere(c)
  <2>1. TaskDone("remote", c, e, q)
    BY <1>1, TaskEffect
  <2> QED
    BY <1>1, <2>1 DEF TaskDone
<1>3. PICK f, v : f = Callbacks(e) /\ v = wire'["local"][c]
  OBVIOUS
<1>4. v = IF AnswerDue(e) /\ Alive(chan["local"][c]) /\ Alive(e)
          THEN Append(wire["local"][c], Msg("CLOSE", e.lease))
          ELSE wire["local"][c]
  BY <1>1, <1>2, <1>3
<1>5. /\ Linked(chan["local"][c], f, v, q, accepted[c]) /\ Drained(f)
      /\ f.state = e.state /\ f.onceOpened = e.onceOpened
      /\ f.lease = e.lease
  BY <1>1, <1>3, <1>4, RemoteFinishes
<1>6. LeaseStep(chan["local"][c], chan["remote"][c], accepted[c],
                chan["local"][c], f, accepted[c])
  BY <1>5 DEF LeaseStep, TakenBy, Alive
<1>7. /\ Drained(chan["local"][c])
      /\ dc["remote"][c] = "closed" <=> ~ Alive(f)
      /\ dc["local"][c] = "closed" <=> ~ Alive(chan["local"][c])
      /\ f.onceOpened # "fulfilled"
  BY <1>1, <1>5 DEF Around, Alive, Sides
<1> QED
  BY <1>2, <1>3, <1>5, <1>6, <1>7, StepsBy

\* A user closes.
LEMMA CloseSteps ==
    ASSUME IInv, LinkInv, NEW s \in Sides, NEW c \in Channels, c \notin missed, Close(s, c)
    PROVE  Steps(c)
<1>1. /\ chan[s][c].state = "OPEN" /\ dc' = dc /\ accepted' = accepted
      /\ chan' = [chan EXCEPT ![s][c].state = "CLOSING"]
      /\ wire' = Post(wire, s, c, Msg("CLOSE", chan[s][c].lease))
  BY DEF Close
<1>2. /\ \A t \in Sides : chan[t][c] \in PoolChannel
      /\ "local" \in Sides /\ "remote" \in Sides
      /\ accepted[c] \in Nat
      /\ LinkOf(c) /\ Around(c)
      /\ Peer("local") = "remote" /\ Peer("remote") = "local"
  BY Knows
<1>3. PICK e \in PoolChannel :
         /\ e = [chan[s][c] EXCEPT !.state = "CLOSING"]
         /\ e.state = "CLOSING" /\ e.onceOpened = chan[s][c].onceOpened
         /\ e.onceClosed = chan[s][c].onceClosed /\ e.ack = chan[s][c].ack
         /\ e.dataFromPeerQueue = chan[s][c].dataFromPeerQueue
         /\ e.lease = chan[s][c].lease
  <2>1. [chan[s][c] EXCEPT !.state = "CLOSING"] \in PoolChannel
    BY <1>2 DEF PoolChannel, State
  <2>2. LET e == [chan[s][c] EXCEPT !.state = "CLOSING"]
        IN  /\ e.state = "CLOSING" /\ e.onceOpened = chan[s][c].onceOpened
            /\ e.onceClosed = chan[s][c].onceClosed /\ e.ack = chan[s][c].ack
            /\ e.dataFromPeerQueue = chan[s][c].dataFromPeerQueue
            /\ e.lease = chan[s][c].lease
    BY <1>2 DEF PoolChannel
  <2> QED
    BY <2>1, <2>2
<1>4. /\ chan'[s][c] = e
      /\ \A t \in Sides, d \in Channels :
            t # s \/ d # c => chan'[t][d] = chan[t][d]
  BY <1>1, <1>3 DEF IInv, TypeOK
<1>5. /\ Posted(wire'[Peer(s)][c], wire[Peer(s)][c], "CLOSE", chan[s][c].lease,
                chan["local"][c], chan["remote"][c])
      /\ wire'[s][c] = wire[s][c] /\ Elsewhere(c)
  <2>1. chan[s][c].lease \in Nat
    BY <1>2 DEF PoolChannel
  <2>2. /\ Posted(wire'[Peer(s)][c], wire[Peer(s)][c], "CLOSE", chan[s][c].lease,
                  chan["local"][c], chan["remote"][c])
        /\ wire'[s][c] = wire[s][c]
        /\ \A t \in Sides, d \in Channels : d # c => wire'[t][d] = wire[t][d]
    BY <1>1, <2>1, PostEffect
  <2> QED
    BY <1>1, <1>4, <2>2 DEF Elsewhere
<1>6. PICK v : v = wire'[Peer(s)][c]
  OBVIOUS
<1>7. Drained(e) /\ (Alive(e) <=> Alive(chan[s][c])) /\ e.onceOpened = chan[s][c].onceOpened
  BY <1>1, <1>2, <1>3 DEF Around, Drained, Alive
<1>8. CASE s = "local"
  <2>1. /\ Linked(e, chan["remote"][c], wire["local"][c], v, accepted[c])
        /\ LeaseStep(chan["local"][c], chan["remote"][c], accepted[c],
                     e, chan["remote"][c], accepted[c])
    BY <1>1, <1>2, <1>3, <1>5, <1>6, <1>8, LocalClosesLink DEF LinkOf
  <2>2. /\ chan'["local"][c] = e /\ chan'["remote"][c] = chan["remote"][c]
        /\ wire'["local"][c] = wire["local"][c] /\ wire'["remote"][c] = v
        /\ accepted'[c] = accepted[c]
    BY <1>1, <1>2, <1>4, <1>5, <1>6, <1>8
  <2>3. /\ Drained(chan["remote"][c])
        /\ dc'["local"][c] = "closed" <=> ~ Alive(e)
        /\ dc'["remote"][c] = "closed" <=> ~ Alive(chan["remote"][c])
        /\ chan["remote"][c].onceOpened = "fulfilled" => dc'["remote"][c] = "opening"
    BY <1>1, <1>2, <1>7, <1>8 DEF Around
  <2> QED
    BY <1>5, <1>7, <2>1, <2>2, <2>3, StepsBy
<1>9. CASE s = "remote"
  <2>1. /\ Linked(chan["local"][c], e, v, wire["remote"][c], accepted[c])
        /\ LeaseStep(chan["local"][c], chan["remote"][c], accepted[c],
                     chan["local"][c], e, accepted[c])
    BY <1>1, <1>2, <1>3, <1>5, <1>6, <1>9, RemoteClosesLink DEF LinkOf
  <2>2. /\ chan'["remote"][c] = e /\ chan'["local"][c] = chan["local"][c]
        /\ wire'["remote"][c] = wire["remote"][c] /\ wire'["local"][c] = v
        /\ accepted'[c] = accepted[c]
    BY <1>1, <1>2, <1>4, <1>5, <1>6, <1>9
  <2>3. /\ Drained(chan["local"][c])
        /\ dc'["local"][c] = "closed" <=> ~ Alive(chan["local"][c])
        /\ dc'["remote"][c] = "closed" <=> ~ Alive(e)
        /\ e.onceOpened = "fulfilled" => dc'["remote"][c] = "opening"
    BY <1>1, <1>2, <1>7, <1>9 DEF Around
  <2> QED
    BY <1>5, <1>7, <2>1, <2>2, <2>3, StepsBy
<1> QED
  BY <1>8, <1>9 DEF Sides

\* A user handles data, after which a CLOSE may be answered.
LEMMA HandleSteps ==
    ASSUME IInv, LinkInv, NEW s \in Sides, NEW c \in Channels, c \notin missed, Handle(s, c)
    PROVE  Steps(c)
<1>1. /\ chan[s][c].dataFromPeerQueue # <<>> /\ dc' = dc
      /\ chan[s][c].onceOpened = "settled"
      /\ RunCallbacks(s, c, [chan[s][c] EXCEPT !.dataFromPeerQueue = Tail(@)],
                      wire, pool_)
  BY DEF Handle
<1>2. /\ \A t \in Sides : chan[t][c] \in PoolChannel /\ wire[t][c] \in Seq(Message)
      /\ "local" \in Sides /\ "remote" \in Sides
      /\ accepted[c] \in Nat
      /\ LinkOf(c) /\ Around(c)
  BY Knows
<1>3. PICK e \in PoolChannel :
         /\ e = [chan[s][c] EXCEPT !.dataFromPeerQueue = Tail(@)]
         /\ e.state = chan[s][c].state /\ e.onceOpened = chan[s][c].onceOpened
         /\ e.onceClosed = chan[s][c].onceClosed /\ e.ack = chan[s][c].ack
         /\ e.dataFromPeerQueue = Tail(chan[s][c].dataFromPeerQueue)
         /\ e.lease = chan[s][c].lease
  <2> DEFINE q == Tail(chan[s][c].dataFromPeerQueue)
  <2>1. q \in Seq(Nat)
    BY <1>1, <1>2 DEF PoolChannel
  <2> HIDE DEF q
  <2>2. [chan[s][c] EXCEPT !.dataFromPeerQueue = q] \in PoolChannel
    BY <1>2, <2>1 DEF PoolChannel
  <2>3. LET e == [chan[s][c] EXCEPT !.dataFromPeerQueue = q]
        IN  /\ e.state = chan[s][c].state /\ e.onceOpened = chan[s][c].onceOpened
            /\ e.onceClosed = chan[s][c].onceClosed /\ e.ack = chan[s][c].ack
            /\ e.dataFromPeerQueue = q /\ e.lease = chan[s][c].lease
    BY <1>2 DEF PoolChannel
  <2> QED
    BY <2>2, <2>3 DEF q
<1>4. /\ e.onceClosed # "fulfilled" /\ e.onceOpened # "fulfilled"
      /\ Alive(e) <=> Alive(chan[s][c])
  BY <1>1, <1>3 DEF IInv, AckInv, Alive
<1>5. RunCallbacks(s, c, e, wire, pool_)
  BY <1>1, <1>3
<1>6. wire = [wire EXCEPT ![s][c] = wire[s][c]]
  BY DEF IInv, TypeOK
<1>7. CASE s = "local"
  <2>1. /\ Linked(e, chan["remote"][c], wire["local"][c], wire["remote"][c],
                accepted[c])
        /\ LeaseStep(chan["local"][c], chan["remote"][c], accepted[c],
                     e, chan["remote"][c], accepted[c])
    BY <1>1, <1>2, <1>3, <1>7, LocalHandlesLink DEF LinkOf
  <2>2. RunCallbacks("local", c, e, wire, pool_)
    BY <1>5, <1>7
  <2>3. wire = [wire EXCEPT !["local"][c] = wire["local"][c]]
    BY <1>6, <1>7
  <2>4. Alive(e) <=> Alive(chan["local"][c])
    BY <1>4, <1>7
  <2> QED
    BY <1>1, <1>2, <1>4, <2>1, <2>2, <2>3, <2>4, LocalTask
<1>8. CASE s = "remote"
  <2>1. /\ Linked(chan["local"][c], e, wire["local"][c], wire["remote"][c],
                accepted[c])
        /\ LeaseStep(chan["local"][c], chan["remote"][c], accepted[c],
                     chan["local"][c], e, accepted[c])
    BY <1>1, <1>2, <1>3, <1>8, RemoteHandlesLink DEF LinkOf
  <2>2. RunCallbacks("remote", c, e, wire, pool_)
    BY <1>5, <1>8
  <2>3. wire = [wire EXCEPT !["remote"][c] = wire["remote"][c]]
    BY <1>6, <1>8
  <2>4. Alive(e) <=> Alive(chan["remote"][c])
    BY <1>4, <1>8
  <2> QED
    BY <1>1, <1>2, <1>4, <2>1, <2>2, <2>3, <2>4, RemoteTask
<1> QED
  BY <1>7, <1>8 DEF Sides

\* What a message makes of a channel, field by field.
LEMMA HearsEffect ==
    ASSUME NEW e \in PoolChannel, NEW m \in Message
    PROVE  LET f == OnDataFromPeer(e, m)
           IN  /\ f \in PoolChannel /\ f.lease = e.lease
               /\ m.type = "DATA" =>
                     /\ f.state = e.state /\ f.onceOpened = e.onceOpened
                     /\ f.onceClosed = e.onceClosed /\ f.ack = e.ack
                     /\ f.dataFromPeerQueue =
                           Append(e.dataFromPeerQueue, m.lease)
               /\ m.type # "DATA" =>
                     f.dataFromPeerQueue = e.dataFromPeerQueue
               /\ m.type = "OPEN" =>
                     /\ f.state = e.state /\ f.onceClosed = e.onceClosed
                     /\ f.onceOpened = Fulfill(e.onceOpened) /\ f.ack = e.ack
               /\ m.type = "CLOSE" /\ e.state = "OPEN" =>
                     /\ f.state = "CLOSING" /\ f.onceClosed = e.onceClosed
                     /\ f.onceOpened = e.onceOpened /\ f.ack = "draining"
               /\ m.type = "CLOSE" /\ e.state = "CLOSING" =>
                     /\ f.state = "CLOSING" /\ f.onceClosed = Fulfill(e.onceClosed)
                     /\ f.onceOpened = e.onceOpened /\ f.ack = e.ack
<1> DEFINE f == OnDataFromPeer(e, m)
<1>1. CASE m.type = "DATA"
  <2> DEFINE q == Append(e.dataFromPeerQueue, m.lease)
  <2>1. q \in Seq(Nat)
    BY DEF Message, PoolChannel
  <2>2. f = [e EXCEPT !.dataFromPeerQueue = q]
    BY <1>1 DEF OnDataFromPeer
  <2> HIDE DEF q, f
  <2>3. f \in PoolChannel
    BY <2>1, <2>2 DEF PoolChannel
  <2>4. /\ f.state = e.state /\ f.onceClosed = e.onceClosed
        /\ f.onceOpened = e.onceOpened /\ f.ack = e.ack
        /\ f.lease = e.lease /\ f.dataFromPeerQueue = q
    BY <2>2 DEF PoolChannel
  <2> QED
    BY <1>1, <2>3, <2>4 DEF f, q
<1>2. CASE m.type = "OPEN"
  <2>1. f = [e EXCEPT !.onceOpened = Fulfill(@)]
    BY <1>2 DEF OnDataFromPeer, OnControlMessage
  <2> QED
    BY <2>1, <1>2 DEF PoolChannel, Fulfill, Promise
<1>3. CASE m.type = "CLOSE"
  <2>1. CASE e.state = "OPEN"
    <3>1. f = [e EXCEPT !.state = "CLOSING", !.ack = "draining"]
      BY <1>3, <2>1 DEF OnDataFromPeer, OnControlMessage
    <3> QED
      BY <3>1, <1>3, <2>1 DEF PoolChannel, State
  <2>2. CASE e.state = "CLOSING"
    <3>1. f = [e EXCEPT !.onceClosed = Fulfill(@)]
      BY <1>3, <2>2 DEF OnDataFromPeer, OnControlMessage
    <3> QED
      BY <3>1, <1>3, <2>2 DEF PoolChannel, Fulfill, Promise
  <2>3. CASE e.state \notin {"OPEN", "CLOSING"}
    <3>1. f = e
      BY <1>3, <2>3 DEF OnDataFromPeer, OnControlMessage
    <3> QED
      BY <3>1, <1>3, <2>3
  <2> QED
    BY <2>1, <2>2, <2>3
<1> QED
  BY <1>1, <1>2, <1>3 DEF Message

\* What may reach the local end, and when.
LEMMA LocalHears ==
    ASSUME NEW L \in PoolChannel, NEW R \in PoolChannel, NEW wL, NEW wR,
           NEW n \in Nat, Linked(L, R, wL, wR, n),
           NEW v, NEW type, NEW k \in Nat, Shorter(v, wL, type, k)
    PROVE  type # "OPEN" /\ L.ack = "none" /\ L.state \in {"OPEN", "CLOSING"}
BY DEF Linked, ToLocal, Shorter

\* What may reach the remote end, and when.
LEMMA RemoteHears ==
    ASSUME NEW L \in PoolChannel, NEW R \in PoolChannel, NEW wL, NEW wR,
           NEW n \in Nat, Linked(L, R, wL, wR, n), R.ack # "sending",
           NEW v, NEW type, NEW k \in Nat, Shorter(v, wR, type, k)
    PROVE  /\ k = R.lease /\ R.ack = "none" /\ Alive(R)
           /\ type = "OPEN" => R.onceOpened = "pending" /\ R.state = "CLOSED"
           /\ type # "OPEN" => R.onceOpened # "pending"
           /\ type # "OPEN" /\ R.onceOpened = "settled" =>
                 R.state \in {"OPEN", "CLOSING"}
<1> USE DEF Linked, ToRemote, EndOK, Alive, PoolChannel, Promise, State
<1>0. \A w, t, j : Holds(w, t, j) => Carries(w, j)
  BY HeldIsCarried
<1>1. k = R.lease
  BY <1>0 DEF Shorter
<1>2. R.ack = "none" /\ Alive(R)
  BY <1>0, <1>1 DEF Shorter
<1>3. type = "OPEN" => R.onceOpened = "pending" /\ R.state = "CLOSED"
  BY <1>0, <1>1, <1>2 DEF Shorter
<1>4. type # "OPEN" => R.onceOpened # "pending"
  BY <1>0, <1>1, <1>2 DEF Shorter
<1>5. R.onceOpened = "settled" => R.state \in {"OPEN", "CLOSING"}
  BY <1>2
<1> QED
  BY <1>1, <1>2, <1>3, <1>4, <1>5

\* A message reaches the wrapper of the local end.
LEMMA LocalDeliverSteps ==
    ASSUME IInv, LinkInv, PromptSends, NEW c \in Channels, c \notin missed, Deliver("local", c)
    PROVE  Steps(c)
<1>1. /\ dc["local"][c] = "open" /\ wire["local"][c] # <<>> /\ dc' = dc
      /\ chan["local"][c].ack # "sending"
      /\ RunCallbacks("local", c,
                      OnDataFromPeer(chan["local"][c], Head(wire["local"][c])),
                      [wire EXCEPT !["local"][c] = Tail(@)], pool_)
  BY DEF Deliver
<1>2. /\ chan["local"][c] \in PoolChannel /\ chan["remote"][c] \in PoolChannel
      /\ wire["local"][c] \in Seq(Message)
      /\ "local" \in Sides /\ "remote" \in Sides /\ Peer("local") = "remote"
      /\ accepted[c] \in Nat
      /\ LinkOf(c) /\ Around(c)
  BY Knows
<1>3. /\ Tail(wire["local"][c]) \in Seq(Message)
      /\ Head(wire["local"][c]) \in Message
      /\ Shorter(Tail(wire["local"][c]), wire["local"][c],
                 Head(wire["local"][c]).type, Head(wire["local"][c]).lease)
  BY <1>1, <1>2, TailWire DEF LinkOf, Linked, ToLocal
<1>4. PICK m \in Message, q \in Seq(Message) :
         /\ m = Head(wire["local"][c]) /\ q = Tail(wire["local"][c])
         /\ Shorter(q, wire["local"][c], m.type, m.lease)
  BY <1>3
<1>5. PICK e \in PoolChannel : e = OnDataFromPeer(chan["local"][c], m)
  BY <1>2, HearsEffect
<1>6. PICK w : w = [wire EXCEPT !["local"][c] = q]
  OBVIOUS
<1>7. RunCallbacks("local", c, e, w, pool_)
  <2>1. w = [wire EXCEPT !["local"][c] = Tail(@)]
    BY <1>4, <1>6
  <2> QED
    BY <1>1, <1>4, <1>5, <2>1
<1>8. m.lease \in Nat /\ m.type \in {"OPEN", "DATA", "CLOSE"}
  BY DEF Message
<1>9. /\ m.type # "OPEN" /\ chan["local"][c].ack = "none"
      /\ chan["local"][c].state \in {"OPEN", "CLOSING"}
  BY <1>2, <1>4, <1>8, LocalHears DEF LinkOf
<1>10. /\ chan["local"][c].onceClosed = "pending"
       /\ chan["local"][c].onceOpened # "fulfilled"
  BY <1>2, <1>9 DEF LinkOf, Linked, EndOK, Alive
<1>h. /\ Shorter(q, wire["local"][c], m.type, m.lease)
      /\ Linked(chan["local"][c], chan["remote"][c], wire["local"][c],
              wire["remote"][c], accepted[c])
      /\ chan["local"][c].ack # "sending"
  BY <1>1, <1>2, <1>4 DEF LinkOf
<1>11. CASE m.type = "DATA" \/ chan["local"][c].state = "OPEN"
  <2>1. /\ Linked(e, chan["remote"][c], q, wire["remote"][c], accepted[c])
        /\ LeaseStep(chan["local"][c], chan["remote"][c], accepted[c],
                     e, chan["remote"][c], accepted[c])
    <3>1. CASE m.type = "DATA"
      <4>1. /\ e.state = chan["local"][c].state
            /\ e.onceOpened = chan["local"][c].onceOpened
            /\ e.onceClosed = chan["local"][c].onceClosed
            /\ e.dataFromPeerQueue =
                  Append(chan["local"][c].dataFromPeerQueue, m.lease)
            /\ e.ack = chan["local"][c].ack /\ e.lease = chan["local"][c].lease
        BY <1>2, <1>5, <3>1, HearsEffect
      <4> QED
        <5>1. /\ chan["local"][c] \in PoolChannel /\ chan["remote"][c] \in PoolChannel
              /\ accepted[c] \in Nat
              /\ Shorter(q, wire["local"][c], "DATA", m.lease)
          BY <1>2, <1>h, <3>1
        <5> QED
          BY <1>8, <1>h, <4>1, <5>1, LocalHearsDataLink
    <3>2. CASE m.type # "DATA"
      <4>1. /\ e.state = "CLOSING"
            /\ e.onceOpened = chan["local"][c].onceOpened
            /\ e.onceClosed = chan["local"][c].onceClosed
            /\ e.dataFromPeerQueue = chan["local"][c].dataFromPeerQueue
            /\ e.ack = "draining" /\ e.lease = chan["local"][c].lease
        BY <1>2, <1>5, <1>8, <1>9, <1>11, <3>2, HearsEffect
      <4>2. m.type = "CLOSE" /\ chan["local"][c].state = "OPEN"
        BY <1>8, <1>9, <1>11, <3>2
      <4> QED
        BY <1>2, <1>8, <1>h, <4>1, <4>2, LocalHearsCloseLink
    <3> QED
      BY <3>1, <3>2
  <2>2. /\ e.onceClosed # "fulfilled" /\ e.onceOpened # "fulfilled"
        /\ Alive(e) <=> Alive(chan["local"][c])
    BY <1>2, <1>5, <1>8, <1>9, <1>10, <1>11, HearsEffect DEF Alive
  <2> QED
    BY <1>1, <1>6, <1>7, <2>1, <2>2, LocalTask
<1>12. CASE m.type = "CLOSE" /\ chan["local"][c].state = "CLOSING"
  <2>1. /\ e.state = "CLOSING" /\ e.onceClosed = "fulfilled"
        /\ e.ack = "none" /\ e.lease = chan["local"][c].lease
        /\ e.onceOpened # "fulfilled"
    BY <1>2, <1>5, <1>9, <1>10, <1>12, HearsEffect DEF Fulfill
  <2>2. PICK f : f = Callbacks(e)
    OBVIOUS
  <2>3. f = Reset(chan["local"][c].lease + 1) /\ f \in PoolChannel
    BY <2>1, <2>2, CallbacksEffect, CallbacksType DEF Alive
  <2>4. /\ f.state = "CLOSED" /\ f.onceOpened = "pending"
        /\ f.onceClosed = "pending" /\ f.dataFromPeerQueue = <<>>
        /\ f.ack = "none" /\ f.lease = chan["local"][c].lease + 1
    BY <2>3 DEF Reset
  <2>5. /\ Linked(f, chan["remote"][c], q, wire["remote"][c], accepted[c])
        /\ LeaseStep(chan["local"][c], chan["remote"][c], accepted[c],
                     f, chan["remote"][c], accepted[c])
    BY <1>2, <1>8, <1>h, <1>12, <2>3, <2>4, LocalHearsAnswerLink
  <2>6. ~ AnswerDue(e) /\ \A t \in Sides, d \in Channels : d # c => dc'[t][d] = dc[t][d]
    BY <1>1, <2>1 DEF AnswerDue
  <2>7. /\ chan'["local"][c] = f /\ chan'["remote"][c] = chan["remote"][c]
        /\ wire'["local"][c] = q /\ wire'["remote"][c] = wire["remote"][c]
        /\ accepted'[c] = accepted[c] /\ Elsewhere(c)
    <3>1. TaskDone("local", c, e, q)
      BY <1>2, <1>6, <1>7, TaskEffect
    <3> QED
      BY <1>2, <2>2, <2>6, <3>1 DEF TaskDone
  <2>8. /\ Drained(f) /\ Drained(chan["remote"][c])
        /\ dc'["local"][c] = "closed" <=> ~ Alive(f)
        /\ dc'["remote"][c] = "closed" <=> ~ Alive(chan["remote"][c])
        /\ chan["remote"][c].onceOpened = "fulfilled" => dc'["remote"][c] = "opening"
    BY <1>1, <1>2, <2>4 DEF Around, Drained, Alive
  <2> QED
    BY <2>5, <2>7, <2>8, StepsBy
<1> QED
  BY <1>8, <1>9, <1>11, <1>12

\* A message reaches the wrapper of the remote end.
LEMMA RemoteDeliverSteps ==
    ASSUME IInv, LinkInv, PromptSends, NEW c \in Channels,
           c \notin missed, Deliver("remote", c)
    PROVE  Steps(c)
<1>1. /\ dc["remote"][c] = "open" /\ wire["remote"][c] # <<>> /\ dc' = dc
      /\ chan["remote"][c].ack # "sending"
      /\ RunCallbacks("remote", c,
                      OnDataFromPeer(chan["remote"][c], Head(wire["remote"][c])),
                      [wire EXCEPT !["remote"][c] = Tail(@)], pool_)
  BY DEF Deliver
<1>2. /\ chan["remote"][c] \in PoolChannel /\ chan["local"][c] \in PoolChannel
      /\ wire["remote"][c] \in Seq(Message)
      /\ "remote" \in Sides /\ "local" \in Sides /\ Peer("remote") = "local"
      /\ accepted[c] \in Nat
      /\ LinkOf(c) /\ Around(c)
  BY Knows
<1>3. /\ Tail(wire["remote"][c]) \in Seq(Message)
      /\ Head(wire["remote"][c]) \in Message
      /\ Shorter(Tail(wire["remote"][c]), wire["remote"][c],
                 Head(wire["remote"][c]).type, Head(wire["remote"][c]).lease)
  BY <1>1, <1>2, TailWire DEF LinkOf, Linked, ToRemote
<1>4. PICK m \in Message, q \in Seq(Message) :
         /\ m = Head(wire["remote"][c]) /\ q = Tail(wire["remote"][c])
         /\ Shorter(q, wire["remote"][c], m.type, m.lease)
  BY <1>3
<1>5. PICK e \in PoolChannel : e = OnDataFromPeer(chan["remote"][c], m)
  BY <1>2, HearsEffect
<1>6. PICK w : w = [wire EXCEPT !["remote"][c] = q]
  OBVIOUS
<1>7. RunCallbacks("remote", c, e, w, pool_)
  <2>1. w = [wire EXCEPT !["remote"][c] = Tail(@)]
    BY <1>4, <1>6
  <2> QED
    BY <1>1, <1>4, <1>5, <2>1
<1>8. m.lease \in Nat /\ m.type \in {"OPEN", "DATA", "CLOSE"}
  BY DEF Message
<1>9. /\ chan["remote"][c].ack = "none" /\ Alive(chan["remote"][c])
      /\ m.type = "OPEN" => /\ chan["remote"][c].onceOpened = "pending"
                            /\ chan["remote"][c].state = "CLOSED"
      /\ m.type # "OPEN" /\ chan["remote"][c].onceOpened = "settled" =>
            chan["remote"][c].state \in {"OPEN", "CLOSING"}
      /\ m.type # "OPEN" => chan["remote"][c].onceOpened # "pending"
  BY <1>1, <1>2, <1>4, <1>8, RemoteHears DEF LinkOf
<1>10. /\ chan["remote"][c].onceClosed = "pending"
       /\ chan["remote"][c].onceOpened # "fulfilled"
       /\ m.type # "OPEN" => chan["remote"][c].state \in {"OPEN", "CLOSING"}
  <2>1. chan["remote"][c].onceClosed = "pending"
    BY <1>2, <1>9 DEF LinkOf, Linked, EndOK, Alive
  <2>2. chan["remote"][c].onceOpened # "fulfilled"
    BY <1>1, <1>2 DEF Around
  <2> QED
    BY <1>2, <1>9, <2>1, <2>2 DEF PoolChannel, Promise
<1>h. /\ Shorter(q, wire["remote"][c], m.type, m.lease)
      /\ Linked(chan["local"][c], chan["remote"][c], wire["local"][c],
              wire["remote"][c], accepted[c])
      /\ chan["remote"][c].ack # "sending"
  BY <1>1, <1>2, <1>4 DEF LinkOf
<1>11. CASE \/ m.type = "DATA"
            \/ m.type = "CLOSE" /\ chan["remote"][c].state = "OPEN"
  <2>1. /\ Linked(chan["local"][c], e, wire["local"][c], q, accepted[c])
        /\ LeaseStep(chan["local"][c], chan["remote"][c], accepted[c],
                     chan["local"][c], e, accepted[c])
    <3>1. CASE m.type = "DATA"
      <4>1. /\ e.state = chan["remote"][c].state
            /\ e.onceOpened = chan["remote"][c].onceOpened
            /\ e.onceClosed = chan["remote"][c].onceClosed
            /\ e.dataFromPeerQueue =
                  Append(chan["remote"][c].dataFromPeerQueue, m.lease)
            /\ e.ack = chan["remote"][c].ack /\ e.lease = chan["remote"][c].lease
        BY <1>2, <1>5, <3>1, HearsEffect
      <4> QED
        <5>1. /\ chan["remote"][c] \in PoolChannel /\ chan["local"][c] \in PoolChannel
              /\ accepted[c] \in Nat
              /\ Shorter(q, wire["remote"][c], "DATA", m.lease)
          BY <1>2, <1>h, <3>1
        <5> QED
          BY <1>8, <1>h, <4>1, <5>1, RemoteHearsDataLink
    <3>2. CASE m.type # "DATA"
      <4>1. /\ e.state = "CLOSING"
            /\ e.onceOpened = chan["remote"][c].onceOpened
            /\ e.onceClosed = chan["remote"][c].onceClosed
            /\ e.dataFromPeerQueue = chan["remote"][c].dataFromPeerQueue
            /\ e.ack = "draining" /\ e.lease = chan["remote"][c].lease
        BY <1>2, <1>5, <1>8, <1>10, <1>11, <3>2, HearsEffect
      <4>2. m.type = "CLOSE" /\ chan["remote"][c].state = "OPEN"
        BY <1>8, <1>10, <1>11, <3>2
      <4> QED
        BY <1>2, <1>8, <1>h, <4>1, <4>2, RemoteHearsCloseLink
    <3> QED
      BY <3>1, <3>2
  <2>2. /\ e.onceClosed # "fulfilled" /\ e.onceOpened # "fulfilled"
        /\ Alive(e) <=> Alive(chan["remote"][c])
    BY <1>2, <1>5, <1>8, <1>9, <1>10, <1>11, HearsEffect DEF Alive
  <2> QED
    BY <1>1, <1>6, <1>7, <2>1, <2>2, RemoteTask
<1>12. CASE m.type = "CLOSE" /\ chan["remote"][c].state = "CLOSING"
  <2>1. /\ e.state = "CLOSING" /\ e.onceClosed = "fulfilled"
        /\ e.ack = "none" /\ e.lease = chan["remote"][c].lease
        /\ e.onceOpened # "fulfilled"
    BY <1>2, <1>5, <1>9, <1>10, <1>12, HearsEffect DEF Fulfill
  <2>2. PICK f : f = Callbacks(e)
    OBVIOUS
  <2>3. f = Reset(chan["remote"][c].lease + 1) /\ f \in PoolChannel
    BY <2>1, <2>2, CallbacksEffect, CallbacksType DEF Alive
  <2>4. /\ f.state = "CLOSED" /\ f.onceOpened = "pending"
        /\ f.onceClosed = "pending" /\ f.dataFromPeerQueue = <<>>
        /\ f.ack = "none" /\ f.lease = chan["remote"][c].lease + 1
    BY <2>3 DEF Reset
  <2>5. /\ Linked(chan["local"][c], f, wire["local"][c], q, accepted[c])
        /\ LeaseStep(chan["local"][c], chan["remote"][c], accepted[c],
                     chan["local"][c], f, accepted[c])
    BY <1>2, <1>8, <1>h, <1>12, <2>3, <2>4, RemoteHearsAnswerLink
  <2>6. ~ AnswerDue(e) /\ \A t \in Sides, d \in Channels : d # c => dc'[t][d] = dc[t][d]
    BY <1>1, <2>1 DEF AnswerDue
  <2>7. /\ chan'["remote"][c] = f /\ chan'["local"][c] = chan["local"][c]
        /\ wire'["remote"][c] = q /\ wire'["local"][c] = wire["local"][c]
        /\ accepted'[c] = accepted[c] /\ Elsewhere(c)
    <3>1. TaskDone("remote", c, e, q)
      BY <1>2, <1>6, <1>7, TaskEffect
    <3> QED
      BY <1>2, <2>1, <2>2, <2>6, <3>1 DEF TaskDone
  <2>8. /\ Drained(f) /\ Drained(chan["local"][c])
        /\ dc'["remote"][c] = "closed" <=> ~ Alive(f)
        /\ dc'["local"][c] = "closed" <=> ~ Alive(chan["local"][c])
        /\ f.onceOpened # "fulfilled"
    BY <1>1, <1>2, <2>4 DEF Around, Drained, Alive
  <2> QED
    BY <2>5, <2>7, <2>8, StepsBy
<1>13. CASE m.type = "OPEN"
  <2>1. /\ e.state = "CLOSED" /\ e.onceOpened = "fulfilled"
        /\ e.onceClosed = chan["remote"][c].onceClosed /\ e.ack = "none"
        /\ e.dataFromPeerQueue = chan["remote"][c].dataFromPeerQueue
        /\ e.lease = chan["remote"][c].lease
    BY <1>2, <1>5, <1>9, <1>13, HearsEffect DEF Fulfill
  <2>2. PICK f : f = Callbacks(e)
    OBVIOUS
  <2>3. f \in PoolChannel
    BY <2>2, CallbacksType
  <2>4. /\ f.state = "OPEN" /\ f.onceOpened = "settled"
        /\ f.onceClosed = chan["remote"][c].onceClosed
        /\ f.dataFromPeerQueue = chan["remote"][c].dataFromPeerQueue
        /\ f.ack = chan["remote"][c].ack /\ f.lease = chan["remote"][c].lease
    BY <1>9, <1>10, <2>1, <2>2, CallbacksEffect
  <2>5. /\ Linked(chan["local"][c], f, wire["local"][c], q, accepted[c] + 1)
        /\ LeaseStep(chan["local"][c], chan["remote"][c], accepted[c],
                     chan["local"][c], f, accepted[c] + 1)
    <3>1. /\ chan["local"][c] \in PoolChannel /\ chan["remote"][c] \in PoolChannel
          /\ accepted[c] \in Nat
          /\ Shorter(q, wire["remote"][c], "OPEN", m.lease)
      BY <1>2, <1>h, <1>13
    <3> QED
      BY <1>8, <1>10, <1>h, <2>3, <2>4, <3>1, RemoteHearsOpenLink
  <2>6. ~ AnswerDue(e) /\ \A t \in Sides, d \in Channels : d # c => dc'[t][d] = dc[t][d]
    BY <1>1, <2>1 DEF AnswerDue
  <2>7. /\ chan'["remote"][c] = f /\ chan'["local"][c] = chan["local"][c]
        /\ wire'["remote"][c] = q /\ wire'["local"][c] = wire["local"][c]
        /\ accepted'[c] = accepted[c] + 1 /\ Elsewhere(c)
    <3>1. TaskDone("remote", c, e, q)
      BY <1>2, <1>6, <1>7, TaskEffect
    <3> QED
      BY <1>2, <2>1, <2>2, <2>6, <3>1 DEF TaskDone
  <2>8. /\ Drained(f) /\ Drained(chan["local"][c])
        /\ dc'["remote"][c] = "closed" <=> ~ Alive(f)
        /\ dc'["local"][c] = "closed" <=> ~ Alive(chan["local"][c])
        /\ f.onceOpened # "fulfilled"
    BY <1>1, <1>2, <1>9, <2>4 DEF Around, Drained, Alive
  <2> QED
    BY <2>5, <2>7, <2>8, StepsBy
<1> QED
  BY <1>8, <1>10, <1>11, <1>12, <1>13

\* The send of an answer settles at an end that is dead: nothing comes of it.
LEMMA LocalForgetsLink ==
    ASSUME NEW L \in PoolChannel, NEW R \in PoolChannel, NEW wL, NEW wR,
           NEW n \in Nat, Linked(L, R, wL, wR, n),
           NEW L2 \in PoolChannel, ~ Alive(L),
           L2.state = L.state, L2.onceOpened = L.onceOpened,
           L2.onceClosed = L.onceClosed,
           L2.dataFromPeerQueue = L.dataFromPeerQueue, L2.ack = "none",
           L2.lease = L.lease
    PROVE  /\ Linked(L2, R, wL, wR, n)
           /\ LeaseStep(L, R, n, L2, R, n)
<1> USE DEF Linked, EndOK, ToLocal, ToRemote, Counts, Alive, SentClose, TakenBy,
            AckOwed, PoolChannel, Promise, State
<1>1. EndOK(L2)
  OBVIOUS
<1>2. ToLocal(L2, wL)
  OBVIOUS
<1>3. Counts(L2, R, wL, wR, n)
  OBVIOUS
<1>4. LeaseStep(L, R, n, L2, R, n)
  BY DEF LeaseStep
<1> QED
  BY <1>1, <1>2, <1>3, <1>4

\* The same of the remote end.
LEMMA RemoteForgetsLink ==
    ASSUME NEW L \in PoolChannel, NEW R \in PoolChannel, NEW wL, NEW wR,
           NEW n \in Nat, Linked(L, R, wL, wR, n),
           NEW R2 \in PoolChannel, ~ Alive(R),
           R2.state = R.state, R2.onceOpened = R.onceOpened,
           R2.onceClosed = R.onceClosed,
           R2.dataFromPeerQueue = R.dataFromPeerQueue, R2.ack = "none",
           R2.lease = R.lease
    PROVE  /\ Linked(L, R2, wL, wR, n)
           /\ LeaseStep(L, R, n, L, R2, n)
<1> USE DEF Linked, EndOK, ToLocal, ToRemote, Counts, Alive, SentClose, TakenBy,
            AckOwed, PoolChannel, Promise, State
<1>1. EndOK(R2)
  OBVIOUS
<1>2. ToRemote(R2, wR)
  OBVIOUS
<1>3. Counts(L, R2, wL, wR, n)
  OBVIOUS
<1>4. LeaseStep(L, R, n, L, R2, n)
  BY DEF LeaseStep
<1> QED
  BY <1>1, <1>2, <1>3, <1>4

\* A message reaches the data channel before the remote wrapper is made.
LEMMA EarlySteps ==
    ASSUME IInv, LinkInv, NEW c \in Channels, c \notin missed, c \notin missed',
           ArriveEarly(c)
    PROVE  Steps(c)
<1>1. /\ dc["remote"][c] = "opening" /\ wire["remote"][c] # <<>>
      /\ Head(wire["remote"][c]).type # "CLOSE"
      /\ chan' = [chan EXCEPT !["remote"][c] =
                     OnDataFromPeer(chan["remote"][c], Head(wire["remote"][c]))]
      /\ wire' = [wire EXCEPT !["remote"][c] = Tail(wire["remote"][c])]
      /\ dc' = dc /\ accepted' = accepted
  BY DEF ArriveEarly, IInv, TypeOK, Sides
<1>2. /\ chan["local"][c] \in PoolChannel /\ chan["remote"][c] \in PoolChannel
      /\ wire["remote"][c] \in Seq(Message)
      /\ "local" \in Sides /\ "remote" \in Sides
      /\ accepted[c] \in Nat
      /\ LinkOf(c) /\ Around(c)
  BY Knows
<1>3. /\ Tail(wire["remote"][c]) \in Seq(Message)
      /\ Head(wire["remote"][c]) \in Message
      /\ Shorter(Tail(wire["remote"][c]), wire["remote"][c],
                 Head(wire["remote"][c]).type, Head(wire["remote"][c]).lease)
  BY <1>1, <1>2, TailWire DEF LinkOf, Linked, ToRemote
<1>4. PICK m \in Message, q \in Seq(Message) :
         /\ m = Head(wire["remote"][c]) /\ q = Tail(wire["remote"][c])
         /\ Shorter(q, wire["remote"][c], m.type, m.lease)
  BY <1>3
<1>5. PICK e \in PoolChannel : e = OnDataFromPeer(chan["remote"][c], m)
  BY <1>2, HearsEffect
<1>6. /\ chan' = [chan EXCEPT !["remote"][c] = e]
      /\ wire' = [wire EXCEPT !["remote"][c] = q]
  BY <1>1, <1>4, <1>5
<1>7. /\ chan'["remote"][c] = e /\ chan'["local"][c] = chan["local"][c]
      /\ wire'["remote"][c] = q /\ wire'["local"][c] = wire["local"][c]
      /\ accepted'[c] = accepted[c] /\ Elsewhere(c)
  <2>1. /\ chan'["remote"][c] = e
        /\ \A t \in Sides, d \in Channels :
              t # "remote" \/ d # c => chan'[t][d] = chan[t][d]
    BY <1>2, <1>6 DEF IInv, TypeOK
  <2>2. /\ wire'["remote"][c] = q
        /\ \A t \in Sides, d \in Channels :
              t # "remote" \/ d # c => wire'[t][d] = wire[t][d]
    BY <1>2, <1>6 DEF IInv, TypeOK
  <2> QED
    BY <1>1, <1>2, <2>1, <2>2 DEF Elsewhere
<1>8. m.lease \in Nat /\ m.type \in {"OPEN", "DATA"}
  BY <1>1, <1>4 DEF Message
<1>9. /\ chan["remote"][c].state = "CLOSED" /\ chan["remote"][c].ack = "none"
      /\ chan["remote"][c].onceOpened # "settled"
  BY <1>1, <1>2 DEF IInv, WrappedInv, AckInv, AckOwed
<1>h. /\ Shorter(q, wire["remote"][c], m.type, m.lease)
      /\ Linked(chan["local"][c], chan["remote"][c], wire["local"][c],
              wire["remote"][c], accepted[c])
      /\ chan["remote"][c].ack # "sending"
      /\ chan["local"][c] \in PoolChannel /\ chan["remote"][c] \in PoolChannel
      /\ accepted[c] \in Nat
  BY <1>2, <1>4, <1>9 DEF LinkOf
<1>10. /\ Linked(chan["local"][c], e, wire["local"][c], q, accepted[c])
       /\ LeaseStep(chan["local"][c], chan["remote"][c], accepted[c],
                    chan["local"][c], e, accepted[c])
       /\ e.state = "CLOSED" /\ e.ack = "none"
  <2>1. CASE m.type = "DATA"
    <3>1. /\ e.state = chan["remote"][c].state
          /\ e.onceOpened = chan["remote"][c].onceOpened
          /\ e.onceClosed = chan["remote"][c].onceClosed
          /\ e.dataFromPeerQueue =
                Append(chan["remote"][c].dataFromPeerQueue, m.lease)
          /\ e.ack = chan["remote"][c].ack /\ e.lease = chan["remote"][c].lease
      BY <1>2, <1>5, <2>1, HearsEffect
    <3>2. Shorter(q, wire["remote"][c], "DATA", m.lease)
      BY <1>h, <2>1
    <3>3. /\ Linked(chan["local"][c], e, wire["local"][c], q, accepted[c])
          /\ LeaseStep(chan["local"][c], chan["remote"][c], accepted[c],
                       chan["local"][c], e, accepted[c])
      BY <1>8, <1>h, <3>1, <3>2, RemoteHearsDataLink
    <3> QED
      BY <1>9, <3>1, <3>3
  <2>2. CASE m.type = "OPEN"
    <3>1. chan["remote"][c].onceOpened = "pending"
      BY <1>8, <1>h, <2>2, RemoteHears
    <3>2. /\ e.state = chan["remote"][c].state
          /\ e.onceOpened = "fulfilled"
          /\ e.onceClosed = chan["remote"][c].onceClosed
          /\ e.dataFromPeerQueue = chan["remote"][c].dataFromPeerQueue
          /\ e.ack = chan["remote"][c].ack /\ e.lease = chan["remote"][c].lease
      BY <1>2, <1>5, <2>2, <3>1, HearsEffect DEF Fulfill
    <3>3. Shorter(q, wire["remote"][c], "OPEN", m.lease)
      BY <1>h, <2>2
    <3>4. /\ Linked(chan["local"][c], e, wire["local"][c], q, accepted[c])
          /\ LeaseStep(chan["local"][c], chan["remote"][c], accepted[c],
                       chan["local"][c], e, accepted[c])
      BY <1>8, <1>9, <1>h, <3>2, <3>3, RemoteHearsEarlyLink
    <3> QED
      BY <1>9, <3>2, <3>4
  <2> QED
    BY <1>8, <2>1, <2>2
<1>11. /\ Drained(e) /\ Drained(chan["local"][c])
       /\ dc'["remote"][c] = "closed" <=> ~ Alive(e)
       /\ dc'["local"][c] = "closed" <=> ~ Alive(chan["local"][c])
       /\ dc'["remote"][c] = "opening"
  BY <1>1, <1>2, <1>10 DEF Around, Drained, Alive
<1> QED
  BY <1>7, <1>10, <1>11, StepsBy

\* The remote wrapper is made, and what it heard early takes effect.
LEMMA OpenedRemoteSteps ==
    ASSUME IInv, LinkInv, NEW c \in Channels, c \notin missed, OpenedRemote(c)
    PROVE  Steps(c)
<1>1. /\ dc["remote"][c] = "opening" /\ dc' = [dc EXCEPT !["remote"][c] = "open"]
      /\ RunCallbacks("remote", c, chan["remote"][c], wire, pool_)
  BY DEF OpenedRemote
<1>2. /\ chan["local"][c] \in PoolChannel /\ chan["remote"][c] \in PoolChannel
      /\ wire["remote"][c] \in Seq(Message)
      /\ "local" \in Sides /\ "remote" \in Sides /\ Peer("remote") = "local"
      /\ accepted[c] \in Nat
      /\ LinkOf(c) /\ Around(c)
  BY Knows
<1>3. /\ chan["remote"][c].state = "CLOSED" /\ chan["remote"][c].ack = "none"
      /\ chan["remote"][c].onceOpened # "settled"
      /\ chan["remote"][c].onceClosed # "fulfilled"
  BY <1>1, <1>2 DEF IInv, WrappedInv, AckInv, AckOwed
<1>4. /\ dc'["remote"][c] = "open" /\ dc'["local"][c] = dc["local"][c]
      /\ \A t \in Sides, d \in Channels : d # c => dc'[t][d] = dc[t][d]
  BY <1>1, <1>2 DEF IInv, TypeOK
<1>5. PICK f : f = Callbacks(chan["remote"][c])
  OBVIOUS
<1>6. f \in PoolChannel
  BY <1>2, <1>5, CallbacksType
<1>7. wire = [wire EXCEPT !["remote"][c] = wire["remote"][c]]
  BY DEF IInv, TypeOK
<1>8. TaskDone("remote", c, chan["remote"][c], wire["remote"][c])
  BY <1>1, <1>2, <1>7, TaskEffect
<1>9. ~ AnswerDue(chan["remote"][c])
  BY <1>3 DEF AnswerDue
<1>10. /\ chan'["remote"][c] = f /\ chan'["local"][c] = chan["local"][c]
       /\ wire'["remote"][c] = wire["remote"][c]
       /\ wire'["local"][c] = wire["local"][c]
       /\ accepted'[c] = IF chan["remote"][c].onceOpened = "fulfilled"
                         THEN accepted[c] + 1 ELSE accepted[c]
       /\ Elsewhere(c)
  BY <1>2, <1>4, <1>5, <1>8, <1>9 DEF TaskDone
<1>11. /\ f.onceOpened # "fulfilled" /\ f.onceClosed = chan["remote"][c].onceClosed
       /\ f.dataFromPeerQueue = chan["remote"][c].dataFromPeerQueue
       /\ f.ack = chan["remote"][c].ack /\ f.lease = chan["remote"][c].lease
       /\ f.state = IF chan["remote"][c].onceOpened = "fulfilled"
                    THEN "OPEN" ELSE "CLOSED"
       /\ chan["remote"][c].onceOpened = "fulfilled" => f.onceOpened = "settled"
  BY <1>2, <1>3, <1>5, CallbacksEffect
<1>12. /\ Drained(f) /\ Drained(chan["local"][c])
       /\ dc'["remote"][c] = "closed" <=> ~ Alive(f)
       /\ dc'["local"][c] = "closed" <=> ~ Alive(chan["local"][c])
       /\ f.onceOpened # "fulfilled"
  BY <1>2, <1>3, <1>4, <1>11 DEF Around, Drained, Alive
<1>13. CASE chan["remote"][c].onceOpened = "fulfilled"
  <2>1. /\ Linked(chan["local"][c], f, wire["local"][c], wire["remote"][c],
                accepted[c] + 1)
        /\ LeaseStep(chan["local"][c], chan["remote"][c], accepted[c],
                     chan["local"][c], f, accepted[c] + 1)
    BY <1>2, <1>3, <1>6, <1>11, <1>13, RemoteWrappedLink DEF LinkOf
  <2>2. accepted'[c] = accepted[c] + 1
    BY <1>10, <1>13
  <2> QED
    BY <1>10, <1>12, <2>1, <2>2, StepsBy
<1>14. CASE chan["remote"][c].onceOpened # "fulfilled"
  <2>1. f = chan["remote"][c]
    BY <1>2, <1>3, <1>5, <1>14 DEF Callbacks, OpenedCallback, DrainedCallback,
                                   ClosedCallback
  <2>2. /\ Linked(chan["local"][c], f, wire["local"][c], wire["remote"][c],
                accepted[c])
        /\ LeaseStep(chan["local"][c], chan["remote"][c], accepted[c],
                     chan["local"][c], f, accepted[c])
    BY <1>2, <2>1 DEF LinkOf, LeaseStep
  <2>3. accepted'[c] = accepted[c]
    BY <1>10, <1>14
  <2> QED
    BY <1>10, <1>12, <2>2, <2>3, StepsBy
<1> QED
  BY <1>13, <1>14

\* The send of the local end's answer settles.
LEMMA LocalAckedSteps ==
    ASSUME IInv, LinkInv, NEW c \in Channels, c \notin missed, AckSettled("local", c)
    PROVE  Steps(c)
<1>1. /\ chan["local"][c].ack = "sending" /\ dc' = dc
      /\ RunCallbacks("local", c,
                      [chan["local"][c] EXCEPT !.ack = "none",
                                           !.onceClosed = Fulfill(@)],
                      wire, pool_)
  BY DEF AckSettled
<1>2. /\ chan["local"][c] \in PoolChannel /\ chan["remote"][c] \in PoolChannel
      /\ wire["local"][c] \in Seq(Message)
      /\ "local" \in Sides /\ "remote" \in Sides /\ Peer("local") = "remote"
      /\ accepted[c] \in Nat
      /\ LinkOf(c) /\ Around(c)
  BY Knows
<1>3. PICK e \in PoolChannel :
         /\ e = [chan["local"][c] EXCEPT !.ack = "none", !.onceClosed = Fulfill(@)]
         /\ e.state = chan["local"][c].state
         /\ e.onceOpened = chan["local"][c].onceOpened
         /\ e.onceClosed = Fulfill(chan["local"][c].onceClosed) /\ e.ack = "none"
         /\ e.dataFromPeerQueue = chan["local"][c].dataFromPeerQueue
         /\ e.lease = chan["local"][c].lease
  <2>1. LET e == [chan["local"][c] EXCEPT !.ack = "none", !.onceClosed = Fulfill(@)]
        IN  /\ e \in PoolChannel /\ e.state = chan["local"][c].state
            /\ e.onceOpened = chan["local"][c].onceOpened
            /\ e.onceClosed = Fulfill(chan["local"][c].onceClosed) /\ e.ack = "none"
            /\ e.dataFromPeerQueue = chan["local"][c].dataFromPeerQueue
            /\ e.lease = chan["local"][c].lease
    BY <1>2 DEF PoolChannel, Fulfill, Promise
  <2> QED
    BY <2>1
<1>4. PICK f : f = Callbacks(e)
  OBVIOUS
<1>5. f \in PoolChannel
  BY <1>4, CallbacksType
<1>6. TaskDone("local", c, e, wire["local"][c])
  <2>1. RunCallbacks("local", c, e, wire, pool_)
    BY <1>1, <1>3
  <2>2. wire = [wire EXCEPT !["local"][c] = wire["local"][c]]
    BY DEF IInv, TypeOK
  <2> QED
    BY <1>2, <2>1, <2>2, TaskEffect
<1>7. /\ chan["local"][c].state \in {"CLOSING", "PERMANENTLY_CLOSED"}
      /\ chan["local"][c].onceOpened # "fulfilled"
  <2>1. chan["local"][c].state \in {"CLOSING", "PERMANENTLY_CLOSED"}
    BY <1>1, <1>2 DEF IInv, AckInv, AckOwed
  <2>2. dc["local"][c] # "opening"
    BY <1>2, <2>1 DEF IInv, WrappedInv
  <2> QED
    BY <1>2, <2>1, <2>2 DEF Around, LinkOf, Linked
<1>8. /\ chan'["local"][c] = f /\ chan'["remote"][c] = chan["remote"][c]
      /\ wire'["local"][c] = wire["local"][c]
      /\ wire'["remote"][c] = wire["remote"][c]
      /\ accepted'[c] = accepted[c]
      /\ Elsewhere(c)
  <2>1. ~ AnswerDue(e) /\ e.onceOpened # "fulfilled"
    BY <1>3, <1>7 DEF AnswerDue
  <2> QED
    BY <1>1, <1>2, <1>4, <1>6, <2>1 DEF TaskDone
<1>9. CASE Alive(chan["local"][c])
  <2>1. e.onceClosed = "fulfilled" /\ Alive(e)
    BY <1>2, <1>3, <1>9 DEF LinkOf, Linked, EndOK, Alive, Fulfill
  <2>2. f = Reset(chan["local"][c].lease + 1)
    BY <1>3, <1>4, <2>1, CallbacksEffect
  <2>3. /\ f.state = "CLOSED" /\ f.onceOpened = "pending"
        /\ f.onceClosed = "pending" /\ f.dataFromPeerQueue = <<>>
        /\ f.ack = "none" /\ f.lease = chan["local"][c].lease + 1
    BY <2>2 DEF Reset
  <2>4. /\ Linked(f, chan["remote"][c], wire["local"][c], wire["remote"][c], accepted[c])
        /\ LeaseStep(chan["local"][c], chan["remote"][c], accepted[c],
                     f, chan["remote"][c], accepted[c])
    BY <1>1, <1>2, <1>5, <1>9, <2>3, LocalAckedLink DEF LinkOf
  <2>5. /\ Drained(f) /\ Drained(chan["remote"][c])
        /\ dc'["local"][c] = "closed" <=> ~ Alive(f)
        /\ dc'["remote"][c] = "closed" <=> ~ Alive(chan["remote"][c])
        /\ chan["remote"][c].onceOpened = "fulfilled" => dc'["remote"][c] = "opening"
    BY <1>1, <1>2, <1>9, <2>3 DEF Around, Drained, Alive
  <2> QED
    BY <1>8, <2>4, <2>5, StepsBy
<1>10. CASE ~ Alive(chan["local"][c])
  <2>1. /\ e.onceClosed = "settled" /\ ~ Alive(e)
        /\ chan["local"][c].onceClosed = "settled"
    BY <1>2, <1>3, <1>10 DEF LinkOf, Linked, EndOK, Alive, Fulfill
  <2>2. /\ f.state = chan["local"][c].state
        /\ f.onceOpened = chan["local"][c].onceOpened
        /\ f.onceClosed = chan["local"][c].onceClosed /\ f.ack = "none"
        /\ f.dataFromPeerQueue = chan["local"][c].dataFromPeerQueue
        /\ f.lease = chan["local"][c].lease
    BY <1>3, <1>4, <1>7, <2>1, CallbacksEffect
  <2>3. /\ Linked(f, chan["remote"][c], wire["local"][c], wire["remote"][c], accepted[c])
        /\ LeaseStep(chan["local"][c], chan["remote"][c], accepted[c],
                     f, chan["remote"][c], accepted[c])
    BY <1>2, <1>5, <1>10, <2>2, LocalForgetsLink DEF LinkOf
  <2>5. /\ Drained(f) /\ Drained(chan["remote"][c])
        /\ dc'["local"][c] = "closed" <=> ~ Alive(f)
        /\ dc'["remote"][c] = "closed" <=> ~ Alive(chan["remote"][c])
        /\ chan["remote"][c].onceOpened = "fulfilled" => dc'["remote"][c] = "opening"
    BY <1>1, <1>2, <1>7, <1>10, <2>2 DEF Around, Drained, Alive
  <2> QED
    BY <1>8, <2>3, <2>5, StepsBy
<1> QED
  BY <1>9, <1>10

\* The data channel closes under the wrapper of the local end.
LEMMA LocalClosedSteps ==
    ASSUME IInv, LinkInv, NEW c \in Channels, c \notin missed, Closed("local", c)
    PROVE  Steps(c)
<1>1. /\ dc["local"][c] = "open"
      /\ dc' = [dc EXCEPT !["local"][c] = "closed"]
      /\ RunCallbacks("local", c,
                      [chan["local"][c] EXCEPT !.state = "PERMANENTLY_CLOSED",
                                           !.onceClosed = Fulfill(@)],
                      [wire EXCEPT !["local"][c] = <<>>], pool_)
  BY DEF Closed
<1>2. /\ chan["local"][c] \in PoolChannel /\ chan["remote"][c] \in PoolChannel
      /\ "local" \in Sides /\ "remote" \in Sides /\ Peer("local") = "remote"
      /\ accepted[c] \in Nat
      /\ LinkOf(c) /\ Around(c)
  BY Knows
<1>3. PICK e \in PoolChannel :
         /\ e = [chan["local"][c] EXCEPT !.state = "PERMANENTLY_CLOSED",
                                      !.onceClosed = Fulfill(@)]
         /\ e.state = "PERMANENTLY_CLOSED"
         /\ e.onceOpened = chan["local"][c].onceOpened
         /\ e.onceClosed = Fulfill(chan["local"][c].onceClosed)
         /\ e.ack = chan["local"][c].ack
         /\ e.dataFromPeerQueue = chan["local"][c].dataFromPeerQueue
         /\ e.lease = chan["local"][c].lease
  <2>1. LET e == [chan["local"][c] EXCEPT !.state = "PERMANENTLY_CLOSED",
                                      !.onceClosed = Fulfill(@)]
        IN  /\ e \in PoolChannel /\ e.state = "PERMANENTLY_CLOSED"
            /\ e.onceOpened = chan["local"][c].onceOpened
            /\ e.onceClosed = Fulfill(chan["local"][c].onceClosed)
            /\ e.ack = chan["local"][c].ack
            /\ e.dataFromPeerQueue = chan["local"][c].dataFromPeerQueue
            /\ e.lease = chan["local"][c].lease
    BY <1>2 DEF PoolChannel, Fulfill, Promise, State
  <2> QED
    BY <2>1
<1>4. PICK q \in Seq(Message) : q = <<>>
  <2>1. <<>> \in Seq(Message)
    OBVIOUS
  <2> QED
    BY <2>1
<1>5. (\A k : ~ Carries(q, k)) /\ Ordered(q)
  BY <1>4, EmptyWire
<1>6. PICK f : f = Callbacks(e)
  OBVIOUS
<1>7. f \in PoolChannel
  BY <1>6, CallbacksType
<1>8. TaskDone("local", c, e, q)
  <2>1. PICK w : w = [wire EXCEPT !["local"][c] = <<>>]
    OBVIOUS
  <2>2. RunCallbacks("local", c, e, w, pool_)
    BY <1>1, <1>3, <2>1
  <2>3. w = [wire EXCEPT !["local"][c] = q]
    BY <1>4, <2>1
  <2> QED
    BY <1>2, <2>2, <2>3, TaskEffect
<1>9. /\ dc'["local"][c] = "closed" /\ dc'["remote"][c] = dc["remote"][c]
      /\ \A t \in Sides, d \in Channels : d # c => dc'[t][d] = dc[t][d]
  BY <1>1, <1>2 DEF IInv, TypeOK
<1>10. /\ Alive(chan["local"][c]) /\ chan["local"][c].onceClosed = "pending"
       /\ chan["local"][c].onceOpened # "fulfilled"
  <2>1. Alive(chan["local"][c]) /\ chan["local"][c].onceOpened # "fulfilled"
    BY <1>1, <1>2 DEF Around, LinkOf, Linked
  <2> QED
    BY <1>2, <2>1 DEF LinkOf, Linked, EndOK
<1>11. /\ ~ AnswerDue(e) /\ e.onceOpened # "fulfilled"
       /\ e.onceClosed = "fulfilled" /\ ~ Alive(e)
  BY <1>2, <1>3, <1>10 DEF Around, Drained, AnswerDue, Fulfill, Alive
<1>12. /\ chan'["local"][c] = f /\ chan'["remote"][c] = chan["remote"][c]
       /\ wire'["local"][c] = q
       /\ wire'["remote"][c] = wire["remote"][c]
       /\ accepted'[c] = accepted[c]
       /\ Elsewhere(c)
  BY <1>2, <1>6, <1>8, <1>9, <1>11 DEF TaskDone
<1>13. /\ f.state = "PERMANENTLY_CLOSED" /\ f.onceOpened = chan["local"][c].onceOpened
       /\ f.onceClosed = "settled"
       /\ f.dataFromPeerQueue = chan["local"][c].dataFromPeerQueue
       /\ f.ack = chan["local"][c].ack /\ f.lease = chan["local"][c].lease
  BY <1>3, <1>6, <1>11, CallbacksEffect DEF AnswerDue
<1>14. /\ Linked(f, chan["remote"][c], q, wire["remote"][c], accepted[c])
       /\ LeaseStep(chan["local"][c], chan["remote"][c], accepted[c],
                     f, chan["remote"][c], accepted[c])
  BY <1>2, <1>5, <1>7, <1>10, <1>13, LocalDiesLink DEF LinkOf
<1>15. /\ Drained(f) /\ Drained(chan["remote"][c])
       /\ dc'["local"][c] = "closed" <=> ~ Alive(f)
       /\ dc'["remote"][c] = "closed" <=> ~ Alive(chan["remote"][c])
       /\ chan["remote"][c].onceOpened = "fulfilled" => dc'["remote"][c] = "opening"
  BY <1>2, <1>9, <1>10, <1>13 DEF Around, Drained, Alive
<1> QED
  BY <1>12, <1>14, <1>15, StepsBy

\* The send of the remote end's answer settles.
LEMMA RemoteAckedSteps ==
    ASSUME IInv, LinkInv, NEW c \in Channels, c \notin missed, AckSettled("remote", c)
    PROVE  Steps(c)
<1>1. /\ chan["remote"][c].ack = "sending" /\ dc' = dc
      /\ RunCallbacks("remote", c,
                      [chan["remote"][c] EXCEPT !.ack = "none",
                                           !.onceClosed = Fulfill(@)],
                      wire, pool_)
  BY DEF AckSettled
<1>2. /\ chan["local"][c] \in PoolChannel /\ chan["remote"][c] \in PoolChannel
      /\ wire["remote"][c] \in Seq(Message)
      /\ "local" \in Sides /\ "remote" \in Sides /\ Peer("remote") = "local"
      /\ accepted[c] \in Nat
      /\ LinkOf(c) /\ Around(c)
  BY Knows
<1>3. PICK e \in PoolChannel :
         /\ e = [chan["remote"][c] EXCEPT !.ack = "none", !.onceClosed = Fulfill(@)]
         /\ e.state = chan["remote"][c].state
         /\ e.onceOpened = chan["remote"][c].onceOpened
         /\ e.onceClosed = Fulfill(chan["remote"][c].onceClosed) /\ e.ack = "none"
         /\ e.dataFromPeerQueue = chan["remote"][c].dataFromPeerQueue
         /\ e.lease = chan["remote"][c].lease
  <2>1. LET e == [chan["remote"][c] EXCEPT !.ack = "none", !.onceClosed = Fulfill(@)]
        IN  /\ e \in PoolChannel /\ e.state = chan["remote"][c].state
            /\ e.onceOpened = chan["remote"][c].onceOpened
            /\ e.onceClosed = Fulfill(chan["remote"][c].onceClosed) /\ e.ack = "none"
            /\ e.dataFromPeerQueue = chan["remote"][c].dataFromPeerQueue
            /\ e.lease = chan["remote"][c].lease
    BY <1>2 DEF PoolChannel, Fulfill, Promise
  <2> QED
    BY <2>1
<1>4. PICK f : f = Callbacks(e)
  OBVIOUS
<1>5. f \in PoolChannel
  BY <1>4, CallbacksType
<1>6. TaskDone("remote", c, e, wire["remote"][c])
  <2>1. RunCallbacks("remote", c, e, wire, pool_)
    BY <1>1, <1>3
  <2>2. wire = [wire EXCEPT !["remote"][c] = wire["remote"][c]]
    BY DEF IInv, TypeOK
  <2> QED
    BY <1>2, <2>1, <2>2, TaskEffect
<1>7. /\ chan["remote"][c].state \in {"CLOSING", "PERMANENTLY_CLOSED"}
      /\ chan["remote"][c].onceOpened # "fulfilled"
  <2>1. chan["remote"][c].state \in {"CLOSING", "PERMANENTLY_CLOSED"}
    BY <1>1, <1>2 DEF IInv, AckInv, AckOwed
  <2>2. dc["remote"][c] # "opening"
    BY <1>2, <2>1 DEF IInv, WrappedInv
  <2> QED
    BY <1>2, <2>1, <2>2 DEF Around, LinkOf, Linked
<1>8. /\ chan'["remote"][c] = f /\ chan'["local"][c] = chan["local"][c]
      /\ wire'["remote"][c] = wire["remote"][c]
      /\ wire'["local"][c] = wire["local"][c]
      /\ accepted'[c] = accepted[c]
      /\ Elsewhere(c)
  <2>1. ~ AnswerDue(e) /\ e.onceOpened # "fulfilled"
    BY <1>3, <1>7 DEF AnswerDue
  <2> QED
    BY <1>1, <1>2, <1>4, <1>6, <2>1 DEF TaskDone
<1>9. CASE Alive(chan["remote"][c])
  <2>1. e.onceClosed = "fulfilled" /\ Alive(e)
    BY <1>2, <1>3, <1>9 DEF LinkOf, Linked, EndOK, Alive, Fulfill
  <2>2. f = Reset(chan["remote"][c].lease + 1)
    BY <1>3, <1>4, <2>1, CallbacksEffect
  <2>3. /\ f.state = "CLOSED" /\ f.onceOpened = "pending"
        /\ f.onceClosed = "pending" /\ f.dataFromPeerQueue = <<>>
        /\ f.ack = "none" /\ f.lease = chan["remote"][c].lease + 1
    BY <2>2 DEF Reset
  <2>4. /\ Linked(chan["local"][c], f, wire["local"][c], wire["remote"][c], accepted[c])
        /\ LeaseStep(chan["local"][c], chan["remote"][c], accepted[c],
                     chan["local"][c], f, accepted[c])
    BY <1>1, <1>2, <1>5, <1>9, <2>3, RemoteAckedLink DEF LinkOf
  <2>5. /\ Drained(f) /\ Drained(chan["local"][c])
        /\ dc'["remote"][c] = "closed" <=> ~ Alive(f)
        /\ dc'["local"][c] = "closed" <=> ~ Alive(chan["local"][c])
        /\ f.onceOpened # "fulfilled"
    BY <1>1, <1>2, <1>9, <2>3 DEF Around, Drained, Alive
  <2> QED
    BY <1>8, <2>4, <2>5, StepsBy
<1>10. CASE ~ Alive(chan["remote"][c])
  <2>1. /\ e.onceClosed = "settled" /\ ~ Alive(e)
        /\ chan["remote"][c].onceClosed = "settled"
    BY <1>2, <1>3, <1>10 DEF LinkOf, Linked, EndOK, Alive, Fulfill
  <2>2. /\ f.state = chan["remote"][c].state
        /\ f.onceOpened = chan["remote"][c].onceOpened
        /\ f.onceClosed = chan["remote"][c].onceClosed /\ f.ack = "none"
        /\ f.dataFromPeerQueue = chan["remote"][c].dataFromPeerQueue
        /\ f.lease = chan["remote"][c].lease
    BY <1>3, <1>4, <1>7, <2>1, CallbacksEffect
  <2>3. /\ Linked(chan["local"][c], f, wire["local"][c], wire["remote"][c], accepted[c])
        /\ LeaseStep(chan["local"][c], chan["remote"][c], accepted[c],
                     chan["local"][c], f, accepted[c])
    BY <1>2, <1>5, <1>10, <2>2, RemoteForgetsLink DEF LinkOf
  <2>5. /\ Drained(f) /\ Drained(chan["local"][c])
        /\ dc'["remote"][c] = "closed" <=> ~ Alive(f)
        /\ dc'["local"][c] = "closed" <=> ~ Alive(chan["local"][c])
        /\ f.onceOpened # "fulfilled"
    BY <1>1, <1>2, <1>7, <1>10, <2>2 DEF Around, Drained, Alive
  <2> QED
    BY <1>8, <2>3, <2>5, StepsBy
<1> QED
  BY <1>9, <1>10

\* The data channel closes under the wrapper of the remote end.
LEMMA RemoteClosedSteps ==
    ASSUME IInv, LinkInv, NEW c \in Channels, c \notin missed, Closed("remote", c)
    PROVE  Steps(c)
<1>1. /\ dc["remote"][c] = "open"
      /\ dc' = [dc EXCEPT !["remote"][c] = "closed"]
      /\ RunCallbacks("remote", c,
                      [chan["remote"][c] EXCEPT !.state = "PERMANENTLY_CLOSED",
                                           !.onceClosed = Fulfill(@)],
                      [wire EXCEPT !["remote"][c] = <<>>], pool_)
  BY DEF Closed
<1>2. /\ chan["local"][c] \in PoolChannel /\ chan["remote"][c] \in PoolChannel
      /\ "local" \in Sides /\ "remote" \in Sides /\ Peer("remote") = "local"
      /\ accepted[c] \in Nat
      /\ LinkOf(c) /\ Around(c)
  BY Knows
<1>3. PICK e \in PoolChannel :
         /\ e = [chan["remote"][c] EXCEPT !.state = "PERMANENTLY_CLOSED",
                                      !.onceClosed = Fulfill(@)]
         /\ e.state = "PERMANENTLY_CLOSED"
         /\ e.onceOpened = chan["remote"][c].onceOpened
         /\ e.onceClosed = Fulfill(chan["remote"][c].onceClosed)
         /\ e.ack = chan["remote"][c].ack
         /\ e.dataFromPeerQueue = chan["remote"][c].dataFromPeerQueue
         /\ e.lease = chan["remote"][c].lease
  <2>1. LET e == [chan["remote"][c] EXCEPT !.state = "PERMANENTLY_CLOSED",
                                      !.onceClosed = Fulfill(@)]
        IN  /\ e \in PoolChannel /\ e.state = "PERMANENTLY_CLOSED"
            /\ e.onceOpened = chan["remote"][c].onceOpened
            /\ e.onceClosed = Fulfill(chan["remote"][c].onceClosed)
            /\ e.ack = chan["remote"][c].ack
            /\ e.dataFromPeerQueue = chan["remote"][c].dataFromPeerQueue
            /\ e.lease = chan["remote"][c].lease
    BY <1>2 DEF PoolChannel, Fulfill, Promise, State
  <2> QED
    BY <2>1
<1>4. PICK q \in Seq(Message) : q = <<>>
  <2>1. <<>> \in Seq(Message)
    OBVIOUS
  <2> QED
    BY <2>1
<1>5. (\A k : ~ Carries(q, k)) /\ Ordered(q)
  BY <1>4, EmptyWire
<1>6. PICK f : f = Callbacks(e)
  OBVIOUS
<1>7. f \in PoolChannel
  BY <1>6, CallbacksType
<1>8. TaskDone("remote", c, e, q)
  <2>1. PICK w : w = [wire EXCEPT !["remote"][c] = <<>>]
    OBVIOUS
  <2>2. RunCallbacks("remote", c, e, w, pool_)
    BY <1>1, <1>3, <2>1
  <2>3. w = [wire EXCEPT !["remote"][c] = q]
    BY <1>4, <2>1
  <2> QED
    BY <1>2, <2>2, <2>3, TaskEffect
<1>9. /\ dc'["remote"][c] = "closed" /\ dc'["local"][c] = dc["local"][c]
      /\ \A t \in Sides, d \in Channels : d # c => dc'[t][d] = dc[t][d]
  BY <1>1, <1>2 DEF IInv, TypeOK
<1>10. /\ Alive(chan["remote"][c]) /\ chan["remote"][c].onceClosed = "pending"
       /\ chan["remote"][c].onceOpened # "fulfilled"
  <2>1. Alive(chan["remote"][c]) /\ chan["remote"][c].onceOpened # "fulfilled"
    BY <1>1, <1>2 DEF Around, LinkOf, Linked
  <2> QED
    BY <1>2, <2>1 DEF LinkOf, Linked, EndOK
<1>11. /\ ~ AnswerDue(e) /\ e.onceOpened # "fulfilled"
       /\ e.onceClosed = "fulfilled" /\ ~ Alive(e)
  BY <1>2, <1>3, <1>10 DEF Around, Drained, AnswerDue, Fulfill, Alive
<1>12. /\ chan'["remote"][c] = f /\ chan'["local"][c] = chan["local"][c]
       /\ wire'["remote"][c] = q
       /\ wire'["local"][c] = wire["local"][c]
       /\ accepted'[c] = accepted[c]
       /\ Elsewhere(c)
  BY <1>2, <1>6, <1>8, <1>9, <1>11 DEF TaskDone
<1>13. /\ f.state = "PERMANENTLY_CLOSED" /\ f.onceOpened = chan["remote"][c].onceOpened
       /\ f.onceClosed = "settled"
       /\ f.dataFromPeerQueue = chan["remote"][c].dataFromPeerQueue
       /\ f.ack = chan["remote"][c].ack /\ f.lease = chan["remote"][c].lease
  BY <1>3, <1>6, <1>11, CallbacksEffect DEF AnswerDue
<1>14. /\ Linked(chan["local"][c], f, wire["local"][c], q, accepted[c])
       /\ LeaseStep(chan["local"][c], chan["remote"][c], accepted[c],
                     chan["local"][c], f, accepted[c])
  BY <1>2, <1>5, <1>7, <1>10, <1>13, RemoteDiesLink DEF LinkOf
<1>15. /\ Drained(f) /\ Drained(chan["local"][c])
       /\ dc'["remote"][c] = "closed" <=> ~ Alive(f)
       /\ dc'["local"][c] = "closed" <=> ~ Alive(chan["local"][c])
       /\ f.onceOpened # "fulfilled"
  BY <1>2, <1>9, <1>10, <1>13 DEF Around, Drained, Alive
<1> QED
  BY <1>12, <1>14, <1>15, StepsBy

\* What open() does to a channel that is not open.
OpenDone(c) ==
    LET e == chan["local"][c]
        f == chan'["local"][c]
    IN  /\ f \in PoolChannel
        /\ f.state = (IF e.state = "CLOSED" THEN "OPEN" ELSE e.state)
        /\ f.onceOpened = "settled" /\ f.onceClosed = e.onceClosed
        /\ f.dataFromPeerQueue = e.dataFromPeerQueue
        /\ f.ack = e.ack /\ f.lease = e.lease
        /\ chan'["remote"][c] = chan["remote"][c]
        /\ wire' = Post(wire, "local", c, Msg("OPEN", e.lease))
        /\ accepted'[c] = accepted[c] /\ Elsewhere(c)

\* It opens, and tells the peer.
LEMMA OpenEffect ==
    ASSUME IInv, LinkInv, NEW c \in Channels, c \notin missed, NEW p, Open(c, p),
           chan["local"][c].state \notin {"OPEN", "CLOSING"},
           dc'["local"][c] = "closed" <=> dc["local"][c] = "closed",
           dc'["remote"][c] = dc["remote"][c],
           \A t \in Sides, d \in Channels : d # c => dc'[t][d] = dc[t][d]
    PROVE  OpenDone(c)
<1>1. /\ chan["local"][c] \in PoolChannel /\ chan["remote"][c] \in PoolChannel
      /\ "local" \in Sides /\ "remote" \in Sides /\ Peer("local") = "remote"
      /\ accepted[c] \in Nat
      /\ LinkOf(c) /\ Around(c)
  BY Knows
<1>2. PICK e \in PoolChannel :
         /\ e = [chan["local"][c] EXCEPT !.onceOpened = Fulfill(@)]
         /\ e.state = chan["local"][c].state
         /\ e.onceOpened = Fulfill(chan["local"][c].onceOpened)
         /\ e.onceClosed = chan["local"][c].onceClosed
         /\ e.ack = chan["local"][c].ack
         /\ e.dataFromPeerQueue = chan["local"][c].dataFromPeerQueue
         /\ e.lease = chan["local"][c].lease
  <2>1. LET e == [chan["local"][c] EXCEPT !.onceOpened = Fulfill(@)]
        IN  /\ e \in PoolChannel
            /\ e.state = chan["local"][c].state
            /\ e.onceOpened = Fulfill(chan["local"][c].onceOpened)
            /\ e.onceClosed = chan["local"][c].onceClosed
            /\ e.ack = chan["local"][c].ack
            /\ e.dataFromPeerQueue = chan["local"][c].dataFromPeerQueue
            /\ e.lease = chan["local"][c].lease
    BY <1>1 DEF PoolChannel, Fulfill, Promise
  <2> QED
    BY <2>1
<1>3. PICK f \in PoolChannel : f = Callbacks(e)
  BY CallbacksType
<1>4. /\ e.onceOpened # "pending" /\ e.onceClosed # "fulfilled"
      /\ chan["local"][c].onceOpened # "fulfilled"
      /\ ~ AnswerDue(e)
  BY <1>1, <1>2 DEF IInv, AckInv, LocalInv, Around, Drained, AnswerDue, Fulfill
<1>5. /\ f.state = (IF chan["local"][c].state = "CLOSED" THEN "OPEN"
                    ELSE chan["local"][c].state)
      /\ f.onceOpened = "settled" /\ f.onceClosed = chan["local"][c].onceClosed
      /\ f.dataFromPeerQueue = chan["local"][c].dataFromPeerQueue
      /\ f.ack = chan["local"][c].ack /\ f.lease = chan["local"][c].lease
  <2>1. CASE chan["local"][c].state = "CLOSED"
    <3>1. chan["local"][c].onceOpened = "pending"
      BY <1>1, <1>4, <2>1 DEF LinkOf, Linked, EndOK, Alive, PoolChannel, Promise
    <3>2. e.onceOpened = "fulfilled"
      BY <1>2, <3>1 DEF Fulfill
    <3> QED
      BY <1>2, <1>3, <1>4, <2>1, <3>2, CallbacksEffect DEF AnswerDue
  <2>2. CASE chan["local"][c].state # "CLOSED"
    <3>1. e.onceOpened \in {"fulfilled", "settled"}
      BY <1>4 DEF PoolChannel, Promise
    <3> QED
      BY <1>2, <1>3, <1>4, <2>2, <3>1, CallbacksEffect DEF AnswerDue
  <2> QED
    BY <2>1, <2>2
<1>6. /\ chan' = [chan EXCEPT !["local"][c] = f]
      /\ wire' = Post(wire, "local", c, Msg("OPEN", chan["local"][c].lease))
      /\ accepted' = accepted
  <2>1. PICK w : w = Post(wire, "local", c, Msg("OPEN", chan["local"][c].lease))
    OBVIOUS
  <2>2. RunCallbacks("local", c, e, w, p)
    BY <1>2, <2>1 DEF Open
  <2>3. DrainedCallback(e).ack = e.ack
    BY <1>4 DEF DrainedCallback, AnswerDue
  <2> QED
    BY <1>3, <2>1, <2>2, <2>3 DEF RunCallbacks
<1>7. /\ chan'["local"][c] = f
      /\ \A t \in Sides, d \in Channels :
            t # "local" \/ d # c => chan'[t][d] = chan[t][d]
  BY <1>1, <1>6 DEF IInv, TypeOK
<1>8. \A t \in Sides, d \in Channels : d # c => wire'[t][d] = wire[t][d]
  <2>1. chan["local"][c].lease \in Nat
    BY <1>1 DEF PoolChannel
  <2> QED
    BY <1>1, <1>6, <2>1, PostEffect
<1>9. /\ chan'["remote"][c] = chan["remote"][c] /\ accepted'[c] = accepted[c]
      /\ Elsewhere(c)
  BY <1>1, <1>6, <1>7, <1>8 DEF Elsewhere
<1> QED
  BY <1>5, <1>6, <1>7, <1>9 DEF OpenDone

\* open() of a channel that is not leased.
LEMMA OpenSteps ==
    ASSUME IInv, LinkInv, NEW c \in Channels, c \notin missed, NEW p, Open(c, p),
           chan["local"][c].state \notin {"OPEN", "CLOSING"},
           dc'["local"][c] = "closed" <=> dc["local"][c] = "closed",
           dc'["remote"][c] = dc["remote"][c],
           \A t \in Sides, d \in Channels : d # c => dc'[t][d] = dc[t][d]
    PROVE  Steps(c)
<1>1. /\ chan["local"][c] \in PoolChannel /\ chan["remote"][c] \in PoolChannel
      /\ "local" \in Sides /\ "remote" \in Sides /\ Peer("local") = "remote"
      /\ accepted[c] \in Nat
      /\ LinkOf(c) /\ Around(c)
  BY Knows
<1>2. OpenDone(c)
  BY OpenEffect
<1>3. PICK f, v : f = chan'["local"][c] /\ v = wire'["remote"][c]
  OBVIOUS
<1>4. /\ f \in PoolChannel
      /\ f.state = (IF chan["local"][c].state = "CLOSED" THEN "OPEN"
                    ELSE chan["local"][c].state)
      /\ f.onceOpened = "settled" /\ f.onceClosed = chan["local"][c].onceClosed
      /\ f.dataFromPeerQueue = chan["local"][c].dataFromPeerQueue
      /\ f.ack = chan["local"][c].ack /\ f.lease = chan["local"][c].lease
      /\ chan'["remote"][c] = chan["remote"][c] /\ accepted'[c] = accepted[c]
      /\ wire' = Post(wire, "local", c, Msg("OPEN", chan["local"][c].lease))
      /\ Elsewhere(c)
  BY <1>2, <1>3 DEF OpenDone
<1>5. /\ Posted(v, wire["remote"][c], "OPEN", chan["local"][c].lease,
                chan["local"][c], chan["remote"][c])
      /\ wire'["local"][c] = wire["local"][c]
  <2>1. chan["local"][c].lease \in Nat
    BY <1>1 DEF PoolChannel
  <2>2. /\ Posted(wire'[Peer("local")][c], wire[Peer("local")][c], "OPEN",
                  chan["local"][c].lease, chan["local"][c], chan["remote"][c])
        /\ wire'["local"][c] = wire["local"][c]
    BY <1>1, <1>4, <2>1, PostEffect
  <2> QED
    BY <1>1, <1>3, <2>2
<1>6. /\ Linked(f, chan["remote"][c], wire["local"][c], v, accepted[c])
      /\ LeaseStep(chan["local"][c], chan["remote"][c], accepted[c],
                   f, chan["remote"][c], accepted[c])
  BY <1>1, <1>4, <1>5, LocalOpensLink DEF LinkOf
<1>7. /\ Drained(f) /\ Drained(chan["remote"][c])
      /\ dc'["local"][c] = "closed" <=> ~ Alive(f)
      /\ dc'["remote"][c] = "closed" <=> ~ Alive(chan["remote"][c])
      /\ chan["remote"][c].onceOpened = "fulfilled" => dc'["remote"][c] = "opening"
  BY <1>1, <1>4 DEF Around, Drained, Alive
<1> QED
  BY <1>3, <1>4, <1>5, <1>6, <1>7, StepsBy

\* The local end of a new data channel opens, and is leased.
LEMMA OpenedLocalSteps ==
    ASSUME IInv, LinkInv, NEW c \in Channels, c \notin missed, OpenedLocal(c)
    PROVE  Steps(c)
<1>1. /\ dc["local"][c] = "opening" /\ dc' = [dc EXCEPT !["local"][c] = "open"]
      /\ Open(c, pool_)
  BY DEF OpenedLocal
<1>2. "local" \in Sides /\ "remote" \in Sides
  BY DEF Sides
<1>3. /\ dc'["local"][c] = "open" /\ dc'["remote"][c] = dc["remote"][c]
      /\ \A t \in Sides, d \in Channels : d # c => dc'[t][d] = dc[t][d]
  BY <1>1, <1>2 DEF IInv, TypeOK
<1>4. chan["local"][c].state \notin {"OPEN", "CLOSING"}
  BY <1>1, <1>2 DEF IInv, WrappedInv
<1> QED
  BY <1>1, <1>3, <1>4, OpenSteps

-----------------------------------------------------------------------------
(* What a step leaves alone, on whatever channel. *)

\* A step of channel c: the others are left alone, at most one lease is taken,
\* and a CLOSE that is missed changes nothing.
Only(c) ==
    /\ Elsewhere(c)
    /\ missed' \in {missed, missed \cup {c}}
    /\ TakenBy(chan'["local"][c])
          \in {TakenBy(chan["local"][c]), TakenBy(chan["local"][c]) + 1}
    /\ c \in missed' \ missed =>
          /\ \A s \in Sides : chan'[s][c] = chan[s][c]
          /\ chan["remote"][c].state = "CLOSED"
          /\ accepted[c] = 0 /\ accepted'[c] = 0

\* Callbacks take the lease that was opened, if any, and no other.
LEMMA CallbacksTaken ==
    ASSUME NEW x \in PoolChannel, NEW e \in PoolChannel,
           x.onceOpened # "fulfilled", e.lease = x.lease,
           x.onceOpened = "settled" => e.onceOpened = "settled"
    PROVE  TakenBy(Callbacks(e)) \in {TakenBy(x), TakenBy(x) + 1}
<1>1. PICK f : f = Callbacks(e)
  OBVIOUS
<1>2. CASE e.onceClosed = "fulfilled" /\ Alive(e)
  <2>1. f.lease = e.lease + 1 /\ f.onceOpened = "pending"
    BY <1>1, <1>2, CallbacksEffect DEF Reset
  <2> QED
    BY <1>1, <2>1 DEF TakenBy, PoolChannel
<1>3. CASE ~ (e.onceClosed = "fulfilled" /\ Alive(e))
  <2>1. /\ f.lease = e.lease
        /\ f.onceOpened = IF e.onceOpened = "fulfilled" THEN "settled" ELSE e.onceOpened
    BY <1>1, <1>3, CallbacksEffect
  <2> QED
    BY <1>1, <2>1 DEF TakenBy, PoolChannel
<1> QED
  BY <1>2, <1>3

\* A task concerns one channel.
LEMMA TaskOnly ==
    ASSUME IInv, NEW s \in Sides, NEW c \in Channels,
           NEW e \in PoolChannel, NEW q \in Seq(Message), NEW w, NEW p,
           w = [wire EXCEPT ![s][c] = q],
           RunCallbacks(s, c, e, w, p),
           \A t \in Sides, d \in Channels : d # c => dc'[t][d] = dc[t][d],
           e.lease = chan[s][c].lease,
           chan[s][c].onceOpened = "settled" => e.onceOpened = "settled"
    PROVE  Only(c)
<1>1. TaskDone(s, c, e, q)
  BY TaskEffect
<1>2. Elsewhere(c) /\ missed' = missed
  BY <1>1 DEF TaskDone, RunCallbacks
<1>3. /\ "local" \in Sides /\ chan["local"][c] \in PoolChannel
      /\ chan["local"][c].onceOpened # "fulfilled"
  BY DEF IInv, TypeOK, LocalInv, Sides
<1>4. TakenBy(chan["local"][c]) = TakenBy(chan["local"][c])
      /\ TakenBy(chan'["local"][c])
            \in {TakenBy(chan["local"][c]), TakenBy(chan["local"][c]) + 1}
  <2>1. CASE s = "local"
    BY <1>1, <1>3, <2>1, CallbacksTaken DEF TaskDone
  <2>2. CASE s = "remote"
    BY <1>1, <2>2 DEF TaskDone, Peer
  <2> QED
    BY <2>1, <2>2 DEF Sides
<1> QED
  BY <1>2, <1>4 DEF Only

\* What is sent on one channel changes the wires of no other.
LEMMA PostElsewhere ==
    ASSUME NEW w, DOMAIN w = Sides, \A t \in Sides : DOMAIN w[t] = Channels,
           NEW s \in Sides, NEW c \in Channels, NEW m
    PROVE  LET v == Post(w, s, c, m)
           IN  /\ DOMAIN v = Sides /\ \A t \in Sides : DOMAIN v[t] = Channels
               /\ \A t \in Sides, d \in Channels : d # c => v[t][d] = w[t][d]
<1>1. Peer(s) \in Sides
  BY DEF Peer, Sides
<1> QED
  BY <1>1 DEF Post

\* open() concerns one channel.
LEMMA OpenOnly ==
    ASSUME IInv, NEW c \in Channels, NEW p, Open(c, p),
           \A t \in Sides, d \in Channels : d # c => dc'[t][d] = dc[t][d]
    PROVE  Only(c)
<1>1. /\ chan \in [Sides -> [Channels -> PoolChannel]]
      /\ wire \in [Sides -> [Channels -> Seq(Message)]]
      /\ accepted \in [Channels -> Nat]
      /\ "local" \in Sides /\ chan["local"][c] \in PoolChannel
      /\ chan["local"][c].onceOpened # "fulfilled"
      /\ DOMAIN wire = Sides /\ \A t \in Sides : DOMAIN wire[t] = Channels
  BY DEF IInv, TypeOK, LocalInv, Sides
<1>2. CASE chan["local"][c].state = "OPEN"
  BY <1>2 DEF Open, Only, Elsewhere
<1>3. CASE chan["local"][c].state # "OPEN"
  <2>1. PICK e \in PoolChannel :
           /\ e = [chan["local"][c] EXCEPT !.onceOpened = Fulfill(@)]
           /\ e.onceOpened = Fulfill(chan["local"][c].onceOpened)
           /\ e.lease = chan["local"][c].lease
    <3>1. LET e == [chan["local"][c] EXCEPT !.onceOpened = Fulfill(@)]
          IN  /\ e \in PoolChannel
              /\ e.onceOpened = Fulfill(chan["local"][c].onceOpened)
              /\ e.lease = chan["local"][c].lease
      BY <1>1 DEF PoolChannel, Fulfill, Promise
    <3> QED
      BY <3>1
  <2>2. PICK w : w = Post(wire, "local", c, Msg("OPEN", chan["local"][c].lease))
    OBVIOUS
  <2>3. RunCallbacks("local", c, e, w, p)
    BY <1>3, <2>1, <2>2 DEF Open
  <2>4. /\ chan' = [chan EXCEPT !["local"][c] = Callbacks(e)]
        /\ accepted' = accepted /\ missed' = missed
        /\ wire' = w \/ wire' = Post(w, "local", c, Msg("CLOSE", e.lease))
    BY <2>3 DEF RunCallbacks
  <2>5. /\ DOMAIN w = Sides /\ \A t \in Sides : DOMAIN w[t] = Channels
        /\ \A t \in Sides, d \in Channels : d # c => w[t][d] = wire[t][d]
    <3>1. /\ DOMAIN wire = Sides /\ \A t \in Sides : DOMAIN wire[t] = Channels
          /\ "local" \in Sides
      BY <1>1
    <3> QED
      BY <3>1, <2>2, PostElsewhere
  <2>6. \A t \in Sides, d \in Channels : d # c => wire'[t][d] = wire[t][d]
    <3>1. CASE wire' = w
      BY <3>1, <2>5
    <3>2. CASE wire' = Post(w, "local", c, Msg("CLOSE", e.lease))
      <4>1. PICK v : v = Post(w, "local", c, Msg("CLOSE", e.lease))
        OBVIOUS
      <4>2. "local" \in Sides
        BY <1>1
      <4>3. \A t \in Sides, d \in Channels : d # c => v[t][d] = w[t][d]
        BY <2>5, <4>1, <4>2, PostElsewhere
      <4> QED
        BY <2>5, <3>2, <4>1, <4>3
    <3> QED
      BY <2>4, <3>1, <3>2
  <2>7. /\ chan'["local"][c] = Callbacks(e)
        /\ \A t \in Sides, d \in Channels : d # c => chan'[t][d] = chan[t][d]
    BY <1>1, <2>4
  <2>8. TakenBy(chan'["local"][c])
           \in {TakenBy(chan["local"][c]), TakenBy(chan["local"][c]) + 1}
    <3>1. PICK x \in PoolChannel : x = chan["local"][c]
      BY <1>1
    <3>2. /\ x.onceOpened # "fulfilled" /\ e.lease = x.lease
          /\ x.onceOpened = "settled" => e.onceOpened = "settled"
      BY <1>1, <2>1, <3>1 DEF Fulfill
    <3>3. TakenBy(Callbacks(e)) \in {TakenBy(x), TakenBy(x) + 1}
      BY <3>2, CallbacksTaken
    <3> QED
      BY <2>7, <3>1, <3>3
  <2> QED
    BY <2>4, <2>6, <2>7, <2>8 DEF Only, Elsewhere
<1> QED
  BY <1>2, <1>3

\* So does what a user does.
LEMMA UserOnly ==
    ASSUME IInv, NEW s \in Sides, NEW c \in Channels, Says(s, c) \/ Close(s, c)
    PROVE  Only(c)
<1>1. /\ chan \in [Sides -> [Channels -> PoolChannel]]
      /\ DOMAIN wire = Sides /\ \A t \in Sides : DOMAIN wire[t] = Channels
      /\ "local" \in Sides
  BY DEF IInv, TypeOK, Sides
<1>2. /\ dc' = dc /\ accepted' = accepted /\ missed' = missed
      /\ \E m : wire' = Post(wire, s, c, m)
  BY DEF Says, Close
<1>3. \A t \in Sides, d \in Channels : d # c => wire'[t][d] = wire[t][d]
  BY <1>1, <1>2, PostElsewhere
<1>4. /\ \A t \in Sides, d \in Channels : d # c => chan'[t][d] = chan[t][d]
      /\ chan'["local"][c].lease = chan["local"][c].lease
      /\ chan'["local"][c].onceOpened = chan["local"][c].onceOpened
  <2>1. CASE Says(s, c)
    BY <2>1 DEF Says
  <2>2. CASE Close(s, c)
    <3>1. chan' = [chan EXCEPT ![s][c] = [chan[s][c] EXCEPT !.state = "CLOSING"]]
      BY <2>2 DEF Close
    <3>2. LET e == [chan[s][c] EXCEPT !.state = "CLOSING"]
          IN  e.lease = chan[s][c].lease /\ e.onceOpened = chan[s][c].onceOpened
      BY <1>1 DEF PoolChannel
    <3> QED
      BY <1>1, <3>1, <3>2
  <2> QED
    BY <2>1, <2>2
<1>5. TakenBy(chan'["local"][c]) = TakenBy(chan["local"][c])
  BY <1>4 DEF TakenBy
<1> QED
  BY <1>2, <1>3, <1>4, <1>5 DEF Only, Elsewhere

\* So does what the queues, the data channels and the sends do.
LEMMA SystemOnly ==
    ASSUME IInv, NEW s \in Sides, NEW c \in Channels,
           SystemAction(s, c) \/ Closed(s, c)
    PROVE  Only(c)
<1>1. chan[s][c] \in PoolChannel /\ wire[s][c] \in Seq(Message)
  BY DEF IInv, TypeOK
<1>2. wire = [wire EXCEPT ![s][c] = wire[s][c]]
  BY DEF IInv, TypeOK
<1>3. CASE Handle(s, c)
  <2>1. /\ chan[s][c].dataFromPeerQueue # <<>> /\ dc' = dc
        /\ RunCallbacks(s, c, [chan[s][c] EXCEPT !.dataFromPeerQueue = Tail(@)],
                        wire, pool_)
    BY <1>3 DEF Handle
  <2>2. PICK x \in Seq(Nat) : x = Tail(chan[s][c].dataFromPeerQueue)
    <3>1. Tail(chan[s][c].dataFromPeerQueue) \in Seq(Nat)
      BY <1>1, <2>1 DEF PoolChannel
    <3> QED
      BY <3>1
  <2>3. LET e == [chan[s][c] EXCEPT !.dataFromPeerQueue = x]
        IN  /\ e \in PoolChannel /\ e.lease = chan[s][c].lease
            /\ e.onceOpened = chan[s][c].onceOpened
    BY <1>1, <2>2 DEF PoolChannel
  <2>4. PICK e \in PoolChannel :
           /\ e = [chan[s][c] EXCEPT !.dataFromPeerQueue = x]
           /\ e.lease = chan[s][c].lease /\ e.onceOpened = chan[s][c].onceOpened
    BY <2>3
  <2>5. RunCallbacks(s, c, e, wire, pool_)
    BY <2>1, <2>2, <2>4
  <2> QED
    BY <1>1, <1>2, <2>1, <2>4, <2>5, TaskOnly
<1>4. CASE Deliver(s, c)
  <2>1. PICK m \in Message, q \in Seq(Message) :
           m = Head(wire[s][c]) /\ q = Tail(wire[s][c])
    <3>1. Head(wire[s][c]) \in Message /\ Tail(wire[s][c]) \in Seq(Message)
      BY <1>1, <1>4 DEF Deliver
    <3> QED
      BY <3>1
  <2>2. PICK w : w = [wire EXCEPT ![s][c] = q]
    OBVIOUS
  <2>3. dc' = dc /\ RunCallbacks(s, c, OnDataFromPeer(chan[s][c], m), w, pool_)
    <3>1. [wire EXCEPT ![s][c] = Tail(@)] = w
      BY <2>1, <2>2 DEF IInv, TypeOK
    <3> QED
      BY <1>4, <2>1, <3>1 DEF Deliver
  <2>4. PICK e \in PoolChannel :
           /\ e = OnDataFromPeer(chan[s][c], m) /\ e.lease = chan[s][c].lease
           /\ chan[s][c].onceOpened = "settled" => e.onceOpened = "settled"
    <3>1. AckOwed(chan[s][c])
      BY DEF IInv, AckInv
    <3>2. chan[s][c].onceOpened = "settled"
             => OnDataFromPeer(chan[s][c], m).onceOpened = "settled"
      BY <1>1, <3>1, HearsEffect, OnDataFromPeerType DEF Fulfill
    <3> QED
      BY <1>1, <3>2, HearsEffect
  <2> QED
    BY <1>1, <2>2, <2>3, <2>4, TaskOnly
<1>5. CASE AckSettled(s, c)
  <2>1. PICK e \in PoolChannel :
           /\ e = [chan[s][c] EXCEPT !.ack = "none", !.onceClosed = Fulfill(@)]
           /\ e.lease = chan[s][c].lease /\ e.onceOpened = chan[s][c].onceOpened
    <3>1. LET e == [chan[s][c] EXCEPT !.ack = "none", !.onceClosed = Fulfill(@)]
          IN  /\ e \in PoolChannel /\ e.lease = chan[s][c].lease
              /\ e.onceOpened = chan[s][c].onceOpened
      BY <1>1 DEF PoolChannel, Fulfill, Promise
    <3> QED
      BY <3>1
  <2>2. dc' = dc /\ RunCallbacks(s, c, e, wire, pool_)
    BY <1>5, <2>1 DEF AckSettled
  <2> QED
    BY <1>1, <1>2, <2>1, <2>2, TaskOnly
<1>6. CASE Closed(s, c)
  <2>1. PICK e \in PoolChannel :
           /\ e = [chan[s][c] EXCEPT !.state = "PERMANENTLY_CLOSED",
                                     !.onceClosed = Fulfill(@)]
           /\ e.lease = chan[s][c].lease /\ e.onceOpened = chan[s][c].onceOpened
    <3>1. LET e == [chan[s][c] EXCEPT !.state = "PERMANENTLY_CLOSED",
                                      !.onceClosed = Fulfill(@)]
          IN  /\ e \in PoolChannel /\ e.lease = chan[s][c].lease
              /\ e.onceOpened = chan[s][c].onceOpened
      BY <1>1 DEF PoolChannel, State, Fulfill, Promise
    <3> QED
      BY <3>1
  <2>2. PICK q, w : q = <<>> /\ q \in Seq(Message) /\ w = [wire EXCEPT ![s][c] = q]
    <3>1. <<>> \in Seq(Message)
      OBVIOUS
    <3> QED
      BY <3>1
  <2>3. RunCallbacks(s, c, e, w, pool_)
    BY <1>6, <2>1, <2>2 DEF Closed
  <2>4. \A t \in Sides, d \in Channels : d # c => dc'[t][d] = dc[t][d]
    BY <1>6 DEF Closed, IInv, TypeOK
  <2> QED
    BY <1>1, <2>1, <2>2, <2>3, <2>4, TaskOnly
<1> QED
  BY <1>3, <1>4, <1>5, <1>6 DEF SystemAction

\* And the opening of a channel, with what arrives before.
LEMMA OpeningOnly ==
    ASSUME IInv, NEW c \in Channels,
           OpenedLocal(c) \/ OpenedRemote(c) \/ ArriveEarly(c)
    PROVE  Only(c)
<1>1. /\ "local" \in Sides /\ "remote" \in Sides
      /\ chan["local"][c] \in PoolChannel
      /\ chan["remote"][c] \in PoolChannel /\ wire["remote"][c] \in Seq(Message)
      /\ dc \in [Sides -> [Channels -> {"none", "opening", "open", "closed"}]]
      /\ wire = [wire EXCEPT !["remote"][c] = wire["remote"][c]]
  BY DEF IInv, TypeOK, Sides
<1>2. CASE OpenedLocal(c)
  BY <1>1, <1>2, OpenOnly DEF OpenedLocal
<1>3. CASE OpenedRemote(c)
  <2>1. RunCallbacks("remote", c, chan["remote"][c], wire, pool_)
    BY <1>3 DEF OpenedRemote
  <2>2. \A t \in Sides, d \in Channels : d # c => dc'[t][d] = dc[t][d]
    BY <1>1, <1>3 DEF OpenedRemote
  <2> QED
    BY <1>1, <2>1, <2>2, TaskOnly
<1>4. CASE ArriveEarly(c)
  <2>1. PICK m \in Message, q \in Seq(Message) :
           m = Head(wire["remote"][c]) /\ q = Tail(wire["remote"][c])
    <3>1. /\ Head(wire["remote"][c]) \in Message
          /\ Tail(wire["remote"][c]) \in Seq(Message)
      BY <1>1, <1>4 DEF ArriveEarly
    <3> QED
      BY <3>1
  <2>2. PICK e : e = OnDataFromPeer(chan["remote"][c], m)
    OBVIOUS
  <2>3. /\ chan' = [chan EXCEPT !["remote"][c] = e] /\ dc' = dc
        /\ wire' = [wire EXCEPT !["remote"][c] = q] /\ accepted' = accepted
        /\ missed' = IF m.type = "CLOSE" THEN missed \cup {c} ELSE missed
    BY <1>4, <2>1, <2>2 DEF ArriveEarly, IInv, TypeOK, Sides
  <2>4. Elsewhere(c) /\ chan'["local"][c] = chan["local"][c] /\ chan'["remote"][c] = e
    BY <1>1, <2>3 DEF Elsewhere, IInv, TypeOK
  <2>5. chan["remote"][c].state = "CLOSED" /\ accepted[c] = 0
    BY <1>1, <1>4 DEF ArriveEarly, IInv, WrappedInv, FreshInv
  <2>6. m.type = "CLOSE" => e = chan["remote"][c]
    BY <2>2, <2>5 DEF OnDataFromPeer, OnControlMessage
  <2> QED
    BY <2>3, <2>4, <2>5, <2>6 DEF Only, Sides
<1> QED
  BY <1>2, <1>3, <1>4

\* A pooled channel is leased.
LEMMA OpenPooledSteps ==
    ASSUME IInv, LinkInv, OpenPooled
    PROVE  \E c \in Channels : Only(c) /\ (c \notin missed => Steps(c))
<1>1. pool_ # <<>> /\ Open(Head(pool_), Tail(pool_)) /\ dc' = dc
  BY DEF OpenPooled
<1>2. Head(pool_) \in Channels /\ Head(pool_) = pool_[1] /\ 1 \in 1 .. Len(pool_)
  BY <1>1 DEF IInv, TypeOK
<1>3. chan["local"][Head(pool_)].state \notin {"OPEN", "CLOSING"}
  BY <1>2 DEF IInv, PoolSound
<1>4. PICK c \in Channels : Open(c, Tail(pool_)) /\ c = Head(pool_)
  BY <1>1, <1>2
<1>5. c \notin missed => Steps(c)
  BY <1>1, <1>3, <1>4, OpenSteps
<1>6. Only(c)
  BY <1>1, <1>4, OpenOnly
<1> QED
  BY <1>5, <1>6

\* A new data channel is made.
LEMMA OpenNewSteps ==
    ASSUME IInv, LinkInv, OpenNew
    PROVE  \E c \in Channels : Only(c) /\ (c \notin missed => Steps(c))
<1>1. PICK c \in Channels : c = numChannels_
  BY PoolAssumption DEF OpenNew, IInv, TypeOK, Channels
<1>2. /\ \A s \in Sides : dc[s][c] = "none"
      /\ dc' = [s \in Sides |-> [dc[s] EXCEPT ![c] = "opening"]]
      /\ chan' = chan /\ wire' = wire /\ accepted' = accepted /\ missed' = missed
  BY <1>1 DEF OpenNew, IInv, WrappedInv, TypeOK, Channels
<1>3. /\ \A s \in Sides : dc'[s][c] = "opening"
      /\ \A t \in Sides, d \in Channels : d # c => dc'[t][d] = dc[t][d]
  BY <1>2 DEF IInv, TypeOK
<1>4. Elsewhere(c) /\ Only(c)
  BY <1>2, <1>3 DEF Elsewhere, Only
<1>5. ASSUME c \notin missed PROVE Steps(c)
  <2>1. /\ "local" \in Sides /\ "remote" \in Sides /\ LinkOf(c) /\ Around(c)
    BY <1>5, Knows
  <2>2. /\ Drained(chan["local"][c]) /\ Drained(chan["remote"][c])
        /\ dc'["local"][c] = "closed" <=> ~ Alive(chan["local"][c])
        /\ dc'["remote"][c] = "closed" <=> ~ Alive(chan["remote"][c])
        /\ dc'["remote"][c] = "opening"
    BY <1>2, <1>3, <2>1 DEF Around
  <2>3. /\ Linked(chan["local"][c], chan["remote"][c], wire["local"][c],
                wire["remote"][c], accepted[c])
        /\ LeaseStep(chan["local"][c], chan["remote"][c], accepted[c],
                     chan["local"][c], chan["remote"][c], accepted[c])
    BY <2>1 DEF LinkOf, LeaseStep
  <2> QED
    BY <1>2, <1>4, <2>2, <2>3, StepsBy
<1> QED
  BY <1>4, <1>5

\* A message reaches a wrapper.
LEMMA DeliverSteps ==
    ASSUME IInv, LinkInv, PromptSends, NEW s \in Sides, NEW c \in Channels, c \notin missed,
           Deliver(s, c)
    PROVE  Steps(c)
BY LocalDeliverSteps, RemoteDeliverSteps DEF Sides

\* Every step is a step of one channel, which keeps its link if it misses no
\* CLOSE.
LEMMA NextSteps ==
    ASSUME IInv, LinkInv, PromptSends, Next
    PROVE  \E c \in Channels : Only(c) /\ (c \notin missed \cup missed' => Steps(c))
<1>1. CASE OpenPooled
  BY <1>1, OpenPooledSteps
<1>2. CASE OpenNew
  BY <1>2, OpenNewSteps
<1>3. ASSUME NEW c \in Channels, OpenedLocal(c) \/ ArriveEarly(c) \/ OpenedRemote(c)
      PROVE  Only(c) /\ (c \notin missed \cup missed' => Steps(c))
  BY <1>3, OpeningOnly, OpenedLocalSteps, EarlySteps, OpenedRemoteSteps
<1>4. ASSUME NEW s \in Sides, NEW c \in Channels,
             UserAction(s, c) \/ SystemAction(s, c) \/ Closed(s, c)
      PROVE  Only(c) /\ (c \notin missed \cup missed' => Steps(c))
  <2>1. CASE Send(s, c)
    BY <2>1, SaysSteps, UserOnly DEF Send, Says
  <2>2. CASE Close(s, c)
    BY <2>2, CloseSteps, UserOnly
  <2>3. CASE Handle(s, c)
    BY <2>3, HandleSteps, SystemOnly DEF SystemAction
  <2>4. CASE Deliver(s, c)
    BY <2>4, DeliverSteps, SystemOnly DEF SystemAction
  <2>5. CASE AckSettled(s, c)
    BY <2>5, LocalAckedSteps, RemoteAckedSteps, SystemOnly DEF Sides, SystemAction
  <2>6. CASE Closed(s, c)
    BY <2>6, LocalClosedSteps, RemoteClosedSteps, SystemOnly DEF Sides
  <2> QED
    BY <1>4, <2>1, <2>2, <2>3, <2>4, <2>5, <2>6 DEF UserAction, SystemAction
<1> QED
  BY <1>1, <1>2, <1>3, <1>4 DEF Next

\* What holds of a channel holds still after a step of another.
LEMMA ElsewhereKeeps ==
    ASSUME NEW c \in Channels, Elsewhere(c), NEW d \in Channels, d # c,
           LinkOf(d), Around(d)
    PROVE  LinkOf(d)' /\ Around(d)'
<1>1. /\ accepted'[d] = accepted[d]
      /\ \A s \in Sides : /\ chan'[s][d] = chan[s][d]
                          /\ wire'[s][d] = wire[s][d]
                          /\ dc'[s][d] = dc[s][d]
  BY DEF Elsewhere
<1>2. "local" \in Sides /\ "remote" \in Sides
  BY DEF Sides
<1>3. LinkOf(d)'
  BY <1>1, <1>2 DEF LinkOf
<1>4. Around(d)'
  BY <1>1, <1>2 DEF Around
<1> QED
  BY <1>3, <1>4

\* A step of one channel keeps the links of all.
LEMMA StepsKeep ==
    ASSUME LinkInv, NEW c \in Channels, Only(c), c \notin missed \cup missed' => Steps(c)
    PROVE  LinkInv'
<1>1. ASSUME NEW d \in Channels, d \notin missed' PROVE (LinkOf(d) /\ Around(d))'
  <2>0. d \notin missed
    BY <1>1 DEF Only
  <2>1. CASE d = c
    BY <1>1, <2>0, <2>1 DEF Steps
  <2>2. CASE d # c
    BY <2>0, <2>2, ElsewhereKeeps DEF Only, LinkInv
  <2> QED
    BY <2>1, <2>2
<1> QED
  BY <1>1 DEF LinkInv

\* The link invariant survives every step.
LEMMA LinkKept ==
    ASSUME IInv, LinkInv, PromptSends, [Next]_vars
    PROVE  LinkInv'
<1>1. CASE Next
  BY <1>1, NextSteps, StepsKeep
<1>2. CASE UNCHANGED vars
  BY <1>2 DEF vars, LinkInv, LinkOf, Around
<1> QED
  BY <1>1, <1>2

\* Nothing is leased, and nothing on its way, at first.
LEMMA InitLink == Init => LinkInv
<1> SUFFICES ASSUME Init, NEW c \in Channels PROVE LinkOf(c) /\ Around(c)
  BY DEF LinkInv
<1>1. /\ chan["local"][c] = Reset(1) /\ chan["remote"][c] = Reset(1)
      /\ wire["local"][c] = <<>> /\ wire["remote"][c] = <<>>
      /\ accepted[c] = 0
      /\ \A s \in Sides : chan[s][c] = Reset(1) /\ dc[s][c] = "none"
  BY DEF Init, Sides
<1>2. PICK e, w : e = Reset(1) /\ w = <<>>
  OBVIOUS
<1>3. /\ e.state = "CLOSED" /\ e.onceOpened = "pending" /\ e.ack = "none"
      /\ e.onceClosed = "pending" /\ e.lease = 1
      /\ e.dataFromPeerQueue = <<>> /\ Len(e.dataFromPeerQueue) = 0
  BY <1>2 DEF Reset
<1>4. Ordered(w) /\ (\A k : ~ Carries(w, k)) /\ (\A t, k : ~ Holds(w, t, k))
  BY <1>2, EmptyWire
<1>5. EndOK(e) /\ Alive(e)
  BY <1>3 DEF EndOK, Alive, AckOwed
<1>6. ToLocal(e, w) /\ ToRemote(e, w)
  BY <1>3, <1>4 DEF ToLocal, ToRemote
<1>7. Counts(e, e, w, w, 0) /\ Joint(e, e, w, w)
  BY <1>3, <1>4 DEF Counts, Joint, SameLease, TakenBy, SentClose, Alive
<1>8. Linked(e, e, w, w, 0)
  BY <1>3, <1>5, <1>6, <1>7 DEF Linked
<1>9. LinkOf(c)
  BY <1>1, <1>2, <1>8 DEF LinkOf
<1>10. Around(c)
  BY <1>1, <1>2, <1>3, <1>5 DEF Around, Drained, Sides
<1> QED
  BY <1>9, <1>10

\* A wire that carries nothing is empty.
LEMMA NothingCarried ==
    ASSUME NEW w \in Seq(Message), \A k \in Nat : ~ Carries(w, k)
    PROVE  w = <<>>
<1>1. ASSUME w # <<>> PROVE FALSE
  <2>1. 1 \in 1 .. Len(w) /\ w[1] \in Message
    BY <1>1
  <2>2. w[1].lease \in Nat
    BY <2>1 DEF Message
  <2> QED
    BY <2>1, <2>2 DEF Carries
<1> QED
  BY <1>1

\* The two ends of every channel stay linked until a CLOSE is missed on it, when
\* the send of a CLOSE settles before its answer comes.
THEOREM LinkInvariance ==
    ASSUME PromptSends
    PROVE  Spec => [](IInv /\ LinkInv)
<1>1. Init => LinkInv
  BY InitLink
<1>2. IInv /\ LinkInv /\ [Next]_vars => LinkInv'
  BY LinkKept
<1>3. Spec => []IInv
  BY Invariance
<1> QED
  BY <1>1, <1>2, <1>3, PTL DEF Spec

\* What a user of an intact channel finds in its queue is of its own lease.
THEOREM LeasesIsolated ==
    ASSUME PromptSends
    PROVE  Spec => []LeaseIsolation
<1>1. ASSUME LinkInv PROVE LeaseIsolation
  BY <1>1 DEF LinkInv, LinkOf, Linked, EndOK, LeaseIsolation, Intact, Sides
<1> QED
  BY <1>1, LinkInvariance, PTL

\* A pooled channel that is intact and whose data channel works was accepted by
\* the peer, which left it and sends nothing more.
THEOREM PeerDoneWhenPooled ==
    ASSUME PromptSends
    PROVE  Spec => []PooledMeansPeerDone
<1>1. ASSUME IInv, LinkInv PROVE PooledMeansPeerDone
  <2> SUFFICES ASSUME NEW i \in 1 .. Len(pool_), ~ Broken(pool_[i]),
                      pool_[i] \notin missed
               PROVE  /\ wire["local"][pool_[i]] = <<>>
                      /\ chan["remote"][pool_[i]].state # "OPEN"
                      /\ accepted[pool_[i]] = chan["local"][pool_[i]].lease - 1
    BY DEF PooledMeansPeerDone, Intact
  <2>1. PICK c \in Channels : c = pool_[i]
    BY <1>1 DEF IInv, TypeOK
  <2>2. /\ chan["local"][c] \in PoolChannel /\ wire["local"][c] \in Seq(Message)
        /\ LinkOf(c) /\ Alive(chan["local"][c])
    BY <1>1, <2>1, Knows
  <2>3. chan["local"][c].state = "CLOSED"
    BY <1>1, <2>1, <2>2 DEF IInv, PoolSound, PoolChannel, State, Alive
  <2>4. \A k \in Nat : ~ Carries(wire["local"][c], k)
    BY <2>2, <2>3 DEF LinkOf, Linked, ToLocal
  <2>5. /\ accepted[c] = chan["local"][c].lease - 1
        /\ chan["remote"][c].state # "OPEN"
    BY <2>2, <2>3 DEF LinkOf, Linked, Counts
  <2> QED
    BY <2>1, <2>2, <2>4, <2>5, NothingCarried
<1> QED
  BY <1>1, LinkInvariance, PTL

\* A CLOSE is lost only by coming before the wrapper: on an intact channel, while
\* one end waits for the other to close, a message or an ack is on its way.
THEOREM NoCloseOrphaned ==
    ASSUME PromptSends
    PROVE  Spec => []NoOrphanedClose
<1>1. ASSUME IInv, LinkInv PROVE NoOrphanedClose
  <2> SUFFICES ASSUME NEW s \in Sides, NEW c \in Channels, c \notin missed,
                      chan[s][c].state = "CLOSING", ~ Broken(c),
                      chan["local"][c].ack = "none", chan["remote"][c].ack = "none",
                      wire["local"][c] = <<>>, wire["remote"][c] = <<>>
               PROVE  FALSE
    BY DEF NoOrphanedClose, Intact, Sides, Peer
  <2>1. /\ LinkOf(c) /\ Alive(chan["local"][c]) /\ Alive(chan["remote"][c])
    BY <1>1, Knows
  <2>2. \A t, k : ~ Holds(wire["local"][c], t, k) /\ ~ Holds(wire["remote"][c], t, k)
    BY EmptyWire
  <2>3. Joint(chan["local"][c], chan["remote"][c], wire["local"][c],
              wire["remote"][c])
    BY <2>1 DEF LinkOf, Linked
  <2> QED
    BY <2>2, <2>3 DEF Joint, SameLease, LocalAhead, RemoteAhead, SentClose, Sides
<1> QED
  BY <1>1, LinkInvariance, PTL

-----------------------------------------------------------------------------
(* The refinement. *)

\* The first state of the pool is the first state of its leases.
LEMMA InitLease == Init => Lease!Init
BY DEF Init, Lease!Init, Reset, PartOf, TakenBy, Sides

\* A step of a lease, in the abstract.
Moves(o, p, t, n, o2, p2, t2, n2) ==
    \/ o2 = o /\ p2 = p /\ t2 = t /\ n2 = n
    \/ /\ o \in {"idle", "dead"}
       /\ o = "idle" => p # "active" /\ n = t
       /\ o2 = (IF o = "idle" THEN "active" ELSE o)
       /\ t2 = t + 1 /\ p2 = p /\ n2 = n
    \/ /\ p = "idle" /\ n < t /\ p2 = "active" /\ n2 = n + 1
       /\ o2 = o /\ t2 = t
    \/ o = "active" /\ o2 = "leaving" /\ p2 = p /\ t2 = t /\ n2 = n
    \/ p = "active" /\ p2 = "leaving" /\ o2 = o /\ t2 = t /\ n2 = n
    \/ /\ o = "leaving" /\ n = t /\ p # "active" /\ o2 = "idle"
       /\ p2 = p /\ t2 = t /\ n2 = n
    \/ /\ p = "leaving"
       /\ o = "active" => n < t
       /\ p2 = "idle" /\ o2 = o /\ t2 = t /\ n2 = n
    \/ o # "dead" /\ o2 = "dead" /\ p2 = p /\ t2 = t /\ n2 = n
    \/ p # "dead" /\ p2 = "dead" /\ o2 = o /\ t2 = t /\ n2 = n

\* A lease step is such a move.
LEMMA LeaseStepMoves ==
    ASSUME NEW L \in PoolChannel, NEW R \in PoolChannel, NEW n \in Nat,
           NEW L2 \in PoolChannel, NEW R2 \in PoolChannel, NEW n2 \in Nat,
           LeaseStep(L, R, n, L2, R2, n2)
    PROVE  Moves(PartOf(L.state), PartOf(R.state), TakenBy(L), n,
                 PartOf(L2.state), PartOf(R2.state), TakenBy(L2), n2)
<1>1. L.state \in State /\ R.state \in State /\ L2.state \in State /\ R2.state \in State
  BY DEF PoolChannel
<1> QED
  BY <1>1 DEF LeaseStep, Moves, PartOf, State, Alive

\* The leases, as functions of the channels.
LeaseView(o, p, t, n) ==
    /\ o = [c \in Channels |-> IF c \in missed THEN "dead"
                               ELSE PartOf(chan["local"][c].state)]
    /\ p = [c \in Channels |-> IF c \in missed THEN "idle"
                               ELSE PartOf(chan["remote"][c].state)]
    /\ t = [c \in Channels |-> TakenBy(chan["local"][c])]
    /\ n = [c \in Channels |-> IF c \in missed THEN 0 ELSE accepted[c]]

\* A move of one channel is a step of all leases.
LEMMA MovesLease ==
    ASSUME NEW c \in Channels,
           NEW o, NEW p, NEW t, NEW n, NEW o2, NEW p2, NEW t2, NEW n2,
           LeaseView(o, p, t, n), LeaseView(o2, p2, t2, n2)',
           Moves(o[c], p[c], t[c], n[c], o2[c], p2[c], t2[c], n2[c]),
           \A d \in Channels : d # c =>
              o2[d] = o[d] /\ p2[d] = p[d] /\ t2[d] = t[d] /\ n2[d] = n[d]
    PROVE  [Lease!Next]_Lease!vars
<1>1. /\ o = [d \in Channels |-> o[d]] /\ p = [d \in Channels |-> p[d]]
      /\ t = [d \in Channels |-> t[d]] /\ n = [d \in Channels |-> n[d]]
      /\ o2 = [d \in Channels |-> o2[d]] /\ p2 = [d \in Channels |-> p2[d]]
      /\ t2 = [d \in Channels |-> t2[d]] /\ n2 = [d \in Channels |-> n2[d]]
  BY DEF LeaseView
<1>o. \A d \in Channels : d # c =>
         o2[d] = o[d] /\ p2[d] = p[d] /\ t2[d] = t[d] /\ n2[d] = n[d]
  OBVIOUS
<1>2. /\ o2 = [o EXCEPT ![c] = o2[c]] /\ p2 = [p EXCEPT ![c] = p2[c]]
      /\ t2 = [t EXCEPT ![c] = t2[c]] /\ n2 = [n EXCEPT ![c] = n2[c]]
  BY <1>1
<1>3. CASE o2[c] = o[c] /\ p2[c] = p[c] /\ t2[c] = t[c] /\ n2[c] = n[c]
  <2>1. o2 = o /\ p2 = p /\ t2 = t /\ n2 = n
    BY <1>1, <1>3, <1>o
  <2> QED
    BY <2>1 DEF Lease!vars, LeaseView
<1>4. CASE /\ o[c] \in {"idle", "dead"}
           /\ o[c] = "idle" => p[c] # "active" /\ n[c] = t[c]
           /\ o2[c] = (IF o[c] = "idle" THEN "active" ELSE o[c])
           /\ t2[c] = t[c] + 1 /\ p2[c] = p[c] /\ n2[c] = n[c]
  <2>1. o2 = [o EXCEPT ![c] = IF @ = "idle" THEN "active" ELSE @]
    <3>1. o2 = [o EXCEPT ![c] = IF o[c] = "idle" THEN "active" ELSE o[c]]
      BY <1>2, <1>4
    <3> QED
      BY <3>1
  <2>a. t2 = [t EXCEPT ![c] = @ + 1] /\ p2 = p /\ n2 = n
    BY <1>1, <1>2, <1>4
  <2>2. Lease!Acquire(c)
    BY <1>4, <2>1, <2>a DEF Lease!Acquire, LeaseView
  <2> QED
    BY <2>2 DEF Lease!Next
<1>5. CASE /\ p[c] = "idle" /\ n[c] < t[c] /\ p2[c] = "active" /\ n2[c] = n[c] + 1
           /\ o2[c] = o[c] /\ t2[c] = t[c]
  <2>1. /\ p2 = [p EXCEPT ![c] = "active"] /\ n2 = [n EXCEPT ![c] = @ + 1]
        /\ o2 = o /\ t2 = t
    BY <1>1, <1>2, <1>5
  <2>2. Lease!Join(c)
    BY <1>5, <2>1 DEF Lease!Join, LeaseView
  <2> QED
    BY <2>2 DEF Lease!Next
<1>6. CASE /\ o[c] = "active" /\ o2[c] = "leaving"
           /\ p2[c] = p[c] /\ t2[c] = t[c] /\ n2[c] = n[c]
  <2>1. /\ o2 = [o EXCEPT ![c] = "leaving"] /\ p2 = p
        /\ t2 = t /\ n2 = n
    BY <1>1, <1>2, <1>6
  <2>2. Lease!OpenerLeaves(c)
    BY <1>6, <2>1 DEF Lease!OpenerLeaves, LeaseView
  <2> QED
    BY <2>2 DEF Lease!Next
<1>7. CASE /\ p[c] = "active" /\ p2[c] = "leaving"
           /\ o2[c] = o[c] /\ t2[c] = t[c] /\ n2[c] = n[c]
  <2>1. /\ p2 = [p EXCEPT ![c] = "leaving"] /\ o2 = o
        /\ t2 = t /\ n2 = n
    BY <1>1, <1>2, <1>7
  <2>2. Lease!PeerLeaves(c)
    BY <1>7, <2>1 DEF Lease!PeerLeaves, LeaseView
  <2> QED
    BY <2>2 DEF Lease!Next
<1>8. CASE /\ o[c] = "leaving" /\ n[c] = t[c] /\ p[c] # "active" /\ o2[c] = "idle"
           /\ p2[c] = p[c] /\ t2[c] = t[c] /\ n2[c] = n[c]
  <2>1. /\ o2 = [o EXCEPT ![c] = "idle"] /\ p2 = p
        /\ t2 = t /\ n2 = n
    BY <1>1, <1>2, <1>8
  <2>2. Lease!OpenerDone(c)
    BY <1>8, <2>1 DEF Lease!OpenerDone, LeaseView
  <2> QED
    BY <2>2 DEF Lease!Next
<1>9. CASE /\ p[c] = "leaving"
           /\ o[c] = "active" => n[c] < t[c]
           /\ p2[c] = "idle" /\ o2[c] = o[c] /\ t2[c] = t[c] /\ n2[c] = n[c]
  <2>1. /\ p2 = [p EXCEPT ![c] = "idle"] /\ o2 = o
        /\ t2 = t /\ n2 = n
    BY <1>1, <1>2, <1>9
  <2>2. Lease!PeerDone(c)
    BY <1>9, <2>1 DEF Lease!PeerDone, LeaseView
  <2> QED
    BY <2>2 DEF Lease!Next
<1>10. CASE /\ o[c] # "dead" /\ o2[c] = "dead"
            /\ p2[c] = p[c] /\ t2[c] = t[c] /\ n2[c] = n[c]
  <2>1. /\ o2 = [o EXCEPT ![c] = "dead"] /\ p2 = p
        /\ t2 = t /\ n2 = n
    BY <1>1, <1>2, <1>10
  <2>2. Lease!OpenerDies(c)
    BY <1>10, <2>1 DEF Lease!OpenerDies, LeaseView
  <2> QED
    BY <2>2 DEF Lease!Next
<1>11. CASE /\ p[c] # "dead" /\ p2[c] = "dead"
            /\ o2[c] = o[c] /\ t2[c] = t[c] /\ n2[c] = n[c]
  <2>1. /\ p2 = [p EXCEPT ![c] = "dead"] /\ o2 = o
        /\ t2 = t /\ n2 = n
    BY <1>1, <1>2, <1>11
  <2>2. Lease!PeerDies(c)
    BY <1>11, <2>1 DEF Lease!PeerDies, LeaseView
  <2> QED
    BY <2>2 DEF Lease!Next
<1> QED
  BY <1>3, <1>4, <1>5, <1>6, <1>7, <1>8, <1>9, <1>10, <1>11 DEF Moves

\* A step of one channel is a step of its leases, or none.
LEMMA StepsLease ==
    ASSUME IInv, IInv', NEW c \in Channels, Only(c),
           c \notin missed \cup missed' => Steps(c)
    PROVE  [Lease!Next]_Lease!vars
<1>1. "local" \in Sides /\ "remote" \in Sides
  BY DEF Sides
<1>2. /\ \A s \in Sides, d \in Channels :
            chan[s][d] \in PoolChannel /\ chan'[s][d] \in PoolChannel
      /\ accepted \in [Channels -> Nat] /\ accepted' \in [Channels -> Nat]
  BY DEF IInv, TypeOK
<1>3. PICK o, p, t, n, o2, p2, t2, n2 :
         LeaseView(o, p, t, n) /\ LeaseView(o2, p2, t2, n2)'
  BY DEF LeaseView
<1>4. \A d \in Channels : d # c =>
         o2[d] = o[d] /\ p2[d] = p[d] /\ t2[d] = t[d] /\ n2[d] = n[d]
  <2>1. \A d \in Channels : d # c =>
           /\ chan'["local"][d] = chan["local"][d]
           /\ chan'["remote"][d] = chan["remote"][d]
           /\ accepted'[d] = accepted[d]
           /\ d \in missed' <=> d \in missed
    BY <1>1 DEF Only, Elsewhere
  <2> QED
    BY <1>3, <2>1 DEF LeaseView
<1>5. Moves(o[c], p[c], t[c], n[c], o2[c], p2[c], t2[c], n2[c])
  <2>1. t[c] = TakenBy(chan["local"][c]) /\ t2[c] = TakenBy(chan'["local"][c])
    BY <1>3 DEF LeaseView
  <2>2. CASE c \in missed
    <3>1. /\ o[c] = "dead" /\ p[c] = "idle" /\ n[c] = 0
          /\ o2[c] = "dead" /\ p2[c] = "idle" /\ n2[c] = 0
      BY <1>3, <2>2 DEF Only, LeaseView
    <3>2. t2[c] \in {t[c], t[c] + 1}
      BY <2>1 DEF Only
    <3> QED
      BY <3>1, <3>2 DEF Moves
  <2>3. CASE c \in missed' \ missed
    <3>1. /\ chan'["local"][c] = chan["local"][c] /\ chan["remote"][c].state = "CLOSED"
          /\ accepted[c] = 0
      BY <1>1, <2>3 DEF Only
    <3>2. /\ p[c] = "idle" /\ p2[c] = "idle" /\ n[c] = 0 /\ n2[c] = 0
          /\ o2[c] = "dead" /\ t2[c] = t[c]
      BY <1>3, <2>1, <2>3, <3>1 DEF PartOf, LeaseView
    <3> QED
      BY <3>2 DEF Moves
  <2>4. CASE c \notin missed \cup missed'
    <3>1. Moves(PartOf(chan["local"][c].state), PartOf(chan["remote"][c].state),
                TakenBy(chan["local"][c]), accepted[c],
                PartOf(chan'["local"][c].state), PartOf(chan'["remote"][c].state),
                TakenBy(chan'["local"][c]), accepted'[c])
      BY <1>1, <1>2, <2>4, LeaseStepMoves DEF Steps, StepOf
    <3>2. /\ o[c] = PartOf(chan["local"][c].state) /\ n[c] = accepted[c]
          /\ p[c] = PartOf(chan["remote"][c].state)
          /\ o2[c] = PartOf(chan'["local"][c].state) /\ n2[c] = accepted'[c]
          /\ p2[c] = PartOf(chan'["remote"][c].state)
      BY <1>3, <2>4 DEF LeaseView
    <3> QED
      BY <2>1, <3>1, <3>2
  <2> QED
    BY <2>2, <2>3, <2>4
<1> QED
  BY <1>3, <1>4, <1>5, MovesLease

\* The pool implements its leases: in every behaviour each intact channel is held
\* by one lease at a time, which the peer joins once, and a new one begins only
\* when the peer has left the last.
THEOREM PoolImplementsLease ==
    ASSUME PromptSends
    PROVE  Spec => ImplementsLease
<1>1. IInv /\ IInv' /\ LinkInv /\ [Next]_vars => [Lease!Next]_Lease!vars
  <2> SUFFICES ASSUME IInv, IInv', LinkInv, [Next]_vars
               PROVE  [Lease!Next]_Lease!vars
    OBVIOUS
  <2>1. CASE Next
    BY <2>1, NextSteps, StepsLease
  <2>2. CASE UNCHANGED vars
    BY <2>2 DEF vars, Lease!vars
  <2> QED
    BY <2>1, <2>2
<1>2. Spec => [](IInv /\ LinkInv)
  BY LinkInvariance
<1> QED
  BY <1>1, <1>2, InitLease, PTL DEF Spec, ImplementsLease, Lease!Spec
=============================================================================
