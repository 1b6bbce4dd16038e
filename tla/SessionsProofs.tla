--------------------------- MODULE SessionsProofs ---------------------------
(***************************************************************************)
(* Proofs about Sessions, for every number of channels and of leases and   *)
(* for all the data that sockets deliver, under PromptSends as PoolProofs: *)
(* on each channel, until a CLOSE is missed or a socket is late there, no  *)
(* session uses it in the lease of another, a client is told what the      *)
(* session at the other end of its lease decided, no data is lost at the   *)
(* end of a connection, and a socket is paused exactly while the channel   *)
(* is in overflow.                                                         *)
(***************************************************************************)
EXTENDS Sessions, PoolProofs, FiniteSetTheorems

-----------------------------------------------------------------------------
(* The invariant.  In what follows e is an end of a channel and p the other, *)
(* x and y their sessions of lease k; L, R, a and b are the local and remote *)
(* ends and their sessions; fl and fr are what is first for each.            *)

\* Data of lease k on wire w, by its places there.
DataOf(w, k) == {i \in 1 .. Len(w) : w[i].type = "DATA" /\ w[i].lease = k}

\* How much of it there is, and how much lease k has not read at end e.
Data(w, k) == Cardinality(DataOf(w, k))

Unread(e, k) == IF e.lease = k THEN Len(e.dataFromPeerQueue) ELSE 0

\* What is on its way to lease k at end e, on wire w, or waits there.
Behind(e, w, k) == Data(w, k) + Unread(e, k)

\* The end is in lease k, which is open or was cut short.
Held(e, k) ==
    /\ e.lease = k /\ e.onceOpened = "settled"
    /\ e.state \in {"OPEN", "PERMANENTLY_CLOSED"}

\* The end has just left lease k.
JustLeft(e, k) == e.lease = k + 1 /\ e.state = "CLOSED" /\ e.onceOpened = "pending"

\* Steps of a session of end s that need its lease, in which it reads, and in
\* which it listens to its channel.
Busy(s) ==
    IF s = "local" THEN {"auth", "request", "sending", "awaiting"}
    ELSE {"connecting", "replying"}

Reads(s) == {"linked", IF s = "local" THEN "awaiting" ELSE "endpoint"}

Listens(s, x) ==
    IF s = "local" THEN x.step = "linked" ELSE x.step # "none"

\* A session begins in its lease, once the channel opened.
Begun(e, x, k) ==
    /\ x.step = "none" => x = NoSession
    /\ x.step # "none" => k < e.lease \/ (e.lease = k /\ e.onceOpened = "settled")
    /\ x.step = "none" /\ e.lease = k /\ e.onceOpened = "settled" => Held(e, k)

\* As long as a session has something to say, the lease is its own: only one
\* that waited for its client to be answered may find that the peer closed the
\* channel, and then has nothing to say on it.
Holding(s, e, x, k) ==
    /\ x.step \in Busy(s) => Held(e, k)
    /\ x.step = "failed" /\ x.stop = "no" =>
          Held(e, k) \/ (s = "local" /\ e.state # "OPEN")
    /\ x.step = "linked" /\ x.queued > 0 =>
          e.lease = k /\ x.stop \in {"no", "channelClosed"}
    /\ x.step = "linked" /\ x.paused = "handshake" => e.lease = k
    /\ x.stop = "no" /\ x.listens # 0 /\ x.socket = "gone" => e.lease = k

\* A session that listens learns that its lease is over before another has it.
Hearing(s, e, x, k) ==
    /\ x.listens = IF Listens(s, x) THEN k ELSE 0
    /\ x.listens # 0 /\ x.stop = "no" => e.lease = k \/ JustLeft(e, k)
    /\ x.step # "none" /\ x.stop = "no" /\ e.lease = k /\ e.state = "CLOSING"
          => e.ack # "none"
    /\ x.stop = "channelClosed" => k < e.lease \/ ~ Alive(e)
    /\ x.stop # "no" => k < e.lease \/ e.state # "OPEN"
    /\ x.stop # "no" => \/ x.step \in {"linked", "failed"}
                        \/ s = "remote" /\ x.stop = "channelClosed"

\* Who reads has read all before the end answers a CLOSE, unless the CLOSE came
\* before its client was answered.
Reader(s, e, x, k) ==
    /\ x.reads = IF x.step \in Reads(s) THEN k ELSE 0
    /\ x.reads = k /\ e.lease = k /\ Alive(e) =>
          e.ack # "draining" \/ (s = "local" /\ x.step = "linked")

\* The overflow listener is that of the linked session, and paused its socket.
Levelled(e, x, k, o) ==
    /\ x.step = "linked" /\ x.stop = "no" /\ x.paused # "handshake" /\ e.lease = k
          => /\ o.listener = k
             /\ x.socket = "open" => (x.paused = "overflow" <=> o.high)
    /\ o.listener = k => x.step = "linked" /\ x.paused # "handshake"

\* What a session is at each step.
Shaped(s, x) ==
    /\ x.step \in {"none", "linked", "failed"}
                     \cup (IF s = "local" THEN SocksStep ELSE RtcStep)
    /\ x.step = "linked" => x.socket \in {"open", "gone"}
    /\ x.step \in Busy(s) \cup {"answering"} /\ s = "local"
          => x.socket \in {"open", "gone"}
    /\ x.step = "endpoint" => x.socket = "none"
    /\ x.step = "unanswered" => x.socket = "gone"
    /\ x.step = "connecting" => x.socket = "connecting"
    /\ x.step \in {"sending", "awaiting", "connecting"} => x.paused = "handshake"
    /\ x.step = "answering" /\ x.reply = "SUCCEEDED" => x.paused = "handshake"
    /\ x.step = "replying" => x.reply # "none"
    /\ x.step = "replying" /\ x.socket = "open" => x.paused = "handshake"
    /\ x.step \in {"auth", "request", "endpoint"} => x.queued = 0 /\ x.sent = 0
    /\ x.step # "linked" => x.got = 0
    /\ x.step \in {"auth", "request", "sending", "awaiting",
                   "endpoint", "connecting"} => x.reply = "none"

\* All of it, for the session of lease k at end s.
Own(s, e, x, k, o) ==
    /\ Begun(e, x, k) /\ Holding(s, e, x, k) /\ Hearing(s, e, x, k)
    /\ Reader(s, e, x, k) /\ Levelled(e, x, k, o) /\ Shaped(s, x)

\* Steps of a client's session before its request goes out, and before it has
\* taken the response.
Before == {"none", "auth", "request"}

Waiting == Before \cup {"sending", "awaiting"}

\* How far the handshake is, on both sides of a lease.
Handshake(a, b, fl, fr) ==
    /\ fr \in {"none", "request", "taken"}
    /\ a.step \in Before => fr = "none"
    /\ b.step \in {"none", "endpoint"} <=> fr # "taken"
    /\ b.step \in {"none", "endpoint", "connecting", "replying"} => fl = "none"
    /\ fl \in {"none", "taken"} \/ (fl \in Reply /\ fl = b.reply)
    /\ a.step \in Waiting => fl # "taken" /\ a.reply = "none"
    /\ a.reply \in {"none", "FAILURE", b.reply}
    /\ a.reply = "SUCCEEDED" => b.reply = "SUCCEEDED" /\ fl = "taken"
    /\ a.step = "linked" => a.reply = "SUCCEEDED"
    /\ a.step = "answering" => a.reply # "none"
    /\ b.reply = "SUCCEEDED" => b.step \in {"replying", "linked"}
    /\ b.step = "replying" /\ b.reply = "SUCCEEDED" => b.socket = "open"

\* The end has not closed lease k: a CLOSE that comes for it is not an answer.
Unclosed(e, k) == e.lease < k \/ (e.lease = k /\ e.state # "CLOSING")

\* What the handshake says of the channel: nl and nr messages are on their way
\* to the local and the remote session, or wait there, and cl and cr say
\* whether a CLOSE is.
Crossing(L, R, a, b, fl, fr, nl, nr, cl, cr, k) ==
    /\ b.step \in {"linked", "failed"} => fl # "none" \/ ~ Alive(R)
    /\ fl = "none" => nl = 0
    /\ fl \notin {"none", "taken"} /\ L.lease = k /\ Alive(L) => nl > 0
    /\ a.step \notin Waiting /\ fr # "none" =>
          fl = "taken" \/ ~ Alive(L) \/ ~ Alive(R)
    /\ cr /\ Unclosed(R, k) => fr = "none" \/ fl = "taken"
    /\ cl /\ Unclosed(L, k) => fl # "none"
    /\ a.reply # "SUCCEEDED" =>
          b.got = 0 /\ nr <= (IF fr \in {"none", "taken"} THEN 0 ELSE 1)

\* A session that waits for data, or has learnt that no more will come.
Waits(y) == y.stop = "channelClosed" \/ (y.stop = "no" /\ y.socket # "gone")

\* All that x's socket delivered is kept, on its way, or with y's socket; f, if
\* it was not taken, is on its way too, and n counts it.
Exact(e, p, x, y, f, n) ==
    Alive(e) /\ Alive(p) /\ Waits(y) =>
        n + y.got + x.queued = x.sent + (IF f \in {"none", "taken"} THEN 0 ELSE 1)

\* Who closes the channel has stopped by itself: cl says whether a CLOSE is on
\* its way to e, y is the session of the other end.
Goodbye(e, y, cl, k) ==
    (cl /\ Unclosed(e, k)) \/ (e.lease = k /\ e.ack # "none")
        => y.stop \in {"failed", "socketClosed"}

\* All of it, for lease k of channel c.
OwnOf(s, c, k) ==
    Own(s, chan[s][c], session[s][c][k], k, overflow[s][c])

TalkOf(c, k) ==
    /\ Handshake(session["local"][c][k], session["remote"][c][k],
                 first["local"][c][k], first["remote"][c][k])
    /\ Crossing(chan["local"][c], chan["remote"][c],
                session["local"][c][k], session["remote"][c][k],
                first["local"][c][k], first["remote"][c][k],
                Behind(chan["local"][c], wire["local"][c], k),
                Behind(chan["remote"][c], wire["remote"][c], k),
                Holds(wire["local"][c], "CLOSE", k),
                Holds(wire["remote"][c], "CLOSE", k), k)

ExactOf(s, c, k) ==
    Exact(chan[s][c], chan[Peer(s)][c], session[s][c][k],
          session[Peer(s)][c][k], first[Peer(s)][c][k],
          Behind(chan[Peer(s)][c], wire[Peer(s)][c], k))

GoodbyeOf(s, c, k) ==
    Goodbye(chan[s][c], session[Peer(s)][c][k],
            Holds(wire[s][c], "CLOSE", k), k)

Story(c, k) ==
    /\ TalkOf(c, k)
    /\ \A s \in Sides : OwnOf(s, c, k) /\ ExactOf(s, c, k) /\ GoodbyeOf(s, c, k)

\* An end that sends its answer to a CLOSE has nothing left to read.
ReadAll(e) == Alive(e) /\ e.ack = "sending" => e.dataFromPeerQueue = <<>>

\* No session used channel c in a lease of another.
Straight(c) == \A s \in Sides, k \in Leases : <<s, c, k>> \notin strayed

\* What is kept on a channel until a CLOSE is missed or a socket late there.
Kept(c) ==
    /\ \A s \in Sides : ReadAll(chan[s][c])
    /\ Straight(c)
    /\ \A k \in Leases : Story(c, k)

\* The four safety properties are not inductive: this is, with the pool's IInv
\* and LinkInv.
SessionsInv == SessionsTypeOK /\ \A c \in Sound : Kept(c)

-----------------------------------------------------------------------------
(* How much data a wire holds. *)

\* It is a number, zero where nothing of the lease is on the wire.
LEMMA DataNat ==
    ASSUME NEW w \in Seq(Message), NEW k
    PROVE  /\ IsFiniteSet(DataOf(w, k)) /\ Data(w, k) \in Nat
           /\ ~ Carries(w, k) => Data(w, k) = 0
<1>1. PICK n \in Nat : n = Len(w)
  OBVIOUS
<1>2. IsFiniteSet(1 .. n)
  BY FS_Interval
<1>3. DataOf(w, k) \subseteq 1 .. n
  BY <1>1 DEF DataOf
<1>4. IsFiniteSet(DataOf(w, k))
  BY <1>2, <1>3, FS_Subset
<1>5. ASSUME ~ Carries(w, k) PROVE DataOf(w, k) = {}
  BY <1>5 DEF DataOf, Carries
<1> QED
  BY <1>4, <1>5, FS_CardinalityType, FS_EmptySet DEF Data

\* What one message of the given type and lease adds for lease k.
OneMore(type, lease, k) == IF type = "DATA" /\ lease = k THEN 1 ELSE 0

\* A message at the end of a wire is counted.
LEMMA AppendData ==
    ASSUME NEW w \in Seq(Message), NEW m \in Message, NEW k
    PROVE  Data(Append(w, m), k) = Data(w, k) + OneMore(m.type, m.lease, k)
<1>1. PICK n \in Nat : n = Len(w)
  OBVIOUS
<1>0. Append(w, m) \in Seq(Message)
  OBVIOUS
<1>2. PICK v \in Seq(Message) : v = Append(w, m)
  BY <1>0
<1>3. /\ Len(v) = n + 1 /\ v[n + 1] = m
      /\ \A i \in 1 .. n : v[i] = w[i]
  BY <1>1, <1>2
<1>4. \A i : i \in 1 .. n + 1 <=> i \in 1 .. n \/ i = n + 1
  OBVIOUS
<1>5. CASE m.type = "DATA" /\ m.lease = k
  <2>1. DataOf(v, k) = DataOf(w, k) \cup {n + 1}
    BY <1>1, <1>3, <1>4, <1>5 DEF DataOf
  <2>2. n + 1 \notin DataOf(w, k)
    BY <1>1 DEF DataOf
  <2>3. Cardinality(DataOf(w, k) \cup {n + 1}) = Cardinality(DataOf(w, k)) + 1
    BY <2>2, DataNat, FS_AddElement
  <2> QED
    BY <1>2, <1>5, <2>1, <2>3 DEF Data, OneMore
<1>6. CASE ~ (m.type = "DATA" /\ m.lease = k)
  <2>1. DataOf(v, k) = DataOf(w, k)
    BY <1>1, <1>3, <1>4, <1>6 DEF DataOf
  <2> QED
    BY <1>2, <1>6, <2>1, DataNat DEF Data, OneMore
<1> QED
  BY <1>5, <1>6

\* And so is the oldest, until it is taken.
LEMMA TailData ==
    ASSUME NEW w \in Seq(Message), w # <<>>, NEW k
    PROVE  Data(w, k) = Data(Tail(w), k) + OneMore(Head(w).type, Head(w).lease, k)
<1>1. PICK n \in Nat \ {0} : n = Len(w)
  OBVIOUS
<1>0. Tail(w) \in Seq(Message)
  OBVIOUS
<1>2. PICK v \in Seq(Message) : v = Tail(w)
  BY <1>0
<1>3. PICK m : m = Head(w)
  OBVIOUS
<1>4. /\ Len(v) = n - 1 /\ w[1] = m
      /\ \A i \in 1 .. n - 1 : v[i] = w[i + 1]
  BY <1>1, <1>2, <1>3
<1> DEFINE S == DataOf(w, k) \ {1}
           T == DataOf(v, k)
           f == [i \in T |-> i + 1]
<1>5. /\ \A i \in T : i \in Nat /\ i + 1 \in S
      /\ \A j \in S : j - 1 \in T /\ j = (j - 1) + 1
  <2>1. ASSUME NEW i \in T PROVE i \in Nat /\ i + 1 \in S
    <3>1. i \in 1 .. n - 1 /\ v[i].type = "DATA" /\ v[i].lease = k
      BY <1>4 DEF DataOf
    <3>2. i + 1 \in 1 .. n /\ i + 1 # 1 /\ w[i + 1] = v[i]
      BY <1>4, <3>1
    <3> QED
      BY <1>1, <3>1, <3>2 DEF DataOf
  <2>2. ASSUME NEW j \in S PROVE j - 1 \in T /\ j = (j - 1) + 1
    <3>1. j \in 1 .. n /\ j # 1 /\ w[j].type = "DATA" /\ w[j].lease = k
      BY <1>1 DEF DataOf
    <3>2. j - 1 \in 1 .. n - 1 /\ j = (j - 1) + 1
      BY <3>1
    <3>3. v[j - 1] = w[j]
      BY <1>4, <3>2
    <3> QED
      BY <1>4, <3>1, <3>2, <3>3 DEF DataOf
  <2> QED
    BY <2>1, <2>2
<1> HIDE DEF S, T
<1>6. f \in Bijection(T, S)
  <2>1. f \in [T -> S]
    BY <1>5
  <2>2. ASSUME NEW i \in T, NEW j \in T, f[i] = f[j] PROVE i = j
    BY <1>5, <2>2
  <2>3. ASSUME NEW j \in S PROVE \E i \in T : f[i] = j
    BY <1>5
  <2> QED
    BY <2>1, <2>2, <2>3 DEF Bijection, Injection, Surjection, IsInjective
<1>7. Cardinality(S) = Cardinality(T)
  BY <1>2, <1>6, DataNat, FS_Bijection DEF ExistsBijection, T
<1>8. Cardinality(S) = IF 1 \in DataOf(w, k) THEN Data(w, k) - 1 ELSE Data(w, k)
  BY DataNat, FS_RemoveElement DEF Data, S
<1>9. 1 \in DataOf(w, k) <=> m.type = "DATA" /\ m.lease = k
  BY <1>1, <1>4 DEF DataOf
<1>10. Data(w, k) \in Nat /\ Data(v, k) = Cardinality(T)
  BY DataNat DEF Data, T
<1> QED
  BY <1>2, <1>3, <1>7, <1>8, <1>9, <1>10 DEF OneMore

\* Wire v is w with one message more at its end, or one less at its head, as
\* far as data and CLOSEs go.
More(v, w, type, lease) ==
    \A k \in Nat :
        /\ Data(v, k) = Data(w, k) + OneMore(type, lease, k)
        /\ Holds(v, "CLOSE", k) <=>
              Holds(w, "CLOSE", k) \/ (type = "CLOSE" /\ lease = k)

Fewer(v, w, type, lease) ==
    /\ \A k \in Nat :
          /\ Data(w, k) = Data(v, k) + OneMore(type, lease, k)
          /\ Holds(w, "CLOSE", k) <=>
                Holds(v, "CLOSE", k) \/ (type = "CLOSE" /\ lease = k)
    /\ type = "CLOSE" => Data(w, lease) = 0

\* Sending makes a wire longer.
LEMMA AppendMore ==
    ASSUME NEW w \in Seq(Message), NEW m \in Message
    PROVE  More(Append(w, m), w, m.type, m.lease)
<1>1. Longer(Append(w, m), w, m.type, m.lease)
  BY AppendWire
<1>2. \A k : Holds(Append(w, m), "CLOSE", k) <=>
         Holds(w, "CLOSE", k) \/ ("CLOSE" = m.type /\ k = m.lease)
  BY <1>1 DEF Longer
<1> QED
  BY <1>2, AppendData DEF More

\* Receiving makes it shorter; behind a CLOSE comes no data of its lease.
LEMMA TailFewer ==
    ASSUME NEW w \in Seq(Message), w # <<>>, Ordered(w)
    PROVE  Fewer(Tail(w), w, Head(w).type, Head(w).lease)
<1>1. PICK v, m : v = Tail(w) /\ m = Head(w)
  OBVIOUS
<1>2. v \in Seq(Message) /\ m \in Message /\ Shorter(v, w, m.type, m.lease)
  BY <1>1, TailWire
<1>3. m.lease \in Nat /\ m.type \in {"OPEN", "DATA", "CLOSE"}
  BY <1>2 DEF Message
<1>4. \A k \in Nat : Data(w, k) = Data(v, k) + OneMore(m.type, m.lease, k)
  BY <1>1, TailData
<1>5. \A k \in Nat : Holds(v, "CLOSE", k) <=>
         Holds(w, "CLOSE", k) /\ ~ ("CLOSE" = m.type /\ k = m.lease)
  BY <1>2 DEF Shorter
<1>6. Holds(w, m.type, m.lease)
  BY <1>2 DEF Shorter
<1>7. ASSUME m.type = "CLOSE" PROVE Data(w, m.lease) = 0
  <2>1. ~ Carries(v, m.lease)
    BY <1>2, <1>7 DEF Shorter
  <2>2. Data(v, m.lease) = 0
    BY <1>2, <2>1, DataNat
  <2> QED
    BY <1>3, <1>4, <1>7, <2>2 DEF OneMore
<1> QED
  BY <1>1, <1>4, <1>5, <1>6, <1>7 DEF Fewer

-----------------------------------------------------------------------------
(* What a task of the pool may do to end s of channel c, from e to e2.      *)

Rests(e, e2) ==
    /\ e2.state = e.state /\ e2.lease = e.lease
    /\ e2.dataFromPeerQueue = e.dataFromPeerQueue
    /\ \/ e2.onceOpened = e.onceOpened
       \/ e.onceOpened = "pending" /\ e2.onceOpened = "fulfilled"
    /\ e2.ack = e.ack \/ (~ Alive(e) /\ e2.ack = "none")

Opens(e, e2) ==
    /\ e.onceOpened # "settled" /\ e2.onceOpened = "settled"
    /\ e.state \in {"CLOSED", "PERMANENTLY_CLOSED"}
    /\ e2.state = IF e.state = "CLOSED" THEN "OPEN" ELSE e.state
    /\ e2.lease = e.lease /\ e2.ack = e.ack
    /\ e2.dataFromPeerQueue = e.dataFromPeerQueue

Grows(e, e2) ==
    /\ e2.state = e.state /\ e2.lease = e.lease /\ e2.onceOpened = e.onceOpened
    /\ e.ack = "none" /\ e2.ack = "none" /\ Alive(e)
    /\ Len(e2.dataFromPeerQueue) = Len(e.dataFromPeerQueue) + 1

Closes(e, e2) ==
    /\ e.state = "OPEN" /\ e2.state = "CLOSING" /\ e.ack = "none"
    /\ e2.lease = e.lease /\ e2.onceOpened = e.onceOpened
    /\ e2.dataFromPeerQueue = e.dataFromPeerQueue
    /\ e2.ack = IF e.dataFromPeerQueue = <<>> THEN "sending" ELSE "draining"

Resets(e, e2) ==
    /\ e.state = "CLOSING" /\ e.onceOpened = "settled" /\ e.ack # "draining"
    /\ e2.state = "CLOSED" /\ e2.onceOpened = "pending" /\ e2.ack = "none"
    /\ e2.dataFromPeerQueue = <<>> /\ e2.lease = e.lease + 1

Dies(e, e2) ==
    /\ e2.state = "PERMANENTLY_CLOSED" /\ e2.onceOpened = e.onceOpened
    /\ e2.lease = e.lease /\ e2.ack = e.ack
    /\ e2.dataFromPeerQueue = e.dataFromPeerQueue

\* Whether a CLOSE of lease k is on wire w.
Closing(w, k) == Holds(w, "CLOSE", k)

\* How much is behind end s, and whether a CLOSE is, after a step: as before;
\* no more than before; the same and a CLOSE.
Even(s, c) ==
    \A k \in Nat : /\ Behind(chan'[s][c], wire'[s][c], k) = Behind(chan[s][c], wire[s][c], k)
                   /\ Closing(wire'[s][c], k) <=> Closing(wire[s][c], k)

Less(s, c) ==
    \A k \in Nat : /\ Behind(chan'[s][c], wire'[s][c], k) <= Behind(chan[s][c], wire[s][c], k)
                   /\ Closing(wire'[s][c], k) => Closing(wire[s][c], k)

Told(s, c, lease) ==
    \A k \in Nat : /\ Behind(chan'[s][c], wire'[s][c], k) = Behind(chan[s][c], wire[s][c], k)
                   /\ Closing(wire'[s][c], k) <=> Closing(wire[s][c], k) \/ k = lease

\* How end s of c hears of a CLOSE, or learns that its own was answered, or
\* that the data channel is gone.
Hears(s, c, e, e2) ==
    /\ Closes(e, e2) /\ Less(s, c)
    /\ wire[s][c] # <<>> /\ Head(wire[s][c]).type = "CLOSE"
    /\ Closing(wire[s][c], e.lease) /\ Data(wire[s][c], e.lease) = 0
    /\ \A k \in Nat : Behind(chan'[s][c], wire'[s][c], k) = Behind(chan[s][c], wire[s][c], k)
    /\ IF Broken(c) \/ e2.ack = "draining" THEN Even(Peer(s), c)
       ELSE Told(Peer(s), c, e.lease)

Ends(s, c, e, e2) ==
    /\ Resets(e, e2) /\ Less(s, c) /\ Even(Peer(s), c)
    /\ \A k \in Nat : e.dataFromPeerQueue = <<>> \/ k # e.lease
          => Behind(chan'[s][c], wire'[s][c], k) = Behind(chan[s][c], wire[s][c], k)

Breaks(s, c, e, e2) ==
    /\ Dies(e, e2) /\ Less(s, c) /\ Even(Peer(s), c)
    /\ \A k \in Nat : ~ Closing(wire'[s][c], k)

\* What a task of the pool does at end s of channel c, and what a message does.
MovesTo(s, c, e, e2) ==
    \/ (Rests(e, e2) \/ Opens(e, e2) \/ Grows(e, e2))
       /\ Even(s, c) /\ Even(Peer(s), c)
    \/ Ends(s, c, e, e2)
    \/ Breaks(s, c, e, e2)

Apart(s, c) ==
    chan'[Peer(s)][c] = chan[Peer(s)][c] /\ chan'[s][c] \in PoolChannel

PoolMoves(s, c) == Apart(s, c) /\ MovesTo(s, c, chan[s][c], chan'[s][c])

Turn(s, c) ==
    \/ PoolMoves(s, c)
    \/ Apart(s, c) /\ Hears(s, c, chan[s][c], chan'[s][c])

\* Where neither wire nor queue changes, nothing does.
LEMMA EvenBy ==
    ASSUME NEW s, NEW c, wire'[s][c] = wire[s][c],
           chan'[s][c].lease = chan[s][c].lease,
           chan'[s][c].dataFromPeerQueue = chan[s][c].dataFromPeerQueue
    PROVE  Even(s, c)
BY DEF Even, Behind, Unread, Closing

\* An OPEN is not counted.
LEMMA OpenPosted ==
    ASSUME IInv, LinkInv, NEW s \in Sides, NEW c \in Channels, c \notin missed,
           NEW k \in Nat,
           wire' = Post(wire, s, c, Msg("OPEN", k)),
           chan'[Peer(s)][c] = chan[Peer(s)][c]
    PROVE  Even(Peer(s), c) /\ wire'[s][c] = wire[s][c]
<1>1. PICK p \in Sides : p = Peer(s) /\ p # s
  BY DEF Peer, Sides
<1>2. PICK w \in Seq(Message) : w = wire[p][c]
  BY <1>1, Knows
<1>3. PICK m \in Message : m = Msg("OPEN", k)
  BY DEF Msg, Message
<1>4. m.type = "OPEN" /\ m.lease = k
  BY <1>3 DEF Msg
<1>5. wire \in [Sides -> [Channels -> Seq(Message)]]
  BY DEF IInv, TypeOK
<1>6. /\ wire'[s][c] = wire[s][c]
      /\ wire'[p][c] = w \/ wire'[p][c] = Append(w, m)
  BY <1>1, <1>2, <1>3, <1>5 DEF Post
<1>7. CASE wire'[p][c] = w
  BY <1>1, <1>2, <1>6, <1>7, EvenBy
<1>8. CASE wire'[p][c] = Append(w, m)
  <2>1. More(wire'[p][c], w, m.type, m.lease)
    BY <1>8, AppendMore
  <2>2. \A j \in Nat : Data(w, j) \in Nat
    BY DataNat
  <2>3. \A j \in Nat : /\ Data(wire'[p][c], j) = Data(w, j)
                       /\ Holds(wire'[p][c], "CLOSE", j) <=> Holds(w, "CLOSE", j)
    <3> SUFFICES ASSUME NEW j \in Nat
                 PROVE  /\ Data(wire'[p][c], j) = Data(w, j)
                        /\ Holds(wire'[p][c], "CLOSE", j) <=> Holds(w, "CLOSE", j)
      OBVIOUS
    <3>1. OneMore(m.type, m.lease, j) = 0
      BY <1>4 DEF OneMore
    <3>2. /\ Data(wire'[p][c], j) = Data(w, j) + OneMore(m.type, m.lease, j)
          /\ Holds(wire'[p][c], "CLOSE", j) <=>
                Holds(w, "CLOSE", j) \/ (m.type = "CLOSE" /\ m.lease = j)
      BY <2>1 DEF More
    <3>3. Data(wire'[p][c], j) = Data(w, j)
      BY <2>2, <3>1, <3>2
    <3> QED
      BY <1>4, <3>2, <3>3
  <2> QED
    BY <1>1, <1>2, <1>6, <2>3 DEF Even, Behind, Closing
<1> QED
  BY <1>6, <1>7, <1>8

\* open() is a turn of the local end.
LEMMA OpenMoves ==
    ASSUME IInv, LinkInv, NEW c \in Channels, c \notin missed, OpenDone(c)
    PROVE  PoolMoves("local", c)
<1>1. PICK e, f : e = chan["local"][c] /\ f = chan'["local"][c]
  OBVIOUS
<1>2. /\ f \in PoolChannel /\ e \in PoolChannel
      /\ f.state = (IF e.state = "CLOSED" THEN "OPEN" ELSE e.state)
      /\ f.onceOpened = "settled"
      /\ f.dataFromPeerQueue = e.dataFromPeerQueue
      /\ f.ack = e.ack /\ f.lease = e.lease
      /\ chan'["remote"][c] = chan["remote"][c]
      /\ wire' = Post(wire, "local", c, Msg("OPEN", e.lease))
  BY <1>1, Knows DEF OpenDone
<1>3. Peer("local") = "remote" /\ "local" \in Sides /\ e.lease \in Nat
  BY <1>2 DEF Peer, Sides, PoolChannel
<1>4. Even("remote", c) /\ wire'["local"][c] = wire["local"][c]
  BY <1>2, <1>3, OpenPosted
<1>5. Even("local", c)
  BY <1>1, <1>2, <1>4, EvenBy
<1>6. EndOK(e)
  BY <1>1, Knows DEF LinkOf, Linked
<1>7. Rests(e, f) \/ Opens(e, f)
  BY <1>2, <1>6 DEF Rests, Opens, EndOK, Alive, PoolChannel, State
<1> QED
  BY <1>1, <1>2, <1>3, <1>4, <1>5, <1>7 DEF PoolMoves, MovesTo, Apart

\* A client gets a channel: one that is pooled, or a new one, at once or when
\* its data channel opens.
LEMMA OpeningMoves ==
    ASSUME IInv, LinkInv,
           OpenPooled \/ OpenNew \/ \E c \in Channels : OpenedLocal(c)
    PROVE  \E c \in Channels : Only(c) /\ (c \notin missed => PoolMoves("local", c))
<1>1. "local" \in Sides /\ "remote" \in Sides /\ Peer("local") = "remote"
  BY DEF Sides, Peer
<1>2. CASE OpenPooled
  <2>1. pool_ # <<>> /\ Open(Head(pool_), Tail(pool_)) /\ dc' = dc
    BY <1>2 DEF OpenPooled
  <2>2. /\ Head(pool_) \in Channels
        /\ Head(pool_) = pool_[1] /\ 1 \in 1 .. Len(pool_)
    BY <2>1 DEF IInv, TypeOK
  <2>3. chan["local"][Head(pool_)].state \notin {"OPEN", "CLOSING"}
    BY <2>2 DEF IInv, PoolSound
  <2>4. PICK c \in Channels : Open(c, Tail(pool_)) /\ c = Head(pool_)
    BY <2>1, <2>2
  <2>5. ASSUME c \notin missed PROVE OpenDone(c)
    BY <2>1, <2>3, <2>4, <2>5, OpenEffect
  <2>6. Only(c)
    BY <2>1, <2>4, OpenOnly
  <2> QED
    BY <2>5, <2>6, OpenMoves
<1>3. CASE OpenNew
  <2>1. PICK c \in Channels : Only(c)
    BY <1>3, OpenNewSteps
  <2>2. wire' = wire /\ chan' = chan
    BY <1>3 DEF OpenNew
  <2>3. chan["local"][c] \in PoolChannel
    BY <1>1 DEF IInv, TypeOK
  <2>4. Even("local", c) /\ Even("remote", c)
    BY <2>2, EvenBy
  <2>5. Rests(chan["local"][c], chan'["local"][c])
    BY <2>2 DEF Rests
  <2> QED
    BY <1>1, <2>1, <2>2, <2>3, <2>4, <2>5 DEF PoolMoves, MovesTo, Apart
<1>4. ASSUME NEW c \in Channels, OpenedLocal(c)
      PROVE  Only(c) /\ (c \notin missed => PoolMoves("local", c))
  <2>1. /\ dc["local"][c] = "opening" /\ dc' = [dc EXCEPT !["local"][c] = "open"]
        /\ Open(c, pool_)
    BY <1>4 DEF OpenedLocal
  <2>2. /\ dc'["local"][c] = "open" /\ dc'["remote"][c] = dc["remote"][c]
        /\ \A t \in Sides, d \in Channels : d # c => dc'[t][d] = dc[t][d]
    BY <1>1, <2>1 DEF IInv, TypeOK
  <2>3. chan["local"][c].state \notin {"OPEN", "CLOSING"}
    BY <1>1, <2>1 DEF IInv, WrappedInv
  <2>4. ASSUME c \notin missed PROVE OpenDone(c)
    BY <2>1, <2>2, <2>3, <2>4, OpenEffect
  <2>5. Only(c)
    BY <1>4, OpeningOnly
  <2> QED
    BY <2>4, <2>5, OpenMoves
<1> QED
  BY <1>2, <1>3, <1>4

\* What may reach an end: nothing before its OPEN, and after it nothing but
\* data and the CLOSE of its lease.
LEMMA MayHear ==
    ASSUME IInv, LinkInv, NEW s \in Sides, NEW c \in Channels, c \notin missed,
           wire[s][c] # <<>>, chan[s][c].ack # "sending",
           NEW m, m = Head(wire[s][c])
    PROVE  /\ m \in Message /\ m.lease = chan[s][c].lease
           /\ chan[s][c].ack = "none" /\ Alive(chan[s][c])
           /\ chan[s][c].onceClosed = "pending"
           /\ m.type = "OPEN" => /\ chan[s][c].onceOpened = "pending"
                                 /\ chan[s][c].state = "CLOSED"
                                 /\ s = "remote"
           /\ m.type # "OPEN" => chan[s][c].onceOpened # "pending"
           /\ m.type # "OPEN" /\ chan[s][c].onceOpened = "settled" =>
                 chan[s][c].state \in {"OPEN", "CLOSING"}
           /\ Fewer(Tail(wire[s][c]), wire[s][c], m.type, m.lease)
<1>1. PICK L \in PoolChannel, R \in PoolChannel :
         L = chan["local"][c] /\ R = chan["remote"][c]
  BY Knows
<1>2. PICK wL \in Seq(Message), wR \in Seq(Message) :
         wL = wire["local"][c] /\ wR = wire["remote"][c]
  BY Knows
<1>3. PICK n \in Nat : n = accepted[c]
  BY Knows
<1>4. Linked(L, R, wL, wR, n)
  BY <1>1, <1>2, <1>3, Knows DEF LinkOf
<1>5. EndOK(L) /\ EndOK(R) /\ Ordered(wL) /\ Ordered(wR)
  BY <1>4 DEF Linked, ToLocal, ToRemote
<1>6. CASE s = "local"
  <2>1. /\ Tail(wL) \in Seq(Message) /\ m \in Message
        /\ Shorter(Tail(wL), wL, m.type, m.lease)
    BY <1>2, <1>5, <1>6, TailWire
  <2>2. m.lease \in Nat
    BY <2>1 DEF Message
  <2>3. m.type # "OPEN" /\ L.ack = "none" /\ L.state \in {"OPEN", "CLOSING"}
    BY <1>4, <2>1, <2>2, LocalHears
  <2>4. Carries(wL, m.lease)
    BY <2>1 DEF Shorter
  <2>5. m.lease = L.lease
    BY <1>4, <2>2, <2>4 DEF Linked, ToLocal
  <2>6. Alive(L) /\ L.onceOpened = "settled" /\ L.onceClosed = "pending"
    BY <1>5, <2>3 DEF EndOK, Alive
  <2>7. Fewer(Tail(wL), wL, m.type, m.lease)
    BY <1>2, <1>5, <1>6, TailFewer
  <2> QED
    BY <1>1, <1>2, <1>6, <2>1, <2>3, <2>5, <2>6, <2>7
<1>7. CASE s = "remote"
  <2>1. /\ Tail(wR) \in Seq(Message) /\ m \in Message
        /\ Shorter(Tail(wR), wR, m.type, m.lease)
    BY <1>2, <1>5, <1>7, TailWire
  <2>2. m.lease \in Nat
    BY <2>1 DEF Message
  <2>3. /\ m.lease = R.lease /\ R.ack = "none" /\ Alive(R)
        /\ m.type = "OPEN" => R.onceOpened = "pending" /\ R.state = "CLOSED"
        /\ m.type # "OPEN" => R.onceOpened # "pending"
        /\ m.type # "OPEN" /\ R.onceOpened = "settled" =>
              R.state \in {"OPEN", "CLOSING"}
    BY <1>1, <1>4, <1>7, <2>1, <2>2, RemoteHears
  <2>4. R.onceClosed = "pending"
    BY <1>5, <2>3 DEF EndOK
  <2>5. Fewer(Tail(wR), wR, m.type, m.lease)
    BY <1>2, <1>5, <1>7, TailFewer
  <2> QED
    BY <1>1, <1>2, <1>7, <2>1, <2>3, <2>4, <2>5
<1> QED
  BY <1>6, <1>7 DEF Sides

\* A CLOSE that is sent is on its way, and nothing else changes.
LEMMA CloseTold ==
    ASSUME IInv, LinkInv, NEW p \in Sides, NEW c \in Channels, c \notin missed,
           NEW k \in Nat,
           chan'[p][c] = chan[p][c],
           wire'[p][c] = Append(wire[p][c], Msg("CLOSE", k))
    PROVE  Told(p, c, k)
<1>1. PICK w \in Seq(Message) : w = wire[p][c]
  BY Knows
<1>2. PICK m \in Message : m = Msg("CLOSE", k)
  BY DEF Msg, Message
<1>3. m.type = "CLOSE" /\ m.lease = k
  BY <1>2 DEF Msg
<1>4. More(wire'[p][c], w, m.type, m.lease)
  BY <1>1, <1>2, AppendMore
<1>5. \A j \in Nat : Data(w, j) \in Nat
  BY DataNat
<1>6. \A j \in Nat :
         /\ Data(wire'[p][c], j) = Data(w, j)
         /\ Holds(wire'[p][c], "CLOSE", j) <=> Holds(w, "CLOSE", j) \/ j = k
  <2> SUFFICES ASSUME NEW j \in Nat
               PROVE  /\ Data(wire'[p][c], j) = Data(w, j)
                      /\ Holds(wire'[p][c], "CLOSE", j)
                            <=> Holds(w, "CLOSE", j) \/ j = k
    OBVIOUS
  <2>1. OneMore(m.type, m.lease, j) = 0
    BY <1>3 DEF OneMore
  <2>2. /\ Data(wire'[p][c], j) = Data(w, j) + OneMore(m.type, m.lease, j)
        /\ Holds(wire'[p][c], "CLOSE", j) <=>
              Holds(w, "CLOSE", j) \/ (m.type = "CLOSE" /\ m.lease = j)
    BY <1>4 DEF More
  <2>3. Data(wire'[p][c], j) = Data(w, j)
    BY <1>5, <2>1, <2>2
  <2> QED
    BY <1>3, <2>2, <2>3
<1> QED
  BY <1>1, <1>6 DEF Told, Behind, Closing

\* A task's end, as far as its turn goes.
LEMMA TaskTurn ==
    ASSUME IInv, LinkInv, NEW s \in Sides, NEW c \in Channels, c \notin missed,
           NEW e \in PoolChannel, NEW q, TaskDone(s, c, e, q)
    PROVE  /\ chan'[s][c] = Callbacks(e) /\ chan'[s][c] \in PoolChannel
           /\ chan'[Peer(s)][c] = chan[Peer(s)][c] /\ wire'[s][c] = q
           /\ IF AnswerDue(e) /\ ~ Broken(c) THEN Told(Peer(s), c, e.lease)
              ELSE Even(Peer(s), c)
<1>1. /\ chan'[s][c] = Callbacks(e) /\ chan'[Peer(s)][c] = chan[Peer(s)][c]
      /\ wire'[s][c] = q
      /\ wire'[Peer(s)][c] =
            IF AnswerDue(e) /\ ~ Broken(c)
            THEN Append(wire[Peer(s)][c], Msg("CLOSE", e.lease))
            ELSE wire[Peer(s)][c]
  BY DEF TaskDone
<1>2. PICK p \in Sides : p = Peer(s)
  BY DEF Peer, Sides
<1>3. Callbacks(e) \in PoolChannel
  BY CallbacksType
<1>4. CASE AnswerDue(e) /\ ~ Broken(c)
  <2>1. e.lease \in Nat
    BY DEF PoolChannel
  <2>2. Told(p, c, e.lease)
    BY <1>1, <1>2, <1>4, <2>1, CloseTold
  <2> QED
    BY <1>1, <1>2, <1>3, <1>4, <2>2
<1>5. CASE ~ (AnswerDue(e) /\ ~ Broken(c))
  <2>1. Even(p, c)
    BY <1>1, <1>2, <1>5, EvenBy
  <2> QED
    BY <1>1, <1>2, <1>3, <1>5, <2>1
<1> QED
  BY <1>4, <1>5

\* Wire w lost a message of this type and lease, and became v.
HasLost(w, v, type, lease) ==
    \A k \in Nat :
        /\ Data(w, k) \in Nat /\ Data(v, k) \in Nat
        /\ Data(w, k) = Data(v, k) + OneMore(type, lease, k)
        /\ Closing(w, k) <=> Closing(v, k) \/ (type = "CLOSE" /\ lease = k)

\* How much is behind an end whose wire lost its oldest message.
LEMMA BehindTail ==
    ASSUME IInv, LinkInv, NEW s \in Sides, NEW c \in Channels, c \notin missed, NEW m,
           wire[s][c] # <<>>, wire'[s][c] = Tail(wire[s][c]),
           Fewer(Tail(wire[s][c]), wire[s][c], m.type, m.lease)
    PROVE  HasLost(wire[s][c], wire'[s][c], m.type, m.lease)
<1>1. PICK w \in Seq(Message) : w = wire[s][c]
  BY Knows
<1>2. Tail(w) \in Seq(Message)
  BY <1>1
<1>3. \A k \in Nat : Data(w, k) \in Nat /\ Data(Tail(w), k) \in Nat
  BY <1>2, DataNat
<1>4. HasLost(w, Tail(w), m.type, m.lease)
  BY <1>1, <1>3 DEF HasLost, Fewer, Closing
<1> QED
  BY <1>1, <1>4

\* A message arrives.
LEMMA DeliverTurn ==
    ASSUME IInv, LinkInv, PromptSends, NEW s \in Sides, NEW c \in Channels, c \notin missed,
           Deliver(s, c)
    PROVE  Turn(s, c)
<1>1. /\ dc[s][c] = "open" /\ wire[s][c] # <<>> /\ chan[s][c].ack # "sending"
      /\ RunCallbacks(s, c, OnDataFromPeer(chan[s][c], Head(wire[s][c])),
                      [wire EXCEPT ![s][c] = Tail(@)], pool_)
  BY DEF Deliver
<1>2. PICK e \in PoolChannel : e = chan[s][c]
  BY Knows
<1>3. PICK w \in Seq(Message) : w = wire[s][c]
  BY Knows
<1>4. PICK m : m = Head(wire[s][c])
  OBVIOUS
<1>5. /\ m \in Message /\ m.lease = e.lease /\ e.ack = "none" /\ Alive(e)
      /\ e.onceClosed = "pending"
      /\ m.type = "OPEN" => e.onceOpened = "pending" /\ e.state = "CLOSED"
      /\ m.type # "OPEN" => e.onceOpened # "pending"
      /\ m.type # "OPEN" /\ e.onceOpened = "settled" =>
            e.state \in {"OPEN", "CLOSING"}
      /\ Fewer(Tail(wire[s][c]), wire[s][c], m.type, m.lease)
  BY <1>1, <1>2, <1>4, MayHear
<1>6. PICK f : f = OnDataFromPeer(e, m)
  OBVIOUS
<1>7. /\ f \in PoolChannel /\ f.lease = e.lease
      /\ m.type = "DATA" =>
            /\ f.state = e.state /\ f.onceOpened = e.onceOpened
            /\ f.onceClosed = e.onceClosed /\ f.ack = e.ack
            /\ f.dataFromPeerQueue = Append(e.dataFromPeerQueue, m.lease)
      /\ m.type # "DATA" => f.dataFromPeerQueue = e.dataFromPeerQueue
      /\ m.type = "OPEN" =>
            /\ f.state = e.state /\ f.onceClosed = e.onceClosed
            /\ f.onceOpened = Fulfill(e.onceOpened) /\ f.ack = e.ack
      /\ m.type = "CLOSE" /\ e.state = "OPEN" =>
            /\ f.state = "CLOSING" /\ f.onceClosed = e.onceClosed
            /\ f.onceOpened = e.onceOpened /\ f.ack = "draining"
      /\ m.type = "CLOSE" /\ e.state = "CLOSING" =>
            /\ f.state = "CLOSING" /\ f.onceClosed = Fulfill(e.onceClosed)
            /\ f.onceOpened = e.onceOpened /\ f.ack = e.ack
  BY <1>5, <1>6, HearsEffect
<1>8. TaskDone(s, c, f, Tail(w))
  <2>1. PICK v : v = [wire EXCEPT ![s][c] = Tail(w)]
    OBVIOUS
  <2>2. RunCallbacks(s, c, f, v, pool_)
    BY <1>1, <1>2, <1>3, <1>4, <1>6, <2>1
  <2>3. Tail(w) \in Seq(Message)
    BY <1>1, <1>3
  <2> QED
    BY <1>7, <2>1, <2>2, <2>3, TaskEffect
<1>9. PICK g : g = chan'[s][c]
  OBVIOUS
<1>10. /\ g = Callbacks(f) /\ g \in PoolChannel
       /\ chan'[Peer(s)][c] = chan[Peer(s)][c] /\ wire'[s][c] = Tail(w)
       /\ IF AnswerDue(f) /\ ~ Broken(c) THEN Told(Peer(s), c, f.lease)
          ELSE Even(Peer(s), c)
  <2>1. /\ chan'[s][c] = Callbacks(f) /\ chan'[s][c] \in PoolChannel
        /\ chan'[Peer(s)][c] = chan[Peer(s)][c] /\ wire'[s][c] = Tail(w)
        /\ IF AnswerDue(f) /\ ~ Broken(c) THEN Told(Peer(s), c, f.lease)
           ELSE Even(Peer(s), c)
    BY <1>7, <1>8, TaskTurn
  <2> QED
    BY <1>9, <2>1
<1>11. PICK dw \in [Nat -> Nat], dv \in [Nat -> Nat] :
          \A k \in Nat : /\ dw[k] = Data(wire[s][c], k)
                         /\ dv[k] = Data(wire'[s][c], k)
                         /\ dw[k] = dv[k] + OneMore(m.type, m.lease, k)
                         /\ Closing(wire[s][c], k) <=>
                               Closing(wire'[s][c], k) \/ (m.type = "CLOSE" /\ m.lease = k)
  <2>1. \A k \in Nat :
              /\ Data(wire[s][c], k) \in Nat /\ Data(wire'[s][c], k) \in Nat
              /\ Data(wire[s][c], k) =
                    Data(wire'[s][c], k) + OneMore(m.type, m.lease, k)
              /\ Closing(wire[s][c], k) <=>
                    Closing(wire'[s][c], k) \/ (m.type = "CLOSE" /\ m.lease = k)
    <3>1. HasLost(wire[s][c], wire'[s][c], m.type, m.lease)
      BY <1>1, <1>3, <1>5, <1>10, BehindTail
    <3> QED
      BY <3>1 DEF HasLost
  <2>2. /\ [k \in Nat |-> Data(wire[s][c], k)] \in [Nat -> Nat]
        /\ [k \in Nat |-> Data(wire'[s][c], k)] \in [Nat -> Nat]
    BY <2>1
  <2> QED
    BY <2>1, <2>2
<1>12. \A k \in Nat :
          /\ Behind(chan[s][c], wire[s][c], k) = dw[k] + Unread(e, k)
          /\ Behind(chan'[s][c], wire'[s][c], k) = dv[k] + Unread(g, k)
  BY <1>2, <1>9, <1>11 DEF Behind
<1>14. CASE m.type = "DATA"
  <2>1. ~ AnswerDue(f) /\ Even(Peer(s), c)
    BY <1>5, <1>7, <1>10, <1>14 DEF AnswerDue
  <2>2. f.onceOpened # "fulfilled"
    BY <1>1, <1>2, <1>5, <1>7, <1>14, Knows DEF Around, IInv, LocalInv, Sides
  <2>3. /\ g.state = e.state /\ g.onceOpened = e.onceOpened /\ g.ack = "none"
        /\ g.lease = e.lease /\ g.dataFromPeerQueue = f.dataFromPeerQueue
    BY <1>5, <1>7, <1>10, <1>14, <2>2, CallbacksEffect
  <2>4. /\ Len(g.dataFromPeerQueue) = Len(e.dataFromPeerQueue) + 1
        /\ Len(e.dataFromPeerQueue) \in Nat
    <3>1. e.dataFromPeerQueue \in Seq(Nat) /\ m.lease \in Nat
      BY <1>5 DEF PoolChannel
    <3>2. g.dataFromPeerQueue = Append(e.dataFromPeerQueue, m.lease)
      BY <1>7, <1>14, <2>3
    <3>3. PICK q \in Seq(Nat), x \in Nat :
             q = e.dataFromPeerQueue /\ x = m.lease
      BY <3>1
    <3>4. Len(Append(q, x)) = Len(q) + 1 /\ Len(q) \in Nat
      OBVIOUS
    <3>5. g.dataFromPeerQueue = Append(q, x)
      BY <3>2, <3>3
    <3> QED
      BY <3>3, <3>4, <3>5
  <2>5. Grows(e, g)
    BY <1>5, <2>3, <2>4 DEF Grows
  <2>6. Even(s, c)
    <3>1. ASSUME NEW k \in Nat
          PROVE  /\ Behind(chan'[s][c], wire'[s][c], k) = Behind(chan[s][c], wire[s][c], k)
                 /\ Closing(wire'[s][c], k) <=> Closing(wire[s][c], k)
      <4>1. /\ dw[k] = dv[k] + (IF e.lease = k THEN 1 ELSE 0)
            /\ dw[k] \in Nat /\ dv[k] \in Nat
        BY <1>5, <1>11, <1>14 DEF OneMore
      <4>2. Unread(g, k) = Unread(e, k) + (IF e.lease = k THEN 1 ELSE 0)
        BY <2>3, <2>4 DEF Unread
      <4>3. Unread(e, k) \in Nat
        BY <2>4 DEF Unread
      <4>4. dw[k] + Unread(e, k) = dv[k] + Unread(g, k)
        <5>1. PICK i \in Nat : i = IF e.lease = k THEN 1 ELSE 0
          OBVIOUS
        <5>2. PICK u \in Nat : u = Unread(e, k)
          BY <4>3
        <5>3. PICK x \in Nat : x = dv[k]
          BY <4>1
        <5>4. dw[k] = x + i /\ Unread(g, k) = u + i
          BY <4>1, <4>2, <5>1, <5>2, <5>3
        <5> QED
          BY <5>2, <5>3, <5>4
      <4>5. Behind(chan'[s][c], wire'[s][c], k) = Behind(chan[s][c], wire[s][c], k)
        BY <1>12, <4>4
      <4>6. Closing(wire'[s][c], k) <=> Closing(wire[s][c], k)
        BY <1>11, <1>14
      <4> QED
        BY <4>5, <4>6
    <3> QED
      BY <3>1 DEF Even
  <2> QED
    BY <1>2, <1>9, <1>10, <2>1, <2>5, <2>6 DEF Turn, PoolMoves, MovesTo, Apart
<1>15. CASE m.type = "OPEN"
  <2>1. ~ AnswerDue(f) /\ Even(Peer(s), c)
    BY <1>5, <1>7, <1>10, <1>15 DEF AnswerDue
  <2>2. f.onceOpened = "fulfilled" /\ f.state = "CLOSED"
    BY <1>5, <1>7, <1>15 DEF Fulfill
  <2>3. /\ g.state = "OPEN" /\ g.onceOpened = "settled" /\ g.ack = e.ack
        /\ g.lease = e.lease /\ g.dataFromPeerQueue = e.dataFromPeerQueue
    BY <1>5, <1>7, <1>10, <1>15, <2>2, CallbacksEffect
  <2>4. Opens(e, g)
    BY <1>5, <1>15, <2>3 DEF Opens
  <2>5. Even(s, c)
    <3>1. ASSUME NEW k \in Nat
          PROVE  /\ Behind(chan'[s][c], wire'[s][c], k) = Behind(chan[s][c], wire[s][c], k)
                 /\ Closing(wire'[s][c], k) <=> Closing(wire[s][c], k)
      <4>1. OneMore(m.type, m.lease, k) = 0
        BY <1>15 DEF OneMore
      <4>2. dw[k] = dv[k]
        BY <1>11, <4>1
      <4>3. Closing(wire'[s][c], k) <=> Closing(wire[s][c], k)
        BY <1>11, <1>15
      <4>4. Unread(g, k) = Unread(e, k)
        BY <2>3 DEF Unread
      <4>5. Behind(chan'[s][c], wire'[s][c], k) = Behind(chan[s][c], wire[s][c], k)
        BY <1>12, <4>2, <4>4
      <4> QED
        BY <4>3, <4>5
    <3> QED
      BY <3>1 DEF Even
  <2> QED
    BY <1>2, <1>9, <1>10, <2>1, <2>4, <2>5 DEF Turn, PoolMoves, MovesTo, Apart
<1>16. CASE m.type = "CLOSE"
  <2>1. e.onceOpened = "settled" /\ e.state \in {"OPEN", "CLOSING"}
    BY <1>1, <1>2, <1>5, <1>16, Knows DEF Around, IInv, LocalInv, Sides,
       PoolChannel, Promise
  <2>2. /\ Data(wire[s][c], e.lease) = 0 /\ Closing(wire[s][c], e.lease)
        /\ e.lease \in Nat
    BY <1>2, <1>5, <1>11, <1>16 DEF Fewer, PoolChannel
  <2>3. /\ \A k \in Nat : dv[k] = dw[k] /\ dv[k] \in Nat
        /\ dw[e.lease] = 0
        /\ \A k \in Nat : Closing(wire'[s][c], k) => Closing(wire[s][c], k)
    <3>1. ASSUME NEW k \in Nat PROVE dv[k] = dw[k] /\ dv[k] \in Nat
      <4>1. OneMore(m.type, m.lease, k) = 0
        BY <1>16 DEF OneMore
      <4> QED
        BY <1>11, <4>1
    <3> QED
      BY <1>11, <2>2, <3>1
  <2>4. CASE e.state = "OPEN"
    <3>1. /\ f.state = "CLOSING" /\ f.onceClosed = e.onceClosed
          /\ f.onceOpened = e.onceOpened /\ f.ack = "draining"
          /\ f.dataFromPeerQueue = e.dataFromPeerQueue
      BY <1>7, <1>16, <2>4
    <3>2. AnswerDue(f) <=> e.dataFromPeerQueue = <<>>
      BY <3>1 DEF AnswerDue
    <3>3. /\ g.state = "CLOSING" /\ g.onceOpened = "settled"
          /\ g.lease = e.lease /\ g.dataFromPeerQueue = e.dataFromPeerQueue
          /\ g.ack = IF e.dataFromPeerQueue = <<>> THEN "sending" ELSE "draining"
      BY <1>5, <1>7, <1>10, <2>1, <3>1, CallbacksEffect
    <3>4. Closes(e, g)
      BY <1>5, <2>1, <2>4, <3>3 DEF Closes
    <3>5. \A k \in Nat : Behind(chan'[s][c], wire'[s][c], k)
             = Behind(chan[s][c], wire[s][c], k)
      <4> TAKE k \in Nat
      <4>1. Unread(g, k) = Unread(e, k)
        BY <3>3 DEF Unread
      <4>2. dv[k] = dw[k]
        BY <2>3
      <4> QED
        BY <1>12, <4>1, <4>2
    <3>6. \A k \in Nat : Unread(e, k) \in Nat
      BY DEF Unread, PoolChannel
    <3>7. Less(s, c)
      <4>1. \A k \in Nat : Behind(chan'[s][c], wire'[s][c], k)
               <= Behind(chan[s][c], wire[s][c], k)
        BY <1>12, <2>3, <3>5, <3>6
      <4> QED
        BY <2>3, <4>1 DEF Less
    <3>8. Hears(s, c, e, g)
      BY <1>1, <1>4, <1>7, <1>10, <1>16, <2>2, <3>2, <3>3, <3>4, <3>5, <3>7
         DEF Hears
    <3> QED
      BY <1>2, <1>9, <1>10, <3>8 DEF Turn, PoolMoves, MovesTo, Apart
  <2>5. CASE e.state = "CLOSING"
    <3>1. /\ f.state = "CLOSING" /\ f.onceClosed = "fulfilled" /\ f.ack = "none"
      BY <1>5, <1>7, <1>16, <2>5 DEF Fulfill
    <3>2. ~ AnswerDue(f) /\ Alive(f)
      BY <3>1 DEF AnswerDue, Alive
    <3>3. g = Reset(e.lease + 1)
      BY <1>7, <1>10, <3>1, <3>2, CallbacksEffect
    <3>4. /\ Resets(e, g) /\ g.lease = e.lease + 1
          /\ g.dataFromPeerQueue = <<>>
      BY <1>5, <2>1, <2>5, <3>3 DEF Resets, Reset
    <3>5. /\ \A k \in Nat : Unread(g, k) = 0 /\ Unread(e, k) \in Nat
          /\ \A k \in Nat : e.dataFromPeerQueue = <<>> \/ k # e.lease =>
                Unread(e, k) = 0
      <4>1. Len(e.dataFromPeerQueue) \in Nat /\ Len(<<>>) = 0
        BY DEF PoolChannel
      <4> QED
        BY <3>4, <4>1 DEF Unread
    <3>6. Less(s, c)
      <4>1. \A k \in Nat : Behind(chan'[s][c], wire'[s][c], k)
               <= Behind(chan[s][c], wire[s][c], k)
        BY <1>12, <2>3, <3>5
      <4> QED
        BY <2>3, <4>1 DEF Less
    <3>7. \A k \in Nat : e.dataFromPeerQueue = <<>> \/ k # e.lease =>
             Behind(chan'[s][c], wire'[s][c], k) = Behind(chan[s][c], wire[s][c], k)
      <4> SUFFICES ASSUME NEW k \in Nat, e.dataFromPeerQueue = <<>> \/ k # e.lease
                   PROVE  Behind(chan'[s][c], wire'[s][c], k)
                             = Behind(chan[s][c], wire[s][c], k)
        OBVIOUS
      <4>1. Unread(e, k) = 0 /\ Unread(g, k) = 0
        BY <3>5
      <4>2. dv[k] = dw[k]
        BY <2>3
      <4> QED
        BY <1>12, <4>1, <4>2
    <3>8. Ends(s, c, e, g)
      BY <1>10, <3>2, <3>4, <3>6, <3>7 DEF Ends
    <3> QED
      BY <1>2, <1>9, <1>10, <3>8 DEF Turn, PoolMoves, MovesTo, Apart
  <2> QED
    BY <2>1, <2>4, <2>5
<1> QED
  BY <1>5, <1>14, <1>15, <1>16 DEF Message

\* A message reaches the data channel before the remote wrapper is made.
LEMMA EarlyMoves ==
    ASSUME IInv, LinkInv, NEW c \in Channels, c \notin missed, c \notin missed',
           ArriveEarly(c)
    PROVE  PoolMoves("remote", c)
<1>1. /\ dc["remote"][c] = "opening" /\ wire["remote"][c] # <<>>
      /\ Head(wire["remote"][c]).type # "CLOSE"
      /\ chan' = [chan EXCEPT !["remote"][c] =
                     OnDataFromPeer(chan["remote"][c], Head(wire["remote"][c]))]
      /\ wire' = [wire EXCEPT !["remote"][c] = Tail(wire["remote"][c])]
  BY DEF ArriveEarly, IInv, TypeOK, Sides
<1>2. PICK s \in Sides : s = "remote" /\ Peer(s) = "local" /\ Peer(s) # s
  BY DEF Sides, Peer
<1>3. PICK e \in PoolChannel : e = chan[s][c]
  BY Knows
<1>4. PICK w \in Seq(Message) : w = wire[s][c]
  BY Knows
<1>5. PICK m : m = Head(wire[s][c])
  OBVIOUS
<1>6. /\ e.state = "CLOSED" /\ e.ack = "none" /\ e.onceOpened # "settled"
  BY <1>1, <1>2, <1>3 DEF IInv, WrappedInv, AckInv, AckOwed
<1>7. /\ m \in Message /\ m.lease = e.lease
      /\ m.type = "OPEN" => e.onceOpened = "pending"
      /\ Fewer(Tail(wire[s][c]), wire[s][c], m.type, m.lease)
  BY <1>1, <1>2, <1>3, <1>5, <1>6, MayHear
<1>8. m.type \in {"OPEN", "DATA"} /\ m.lease \in Nat
  BY <1>1, <1>2, <1>5, <1>7 DEF Message
<1>9. PICK g : g = OnDataFromPeer(e, m)
  OBVIOUS
<1>10. /\ g \in PoolChannel /\ g.lease = e.lease
       /\ m.type = "DATA" =>
             /\ g.state = e.state /\ g.onceOpened = e.onceOpened
             /\ g.onceClosed = e.onceClosed /\ g.ack = e.ack
             /\ g.dataFromPeerQueue = Append(e.dataFromPeerQueue, m.lease)
       /\ m.type # "DATA" => g.dataFromPeerQueue = e.dataFromPeerQueue
       /\ m.type = "OPEN" =>
             /\ g.state = e.state /\ g.onceClosed = e.onceClosed
             /\ g.onceOpened = Fulfill(e.onceOpened) /\ g.ack = e.ack
  BY <1>7, <1>9, HearsEffect
<1>11. /\ chan'[s][c] = g /\ chan'[Peer(s)][c] = chan[Peer(s)][c]
       /\ wire'[s][c] = Tail(w) /\ wire'[Peer(s)][c] = wire[Peer(s)][c]
  <2>1. chan' = [chan EXCEPT ![s][c] = g] /\ wire' = [wire EXCEPT ![s][c] = Tail(w)]
    BY <1>1, <1>2, <1>3, <1>4, <1>5, <1>9
  <2> QED
    BY <1>2, <2>1 DEF IInv, TypeOK, Sides
<1>12. Even(Peer(s), c)
  BY <1>11, EvenBy
<1>14. \A k \in Nat :
          /\ Data(wire[s][c], k) \in Nat /\ Data(wire'[s][c], k) \in Nat
          /\ Data(wire[s][c], k) =
                Data(wire'[s][c], k) + OneMore(m.type, m.lease, k)
          /\ Closing(wire[s][c], k) <=>
                Closing(wire'[s][c], k) \/ (m.type = "CLOSE" /\ m.lease = k)
  <2>1. wire[s][c] # <<>> /\ wire'[s][c] = Tail(wire[s][c])
    BY <1>1, <1>2, <1>4, <1>11
  <2>2. HasLost(wire[s][c], wire'[s][c], m.type, m.lease)
    BY <1>7, <2>1, BehindTail
  <2> QED
    BY <2>2 DEF HasLost
<1>15. CASE m.type = "OPEN"
  <2>1. Rests(e, g)
    BY <1>6, <1>7, <1>10, <1>15 DEF Rests, Fulfill
  <2>2. ASSUME NEW k \in Nat
        PROVE  /\ Behind(chan'[s][c], wire'[s][c], k)
                     = Behind(chan[s][c], wire[s][c], k)
               /\ Closing(wire'[s][c], k) <=> Closing(wire[s][c], k)
    <3>1. OneMore(m.type, m.lease, k) = 0
      BY <1>15 DEF OneMore
    <3>2. Data(wire'[s][c], k) = Data(wire[s][c], k)
      BY <1>14, <3>1
    <3>3. Unread(chan'[s][c], k) = Unread(chan[s][c], k)
      BY <1>3, <1>10, <1>11, <1>15 DEF Unread
    <3>4. Closing(wire'[s][c], k) <=> Closing(wire[s][c], k)
      BY <1>14, <1>15
    <3> QED
      BY <3>2, <3>3, <3>4 DEF Behind
  <2>3. Even(s, c)
    BY <2>2 DEF Even
  <2> QED
    BY <1>2, <1>3, <1>10, <1>11, <1>12, <2>1, <2>3 DEF PoolMoves, MovesTo, Apart
<1>16. CASE m.type = "DATA"
  <2>1. PICK q \in Seq(Nat), j \in Nat : q = e.dataFromPeerQueue /\ j = m.lease
    BY <1>8 DEF PoolChannel
  <2>2. Len(Append(q, j)) = Len(q) + 1 /\ Len(q) \in Nat
    OBVIOUS
  <2>3. Len(g.dataFromPeerQueue) = Len(e.dataFromPeerQueue) + 1
    BY <1>10, <1>16, <2>1, <2>2
  <2>4. Grows(e, g)
    BY <1>6, <1>10, <1>16, <2>3 DEF Grows, Alive
  <2>5. ASSUME NEW k \in Nat
        PROVE  /\ Behind(chan'[s][c], wire'[s][c], k)
                     = Behind(chan[s][c], wire[s][c], k)
               /\ Closing(wire'[s][c], k) <=> Closing(wire[s][c], k)
    <3>1. PICK i \in Nat : i = IF e.lease = k THEN 1 ELSE 0
      OBVIOUS
    <3>2. OneMore(m.type, m.lease, k) = i
      BY <1>7, <1>16, <3>1 DEF OneMore
    <3>3. PICK n \in Nat, x \in Nat :
             n = Unread(e, k) /\ x = Data(wire'[s][c], k)
      BY <1>14, <2>1, <2>2 DEF Unread
    <3>4. Unread(g, k) = n + i
      BY <1>10, <2>1, <2>2, <2>3, <3>1, <3>3 DEF Unread
    <3>5. Data(wire[s][c], k) = x + i
      BY <1>14, <3>2, <3>3
    <3>6. Behind(chan'[s][c], wire'[s][c], k) = Behind(chan[s][c], wire[s][c], k)
      BY <1>3, <1>11, <3>1, <3>3, <3>4, <3>5 DEF Behind
    <3>7. Closing(wire'[s][c], k) <=> Closing(wire[s][c], k)
      BY <1>14, <1>16
    <3> QED
      BY <3>6, <3>7
  <2>6. Even(s, c)
    BY <2>5 DEF Even
  <2> QED
    BY <1>2, <1>3, <1>10, <1>11, <1>12, <2>4, <2>6 DEF PoolMoves, MovesTo, Apart
<1> QED
  BY <1>8, <1>15, <1>16

\* The remote wrapper is made, and opens if an OPEN arrived early.
LEMMA OpenedRemoteMoves ==
    ASSUME IInv, LinkInv, NEW c \in Channels, c \notin missed, OpenedRemote(c)
    PROVE  PoolMoves("remote", c)
<1>1. /\ dc["remote"][c] = "opening"
      /\ RunCallbacks("remote", c, chan["remote"][c], wire, pool_)
  BY DEF OpenedRemote
<1>2. PICK s \in Sides : s = "remote"
  BY DEF Sides
<1>3. PICK e \in PoolChannel : e = chan[s][c]
  BY Knows
<1>4. PICK w \in Seq(Message) : w = wire[s][c]
  BY Knows
<1>5. /\ e.state = "CLOSED" /\ e.ack = "none" /\ e.onceOpened # "settled"
      /\ e.onceClosed # "fulfilled"
  BY <1>1, <1>2, <1>3 DEF IInv, WrappedInv, AckInv, AckOwed
<1>6. TaskDone(s, c, e, w)
  <2>1. wire = [wire EXCEPT ![s][c] = w]
    BY <1>4 DEF IInv, TypeOK
  <2> QED
    BY <1>1, <1>2, <1>3, <2>1, TaskEffect
<1>7. /\ chan'[s][c] = Callbacks(e) /\ chan'[s][c] \in PoolChannel
      /\ chan'[Peer(s)][c] = chan[Peer(s)][c] /\ wire'[s][c] = w
      /\ IF AnswerDue(e) /\ ~ Broken(c) THEN Told(Peer(s), c, e.lease)
         ELSE Even(Peer(s), c)
  BY <1>6, TaskTurn
<1>8. Even(Peer(s), c)
  BY <1>5, <1>7 DEF AnswerDue
<1>9. PICK g : g = Callbacks(e)
  OBVIOUS
<1>10. /\ g.ack = e.ack /\ g.dataFromPeerQueue = e.dataFromPeerQueue
       /\ g.lease = e.lease
       /\ g.state = IF e.onceOpened = "fulfilled" THEN "OPEN" ELSE "CLOSED"
       /\ g.onceOpened = IF e.onceOpened = "fulfilled" THEN "settled"
                         ELSE e.onceOpened
  BY <1>5, <1>9, CallbacksEffect
<1>11. Rests(e, g) \/ Opens(e, g)
  BY <1>5, <1>10 DEF Rests, Opens
<1>12. Even(s, c)
  BY <1>3, <1>4, <1>7, <1>9, <1>10, EvenBy
<1> QED
  BY <1>2, <1>3, <1>7, <1>8, <1>9, <1>11, <1>12 DEF PoolMoves, MovesTo, Apart

\* The send of an answer settles, and ends the lease.
LEMMA AckMoves ==
    ASSUME IInv, LinkInv, NEW s \in Sides, NEW c \in Channels, c \notin missed,
           AckSettled(s, c)
    PROVE  PoolMoves(s, c)
<1>1. /\ chan[s][c].ack = "sending"
      /\ RunCallbacks(s, c, [chan[s][c] EXCEPT !.ack = "none",
                                               !.onceClosed = Fulfill(@)],
                      wire, pool_)
  BY DEF AckSettled
<1>2. PICK e \in PoolChannel : e = chan[s][c]
  BY Knows
<1>3. PICK w \in Seq(Message) : w = wire[s][c]
  BY Knows
<1>4. PICK f \in PoolChannel :
         /\ f = [e EXCEPT !.ack = "none", !.onceClosed = Fulfill(@)]
         /\ f.state = e.state /\ f.onceOpened = e.onceOpened
         /\ f.onceClosed = Fulfill(e.onceClosed) /\ f.ack = "none"
         /\ f.dataFromPeerQueue = e.dataFromPeerQueue /\ f.lease = e.lease
  <2>1. LET f == [e EXCEPT !.ack = "none", !.onceClosed = Fulfill(@)]
        IN  /\ f \in PoolChannel
            /\ f.state = e.state /\ f.onceOpened = e.onceOpened
            /\ f.onceClosed = Fulfill(e.onceClosed) /\ f.ack = "none"
            /\ f.dataFromPeerQueue = e.dataFromPeerQueue /\ f.lease = e.lease
    BY DEF PoolChannel, Fulfill, Promise
  <2> QED
    BY <2>1
<1>5. TaskDone(s, c, f, w)
  <2>1. RunCallbacks(s, c, f, wire, pool_)
    BY <1>1, <1>2, <1>4
  <2>2. wire = [wire EXCEPT ![s][c] = w]
    BY <1>3 DEF IInv, TypeOK
  <2> QED
    BY <2>1, <2>2, TaskEffect
<1>6. /\ chan'[s][c] = Callbacks(f) /\ chan'[s][c] \in PoolChannel
      /\ chan'[Peer(s)][c] = chan[Peer(s)][c] /\ wire'[s][c] = w
      /\ IF AnswerDue(f) /\ ~ Broken(c) THEN Told(Peer(s), c, f.lease)
         ELSE Even(Peer(s), c)
  BY <1>5, TaskTurn
<1>7. Even(Peer(s), c)
  BY <1>4, <1>6 DEF AnswerDue
<1>8. PICK g : g = Callbacks(f)
  OBVIOUS
<1>9. EndOK(e) /\ e.state \in {"CLOSING", "PERMANENTLY_CLOSED"}
  <2>1. EndOK(e)
    BY <1>2, Knows DEF LinkOf, Linked, Sides
  <2> QED
    BY <1>1, <1>2, <2>1 DEF EndOK, AckOwed
<1>10. e.onceOpened # "fulfilled"
  <2>1. dc[s][c] # "opening"
    BY <1>2, <1>9 DEF IInv, WrappedInv
  <2> QED
    BY <1>2, <2>1, Knows DEF Around, LinkOf, Linked, Sides
<1>12. CASE Alive(e)
  <2>1. f.onceClosed = "fulfilled" /\ Alive(f)
    BY <1>4, <1>9, <1>12 DEF EndOK, Alive, Fulfill
  <2>2. g = Reset(e.lease + 1)
    BY <1>4, <1>8, <2>1, CallbacksEffect
  <2>3. Resets(e, g)
    BY <1>1, <1>2, <1>9, <1>12, <2>2 DEF Resets, Reset, EndOK, Alive
  <2>4. \A k \in Nat : Data(w, k) \in Nat
    BY DataNat
  <2>5. ASSUME NEW k \in Nat
        PROVE  /\ Unread(g, k) = 0 /\ Unread(e, k) \in Nat
               /\ e.dataFromPeerQueue = <<>> \/ k # e.lease => Unread(e, k) = 0
    BY <2>3 DEF Resets, Unread, PoolChannel
  <2>6. /\ \A k \in Nat : Behind(chan'[s][c], wire'[s][c], k)
                             <= Behind(chan[s][c], wire[s][c], k)
        /\ \A k \in Nat : e.dataFromPeerQueue = <<>> \/ k # e.lease =>
              Behind(chan'[s][c], wire'[s][c], k)
                 = Behind(chan[s][c], wire[s][c], k)
    <3>1. SUFFICES ASSUME NEW k \in Nat
                   PROVE  /\ Behind(chan'[s][c], wire'[s][c], k)
                               <= Behind(chan[s][c], wire[s][c], k)
                          /\ e.dataFromPeerQueue = <<>> \/ k # e.lease =>
                                Behind(chan'[s][c], wire'[s][c], k)
                                   = Behind(chan[s][c], wire[s][c], k)
      OBVIOUS
    <3>2. PICK n \in Nat, x \in Nat : n = Unread(e, k) /\ x = Data(w, k)
      BY <2>4, <2>5
    <3>3. Behind(chan'[s][c], wire'[s][c], k) = x
      BY <1>6, <1>8, <2>5, <3>2 DEF Behind
    <3>4. Behind(chan[s][c], wire[s][c], k) = x + n
      BY <1>2, <1>3, <3>2 DEF Behind
    <3>5. e.dataFromPeerQueue = <<>> \/ k # e.lease => n = 0
      BY <2>5, <3>2
    <3> QED
      BY <3>3, <3>4, <3>5
  <2>7. Less(s, c)
    BY <1>3, <1>6, <2>6 DEF Less
  <2> QED
    BY <1>2, <1>6, <1>7, <1>8, <2>3, <2>6, <2>7 DEF PoolMoves, MovesTo, Apart, Ends
<1>13. CASE ~ Alive(e)
  <2>1. f.onceClosed = "settled" /\ ~ Alive(f)
    BY <1>4, <1>9, <1>13 DEF EndOK, Alive, Fulfill
  <2>2. /\ g.state = e.state /\ g.onceOpened = e.onceOpened /\ g.ack = "none"
        /\ g.dataFromPeerQueue = e.dataFromPeerQueue /\ g.lease = e.lease
    BY <1>4, <1>8, <1>10, <2>1, CallbacksEffect
  <2>3. Rests(e, g)
    BY <1>13, <2>2 DEF Rests
  <2>4. Even(s, c)
    BY <1>2, <1>3, <1>6, <1>8, <2>2, EvenBy
  <2> QED
    BY <1>2, <1>6, <1>7, <1>8, <2>3, <2>4 DEF PoolMoves, MovesTo, Apart
<1> QED
  BY <1>12, <1>13

\* The data channel closes, and what was on its way is lost.
LEMMA ClosedMoves ==
    ASSUME IInv, LinkInv, NEW s \in Sides, NEW c \in Channels, c \notin missed, Closed(s, c)
    PROVE  PoolMoves(s, c)
<1>1. /\ dc[s][c] = "open" /\ dc' = [dc EXCEPT ![s][c] = "closed"]
      /\ RunCallbacks(s, c, [chan[s][c] EXCEPT !.state = "PERMANENTLY_CLOSED",
                                               !.onceClosed = Fulfill(@)],
                      [wire EXCEPT ![s][c] = <<>>], pool_)
  BY DEF Closed
<1>2. PICK e \in PoolChannel : e = chan[s][c]
  BY Knows
<1>3. PICK w \in Seq(Message) : w = wire[s][c]
  BY Knows
<1>4. PICK f \in PoolChannel :
         /\ f = [e EXCEPT !.state = "PERMANENTLY_CLOSED",
                          !.onceClosed = Fulfill(@)]
         /\ f.state = "PERMANENTLY_CLOSED" /\ f.onceOpened = e.onceOpened
         /\ f.onceClosed = Fulfill(e.onceClosed) /\ f.ack = e.ack
         /\ f.dataFromPeerQueue = e.dataFromPeerQueue /\ f.lease = e.lease
  <2>1. LET f == [e EXCEPT !.state = "PERMANENTLY_CLOSED",
                           !.onceClosed = Fulfill(@)]
        IN  /\ f \in PoolChannel
            /\ f.state = "PERMANENTLY_CLOSED" /\ f.onceOpened = e.onceOpened
            /\ f.onceClosed = Fulfill(e.onceClosed) /\ f.ack = e.ack
            /\ f.dataFromPeerQueue = e.dataFromPeerQueue /\ f.lease = e.lease
    BY DEF PoolChannel, Fulfill, Promise, State
  <2> QED
    BY <2>1
<1>5. PICK q \in Seq(Message) : q = <<>>
  <2>1. <<>> \in Seq(Message)
    OBVIOUS
  <2> QED
    BY <2>1
<1>6. \A k : ~ Carries(q, k)
  BY <1>5, EmptyWire
<1>7. TaskDone(s, c, f, q)
  <2>1. PICK v : v = [wire EXCEPT ![s][c] = <<>>]
    OBVIOUS
  <2>2. RunCallbacks(s, c, f, v, pool_)
    BY <1>1, <1>2, <1>4, <2>1
  <2>3. v = [wire EXCEPT ![s][c] = q]
    BY <1>5, <2>1
  <2> QED
    BY <2>2, <2>3, TaskEffect
<1>8. /\ chan'[s][c] = Callbacks(f) /\ chan'[s][c] \in PoolChannel
      /\ chan'[Peer(s)][c] = chan[Peer(s)][c] /\ wire'[s][c] = q
      /\ IF AnswerDue(f) /\ ~ Broken(c) THEN Told(Peer(s), c, f.lease)
         ELSE Even(Peer(s), c)
  BY <1>7, TaskTurn
<1>9. Alive(e) /\ e.onceOpened # "fulfilled"
  BY <1>1, <1>2, Knows DEF Around, LinkOf, Linked, Sides
<1>10. Drained(e) /\ e.onceClosed = "pending"
  BY <1>2, <1>9, Knows DEF Around, LinkOf, Linked, EndOK, Sides
<1>11. ~ AnswerDue(f) /\ f.onceClosed = "fulfilled" /\ ~ Alive(f)
  BY <1>4, <1>9, <1>10 DEF Drained, AnswerDue, Fulfill, Alive
<1>12. PICK g : g = Callbacks(f)
  OBVIOUS
<1>13. /\ g.state = "PERMANENTLY_CLOSED" /\ g.onceOpened = e.onceOpened
       /\ g.dataFromPeerQueue = e.dataFromPeerQueue
       /\ g.ack = e.ack /\ g.lease = e.lease
  BY <1>4, <1>9, <1>11, <1>12, CallbacksEffect DEF AnswerDue
<1>15. Dies(e, g)
  BY <1>13 DEF Dies
<1>16. ASSUME NEW k \in Nat
       PROVE  /\ Behind(chan'[s][c], wire'[s][c], k)
                    <= Behind(chan[s][c], wire[s][c], k)
              /\ ~ Closing(wire'[s][c], k)
  <2>1. Data(q, k) = 0 /\ Data(w, k) \in Nat
    BY <1>6, DataNat
  <2>2. Unread(g, k) = Unread(e, k) /\ Unread(e, k) \in Nat
    BY <1>13 DEF Unread, PoolChannel
  <2>3. PICK n \in Nat, x \in Nat : n = Unread(e, k) /\ x = Data(w, k)
    BY <2>1, <2>2
  <2>4. Behind(chan'[s][c], wire'[s][c], k) <= Behind(chan[s][c], wire[s][c], k)
    BY <1>2, <1>3, <1>8, <1>12, <2>1, <2>2, <2>3 DEF Behind
  <2>5. ~ Closing(q, k)
    BY <1>6, HeldIsCarried DEF Closing
  <2> QED
    BY <1>8, <2>4, <2>5
<1>17. Less(s, c)
  BY <1>16 DEF Less
<1> QED
  BY <1>2, <1>8, <1>11, <1>12, <1>15, <1>16, <1>17
     DEF PoolMoves, MovesTo, Apart, Breaks

\* Every task of the pool moves one end of a channel.
LEMMA TasksMove ==
    ASSUME IInv, LinkInv, PoolTask
    PROVE  \E s \in Sides, c \in Channels :
              Only(c) /\ (c \notin missed \cup missed' => PoolMoves(s, c))
<1>1. "local" \in Sides /\ "remote" \in Sides
  BY DEF Sides
<1>2. CASE OpenPooled \/ OpenNew \/ \E c \in Channels : OpenedLocal(c)
  BY <1>1, <1>2, OpeningMoves
<1>3. ASSUME NEW c \in Channels, ArriveEarly(c) \/ OpenedRemote(c)
      PROVE  Only(c) /\ (c \notin missed \cup missed' => PoolMoves("remote", c))
  BY <1>3, EarlyMoves, OpenedRemoteMoves, OpeningOnly
<1>4. ASSUME NEW s \in Sides, NEW c \in Channels,
             AckSettled(s, c) \/ Closed(s, c)
      PROVE  Only(c) /\ (c \notin missed \cup missed' => PoolMoves(s, c))
  BY <1>4, AckMoves, ClosedMoves, SystemOnly DEF SystemAction
<1> QED
  BY <1>1, <1>2, <1>3, <1>4 DEF PoolTask

-----------------------------------------------------------------------------
(* What the turn of an end does to the sessions of a lease, when no callback *)
(* is waiting to run.                                                        *)

\* What Quiet says of session x of lease k at end e.
Idle(e, x, k) ==
    /\ e.onceOpened = "settled" /\ e.lease = k => x.step # "none"
    /\ x.step # "replying"
    /\ x.step = "linked" => x.queued = 0 /\ x.paused # "handshake"
    /\ x.stop = "no" => /\ x.step # "failed"
                        /\ ~ (x.step = "linked" /\ x.socket = "gone")
                        /\ x.listens # 0 => x.listens >= e.lease
    /\ x.reads = e.lease => e.dataFromPeerQueue = <<>>

Changes(e, e2) ==
    \/ Rests(e, e2) \/ Opens(e, e2) \/ Grows(e, e2)
    \/ Closes(e, e2) \/ Resets(e, e2) \/ Dies(e, e2)

\* An end only changes when its sessions are idle; where it closes, none needs
\* the lease any more.
LEMMA OwnKept ==
    ASSUME NEW s \in Sides, NEW e \in PoolChannel, NEW e2 \in PoolChannel,
           NEW x \in Session, NEW k \in Nat \ {0}, NEW o,
           Own(s, e, x, k, o), Idle(e, x, k), EndOK(e), Changes(e, e2),
           Closes(e, e2) /\ e.lease = k => x.step \notin Busy(s)
    PROVE  Own(s, e2, x, k, o)
<1>1. /\ e.lease \in Nat /\ e2.lease \in Nat
      /\ e.state \in State /\ e2.state \in State
      /\ e.onceOpened \in Promise /\ e2.onceOpened \in Promise
      /\ e.ack \in {"none", "draining", "sending"}
      /\ Alive(e) => (e.state = "CLOSED" <=> e.onceOpened # "settled")
  BY DEF PoolChannel, EndOK
<1>2. /\ Begun(e, x, k) /\ Holding(s, e, x, k) /\ Hearing(s, e, x, k)
      /\ Reader(s, e, x, k) /\ Levelled(e, x, k, o) /\ Shaped(s, x)
  BY DEF Own
<1>3. Begun(e2, x, k)
  BY <1>1, <1>2 DEF Begun, Held, Idle, Changes, Rests, Opens, Grows, Closes,
     Resets, Dies, State, Promise, Alive
<1>4. x.listens # 0 => x.listens = k /\ Listens(s, x)
  BY <1>2 DEF Hearing
<1>5. x.listens # 0 /\ x.stop = "no" => e.lease = k
  BY <1>1, <1>2, <1>4 DEF Hearing, Idle, JustLeft
<1>6. x.stop = "no" /\ x.listens # 0 => x.socket # "gone"
  BY <1>2, <1>4 DEF Shaped, Idle, Listens, SocksStep, RtcStep, Sides
<1>7. Holding(s, e2, x, k)
  <2>1. x.step \in Busy(s) => Held(e2, k)
    BY <1>1, <1>2 DEF Holding, Held, Changes, Rests, Opens, Grows, Closes,
       Resets, Dies, State, Promise
  <2>2. ~ (x.step = "failed" /\ x.stop = "no")
    BY DEF Idle
  <2>3. x.step = "linked" => ~ (x.queued > 0) /\ x.paused # "handshake"
    BY DEF Idle, Session
  <2> QED
    BY <1>6, <2>1, <2>2, <2>3 DEF Holding
<1>8. Hearing(s, e2, x, k)
  <2>1. x.listens # 0 /\ x.stop = "no" => e2.lease = k \/ JustLeft(e2, k)
    BY <1>1, <1>5 DEF JustLeft, Changes, Rests, Opens, Grows, Closes, Resets, Dies
  <2>2. x.step # "none" /\ x.stop = "no" /\ e2.lease = k /\ e2.state = "CLOSING"
           => e2.ack # "none"
    BY <1>1, <1>2 DEF Hearing, Changes, Rests, Opens, Grows, Closes, Resets, Dies,
       Alive
  <2>3. x.stop = "channelClosed" => k < e2.lease \/ ~ Alive(e2)
    BY <1>1, <1>2 DEF Hearing, Changes, Rests, Opens, Grows, Closes, Resets, Dies,
       Alive
  <2>4. x.stop # "no" => k < e2.lease \/ e2.state # "OPEN"
    <3>1. x.stop # "no" => k < e.lease \/ (e.onceOpened = "settled" /\ e.state # "OPEN")
      BY <1>2 DEF Begun, Hearing, NoSession
    <3> QED
      BY <1>1, <3>1 DEF Changes, Rests, Opens, Grows, Closes, Resets, Dies
  <2> QED
    BY <1>2, <2>1, <2>2, <2>3, <2>4 DEF Hearing
<1>9. Reader(s, e2, x, k)
  <2>1. x.reads = k /\ e2.lease = k /\ Alive(e2) =>
           e2.ack # "draining" \/ (s = "local" /\ x.step = "linked")
    BY <1>1, <1>2 DEF Reader, Idle, Changes, Rests, Opens, Grows, Closes, Resets,
       Dies, Alive
  <2> QED
    BY <1>2, <2>1 DEF Reader
<1>10. Levelled(e2, x, k, o)
  <2>1. x.step = "linked" /\ e2.lease = k => e.lease = k
    BY <1>1, <1>2 DEF Begun, Changes, Rests, Opens, Grows, Closes, Resets, Dies
  <2> QED
    BY <1>2, <2>1 DEF Levelled
<1> QED
  BY <1>2, <1>3, <1>7, <1>8, <1>9, <1>10 DEF Own

\* An end that sends its answer has read all.
LEMMA ReadAllKept ==
    ASSUME NEW e, NEW e2, ReadAll(e), Changes(e, e2)
    PROVE  ReadAll(e2)
BY DEF ReadAll, Changes, Rests, Opens, Grows, Closes, Resets, Dies, Alive

\* What the handshake says of the channel stays true when the remote end
\* changes.
LEMMA RemoteCrosses ==
    ASSUME NEW L \in PoolChannel, NEW R \in PoolChannel, NEW R2 \in PoolChannel,
           NEW a \in Session, NEW b \in Session, NEW fl, NEW fr,
           NEW nl \in Nat, NEW nr \in Nat, NEW nr2 \in Nat, NEW k \in Nat,
           NEW cl \in BOOLEAN, NEW cl2 \in BOOLEAN,
           NEW cr \in BOOLEAN, NEW cr2 \in BOOLEAN,
           Crossing(L, R, a, b, fl, fr, nl, nr, cl, cr, k), Changes(R, R2),
           nr2 <= nr, cr2 => cr, Dies(R, R2) => ~ cr2,
           cl2 => cl \/ ~ Unclosed(L, k)
    PROVE  Crossing(L, R2, a, b, fl, fr, nl, nr2, cl2, cr2, k)
<1>1. L.lease \in Nat /\ R2.lease \in Nat /\ R.lease \in Nat
  BY DEF PoolChannel
<1>2. Alive(R2) => Alive(R)
  BY DEF Changes, Rests, Opens, Grows, Closes, Resets, Dies, Alive
<1>3. cr2 /\ Unclosed(R2, k) => fr = "none" \/ fl = "taken"
  <2>1. Unclosed(R2, k) => Unclosed(R, k) \/ Dies(R, R2)
    BY <1>1 DEF Changes, Rests, Opens, Grows, Closes, Resets, Dies, Unclosed
  <2> QED
    BY <2>1 DEF Crossing
<1>4. cl2 /\ Unclosed(L, k) => fl # "none"
  BY DEF Crossing
<1>5. a.reply # "SUCCEEDED" =>
         b.got = 0 /\ nr2 <= (IF fr \in {"none", "taken"} THEN 0 ELSE 1)
  <2>1. PICK i \in Nat : i = IF fr \in {"none", "taken"} THEN 0 ELSE 1
    OBVIOUS
  <2>2. a.reply # "SUCCEEDED" => b.got = 0 /\ nr <= i
    BY <2>1 DEF Crossing
  <2> QED
    BY <2>1, <2>2
<1> QED
  BY <1>2, <1>3, <1>4, <1>5 DEF Crossing

\* The accounts stay exact when either end changes: what an end that finishes
\* a lease leaves unread is no longer waited for.
LEMMA SenderExact ==
    ASSUME NEW e, NEW e2, NEW p, NEW x, NEW y, NEW f, NEW n,
           Exact(e, p, x, y, f, n), Changes(e, e2)
    PROVE  Exact(e2, p, x, y, f, n)
<1>1. Alive(e2) => Alive(e)
  BY DEF Changes, Rests, Opens, Grows, Closes, Resets, Dies, Alive
<1> QED
  BY <1>1 DEF Exact

\* The accounts stay exact when the end that receives takes its turn.
LEMMA ReceiverExact ==
    ASSUME NEW s \in Sides, NEW p \in PoolChannel, NEW p2 \in PoolChannel, NEW e,
           NEW x \in Session, NEW y \in Session, NEW f, NEW o,
           NEW k \in Nat, NEW n, NEW n2,
           Exact(e, p, x, y, f, n), Own(s, p, y, k, o), Idle(p, y, k),
           Changes(p, p2), EndOK(p), ReadAll(p),
           \/ n2 = n \/ Dies(p, p2)
           \/ /\ Resets(p, p2)
              /\ p.dataFromPeerQueue = <<>> \/ k # p.lease => n2 = n
    PROVE  Exact(e, p2, x, y, f, n2)
<1>1. Alive(p2) => Alive(p)
  BY DEF Changes, Rests, Opens, Grows, Closes, Resets, Dies, Alive
<1>2. CASE Dies(p, p2)
  BY <1>2 DEF Dies, Exact, Alive
<1>3. CASE n2 = n
  BY <1>1, <1>3 DEF Exact
<1>4. CASE Resets(p, p2) /\ p.dataFromPeerQueue # <<>> /\ k = p.lease
  <2>1. y.reads # k
    BY <1>4 DEF Idle
  <2>2. y.step \notin Reads(s)
    BY <2>1 DEF Own, Reader
  <2>3. ~ Held(p, k)
    BY <1>4 DEF Resets, Held
  <2>4. y.step \notin Busy(s) /\ y.step # "none"
    BY <1>4, <2>3 DEF Own, Holding, Idle, Resets
  <2>5. y.stop # "channelClosed"
    BY <1>4 DEF Own, Hearing, Resets, Alive, PoolChannel
  <2>6. ~ (y.step = "failed" /\ y.stop = "no")
    BY DEF Idle
  <2>7. y.step # "answering"
    <3> SUFFICES ASSUME y.step = "answering" PROVE FALSE
      OBVIOUS
    <3>1. s = "local" /\ y.stop = "no"
      BY DEF Own, Hearing, Shaped, RtcStep, Sides
    <3>2. p.ack # "none"
      BY <1>4, <3>1 DEF Own, Hearing, Resets
    <3> QED
      BY <1>4, <3>2 DEF ReadAll, Resets, Alive, PoolChannel
  <2>8. y.step \in {"failed", "unanswered"}
    BY <2>2, <2>4, <2>7 DEF Own, Shaped, Reads, Busy, SocksStep, RtcStep, Sides
  <2>9. ~ Waits(y)
    BY <2>5, <2>6, <2>8 DEF Waits, Own, Shaped
  <2> QED
    BY <2>9 DEF Exact
<1> QED
  BY <1>2, <1>3, <1>4

\* Who closes had stopped by itself, as seen from an end that changes, and
\* from the other one.
LEMMA GoodbyeKept ==
    ASSUME NEW e \in PoolChannel, NEW e2 \in PoolChannel, NEW y,
           NEW cl \in BOOLEAN, NEW cl2 \in BOOLEAN, NEW k \in Nat,
           Goodbye(e, y, cl, k), Changes(e, e2), cl2 => cl,
           Dies(e, e2) => ~ cl2, Closes(e, e2) /\ k = e.lease => cl
    PROVE  Goodbye(e2, y, cl2, k)
<1>1. e.lease \in Nat /\ e2.lease \in Nat
  BY DEF PoolChannel
<1>2. Unclosed(e2, k) => Unclosed(e, k) \/ Dies(e, e2)
  BY <1>1 DEF Changes, Rests, Opens, Grows, Closes, Resets, Dies, Unclosed
<1>3. e2.lease = k /\ e2.ack # "none" =>
         e.lease = k /\ (e.ack # "none" \/ (cl /\ Unclosed(e, k)))
  BY <1>1 DEF Changes, Rests, Opens, Grows, Closes, Resets, Dies, Unclosed
<1> QED
  BY <1>2, <1>3 DEF Goodbye

\* A promise of no more data stays true when the wire only loses a CLOSE.
LEMMA GoodbyeTold ==
    ASSUME NEW p, NEW x, NEW cl, NEW cl2, NEW k, Goodbye(p, x, cl, k),
           cl2 => cl \/ ~ Unclosed(p, k)
    PROVE  Goodbye(p, x, cl2, k)
BY DEF Goodbye

-----------------------------------------------------------------------------
(* A turn and the story of a lease. *)

\* What is behind end s of channel c for lease k, and whether a CLOSE is.
BehindOf(s, c, k) == Behind(chan[s][c], wire[s][c], k)

BehindNow(s, c, k) == Behind(chan'[s][c], wire'[s][c], k)

\* A dead end has an empty wire.
LEMMA DeadHearsNothing ==
    ASSUME IInv, LinkInv, NEW s \in Sides, NEW c \in Channels, c \notin missed,
           ~ Alive(chan[s][c]), NEW k \in Nat
    PROVE  ~ Closing(wire[s][c], k)
<1>1. LinkOf(c)
  BY Knows
<1>2. ~ Carries(wire[s][c], k)
  BY <1>1 DEF LinkOf, Linked, ToLocal, ToRemote, Sides, Alive
<1> QED
  BY <1>2, HeldIsCarried DEF Closing

\* How much is behind an end is a number.
LEMMA BehindNat ==
    ASSUME NEW e \in PoolChannel, NEW w \in Seq(Message), NEW k
    PROVE  /\ Unread(e, k) \in Nat /\ Behind(e, w, k) \in Nat
           /\ Closing(w, k) \in BOOLEAN
<1>1. Unread(e, k) \in Nat
  BY DEF Unread, PoolChannel
<1>2. PICK n \in Nat, x \in Nat : n = Unread(e, k) /\ x = Data(w, k)
  BY <1>1, DataNat
<1> QED
  BY <1>1, <1>2 DEF Behind, Closing, Holds

\* A CLOSE that finds its end open comes from a peer that is closing: so the
\* answer, if the end has one at once, finds the peer closing.
LEMMA PeerIsClosing ==
    ASSUME IInv, LinkInv, NEW s \in Sides, NEW c \in Channels, c \notin missed,
           chan[s][c].state = "OPEN", Closing(wire[s][c], chan[s][c].lease),
           ~ Broken(c)
    PROVE  ~ Unclosed(chan[Peer(s)][c], chan[s][c].lease)
<1>1. PICK L \in PoolChannel, R \in PoolChannel :
         L = chan["local"][c] /\ R = chan["remote"][c]
  BY Knows
<1>2. PICK wL \in Seq(Message), wR \in Seq(Message) :
         wL = wire["local"][c] /\ wR = wire["remote"][c]
  BY Knows
<1>3. Joint(L, R, wL, wR) /\ L.lease \in Nat /\ R.lease \in Nat
  BY <1>1, <1>2, Knows DEF LinkOf, Linked, PoolChannel
<1>4. \A w, t, k : Holds(w, t, k) => Carries(w, k)
  BY HeldIsCarried
<1>5. CASE s = "local"
  <2>1. L.state = "OPEN" /\ Holds(wL, "CLOSE", L.lease) /\ Peer(s) = "remote"
    BY <1>1, <1>2, <1>5 DEF Closing, Peer
  <2>2. ~ Unclosed(R, L.lease)
    BY <1>3, <1>4, <2>1 DEF Joint, SameLease, LocalAhead, RemoteAhead,
       SentClose, Unclosed
  <2> QED
    BY <1>1, <1>5, <2>1, <2>2
<1>6. CASE s = "remote"
  <2>1. R.state = "OPEN" /\ Holds(wR, "CLOSE", R.lease) /\ Peer(s) = "local"
    BY <1>1, <1>2, <1>6 DEF Closing, Peer
  <2>2. ~ Unclosed(L, R.lease)
    BY <1>3, <1>4, <2>1 DEF Joint, SameLease, LocalAhead, RemoteAhead,
       SentClose, Unclosed
  <2> QED
    BY <1>1, <1>6, <2>1, <2>2
<1> QED
  BY <1>5, <1>6 DEF Sides

\* What a turn of end s does, as far as lease k goes: at that end,
TurnHere(s, c, k) ==
    LET e == chan[s][c]
        f == chan'[s][c]
    IN  /\ e \in PoolChannel /\ f \in PoolChannel /\ EndOK(e) /\ Changes(e, f)
        /\ BehindOf(s, c, k) \in Nat /\ BehindNow(s, c, k) \in Nat
        /\ BehindNow(s, c, k) <= BehindOf(s, c, k)
        /\ \/ BehindNow(s, c, k) = BehindOf(s, c, k) \/ Dies(e, f)
           \/ /\ Resets(e, f)
              /\ e.dataFromPeerQueue = <<>> \/ k # e.lease =>
                    BehindNow(s, c, k) = BehindOf(s, c, k)
        /\ Closing(wire'[s][c], k) => Closing(wire[s][c], k)
        /\ Dies(e, f) => ~ Closing(wire'[s][c], k)
        /\ Closes(e, f) /\ k = e.lease =>
              Closing(wire[s][c], k) /\ Data(wire[s][c], k) = 0

\* at the other one,
TurnThere(s, c, k) ==
    /\ chan'[Peer(s)][c] = chan[Peer(s)][c]
    /\ BehindNow(Peer(s), c, k) = BehindOf(Peer(s), c, k)
    /\ Closing(wire'[Peer(s)][c], k) =>
          Closing(wire[Peer(s)][c], k) \/ ~ Unclosed(chan[Peer(s)][c], k)

\* and to the types.
TurnTyped(s, c, k) ==
    /\ BehindOf(Peer(s), c, k) \in Nat
    /\ Closing(wire[s][c], k) \in BOOLEAN /\ Closing(wire'[s][c], k) \in BOOLEAN
    /\ Closing(wire[Peer(s)][c], k) \in BOOLEAN
    /\ Closing(wire'[Peer(s)][c], k) \in BOOLEAN

\* A turn does this to the end that takes it, whatever session looks on,
LEMMA TurnsHere ==
    ASSUME IInv, IInv', LinkInv, NEW s \in Sides, NEW c \in Channels, c \notin missed,
           NEW k \in Nat, Turn(s, c)
    PROVE  TurnHere(s, c, k)
<1>1. /\ chan[s][c] \in PoolChannel /\ chan'[s][c] \in PoolChannel
      /\ wire[s][c] \in Seq(Message) /\ wire'[s][c] \in Seq(Message)
  BY DEF IInv, TypeOK
<1>2. EndOK(chan[s][c])
  BY Knows DEF LinkOf, Linked, Sides
<1>3. BehindOf(s, c, k) \in Nat /\ BehindNow(s, c, k) \in Nat
  BY <1>1, BehindNat DEF BehindOf, BehindNow
<1>4. PICK n \in Nat, n2 \in Nat : n = BehindOf(s, c, k) /\ n2 = BehindNow(s, c, k)
  BY <1>3
<1>5. PICK e \in PoolChannel, f \in PoolChannel : e = chan[s][c] /\ f = chan'[s][c]
  BY <1>1
<1>6. CASE /\ Rests(e, f) \/ Opens(e, f) \/ Grows(e, f)
           /\ Even(s, c)
  <2>1. n2 = n /\ (Closing(wire'[s][c], k) <=> Closing(wire[s][c], k))
    BY <1>4, <1>6 DEF Even, BehindOf, BehindNow
  <2>2. Dies(e, f) => ~ Alive(e)
    BY <1>6 DEF Rests, Opens, Grows, Dies, Alive
  <2>3. Dies(e, f) => ~ Closing(wire'[s][c], k)
    BY <1>5, <2>1, <2>2, DeadHearsNothing
  <2>4. ~ Closes(e, f)
    BY <1>6 DEF Rests, Opens, Grows, Closes
  <2> QED
    BY <1>2, <1>4, <1>5, <1>6, <2>1, <2>3, <2>4 DEF TurnHere, Changes
<1>7. CASE Hears(s, c, e, f)
  <2>1. n2 = n /\ (Closing(wire'[s][c], k) => Closing(wire[s][c], k))
    BY <1>4, <1>7 DEF Hears, Less, BehindOf, BehindNow
  <2>2. Closes(e, f) /\ ~ Dies(e, f)
    BY <1>7 DEF Hears, Closes, Dies
  <2>3. k = e.lease => Closing(wire[s][c], k) /\ Data(wire[s][c], k) = 0
    BY <1>7 DEF Hears
  <2> QED
    BY <1>2, <1>4, <1>5, <2>1, <2>2, <2>3 DEF TurnHere, Changes
<1>8. CASE Ends(s, c, e, f)
  <2>1. /\ n2 <= n /\ (Closing(wire'[s][c], k) => Closing(wire[s][c], k))
        /\ e.dataFromPeerQueue = <<>> \/ k # e.lease => n2 = n
    BY <1>4, <1>8 DEF Ends, Less, BehindOf, BehindNow
  <2>2. Resets(e, f) /\ ~ Dies(e, f) /\ ~ Closes(e, f)
    BY <1>8 DEF Ends, Resets, Dies, Closes
  <2> QED
    BY <1>2, <1>4, <1>5, <2>1, <2>2 DEF TurnHere, Changes
<1>9. CASE Breaks(s, c, e, f)
  <2>1. n2 <= n /\ ~ Closing(wire'[s][c], k)
    BY <1>4, <1>9 DEF Breaks, Less, BehindOf, BehindNow
  <2>2. Dies(e, f) /\ ~ Closes(e, f)
    BY <1>9 DEF Breaks, Dies, Closes
  <2> QED
    BY <1>2, <1>4, <1>5, <2>1, <2>2 DEF TurnHere, Changes
<1> QED
  BY <1>5, <1>6, <1>7, <1>8, <1>9 DEF Turn, PoolMoves, MovesTo

\* and this to the other end.
LEMMA TurnsThere ==
    ASSUME IInv, IInv', LinkInv, NEW s \in Sides, NEW c \in Channels, c \notin missed,
           NEW k \in Nat, Turn(s, c)
    PROVE  TurnThere(s, c, k) /\ TurnTyped(s, c, k)
<1>1. PICK p \in Sides : p = Peer(s)
  BY DEF Sides, Peer
<1>2. TurnTyped(s, c, k)
  <2>1. \A t \in Sides : /\ chan[t][c] \in PoolChannel
                         /\ wire[t][c] \in Seq(Message)
                         /\ wire'[t][c] \in Seq(Message)
    BY DEF IInv, TypeOK
  <2>2. \A t \in Sides : /\ BehindOf(t, c, k) \in Nat
                         /\ Closing(wire[t][c], k) \in BOOLEAN
                         /\ Closing(wire'[t][c], k) \in BOOLEAN
    BY <2>1, BehindNat DEF BehindOf
  <2> QED
    BY <1>1, <2>2 DEF TurnTyped
<1>3. chan'[Peer(s)][c] = chan[Peer(s)][c]
  BY DEF Turn, PoolMoves, Apart
<1>4. CASE Even(Peer(s), c)
  BY <1>2, <1>3, <1>4 DEF Even, TurnThere, BehindOf, BehindNow
<1>5. CASE Hears(s, c, chan[s][c], chan'[s][c]) /\ ~ Even(Peer(s), c)
  <2>1. Told(Peer(s), c, chan[s][c].lease) /\ ~ Broken(c)
    BY <1>5 DEF Hears
  <2>2. ~ Unclosed(chan[Peer(s)][c], chan[s][c].lease)
    BY <1>5, <2>1, PeerIsClosing DEF Hears, Closes
  <2> QED
    BY <1>2, <1>3, <2>1, <2>2 DEF Told, TurnThere, BehindOf, BehindNow
<1> QED
  BY <1>2, <1>4, <1>5 DEF Turn, PoolMoves, MovesTo, Ends, Breaks

\* Quiet, of one session.
LEMMA QuietIsIdle ==
    ASSUME SessionsTypeOK, Quiet, NEW s \in Sides, NEW c \in Channels,
           NEW k \in Leases
    PROVE  Idle(chan[s][c], session[s][c][k], k)
<1>1. PICK e \in PoolChannel : e = chan[s][c]
  BY DEF SessionsTypeOK, TypeOK
<1>2. PICK x \in Session : x = session[s][c][k]
  BY DEF SessionsTypeOK
<1>3. /\ e.onceOpened = "settled" /\ e.lease = k => x.step # "none"
      /\ x.step # "replying"
      /\ x.step = "linked" => x.queued = 0 /\ x.paused # "handshake"
      /\ Due(s, c, k) = {}
      /\ x.reads = e.lease => e.dataFromPeerQueue = <<>>
  BY <1>1, <1>2 DEF Quiet
<1>4. ASSUME x.stop = "no"
      PROVE  /\ x.step # "failed"
             /\ ~ (x.step = "linked" /\ x.socket = "gone")
             /\ x.listens # 0 => x.listens >= e.lease
  <2>1. x.step # "failed"
    <3>1. "failed" \notin Due(s, c, k)
      BY <1>3
    <3> QED
      BY <1>2, <1>4, <3>1 DEF Due
  <2>2. ~ (x.step = "linked" /\ x.socket = "gone")
    <3>1. "socketClosed" \notin Due(s, c, k)
      BY <1>3
    <3> QED
      BY <1>2, <1>3, <1>4, <3>1 DEF Due
  <2>3. x.listens # 0 => ~ (x.listens < e.lease)
    <3>1. "channelClosed" \notin Due(s, c, k)
      BY <1>3
    <3> QED
      BY <1>1, <1>2, <1>4, <3>1 DEF Due
  <2>4. x.listens \in Nat /\ e.lease \in Nat
    BY DEF Session, PoolChannel
  <2> QED
    BY <2>1, <2>2, <2>3, <2>4
<1> QED
  BY <1>1, <1>2, <1>3, <1>4 DEF Idle

\* Who hears a CLOSE in an open lease has no use for it any more: at the local
\* end, if its request is not being sent,
LEMMA LocalCloseIsLate ==
    ASSUME NEW L \in PoolChannel, NEW R, NEW a \in Session, NEW b \in Session,
           NEW fl, NEW fr, NEW nl \in Nat, NEW nr, NEW cr, NEW k \in Nat, NEW o,
           Handshake(a, b, fl, fr), Crossing(L, R, a, b, fl, fr, nl, nr, TRUE, cr, k),
           L.state = "OPEN", L.lease = k, nl = Unread(L, k),
           Own("local", L, a, k, o), Idle(L, a, k), a.step # "sending"
    PROVE  a.step \notin Busy("local")
<1>1. fl # "none"
  BY DEF Crossing, Unclosed
<1>2. a.step \notin Before
  BY <1>1 DEF Handshake
<1>3. a.step # "awaiting"
  <2> SUFFICES ASSUME a.step = "awaiting" PROVE FALSE
    OBVIOUS
  <2>1. fl # "taken"
    BY DEF Handshake, Waiting
  <2>2. nl > 0
    BY <1>1, <2>1 DEF Crossing, Alive
  <2>3. a.reads = L.lease
    BY DEF Own, Reader, Reads
  <2>4. L.dataFromPeerQueue = <<>>
    BY <2>3 DEF Idle
  <2> QED
    BY <2>2, <2>4 DEF Unread
<1> QED
  BY <1>2, <1>3 DEF Busy, Before

\* at the remote end always.
LEMMA RemoteCloseIsLate ==
    ASSUME NEW L, NEW R \in PoolChannel, NEW a \in Session, NEW b \in Session,
           NEW fl, NEW fr, NEW nl, NEW nr, NEW cl, NEW k \in Nat,
           Handshake(a, b, fl, fr), Crossing(L, R, a, b, fl, fr, nl, nr, cl, TRUE, k),
           R.state = "OPEN", R.lease = k
    PROVE  b.step \notin Busy("remote")
BY DEF Handshake, Crossing, Unclosed, Busy

\* The guard on what may arrive while a send has not settled.
Ready(s, c) ==
    Closes(chan[s][c], chan'[s][c]) /\ s = "local" =>
        \A k \in Leases : session[s][c][k].step # "sending"

\* The types of what a story is about.
LEMMA StoryTyped ==
    ASSUME SessionsTypeOK, NEW c \in Channels, Kept(c), NEW k \in Leases
    PROVE  /\ k \in Nat \ {0}
           /\ \A t \in Sides : /\ chan[t][c] \in PoolChannel
                               /\ wire[t][c] \in Seq(Message)
                               /\ session[t][c][k] \in Session
                               /\ BehindOf(t, c, k) \in Nat
                               /\ Closing(wire[t][c], k) \in BOOLEAN
                               /\ OwnOf(t, c, k) /\ ExactOf(t, c, k)
                               /\ GoodbyeOf(t, c, k) /\ ReadAll(chan[t][c])
           /\ TalkOf(c, k)
<1>1. k \in Nat \ {0}
  BY PoolAssumption DEF Leases
<1>2. ASSUME NEW t \in Sides
      PROVE  /\ chan[t][c] \in PoolChannel /\ wire[t][c] \in Seq(Message)
             /\ session[t][c][k] \in Session
  BY DEF Kept, SessionsTypeOK, TypeOK
<1>3. ASSUME NEW t \in Sides
      PROVE  BehindOf(t, c, k) \in Nat /\ Closing(wire[t][c], k) \in BOOLEAN
  BY <1>2, BehindNat DEF BehindOf
<1>4. Story(c, k) /\ \A t \in Sides : ReadAll(chan[t][c])
  BY DEF Kept
<1> QED
  BY <1>1, <1>2, <1>3, <1>4 DEF Story

\* The turn of an end keeps what its own session relies on, and the other's.
LEMMA OwnTurns ==
    ASSUME IInv, IInv', LinkInv, SessionsTypeOK, Quiet, NEW s \in Sides,
           NEW c \in Channels, c \notin missed, Kept(c), NEW k \in Leases, Turn(s, c),
           Ready(s, c),
           UNCHANGED <<session, first, overflow>>
    PROVE  \A t \in Sides : OwnOf(t, c, k)'
<1>1. /\ k \in Nat \ {0}
      /\ \A t \in Sides : /\ chan[t][c] \in PoolChannel
                          /\ wire[t][c] \in Seq(Message)
                          /\ session[t][c][k] \in Session
                          /\ BehindOf(t, c, k) \in Nat
                          /\ Closing(wire[t][c], k) \in BOOLEAN
                          /\ OwnOf(t, c, k) /\ ExactOf(t, c, k)
                          /\ GoodbyeOf(t, c, k) /\ ReadAll(chan[t][c])
      /\ TalkOf(c, k)
  BY StoryTyped
<1>2. TurnHere(s, c, k) /\ TurnThere(s, c, k)
  BY <1>1, TurnsHere, TurnsThere
<1>3. PICK e \in PoolChannel, f \in PoolChannel :
         e = chan[s][c] /\ f = chan'[s][c]
  BY <1>2 DEF TurnHere
<1>4. PICK x \in Session : x = session[s][c][k]
  BY <1>1
<1>5. Idle(e, x, k)
  BY <1>3, <1>4, QuietIsIdle DEF Kept
<1>6. Closes(e, f) /\ e.lease = k => x.step \notin Busy(s)
  <2> SUFFICES ASSUME Closes(e, f), e.lease = k PROVE x.step \notin Busy(s)
    OBVIOUS
  <2>1. e.state = "OPEN" /\ Closing(wire[s][c], k) /\ Data(wire[s][c], k) = 0
    BY <1>2, <1>3 DEF TurnHere, Closes
  <2>2. BehindOf(s, c, k) = Unread(e, k)
    <3>1. Unread(e, k) \in Nat
      BY DEF Unread, PoolChannel
    <3> QED
      BY <1>3, <2>1, <3>1 DEF BehindOf, Behind
  <2>3. CASE s = "local"
    <3>1. x.step # "sending"
      BY <1>3, <1>4, <2>3 DEF Ready
    <3>0. PICK b \in Session, nl \in Nat :
             b = session["remote"][c][k] /\ nl = BehindOf("local", c, k)
      BY <1>1 DEF Sides
    <3>2. PICK R, nr, cr, fl, fr, o :
             /\ R = chan["remote"][c] /\ nr = BehindOf("remote", c, k)
             /\ cr = Closing(wire["remote"][c], k)
             /\ fl = first["local"][c][k] /\ fr = first["remote"][c][k]
             /\ o = overflow["local"][c]
      BY <1>1 DEF Sides
    <3>3. /\ Handshake(x, b, fl, fr)
          /\ Crossing(e, R, x, b, fl, fr, nl, nr, TRUE, cr, k)
          /\ Own("local", e, x, k, o)
      BY <1>1, <1>3, <1>4, <2>1, <2>3, <3>0, <3>2 DEF TalkOf, OwnOf, BehindOf, Closing
    <3>4. e.lease = k /\ nl = Unread(e, k) /\ k \in Nat
      BY <1>1, <2>2, <2>3, <3>0
    <3>5. x.step \notin Busy("local")
      BY <1>5, <2>1, <3>1, <3>3, <3>4, LocalCloseIsLate
    <3> QED
      BY <2>3, <3>5
  <2>4. CASE s = "remote"
    <3>0. PICK a \in Session : a = session["local"][c][k]
      BY <1>1 DEF Sides
    <3>2. PICK L, nl, nr, cl, fl, fr :
             /\ L = chan["local"][c]
             /\ nr = BehindOf("remote", c, k) /\ nl = BehindOf("local", c, k)
             /\ cl = Closing(wire["local"][c], k)
             /\ fl = first["local"][c][k] /\ fr = first["remote"][c][k]
      BY <1>1 DEF Sides
    <3>3. /\ Handshake(a, x, fl, fr)
          /\ Crossing(L, e, a, x, fl, fr, nl, nr, cl, TRUE, k)
      BY <1>1, <1>3, <1>4, <2>1, <2>4, <3>0, <3>2 DEF TalkOf, BehindOf, Closing
    <3> QED
      BY <1>1, <2>1, <2>4, <3>3, RemoteCloseIsLate
  <2> QED
    BY <2>3, <2>4 DEF Sides
<1>7. PICK o : o = overflow[s][c]
  OBVIOUS
<1>8. Own(s, f, x, k, o)
  <2>1. Own(s, e, x, k, o) /\ Changes(e, f) /\ EndOK(e)
    BY <1>1, <1>2, <1>3, <1>4, <1>7 DEF OwnOf, TurnHere
  <2> QED
    BY <1>1, <1>5, <1>6, <2>1, OwnKept
<1>9. OwnOf(s, c, k)'
  BY <1>3, <1>4, <1>7, <1>8 DEF OwnOf
<1>10. OwnOf(Peer(s), c, k)'
  BY <1>1, <1>2 DEF OwnOf, TurnThere, Peer, Sides
<1> QED
  BY <1>9, <1>10 DEF Peer, Sides

\* It keeps the handshake in step with the channel,
LEMMA TalkTurns ==
    ASSUME IInv, IInv', LinkInv, LinkInv', SessionsTypeOK, NEW s \in Sides,
           NEW c \in Channels, c \notin missed, c \notin missed', Kept(c),
           NEW k \in Leases, Turn(s, c),
           UNCHANGED <<session, first, overflow>>
    PROVE  TalkOf(c, k)'
<1>1. /\ k \in Nat \ {0}
      /\ \A t \in Sides : /\ chan[t][c] \in PoolChannel
                          /\ session[t][c][k] \in Session
                          /\ BehindOf(t, c, k) \in Nat
                          /\ Closing(wire[t][c], k) \in BOOLEAN
                          /\ OwnOf(t, c, k)
      /\ TalkOf(c, k)
  BY StoryTyped
<1>2. TurnHere(s, c, k) /\ TurnThere(s, c, k) /\ TurnTyped(s, c, k)
  BY <1>1, TurnsHere, TurnsThere
<1>3. PICK L \in PoolChannel, R \in PoolChannel :
         L = chan["local"][c] /\ R = chan["remote"][c]
  BY <1>1 DEF Sides
<1>4. PICK a \in Session, b \in Session :
         a = session["local"][c][k] /\ b = session["remote"][c][k]
  BY <1>1 DEF Sides
<1>5. PICK fl, fr : fl = first["local"][c][k] /\ fr = first["remote"][c][k]
  OBVIOUS
<1>6. PICK nl \in Nat, nr \in Nat :
         nl = BehindOf("local", c, k) /\ nr = BehindOf("remote", c, k)
  BY <1>1 DEF Sides
<1>7. PICK cl \in BOOLEAN, cr \in BOOLEAN :
         cl = Closing(wire["local"][c], k) /\ cr = Closing(wire["remote"][c], k)
  BY <1>1 DEF Sides
<1>8. /\ Handshake(a, b, fl, fr) /\ Crossing(L, R, a, b, fl, fr, nl, nr, cl, cr, k)
  BY <1>1, <1>3, <1>4, <1>5, <1>6, <1>7 DEF TalkOf, BehindOf, Closing
<1>9. CASE s = "local"
  <2>1. PICK L2 \in PoolChannel, n2 \in Nat, d \in BOOLEAN, d2 \in BOOLEAN :
           /\ L2 = chan'["local"][c] /\ n2 = BehindNow("local", c, k)
           /\ d = Closing(wire'["local"][c], k)
           /\ d2 = Closing(wire'["remote"][c], k)
    BY <1>2, <1>9 DEF TurnHere, TurnTyped, Peer
  <2>2. /\ chan'["remote"][c] = R /\ nr = BehindNow("remote", c, k)
        /\ d2 => cr \/ ~ Unclosed(R, k)
    BY <1>2, <1>3, <1>6, <1>7, <1>9, <2>1 DEF TurnThere, Peer
  <2>3. /\ Changes(L, L2) /\ n2 <= nl
        /\ n2 = nl \/ Resets(L, L2) \/ Dies(L, L2)
        /\ d => cl
        /\ Dies(L, L2) => ~ d
    BY <1>2, <1>3, <1>6, <1>7, <1>9, <2>1 DEF TurnHere
  <2>4. L2.state = "CLOSED" => TakenBy(R) = L2.lease - 1
    BY <2>1, <2>2 DEF LinkInv, LinkOf, Linked, Counts
  <2>5. Begun(R, b, k)
    BY <1>1, <1>3, <1>4 DEF OwnOf, Own, Sides
  <2>6. Crossing(L2, R, a, b, fl, fr, n2, nr, d, d2, k)
    <3>1. k \in Nat /\ L.lease \in Nat /\ L2.lease \in Nat /\ R.lease \in Nat
      BY <1>1 DEF PoolChannel
    <3>2. Alive(L2) => Alive(L)
      BY <2>3 DEF Changes, Rests, Opens, Grows, Closes, Resets, Dies, Alive
    <3>3. d /\ Unclosed(L2, k) => fl # "none"
      <4>1. Unclosed(L2, k) => Unclosed(L, k) \/ Dies(L, L2)
        BY <2>3, <3>1
           DEF Changes, Rests, Opens, Grows, Closes, Resets, Dies, Unclosed
      <4> QED
        BY <1>8, <2>3, <4>1 DEF Crossing
    <3>4. d2 /\ Unclosed(R, k) => fr = "none" \/ fl = "taken"
      BY <1>8, <2>2 DEF Crossing
    <3>5. fl \notin {"none", "taken"} /\ L2.lease = k /\ Alive(L2) => n2 > 0
      <4>1. CASE Resets(L, L2) /\ L2.lease = k
        <5>1. b.step = "none"
          BY <2>4, <2>5, <3>1, <4>1 DEF Resets, TakenBy, Begun
        <5>2. fl = "none"
          BY <1>8, <5>1 DEF Handshake
        <5> QED
          BY <5>2
      <4>2. CASE Resets(L, L2) /\ L2.lease # k
        BY <4>2
      <4>3. CASE Dies(L, L2)
        BY <4>3 DEF Dies, Alive
      <4>4. CASE n2 = nl /\ ~ Resets(L, L2)
        <5>1. L2.lease = L.lease
          BY <2>3, <4>4 DEF Changes, Rests, Opens, Grows, Closes, Dies
        <5> QED
          BY <1>8, <3>2, <4>4, <5>1 DEF Crossing
      <4> QED
        BY <2>3, <4>1, <4>2, <4>3, <4>4
    <3>6. fl = "none" => n2 = 0
      BY <1>8, <2>3 DEF Crossing
    <3> QED
      BY <1>8, <3>2, <3>3, <3>4, <3>5, <3>6 DEF Crossing
  <2> QED
    BY <1>4, <1>5, <1>8, <2>1, <2>2, <2>6 DEF TalkOf, BehindNow, Closing
<1>10. CASE s = "remote"
  <2>1. PICK R2 \in PoolChannel, n2 \in Nat, d \in BOOLEAN, d2 \in BOOLEAN :
           /\ R2 = chan'["remote"][c] /\ n2 = BehindNow("remote", c, k)
           /\ d2 = Closing(wire'["remote"][c], k)
           /\ d = Closing(wire'["local"][c], k)
    BY <1>2, <1>10 DEF TurnHere, TurnTyped, Peer
  <2>2. /\ chan'["local"][c] = L /\ nl = BehindNow("local", c, k)
        /\ d => cl \/ ~ Unclosed(L, k)
    BY <1>2, <1>3, <1>6, <1>7, <1>10, <2>1 DEF TurnThere, Peer
  <2>3. /\ Changes(R, R2) /\ n2 <= nr /\ (d2 => cr) /\ (Dies(R, R2) => ~ d2)
    BY <1>2, <1>3, <1>6, <1>7, <1>10, <2>1 DEF TurnHere
  <2>4. Crossing(L, R2, a, b, fl, fr, nl, n2, d, d2, k)
    BY <1>1, <1>8, <2>2, <2>3, RemoteCrosses
  <2> QED
    BY <1>4, <1>5, <1>8, <2>1, <2>2, <2>4 DEF TalkOf, BehindNow, Closing
<1> QED
  BY <1>9, <1>10 DEF Sides

\* the accounts of both directions,
LEMMA ExactTurns ==
    ASSUME IInv, IInv', LinkInv, SessionsTypeOK, Quiet, NEW s \in Sides,
           NEW c \in Channels, c \notin missed, Kept(c), NEW k \in Leases, Turn(s, c),
           UNCHANGED <<session, first, overflow>>
    PROVE  \A t \in Sides : ExactOf(t, c, k)'
<1>1. /\ k \in Nat \ {0}
      /\ \A t \in Sides : /\ chan[t][c] \in PoolChannel
                          /\ session[t][c][k] \in Session
                          /\ OwnOf(t, c, k) /\ ExactOf(t, c, k)
                          /\ ReadAll(chan[t][c])
  BY StoryTyped
<1>2. TurnHere(s, c, k) /\ TurnThere(s, c, k)
  BY <1>1, TurnsHere, TurnsThere
<1>3. PICK p \in Sides : p = Peer(s) /\ Peer(p) = s
  BY DEF Sides, Peer
<1>4. PICK e \in PoolChannel, f \in PoolChannel :
         e = chan[s][c] /\ f = chan'[s][c]
  BY <1>2 DEF TurnHere
<1>5. PICK g : g = chan[p][c] /\ g = chan'[p][c]
  BY <1>2, <1>3 DEF TurnThere
<1>6. PICK x \in Session, y \in Session :
         x = session[s][c][k] /\ y = session[p][c][k]
  BY <1>1
<1>7. PICK n, m, m2 : /\ n = BehindOf(p, c, k) /\ n = BehindNow(p, c, k)
                      /\ m = BehindOf(s, c, k) /\ m2 = BehindNow(s, c, k)
  BY <1>2, <1>3 DEF TurnThere
<1>8. PICK fs, fp, o : /\ fs = first[s][c][k] /\ fp = first[p][c][k]
                       /\ o = overflow[s][c]
  OBVIOUS
<1>9. /\ Changes(e, f) /\ EndOK(e)
      /\ \/ m2 = m \/ Dies(e, f)
         \/ /\ Resets(e, f)
            /\ e.dataFromPeerQueue = <<>> \/ k # e.lease => m2 = m
  BY <1>2, <1>4, <1>7 DEF TurnHere
<1>10. ExactOf(s, c, k)'
  <2>1. Exact(e, g, x, y, fp, n)
    BY <1>1, <1>3, <1>4, <1>5, <1>6, <1>7, <1>8 DEF ExactOf, BehindOf
  <2>2. Exact(f, g, x, y, fp, n)
    BY <1>9, <2>1, SenderExact
  <2> QED
    BY <1>3, <1>4, <1>5, <1>6, <1>7, <1>8, <2>2 DEF ExactOf, BehindNow
<1>11. ExactOf(p, c, k)'
  <2>1. Exact(g, e, y, x, fs, m)
    BY <1>1, <1>3, <1>4, <1>5, <1>6, <1>7, <1>8 DEF ExactOf, BehindOf
  <2>2. Own(s, e, x, k, o)
    BY <1>1, <1>4, <1>6, <1>8 DEF OwnOf
  <2>3. Idle(e, x, k)
    BY <1>4, <1>6, QuietIsIdle DEF Kept
  <2>0. ReadAll(e)
    BY <1>1, <1>4
  <2>4. Exact(g, f, y, x, fs, m2)
    BY <1>1, <1>9, <2>0, <2>1, <2>2, <2>3, ReceiverExact
  <2> QED
    BY <1>3, <1>4, <1>5, <1>6, <1>7, <1>8, <2>4 DEF ExactOf, BehindNow
<1> QED
  BY <1>3, <1>10, <1>11 DEF Peer, Sides

\* and that who closes had stopped.
LEMMA GoodbyeTurns ==
    ASSUME IInv, IInv', LinkInv, SessionsTypeOK, NEW s \in Sides,
           NEW c \in Channels, c \notin missed, Kept(c), NEW k \in Leases, Turn(s, c),
           UNCHANGED <<session, first, overflow>>
    PROVE  \A t \in Sides : GoodbyeOf(t, c, k)'
<1>1. /\ k \in Nat \ {0}
      /\ \A t \in Sides : /\ chan[t][c] \in PoolChannel
                          /\ Closing(wire[t][c], k) \in BOOLEAN
                          /\ GoodbyeOf(t, c, k)
  BY StoryTyped
<1>2. TurnHere(s, c, k) /\ TurnThere(s, c, k) /\ TurnTyped(s, c, k)
  BY <1>1, TurnsHere, TurnsThere
<1>3. PICK p \in Sides : p = Peer(s) /\ Peer(p) = s
  BY DEF Sides, Peer
<1>4. PICK e \in PoolChannel, f \in PoolChannel :
         e = chan[s][c] /\ f = chan'[s][c]
  BY <1>2 DEF TurnHere
<1>5. PICK g : g = chan[p][c] /\ g = chan'[p][c]
  BY <1>2, <1>3 DEF TurnThere
<1>6. PICK x, y : x = session[s][c][k] /\ y = session[p][c][k]
  OBVIOUS
<1>7. PICK cs \in BOOLEAN, cs2 \in BOOLEAN :
         cs = Closing(wire[s][c], k) /\ cs2 = Closing(wire'[s][c], k)
  BY <1>2 DEF TurnTyped
<1>8. PICK cp \in BOOLEAN, cp2 \in BOOLEAN :
         cp = Closing(wire[p][c], k) /\ cp2 = Closing(wire'[p][c], k)
  BY <1>2, <1>3 DEF TurnTyped
<1>9. GoodbyeOf(s, c, k)'
  <2>1. /\ Changes(e, f) /\ (cs2 => cs) /\ (Dies(e, f) => ~ cs2)
        /\ Closes(e, f) /\ k = e.lease => cs
    BY <1>2, <1>4, <1>7 DEF TurnHere
  <2>2. Goodbye(e, y, cs, k)
    BY <1>1, <1>3, <1>4, <1>6, <1>7 DEF GoodbyeOf, Closing
  <2>3. Goodbye(f, y, cs2, k)
    BY <1>1, <2>1, <2>2, GoodbyeKept
  <2> QED
    BY <1>3, <1>4, <1>6, <1>7, <2>3 DEF GoodbyeOf, Closing
<1>10. GoodbyeOf(p, c, k)'
  <2>1. Goodbye(g, x, cp, k)
    BY <1>1, <1>3, <1>5, <1>6, <1>8 DEF GoodbyeOf, Closing
  <2>2. cp2 => cp \/ ~ Unclosed(g, k)
    BY <1>2, <1>3, <1>5, <1>8 DEF TurnThere
  <2>3. Goodbye(g, x, cp2, k)
    BY <2>1, <2>2, GoodbyeTold
  <2> QED
    BY <1>3, <1>5, <1>6, <1>8, <2>3 DEF GoodbyeOf, Closing
<1> QED
  BY <1>3, <1>9, <1>10 DEF Peer, Sides

\* A turn keeps what is kept on its channel.
LEMMA TurnKeeps ==
    ASSUME IInv, IInv', LinkInv, LinkInv', SessionsTypeOK, Quiet, NEW s \in Sides,
           NEW c \in Channels, c \notin missed, c \notin missed', Kept(c),
           Turn(s, c), Ready(s, c), UNCHANGED <<session, first, overflow, strayed>>
    PROVE  Kept(c)'
<1>1. Changes(chan[s][c], chan'[s][c]) /\ chan'[Peer(s)][c] = chan[Peer(s)][c]
  BY DEF Turn, PoolMoves, MovesTo, Hears, Ends, Breaks, Changes, Apart
<1>2. ASSUME NEW k \in Leases PROVE Story(c, k)'
  <2>1. TalkOf(c, k)'
    BY TalkTurns
  <2>2. \A t \in Sides : OwnOf(t, c, k)'
    BY OwnTurns
  <2>3. \A t \in Sides : ExactOf(t, c, k)'
    BY ExactTurns
  <2>4. \A t \in Sides : GoodbyeOf(t, c, k)'
    BY GoodbyeTurns
  <2> QED
    BY <2>1, <2>2, <2>3, <2>4 DEF Story
<1>3. ASSUME NEW t \in Sides PROVE ReadAll(chan'[t][c])
  <2>1. ReadAll(chan[t][c])
    BY DEF Kept
  <2>2. CASE t = s
    BY <1>1, <2>1, <2>2, ReadAllKept
  <2>3. CASE t # s
    BY <1>1, <2>1, <2>3 DEF Peer, Sides
  <2> QED
    BY <2>2, <2>3
<1>4. Straight(c)'
  BY DEF Kept, Straight
<1> QED
  BY <1>2, <1>3, <1>4 DEF Kept

\* A turn that is not the arrival of a CLOSE closes nothing.
LEMMA MovesReady ==
    ASSUME NEW s, NEW c, PoolMoves(s, c)
    PROVE  Turn(s, c) /\ Ready(s, c)
<1>1. ~ Closes(chan[s][c], chan'[s][c])
  BY DEF PoolMoves, MovesTo, Ends, Breaks, Rests, Opens, Grows, Resets, Dies, Closes
<1> QED
  BY <1>1 DEF Turn, Ready

\* A message that arrives keeps what is kept on its channel.
LEMMA ArrivalKeeps ==
    ASSUME IInv, IInv', LinkInv, LinkInv', SessionsTypeOK, Quiet, PromptSends,
           NEW s \in Sides, NEW c \in Channels, c \notin missed, c \notin missed',
           Kept(c), Arrives(s, c), UNCHANGED overflow
    PROVE  Kept(c)'
<1>1. Deliver(s, c) /\ UNCHANGED <<session, first, strayed>>
  BY DEF Arrives
<1>2. Turn(s, c)
  BY <1>1, DeliverTurn
<1>3. Ready(s, c)
  BY DEF Ready, Arrives
<1> QED
  BY <1>1, <1>2, <1>3, TurnKeeps

-----------------------------------------------------------------------------
(* What a session does, to its own lease and nothing else. *)

\* The end as its session, which is in its lease, may leave it.
Works(e, e2) ==
    /\ e2.lease = e.lease /\ e2.onceOpened = e.onceOpened
    /\ Alive(e2) <=> Alive(e)
    /\ e.onceOpened = "settled" /\ (e2.state = e.state \/ e2.state = "CLOSING")

\* What session k of end s of channel c does leaves the other end alone,
Apartly(s, c) ==
    /\ chan'[Peer(s)][c] = chan[Peer(s)][c]
    /\ overflow'[Peer(s)][c] = overflow[Peer(s)][c]

\* and the other leases.
Confined(s, c, k) ==
    /\ \A t \in Sides, j \in Leases : j # k =>
          /\ session'[t][c][j] = session[t][c][j]
          /\ first'[t][c][j] = first[t][c][j]
          /\ BehindNow(t, c, j) = BehindOf(t, c, j)
          /\ Closing(wire'[t][c], j) <=> Closing(wire[t][c], j)
    /\ \/ chan'[s][c] = chan[s][c]
       \/ chan[s][c].lease = k /\ Works(chan[s][c], chan'[s][c])
    /\ \/ overflow'[s][c] = overflow[s][c]
       \/ /\ overflow'[s][c].listener = overflow[s][c].listener
          /\ overflow[s][c].listener \in {0, k}
       \/ overflow'[s][c].listener = k /\ chan[s][c].lease = k

\* The rules of a lease hold when another one has the end.
LEMMA OtherOwn ==
    ASSUME NEW s, NEW e \in PoolChannel, NEW e2 \in PoolChannel, NEW x,
           NEW k \in Nat, NEW j \in Nat \ {0}, NEW o, NEW o2, j # k,
           Own(s, e, x, j, o), EndOK(e),
           e2 = e \/ (e.lease = k /\ Works(e, e2)),
           \/ o2 = o
           \/ o2.listener = o.listener /\ o.listener \in {0, k}
           \/ o2.listener = k /\ e.lease = k
    PROVE  Own(s, e2, x, j, o2)
<1>1. Levelled(e2, x, j, o2)
  BY DEF Own, Levelled, Works
<1>2. CASE e2 = e
  BY <1>1, <1>2 DEF Own
<1>3. CASE e.lease = k /\ Works(e, e2)
  <2>1. ~ JustLeft(e, j) /\ e2.lease # j /\ e.lease # j
    BY <1>3 DEF Works, JustLeft
  <2>2. Begun(e2, x, j) /\ Holding(s, e2, x, j)
    BY <1>3, <2>1 DEF Own, Begun, Holding, Held, Works
  <2>3. Hearing(s, e2, x, j) /\ Reader(s, e2, x, j) /\ Shaped(s, x)
    BY <1>3, <2>1 DEF Own, Hearing, Reader, Works
  <2> QED
    BY <1>1, <2>2, <2>3 DEF Own
<1> QED
  BY <1>2, <1>3

\* So does all of its story.
LEMMA OtherLeases ==
    ASSUME IInv, IInv', LinkInv, SessionsTypeOK, NEW s \in Sides, NEW c \in Channels,
           c \notin missed, Kept(c),
           NEW k \in Nat, Apartly(s, c), Confined(s, c, k),
           NEW j \in Leases, j # k
    PROVE  Story(c, j)'
<1>1. /\ j \in Nat \ {0}
      /\ \A t \in Sides : /\ chan[t][c] \in PoolChannel
                          /\ OwnOf(t, c, j) /\ ExactOf(t, c, j)
                          /\ GoodbyeOf(t, c, j)
      /\ TalkOf(c, j)
  BY StoryTyped
<1>2. PICK p \in Sides : p = Peer(s) /\ Peer(p) = s /\ p # s
  BY DEF Sides, Peer
<1>3. \A t \in Sides : t = s \/ t = p
  BY <1>2 DEF Sides
<1>4. /\ chan'[p][c] = chan[p][c] /\ overflow'[p][c] = overflow[p][c]
      /\ \A t \in Sides : /\ session'[t][c][j] = session[t][c][j]
                          /\ first'[t][c][j] = first[t][c][j]
                          /\ BehindNow(t, c, j) = BehindOf(t, c, j)
                          /\ Closing(wire'[t][c], j) <=> Closing(wire[t][c], j)
  BY <1>2 DEF Apartly, Confined
<1>5. PICK e \in PoolChannel, f \in PoolChannel :
         e = chan[s][c] /\ f = chan'[s][c]
  BY <1>1 DEF IInv, TypeOK
<1>6. /\ EndOK(e) /\ (f = e \/ (e.lease = k /\ Works(e, f)))
  BY <1>5, Knows DEF LinkOf, Linked, Sides, Confined
<1>7. /\ Alive(f) <=> Alive(e)
      /\ f.lease = e.lease
      /\ Unclosed(f, j) <=> Unclosed(e, j)
      /\ e.lease = j => f = e
  BY <1>6 DEF Works, Unclosed
<1>8. OwnOf(s, c, j)' /\ OwnOf(p, c, j)'
  <2>1. PICK x, o, o2 : /\ x = session[s][c][j] /\ o = overflow[s][c]
                        /\ o2 = overflow'[s][c]
    OBVIOUS
  <2>2. Own(s, e, x, j, o)
    BY <1>1, <1>5, <2>1 DEF OwnOf
  <2>3. \/ o2 = o
        \/ o2.listener = o.listener /\ o.listener \in {0, k}
        \/ o2.listener = k /\ e.lease = k
    BY <1>5, <2>1 DEF Confined
  <2>4. Own(s, f, x, j, o2)
    BY <1>1, <1>6, <2>2, <2>3, OtherOwn
  <2> QED
    BY <1>1, <1>4, <1>5, <2>1, <2>4 DEF OwnOf
<1>9. ExactOf(s, c, j)' /\ ExactOf(p, c, j)'
  BY <1>1, <1>2, <1>4, <1>5, <1>7 DEF ExactOf, Exact, BehindOf, BehindNow
<1>10. GoodbyeOf(s, c, j)' /\ GoodbyeOf(p, c, j)'
  <2>1. GoodbyeOf(s, c, j)'
    <3>1. f.lease = j /\ f.ack # "none" => e.lease = j /\ e.ack # "none"
      BY <1>7
    <3>2. Goodbye(e, session[p][c][j], Closing(wire[s][c], j), j)
      BY <1>1, <1>2, <1>5 DEF GoodbyeOf, Closing
    <3>3. Goodbye(f, session'[p][c][j], Closing(wire'[s][c], j), j)
      BY <1>4, <1>7, <3>1, <3>2 DEF Goodbye
    <3> QED
      BY <1>2, <1>5, <3>3 DEF GoodbyeOf, Closing
  <2>2. GoodbyeOf(p, c, j)'
    <3>1. Goodbye(chan[p][c], session[s][c][j], Closing(wire[p][c], j), j)
      BY <1>1, <1>2 DEF GoodbyeOf, Closing
    <3>2. Goodbye(chan'[p][c], session'[s][c][j], Closing(wire'[p][c], j), j)
      BY <1>4, <3>1 DEF Goodbye
    <3> QED
      BY <1>2, <3>2 DEF GoodbyeOf, Closing
  <2> QED
    BY <2>1, <2>2
<1>11. TalkOf(c, j)'
  <2>1. /\ "local" \in Sides /\ "remote" \in Sides
        /\ \A t \in Sides :
              /\ Alive(chan'[t][c]) <=> Alive(chan[t][c])
              /\ chan'[t][c].lease = chan[t][c].lease
              /\ Unclosed(chan'[t][c], j) <=> Unclosed(chan[t][c], j)
    BY <1>2, <1>3, <1>4, <1>5, <1>7 DEF Sides
  <2>2. PICK L, R, L2, R2 : /\ L = chan["local"][c] /\ R = chan["remote"][c]
                            /\ L2 = chan'["local"][c] /\ R2 = chan'["remote"][c]
    OBVIOUS
  <2>3. PICK a, b, fl, fr : /\ a = session["local"][c][j]
                            /\ b = session["remote"][c][j]
                            /\ fl = first["local"][c][j]
                            /\ fr = first["remote"][c][j]
    OBVIOUS
  <2>4. PICK nl, nr, cl, cr, cl2, cr2 :
           /\ nl = BehindOf("local", c, j) /\ nr = BehindOf("remote", c, j)
           /\ cl = Closing(wire["local"][c], j)
           /\ cr = Closing(wire["remote"][c], j)
           /\ cl2 = Closing(wire'["local"][c], j)
           /\ cr2 = Closing(wire'["remote"][c], j)
    OBVIOUS
  <2>5. /\ Handshake(a, b, fl, fr) /\ Crossing(L, R, a, b, fl, fr, nl, nr, cl, cr, j)
    BY <1>1, <2>2, <2>3, <2>4 DEF TalkOf, BehindOf, Closing
  <2>6. /\ cl2 <=> cl
        /\ cr2 <=> cr
    BY <1>4, <2>1, <2>4
  <2>7. Crossing(L2, R2, a, b, fl, fr, nl, nr, cl2, cr2, j)
    BY <2>1, <2>2, <2>5, <2>6 DEF Crossing
  <2> QED
    BY <1>4, <2>1, <2>2, <2>3, <2>4, <2>5, <2>7 DEF TalkOf, BehindNow, Closing
<1> QED
  BY <1>3, <1>8, <1>9, <1>10, <1>11 DEF Story

-----------------------------------------------------------------------------
(* The story of a lease as session x of end s, e, sees it: p is the other end *)
(* and y its session; o and q are the overflow of both, f and g what is first *)
(* for them, n and m what is behind them, cs and cp whether a CLOSE is.       *)

TalkAt(s, e, p, x, y, f, g, n, m, cs, cp, k) ==
    IF s = "local"
    THEN Handshake(x, y, f, g) /\ Crossing(e, p, x, y, f, g, n, m, cs, cp, k)
    ELSE Handshake(y, x, g, f) /\ Crossing(p, e, y, x, g, f, m, n, cp, cs, k)

StoryAt(s, e, p, x, y, o, q, f, g, n, m, cs, cp, k) ==
    /\ TalkAt(s, e, p, x, y, f, g, n, m, cs, cp, k)
    /\ Own(s, e, x, k, o) /\ Own(Peer(s), p, y, k, q)
    /\ Exact(e, p, x, y, g, m) /\ Exact(p, e, y, x, f, n)
    /\ Goodbye(e, y, cs, k) /\ Goodbye(p, x, cp, k)
    /\ ReadAll(e) /\ ReadAll(p)

\* The types of all this.
TypedAt(s, e, p, x, y, n, m, cs, cp, k) ==
    /\ s \in Sides /\ e \in PoolChannel /\ p \in PoolChannel
    /\ x \in Session /\ y \in Session /\ n \in Nat /\ m \in Nat
    /\ cs \in BOOLEAN /\ cp \in BOOLEAN /\ k \in Nat \ {0}
    /\ EndOK(e) /\ EndOK(p)

\* The story as it is, and what is needed of it after a step.
LEMMA StoryNow ==
    ASSUME IInv, LinkInv, SessionsTypeOK, NEW s \in Sides, NEW c \in Channels,
           c \notin missed, Kept(c),
           NEW k \in Leases, NEW p, p = Peer(s)
    PROVE  /\ StoryAt(s, chan[s][c], chan[p][c], session[s][c][k],
                      session[p][c][k], overflow[s][c], overflow[p][c],
                      first[s][c][k], first[p][c][k],
                      BehindOf(s, c, k), BehindOf(p, c, k),
                      Closing(wire[s][c], k), Closing(wire[p][c], k), k)
           /\ TypedAt(s, chan[s][c], chan[p][c], session[s][c][k],
                      session[p][c][k], BehindOf(s, c, k), BehindOf(p, c, k),
                      Closing(wire[s][c], k), Closing(wire[p][c], k), k)
<1>1. /\ k \in Nat \ {0}
      /\ \A t \in Sides : /\ chan[t][c] \in PoolChannel
                          /\ session[t][c][k] \in Session
                          /\ BehindOf(t, c, k) \in Nat
                          /\ Closing(wire[t][c], k) \in BOOLEAN
                          /\ OwnOf(t, c, k) /\ ExactOf(t, c, k)
                          /\ GoodbyeOf(t, c, k) /\ ReadAll(chan[t][c])
      /\ TalkOf(c, k)
  BY StoryTyped
<1>2. p \in Sides /\ Peer(p) = s /\ (s = "local" <=> p = "remote")
  BY DEF Sides, Peer
<1>3. EndOK(chan[s][c]) /\ EndOK(chan[p][c])
  BY <1>2, Knows DEF LinkOf, Linked, Sides
<1>4. /\ Own(s, chan[s][c], session[s][c][k], k, overflow[s][c])
      /\ Own(p, chan[p][c], session[p][c][k], k, overflow[p][c])
  BY <1>1, <1>2 DEF OwnOf
<1>5. /\ Exact(chan[s][c], chan[p][c], session[s][c][k], session[p][c][k],
               first[p][c][k], BehindOf(p, c, k))
      /\ Exact(chan[p][c], chan[s][c], session[p][c][k], session[s][c][k],
               first[s][c][k], BehindOf(s, c, k))
  BY <1>1, <1>2 DEF ExactOf, BehindOf
<1>6. /\ Goodbye(chan[s][c], session[p][c][k], Closing(wire[s][c], k), k)
      /\ Goodbye(chan[p][c], session[s][c][k], Closing(wire[p][c], k), k)
  BY <1>1, <1>2 DEF GoodbyeOf, Closing
<1>7. TalkAt(s, chan[s][c], chan[p][c], session[s][c][k], session[p][c][k],
             first[s][c][k], first[p][c][k], BehindOf(s, c, k), BehindOf(p, c, k),
             Closing(wire[s][c], k), Closing(wire[p][c], k), k)
  BY <1>1, <1>2 DEF TalkAt, TalkOf, BehindOf, Closing, Sides
<1> QED
  BY <1>1, <1>2, <1>3, <1>4, <1>5, <1>6, <1>7 DEF StoryAt, TypedAt

\* The story of a lease, told with what the state is after a step.
LEMMA StoryLater ==
    ASSUME NEW s \in Sides, NEW c \in Channels, NEW k \in Leases, NEW p, p = Peer(s),
           StoryAt(s, chan'[s][c], chan'[p][c], session'[s][c][k],
                   session'[p][c][k], overflow'[s][c], overflow'[p][c],
                   first'[s][c][k], first'[p][c][k],
                   BehindNow(s, c, k), BehindNow(p, c, k),
                   Closing(wire'[s][c], k), Closing(wire'[p][c], k), k)
    PROVE  Story(c, k)'
<1>1. p \in Sides /\ Peer(p) = s /\ (s = "local" <=> p = "remote")
  BY DEF Sides, Peer
<1>2. \A t \in Sides : t = s \/ t = p
  BY <1>1 DEF Sides
<1>3. OwnOf(s, c, k)' /\ OwnOf(p, c, k)'
  BY DEF StoryAt, OwnOf
<1>4. ExactOf(s, c, k)' /\ ExactOf(p, c, k)'
  BY <1>1 DEF StoryAt, ExactOf, BehindNow
<1>5. GoodbyeOf(s, c, k)' /\ GoodbyeOf(p, c, k)'
  BY <1>1 DEF StoryAt, GoodbyeOf, Closing
<1>6. TalkOf(c, k)'
  BY <1>1 DEF StoryAt, TalkAt, TalkOf, BehindNow, Closing, Sides
<1> QED
  BY <1>2, <1>3, <1>4, <1>5, <1>6 DEF Story

\* What session k does keeps what is kept on its channel, if its own story is.
LEMMA WorkKeeps ==
    ASSUME IInv, IInv', LinkInv, SessionsTypeOK, NEW s \in Sides, NEW c \in Channels,
           c \notin missed, Kept(c), NEW k \in Nat, Apartly(s, c), Confined(s, c, k),
           Straight(c)', ReadAll(chan'[s][c]), k \in Leases => Story(c, k)'
    PROVE  Kept(c)'
<1>1. ASSUME NEW j \in Leases PROVE Story(c, j)'
  BY OtherLeases
<1>2. ASSUME NEW t \in Sides PROVE ReadAll(chan'[t][c])
  <2>1. ReadAll(chan[t][c])
    BY DEF Kept
  <2> QED
    BY <2>1 DEF Apartly, Peer, Sides
<1> QED
  BY <1>1, <1>2 DEF Kept

-----------------------------------------------------------------------------
(* Steps of a session that leave its channel alone. *)

\* Those of a client's session, up to the link.
SocksMoves(e, p, x, x2, k) ==
    /\ \/ e.lease = k
       \/ x.step = "answering" /\ x2.step = "failed" /\ e.state # "OPEN"
    /\ x2.queued = x.queued /\ x2.sent = x.sent /\ x2.got = x.got
    /\ x2.stop = x.stop
    /\ x2.reads = IF x2.step \in Reads("local") THEN k ELSE 0
    /\ x2.listens = IF x2.step = "linked" THEN k ELSE x.listens
    /\ x2.paused = x.paused
    /\ \/ /\ x.step = "none" /\ x2.step = "auth" /\ e.onceOpened = "settled"
          /\ x2.socket \in {"open", "gone"} /\ x2.reply = x.reply
       \/ /\ x.step = "auth" /\ x2.step \in {"request", "failed"}
          /\ x2.socket = x.socket /\ x2.reply = x.reply
       \/ /\ x.step = "request" \/ (x.step = "sending" /\ ~ (Alive(e) /\ Alive(p)))
          /\ x2.step = IF x.socket = "open" THEN "answering" ELSE "unanswered"
          /\ x2.socket = x.socket /\ x2.reply = "FAILURE"
       \/ /\ x.step = "sending" /\ x2.step = "awaiting"
          /\ x2.socket = x.socket /\ x2.reply = x.reply
       \/ /\ x.step = "answering" /\ x2.socket = x.socket /\ x2.reply = x.reply
          /\ \/ x2.step = IF x.reply = "SUCCEEDED" THEN "linked" ELSE "failed"
             \/ x.socket = "gone" /\ x2.step = "failed"

\* What becomes of the parts of its story.
LEMMA SocksOwn ==
    ASSUME NEW e \in PoolChannel, NEW p, NEW x \in Session, NEW x2 \in Session,
           NEW k \in Nat \ {0}, NEW o, EndOK(e), Own("local", e, x, k, o),
           SocksMoves(e, p, x, x2, k)
    PROVE  Own("local", e, x2, k, o)
<1>1. /\ Begun(e, x, k) /\ Holding("local", e, x, k) /\ Hearing("local", e, x, k)
      /\ Reader("local", e, x, k) /\ Levelled(e, x, k, o) /\ Shaped("local", x)
  BY DEF Own
<1>2. x.step # "answering" => Held(e, k)
  BY <1>1 DEF SocksMoves, Begun, Holding, Busy
<1>3. /\ x.step \notin {"linked", "failed"} /\ x.stop = "no"
      /\ x2.stop = "no" /\ x.listens = 0
      /\ x.step \in {"none", "auth", "request", "sending", "answering"}
  BY <1>1 DEF SocksMoves, Hearing, Listens
<1>4. /\ x2.step \in Busy("local") => x.step # "answering"
      /\ x2.step = "linked" => x.step = "answering" /\ e.lease = k
  BY <1>3 DEF SocksMoves, Busy
<1>5. Begun(e, x2, k)
  BY <1>1, <1>2, <1>3 DEF Begun, Held, SocksMoves
<1>6. Holding("local", e, x2, k)
  <2>1. x2.step = "failed" => Held(e, k) \/ e.state # "OPEN"
    BY <1>1, <1>2 DEF SocksMoves, Begun, Held
  <2>2. x2.listens # 0 => x2.step = "linked"
    BY <1>3 DEF SocksMoves
  <2> QED
    BY <1>2, <1>3, <1>4, <2>1, <2>2 DEF Holding
<1>7. Hearing("local", e, x2, k)
  <2>1. x2.listens = (IF x2.step = "linked" THEN k ELSE 0)
    BY <1>3 DEF SocksMoves
  <2>2. e.lease = k /\ e.state = "CLOSING" => e.ack # "none"
    BY <1>1, <1>2, <1>3 DEF Hearing, Held
  <2> QED
    BY <1>3, <1>4, <2>1, <2>2 DEF Hearing, Listens
<1>8. Reader("local", e, x2, k)
  <2>1. Held(e, k) => e.ack # "draining" \/ ~ Alive(e)
    BY DEF Held, EndOK, AckOwed, Alive
  <2> QED
    BY <1>2, <1>4, <2>1 DEF Reader, SocksMoves, Reads, Busy
<1>9. x2.step = "linked" => x2.paused = "handshake"
  BY <1>1, <1>3 DEF Shaped, SocksMoves
<1>10. Levelled(e, x2, k, o)
  BY <1>1, <1>3, <1>9 DEF Levelled
<1>11. Shaped("local", x2)
  BY <1>1, <1>3 DEF Shaped, SocksMoves, Busy, SocksStep, NoSession, Begun
<1> QED
  BY <1>5, <1>6, <1>7, <1>8, <1>10, <1>11 DEF Own

\* The local handshake still fits the remote one and the channel,
LEMMA SocksTalk ==
    ASSUME NEW e \in PoolChannel, NEW p \in PoolChannel, NEW x \in Session,
           NEW x2 \in Session, NEW y \in Session, NEW f, NEW g, NEW n, NEW m,
           NEW cs, NEW cp, NEW k \in Nat \ {0},
           Handshake(x, y, f, g), Crossing(e, p, x, y, f, g, n, m, cs, cp, k),
           Shaped("local", x), SocksMoves(e, p, x, x2, k)
    PROVE  /\ Handshake(x2, y, f, g)
           /\ Crossing(e, p, x2, y, f, g, n, m, cs, cp, k)
<1>1. x.step \in {"none", "auth", "request", "sending", "answering"}
  BY DEF SocksMoves
<1>2. Handshake(x2, y, f, g)
  BY <1>1 DEF Handshake, SocksMoves, Before, Waiting, Shaped
<1>3. x2.reply = "SUCCEEDED" <=> x.reply = "SUCCEEDED"
  BY <1>1 DEF SocksMoves, Shaped
<1>4. x2.step \notin Waiting /\ g # "none" =>
         f = "taken" \/ ~ Alive(e) \/ ~ Alive(p)
  BY <1>1 DEF Handshake, Crossing, SocksMoves, Before, Waiting
<1>5. Crossing(e, p, x2, y, f, g, n, m, cs, cp, k)
  BY <1>3, <1>4 DEF Crossing
<1> QED
  BY <1>2, <1>5

\* Its socket is never heard of again once it is gone.
LEMMA AlikeExact ==
    ASSUME NEW e, NEW p, NEW x, NEW x2, NEW y, NEW f, NEW g, NEW n, NEW m,
           Exact(e, p, x, y, g, m), Exact(p, e, y, x, f, n),
           x2.queued = x.queued, x2.sent = x.sent, x2.got = x.got,
           Waits(x2) => Waits(x) \/ ~ Alive(e)
    PROVE  Exact(e, p, x2, y, g, m) /\ Exact(p, e, y, x2, f, n)
BY DEF Exact

\* and so does the whole story of the lease.
LEMMA SocksStory ==
    ASSUME NEW e, NEW p, NEW x, NEW x2 \in Session, NEW y, NEW o, NEW q, NEW f,
           NEW g, NEW n, NEW m, NEW cs, NEW cp, NEW k,
           TypedAt("local", e, p, x, y, n, m, cs, cp, k),
           StoryAt("local", e, p, x, y, o, q, f, g, n, m, cs, cp, k),
           SocksMoves(e, p, x, x2, k)
    PROVE  StoryAt("local", e, p, x2, y, o, q, f, g, n, m, cs, cp, k)
<1>1. /\ e \in PoolChannel /\ p \in PoolChannel /\ x \in Session /\ y \in Session
      /\ k \in Nat \ {0} /\ EndOK(e)
  BY DEF TypedAt
<1>2. /\ Handshake(x, y, f, g) /\ Crossing(e, p, x, y, f, g, n, m, cs, cp, k)
      /\ Own("local", e, x, k, o) /\ Shaped("local", x)
      /\ Exact(e, p, x, y, g, m) /\ Exact(p, e, y, x, f, n)
      /\ Goodbye(p, x, cp, k)
  BY DEF StoryAt, TalkAt, Own
<1>3. Own("local", e, x2, k, o)
  BY <1>1, <1>2, SocksOwn
<1>4. /\ Handshake(x2, y, f, g)
      /\ Crossing(e, p, x2, y, f, g, n, m, cs, cp, k)
  BY <1>1, <1>2, SocksTalk
<1>5. Waits(x2) => Waits(x)
  BY <1>2 DEF SocksMoves, Waits, Own, Begun, NoSession
<1>6. Exact(e, p, x2, y, g, m) /\ Exact(p, e, y, x2, f, n)
  BY <1>2, <1>5, AlikeExact DEF SocksMoves
<1>7. Goodbye(p, x2, cp, k)
  BY <1>2 DEF Goodbye, SocksMoves
<1> QED
  BY <1>3, <1>4, <1>6, <1>7 DEF StoryAt, TalkAt

\* What of the story x's own step must keep, when only x and o change.
LEMMA SilentStory ==
    ASSUME NEW s, NEW e, NEW p, NEW x, NEW x2, NEW y, NEW o, NEW o2, NEW q, NEW f,
           NEW g, NEW n, NEW m, NEW cs, NEW cp, NEW k,
           StoryAt(s, e, p, x, y, o, q, f, g, n, m, cs, cp, k),
           TalkAt(s, e, p, x2, y, f, g, n, m, cs, cp, k), Own(s, e, x2, k, o2),
           Exact(e, p, x2, y, g, m), Exact(p, e, y, x2, f, n),
           Goodbye(p, x2, cp, k)
    PROVE  StoryAt(s, e, p, x2, y, o2, q, f, g, n, m, cs, cp, k)
BY DEF StoryAt

\* Those of a session of the remote end, up to the link.
RtcMoves(e, x, x2, k) ==
    /\ e.lease = k
    /\ x2.queued = x.queued /\ x2.sent = x.sent /\ x2.got = x.got
    /\ x2.stop = x.stop /\ x2.paused = x.paused /\ x2.listens = k
    /\ x2.reads = IF x2.step \in Reads("remote") THEN k ELSE 0
    /\ \/ /\ x.step = "none" /\ x2.step = "endpoint" /\ e.onceOpened = "settled"
          /\ x2.socket = x.socket /\ x2.reply = x.reply
       \/ /\ x.step = "connecting" /\ x2.step = "replying"
          /\ x2.reply \in {"SUCCEEDED", "FAILURE"} /\ x2.socket \in {"open", "gone"}
          /\ x2.reply = "SUCCEEDED" => x2.socket = "open"
       \/ /\ x.step = "replying" /\ ~ Alive(e)
          /\ x2.step = IF x.socket = "open" THEN "linked" ELSE "failed"
          /\ x2.socket = x.socket /\ x2.reply = x.reply

\* A remote session that moves on relies on nothing new,
LEMMA RtcOwn ==
    ASSUME NEW e \in PoolChannel, NEW x \in Session, NEW x2 \in Session,
           NEW k \in Nat \ {0}, NEW o, EndOK(e), Own("remote", e, x, k, o),
           RtcMoves(e, x, x2, k)
    PROVE  Own("remote", e, x2, k, o)
<1>1. /\ Begun(e, x, k) /\ Holding("remote", e, x, k) /\ Hearing("remote", e, x, k)
      /\ Reader("remote", e, x, k) /\ Levelled(e, x, k, o) /\ Shaped("remote", x)
  BY DEF Own
<1>2. Held(e, k)
  BY <1>1 DEF RtcMoves, Begun, Holding, Busy
<1>3. x.step \in {"none", "connecting", "replying"}
  BY DEF RtcMoves
<1>4. e.ack # "draining" \/ ~ Alive(e)
  BY <1>2 DEF Held, EndOK, AckOwed, Alive
<1>5. Begun(e, x2, k)
  BY <1>2 DEF Begun, Held, RtcMoves
<1>6. Holding("remote", e, x2, k)
  <2>1. x2.stop \in {"no", "channelClosed"}
    BY <1>1, <1>3 DEF Hearing, RtcMoves, Sides
  <2> QED
    BY <1>2, <2>1 DEF Holding, Held
<1>7. Hearing("remote", e, x2, k)
  <2>1. x.step = "none" => x2.stop = "no"
    BY <1>1 DEF RtcMoves, Begun, NoSession
  <2>2. x2.step \in {"endpoint", "replying", "linked", "failed"}
    BY DEF RtcMoves
  <2> QED
    BY <1>1, <1>2, <1>3, <2>1, <2>2 DEF Hearing, Held, Listens, RtcMoves
<1>8. Reader("remote", e, x2, k)
  BY <1>4 DEF Reader, RtcMoves
<1>9. x2.step = "linked" => x2.paused = "handshake"
  BY <1>1 DEF Shaped, RtcMoves
<1>10. Levelled(e, x2, k, o)
  BY <1>1, <1>3, <1>9 DEF Levelled
<1>11. Shaped("remote", x2)
  BY <1>1, <1>3 DEF Shaped, RtcMoves, Busy, RtcStep, NoSession, Begun
<1> QED
  BY <1>5, <1>6, <1>7, <1>8, <1>10, <1>11 DEF Own

\* its handshake still fits the local one and the channel,
LEMMA RtcTalk ==
    ASSUME NEW e \in PoolChannel, NEW p \in PoolChannel, NEW x \in Session,
           NEW x2 \in Session, NEW y \in Session, NEW f, NEW g, NEW n, NEW m,
           NEW cs, NEW cp, NEW k \in Nat \ {0},
           Handshake(y, x, g, f), Crossing(p, e, y, x, g, f, m, n, cp, cs, k),
           Shaped("remote", x), RtcMoves(e, x, x2, k)
    PROVE  /\ Handshake(y, x2, g, f)
           /\ Crossing(p, e, y, x2, g, f, m, n, cp, cs, k)
<1>1. x.step \in {"none", "connecting", "replying"}
  BY DEF RtcMoves
<1>2. Handshake(y, x2, g, f)
  BY <1>1 DEF Handshake, RtcMoves, Before, Waiting, Shaped, Reply
<1>3. Crossing(p, e, y, x2, g, f, m, n, cp, cs, k)
  BY <1>1 DEF Crossing, RtcMoves
<1> QED
  BY <1>2, <1>3

\* and so does the whole story of the lease.
LEMMA RtcStory ==
    ASSUME NEW e, NEW p, NEW x, NEW x2 \in Session, NEW y, NEW o, NEW q, NEW f,
           NEW g, NEW n, NEW m, NEW cs, NEW cp, NEW k,
           TypedAt("remote", e, p, x, y, n, m, cs, cp, k),
           StoryAt("remote", e, p, x, y, o, q, f, g, n, m, cs, cp, k),
           RtcMoves(e, x, x2, k)
    PROVE  StoryAt("remote", e, p, x2, y, o, q, f, g, n, m, cs, cp, k)
<1>1. /\ e \in PoolChannel /\ p \in PoolChannel /\ x \in Session /\ y \in Session
      /\ k \in Nat \ {0} /\ EndOK(e)
  BY DEF TypedAt
<1>2. /\ Handshake(y, x, g, f) /\ Crossing(p, e, y, x, g, f, m, n, cp, cs, k)
      /\ Own("remote", e, x, k, o) /\ Shaped("remote", x)
      /\ Exact(e, p, x, y, g, m) /\ Exact(p, e, y, x, f, n)
      /\ Goodbye(p, x, cp, k)
  BY DEF StoryAt, TalkAt, Own
<1>3. Own("remote", e, x2, k, o)
  BY <1>1, <1>2, RtcOwn
<1>4. /\ Handshake(y, x2, g, f)
      /\ Crossing(p, e, y, x2, g, f, m, n, cp, cs, k)
  BY <1>1, <1>2, RtcTalk
<1>5. Waits(x2) => Waits(x)
  BY <1>2 DEF RtcMoves, Waits, Shaped
<1>6. Exact(e, p, x2, y, g, m) /\ Exact(p, e, y, x2, f, n)
  BY <1>2, <1>5, AlikeExact DEF RtcMoves
<1>7. Goodbye(p, x2, cp, k)
  BY <1>2 DEF Goodbye, RtcMoves
<1> QED
  BY <1>3, <1>4, <1>6, <1>7 DEF StoryAt, TalkAt

\* Those that leave the session where it is in its course.
Alike(x, x2) ==
    /\ x2.step = x.step /\ x2.reply = x.reply /\ x2.got = x.got
    /\ x2.reads = x.reads /\ x2.listens = x.listens

\* The handshake does not look at what a linked socket does.
LEMMA AlikeTalk ==
    ASSUME NEW s, NEW e, NEW p, NEW x, NEW x2, NEW y, NEW f, NEW g, NEW n, NEW m,
           NEW cs, NEW cp, NEW k, TalkAt(s, e, p, x, y, f, g, n, m, cs, cp, k),
           Alike(x, x2), x2.socket = x.socket \/ x.step # "replying"
    PROVE  TalkAt(s, e, p, x2, y, f, g, n, m, cs, cp, k)
<1>1. CASE s = "local"
  <2>1. Handshake(x, y, f, g) => Handshake(x2, y, f, g)
    BY DEF Handshake, Alike
  <2>2. Crossing(e, p, x, y, f, g, n, m, cs, cp, k)
           => Crossing(e, p, x2, y, f, g, n, m, cs, cp, k)
    BY DEF Crossing, Alike
  <2> QED
    BY <1>1, <2>1, <2>2 DEF TalkAt
<1>2. CASE s # "local"
  <2>1. Handshake(y, x, g, f) => Handshake(y, x2, g, f)
    BY DEF Handshake, Alike
  <2>2. Crossing(p, e, y, x, g, f, m, n, cp, cs, k)
           => Crossing(p, e, y, x2, g, f, m, n, cp, cs, k)
    BY DEF Crossing, Alike
  <2> QED
    BY <1>2, <2>1, <2>2 DEF TalkAt
<1> QED
  BY <1>1, <1>2

\* The link, which sets the overflow listener.
Links(x, x2, o, o2, k) ==
    /\ Alike(x, x2) /\ x.step = "linked" /\ x.queued = 0 /\ x.paused = "handshake"
    /\ o2.listener = k
    /\ x2.paused = IF o2.high THEN "overflow" ELSE "no"
    /\ x2.stop = x.stop /\ x2.socket = x.socket
    /\ x2.queued = x.queued /\ x2.sent = x.sent

\* A session that is linked may start to listen and be paused: its story fits.
LEMMA LinksStory ==
    ASSUME NEW s, NEW e, NEW p, NEW x, NEW x2 \in Session, NEW y, NEW o, NEW o2,
           NEW q, NEW f, NEW g, NEW n, NEW m, NEW cs, NEW cp, NEW k,
           TypedAt(s, e, p, x, y, n, m, cs, cp, k),
           StoryAt(s, e, p, x, y, o, q, f, g, n, m, cs, cp, k),
           Links(x, x2, o, o2, k)
    PROVE  StoryAt(s, e, p, x2, y, o2, q, f, g, n, m, cs, cp, k) /\ e.lease = k
<1>1. /\ Begun(e, x, k) /\ Holding(s, e, x, k) /\ Hearing(s, e, x, k)
      /\ Reader(s, e, x, k) /\ Levelled(e, x, k, o) /\ Shaped(s, x)
      /\ TalkAt(s, e, p, x, y, f, g, n, m, cs, cp, k)
      /\ Exact(e, p, x, y, g, m) /\ Exact(p, e, y, x, f, n)
      /\ Goodbye(p, x, cp, k) /\ Alike(x, x2)
  BY DEF StoryAt, Own, Links
<1>2. TalkAt(s, e, p, x2, y, f, g, n, m, cs, cp, k)
  BY <1>1, AlikeTalk DEF Links
<1>3. Own(s, e, x2, k, o2) /\ e.lease = k
  <2>1. Begun(e, x2, k) /\ e.lease = k
    BY <1>1 DEF Begun, Holding, Links, Alike
  <2>2. Holding(s, e, x2, k)
    BY <1>1 DEF Holding, Links, Alike
  <2>3. Hearing(s, e, x2, k)
    BY <1>1 DEF Hearing, Links, Alike, Listens
  <2>4. Reader(s, e, x2, k)
    BY <1>1 DEF Reader, Links, Alike
  <2>5. Levelled(e, x2, k, o2)
    BY DEF Levelled, Links, Alike
  <2>6. Shaped(s, x2)
    BY <1>1 DEF Shaped, Links, Alike, Busy
  <2> QED
    BY <2>1, <2>2, <2>3, <2>4, <2>5, <2>6 DEF Own
<1>4. Exact(e, p, x2, y, g, m) /\ Exact(p, e, y, x2, f, n)
  BY <1>1, AlikeExact DEF Links, Alike, Waits
<1>5. Goodbye(p, x2, cp, k)
  BY <1>1 DEF Goodbye, Links
<1> QED
  BY <1>2, <1>3, <1>4, <1>5, SilentStory

\* The end of a session whose channel is not open any more.
Stops(e, x, x2, k) ==
    /\ Alike(x, x2) /\ x.stop = "no" /\ x2.paused = x.paused
    /\ x2.socket = x.socket /\ x2.queued = x.queued /\ x2.sent = x.sent
    /\ k < e.lease \/ e.state # "OPEN"
    /\ \/ x2.stop = "failed" /\ x.step = "failed"
       \/ x2.stop \in {"failed", "socketClosed"} /\ x.step = "linked" /\ x.queued = 0
       \/ /\ x2.stop = "channelClosed" /\ x.listens # 0
          /\ x.listens < e.lease \/ e.onceClosed = "settled"

\* A session that gives up, or is told of the end, keeps the story of its lease.
LEMMA StopsStory ==
    ASSUME NEW s, NEW e, NEW p, NEW x, NEW x2 \in Session, NEW y, NEW o,
           NEW q, NEW f, NEW g, NEW n, NEW m, NEW cs, NEW cp, NEW k,
           TypedAt(s, e, p, x, y, n, m, cs, cp, k),
           StoryAt(s, e, p, x, y, o, q, f, g, n, m, cs, cp, k),
           Stops(e, x, x2, k)
    PROVE  StoryAt(s, e, p, x2, y, o, q, f, g, n, m, cs, cp, k)
<1>1. /\ Begun(e, x, k) /\ Holding(s, e, x, k) /\ Hearing(s, e, x, k)
      /\ Reader(s, e, x, k) /\ Levelled(e, x, k, o) /\ Shaped(s, x)
      /\ TalkAt(s, e, p, x, y, f, g, n, m, cs, cp, k)
      /\ Exact(e, p, x, y, g, m) /\ Exact(p, e, y, x, f, n)
      /\ Goodbye(p, x, cp, k) /\ Alike(x, x2)
      /\ x.stop = "no" /\ x2.stop # "no"
  BY DEF StoryAt, Own, Stops
<1>0. e \in PoolChannel /\ EndOK(e) /\ s \in Sides /\ k \in Nat \ {0} /\ x \in Session
  BY DEF TypedAt
<1>2. TalkAt(s, e, p, x2, y, f, g, n, m, cs, cp, k)
  BY <1>1, AlikeTalk DEF Stops
<1>6. x2.stop = "channelClosed" => k < e.lease \/ ~ Alive(e)
  BY <1>0, <1>1 DEF Stops, Hearing, EndOK
<1>7. x2.stop = "channelClosed" /\ x.socket = "gone" => ~ Alive(e)
  BY <1>0, <1>1 DEF Stops, Holding, Hearing, EndOK, PoolChannel
<1>3. Own(s, e, x2, k, o)
  <2>1. Begun(e, x2, k)
    BY <1>1 DEF Begun, Stops, Alike, Hearing, Listens, Sides, NoSession
  <2>2. Holding(s, e, x2, k)
    BY <1>1 DEF Holding, Stops, Alike
  <2>3. Hearing(s, e, x2, k)
    BY <1>0, <1>1, <1>6 DEF Hearing, Stops, Alike, Listens, Sides
  <2>4. Reader(s, e, x2, k)
    BY <1>1 DEF Reader, Stops, Alike
  <2>5. Levelled(e, x2, k, o)
    BY <1>1 DEF Levelled, Stops, Alike
  <2>6. Shaped(s, x2)
    BY <1>1 DEF Shaped, Stops, Alike, Busy
  <2> QED
    BY <2>1, <2>2, <2>3, <2>4, <2>5, <2>6 DEF Own
<1>4. Exact(e, p, x2, y, g, m) /\ Exact(p, e, y, x2, f, n)
  BY <1>1, <1>7, AlikeExact DEF Stops, Alike, Waits
<1>5. Goodbye(p, x2, cp, k)
  BY <1>1 DEF Goodbye, Stops
<1> QED
  BY <1>2, <1>3, <1>4, <1>5, SilentStory

\* What a task does to the session's socket: data waits for the link, or is
\* lost because the channel is not open; the socket is gone; the overflow
\* listener resumes it.
SocketMoves(e, x, x2, o, o2, k) ==
    /\ Alike(x, x2) /\ x2.stop = x.stop
    /\ \/ /\ x.step \in {"sending", "awaiting", "answering", "connecting"}
          /\ x2.queued = x.queued + 1 /\ x2.sent = x.sent + 1
          /\ x2.socket = x.socket /\ x2.paused = x.paused /\ o2 = o
       \/ /\ x.step = "linked" /\ x.stop = "no" /\ e.state # "OPEN"
          /\ x2.queued = x.queued /\ x2.sent = x.sent + 1
          /\ x2.socket = x.socket /\ x2.paused = x.paused /\ o2 = o
       \/ /\ x.socket = "open" /\ x2.socket = "gone"
          /\ x2.queued = x.queued /\ x2.sent = x.sent
          /\ x2.paused = x.paused /\ o2 = o
       \/ /\ o.listener = k /\ o2.listener = k /\ o2.high = FALSE
          /\ x2.paused = IF x.socket = "gone" THEN x.paused ELSE "no"
          /\ x2.queued = x.queued /\ x2.sent = x.sent /\ x2.socket = x.socket

\* What the socket of a session does leaves what the session relies on,
LEMMA SocketOwn ==
    ASSUME NEW s \in Sides, NEW e \in PoolChannel, NEW x \in Session,
           NEW x2 \in Session, NEW k \in Nat \ {0}, NEW o, NEW o2, EndOK(e),
           Own(s, e, x, k, o), Idle(e, x, k), SocketMoves(e, x, x2, o, o2, k)
    PROVE  Own(s, e, x2, k, o2)
<1>1. /\ Begun(e, x, k) /\ Holding(s, e, x, k) /\ Hearing(s, e, x, k)
      /\ Reader(s, e, x, k) /\ Levelled(e, x, k, o) /\ Shaped(s, x)
      /\ Alike(x, x2) /\ x.step # "replying" /\ x2.stop = x.stop
  BY DEF Own, SocketMoves, Idle
<1>2. x.step # "none"
  <2>1. x.step = "none" => x.socket = "none" /\ o.listener # k
    BY <1>1 DEF Begun, NoSession, Levelled
  <2> QED
    BY <2>1 DEF SocketMoves
<1>3. x.stop = "no" /\ x.listens # 0 => e.lease = k
  BY <1>1 DEF Hearing, Idle, JustLeft, PoolChannel
<1>4. Begun(e, x2, k)
  BY <1>1, <1>2 DEF Begun, Alike
<1>5. x.step = "linked" => x2.queued = 0 /\ x2.paused # "handshake"
  BY <1>1 DEF Idle, SocketMoves
<1>6. Holding(s, e, x2, k)
  BY <1>1, <1>3, <1>5 DEF Holding, Alike
<1>7. Hearing(s, e, x2, k)
  BY <1>1 DEF Hearing, Alike, Listens
<1>8. Reader(s, e, x2, k)
  BY <1>1 DEF Reader, Alike
<1>9. Levelled(e, x2, k, o2)
  <2>1. CASE o2 = o /\ x2.paused = x.paused
    BY <1>1, <2>1 DEF Levelled, Alike, SocketMoves
  <2>2. CASE /\ o.listener = k /\ o2.listener = k /\ o2.high = FALSE
             /\ x2.paused = IF x.socket = "gone" THEN x.paused ELSE "no"
             /\ x2.socket = x.socket
    BY <1>1, <2>2 DEF Levelled, Alike
  <2> QED
    BY <2>1, <2>2 DEF SocketMoves
<1>10. Shaped(s, x2)
  <2>1. x2.socket = x.socket \/ (x.socket = "open" /\ x2.socket = "gone")
    BY DEF SocketMoves
  <2>2. x2.paused = x.paused \/ x.step = "linked"
    BY <1>1 DEF SocketMoves, Levelled
  <2>3. \/ x2.queued = x.queued /\ x2.sent = x.sent
        \/ x.step \in {"sending", "awaiting", "answering", "connecting", "linked"}
    BY DEF SocketMoves
  <2> QED
    BY <1>1, <2>1, <2>2, <2>3 DEF Shaped, Alike, Busy, Sides
<1> QED
  BY <1>4, <1>6, <1>7, <1>8, <1>9, <1>10 DEF Own

\* the accounts of both directions,
LEMMA SocketExact ==
    ASSUME NEW s \in Sides, NEW e \in PoolChannel, NEW p, NEW x \in Session,
           NEW x2 \in Session, NEW y \in Session, NEW k \in Nat \ {0}, NEW o,
           NEW o2, NEW f, NEW g, NEW n \in Nat, NEW m \in Nat, NEW cs, EndOK(e),
           Own(s, e, x, k, o), Idle(e, x, k), SocketMoves(e, x, x2, o, o2, k),
           Exact(e, p, x, y, g, m), Exact(p, e, y, x, f, n), Goodbye(e, y, cs, k)
    PROVE  Exact(e, p, x2, y, g, m) /\ Exact(p, e, y, x2, f, n)
<1>1. Begun(e, x, k) /\ Hearing(s, e, x, k) /\ x2.got = x.got
  BY DEF Own, SocketMoves, Alike
<1>2. Waits(x2) => Waits(x)
  BY DEF SocketMoves, Waits
<1>3. Exact(p, e, y, x2, f, n)
  BY <1>1, <1>2 DEF Exact
<1>4. CASE x2.queued = x.queued /\ x2.sent = x.sent
  BY <1>3, <1>4 DEF Exact
<1>5. CASE x2.queued = x.queued + 1 /\ x2.sent = x.sent + 1
  <2>1. PICK i \in Nat, j \in Nat, d \in Nat, b \in Nat :
           /\ i = x.queued /\ j = x.sent /\ d = y.got
           /\ b = IF g \in {"none", "taken"} THEN 0 ELSE 1
    BY DEF Session
  <2>2. m + d + i = j + b => m + d + (i + 1) = (j + 1) + b
    OBVIOUS
  <2> QED
    BY <1>3, <1>5, <2>1, <2>2 DEF Exact
<1>6. CASE x.step = "linked" /\ x.stop = "no" /\ e.state # "OPEN"
  <2>1. x.listens = k /\ e.lease = k
    BY <1>1, <1>6 DEF Hearing, Listens, Idle, JustLeft, PoolChannel, Sides
  <2>2. e.onceOpened = "settled"
    BY <1>1, <1>6, <2>1 DEF Begun
  <2>3. CASE ~ Alive(e)
    BY <1>3, <2>3 DEF Exact
  <2>4. CASE Alive(e)
    <3>1. e.state = "CLOSING"
      BY <1>6, <2>2, <2>4 DEF EndOK, PoolChannel, State, Alive
    <3>2. e.ack # "none"
      BY <1>1, <1>6, <2>1, <3>1 DEF Hearing
    <3>3. ~ Waits(y)
      BY <2>1, <3>2 DEF Goodbye, Waits
    <3> QED
      BY <1>3, <3>3 DEF Exact
  <2> QED
    BY <2>3, <2>4
<1> QED
  BY <1>3, <1>4, <1>5, <1>6 DEF SocketMoves

\* and the story of the lease.
LEMMA SocketStory ==
    ASSUME NEW s, NEW e, NEW p, NEW x, NEW x2 \in Session, NEW y, NEW o, NEW o2,
           NEW q, NEW f, NEW g, NEW n, NEW m, NEW cs, NEW cp, NEW k,
           TypedAt(s, e, p, x, y, n, m, cs, cp, k),
           StoryAt(s, e, p, x, y, o, q, f, g, n, m, cs, cp, k),
           Idle(e, x, k), SocketMoves(e, x, x2, o, o2, k)
    PROVE  StoryAt(s, e, p, x2, y, o2, q, f, g, n, m, cs, cp, k)
<1>1. /\ e \in PoolChannel /\ EndOK(e) /\ s \in Sides /\ k \in Nat \ {0}
      /\ x \in Session /\ y \in Session /\ n \in Nat /\ m \in Nat
  BY DEF TypedAt
<1>2. /\ TalkAt(s, e, p, x, y, f, g, n, m, cs, cp, k) /\ Own(s, e, x, k, o)
      /\ Exact(e, p, x, y, g, m) /\ Exact(p, e, y, x, f, n)
      /\ Goodbye(p, x, cp, k) /\ Goodbye(e, y, cs, k)
      /\ Alike(x, x2) /\ x2.stop = x.stop /\ x.step # "replying"
  BY DEF StoryAt, SocketMoves, Idle
<1>3. TalkAt(s, e, p, x2, y, f, g, n, m, cs, cp, k)
  BY <1>2, AlikeTalk
<1>4. Own(s, e, x2, k, o2)
  BY <1>1, <1>2, SocketOwn
<1>5. Exact(e, p, x2, y, g, m) /\ Exact(p, e, y, x2, f, n)
  BY <1>1, <1>2, SocketExact
<1>6. Goodbye(p, x2, cp, k)
  BY <1>2 DEF Goodbye
<1> QED
  BY <1>3, <1>4, <1>5, <1>6, SilentStory

-----------------------------------------------------------------------------
(* Steps of a session that send.  A message reaches the peer's wire unless   *)
(* the data channel is gone, and the first one of the lease is remembered.   *)

Spoken(e, p, g, g2, m, m2, cp, what, k) ==
    /\ e.state = "OPEN" /\ e.lease = k /\ ~ cp
    /\ g2 = IF g = "none" THEN what ELSE g
    /\ m2 = m + 1 \/ (m2 = m /\ ~ Alive(p))

\* The request of a client.
Requests(x, x2) ==
    /\ x.step = "request" /\ x2.step = "sending" /\ x2.paused = "handshake"
    /\ x2.stop = x.stop /\ x2.socket = x.socket /\ x2.reply = x.reply
    /\ x2.reads = x.reads /\ x2.listens = x.listens
    /\ x2.queued = x.queued /\ x2.sent = x.sent /\ x2.got = x.got

\* The client's request goes out once, and the story of the lease goes on.
LEMMA RequestStory ==
    ASSUME NEW e, NEW p, NEW x, NEW x2 \in Session, NEW y, NEW o, NEW q, NEW f,
           NEW g, NEW g2, NEW n, NEW m, NEW m2 \in Nat, NEW cs, NEW cp, NEW k,
           TypedAt("local", e, p, x, y, n, m, cs, cp, k),
           StoryAt("local", e, p, x, y, o, q, f, g, n, m, cs, cp, k),
           Spoken(e, p, g, g2, m, m2, cp, "request", k), Requests(x, x2)
    PROVE  StoryAt("local", e, p, x2, y, o, q, f, g2, n, m2, cs, cp, k)
<1>1. /\ e \in PoolChannel /\ x \in Session /\ y \in Session /\ k \in Nat \ {0}
      /\ m \in Nat /\ EndOK(e) /\ Alive(e)
  BY DEF TypedAt, Spoken, Alive
<1>2. /\ Handshake(x, y, f, g) /\ Crossing(e, p, x, y, f, g, n, m, cs, cp, k)
      /\ Exact(e, p, x, y, g, m) /\ Exact(p, e, y, x, f, n)
      /\ Goodbye(p, x, cp, k)
  BY DEF StoryAt, TalkAt
<1>3. /\ Begun(e, x, k) /\ Holding("local", e, x, k) /\ Hearing("local", e, x, k)
      /\ Reader("local", e, x, k) /\ Levelled(e, x, k, o) /\ Shaped("local", x)
  BY DEF StoryAt, Own
<1>4. g = "none" /\ g2 = "request"
  BY <1>2 DEF Handshake, Before, Requests, Spoken
<1>5. Handshake(x2, y, f, g2)
  BY <1>2, <1>4 DEF Handshake, Before, Waiting, Requests
<1>6. Crossing(e, p, x2, y, f, g2, n, m2, cs, cp, k)
  <2>1. x.reply # "SUCCEEDED" /\ x2.reply # "SUCCEEDED" /\ x2.step \in Waiting
    BY <1>3 DEF Shaped, Requests, Waiting
  <2>2. y.got = 0 /\ m <= 0
    BY <1>2, <1>4, <2>1 DEF Crossing
  <2>3. m2 <= 1
    BY <1>1, <2>2 DEF Spoken
  <2> QED
    BY <1>2, <1>4, <2>1, <2>2, <2>3 DEF Crossing, Spoken
<1>7. Own("local", e, x2, k, o)
  <2>1. Begun(e, x2, k)
    BY <1>3 DEF Begun, Requests
  <2>2. Holding("local", e, x2, k)
    BY <1>3 DEF Holding, Busy, Requests
  <2>3. Hearing("local", e, x2, k)
    BY <1>3 DEF Hearing, Listens, Requests
  <2>4. Reader("local", e, x2, k)
    BY <1>3 DEF Reader, Reads, Requests
  <2>5. Levelled(e, x2, k, o)
    BY <1>3 DEF Levelled, Requests
  <2>6. Shaped("local", x2)
    BY <1>3 DEF Shaped, Busy, SocksStep, Requests
  <2> QED
    BY <2>1, <2>2, <2>3, <2>4, <2>5, <2>6 DEF Own
<1>8. Exact(e, p, x2, y, g2, m2)
  <2>1. PICK i \in Nat, j \in Nat, d \in Nat :
           i = x.queued /\ j = x.sent /\ d = y.got
    BY <1>1 DEF Session
  <2>2. Alive(p) /\ Waits(y) => m + d + i = j + 0
    BY <1>1, <1>2, <1>4, <2>1 DEF Exact
  <2>3. Alive(p) => m2 = m + 1
    BY DEF Spoken
  <2>4. Alive(p) /\ Waits(y) => m2 + d + i = j + 1
    BY <1>1, <2>2, <2>3
  <2> QED
    BY <1>4, <2>1, <2>4 DEF Exact, Requests
<1>9. Exact(p, e, y, x2, f, n) /\ Goodbye(p, x2, cp, k)
  BY <1>2 DEF Exact, Waits, Goodbye, Requests
<1> QED
  BY <1>5, <1>6, <1>7, <1>8, <1>9 DEF StoryAt, TalkAt

\* The reply of the session at the other end.
Replies(x, x2) ==
    /\ x.step = "replying"
    /\ x2.step = IF x.socket = "open" THEN "linked" ELSE "failed"
    /\ x2.paused = x.paused
    /\ x2.stop = x.stop /\ x2.socket = x.socket /\ x2.reply = x.reply
    /\ x2.reads = (IF x2.step = "linked" THEN x.listens ELSE 0)
    /\ x2.listens = x.listens
    /\ x2.queued = x.queued /\ x2.sent = x.sent /\ x2.got = x.got

\* The reply goes out once, and says what the remote session decided.
LEMMA ReplyStory ==
    ASSUME NEW e, NEW p, NEW x, NEW x2 \in Session, NEW y, NEW o, NEW q, NEW f,
           NEW g, NEW g2, NEW n, NEW m, NEW m2 \in Nat, NEW cs, NEW cp, NEW k,
           TypedAt("remote", e, p, x, y, n, m, cs, cp, k),
           StoryAt("remote", e, p, x, y, o, q, f, g, n, m, cs, cp, k),
           Spoken(e, p, g, g2, m, m2, cp, x.reply, k), Replies(x, x2)
    PROVE  StoryAt("remote", e, p, x2, y, o, q, f, g2, n, m2, cs, cp, k)
<1>1. /\ e \in PoolChannel /\ x \in Session /\ y \in Session /\ k \in Nat \ {0}
      /\ m \in Nat /\ EndOK(e) /\ Alive(e)
  BY DEF TypedAt, Spoken, Alive
<1>2. /\ Handshake(y, x, g, f) /\ Crossing(p, e, y, x, g, f, m, n, cp, cs, k)
      /\ Exact(e, p, x, y, g, m) /\ Exact(p, e, y, x, f, n)
      /\ Goodbye(p, x, cp, k)
  BY DEF StoryAt, TalkAt
<1>3. /\ Begun(e, x, k) /\ Holding("remote", e, x, k) /\ Hearing("remote", e, x, k)
      /\ Reader("remote", e, x, k) /\ Levelled(e, x, k, o) /\ Shaped("remote", x)
  BY DEF StoryAt, Own
<1>4. g = "none" /\ g2 = x.reply /\ x.reply \in Reply /\ x.listens = k /\ Held(e, k)
  <2>1. g = "none" /\ x.reply # "none"
    BY <1>2, <1>3 DEF Handshake, Replies, Shaped
  <2>2. x.listens = k /\ Held(e, k)
    BY <1>3 DEF Replies, Hearing, Listens, Holding, Busy
  <2> QED
    BY <1>1, <2>1, <2>2 DEF Spoken, Session
<1>5. Handshake(y, x2, g2, f)
  BY <1>2, <1>4 DEF Handshake, Waiting, Before, Replies, Reply
<1>6. Crossing(p, e, y, x2, g2, f, m2, n, cp, cs, k)
  <2>1. g2 \notin {"none", "taken"}
    BY <1>4 DEF Reply
  <2>2. Alive(p) => m2 > 0
    BY <1>1 DEF Spoken
  <2>3. y.step \notin Waiting /\ f # "none" => ~ Alive(p)
    BY <1>1, <1>2, <1>4 DEF Crossing
  <2>4. ~ (cs /\ Unclosed(e, k))
    <3>1. f # "none"
      BY <1>2 DEF Handshake, Replies
    <3> QED
      BY <1>2, <1>4, <3>1 DEF Crossing
  <2> QED
    BY <1>2, <1>4, <2>1, <2>2, <2>3, <2>4 DEF Crossing, Spoken, Replies
<1>7. Own("remote", e, x2, k, o)
  <2>1. Begun(e, x2, k)
    BY <1>3 DEF Begun, Replies
  <2>2. Holding("remote", e, x2, k)
    <3>1. x.stop \in {"no", "failed", "socketClosed", "channelClosed"}
      BY <1>1 DEF Session
    <3>2. x.stop = "no"
      BY <1>1, <1>3, <1>4, <3>1 DEF Hearing, Replies, Held, PoolChannel
    <3> QED
      BY <1>3, <1>4, <3>2 DEF Holding, Busy, Replies, Held
  <2>3. Hearing("remote", e, x2, k)
    BY <1>1, <1>3, <1>4 DEF Hearing, Listens, Replies, Held
  <2>4. Reader("remote", e, x2, k)
    BY <1>1, <1>4 DEF Reader, Reads, Replies, Spoken, EndOK, AckOwed
  <2>5. Levelled(e, x2, k, o)
    BY <1>3 DEF Levelled, Replies, Shaped
  <2>6. Shaped("remote", x2)
    BY <1>3 DEF Shaped, Busy, RtcStep, Replies
  <2> QED
    BY <2>1, <2>2, <2>3, <2>4, <2>5, <2>6 DEF Own
<1>8. Exact(e, p, x2, y, g2, m2)
  <2>1. PICK i \in Nat, j \in Nat, d \in Nat :
           i = x.queued /\ j = x.sent /\ d = y.got
    BY <1>1 DEF Session
  <2>2. Alive(p) /\ Waits(y) => m + d + i = j + 0
    BY <1>1, <1>2, <1>4, <2>1 DEF Exact
  <2>3. Alive(p) => m2 = m + 1
    BY DEF Spoken
  <2>4. Alive(p) /\ Waits(y) => m2 + d + i = j + 1
    BY <1>1, <2>2, <2>3
  <2>5. g2 \notin {"none", "taken"}
    BY <1>4 DEF Reply
  <2> QED
    BY <2>1, <2>4, <2>5 DEF Exact, Replies
<1>9. Exact(p, e, y, x2, f, n) /\ Goodbye(p, x2, cp, k)
  BY <1>2 DEF Exact, Waits, Goodbye, Replies
<1> QED
  BY <1>5, <1>6, <1>7, <1>8, <1>9 DEF StoryAt, TalkAt

\* Data: what waited for the link, or what its socket delivers, which may put
\* the channel into overflow.
Feeds(e, x, x2, o, o2, k) ==
    /\ Alike(x, x2) /\ x.step = "linked" /\ x2.stop = x.stop
    /\ x2.socket = x.socket
    /\ \/ /\ x.queued > 0 /\ x2.queued = x.queued - 1 /\ x2.sent = x.sent
          /\ x2.paused = x.paused /\ o2 = o
       \/ /\ x.stop = "no" /\ x.socket = "open" /\ Idle(e, x, k)
          /\ x2.queued = x.queued /\ x2.sent = x.sent + 1
          /\ \/ x2.paused = x.paused /\ o2 = o
             \/ /\ x2.paused = IF o.listener = k THEN "overflow" ELSE x.paused
                /\ o2.high = TRUE /\ o2.listener = o.listener

\* A session that forwards data relies on nothing new,
LEMMA FeedsOwn ==
    ASSUME NEW s \in Sides, NEW e \in PoolChannel, NEW x \in Session,
           NEW x2 \in Session, NEW k \in Nat \ {0}, NEW o, NEW o2, EndOK(e),
           Own(s, e, x, k, o), e.lease = k, Feeds(e, x, x2, o, o2, k)
    PROVE  Own(s, e, x2, k, o2)
<1>1. /\ Begun(e, x, k) /\ Holding(s, e, x, k) /\ Hearing(s, e, x, k)
      /\ Reader(s, e, x, k) /\ Levelled(e, x, k, o) /\ Shaped(s, x)
      /\ Alike(x, x2) /\ x.step = "linked" /\ x2.stop = x.stop
      /\ x2.socket = x.socket
  BY DEF Own, Feeds
<1>2. x2.queued > 0 => x.queued > 0
  BY DEF Feeds, Idle, Session
<1>3. x2.paused # x.paused => x.paused # "handshake" /\ x2.paused # "handshake"
  BY DEF Feeds, Idle
<1>4. Begun(e, x2, k)
  BY <1>1 DEF Begun, Alike
<1>5. Holding(s, e, x2, k)
  BY <1>1, <1>2, <1>3 DEF Holding, Alike
<1>6. Hearing(s, e, x2, k) /\ Reader(s, e, x2, k)
  BY <1>1 DEF Hearing, Alike, Listens, Reader
<1>7. Levelled(e, x2, k, o2)
  <2>1. CASE x2.paused = x.paused /\ o2 = o
    BY <1>1, <2>1 DEF Levelled, Alike
  <2>2. CASE /\ x.stop = "no" /\ Idle(e, x, k)
             /\ x2.paused = IF o.listener = k THEN "overflow" ELSE x.paused
             /\ o2.high = TRUE /\ o2.listener = o.listener
    BY <1>1, <2>2 DEF Levelled, Alike, Idle
  <2> QED
    BY <2>1, <2>2 DEF Feeds
<1>8. Shaped(s, x2)
  BY <1>1 DEF Shaped, Alike, Busy
<1> QED
  BY <1>4, <1>5, <1>6, <1>7, <1>8 DEF Own

\* its data never comes first, for the handshake was over,
LEMMA FeedsTalk ==
    ASSUME NEW s \in Sides, NEW e, NEW p, NEW x \in Session, NEW x2, NEW y, NEW f,
           NEW g, NEW g2, NEW n, NEW m \in Nat, NEW m2 \in Nat, NEW cs, NEW cp,
           NEW k, TalkAt(s, e, p, x, y, f, g, n, m, cs, cp, k),
           Alike(x, x2), x2.socket = x.socket, x.step = "linked",
           Spoken(e, p, g, g2, m, m2, cp, "data", k)
    PROVE  TalkAt(s, e, p, x2, y, f, g2, n, m2, cs, cp, k) /\ g2 = g /\ g # "none"
<1>1. TalkAt(s, e, p, x2, y, f, g, n, m, cs, cp, k)
  BY AlikeTalk
<1>2. x2.step = "linked" /\ m2 >= m /\ Alive(e)
  BY DEF Alike, Spoken, Alive
<1>3. CASE s = "local"
  <2>1. Handshake(x2, y, f, g) /\ Crossing(e, p, x2, y, f, g, n, m, cs, cp, k)
    BY <1>1, <1>3 DEF TalkAt
  <2>2. g # "none" /\ x2.reply = "SUCCEEDED"
    BY <1>2, <2>1 DEF Handshake
  <2>3. g2 = g
    BY <2>2 DEF Spoken
  <2>4. Crossing(e, p, x2, y, f, g, n, m2, cs, cp, k)
    BY <1>2, <2>1, <2>2 DEF Crossing
  <2> QED
    BY <1>3, <2>1, <2>2, <2>3, <2>4 DEF TalkAt
<1>4. CASE s = "remote"
  <2>1. Handshake(y, x2, g, f) /\ Crossing(p, e, y, x2, g, f, m, n, cp, cs, k)
    BY <1>1, <1>4 DEF TalkAt
  <2>2. g # "none"
    BY <1>2, <2>1 DEF Crossing
  <2>3. g2 = g
    BY <2>2 DEF Spoken
  <2>4. Crossing(p, e, y, x2, g, f, m2, n, cp, cs, k)
    BY <1>2, <2>1, <2>2 DEF Crossing
  <2> QED
    BY <1>4, <2>1, <2>2, <2>3, <2>4 DEF TalkAt
<1> QED
  BY <1>3, <1>4 DEF Sides

\* and it is counted at both ends.
LEMMA FeedsStory ==
    ASSUME NEW s, NEW e, NEW p, NEW x, NEW x2 \in Session, NEW y, NEW o, NEW o2,
           NEW q, NEW f, NEW g, NEW g2, NEW n, NEW m, NEW m2 \in Nat, NEW cs,
           NEW cp, NEW k,
           TypedAt(s, e, p, x, y, n, m, cs, cp, k),
           StoryAt(s, e, p, x, y, o, q, f, g, n, m, cs, cp, k),
           Spoken(e, p, g, g2, m, m2, cp, "data", k), Feeds(e, x, x2, o, o2, k)
    PROVE  StoryAt(s, e, p, x2, y, o2, q, f, g2, n, m2, cs, cp, k)
<1>1. /\ s \in Sides /\ e \in PoolChannel /\ x \in Session /\ y \in Session
      /\ k \in Nat \ {0} /\ m \in Nat /\ EndOK(e) /\ e.lease = k
  BY DEF TypedAt, Spoken
<1>2. /\ TalkAt(s, e, p, x, y, f, g, n, m, cs, cp, k) /\ Own(s, e, x, k, o)
      /\ Exact(e, p, x, y, g, m) /\ Exact(p, e, y, x, f, n)
      /\ Goodbye(p, x, cp, k) /\ Alike(x, x2) /\ x.step = "linked"
      /\ x2.stop = x.stop /\ x2.socket = x.socket
  BY DEF StoryAt, Feeds
<1>3. TalkAt(s, e, p, x2, y, f, g2, n, m2, cs, cp, k) /\ g2 = g /\ g # "none"
  BY <1>1, <1>2, FeedsTalk
<1>4. Own(s, e, x2, k, o2)
  BY <1>1, <1>2, FeedsOwn
<1>5. Exact(e, p, x2, y, g2, m2)
  <2>1. PICK i \in Nat, j \in Nat, i2 \in Nat, j2 \in Nat, d \in Nat, b \in Nat :
           /\ i = x.queued /\ j = x.sent /\ i2 = x2.queued /\ j2 = x2.sent
           /\ d = y.got /\ b = IF g \in {"none", "taken"} THEN 0 ELSE 1
    BY <1>1 DEF Session
  <2>2. Alive(e) /\ Alive(p) /\ Waits(y) => m + d + i = j + b
    BY <1>2, <2>1 DEF Exact
  <2>3. Alive(p) => m2 = m + 1
    BY DEF Spoken
  <2>4. (i2 = i - 1 /\ j2 = j) \/ (i2 = i /\ j2 = j + 1)
    BY <2>1 DEF Feeds
  <2>5. Alive(e) /\ Alive(p) /\ Waits(y) => m2 + d + i2 = j2 + b
    BY <1>1, <2>2, <2>3, <2>4
  <2> QED
    BY <1>3, <2>1, <2>5 DEF Exact
<1>6. Exact(p, e, y, x2, f, n) /\ Goodbye(p, x2, cp, k)
  BY <1>2 DEF Exact, Waits, Goodbye, Alike
<1> QED
  BY <1>3, <1>4, <1>5, <1>6 DEF StoryAt

-----------------------------------------------------------------------------
(* A session takes the oldest message of its queue. *)

\* What that does to its end, and to itself.
Handled(e, e2, n, n2, k) ==
    /\ e.lease = k /\ e.onceOpened = "settled" /\ e.dataFromPeerQueue # <<>>
    /\ e2.state = e.state /\ e2.lease = e.lease /\ e2.onceOpened = e.onceOpened
    /\ e2.ack # "none" <=> e.ack # "none"
    /\ e.ack # "draining" => e2.ack = e.ack
    /\ e2.ack \in {e.ack, "sending"}
    /\ e.ack = "draining" /\ e2.ack = "sending" => e2.dataFromPeerQueue = <<>>
    /\ n = n2 + 1

Takes(x, x2, f) ==
    LET what == IF f = "taken" THEN "data" ELSE f IN
    /\ x2.stop = x.stop /\ x2.listens = x.listens
    /\ x2.queued = x.queued /\ x2.sent = x.sent
    /\ \/ /\ x.step = "awaiting" /\ x2.reads = 0 /\ x2.got = x.got
          /\ x2.socket = x.socket /\ x2.paused = x.paused
          /\ x2.reply = IF what \in Reply THEN what ELSE "FAILURE"
          /\ x2.step = IF x.socket = "open" THEN "answering" ELSE "unanswered"
       \/ /\ x.step = "endpoint" /\ x2.reads = 0 /\ x2.got = x.got
          /\ \/ /\ x2.step = "replying" /\ x2.reply = "REFUSED"
                /\ x2.socket = x.socket /\ x2.paused = x.paused
             \/ /\ what = "request" /\ x2.step = "connecting"
                /\ x2.socket = "connecting" /\ x2.paused = "handshake"
                /\ x2.reply = x.reply
       \/ /\ x.step \notin {"awaiting", "endpoint"} /\ x2.step = x.step
          /\ x2.reads = x.reads /\ x2.reply = x.reply
          /\ x2.socket = x.socket /\ x2.paused = x.paused
          /\ x2.got = IF what = "data" /\ x.socket = "open" THEN x.got + 1 ELSE x.got

\* The response reaches the client's session.
LEMMA ResponseStory ==
    ASSUME NEW e, NEW e2 \in PoolChannel, NEW p, NEW x, NEW x2 \in Session, NEW y,
           NEW o, NEW q, NEW f, NEW g, NEW n, NEW n2 \in Nat, NEW m, NEW cs,
           NEW cp, NEW k, x.step = "awaiting",
           TypedAt("local", e, p, x, y, n, m, cs, cp, k),
           StoryAt("local", e, p, x, y, o, q, f, g, n, m, cs, cp, k),
           Handled(e, e2, n, n2, k), Takes(x, x2, f)
    PROVE  StoryAt("local", e2, p, x2, y, o, q, "taken", g, n2, m, cs, cp, k)
<1>1. /\ e \in PoolChannel /\ x \in Session /\ y \in Session /\ k \in Nat \ {0}
      /\ n \in Nat /\ EndOK(e)
  BY DEF TypedAt
<1>2. /\ Handshake(x, y, f, g) /\ Crossing(e, p, x, y, f, g, n, m, cs, cp, k)
      /\ Exact(e, p, x, y, g, m) /\ Exact(p, e, y, x, f, n)
      /\ Goodbye(p, x, cp, k) /\ Goodbye(e, y, cs, k) /\ ReadAll(e)
  BY DEF StoryAt, TalkAt
<1>3. /\ Begun(e, x, k) /\ Holding("local", e, x, k) /\ Hearing("local", e, x, k)
      /\ Reader("local", e, x, k) /\ Levelled(e, x, k, o) /\ Shaped("local", x)
  BY DEF StoryAt, Own
<1>4. Held(e, k) /\ x.stop = "no" /\ x.reads = k
  BY <1>3 DEF Holding, Busy, Hearing, Reader, Reads
<1>5. f \in Reply /\ f = y.reply
  <2>1. f # "none"
    BY <1>1, <1>2 DEF Crossing, Handled
  <2> QED
    BY <1>2, <2>1 DEF Handshake, Waiting, Before
<1>6. /\ x2.reply = y.reply /\ x2.step \in {"answering", "unanswered"}
      /\ x2.step = IF x.socket = "open" THEN "answering" ELSE "unanswered"
      /\ x2.stop = x.stop /\ x2.listens = x.listens /\ x2.reads = 0
      /\ x2.queued = x.queued /\ x2.sent = x.sent /\ x2.got = x.got
      /\ x2.socket = x.socket /\ x2.paused = x.paused
  BY <1>5 DEF Takes, Reply
<1>7. /\ Alive(e2) <=> Alive(e)
      /\ Unclosed(e2, k) <=> Unclosed(e, k)
      /\ Held(e2, k) /\ e2.lease = k
  BY <1>4 DEF Handled, Alive, Unclosed, Held
<1>8. Handshake(x2, y, "taken", g)
  BY <1>2, <1>5, <1>6 DEF Handshake, Before, Waiting, Reply
<1>9. Crossing(e2, p, x2, y, "taken", g, n2, m, cs, cp, k)
  <2>1. x.reply # "SUCCEEDED"
    BY <1>3 DEF Shaped
  <2> QED
    BY <1>2, <1>7, <2>1 DEF Crossing
<1>10. Own("local", e2, x2, k, o)
  <2>1. Begun(e2, x2, k) /\ Holding("local", e2, x2, k)
    BY <1>6, <1>7 DEF Begun, Holding, Held
  <2>2. Hearing("local", e2, x2, k)
    BY <1>3, <1>4, <1>6, <1>7 DEF Hearing, Listens, Held
  <2>3. Reader("local", e2, x2, k)
    BY <1>1, <1>6 DEF Reader, Reads
  <2>4. Levelled(e2, x2, k, o)
    BY <1>3, <1>6 DEF Levelled
  <2>5. Shaped("local", x2)
    BY <1>3, <1>6 DEF Shaped, Busy, SocksStep
  <2> QED
    BY <2>1, <2>2, <2>3, <2>4, <2>5 DEF Own
<1>11. Exact(e2, p, x2, y, g, m)
  BY <1>2, <1>6, <1>7 DEF Exact
<1>12. Exact(p, e2, y, x2, "taken", n2)
  <2>1. PICK i \in Nat, j \in Nat, d \in Nat :
           i = y.queued /\ j = y.sent /\ d = x.got
    BY <1>1 DEF Session
  <2>2. f \notin {"none", "taken"}
    BY <1>5 DEF Reply
  <2>3. Alive(p) /\ Alive(e) /\ Waits(x) => n + d + i = j + 1
    BY <1>2, <2>1, <2>2 DEF Exact
  <2>4. Alive(p) /\ Alive(e) /\ Waits(x) => n2 + d + i = j + 0
    BY <2>3 DEF Handled
  <2> QED
    BY <1>6, <1>7, <2>1, <2>4 DEF Exact, Waits
<1>13. Goodbye(p, x2, cp, k) /\ Goodbye(e2, y, cs, k)
  BY <1>2, <1>6, <1>7 DEF Goodbye, Handled
<1>14. ReadAll(e2) /\ ReadAll(p)
  <2>1. ~ (Alive(e2) /\ e2.ack = "sending")
    BY <1>1, <1>2, <1>4, <1>7 DEF Held, ReadAll, Handled, EndOK, AckOwed, Alive
  <2> QED
    BY <2>1 DEF ReadAll, StoryAt
<1> QED
  BY <1>8, <1>9, <1>10, <1>11, <1>12, <1>13, <1>14 DEF StoryAt, TalkAt

\* The request, or what comes in its place, reaches the session at the other end.
LEMMA EndpointStory ==
    ASSUME NEW e, NEW e2 \in PoolChannel, NEW p, NEW x, NEW x2 \in Session, NEW y,
           NEW o, NEW q, NEW f, NEW g, NEW n, NEW n2 \in Nat, NEW m, NEW cs,
           NEW cp, NEW k, x.step = "endpoint",
           TypedAt("remote", e, p, x, y, n, m, cs, cp, k),
           StoryAt("remote", e, p, x, y, o, q, f, g, n, m, cs, cp, k),
           Handled(e, e2, n, n2, k), Takes(x, x2, f)
    PROVE  StoryAt("remote", e2, p, x2, y, o, q, "taken", g, n2, m, cs, cp, k)
<1>1. /\ e \in PoolChannel /\ x \in Session /\ y \in Session /\ k \in Nat \ {0}
      /\ n \in Nat /\ EndOK(e)
  BY DEF TypedAt
<1>2. /\ Handshake(y, x, g, f) /\ Crossing(p, e, y, x, g, f, m, n, cp, cs, k)
      /\ Exact(e, p, x, y, g, m) /\ Exact(p, e, y, x, f, n)
      /\ Goodbye(p, x, cp, k) /\ Goodbye(e, y, cs, k) /\ ReadAll(e)
  BY DEF StoryAt, TalkAt
<1>3. /\ Begun(e, x, k) /\ Holding("remote", e, x, k) /\ Hearing("remote", e, x, k)
      /\ Reader("remote", e, x, k) /\ Levelled(e, x, k, o) /\ Shaped("remote", x)
  BY DEF StoryAt, Own
<1>4. x.reads = k /\ x.listens = k
  BY <1>3 DEF Hearing, Listens, Reader, Reads
<1>5. Held(e, k)
  <2>1. e.lease = k /\ e.onceOpened = "settled" /\ e.dataFromPeerQueue # <<>>
    BY DEF Handled
  <2>2. ASSUME Alive(e), e.state # "OPEN" PROVE FALSE
    <3>1. e.state = "CLOSING"
      BY <1>1, <2>1, <2>2 DEF EndOK, PoolChannel, State, Alive
    <3>2. x.stop = "no"
      BY <1>1, <1>3, <2>1, <2>2 DEF Hearing, PoolChannel
    <3>3. e.ack # "none" /\ e.ack # "draining"
      BY <1>3, <1>4, <2>1, <2>2, <3>1, <3>2 DEF Hearing, Reader
    <3>4. e.ack = "sending"
      BY <1>1, <3>3 DEF PoolChannel
    <3> QED
      BY <1>2, <2>1, <2>2, <3>4 DEF ReadAll
  <2> QED
    BY <2>1, <2>2 DEF Held, Alive
<1>6. y.reply # "SUCCEEDED" /\ x.reply = "none" /\ x.got = 0
  BY <1>2, <1>3 DEF Handshake, Shaped
<1>7. f = "request" /\ n2 <= 0
  BY <1>1, <1>2, <1>6 DEF Handshake, Crossing, Handled
<1>8. /\ x2.stop = x.stop /\ x2.listens = x.listens /\ x2.reads = 0
      /\ x2.queued = x.queued /\ x2.sent = x.sent /\ x2.got = x.got
      /\ \/ /\ x2.step = "replying" /\ x2.reply = "REFUSED"
            /\ x2.socket = x.socket /\ x2.paused = x.paused
         \/ /\ x2.step = "connecting" /\ x2.reply = x.reply
            /\ x2.socket = "connecting" /\ x2.paused = "handshake"
  BY DEF Takes
<1>9. /\ Alive(e2) <=> Alive(e)
      /\ Unclosed(e2, k) <=> Unclosed(e, k)
      /\ Held(e2, k) /\ e2.lease = k
  BY <1>5 DEF Handled, Alive, Unclosed, Held
<1>10. Handshake(y, x2, g, "taken")
  BY <1>2, <1>6, <1>7, <1>8 DEF Handshake, Before, Waiting
<1>11. Crossing(p, e2, y, x2, g, "taken", m, n2, cp, cs, k)
  BY <1>2, <1>6, <1>7, <1>8, <1>9 DEF Crossing
<1>12. Own("remote", e2, x2, k, o)
  <2>1. Begun(e2, x2, k) /\ Holding("remote", e2, x2, k)
    BY <1>8, <1>9 DEF Begun, Holding, Held
  <2>2. Hearing("remote", e2, x2, k)
    BY <1>1, <1>3, <1>8, <1>9 DEF Hearing, Listens, Held, Handled
  <2>3. Reader("remote", e2, x2, k)
    BY <1>1, <1>8 DEF Reader, Reads
  <2>4. Levelled(e2, x2, k, o)
    BY <1>3, <1>8 DEF Levelled
  <2>5. Shaped("remote", x2)
    BY <1>3, <1>8 DEF Shaped, Busy, RtcStep
  <2> QED
    BY <2>1, <2>2, <2>3, <2>4, <2>5 DEF Own
<1>13. Exact(e2, p, x2, y, g, m)
  BY <1>2, <1>8, <1>9 DEF Exact
<1>14. Exact(p, e2, y, x2, "taken", n2)
  <2>1. PICK i \in Nat, j \in Nat, d \in Nat :
           i = y.queued /\ j = y.sent /\ d = x.got
    BY <1>1 DEF Session
  <2>2. Waits(x2) => Waits(x)
    BY <1>3, <1>8 DEF Waits, Shaped
  <2>3. Alive(p) /\ Alive(e) /\ Waits(x) => n + d + i = j + 1
    BY <1>2, <1>7, <2>1 DEF Exact
  <2>4. Alive(p) /\ Alive(e) /\ Waits(x) => n2 + d + i = j + 0
    BY <2>3 DEF Handled
  <2> QED
    BY <1>8, <1>9, <2>1, <2>2, <2>4 DEF Exact
<1>15. Goodbye(p, x2, cp, k) /\ Goodbye(e2, y, cs, k)
  BY <1>2, <1>8, <1>9 DEF Goodbye, Handled
<1>16. ReadAll(e2) /\ ReadAll(p)
  <2>1. ~ (Alive(e2) /\ e2.ack = "sending")
    BY <1>1, <1>5, <1>9 DEF Held, Handled, EndOK, AckOwed, Alive
  <2> QED
    BY <2>1 DEF ReadAll, StoryAt
<1> QED
  BY <1>10, <1>11, <1>12, <1>13, <1>14, <1>15, <1>16 DEF StoryAt, TalkAt

\* Data reaches a linked session, which gives it to its socket.
LEMMA DataStory ==
    ASSUME NEW s, NEW e, NEW e2 \in PoolChannel, NEW p, NEW x, NEW x2 \in Session,
           NEW y, NEW o, NEW q, NEW f, NEW g, NEW n, NEW n2 \in Nat, NEW m,
           NEW cs, NEW cp, NEW k, x.step = "linked",
           TypedAt(s, e, p, x, y, n, m, cs, cp, k),
           StoryAt(s, e, p, x, y, o, q, f, g, n, m, cs, cp, k),
           Handled(e, e2, n, n2, k), Takes(x, x2, f)
    PROVE  StoryAt(s, e2, p, x2, y, o, q, "taken", g, n2, m, cs, cp, k)
<1>1. /\ s \in Sides /\ e \in PoolChannel /\ x \in Session /\ y \in Session
      /\ k \in Nat \ {0} /\ n \in Nat /\ m \in Nat /\ EndOK(e) /\ e2.lease = k
      /\ e.lease = k
  BY DEF TypedAt, Handled
<1>2. /\ TalkAt(s, e, p, x, y, f, g, n, m, cs, cp, k)
      /\ Exact(e, p, x, y, g, m) /\ Exact(p, e, y, x, f, n)
      /\ Goodbye(p, x, cp, k) /\ Goodbye(e, y, cs, k) /\ ReadAll(e)
  BY DEF StoryAt
<1>3. /\ Begun(e, x, k) /\ Holding(s, e, x, k) /\ Hearing(s, e, x, k)
      /\ Reader(s, e, x, k) /\ Levelled(e, x, k, o) /\ Shaped(s, x)
  BY DEF StoryAt, Own
<1>4. f = "taken"
  <2>1. CASE s = "local"
    BY <1>2, <2>1 DEF TalkAt, Handshake
  <2>2. CASE s = "remote"
    BY <1>2, <2>2 DEF TalkAt, Handshake
  <2> QED
    BY <1>1, <2>1, <2>2 DEF Sides
<1>5. /\ x2.step = "linked" /\ x2.stop = x.stop /\ x2.listens = x.listens
      /\ x2.reads = x.reads /\ x2.reply = x.reply
      /\ x2.queued = x.queued /\ x2.sent = x.sent
      /\ x2.socket = x.socket /\ x2.paused = x.paused
      /\ x2.got = IF x.socket = "open" THEN x.got + 1 ELSE x.got
  BY <1>4 DEF Takes
<1>6. /\ Alive(e2) <=> Alive(e)
      /\ Unclosed(e2, k) <=> Unclosed(e, k)
      /\ Held(e2, k) <=> Held(e, k)
      /\ JustLeft(e2, k) <=> JustLeft(e, k)
      /\ e2.state = e.state /\ e2.onceOpened = e.onceOpened
      /\ e2.ack # "none" <=> e.ack # "none"
  BY DEF Handled, Alive, Unclosed, Held, JustLeft
<1>7. Alive(e) => e2.ack # "draining" \/ (s = "local" /\ x2.step = "linked")
  BY <1>1, <1>3, <1>5 DEF Reader, Reads, Handled
<1>8. TalkAt(s, e2, p, x2, y, "taken", g, n2, m, cs, cp, k)
  <2>1. CASE s = "local"
    <3>1. Handshake(x, y, f, g) /\ Crossing(e, p, x, y, f, g, n, m, cs, cp, k)
      BY <1>2, <2>1 DEF TalkAt
    <3>2. Handshake(x2, y, f, g)
      BY <1>5, <3>1 DEF Handshake
    <3>3. Crossing(e2, p, x2, y, f, g, n2, m, cs, cp, k)
      BY <1>4, <1>5, <1>6, <3>1 DEF Crossing
    <3> QED
      BY <1>4, <2>1, <3>2, <3>3 DEF TalkAt
  <2>2. CASE s = "remote"
    <3>1. Handshake(y, x, g, f) /\ Crossing(p, e, y, x, g, f, m, n, cp, cs, k)
      BY <1>2, <2>2 DEF TalkAt
    <3>2. Handshake(y, x2, g, f)
      BY <1>5, <3>1 DEF Handshake
    <3>3. y.reply = "SUCCEEDED"
      <4>1. y.reply # "SUCCEEDED" => n <= 0
        BY <1>4, <3>1 DEF Crossing
      <4> QED
        BY <1>1, <4>1 DEF Handled
    <3>4. Crossing(p, e2, y, x2, g, f, m, n2, cp, cs, k)
      BY <1>4, <1>5, <1>6, <3>1, <3>3 DEF Crossing
    <3> QED
      BY <1>4, <2>2, <3>2, <3>4 DEF TalkAt
  <2> QED
    BY <1>1, <2>1, <2>2 DEF Sides
<1>9. Own(s, e2, x2, k, o)
  <2>1. Begun(e2, x2, k) /\ Holding(s, e2, x2, k)
    BY <1>1, <1>3, <1>5, <1>6 DEF Begun, Holding
  <2>2. Hearing(s, e2, x2, k)
    BY <1>1, <1>3, <1>5, <1>6 DEF Hearing, Listens
  <2>3. Reader(s, e2, x2, k)
    BY <1>3, <1>5, <1>6, <1>7 DEF Reader
  <2>4. Levelled(e2, x2, k, o)
    BY <1>1, <1>3, <1>5 DEF Levelled
  <2>5. Shaped(s, x2)
    BY <1>3, <1>5 DEF Shaped, Busy
  <2> QED
    BY <2>1, <2>2, <2>3, <2>4, <2>5 DEF Own
<1>10. Exact(e2, p, x2, y, g, m)
  BY <1>2, <1>5, <1>6 DEF Exact
<1>11. Exact(p, e2, y, x2, "taken", n2)
  <2>1. PICK i \in Nat, j \in Nat, d \in Nat, d2 \in Nat :
           i = y.queued /\ j = y.sent /\ d = x.got /\ d2 = x2.got
    BY <1>1 DEF Session
  <2>2. Waits(x2) <=> Waits(x)
    BY <1>5 DEF Waits
  <2>3. Alive(e) /\ Waits(x) => x.socket = "open"
    BY <1>1, <1>3 DEF Waits, Hearing, Shaped, PoolChannel
  <2>4. Alive(p) /\ Alive(e) /\ Waits(x) => n + d + i = j + 0
    BY <1>2, <1>4, <2>1 DEF Exact
  <2>5. Alive(e) /\ Waits(x) => d2 = d + 1
    BY <1>5, <2>1, <2>3
  <2>6. Alive(p) /\ Alive(e) /\ Waits(x) => n2 + d2 + i = j + 0
    BY <2>4, <2>5 DEF Handled
  <2> QED
    BY <1>6, <2>1, <2>2, <2>6 DEF Exact
<1>12. Goodbye(p, x2, cp, k) /\ Goodbye(e2, y, cs, k)
  BY <1>1, <1>2, <1>5, <1>6 DEF Goodbye
<1>13. ReadAll(e2) /\ ReadAll(p)
  <2>1. Alive(e) => e.ack # "sending"
    BY <1>2 DEF ReadAll, Handled
  <2>2. e2.ack = "sending" /\ e.ack # "sending" => e.ack = "draining"
    BY DEF Handled
  <2>3. ReadAll(e2)
    BY <1>6, <2>1, <2>2 DEF ReadAll, Handled
  <2> QED
    BY <2>3 DEF StoryAt
<1> QED
  BY <1>8, <1>9, <1>10, <1>11, <1>12, <1>13 DEF StoryAt

\* Whichever message a session takes, request, reply or data, its story fits.
LEMMA TakesStory ==
    ASSUME NEW s, NEW e, NEW e2 \in PoolChannel, NEW p, NEW x, NEW x2 \in Session,
           NEW y, NEW o, NEW q, NEW f, NEW g, NEW n, NEW n2 \in Nat, NEW m,
           NEW cs, NEW cp, NEW k, x.reads = k,
           TypedAt(s, e, p, x, y, n, m, cs, cp, k),
           StoryAt(s, e, p, x, y, o, q, f, g, n, m, cs, cp, k),
           Handled(e, e2, n, n2, k), Takes(x, x2, f)
    PROVE  StoryAt(s, e2, p, x2, y, o, q, "taken", g, n2, m, cs, cp, k)
<1>1. x.step \in Reads(s) /\ s \in Sides
  BY DEF StoryAt, Own, Reader, TypedAt
<1>2. CASE x.step = "linked"
  BY <1>2, DataStory
<1>3. CASE s = "local" /\ x.step = "awaiting"
  BY <1>3, ResponseStory
<1>4. CASE s = "remote" /\ x.step = "endpoint"
  BY <1>4, EndpointStory
<1> QED
  BY <1>1, <1>2, <1>3, <1>4 DEF Reads, Sides

\* A CLOSE that finds the other end closing, or past the lease, tells it nothing.
LEMMA AnswerTold ==
    ASSUME NEW s \in Sides, NEW e, NEW p, NEW x, NEW y, NEW o, NEW q, NEW f, NEW g,
           NEW n, NEW m, NEW cs \in BOOLEAN, NEW cp \in BOOLEAN, NEW cp2 \in BOOLEAN,
           NEW k,
           StoryAt(s, e, p, x, y, o, q, f, g, n, m, cs, cp, k),
           cp2 => cp \/ ~ Unclosed(p, k)
    PROVE  StoryAt(s, e, p, x, y, o, q, f, g, n, m, cs, cp2, k)
<1>1. TalkAt(s, e, p, x, y, f, g, n, m, cs, cp2, k)
  <2>1. CASE s = "local"
    <3>1. Handshake(x, y, f, g) /\ Crossing(e, p, x, y, f, g, n, m, cs, cp, k)
      BY <2>1 DEF StoryAt, TalkAt
    <3>2. Crossing(e, p, x, y, f, g, n, m, cs, cp2, k)
      BY <3>1 DEF Crossing
    <3> QED
      BY <2>1, <3>1, <3>2 DEF TalkAt
  <2>2. CASE s = "remote"
    <3>1. Handshake(y, x, g, f) /\ Crossing(p, e, y, x, g, f, m, n, cp, cs, k)
      BY <2>2 DEF StoryAt, TalkAt
    <3>2. Crossing(p, e, y, x, g, f, m, n, cp2, cs, k)
      BY <3>1 DEF Crossing
    <3> QED
      BY <2>2, <3>1, <3>2 DEF TalkAt
  <2> QED
    BY <2>1, <2>2 DEF Sides
<1>2. Goodbye(p, x, cp2, k)
  BY DEF StoryAt, Goodbye
<1> QED
  BY <1>1, <1>2 DEF StoryAt

-----------------------------------------------------------------------------
(* A session stops by itself, and closes its channel. *)

Finishes(e, e2, p, x, x2, cp, cp2, k) ==
    /\ e.state = "OPEN" /\ e.lease = k
    /\ e2.state = "CLOSING" /\ e2.lease = e.lease /\ e2.onceOpened = e.onceOpened
    /\ e2.ack = e.ack
    /\ Alike(x, x2) /\ x.stop = "no" /\ x2.paused = x.paused
    /\ x2.socket = x.socket /\ x2.queued = x.queued /\ x2.sent = x.sent
    /\ \/ x2.stop = "failed" /\ x.step = "failed"
       \/ /\ x2.stop \in {"failed", "socketClosed"} /\ x.step = "linked"
          /\ x.queued = 0
    /\ cp2 => cp \/ Alive(p)

\* A session that closes its channel leaves the handshakes as they were,
LEMMA FinishesTalk ==
    ASSUME NEW s \in Sides, NEW e \in PoolChannel, NEW e2 \in PoolChannel, NEW p,
           NEW x, NEW x2 \in Session, NEW y, NEW f, NEW g, NEW n, NEW m,
           NEW cs, NEW cp, NEW cp2 \in BOOLEAN, NEW k,
           TalkAt(s, e, p, x, y, f, g, n, m, cs, cp, k),
           Finishes(e, e2, p, x, x2, cp, cp2, k)
    PROVE  TalkAt(s, e2, p, x2, y, f, g, n, m, cs, cp2, k)
<1>1. TalkAt(s, e, p, x2, y, f, g, n, m, cs, cp, k)
  BY AlikeTalk DEF Finishes
<1>2. /\ Alive(e) /\ Alive(e2) /\ ~ Unclosed(e2, k) /\ e2.lease = k /\ e.lease = k
      /\ x2.step \in {"linked", "failed"} /\ (cp2 => cp \/ Alive(p))
  BY DEF Finishes, Alive, Unclosed, Alike, PoolChannel
<1>3. CASE s = "local"
  <2>1. Handshake(x2, y, f, g) /\ Crossing(e, p, x2, y, f, g, n, m, cs, cp, k)
    BY <1>1, <1>3 DEF TalkAt
  <2>2. cp2 /\ Unclosed(p, k) => g = "none" \/ f = "taken"
    BY <1>2, <2>1 DEF Crossing, Waiting, Before
  <2>3. Crossing(e2, p, x2, y, f, g, n, m, cs, cp2, k)
    BY <1>2, <2>1, <2>2 DEF Crossing
  <2> QED
    BY <1>3, <2>1, <2>3 DEF TalkAt
<1>4. CASE s = "remote"
  <2>1. Handshake(y, x2, g, f) /\ Crossing(p, e, y, x2, g, f, m, n, cp, cs, k)
    BY <1>1, <1>4 DEF TalkAt
  <2>2. g # "none"
    BY <1>2, <2>1 DEF Crossing
  <2>3. Crossing(p, e2, y, x2, g, f, m, n, cp2, cs, k)
    BY <1>2, <2>1, <2>2 DEF Crossing
  <2> QED
    BY <1>4, <2>1, <2>3 DEF TalkAt
<1> QED
  BY <1>3, <1>4 DEF Sides

\* and its CLOSE follows all that it said.
LEMMA FinishesStory ==
    ASSUME NEW s, NEW e, NEW e2 \in PoolChannel, NEW p, NEW x, NEW x2 \in Session,
           NEW y, NEW o, NEW q, NEW f, NEW g, NEW n, NEW m, NEW cs, NEW cp,
           NEW cp2 \in BOOLEAN, NEW k,
           TypedAt(s, e, p, x, y, n, m, cs, cp, k),
           StoryAt(s, e, p, x, y, o, q, f, g, n, m, cs, cp, k),
           Finishes(e, e2, p, x, x2, cp, cp2, k)
    PROVE  StoryAt(s, e2, p, x2, y, o, q, f, g, n, m, cs, cp2, k)
<1>1. /\ s \in Sides /\ e \in PoolChannel /\ x \in Session /\ y \in Session
      /\ k \in Nat \ {0} /\ EndOK(e)
  BY DEF TypedAt
<1>2. /\ TalkAt(s, e, p, x, y, f, g, n, m, cs, cp, k)
      /\ Exact(e, p, x, y, g, m) /\ Exact(p, e, y, x, f, n)
      /\ Goodbye(p, x, cp, k) /\ Goodbye(e, y, cs, k) /\ ReadAll(e)
  BY DEF StoryAt
<1>3. /\ Begun(e, x, k) /\ Holding(s, e, x, k) /\ Hearing(s, e, x, k)
      /\ Reader(s, e, x, k) /\ Levelled(e, x, k, o) /\ Shaped(s, x)
  BY DEF StoryAt, Own
<1>4. /\ Alive(e) /\ Alive(e2) /\ ~ Unclosed(e2, k) /\ e2.lease = k /\ e.lease = k
      /\ e2.onceOpened = e.onceOpened /\ e2.state = "CLOSING" /\ e2.ack = e.ack
      /\ x.stop = "no" /\ x2.stop \in {"failed", "socketClosed"}
      /\ x.step \in {"linked", "failed"}
      /\ x.step = "linked" => x.queued = 0
      /\ x2.step = x.step /\ x2.reply = x.reply /\ x2.got = x.got
      /\ x2.reads = x.reads /\ x2.listens = x.listens
      /\ x2.paused = x.paused /\ x2.socket = x.socket
      /\ x2.queued = x.queued /\ x2.sent = x.sent
  BY DEF Finishes, Alive, Unclosed, Alike, PoolChannel
<1>5. TalkAt(s, e2, p, x2, y, f, g, n, m, cs, cp2, k)
  BY <1>1, <1>2, FinishesTalk
<1>6. Own(s, e2, x2, k, o)
  <2>1. Begun(e2, x2, k)
    BY <1>3, <1>4 DEF Begun
  <2>2. Holding(s, e2, x2, k)
    BY <1>3, <1>4 DEF Holding, Busy
  <2>3. Hearing(s, e2, x2, k)
    BY <1>3, <1>4 DEF Hearing, Listens
  <2>4. Reader(s, e2, x2, k)
    BY <1>3, <1>4 DEF Reader
  <2>5. Levelled(e2, x2, k, o)
    BY <1>3, <1>4 DEF Levelled
  <2>6. Shaped(s, x2)
    BY <1>3, <1>4 DEF Shaped, Busy
  <2> QED
    BY <2>1, <2>2, <2>3, <2>4, <2>5, <2>6 DEF Own
<1>7. Exact(e2, p, x2, y, g, m) /\ Exact(p, e2, y, x2, f, n)
  BY <1>2, <1>4 DEF Exact, Waits
<1>8. Goodbye(p, x2, cp2, k) /\ Goodbye(e2, y, cs, k)
  BY <1>2, <1>4 DEF Goodbye
<1>9. ReadAll(e2) /\ ReadAll(p)
  <2>1. e2.ack = "none"
    BY <1>1, <1>4 DEF Finishes, EndOK, AckOwed, PoolChannel
  <2> QED
    BY <2>1 DEF ReadAll, StoryAt
<1> QED
  BY <1>5, <1>6, <1>7, <1>8, <1>9 DEF StoryAt

-----------------------------------------------------------------------------
(* From the state of the system to the story of a lease, and back. *)

FirstType ==
    [Sides -> [Channels -> [Leases ->
        {"none", "request", "data", "taken"} \cup Reply]]]

OverflowType == [Sides -> [Channels -> [high : BOOLEAN, listener : 0 .. MaxLeases]]]

\* What a step of session k of end s of channel c does to the pool's channels,
WiredAs(s, c, k) ==
    /\ chan'[Peer(s)][c] = chan[Peer(s)][c]
    /\ \/ chan'[s][c] = chan[s][c]
       \/ chan[s][c].lease = k /\ Works(chan[s][c], chan'[s][c])
    /\ \A t \in Sides, j \in Leases : j # k =>
          /\ BehindNow(t, c, j) = BehindOf(t, c, j)
          /\ Closing(wire'[t][c], j) <=> Closing(wire[t][c], j)
    /\ Straight(c)'

\* to what is first in them,
FirstAs(c, k) ==
    /\ first' \in FirstType
    /\ \A t \in Sides, d \in Channels : d # c => first'[t][d] = first[t][d]
    /\ \A t \in Sides, j \in Leases : j # k => first'[t][c][j] = first[t][c][j]

\* to their overflow,
OverflowAs(s, c, k) ==
    /\ overflow' \in OverflowType
    /\ \A t \in Sides, d \in Channels : d # c => overflow'[t][d] = overflow[t][d]
    /\ overflow'[Peer(s)][c] = overflow[Peer(s)][c]
    /\ \/ overflow'[s][c] = overflow[s][c]
       \/ /\ overflow'[s][c].listener = overflow[s][c].listener
          /\ overflow[s][c].listener \in {0, k}
       \/ overflow'[s][c].listener = k /\ chan[s][c].lease = k

\* and to the sessions.
SessionAs(s, c, k, x) ==
    /\ session' \in [Sides -> [Channels -> [Leases -> Session]]]
    /\ session'[s][c][k] = x
    /\ \A t \in Sides, d \in Channels :
          t # s \/ d # c => session'[t][d] = session[t][d]
    /\ \A j \in Leases : j # k => session'[s][c][j] = session[s][c][j]

\* When one session is replaced, all the others are the same.
LEMMA OneSession ==
    ASSUME SessionsTypeOK, NEW s \in Sides, NEW c \in Channels, NEW k \in Leases,
           NEW x \in Session, session' = [session EXCEPT ![s][c][k] = x]
    PROVE  SessionAs(s, c, k, x)
<1>1. session \in [Sides -> [Channels -> [Leases -> Session]]]
  BY DEF SessionsTypeOK
<1> QED
  BY <1>1 DEF SessionAs

\* The step keeps the invariant if it keeps the story of its own lease.
LEMMA ActKeeps ==
    ASSUME IInv, IInv', LinkInv, SessionsTypeOK, NEW s \in Sides, NEW c \in Channels,
           c \notin missed, Kept(c),
           NEW k \in Leases, NEW x \in Session, NEW p, p = Peer(s),
           session' = [session EXCEPT ![s][c][k] = x],
           WiredAs(s, c, k), FirstAs(c, k), OverflowAs(s, c, k),
           StoryAt(s, chan'[s][c], chan[p][c], x, session[p][c][k],
                   overflow'[s][c], overflow[p][c],
                   first'[s][c][k], first'[p][c][k],
                   BehindNow(s, c, k), BehindNow(p, c, k),
                   Closing(wire'[s][c], k), Closing(wire'[p][c], k), k)
    PROVE  Kept(c)'
<1>1. SessionsTypeOK /\ k \in Nat
  BY DEF Kept, Leases
<1>2. p \in Sides /\ p # s
  BY DEF Peer, Sides
<1>0. SessionAs(s, c, k, x)
  BY <1>1, OneSession
<1>3. /\ session' \in [Sides -> [Channels -> [Leases -> Session]]]
      /\ session'[s][c][k] = x
      /\ \A t \in Sides, d \in Channels :
            t # s \/ d # c => session'[t][d] = session[t][d]
      /\ \A j \in Leases : j # k => session'[s][c][j] = session[s][c][j]
  BY <1>0 DEF SessionAs
<1>4. Straight(c)'
  BY DEF WiredAs
<1>5. Apartly(s, c)
  BY <1>2, <1>3 DEF Apartly, WiredAs, FirstAs, OverflowAs
<1>6. Confined(s, c, k)
  <2>1. \A t \in Sides, j \in Leases : j # k =>
           session'[t][c][j] = session[t][c][j]
    BY <1>3
  <2> QED
    BY <2>1 DEF Confined, WiredAs, FirstAs, OverflowAs
<1>7. /\ chan'[p][c] = chan[p][c] /\ overflow'[p][c] = overflow[p][c]
      /\ session'[p][c][k] = session[p][c][k]
  BY <1>2, <1>3 DEF WiredAs, OverflowAs
<1>8. StoryAt(s, chan'[s][c], chan'[p][c], session'[s][c][k],
              session'[p][c][k], overflow'[s][c], overflow'[p][c],
              first'[s][c][k], first'[p][c][k],
              BehindNow(s, c, k), BehindNow(p, c, k),
              Closing(wire'[s][c], k), Closing(wire'[p][c], k), k)
  BY <1>3, <1>7
<1>9. Story(c, k)'
  BY <1>8, StoryLater
<1>10. ReadAll(chan'[s][c])
  BY <1>8 DEF StoryAt
<1> QED
  BY <1>1, <1>4, <1>5, <1>6, <1>9, <1>10, WorkKeeps

\* The story of lease k, were its session at end s x, and the overflow o; p is
\* the other end.
StoryWith(s, c, k, p, x, o) ==
    StoryAt(s, chan[s][c], chan[p][c], x, session[p][c][k], o, overflow[p][c],
            first[s][c][k], first[p][c][k], BehindOf(s, c, k), BehindOf(p, c, k),
            Closing(wire[s][c], k), Closing(wire[p][c], k), k)

TypedNow(s, c, k, p) ==
    TypedAt(s, chan[s][c], chan[p][c], session[s][c][k], session[p][c][k],
            BehindOf(s, c, k), BehindOf(p, c, k),
            Closing(wire[s][c], k), Closing(wire[p][c], k), k)

\* The invariant, as the story of one lease seen from end s.
LEMMA StoryIs ==
    ASSUME IInv, LinkInv, SessionsTypeOK, NEW s \in Sides, NEW c \in Channels,
           c \notin missed, Kept(c),
           NEW k \in Leases, NEW p, p = Peer(s)
    PROVE  /\ StoryWith(s, c, k, p, session[s][c][k], overflow[s][c])
           /\ TypedNow(s, c, k, p)
BY StoryNow DEF StoryWith, TypedNow

\* A step that leaves the channels alone keeps the invariant if it keeps the
\* story.
LEMMA SilentKeeps ==
    ASSUME IInv, IInv', LinkInv, SessionsTypeOK, NEW s \in Sides, NEW c \in Channels,
           c \notin missed, Kept(c),
           NEW k \in Leases, NEW x \in Session, NEW p, p = Peer(s),
           session' = [session EXCEPT ![s][c][k] = x],
           UNCHANGED <<poolVars, first, strayed>>, OverflowAs(s, c, k),
           StoryWith(s, c, k, p, x, overflow'[s][c])
    PROVE  Kept(c)'
<1>1. /\ chan' = chan /\ wire' = wire /\ first' = first /\ Straight(c)'
  BY DEF poolVars, Kept, Straight
<1>2. WiredAs(s, c, k)
  BY <1>1 DEF WiredAs, BehindNow, BehindOf
<1>3. FirstAs(c, k)
  BY <1>1 DEF FirstAs, FirstType, Kept, SessionsTypeOK
<1>4. BehindNow(s, c, k) = BehindOf(s, c, k) /\ BehindNow(p, c, k) = BehindOf(p, c, k)
  BY <1>1 DEF BehindNow, BehindOf
<1>5. StoryAt(s, chan'[s][c], chan[p][c], x, session[p][c][k],
              overflow'[s][c], overflow[p][c],
              first'[s][c][k], first'[p][c][k],
              BehindNow(s, c, k), BehindNow(p, c, k),
              Closing(wire'[s][c], k), Closing(wire'[p][c], k), k)
  BY <1>1, <1>4 DEF StoryWith
<1> QED
  BY <1>2, <1>3, <1>5, ActKeeps

\* Nothing happens to the overflow of any channel.
LEMMA SameOverflow ==
    ASSUME SessionsTypeOK, UNCHANGED overflow, NEW s, NEW c, NEW k
    PROVE  OverflowAs(s, c, k)
BY DEF OverflowAs, OverflowType, SessionsTypeOK

\* A handler that is set in the session's own lease replaces no other's.
LEMMA ReadingOwn ==
    ASSUME IInv, LinkInv, SessionsTypeOK, NEW s \in Sides, NEW c \in Channels,
           c \notin missed, Kept(c),
           NEW k \in Leases, chan[s][c].lease = k, NEW x \in Session,
           Reading(s, c, k, x)
    PROVE  session' = [session EXCEPT ![s][c][k] = [x EXCEPT !.reads = k]]
<1>1. ASSUME NEW j \in Leases, j # k PROVE session[s][c][j].reads # k
  <2>1. OwnOf(s, c, j) /\ j \in Nat \ {0}
    BY StoryTyped
  <2> QED
    BY <1>1, <2>1 DEF OwnOf, Own, Reader, Leases
<1>2. session \in [Sides -> [Channels -> [Leases -> Session]]]
  BY DEF Kept, SessionsTypeOK
<1>3. PICK x2 : x2 = [x EXCEPT !.reads = k]
  OBVIOUS
<1>4. [j \in Leases |->
          IF j = k THEN x2
          ELSE IF session[s][c][j].reads = k THEN [session[s][c][j] EXCEPT !.reads = 0]
          ELSE session[s][c][j]] = [session[s][c] EXCEPT ![k] = x2]
  BY <1>1, <1>2
<1> QED
  BY <1>3, <1>4, <1>2 DEF Reading

-----------------------------------------------------------------------------
(* The steps that leave the channels alone. *)

\* What all of them leave alone.
Silent(s, c, k, x) ==
    /\ session' = [session EXCEPT ![s][c][k] = x]
    /\ UNCHANGED <<poolVars, first, strayed>>

\* A move of the local handshake that sends nothing keeps the invariant.
LEMMA SocksKeeps ==
    ASSUME IInv, IInv', LinkInv, SessionsTypeOK, NEW c \in Channels, c \notin missed,
           Kept(c), NEW k \in Leases,
           NEW x \in Session, Silent("local", c, k, x), UNCHANGED overflow,
           SocksMoves(chan["local"][c], chan["remote"][c],
                      session["local"][c][k], x, k)
    PROVE  Kept(c)'
<1>1. "local" \in Sides /\ "remote" = Peer("local")
  BY DEF Sides, Peer
<1>2. /\ StoryWith("local", c, k, "remote", session["local"][c][k],
                   overflow["local"][c])
      /\ TypedNow("local", c, k, "remote")
  BY <1>1, StoryIs
<1>3. StoryWith("local", c, k, "remote", x, overflow["local"][c])
  BY <1>2, SocksStory DEF StoryWith, TypedNow
<1>4. OverflowAs("local", c, k)
  BY SameOverflow
<1> QED
  BY <1>1, <1>3, <1>4, SilentKeeps DEF Silent

\* So does a move of the remote handshake,
LEMMA RtcKeeps ==
    ASSUME IInv, IInv', LinkInv, SessionsTypeOK, NEW c \in Channels, c \notin missed,
           Kept(c), NEW k \in Leases,
           NEW x \in Session, Silent("remote", c, k, x), UNCHANGED overflow,
           RtcMoves(chan["remote"][c], session["remote"][c][k], x, k)
    PROVE  Kept(c)'
<1>1. "remote" \in Sides /\ "local" = Peer("remote")
  BY DEF Sides, Peer
<1>2. /\ StoryWith("remote", c, k, "local", session["remote"][c][k],
                   overflow["remote"][c])
      /\ TypedNow("remote", c, k, "local")
  BY <1>1, StoryIs
<1>3. StoryWith("remote", c, k, "local", x, overflow["remote"][c])
  BY <1>2, RtcStory DEF StoryWith, TypedNow
<1>4. OverflowAs("remote", c, k)
  BY SameOverflow
<1> QED
  BY <1>1, <1>3, <1>4, SilentKeeps DEF Silent

\* a session that stops without closing its channel,
LEMMA StopsKeeps ==
    ASSUME IInv, IInv', LinkInv, SessionsTypeOK, NEW s \in Sides, NEW c \in Channels,
           c \notin missed, Kept(c),
           NEW k \in Leases, NEW x \in Session, Silent(s, c, k, x),
           UNCHANGED overflow, Stops(chan[s][c], session[s][c][k], x, k)
    PROVE  Kept(c)'
<1>1. PICK p : p = Peer(s)
  OBVIOUS
<1>2. /\ StoryWith(s, c, k, p, session[s][c][k], overflow[s][c])
      /\ TypedNow(s, c, k, p)
  BY <1>1, StoryIs
<1>3. StoryWith(s, c, k, p, x, overflow[s][c])
  BY <1>2, StopsStory DEF StoryWith, TypedNow
<1>4. OverflowAs(s, c, k)
  BY SameOverflow
<1> QED
  BY <1>1, <1>3, <1>4, SilentKeeps DEF Silent

\* and what happens at the socket of a linked session.
LEMMA SocketKeeps ==
    ASSUME IInv, IInv', LinkInv, SessionsTypeOK, Quiet, NEW s \in Sides,
           NEW c \in Channels, c \notin missed, Kept(c), NEW k \in Leases,
           NEW x \in Session,
           Silent(s, c, k, x), OverflowAs(s, c, k),
           SocketMoves(chan[s][c], session[s][c][k], x, overflow[s][c],
                       overflow'[s][c], k)
    PROVE  Kept(c)'
<1>1. PICK p : p = Peer(s)
  OBVIOUS
<1>2. /\ StoryWith(s, c, k, p, session[s][c][k], overflow[s][c])
      /\ TypedNow(s, c, k, p)
  BY <1>1, StoryIs
<1>3. Idle(chan[s][c], session[s][c][k], k)
  BY QuietIsIdle DEF Kept
<1>4. StoryWith(s, c, k, p, x, overflow'[s][c])
  BY <1>2, <1>3, SocketStory DEF StoryWith, TypedNow
<1> QED
  BY <1>1, <1>4, SilentKeeps DEF Silent

\* linkSocketAndChannel: both ends of the session are heard from now on.
LEMMA LinkKeeps ==
    ASSUME IInv, IInv', LinkInv, SessionsTypeOK, NEW s \in Sides, NEW c \in Channels,
           c \notin missed, Kept(c),
           NEW k \in Leases, Link(s, c, k)
    PROVE  Kept(c)'
<1>1. PICK p : p = Peer(s)
  OBVIOUS
<1>2. /\ StoryWith(s, c, k, p, session[s][c][k], overflow[s][c])
      /\ TypedNow(s, c, k, p)
  BY <1>1, StoryIs
<1>3. PICK me \in Session : me = session[s][c][k]
  BY DEF Kept, SessionsTypeOK
<1>4. overflow \in OverflowType
  BY DEF Kept, SessionsTypeOK, OverflowType
<1>5. PICK high \in Levels(s, c) :
         /\ overflow' = [overflow EXCEPT ![s][c] = [high |-> high, listener |-> k]]
         /\ Become(s, c, k, [me EXCEPT !.paused = IF high THEN "overflow" ELSE "no"])
  BY <1>3 DEF Link
<1>6. high \in BOOLEAN /\ k \in 0 .. MaxLeases
  <2>1. overflow[s][c].high \in BOOLEAN
    BY <1>4 DEF OverflowType
  <2>2. high = overflow[s][c].high \/ high = TRUE
    BY DEF Levels
  <2>3. k \in 0 .. MaxLeases
    BY DEF Leases
  <2> QED
    BY <2>1, <2>2, <2>3
<1>7. PICK x \in Session : x = [me EXCEPT !.paused = IF high THEN "overflow" ELSE "no"]
  BY <1>3 DEF Session
<1>8. /\ overflow' \in OverflowType
      /\ overflow'[s][c] = [high |-> high, listener |-> k]
      /\ \A t \in Sides, d \in Channels : t # s \/ d # c =>
            overflow'[t][d] = overflow[t][d]
  BY <1>4, <1>5, <1>6 DEF OverflowType
<1>9. PICK o2 : o2 = overflow'[s][c]
  OBVIOUS
<1>10. o2.high = high /\ o2.listener = k
  BY <1>8, <1>9
<1>11. me.step = "linked" /\ me.queued = 0 /\ me.paused = "handshake"
  BY <1>3 DEF Link
<1>12. Links(me, x, overflow[s][c], o2, k)
  BY <1>3, <1>6, <1>7, <1>10, <1>11 DEF Links, Alike, Session
<1>13. StoryWith(s, c, k, p, x, overflow'[s][c]) /\ chan[s][c].lease = k
  BY <1>2, <1>3, <1>9, <1>12, LinksStory DEF StoryWith, TypedNow
<1>14. OverflowAs(s, c, k)
  <2>1. Peer(s) \in Sides /\ Peer(s) # s
    BY DEF Peer, Sides
  <2> QED
    BY <1>8, <1>9, <1>10, <1>13, <2>1 DEF OverflowAs
<1>15. session' = [session EXCEPT ![s][c][k] = x]
  BY <1>5, <1>7 DEF Become
<1>16. UNCHANGED <<poolVars, first, strayed>>
  BY DEF Link
<1> QED
  BY <1>1, <1>13, <1>14, <1>15, <1>16, SilentKeeps

\* What is known of a session.
LEMMA OwnIs ==
    ASSUME IInv, LinkInv, SessionsTypeOK, NEW s \in Sides, NEW c \in Channels,
           c \notin missed, Kept(c),
           NEW k \in Leases
    PROVE  /\ k \in Nat \ {0} /\ session[s][c][k] \in Session
           /\ chan[s][c] \in PoolChannel /\ EndOK(chan[s][c])
           /\ Own(s, chan[s][c], session[s][c][k], k, overflow[s][c])
<1>1. /\ k \in Nat \ {0}
      /\ \A t \in Sides : /\ chan[t][c] \in PoolChannel
                          /\ session[t][c][k] \in Session
                          /\ OwnOf(t, c, k)
  BY StoryTyped
<1>2. EndOK(chan[s][c])
  BY Knows DEF LinkOf, Linked, Sides
<1> QED
  BY <1>1, <1>2 DEF OwnOf

\* A leased channel gets its session.
LEMMA StartKeeps ==
    ASSUME IInv, IInv', LinkInv, SessionsTypeOK, NEW s \in Sides, NEW c \in Channels,
           c \notin missed, Kept(c),
           Start(s, c), UNCHANGED overflow
    PROVE  Kept(c)'
<1>1. PICK k \in Leases : k = chan[s][c].lease
  BY DEF Start
<1>2. /\ chan[s][c].onceOpened = "settled" /\ session[s][c][k].step = "none"
      /\ UNCHANGED <<poolVars, first, strayed>>
  BY <1>1 DEF Start
<1>3. /\ k \in Nat \ {0} /\ session[s][c][k] \in Session
      /\ Own(s, chan[s][c], session[s][c][k], k, overflow[s][c])
  BY OwnIs
<1>4. session[s][c][k] = NoSession
  BY <1>2, <1>3 DEF Own, Begun
<1>5. CASE s = "local"
  <2>1. PICK socket \in {"open", "gone"} :
           Become(s, c, k, [NoSession EXCEPT !.step = "auth", !.socket = socket])
    BY <1>1, <1>5 DEF Start
  <2>2. PICK x : x = [NoSession EXCEPT !.step = "auth", !.socket = socket]
    OBVIOUS
  <2>3. /\ x \in Session /\ x.step = "auth" /\ x.socket \in {"open", "gone"}
        /\ x.queued = 0 /\ x.sent = 0 /\ x.got = 0 /\ x.stop = "no"
        /\ x.reads = 0 /\ x.listens = 0 /\ x.paused = "no" /\ x.reply = "none"
    BY <2>2 DEF NoSession, Session, SocksStep
  <2>4. SocksMoves(chan[s][c], chan["remote"][c], session[s][c][k], x, k)
    BY <1>1, <1>2, <1>4, <2>3 DEF SocksMoves, NoSession, Reads
  <2>5. Silent(s, c, k, x)
    BY <1>2, <2>1, <2>2 DEF Silent, Become
  <2> QED
    BY <1>5, <2>3, <2>4, <2>5, SocksKeeps
<1>6. CASE s = "remote"
  <2>1. PICK me : me = [NoSession EXCEPT !.step = "endpoint", !.listens = k]
    OBVIOUS
  <2>2. Reading(s, c, k, me)
    BY <1>1, <1>6, <2>1 DEF Start
  <2>3. me \in Session
    BY <1>3, <2>1 DEF NoSession, Session, RtcStep
  <2>4. session' = [session EXCEPT ![s][c][k] = [me EXCEPT !.reads = k]]
    BY <1>1, <2>2, <2>3, ReadingOwn
  <2>5. PICK x : x = [me EXCEPT !.reads = k]
    OBVIOUS
  <2>6. /\ x \in Session /\ x.step = "endpoint" /\ x.socket = "none"
        /\ x.queued = 0 /\ x.sent = 0 /\ x.got = 0 /\ x.stop = "no"
        /\ x.reads = k /\ x.listens = k /\ x.paused = "no" /\ x.reply = "none"
    BY <1>3, <2>1, <2>5 DEF NoSession, Session, RtcStep
  <2>7. RtcMoves(chan[s][c], session[s][c][k], x, k)
    BY <1>1, <1>2, <1>4, <2>6 DEF RtcMoves, NoSession, Reads
  <2>8. Silent(s, c, k, x)
    BY <1>2, <2>4, <2>5 DEF Silent
  <2> QED
    BY <1>6, <2>6, <2>7, <2>8, RtcKeeps
<1> QED
  BY <1>5, <1>6 DEF Sides

\* The client proposes its ways to authenticate.
LEMMA ReceiveAuthKeeps ==
    ASSUME IInv, IInv', LinkInv, SessionsTypeOK, NEW c \in Channels, c \notin missed,
           Kept(c), NEW k \in Leases,
           ReceiveAuth(c, k), UNCHANGED overflow
    PROVE  Kept(c)'
<1>1. PICK me \in Session : me = session["local"][c][k]
  BY DEF Kept, SessionsTypeOK, Sides
<1>2. Own("local", chan["local"][c], me, k, overflow["local"][c])
  BY <1>1, OwnIs DEF Sides
<1>3. /\ me.step = "auth" /\ UNCHANGED <<poolVars, first, strayed>>
  BY <1>1 DEF ReceiveAuth
<1>4. PICK step \in {"request", "failed"} :
         Become("local", c, k, [me EXCEPT !.step = step])
  BY <1>1 DEF ReceiveAuth
<1>5. PICK x : x = [me EXCEPT !.step = step]
  OBVIOUS
<1>6. /\ x \in Session /\ x.step \in {"request", "failed"} /\ x.socket = me.socket
      /\ x.queued = me.queued /\ x.sent = me.sent /\ x.got = me.got
      /\ x.stop = me.stop /\ x.reads = me.reads /\ x.listens = me.listens
      /\ x.paused = me.paused /\ x.reply = me.reply
  BY <1>5 DEF Session, SocksStep
<1>7. SocksMoves(chan["local"][c], chan["remote"][c], me, x, k)
  BY <1>2, <1>3, <1>6 DEF SocksMoves, Own, Holding, Held, Busy, Reader, Reads
<1>8. Silent("local", c, k, x)
  BY <1>3, <1>4, <1>5 DEF Silent, Become
<1> QED
  BY <1>1, <1>6, <1>7, <1>8, SocksKeeps

\* The answer to a client.
LEMMA AnswerIs ==
    ASSUME NEW me \in Session, NEW reply \in Reply, NEW x, x = Answering(me, reply)
    PROVE  /\ x \in Session /\ x.socket = me.socket /\ x.reply = reply
           /\ x.step = IF me.socket = "open" THEN "answering" ELSE "unanswered"
           /\ x.queued = me.queued /\ x.sent = me.sent /\ x.got = me.got
           /\ x.stop = me.stop /\ x.reads = me.reads /\ x.listens = me.listens
           /\ x.paused = me.paused
<1>1. PICK step \in SocksStep :
         step = IF me.socket = "open" THEN "answering" ELSE "unanswered"
  BY DEF SocksStep
<1>2. x = [me EXCEPT !.reply = reply, !.step = step]
  BY <1>1 DEF Answering
<1> QED
  BY <1>1, <1>2 DEF Session

\* A client is answered FAILURE.
LEMMA FailureKeeps ==
    ASSUME IInv, IInv', LinkInv, SessionsTypeOK, NEW c \in Channels, c \notin missed,
           Kept(c), NEW k \in Leases,
           NEW me \in Session, me = session["local"][c][k],
           me.step = "request" \/ (me.step = "sending" /\ Broken(c)),
           Become("local", c, k, Answering(me, "FAILURE")),
           UNCHANGED <<poolVars, first, strayed>>, UNCHANGED overflow
    PROVE  Kept(c)'
<1>1. Own("local", chan["local"][c], me, k, overflow["local"][c])
  BY OwnIs DEF Sides
<1>2. PICK x : x = Answering(me, "FAILURE")
  OBVIOUS
<1>3. /\ x \in Session /\ x.socket = me.socket /\ x.reply = "FAILURE"
      /\ x.step = IF me.socket = "open" THEN "answering" ELSE "unanswered"
      /\ x.queued = me.queued /\ x.sent = me.sent /\ x.got = me.got
      /\ x.stop = me.stop /\ x.reads = me.reads /\ x.listens = me.listens
      /\ x.paused = me.paused
  BY <1>2, AnswerIs DEF Reply
<1>4. Broken(c) => ~ (Alive(chan["local"][c]) /\ Alive(chan["remote"][c]))
  BY Knows
<1>5. SocksMoves(chan["local"][c], chan["remote"][c], me, x, k)
  BY <1>1, <1>3, <1>4 DEF SocksMoves, Own, Holding, Held, Busy, Reader, Reads
<1>6. Silent("local", c, k, x)
  BY <1>2 DEF Silent, Become
<1> QED
  BY <1>3, <1>5, <1>6, SocksKeeps

\* The send of the request settles.
LEMMA RequestSentKeeps ==
    ASSUME IInv, IInv', LinkInv, SessionsTypeOK, NEW c \in Channels, c \notin missed,
           Kept(c), NEW k \in Leases,
           RequestSent(c, k), UNCHANGED overflow
    PROVE  Kept(c)'
<1>1. PICK me \in Session : me = session["local"][c][k]
  BY DEF Kept, SessionsTypeOK, Sides
<1>0. "local" \in Sides
  BY DEF Sides
<1>2. /\ me.step = "sending" /\ UNCHANGED <<poolVars, first, strayed>>
  BY <1>1 DEF RequestSent
<1>3. Own("local", chan["local"][c], me, k, overflow["local"][c]) /\ k \in Nat \ {0}
  BY <1>1, OwnIs DEF Sides
<1>4. chan["local"][c].lease = k
  BY <1>2, <1>3 DEF Own, Holding, Held, Busy
<1>5. CASE Reading("local", c, k, [me EXCEPT !.step = "awaiting"])
  <2>1. PICK me2 : me2 = [me EXCEPT !.step = "awaiting"]
    OBVIOUS
  <2>2. me2 \in Session
    BY <2>1 DEF Session, SocksStep
  <2>3. session' = [session EXCEPT !["local"][c][k] = [me2 EXCEPT !.reads = k]]
    <3>1. Reading("local", c, k, me2)
      BY <1>5, <2>1
    <3> QED
      BY <1>0, <1>4, <2>2, <3>1, ReadingOwn
  <2>4. PICK x : x = [me2 EXCEPT !.reads = k]
    OBVIOUS
  <2>5. /\ x \in Session /\ x.step = "awaiting" /\ x.socket = me.socket
        /\ x.queued = me.queued /\ x.sent = me.sent /\ x.got = me.got
        /\ x.stop = me.stop /\ x.reads = k /\ x.listens = me.listens
        /\ x.paused = me.paused /\ x.reply = me.reply
    BY <1>3, <2>1, <2>4 DEF Session, SocksStep
  <2>6. SocksMoves(chan["local"][c], chan["remote"][c], me, x, k)
    BY <1>2, <1>4, <2>5 DEF SocksMoves, Reads
  <2>7. Silent("local", c, k, x)
    BY <1>2, <2>3, <2>4 DEF Silent
  <2> QED
    BY <1>1, <2>5, <2>6, <2>7, SocksKeeps
<1>6. CASE Broken(c) /\ Become("local", c, k, Answering(me, "FAILURE"))
  BY <1>1, <1>2, <1>6, FailureKeeps
<1> QED
  BY <1>1, <1>5, <1>6 DEF RequestSent

\* The client has its answer.
LEMMA AnsweredKeeps ==
    ASSUME IInv, IInv', LinkInv, SessionsTypeOK, NEW c \in Channels, c \notin missed,
           Kept(c), NEW k \in Leases, c \notin late',
           Answered(c, k), UNCHANGED overflow
    PROVE  Kept(c)'
<1>1. PICK me \in Session : me = session["local"][c][k]
  BY DEF Kept, SessionsTypeOK, Sides
<1>0. "local" \in Sides
  BY DEF Sides
<1>2. /\ me.step = "answering" /\ UNCHANGED <<poolVars, first, strayed>>
  BY <1>1 DEF Answered
<1>3. Own("local", chan["local"][c], me, k, overflow["local"][c]) /\ k \in Nat \ {0}
  BY <1>1, OwnIs DEF Sides
<1>4. GoesOn("local", c, k) => chan["local"][c].lease = k
  BY DEF GoesOn
<1>5. PICK next : next = LinkedOrNot(me)
  OBVIOUS
<1>6. /\ next \in Session /\ next.socket = me.socket /\ next.reply = me.reply
      /\ next.step = IF me.reply = "SUCCEEDED" THEN "linked" ELSE "failed"
      /\ next.queued = me.queued /\ next.sent = me.sent /\ next.got = me.got
      /\ next.stop = me.stop /\ next.reads = me.reads
      /\ next.listens = me.listens /\ next.paused = me.paused
  BY <1>5 DEF LinkedOrNot, Session
<1>7. me.reads = 0
  BY <1>2, <1>3 DEF Own, Reader, Reads
<1>8. CASE /\ next.step = "linked"
           /\ Reading("local", c, k, [next EXCEPT !.listens = chan["local"][c].lease])
           /\ chan["local"][c].lease = k
  <2>1. PICK me2 : me2 = [next EXCEPT !.listens = k]
    OBVIOUS
  <2>2. me2 \in Session
    BY <1>3, <1>6, <2>1 DEF Session
  <2>3. session' = [session EXCEPT !["local"][c][k] = [me2 EXCEPT !.reads = k]]
    <3>1. Reading("local", c, k, me2)
      BY <1>8, <2>1
    <3> QED
      BY <1>0, <1>8, <2>2, <3>1, ReadingOwn
  <2>4. PICK x : x = [me2 EXCEPT !.reads = k]
    OBVIOUS
  <2>5. /\ x \in Session /\ x.step = "linked" /\ x.socket = me.socket
        /\ x.queued = me.queued /\ x.sent = me.sent /\ x.got = me.got
        /\ x.stop = me.stop /\ x.reads = k /\ x.listens = k
        /\ x.paused = me.paused /\ x.reply = me.reply
    BY <1>3, <1>6, <1>8, <2>1, <2>4 DEF Session
  <2>6. SocksMoves(chan["local"][c], chan["remote"][c], me, x, k)
    BY <1>2, <1>6, <1>8, <2>5 DEF SocksMoves, Reads
  <2>7. Silent("local", c, k, x)
    BY <1>2, <2>3, <2>4 DEF Silent
  <2> QED
    BY <1>1, <2>5, <2>6, <2>7, SocksKeeps
<1>9. CASE /\ next.step = "failed" \/ me.socket = "gone"
           /\ Become("local", c, k, [me EXCEPT !.step = "failed"])
           /\ chan["local"][c].state = "OPEN" => chan["local"][c].lease = k
  <2>1. PICK x : x = [me EXCEPT !.step = "failed"]
    OBVIOUS
  <2>2. /\ x \in Session /\ x.step = "failed" /\ x.socket = me.socket
        /\ x.queued = me.queued /\ x.sent = me.sent /\ x.got = me.got
        /\ x.stop = me.stop /\ x.reads = me.reads /\ x.listens = me.listens
        /\ x.paused = me.paused /\ x.reply = me.reply
    BY <2>1 DEF Session
  <2>3. SocksMoves(chan["local"][c], chan["remote"][c], me, x, k)
    <3>1. x.reads = 0
      BY <1>7, <2>2
    <3>2. me.reply = "SUCCEEDED" => me.socket = "gone"
      BY <1>6, <1>9
    <3> QED
      BY <1>2, <1>9, <2>2, <3>1, <3>2 DEF SocksMoves, Reads
  <2>4. Silent("local", c, k, x)
    BY <1>2, <1>9, <2>1 DEF Silent, Become
  <2> QED
    BY <1>1, <2>2, <2>3, <2>4, SocksKeeps
<1> QED
  BY <1>1, <1>4, <1>5, <1>8, <1>9 DEF Answered

\* The connection to the endpoint comes to something.
LEMMA ConnectsKeeps ==
    ASSUME IInv, IInv', LinkInv, SessionsTypeOK, NEW c \in Channels, c \notin missed,
           Kept(c), NEW k \in Leases,
           Connects(c, k), UNCHANGED overflow
    PROVE  Kept(c)'
<1>1. PICK me \in Session : me = session["remote"][c][k]
  BY DEF Kept, SessionsTypeOK, Sides
<1>2. /\ me.step = "connecting" /\ UNCHANGED <<poolVars, first, strayed>>
  BY <1>1 DEF Connects
<1>3. Own("remote", chan["remote"][c], me, k, overflow["remote"][c])
  BY <1>1, OwnIs DEF Sides
<1>4. PICK reply \in {"SUCCEEDED", "FAILURE"}, socket \in {"open", "gone"} :
         /\ reply = "SUCCEEDED" => socket = "open"
         /\ Become("remote", c, k, [me EXCEPT !.step = "replying",
                                              !.reply = reply, !.socket = socket])
  BY <1>1 DEF Connects
<1>5. PICK x : x = [me EXCEPT !.step = "replying", !.reply = reply,
                              !.socket = socket]
  OBVIOUS
<1>6. /\ x \in Session /\ x.step = "replying" /\ x.socket = socket
      /\ x.queued = me.queued /\ x.sent = me.sent /\ x.got = me.got
      /\ x.stop = me.stop /\ x.reads = me.reads /\ x.listens = me.listens
      /\ x.paused = me.paused /\ x.reply = reply
  BY <1>5 DEF Session, RtcStep, Reply
<1>7. RtcMoves(chan["remote"][c], me, x, k)
  <2>1. chan["remote"][c].lease = k /\ me.listens = k /\ me.reads = 0
    BY <1>2, <1>3 DEF Own, Holding, Held, Busy, Hearing, Listens, Reader, Reads
  <2> QED
    BY <1>2, <1>4, <1>6, <2>1 DEF RtcMoves, Reads
<1>8. Silent("remote", c, k, x)
  BY <1>2, <1>4, <1>5 DEF Silent, Become
<1> QED
  BY <1>1, <1>6, <1>7, <1>8, RtcKeeps

\* Why a session stops, as far as the proof needs it.
StopsFor(e, x, why, k) ==
    /\ x.stop = "no"
    /\ \/ why = "failed" /\ x.step = "failed"
       \/ why = "failed" /\ x.step = "linked" /\ x.queued = 0 /\ e.lease = k
       \/ why = "socketClosed" /\ x.step = "linked" /\ x.queued = 0
          /\ x.socket = "gone"
       \/ why = "channelClosed" /\ x.listens # 0
          /\ (x.listens < e.lease \/ e.onceClosed = "settled")

\* What makes a session stop by itself, in the words of the invariant.
LEMMA DueIs ==
    ASSUME NEW s, NEW c, NEW k, NEW why \in Due(s, c, k)
    PROVE  StopsFor(chan[s][c], session[s][c][k], why, k)
BY DEF Due, StopsFor

\* Where the channel is not open, a session that stops only stops.
LEMMA LateStopKeeps ==
    ASSUME IInv, IInv', LinkInv, SessionsTypeOK, NEW s \in Sides, NEW c \in Channels,
           c \notin missed, Kept(c),
           NEW k \in Leases, NEW why, StopsFor(chan[s][c], session[s][c][k], why, k),
           Stop(s, c, k, why), chan[s][c].state # "OPEN", UNCHANGED overflow
    PROVE  Kept(c)'
<1>1. PICK me \in Session : me = session[s][c][k]
  BY DEF Kept, SessionsTypeOK
<1>2. PICK x : x = [me EXCEPT !.stop = why]
  OBVIOUS
<1>3. why \in {"failed", "socketClosed", "channelClosed"}
  BY DEF StopsFor
<1>4. /\ x \in Session /\ x.stop = why /\ x.step = me.step
      /\ x.queued = me.queued /\ x.sent = me.sent /\ x.got = me.got
      /\ x.socket = me.socket /\ x.reads = me.reads /\ x.listens = me.listens
      /\ x.paused = me.paused /\ x.reply = me.reply
  BY <1>2, <1>3 DEF Session
<1>5. Stops(chan[s][c], me, x, k)
  BY <1>1, <1>4 DEF Stops, StopsFor, Alike
<1>6. Silent(s, c, k, x)
  BY <1>1, <1>2 DEF Silent, Stop, Become
<1> QED
  BY <1>1, <1>4, <1>5, <1>6, StopsKeeps

\* The socket of a session goes.
LEMMA SocketGoneKeeps ==
    ASSUME IInv, IInv', LinkInv, SessionsTypeOK, Quiet, NEW s \in Sides,
           NEW c \in Channels, c \notin missed, Kept(c), NEW k \in Leases,
           SocketGone(s, c, k),
           UNCHANGED overflow
    PROVE  Kept(c)'
<1>1. PICK me \in Session : me = session[s][c][k]
  BY DEF Kept, SessionsTypeOK
<1>2. PICK x : x = [me EXCEPT !.socket = "gone"]
  OBVIOUS
<1>3. /\ x \in Session /\ x.stop = me.stop /\ x.step = me.step
      /\ x.queued = me.queued /\ x.sent = me.sent /\ x.got = me.got
      /\ x.socket = "gone" /\ x.reads = me.reads /\ x.listens = me.listens
      /\ x.paused = me.paused /\ x.reply = me.reply
  BY <1>2 DEF Session
<1>4. SocketMoves(chan[s][c], me, x, overflow[s][c], overflow'[s][c], k)
  BY <1>1, <1>3 DEF SocketMoves, SocketGone, Alike
<1>5. Silent(s, c, k, x)
  BY <1>1, <1>2 DEF Silent, SocketGone, Become
<1>6. OverflowAs(s, c, k)
  BY SameOverflow
<1> QED
  BY <1>1, <1>3, <1>4, <1>5, <1>6, SocketKeeps

\* Data that waits for the link.
LEMMA QueuesKeeps ==
    ASSUME IInv, IInv', LinkInv, SessionsTypeOK, Quiet, NEW s \in Sides,
           NEW c \in Channels, c \notin missed, Kept(c), NEW k \in Leases,
           NEW me \in Session,
           me = session[s][c][k],
           me.step \in {"sending", "awaiting", "answering", "connecting"},
           Become(s, c, k, [me EXCEPT !.sent = @ + 1, !.queued = @ + 1]),
           UNCHANGED <<poolVars, first, overflow, strayed>>
    PROVE  Kept(c)'
<1>0. me.sent + 1 \in Nat /\ me.queued + 1 \in Nat
  BY DEF Session
<1>1. PICK i \in Nat, j \in Nat : i = me.sent + 1 /\ j = me.queued + 1
  BY <1>0
<1>2. PICK x : x = [me EXCEPT !.sent = i, !.queued = j]
  OBVIOUS
<1>3. /\ x \in Session /\ x.stop = me.stop /\ x.step = me.step
      /\ x.queued = me.queued + 1 /\ x.sent = me.sent + 1 /\ x.got = me.got
      /\ x.socket = me.socket /\ x.reads = me.reads /\ x.listens = me.listens
      /\ x.paused = me.paused /\ x.reply = me.reply
  BY <1>1, <1>2 DEF Session
<1>4. SocketMoves(chan[s][c], me, x, overflow[s][c], overflow'[s][c], k)
  BY <1>3 DEF SocketMoves, Alike
<1>5. Silent(s, c, k, x)
  BY <1>1, <1>2 DEF Silent, Become
<1>6. OverflowAs(s, c, k)
  BY SameOverflow
<1> QED
  BY <1>3, <1>4, <1>5, <1>6, SocketKeeps

\* Data that is lost because the channel is not open.
LEMMA LosesKeeps ==
    ASSUME IInv, IInv', LinkInv, SessionsTypeOK, Quiet, NEW s \in Sides,
           NEW c \in Channels, c \notin missed, Kept(c), NEW k \in Leases,
           NEW me \in Session,
           me = session[s][c][k], me.step = "linked", me.stop = "no",
           chan[s][c].state # "OPEN",
           session' = [session EXCEPT ![s][c][k].sent = @ + 1],
           UNCHANGED <<poolVars, first, overflow, strayed>>
    PROVE  Kept(c)'
<1>2. PICK x : x = [me EXCEPT !.sent = @ + 1]
  OBVIOUS
<1>3. /\ x \in Session /\ x.stop = me.stop /\ x.step = me.step
      /\ x.queued = me.queued /\ x.sent = me.sent + 1 /\ x.got = me.got
      /\ x.socket = me.socket /\ x.reads = me.reads /\ x.listens = me.listens
      /\ x.paused = me.paused /\ x.reply = me.reply
  BY <1>2 DEF Session
<1>4. SocketMoves(chan[s][c], me, x, overflow[s][c], overflow'[s][c], k)
  BY <1>3 DEF SocketMoves, Alike
<1>5. Silent(s, c, k, x)
  BY <1>2 DEF Silent
<1>6. OverflowAs(s, c, k)
  BY SameOverflow
<1> QED
  BY <1>3, <1>4, <1>5, <1>6, SocketKeeps

\* The data channel's buffer empties.
LEMMA DrainsKeeps ==
    ASSUME IInv, IInv', LinkInv, SessionsTypeOK, Quiet, NEW s \in Sides,
           NEW c \in Channels, c \notin missed, Kept(c), Drains(s, c)
    PROVE  Kept(c)'
<1>1. PICK k \in 0 .. MaxLeases : k = overflow[s][c].listener
  BY DEF Kept, SessionsTypeOK
<1>2. overflow \in OverflowType /\ UNCHANGED <<poolVars, first, strayed>>
  BY DEF Drains, OverflowType, Kept, SessionsTypeOK
<1>3. /\ overflow' \in OverflowType
      /\ overflow'[s][c].high = FALSE /\ overflow'[s][c].listener = k
      /\ \A t \in Sides, d \in Channels : t # s \/ d # c =>
            overflow'[t][d] = overflow[t][d]
  <2>1. PICK R : /\ R = [high : BOOLEAN, listener : 0 .. MaxLeases]
                 /\ overflow \in [Sides -> [Channels -> R]]
    BY <1>2 DEF OverflowType
  <2>2. PICK o \in R : o = overflow[s][c]
    BY <2>1
  <2>3. PICK o2 : o2 = [o EXCEPT !.high = FALSE]
    OBVIOUS
  <2>4. o2 \in R /\ o2.high = FALSE /\ o2.listener = k
    BY <1>1, <2>1, <2>2, <2>3
  <2>5. overflow' = [overflow EXCEPT ![s][c] = o2]
    BY <2>1, <2>2, <2>3 DEF Drains
  <2>6. overflow' \in [Sides -> [Channels -> R]] /\ overflow'[s][c] = o2
    BY <2>1, <2>4, <2>5
  <2>7. \A t \in Sides, d \in Channels : t # s \/ d # c =>
           overflow'[t][d] = overflow[t][d]
    BY <2>1, <2>5
  <2> QED
    BY <2>1, <2>4, <2>6, <2>7 DEF OverflowType
<1>4. Peer(s) \in Sides /\ Peer(s) # s
  BY DEF Peer, Sides
<1>5. OverflowAs(s, c, k)
  BY <1>1, <1>3, <1>4 DEF OverflowAs
<1>6. CASE k = 0
  <2>1. session' = session
    BY <1>1, <1>6 DEF Drains, Signalled
  <2>2. chan' = chan /\ wire' = wire /\ dc' = dc /\ accepted' = accepted
    BY <1>2 DEF poolVars
  <2>3. Apartly(s, c) /\ Confined(s, c, k)
    BY <1>2, <1>5, <2>1, <2>2 DEF Apartly, Confined, OverflowAs,
       BehindNow, BehindOf
  <2>4. Straight(c)'
    BY <1>2 DEF Kept, Straight
  <2>5. ReadAll(chan'[s][c])
    BY <2>2 DEF Kept
  <2>6. k \in Nat /\ k \notin Leases
    BY <1>6 DEF Leases
  <2> QED
    BY <2>3, <2>4, <2>5, <2>6, WorkKeeps
<1>7. CASE k # 0
  <2>1. k \in Leases
    BY <1>7 DEF Leases
  <2>2. PICK me \in Session : me = session[s][c][k]
    BY <2>1 DEF Kept, SessionsTypeOK
  <2>3. PICK x : x = IF me.socket = "gone" THEN me ELSE [me EXCEPT !.paused = "no"]
    OBVIOUS
  <2>4. /\ x \in Session /\ x.stop = me.stop /\ x.step = me.step
        /\ x.queued = me.queued /\ x.sent = me.sent /\ x.got = me.got
        /\ x.socket = me.socket /\ x.reads = me.reads /\ x.listens = me.listens
        /\ x.paused = (IF me.socket = "gone" THEN me.paused ELSE "no")
        /\ x.reply = me.reply
    BY <2>3 DEF Session
  <2>5. SocketMoves(chan[s][c], me, x, overflow[s][c], overflow'[s][c], k)
    BY <1>1, <1>3, <2>4 DEF SocketMoves, Alike
  <2>6. session' = [session EXCEPT ![s][c][k] = x]
    <3>1. session \in [Sides -> [Channels -> [Leases -> Session]]]
      BY DEF Kept, SessionsTypeOK
    <3>2. session' = IF me.socket = "gone" THEN session
                     ELSE [session EXCEPT ![s][c][k].paused = "no"]
      BY <1>1, <1>7, <2>2 DEF Drains, Signalled
    <3>3. CASE me.socket = "gone"
      BY <2>1, <2>2, <2>3, <3>1, <3>2, <3>3
    <3>4. CASE me.socket # "gone"
      BY <2>1, <2>2, <2>3, <3>1, <3>2, <3>4
    <3> QED
      BY <3>3, <3>4
  <2>7. Silent(s, c, k, x)
    BY <1>2, <2>6 DEF Silent
  <2> QED
    BY <1>5, <2>1, <2>2, <2>4, <2>5, <2>7, SocketKeeps
<1> QED
  BY <1>6, <1>7

-----------------------------------------------------------------------------
(* The steps that send. *)

\* An end that is open has sent no CLOSE.
LEMMA OpenHasNotClosed ==
    ASSUME IInv, LinkInv, NEW s \in Sides, NEW c \in Channels, c \notin missed,
           chan[s][c].state = "OPEN"
    PROVE  ~ Closing(wire[Peer(s)][c], chan[s][c].lease)
<1>1. PICK L \in PoolChannel, R \in PoolChannel :
         L = chan["local"][c] /\ R = chan["remote"][c]
  BY Knows
<1>2. PICK wL \in Seq(Message), wR \in Seq(Message) :
         wL = wire["local"][c] /\ wR = wire["remote"][c]
  BY Knows
<1>3. /\ ToLocal(L, wL) /\ ToRemote(R, wR)
      /\ Alive(L) /\ Alive(R) => Joint(L, R, wL, wR)
      /\ L.lease \in Nat /\ R.lease \in Nat
  BY <1>1, <1>2, Knows DEF LinkOf, Linked, PoolChannel
<1>4. \A w, t, k : Holds(w, t, k) => Carries(w, k)
  BY HeldIsCarried
<1>5. CASE s = "local"
  <2>1. L.state = "OPEN" /\ Peer(s) = "remote" /\ Alive(L)
    BY <1>1, <1>5 DEF Peer, Alive
  <2>2. ~ Holds(wR, "CLOSE", L.lease)
    <3>1. CASE ~ Alive(R)
      BY <1>3, <1>4, <3>1 DEF ToRemote
    <3>2. CASE Alive(R)
      BY <1>3, <1>4, <2>1, <3>2 DEF Joint, SameLease, LocalAhead, RemoteAhead,
         SentClose
    <3> QED
      BY <3>1, <3>2
  <2> QED
    BY <1>1, <1>2, <1>5, <2>1, <2>2 DEF Closing
<1>6. CASE s = "remote"
  <2>1. R.state = "OPEN" /\ Peer(s) = "local" /\ Alive(R)
    BY <1>1, <1>6 DEF Peer, Alive
  <2>2. ~ Holds(wL, "CLOSE", R.lease)
    <3>1. CASE ~ Alive(L)
      BY <1>3, <1>4, <3>1 DEF ToLocal, Alive
    <3>2. CASE Alive(L)
      BY <1>3, <1>4, <2>1, <3>2 DEF Joint, SameLease, LocalAhead, RemoteAhead,
         SentClose
    <3> QED
      BY <3>1, <3>2
  <2> QED
    BY <1>1, <1>2, <1>6, <2>1, <2>2 DEF Closing
<1> QED
  BY <1>5, <1>6 DEF Sides

\* What a message of session k leaves of the story.
SaidAs(s, c, k, p, what) ==
    /\ Says(s, c) /\ WiredAs(s, c, k) /\ FirstAs(c, k)
    /\ chan'[s][c] = chan[s][c] /\ first'[s][c][k] = first[s][c][k]
    /\ BehindNow(s, c, k) = BehindOf(s, c, k) /\ BehindNow(p, c, k) \in Nat
    /\ Closing(wire'[s][c], k) <=> Closing(wire[s][c], k)
    /\ Closing(wire'[p][c], k) <=> Closing(wire[p][c], k)
    /\ Spoken(chan[s][c], chan[p][c], first[p][c][k], first'[p][c][k],
              BehindOf(p, c, k), BehindNow(p, c, k), Closing(wire[p][c], k), what, k)

\* What a send of session k does to the two ends, its wire and what is first.
LEMMA SayIs ==
    ASSUME IInv, LinkInv, SessionsTypeOK, NEW s \in Sides, NEW c \in Channels,
           c \notin missed, Kept(c),
           NEW k \in Leases, NEW p, p = Peer(s), chan[s][c].state = "OPEN",
           chan[s][c].lease = k, NEW what \in {"request", "data"} \cup Reply,
           Say(s, c, k, what)
    PROVE  SaidAs(s, c, k, p, what)
<1>1. /\ wire' = Post(wire, s, c, Msg("DATA", k))
      /\ first' = [first EXCEPT ![p][c][k] = IF @ = "none" THEN what ELSE @]
      /\ strayed' = strayed
      /\ UNCHANGED <<numChannels_, pool_, dc, chan, accepted, missed>>
  BY DEF Say, Uses
<1>2. Says(s, c)
  BY <1>1 DEF Says
<1>3. /\ p \in Sides /\ p # s /\ \A t \in Sides : t = s \/ t = p
  BY DEF Peer, Sides
<1>4. /\ k \in Nat \ {0} /\ Straight(c)
      /\ first \in FirstType /\ wire[p][c] \in Seq(Message)
      /\ wire \in [Sides -> [Channels -> Seq(Message)]]
      /\ chan[p][c] \in PoolChannel
  BY <1>3 DEF Kept, SessionsTypeOK, Leases, FirstType, IInv, TypeOK
<1>5. /\ wire'[s][c] = wire[s][c]
      /\ \A t \in Sides, d \in Channels : d # c => wire'[t][d] = wire[t][d]
      /\ wire'[p][c] = IF Broken(c) THEN wire[p][c]
                       ELSE Append(wire[p][c], Msg("DATA", k))
  <2>1. CASE Broken(c)
    BY <1>1, <2>1 DEF Post
  <2>2. CASE ~ Broken(c)
    <3>1. wire' = [wire EXCEPT ![p][c] = Append(@, Msg("DATA", k))]
      BY <1>1, <2>2 DEF Post
    <3> QED
      BY <1>3, <1>4, <2>2, <3>1
  <2> QED
    BY <2>1, <2>2
<1>6. Broken(c) <=> ~ (Alive(chan[s][c]) /\ Alive(chan[p][c]))
  BY Knows DEF Peer, Sides
<1>7. PICK w \in Seq(Message) : w = wire[p][c]
  BY <1>4
<1>8. \/ wire'[p][c] = w /\ ~ Alive(chan[p][c])
      \/ More(wire'[p][c], w, "DATA", k)
  <2>1. CASE Broken(c)
    BY <1>5, <1>6, <1>7, <2>1 DEF Alive
  <2>2. CASE ~ Broken(c)
    <3>1. /\ Msg("DATA", k) \in Message /\ Msg("DATA", k).type = "DATA"
          /\ Msg("DATA", k).lease = k
      BY <1>4 DEF Msg, Message
    <3>2. More(Append(w, Msg("DATA", k)), w, "DATA", k)
      BY <3>1, AppendMore
    <3> QED
      BY <1>5, <1>7, <2>2, <3>2
  <2> QED
    BY <2>1, <2>2
<1>9. /\ \A j \in Nat : Closing(wire'[p][c], j) <=> Closing(wire[p][c], j)
      /\ \A j \in Nat : j # k => Data(wire'[p][c], j) = Data(w, j)
      /\ \/ Data(wire'[p][c], k) = Data(w, k) + 1
         \/ Data(wire'[p][c], k) = Data(w, k) /\ ~ Alive(chan[p][c])
  <2>1. \A j \in Nat : Data(w, j) \in Nat
    BY DataNat
  <2>2. CASE wire'[p][c] = w /\ ~ Alive(chan[p][c])
    BY <1>7, <2>2
  <2>3. CASE More(wire'[p][c], w, "DATA", k)
    <3>1. PICK v : v = wire'[p][c]
      OBVIOUS
    <3>2. \A j \in Nat : Holds(v, "CLOSE", j) <=> Holds(w, "CLOSE", j)
      BY <2>3, <3>1 DEF More
    <3>3. \A j \in Nat : Data(v, j) = Data(w, j) + OneMore("DATA", k, j)
      BY <2>3, <3>1 DEF More
    <3>4. \A j \in Nat : j # k => Data(v, j) = Data(w, j)
      BY <2>1, <3>3 DEF OneMore
    <3>5. Data(v, k) = Data(w, k) + 1
      BY <1>4, <2>1, <3>3 DEF OneMore
    <3> QED
      BY <1>7, <3>1, <3>2, <3>4, <3>5 DEF Closing
  <2> QED
    BY <1>8, <2>2, <2>3
<1>10. /\ \A j \in Nat : BehindNow(s, c, j) = BehindOf(s, c, j)
       /\ \A j \in Nat : j # k => BehindNow(p, c, j) = BehindOf(p, c, j)
  BY <1>1, <1>5, <1>7, <1>9 DEF BehindNow, BehindOf, Behind, Unread
<1>11. /\ BehindNow(p, c, k) \in Nat
       /\ \/ BehindNow(p, c, k) = BehindOf(p, c, k) + 1
          \/ BehindNow(p, c, k) = BehindOf(p, c, k) /\ ~ Alive(chan[p][c])
  <2>1. PICK d \in Nat, u \in Nat :
           d = Data(w, k) /\ u = Unread(chan[p][c], k)
    BY <1>4, DataNat, BehindNat
  <2>5. PICK d2 : d2 = Data(wire'[p][c], k)
    OBVIOUS
  <2>2. Unread(chan'[p][c], k) = u
    BY <1>1, <2>1
  <2>3. BehindOf(p, c, k) = d + u /\ BehindNow(p, c, k) = d2 + u
    BY <1>7, <2>1, <2>2, <2>5 DEF BehindOf, BehindNow, Behind
  <2>4. d2 = d + 1 \/ (d2 = d /\ ~ Alive(chan[p][c]))
    BY <1>9, <2>1, <2>5
  <2> QED
    BY <2>3, <2>4
<1>12. /\ first' \in FirstType /\ first'[s][c][k] = first[s][c][k]
       /\ first'[p][c][k] = IF first[p][c][k] = "none" THEN what ELSE first[p][c][k]
       /\ FirstAs(c, k)
  <2>1. first[p][c][k] \in {"none", "request", "data", "taken"} \cup Reply
    BY <1>3, <1>4 DEF FirstType
  <2>2. PICK new \in {"none", "request", "data", "taken"} \cup Reply :
           new = IF first[p][c][k] = "none" THEN what ELSE first[p][c][k]
    BY <2>1
  <2>3. first' = [first EXCEPT ![p][c][k] = new]
    BY <1>1, <2>2
  <2> QED
    BY <1>3, <1>4, <2>2, <2>3 DEF FirstType, FirstAs
<1>13. WiredAs(s, c, k)
  <2>1. Straight(c)'
    BY <1>1, <1>4 DEF Straight
  <2>2. \A j \in Leases : j \in Nat
    BY DEF Leases
  <2>3. \A t \in Sides, j \in Leases : j # k =>
          /\ BehindNow(t, c, j) = BehindOf(t, c, j)
          /\ Closing(wire'[t][c], j) <=> Closing(wire[t][c], j)
    BY <1>3, <1>5, <1>9, <1>10, <2>2
  <2> QED
    BY <1>1, <1>4, <2>1, <2>3 DEF WiredAs
<1>14. ~ Closing(wire[p][c], k)
  BY OpenHasNotClosed
<1>15. Spoken(chan[s][c], chan[p][c], first[p][c][k], first'[p][c][k],
              BehindOf(p, c, k), BehindNow(p, c, k), Closing(wire[p][c], k), what, k)
  BY <1>11, <1>12, <1>14 DEF Spoken
<1> QED
  BY <1>1, <1>2, <1>4, <1>5, <1>9, <1>10, <1>11, <1>12, <1>13, <1>15 DEF SaidAs

\* It keeps the invariant if it keeps the story.
SpokenStory(s, c, k, p, x, o) ==
    StoryAt(s, chan[s][c], chan[p][c], x, session[p][c][k], o, overflow[p][c],
            first[s][c][k], first'[p][c][k], BehindOf(s, c, k), BehindNow(p, c, k),
            Closing(wire[s][c], k), Closing(wire[p][c], k), k)

\* A send keeps the invariant, if it keeps the story of its lease.
LEMMA SpeechKeeps ==
    ASSUME IInv, IInv', LinkInv, SessionsTypeOK, NEW s \in Sides, NEW c \in Channels,
           c \notin missed, Kept(c),
           NEW k \in Leases, NEW x \in Session, NEW p, p = Peer(s), NEW what,
           session' = [session EXCEPT ![s][c][k] = x], SaidAs(s, c, k, p, what),
           OverflowAs(s, c, k), SpokenStory(s, c, k, p, x, overflow'[s][c])
    PROVE  Kept(c)'
<1>1. /\ WiredAs(s, c, k) /\ FirstAs(c, k)
      /\ chan'[s][c] = chan[s][c] /\ first'[s][c][k] = first[s][c][k]
      /\ BehindNow(s, c, k) = BehindOf(s, c, k)
      /\ Closing(wire'[s][c], k) <=> Closing(wire[s][c], k)
      /\ Closing(wire'[p][c], k) <=> Closing(wire[p][c], k)
  BY DEF SaidAs
<1>2. /\ Closing(wire'[s][c], k) = Closing(wire[s][c], k)
      /\ Closing(wire'[p][c], k) = Closing(wire[p][c], k)
  BY <1>1 DEF Closing, Holds
<1>3. StoryAt(s, chan'[s][c], chan[p][c], x, session[p][c][k],
              overflow'[s][c], overflow[p][c],
              first'[s][c][k], first'[p][c][k],
              BehindNow(s, c, k), BehindNow(p, c, k),
              Closing(wire'[s][c], k), Closing(wire'[p][c], k), k)
  BY <1>1, <1>2 DEF SpokenStory
<1> QED
  BY <1>1, <1>3, ActKeeps

\* The client's request is sent to the peer.
LEMMA ReceiveRequestKeeps ==
    ASSUME IInv, IInv', LinkInv, SessionsTypeOK, NEW c \in Channels, c \notin missed,
           Kept(c), NEW k \in Leases,
           ReceiveRequest(c, k), UNCHANGED overflow
    PROVE  Kept(c)'
<1>0. "local" \in Sides /\ "remote" = Peer("local")
  BY DEF Sides, Peer
<1>1. PICK me \in Session : me = session["local"][c][k]
  BY <1>0 DEF Kept, SessionsTypeOK
<1>2. me.step = "request"
  BY <1>1 DEF ReceiveRequest
<1>3. CASE /\ chan["local"][c].state = "OPEN"
           /\ Say("local", c, k, "request")
           /\ Become("local", c, k, [me EXCEPT !.step = "sending",
                                               !.paused = "handshake"])
  <2>1. Own("local", chan["local"][c], me, k, overflow["local"][c])
    BY <1>0, <1>1, OwnIs
  <2>2. chan["local"][c].lease = k
    BY <1>2, <2>1 DEF Own, Holding, Held, Busy
  <2>3. SaidAs("local", c, k, "remote", "request")
    BY <1>0, <1>3, <2>2, SayIs
  <2>4. PICK x : x = [me EXCEPT !.step = "sending", !.paused = "handshake"]
    OBVIOUS
  <2>5. /\ x \in Session /\ x.stop = me.stop /\ x.step = "sending"
        /\ x.queued = me.queued /\ x.sent = me.sent /\ x.got = me.got
        /\ x.socket = me.socket /\ x.reads = me.reads /\ x.listens = me.listens
        /\ x.paused = "handshake" /\ x.reply = me.reply
    BY <2>4 DEF Session, SocksStep
  <2>6. Requests(me, x)
    BY <1>2, <2>5 DEF Requests
  <2>7. /\ StoryWith("local", c, k, "remote", me, overflow["local"][c])
        /\ TypedNow("local", c, k, "remote")
    BY <1>0, <1>1, StoryIs
  <2>8. SpokenStory("local", c, k, "remote", x, overflow["local"][c])
    BY <1>1, <2>3, <2>5, <2>6, <2>7, RequestStory
       DEF SpokenStory, SaidAs, StoryWith, TypedNow
  <2>9. OverflowAs("local", c, k) /\ overflow' = overflow
    BY SameOverflow
  <2>10. session' = [session EXCEPT !["local"][c][k] = x]
    BY <1>3, <2>4 DEF Become
  <2> QED
    BY <1>0, <2>3, <2>5, <2>8, <2>9, <2>10, SpeechKeeps
<1>4. CASE /\ Become("local", c, k, Answering(me, "FAILURE"))
           /\ UNCHANGED <<poolVars, first, strayed>>
  BY <1>1, <1>2, <1>4, FailureKeeps
<1> QED
  BY <1>1, <1>3, <1>4 DEF ReceiveRequest

\* The reply is sent to the peer.
LEMMA SendReplyKeeps ==
    ASSUME IInv, IInv', LinkInv, SessionsTypeOK, NEW c \in Channels, c \notin missed,
           Kept(c), NEW k \in Leases,
           SendReply(c, k), UNCHANGED overflow
    PROVE  Kept(c)'
<1>0. "remote" \in Sides /\ "local" = Peer("remote")
  BY DEF Sides, Peer
<1>1. PICK me \in Session : me = session["remote"][c][k]
  BY <1>0 DEF Kept, SessionsTypeOK
<1>2. me.step = "replying" /\ Say("remote", c, k, me.reply)
  BY <1>1 DEF SendReply
<1>3. /\ k \in Nat \ {0} /\ EndOK(chan["remote"][c])
      /\ Own("remote", chan["remote"][c], me, k, overflow["remote"][c])
  BY <1>0, <1>1, OwnIs
<1>4. /\ Held(chan["remote"][c], k) /\ me.listens = k /\ me.reads = 0
      /\ me.reply # "none"
  BY <1>2, <1>3 DEF Own, Holding, Busy, Hearing, Listens, Reader, Reads, Shaped
<1>5. chan["remote"][c].lease = k /\ me.reply \in Reply
  BY <1>4 DEF Held, Session
<1>6. PICK x \in Session :
         /\ session' = [session EXCEPT !["remote"][c][k] = x]
         /\ x.step = IF me.socket = "open" THEN "linked" ELSE "failed"
         /\ x.stop = me.stop /\ x.queued = me.queued /\ x.sent = me.sent
         /\ x.got = me.got /\ x.socket = me.socket /\ x.listens = me.listens
         /\ x.paused = me.paused /\ x.reply = me.reply
         /\ x.reads = (IF x.step = "linked" THEN k ELSE 0)
  <2>1. CASE me.socket = "open"
    <3>1. PICK me2 : me2 = [me EXCEPT !.step = "linked"]
      OBVIOUS
    <3>2. me2 \in Session
      BY <3>1 DEF Session
    <3>3. Reading("remote", c, k, me2)
      BY <1>1, <2>1, <3>1 DEF SendReply
    <3>4. session' = [session EXCEPT !["remote"][c][k] = [me2 EXCEPT !.reads = k]]
      BY <1>0, <1>5, <3>2, <3>3, ReadingOwn
    <3>5. PICK x : x = [me2 EXCEPT !.reads = k]
      OBVIOUS
    <3>6. /\ x \in Session /\ x.step = "linked"
          /\ x.stop = me.stop /\ x.queued = me.queued /\ x.sent = me.sent
          /\ x.got = me.got /\ x.socket = me.socket /\ x.listens = me.listens
          /\ x.paused = me.paused /\ x.reply = me.reply /\ x.reads = k
      BY <1>3, <3>1, <3>5 DEF Session
    <3> QED
      BY <2>1, <3>4, <3>5, <3>6
  <2>2. CASE me.socket # "open"
    <3>1. PICK x : x = [me EXCEPT !.step = "failed"]
      OBVIOUS
    <3>2. /\ x \in Session /\ x.step = "failed"
          /\ x.stop = me.stop /\ x.queued = me.queued /\ x.sent = me.sent
          /\ x.got = me.got /\ x.socket = me.socket /\ x.listens = me.listens
          /\ x.paused = me.paused /\ x.reply = me.reply /\ x.reads = me.reads
      BY <3>1 DEF Session
    <3>3. session' = [session EXCEPT !["remote"][c][k] = x]
      BY <1>1, <2>2, <3>1 DEF SendReply, Become
    <3> QED
      BY <1>4, <2>2, <3>2, <3>3
  <2> QED
    BY <2>1, <2>2
<1>7. CASE chan["remote"][c].state = "OPEN"
  <2>1. SaidAs("remote", c, k, "local", me.reply)
    BY <1>0, <1>2, <1>5, <1>7, SayIs
  <2>2. Replies(me, x)
    BY <1>2, <1>4, <1>6 DEF Replies
  <2>3. /\ StoryWith("remote", c, k, "local", me, overflow["remote"][c])
        /\ TypedNow("remote", c, k, "local")
    BY <1>0, <1>1, StoryIs
  <2>4. SpokenStory("remote", c, k, "local", x, overflow["remote"][c])
    BY <1>1, <2>1, <2>2, <2>3, ReplyStory
       DEF SpokenStory, SaidAs, StoryWith, TypedNow
  <2>5. OverflowAs("remote", c, k) /\ overflow' = overflow
    BY SameOverflow
  <2> QED
    BY <1>0, <1>6, <2>1, <2>4, <2>5, SpeechKeeps
<1>8. CASE chan["remote"][c].state # "OPEN"
  <2>1. Silent("remote", c, k, x)
    BY <1>2, <1>6, <1>8 DEF Say, Silent
  <2>2. RtcMoves(chan["remote"][c], me, x, k)
    BY <1>2, <1>4, <1>5, <1>6, <1>8 DEF RtcMoves, Held, Alive, Reads
  <2> QED
    BY <1>1, <2>1, <2>2, RtcKeeps
<1> QED
  BY <1>7, <1>8

\* Data that waited for the link is dropped on a channel that is dead, or that
\* the peer, who no longer waits for it, has closed.
LEMMA WastesStory ==
    ASSUME NEW s, NEW e, NEW p, NEW x, NEW x2 \in Session, NEW y, NEW o,
           NEW q, NEW f, NEW g, NEW n, NEW m, NEW cs, NEW cp, NEW k,
           TypedAt(s, e, p, x, y, n, m, cs, cp, k),
           StoryAt(s, e, p, x, y, o, q, f, g, n, m, cs, cp, k),
           Alive(e) => ~ Waits(y), x.step = "linked", Alike(x, x2), x.queued > 0,
           x2.stop = x.stop, x2.socket = x.socket, x2.paused = x.paused
    PROVE  StoryAt(s, e, p, x2, y, o, q, f, g, n, m, cs, cp, k)
<1>1. /\ Begun(e, x, k) /\ Holding(s, e, x, k) /\ Hearing(s, e, x, k)
      /\ Reader(s, e, x, k) /\ Levelled(e, x, k, o) /\ Shaped(s, x)
      /\ TalkAt(s, e, p, x, y, f, g, n, m, cs, cp, k) /\ Goodbye(p, x, cp, k)
  BY DEF StoryAt, Own
<1>2. TalkAt(s, e, p, x2, y, f, g, n, m, cs, cp, k)
  BY <1>1, AlikeTalk
<1>3. Begun(e, x2, k) /\ Holding(s, e, x2, k)
  BY <1>1 DEF Begun, Holding, Alike
<1>4. Hearing(s, e, x2, k) /\ Reader(s, e, x2, k)
  BY <1>1 DEF Hearing, Alike, Listens, Reader
<1>5. Levelled(e, x2, k, o) /\ Shaped(s, x2)
  BY <1>1 DEF Levelled, Alike, Shaped, Busy
<1>6. Own(s, e, x2, k, o)
  BY <1>3, <1>4, <1>5 DEF Own
<1>7. Exact(e, p, x2, y, g, m) /\ Exact(p, e, y, x2, f, n) /\ Goodbye(p, x2, cp, k)
  <2>1. Exact(p, e, y, x, f, n)
    BY DEF StoryAt
  <2> QED
    BY <1>1, <2>1 DEF Exact, Goodbye, Alike, Waits
<1> QED
  BY <1>1, <1>2, <1>6, <1>7, SilentStory

\* Data of a linked session goes out.
LEMMA FeedKeeps ==
    ASSUME IInv, IInv', LinkInv, SessionsTypeOK, NEW s \in Sides, NEW c \in Channels,
           c \notin missed, Kept(c),
           NEW k \in Leases, NEW x \in Session, chan[s][c].state = "OPEN",
           chan[s][c].lease = k, Say(s, c, k, "data"),
           session' = [session EXCEPT ![s][c][k] = x], OverflowAs(s, c, k),
           Feeds(chan[s][c], session[s][c][k], x, overflow[s][c], overflow'[s][c], k)
    PROVE  Kept(c)'
<1>1. PICK p : p = Peer(s)
  OBVIOUS
<1>2. PICK what \in {"request", "data"} \cup Reply : what = "data"
  OBVIOUS
<1>3. SaidAs(s, c, k, p, what)
  BY <1>1, <1>2, SayIs
<1>4. /\ StoryWith(s, c, k, p, session[s][c][k], overflow[s][c])
      /\ TypedNow(s, c, k, p)
  BY <1>1, StoryIs
<1>5. SpokenStory(s, c, k, p, x, overflow'[s][c])
  BY <1>2, <1>3, <1>4, FeedsStory DEF SpokenStory, SaidAs, StoryWith, TypedNow
<1> QED
  BY <1>1, <1>3, <1>5, SpeechKeeps

\* Data that waited for the handshake is sent.
LEMMA FlushKeeps ==
    ASSUME IInv, IInv', LinkInv, SessionsTypeOK, NEW s \in Sides, NEW c \in Channels,
           c \notin missed, Kept(c),
           NEW k \in Leases, Flush(s, c, k), UNCHANGED overflow
    PROVE  Kept(c)'
<1>1. PICK me \in Session : me = session[s][c][k]
  BY DEF Kept, SessionsTypeOK
<1>2. /\ me.step = "linked" /\ me.queued > 0 /\ Say(s, c, k, "data")
      /\ Become(s, c, k, [me EXCEPT !.queued = @ - 1])
  BY <1>1 DEF Flush
<1>3. PICK x : x = [me EXCEPT !.queued = @ - 1]
  OBVIOUS
<1>4. /\ x \in Session /\ x.stop = me.stop /\ x.step = me.step
      /\ x.queued = me.queued - 1 /\ x.sent = me.sent /\ x.got = me.got
      /\ x.socket = me.socket /\ x.reads = me.reads /\ x.listens = me.listens
      /\ x.paused = me.paused /\ x.reply = me.reply
  <2>1. me.queued - 1 \in Nat
    BY <1>2 DEF Session
  <2>2. PICK i \in Nat : i = me.queued - 1
    BY <2>1
  <2>3. x = [me EXCEPT !.queued = i]
    BY <1>3, <2>2
  <2> QED
    BY <2>2, <2>3 DEF Session
<1>5. /\ chan[s][c].lease = k /\ me.stop \in {"no", "channelClosed"}
      /\ Own(s, chan[s][c], me, k, overflow[s][c])
      /\ chan[s][c] \in PoolChannel /\ EndOK(chan[s][c])
      /\ k \in Nat \ {0}
  BY <1>1, <1>2, OwnIs DEF Own, Holding
<1>6. session' = [session EXCEPT ![s][c][k] = x]
  BY <1>2, <1>3 DEF Become
<1>7. OverflowAs(s, c, k) /\ overflow' = overflow
  BY SameOverflow
<1>8. CASE chan[s][c].state = "OPEN"
  <2>1. Feeds(chan[s][c], me, x, overflow[s][c], overflow'[s][c], k)
    BY <1>2, <1>4, <1>7 DEF Feeds, Alike
  <2> QED
    BY <1>1, <1>2, <1>4, <1>5, <1>6, <1>7, <1>8, <2>1, FeedKeeps
<1>9. CASE chan[s][c].state # "OPEN"
  <2>2. PICK p : p = Peer(s)
    OBVIOUS
  <2>3. /\ StoryWith(s, c, k, p, me, overflow[s][c])
        /\ TypedNow(s, c, k, p)
    BY <1>1, <2>2, StoryIs
  <2>1. ASSUME Alive(chan[s][c]) PROVE ~ Waits(session[p][c][k])
    <3>1. PICK e \in PoolChannel : e = chan[s][c]
      BY <1>5
    <3>2. /\ Begun(e, me, k) /\ Hearing(s, e, me, k) /\ EndOK(e) /\ Alive(e)
          /\ e.lease = k /\ e.state # "OPEN"
      BY <1>5, <1>9, <2>1, <3>1 DEF Own
    <3>3. e.onceOpened = "settled"
      BY <1>2, <1>5, <3>2 DEF Begun
    <3>4. e.state = "CLOSING"
      BY <3>1, <3>2, <3>3 DEF EndOK, PoolChannel, State, Alive
    <3>5. me.stop = "no"
      BY <1>5, <3>2 DEF Hearing
    <3>6. e.ack # "none"
      BY <1>2, <3>2, <3>4, <3>5 DEF Hearing
    <3>7. Goodbye(e, session[p][c][k], Closing(wire[s][c], k), k)
      BY <2>3, <3>1 DEF StoryWith, StoryAt
    <3> QED
      BY <3>2, <3>6, <3>7 DEF Goodbye, Waits
  <2>4. Alike(me, x)
    BY <1>4 DEF Alike
  <2>5. StoryWith(s, c, k, p, x, overflow[s][c])
    BY <1>1, <1>2, <1>4, <2>1, <2>3, <2>4, WastesStory DEF StoryWith, TypedNow
  <2>6. UNCHANGED <<poolVars, first, strayed>>
    BY <1>2, <1>9 DEF Say
  <2> QED
    BY <1>4, <1>6, <1>7, <2>2, <2>5, <2>6, SilentKeeps
<1> QED
  BY <1>8, <1>9

\* Data of a linked socket is sent, with overflow or without.
LEMMA SocketFeedsKeeps ==
    ASSUME IInv, IInv', LinkInv, SessionsTypeOK, Quiet, NEW s \in Sides,
           NEW c \in Channels, c \notin missed, Kept(c), NEW k \in Leases,
           NEW me \in Session,
           me = session[s][c][k], me.step = "linked", me.stop = "no",
           me.socket = "open", chan[s][c].state = "OPEN", Say(s, c, k, "data"),
           \/ /\ session' = [session EXCEPT ![s][c][k].sent = @ + 1]
              /\ UNCHANGED overflow
           \/ /\ session' = Signalled([session EXCEPT ![s][c][k].sent = @ + 1],
                                      s, c, TRUE)
              /\ overflow' = [overflow EXCEPT ![s][c].high = TRUE]
    PROVE  Kept(c)'
<1>1. Idle(chan[s][c], me, k)
  BY QuietIsIdle DEF Kept
<1>2. /\ Own(s, chan[s][c], me, k, overflow[s][c]) /\ chan[s][c] \in PoolChannel
      /\ k \in Nat \ {0}
  BY OwnIs
<1>3. chan[s][c].lease = k
  BY <1>2 DEF Own, Hearing, Listens, JustLeft, Sides
<1>4. overflow[s][c].listener = k
  BY <1>1, <1>2, <1>3 DEF Own, Levelled, Idle
<1>5. /\ session \in [Sides -> [Channels -> [Leases -> Session]]]
      /\ overflow \in OverflowType
  BY DEF Kept, SessionsTypeOK, OverflowType
<1>6. me.sent + 1 \in Nat
  BY DEF Session
<1>7. PICK i \in Nat : i = me.sent + 1
  BY <1>6
<1>8. CASE /\ session' = [session EXCEPT ![s][c][k].sent = @ + 1]
           /\ UNCHANGED overflow
  <2>1. PICK x : x = [me EXCEPT !.sent = i]
    OBVIOUS
  <2>2. /\ x \in Session /\ x.stop = me.stop /\ x.step = me.step
        /\ x.queued = me.queued /\ x.sent = i /\ x.got = me.got
        /\ x.socket = me.socket /\ x.reads = me.reads /\ x.listens = me.listens
        /\ x.paused = me.paused /\ x.reply = me.reply
    BY <2>1 DEF Session
  <2>3. session' = [session EXCEPT ![s][c][k] = x]
    BY <1>5, <1>7, <1>8, <2>1
  <2>4. OverflowAs(s, c, k) /\ overflow' = overflow
    BY <1>8, SameOverflow
  <2>5. Feeds(chan[s][c], me, x, overflow[s][c], overflow'[s][c], k)
    BY <1>1, <1>7, <2>2, <2>4 DEF Feeds, Alike
  <2> QED
    BY <1>3, <2>2, <2>3, <2>4, <2>5, FeedKeeps
<1>9. CASE /\ session' = Signalled([session EXCEPT ![s][c][k].sent = @ + 1],
                                   s, c, TRUE)
           /\ overflow' = [overflow EXCEPT ![s][c].high = TRUE]
  <2>1. PICK x : x = [me EXCEPT !.sent = i, !.paused = "overflow"]
    OBVIOUS
  <2>2. /\ x \in Session /\ x.stop = me.stop /\ x.step = me.step
        /\ x.queued = me.queued /\ x.sent = i /\ x.got = me.got
        /\ x.socket = me.socket /\ x.reads = me.reads /\ x.listens = me.listens
        /\ x.paused = "overflow" /\ x.reply = me.reply
    BY <2>1 DEF Session
  <2>3. PICK fx, fed : /\ fx = [me EXCEPT !.sent = i]
                       /\ fed = [session EXCEPT ![s][c][k].sent = i]
    OBVIOUS
  <2>4. /\ fed = [session EXCEPT ![s][c][k] = fx]
        /\ fx \in Session /\ fx.socket = "open" /\ x = [fx EXCEPT !.paused = "overflow"]
    <3>1. fed = [session EXCEPT ![s][c][k] = fx]
      BY <1>5, <2>3
    <3>2. fx \in Session /\ fx.socket = "open"
      BY <2>3 DEF Session
    <3>3. x = [fx EXCEPT !.paused = "overflow"]
      BY <2>1, <2>3 DEF Session
    <3> QED
      BY <3>1, <3>2, <3>3
  <2>5. session' = Signalled(fed, s, c, TRUE)
    BY <1>5, <1>7, <1>9, <2>3
  <2>6. session' = [fed EXCEPT ![s][c][k].paused = "overflow"]
    BY <1>2, <1>4, <1>5, <2>4, <2>5 DEF Signalled
  <2>7. session' = [session EXCEPT ![s][c][k] = x]
    <3>1. fed[s][c][k] = fx /\ fed \in [Sides -> [Channels -> [Leases -> Session]]]
      BY <1>5, <2>4
    <3>2. session' = [fed EXCEPT ![s][c][k] = x]
      BY <2>4, <2>6, <3>1
    <3>3. PICK S1 : S1 = session /\ S1 \in [Sides -> [Channels -> [Leases -> Session]]]
      BY <1>5
    <3>4. [[S1 EXCEPT ![s][c][k] = fx] EXCEPT ![s][c][k] = x]
             = [S1 EXCEPT ![s][c][k] = x]
      BY <3>3
    <3> QED
      BY <2>4, <3>2, <3>3, <3>4
  <2>8. /\ overflow' \in OverflowType
        /\ overflow'[s][c].high = TRUE /\ overflow'[s][c].listener = k
        /\ \A t \in Sides, d \in Channels : t # s \/ d # c =>
              overflow'[t][d] = overflow[t][d]
    <3>1. PICK l \in 0 .. MaxLeases : l = overflow[s][c].listener
      BY <1>5 DEF OverflowType
    <3>2. /\ overflow \in OverflowType
          /\ overflow' = [overflow EXCEPT ![s][c].high = TRUE]
      BY <1>5, <1>9
    <3>4. PICK o \in [high : BOOLEAN, listener : 0 .. MaxLeases] :
             o = overflow[s][c]
      BY <3>2 DEF OverflowType
    <3>10. PICK o2 : o2 = [o EXCEPT !.high = TRUE]
      OBVIOUS
    <3>5. /\ o2 \in [high : BOOLEAN, listener : 0 .. MaxLeases]
          /\ o2.high = TRUE /\ o2.listener = l
      BY <3>1, <3>4, <3>10
    <3>6. overflow' = [overflow EXCEPT ![s][c] = o2]
      BY <3>2, <3>4, <3>10
    <3>7. overflow' \in OverflowType
      <4>1. PICK R : /\ R = [high : BOOLEAN, listener : 0 .. MaxLeases] /\ o2 \in R
                     /\ overflow \in [Sides -> [Channels -> R]]
        BY <3>2, <3>5 DEF OverflowType
      <4>2. overflow' \in [Sides -> [Channels -> R]]
        BY <3>6, <4>1
      <4> QED
        BY <4>1, <4>2 DEF OverflowType
    <3>8. overflow'[s][c] = o2
      BY <3>2, <3>6 DEF OverflowType
    <3>9. \A t \in Sides, d \in Channels : t # s \/ d # c =>
             overflow'[t][d] = overflow[t][d]
      BY <3>2, <3>6 DEF OverflowType
    <3> QED
      BY <1>4, <3>1, <3>5, <3>7, <3>8, <3>9
  <2>9. Peer(s) \in Sides /\ Peer(s) # s
    BY DEF Peer, Sides
  <2>10. OverflowAs(s, c, k)
    BY <1>3, <2>8, <2>9 DEF OverflowAs
  <2>11. Feeds(chan[s][c], me, x, overflow[s][c], overflow'[s][c], k)
    BY <1>1, <1>4, <1>7, <2>2, <2>8 DEF Feeds, Alike
  <2> QED
    BY <1>3, <2>2, <2>7, <2>10, <2>11, FeedKeeps
<1> QED
  BY <1>8, <1>9

\* A socket delivers data, whatever its session is at.
LEMMA SocketDataKeeps ==
    ASSUME IInv, IInv', LinkInv, SessionsTypeOK, Quiet, NEW s \in Sides,
           NEW c \in Channels, c \notin missed, Kept(c), NEW k \in Leases,
           c \notin late', SocketData(s, c, k)
    PROVE  Kept(c)'
<1>1. PICK me \in Session : me = session[s][c][k]
  BY DEF Kept, SessionsTypeOK
<1>2. ASSUME GoesOn(s, c, k), chan[s][c].state = "OPEN" PROVE me.stop = "no"
  <2>1. chan[s][c].lease = k
    BY <1>2 DEF GoesOn
  <2>2. Hearing(s, chan[s][c], me, k) /\ k \in Nat
    BY <1>1, OwnIs DEF Own
  <2> QED
    BY <1>2, <2>1, <2>2 DEF Hearing
<1>3. CASE /\ me.step = "linked" /\ me.socket = "open"
           /\ Say(s, c, k, "data") /\ chan[s][c].state = "OPEN"
           /\ GoesOn(s, c, k)
           /\ \/ /\ session' = [session EXCEPT ![s][c][k].sent = @ + 1]
                 /\ UNCHANGED overflow
              \/ /\ session' = Signalled([session EXCEPT ![s][c][k].sent = @ + 1],
                                         s, c, TRUE)
                 /\ overflow' = [overflow EXCEPT ![s][c].high = TRUE]
  BY <1>1, <1>2, <1>3, SocketFeedsKeeps
<1>4. CASE /\ me.step = "linked" /\ Say(s, c, k, "data")
           /\ chan[s][c].state # "OPEN" /\ me.stop = "no"
           /\ session' = [session EXCEPT ![s][c][k].sent = @ + 1]
           /\ UNCHANGED overflow
  <2>1. UNCHANGED <<poolVars, first, strayed>>
    BY <1>4 DEF Say
  <2> QED
    BY <1>1, <1>4, <2>1, LosesKeeps
<1>5. CASE /\ me.step \in {"sending", "awaiting", "answering", "connecting"}
           /\ Become(s, c, k, [me EXCEPT !.sent = @ + 1, !.queued = @ + 1])
           /\ UNCHANGED <<poolVars, first, overflow, strayed>>
  BY <1>1, <1>5, QueuesKeeps
<1> QED
  BY <1>1, <1>3, <1>4, <1>5 DEF SocketData

-----------------------------------------------------------------------------
(* The step that takes a message. *)

\* What a handler that runs leaves of the channel.
HandledAs(s, c, k, p) ==
    /\ WiredAs(s, c, k)
    /\ Handled(chan[s][c], chan'[s][c], BehindOf(s, c, k), BehindNow(s, c, k), k)
    /\ BehindNow(s, c, k) \in Nat /\ BehindNow(p, c, k) = BehindOf(p, c, k)
    /\ wire'[s][c] = wire[s][c] /\ Closing(wire'[p][c], k) \in BOOLEAN
    /\ Closing(wire'[p][c], k) => Closing(wire[p][c], k) \/ ~ Unclosed(chan[p][c], k)

\* The local end answers the CLOSE of a peer that is closing.
LEMMA PeerHasClosed ==
    ASSUME IInv, LinkInv, NEW c \in Channels, c \notin missed,
           chan["local"][c].ack = "draining", ~ Broken(c)
    PROVE  ~ Unclosed(chan["remote"][c], chan["local"][c].lease)
<1>1. PICK L \in PoolChannel, R \in PoolChannel :
         L = chan["local"][c] /\ R = chan["remote"][c]
  BY Knows
<1>2. PICK wL \in Seq(Message), wR \in Seq(Message) :
         wL = wire["local"][c] /\ wR = wire["remote"][c]
  BY Knows
<1>3. /\ Joint(L, R, wL, wR) /\ EndOK(R) /\ L.lease \in Nat /\ R.lease \in Nat
      /\ L.ack = "draining"
  BY <1>1, <1>2, Knows DEF LinkOf, Linked, PoolChannel
<1>4. SameLease(L, R, wL, wR)
  BY <1>3 DEF Joint, LocalAhead, RemoteAhead
<1>5. R.lease = L.lease /\ R.state = "CLOSING"
  BY <1>3, <1>4 DEF SameLease, SentClose
<1> QED
  BY <1>1, <1>3, <1>5 DEF Unclosed

\* What reading a message tells the other end.
LEMMA HandleTells ==
    ASSUME IInv, LinkInv, NEW s \in Sides, NEW c \in Channels, c \notin missed,
           NEW p \in Sides, NEW k \in Nat,
           \/ wire'[p][c] = wire[p][c]
           \/ /\ wire'[p][c] = Append(wire[p][c], Msg("CLOSE", k))
              /\ ~ Unclosed(chan[p][c], k)
    PROVE  /\ \A j \in Nat : Data(wire'[p][c], j) = Data(wire[p][c], j)
           /\ \A j \in Nat : j # k =>
                 (Closing(wire'[p][c], j) <=> Closing(wire[p][c], j))
           /\ Closing(wire'[p][c], k) \in BOOLEAN
           /\ Closing(wire'[p][c], k) =>
                 Closing(wire[p][c], k) \/ ~ Unclosed(chan[p][c], k)
<1>1. PICK w \in Seq(Message) : w = wire[p][c]
  BY Knows
<1>2. PICK v : v = wire'[p][c]
  OBVIOUS
<1>3. CASE v = w
  BY <1>1, <1>2, <1>3 DEF Closing, Holds
<1>4. CASE v = Append(w, Msg("CLOSE", k)) /\ ~ Unclosed(chan[p][c], k)
  <2>1. /\ Msg("CLOSE", k) \in Message /\ Msg("CLOSE", k).type = "CLOSE"
        /\ Msg("CLOSE", k).lease = k
    BY DEF Msg, Message
  <2>2. More(v, w, "CLOSE", k)
    BY <1>4, <2>1, AppendMore
  <2>3. \A j \in Nat : Data(w, j) \in Nat
    BY DataNat
  <2>4. \A j \in Nat : Data(v, j) = Data(w, j) + OneMore("CLOSE", k, j)
    BY <2>2 DEF More
  <2>5. \A j \in Nat : Data(v, j) = Data(w, j)
    BY <2>3, <2>4 DEF OneMore
  <2>6. \A j \in Nat : j # k => (Holds(v, "CLOSE", j) <=> Holds(w, "CLOSE", j))
    BY <2>2 DEF More
  <2>7. Holds(v, "CLOSE", k) \in BOOLEAN
    BY DEF Holds
  <2> QED
    BY <1>1, <1>2, <1>4, <2>5, <2>6, <2>7 DEF Closing
<1> QED
  BY <1>1, <1>2, <1>3, <1>4

\* What reading a message does to the two ends.
LEMMA HandleIs ==
    ASSUME IInv, LinkInv, SessionsTypeOK, NEW s \in Sides, NEW c \in Channels,
           c \notin missed, Kept(c),
           NEW k \in Leases, NEW p, p = Peer(s), chan[s][c].lease = k,
           session[s][c][k].reads = k, Handle(s, c), UNCHANGED strayed
    PROVE  HandledAs(s, c, k, p)
<1>1. /\ chan[s][c].dataFromPeerQueue # <<>> /\ dc' = dc
      /\ chan[s][c].onceOpened = "settled"
      /\ RunCallbacks(s, c, [chan[s][c] EXCEPT !.dataFromPeerQueue = Tail(@)],
                      wire, pool_)
  BY DEF Handle
<1>2. PICK e \in PoolChannel : e = chan[s][c]
  BY Knows
<1>3. PICK q \in Seq(Nat), n \in Nat \ {0} :
         /\ q = Tail(e.dataFromPeerQueue) /\ n = Len(e.dataFromPeerQueue)
         /\ Len(q) = n - 1
  <2>1. /\ Tail(e.dataFromPeerQueue) \in Seq(Nat)
        /\ Len(e.dataFromPeerQueue) \in Nat \ {0}
        /\ Len(Tail(e.dataFromPeerQueue)) = Len(e.dataFromPeerQueue) - 1
    BY <1>1, <1>2 DEF PoolChannel
  <2> QED
    BY <2>1
<1>4. PICK f \in PoolChannel :
         /\ f = [e EXCEPT !.dataFromPeerQueue = q]
         /\ f.state = e.state /\ f.onceOpened = e.onceOpened
         /\ f.onceClosed = e.onceClosed /\ f.ack = e.ack
         /\ f.dataFromPeerQueue = q /\ f.lease = e.lease
  <2>1. PICK g : g = [e EXCEPT !.dataFromPeerQueue = q]
    OBVIOUS
  <2>2. /\ g \in PoolChannel
        /\ g.state = e.state /\ g.onceOpened = e.onceOpened
        /\ g.onceClosed = e.onceClosed /\ g.ack = e.ack
        /\ g.dataFromPeerQueue = q /\ g.lease = e.lease
    BY <2>1 DEF PoolChannel
  <2> QED
    BY <2>1, <2>2
<1>5. RunCallbacks(s, c, f, wire, pool_)
  BY <1>1, <1>2, <1>3, <1>4
<1>6. wire = [wire EXCEPT ![s][c] = wire[s][c]] /\ wire[s][c] \in Seq(Message)
  BY DEF IInv, TypeOK
<1>7. TaskDone(s, c, f, wire[s][c])
  BY <1>5, <1>6, TaskEffect
<1>8. PICK e2 : e2 = Callbacks(f)
  OBVIOUS
<1>9. /\ chan'[s][c] = e2 /\ chan'[p][c] = chan[p][c] /\ wire'[s][c] = wire[s][c]
      /\ wire'[p][c] = IF AnswerDue(f) /\ ~ Broken(c)
                       THEN Append(wire[p][c], Msg("CLOSE", f.lease))
                       ELSE wire[p][c]
  BY <1>1, <1>7, <1>8 DEF TaskDone
<1>10. e.onceClosed # "fulfilled"
  BY <1>2 DEF IInv, AckInv
<1>11. /\ e2.state = e.state /\ e2.onceOpened = e.onceOpened
       /\ e2.dataFromPeerQueue = q /\ e2.lease = e.lease
       /\ e2.ack = IF e.ack = "draining" /\ q = <<>> THEN "sending" ELSE e.ack
  <2>1. f.onceClosed # "fulfilled" /\ f.onceOpened = "settled"
    BY <1>1, <1>2, <1>4, <1>10
  <2>2. /\ e2.state = f.state /\ e2.onceOpened = f.onceOpened
        /\ e2.dataFromPeerQueue = f.dataFromPeerQueue /\ e2.lease = f.lease
        /\ e2.ack = IF f.ack = "draining" /\ f.dataFromPeerQueue = <<>>
                    THEN "sending" ELSE f.ack
    BY <1>8, <2>1, CallbacksEffect
  <2> QED
    BY <1>4, <2>2
<1>12. \/ wire'[p][c] = wire[p][c]
       \/ /\ wire'[p][c] = Append(wire[p][c], Msg("CLOSE", k))
          /\ ~ Unclosed(chan[p][c], k)
  <2>1. CASE Broken(c) \/ e.ack # "draining"
    BY <1>4, <1>9, <2>1 DEF AnswerDue
  <2>2. CASE ~ Broken(c) /\ e.ack = "draining"
    <3>1. Alive(e)
      BY <1>2, <2>2, Knows DEF Sides
    <3>2. s = "local"
      BY <1>2, <2>2, <3>1, OwnIs DEF Own, Reader
    <3>3. p = "remote"
      BY <3>2 DEF Peer
    <3>4. ~ Unclosed(chan[p][c], k)
      BY <1>2, <2>2, <3>2, <3>3, PeerHasClosed
    <3> QED
      BY <1>2, <1>4, <1>9, <3>4
  <2> QED
    BY <2>1, <2>2
<1>21. p \in Sides /\ p # s /\ k \in Nat /\ \A j \in Leases : j \in Nat
  BY DEF Peer, Sides, Leases
<1>22. /\ \A j \in Nat : Data(wire'[p][c], j) = Data(wire[p][c], j)
       /\ \A j \in Nat : j # k =>
             (Closing(wire'[p][c], j) <=> Closing(wire[p][c], j))
       /\ Closing(wire'[p][c], k) \in BOOLEAN
       /\ Closing(wire'[p][c], k) =>
             Closing(wire[p][c], k) \/ ~ Unclosed(chan[p][c], k)
  BY <1>12, <1>21, HandleTells
<1>13. PICK d \in Nat : d = Data(wire[s][c], k)
  BY <1>6, DataNat
<1>14. /\ BehindOf(s, c, k) = d + n /\ BehindNow(s, c, k) = d + (n - 1)
  BY <1>2, <1>3, <1>9, <1>11, <1>13 DEF BehindOf, BehindNow, Behind, Unread
<1>15. /\ BehindNow(s, c, k) \in Nat
       /\ BehindOf(s, c, k) = BehindNow(s, c, k) + 1
  BY <1>14
<1>16. \A j \in Leases : j # k => BehindNow(s, c, j) = BehindOf(s, c, j)
  BY <1>2, <1>9, <1>11 DEF BehindOf, BehindNow, Behind, Unread
<1>17. \A j \in Leases : BehindNow(p, c, j) = BehindOf(p, c, j)
  BY <1>9, <1>21, <1>22 DEF BehindOf, BehindNow, Behind
<1>18. Works(e, e2)
  BY <1>1, <1>2, <1>11 DEF Works, Alive
<1>19. WiredAs(s, c, k)
  <2>1. \A t \in Sides : t = s \/ t = p
    BY DEF Peer, Sides
  <2>2. Straight(c)'
    BY DEF Kept, Straight
  <2>3. \A j \in Leases : j # k =>
          (Closing(wire'[p][c], j) <=> Closing(wire[p][c], j))
    BY <1>21, <1>22
  <2> QED
    BY <1>2, <1>9, <1>16, <1>17, <1>18, <2>1, <2>2, <2>3 DEF WiredAs
<1>20. Handled(e, e2, BehindOf(s, c, k), BehindNow(s, c, k), k)
  BY <1>1, <1>2, <1>11, <1>15 DEF Handled
<1> QED
  BY <1>2, <1>9, <1>15, <1>17, <1>19, <1>20, <1>22 DEF HandledAs

\* What a session may be after a message is what the story wants.
LEMMA TakenIs ==
    ASSUME NEW s, NEW c, NEW me \in Session, NEW f, NEW what,
           what = (IF f = "taken" THEN "data" ELSE f),
           NEW x \in Taken(s, c, me, what)
    PROVE  x \in Session /\ Takes(me, x, f)
<1>1. CASE me.step = "awaiting"
  <2>1. PICK reply \in Reply : reply = IF what \in Reply THEN what ELSE "FAILURE"
    BY DEF Reply
  <2>2. x = [Answering(me, reply) EXCEPT !.reads = 0]
    BY <1>1, <2>1 DEF Taken
  <2>3. PICK step : step = IF me.socket = "open" THEN "answering" ELSE "unanswered"
    OBVIOUS
  <2>4. x = [me EXCEPT !.reply = reply, !.step = step, !.reads = 0]
    BY <2>2, <2>3 DEF Answering, Session
  <2>5. /\ x \in Session /\ x.stop = me.stop /\ x.step = step
        /\ x.queued = me.queued /\ x.sent = me.sent /\ x.got = me.got
        /\ x.socket = me.socket /\ x.reads = 0 /\ x.listens = me.listens
        /\ x.paused = me.paused /\ x.reply = reply
    BY <2>3, <2>4 DEF Session, SocksStep
  <2> QED
    BY <1>1, <2>1, <2>3, <2>5 DEF Takes
<1>2. CASE me.step = "endpoint"
  <2>1. PICK e \in Endpoint(me, what) : x = [e EXCEPT !.reads = 0]
    BY <1>2 DEF Taken
  <2>2. CASE e = [me EXCEPT !.step = "replying", !.reply = "REFUSED"]
    <3>1. /\ x \in Session /\ x.stop = me.stop /\ x.step = "replying"
          /\ x.queued = me.queued /\ x.sent = me.sent /\ x.got = me.got
          /\ x.socket = me.socket /\ x.reads = 0 /\ x.listens = me.listens
          /\ x.paused = me.paused /\ x.reply = "REFUSED"
      BY <2>1, <2>2 DEF Session, RtcStep, Reply
    <3> QED
      BY <1>2, <3>1 DEF Takes
  <2>3. CASE /\ what = "request"
             /\ e = [me EXCEPT !.step = "connecting", !.socket = "connecting",
                               !.paused = "handshake"]
    <3>1. /\ x \in Session /\ x.stop = me.stop /\ x.step = "connecting"
          /\ x.queued = me.queued /\ x.sent = me.sent /\ x.got = me.got
          /\ x.socket = "connecting" /\ x.reads = 0 /\ x.listens = me.listens
          /\ x.paused = "handshake" /\ x.reply = me.reply
      BY <2>1, <2>3 DEF Session, RtcStep
    <3> QED
      BY <1>2, <2>3, <3>1 DEF Takes
  <2> QED
    BY <2>1, <2>2, <2>3 DEF Endpoint
<1>3. CASE me.step \notin {"awaiting", "endpoint"}
  <2>0. me.got + 1 \in Nat /\ me.got \in Nat
    BY DEF Session
  <2>1. PICK got \in Nat : got = IF what = "data" /\ me.socket = "open"
                                 THEN me.got + 1 ELSE me.got
    BY <2>0
  <2>2. x = [me EXCEPT !.got = got]
    BY <1>3, <2>1 DEF Taken
  <2>3. /\ x \in Session /\ x.stop = me.stop /\ x.step = me.step
        /\ x.queued = me.queued /\ x.sent = me.sent /\ x.got = got
        /\ x.socket = me.socket /\ x.reads = me.reads /\ x.listens = me.listens
        /\ x.paused = me.paused /\ x.reply = me.reply
    BY <2>2 DEF Session
  <2> QED
    BY <1>3, <2>1, <2>3 DEF Takes
<1> QED
  BY <1>1, <1>2, <1>3

\* A session takes the first message of its queue.
LEMMA TakeKeeps ==
    ASSUME IInv, IInv', LinkInv, SessionsTypeOK, NEW s \in Sides, NEW c \in Channels,
           c \notin missed, Kept(c),
           NEW k \in Leases, Take(s, c, k), UNCHANGED overflow
    PROVE  Kept(c)'
<1>1. PICK me \in Session : me = session[s][c][k]
  BY DEF Kept, SessionsTypeOK
<1>2. /\ Own(s, chan[s][c], me, k, overflow[s][c]) /\ chan[s][c] \in PoolChannel
      /\ k \in Nat \ {0} /\ EndOK(chan[s][c])
  BY <1>1, OwnIs
<1>3. chan[s][c].lease = k /\ me.reads = k
  <2>1. me.reads = chan[s][c].lease /\ chan[s][c].lease # 0
    BY <1>1, <1>2 DEF Take, EndOK
  <2> QED
    BY <1>2, <2>1 DEF Own, Reader
<1>4. PICK p \in Sides : p = Peer(s) /\ p # s
  BY DEF Peer, Sides
<1>5. PICK f, what : /\ f = first[s][c][k]
                     /\ what = (IF f = "taken" THEN "data" ELSE f)
  OBVIOUS
<1>0. Head(chan[s][c].dataFromPeerQueue) = k
  <2>1. PICK q \in Seq(Nat) : q = chan[s][c].dataFromPeerQueue
    BY <1>2 DEF PoolChannel
  <2>2. q # <<>> /\ \A i \in 1 .. Len(q) : q[i] = k
    BY <1>2, <1>3, <2>1 DEF Take, Handle, EndOK
  <2>3. Head(q) = q[1] /\ 1 \in 1 .. Len(q)
    BY <2>2
  <2> QED
    BY <2>1, <2>2, <2>3
<1>6. /\ Handle(s, c) /\ UNCHANGED strayed
      /\ first' = [first EXCEPT ![s][c][k] = "taken"]
      /\ \E x \in Taken(s, c, me, what) : Become(s, c, k, x)
  BY <1>0, <1>1, <1>5 DEF Take
<1>7. PICK x \in Taken(s, c, me, what) :
         session' = [session EXCEPT ![s][c][k] = x]
  BY <1>6 DEF Become
<1>8. x \in Session /\ Takes(me, x, f)
  BY <1>5, <1>7, TakenIs
<1>9. HandledAs(s, c, k, p)
  BY <1>1, <1>3, <1>4, <1>6, HandleIs
<1>10. /\ StoryWith(s, c, k, p, me, overflow[s][c])
       /\ TypedNow(s, c, k, p)
  BY <1>1, <1>4, StoryIs
<1>11. chan'[s][c] \in PoolChannel
  BY DEF IInv, TypeOK
<1>12. StoryAt(s, chan'[s][c], chan[p][c], x, session[p][c][k],
               overflow[s][c], overflow[p][c], "taken", first[p][c][k],
               BehindNow(s, c, k), BehindOf(p, c, k),
               Closing(wire[s][c], k), Closing(wire[p][c], k), k)
  <2>1. /\ Handled(chan[s][c], chan'[s][c], BehindOf(s, c, k), BehindNow(s, c, k), k)
        /\ BehindNow(s, c, k) \in Nat
    BY <1>9 DEF HandledAs
  <2>2. StoryAt(s, chan[s][c], chan[p][c], me, session[p][c][k],
                overflow[s][c], overflow[p][c], f, first[p][c][k],
                BehindOf(s, c, k), BehindOf(p, c, k),
                Closing(wire[s][c], k), Closing(wire[p][c], k), k)
    BY <1>5, <1>10 DEF StoryWith
  <2>3. TypedAt(s, chan[s][c], chan[p][c], me, session[p][c][k],
                BehindOf(s, c, k), BehindOf(p, c, k),
                Closing(wire[s][c], k), Closing(wire[p][c], k), k)
    BY <1>1, <1>10 DEF TypedNow
  <2> QED
    BY <1>3, <1>8, <1>11, <2>1, <2>2, <2>3, TakesStory
<1>13. first \in FirstType
  BY DEF FirstType, Kept, SessionsTypeOK
<1>14. /\ first'[s][c][k] = "taken" /\ first'[p][c][k] = first[p][c][k]
       /\ FirstAs(c, k)
  BY <1>4, <1>6, <1>13 DEF FirstAs, FirstType
<1>15. OverflowAs(s, c, k) /\ overflow' = overflow
  BY SameOverflow
<1>16. /\ Closing(wire'[s][c], k) = Closing(wire[s][c], k)
       /\ Closing(wire'[p][c], k) \in BOOLEAN
       /\ Closing(wire'[p][c], k) =>
             Closing(wire[p][c], k) \/ ~ Unclosed(chan[p][c], k)
       /\ BehindNow(p, c, k) = BehindOf(p, c, k) /\ WiredAs(s, c, k)
  BY <1>9 DEF HandledAs
<1>17. StoryAt(s, chan'[s][c], chan[p][c], x, session[p][c][k],
               overflow'[s][c], overflow[p][c],
               first'[s][c][k], first'[p][c][k],
               BehindNow(s, c, k), BehindNow(p, c, k),
               Closing(wire'[s][c], k), Closing(wire'[p][c], k), k)
  <2>1. Closing(wire[s][c], k) \in BOOLEAN /\ Closing(wire[p][c], k) \in BOOLEAN
    BY DEF Closing, Holds
  <2>2. StoryAt(s, chan'[s][c], chan[p][c], x, session[p][c][k],
                overflow[s][c], overflow[p][c], "taken", first[p][c][k],
                BehindNow(s, c, k), BehindOf(p, c, k),
                Closing(wire[s][c], k), Closing(wire'[p][c], k), k)
    BY <1>12, <1>16, <2>1, AnswerTold
  <2> QED
    BY <1>14, <1>15, <1>16, <2>2
<1> QED
  BY <1>4, <1>7, <1>8, <1>14, <1>15, <1>16, <1>17, ActKeeps

-----------------------------------------------------------------------------
(* The step that closes the channel. *)

\* What close() of session k leaves of the channel.
ClosedAs(s, c, k, p) ==
    /\ WiredAs(s, c, k)
    /\ chan'[s][c].state = "CLOSING" /\ chan'[s][c].lease = chan[s][c].lease
    /\ chan'[s][c].onceOpened = chan[s][c].onceOpened
    /\ chan'[s][c].ack = chan[s][c].ack
    /\ BehindNow(s, c, k) = BehindOf(s, c, k)
    /\ BehindNow(p, c, k) = BehindOf(p, c, k)
    /\ Closing(wire'[s][c], k) <=> Closing(wire[s][c], k)
    /\ Closing(wire'[p][c], k) => Closing(wire[p][c], k) \/ Alive(chan[p][c])

\* What closing the channel does to the two ends.
LEMMA CloseIs ==
    ASSUME IInv, LinkInv, SessionsTypeOK, NEW s \in Sides, NEW c \in Channels,
           c \notin missed, Kept(c),
           NEW k \in Leases, NEW p, p = Peer(s), chan[s][c].lease = k,
           Close(s, c), UNCHANGED strayed
    PROVE  ClosedAs(s, c, k, p)
<1>1. /\ chan' = [chan EXCEPT ![s][c].state = "CLOSING"]
      /\ wire' = Post(wire, s, c, Msg("CLOSE", k))
      /\ chan[s][c].state = "OPEN" /\ dc' = dc /\ accepted' = accepted
  BY DEF Close
<1>2. /\ p \in Sides /\ p # s /\ \A t \in Sides : t = s \/ t = p
  BY DEF Peer, Sides
<1>3. PICK e \in PoolChannel : e = chan[s][c] /\ EndOK(e)
  BY OwnIs
<1>4. PICK e2 : e2 = [e EXCEPT !.state = "CLOSING"]
  OBVIOUS
<1>5. /\ e2.state = "CLOSING" /\ e2.onceOpened = e.onceOpened
      /\ e2.ack = e.ack /\ e2.lease = e.lease
      /\ e2.dataFromPeerQueue = e.dataFromPeerQueue
  BY <1>4 DEF PoolChannel
<1>6. /\ chan \in [Sides -> [Channels -> PoolChannel]]
      /\ wire \in [Sides -> [Channels -> Seq(Message)]]
      /\ k \in Nat \ {0} /\ Straight(c)
  BY DEF IInv, TypeOK, Kept, Leases
<1>7. /\ chan'[s][c] = e2 /\ chan'[p][c] = chan[p][c]
      /\ \A t \in Sides, d \in Channels : d # c => chan'[t][d] = chan[t][d]
  BY <1>1, <1>2, <1>3, <1>4, <1>6
<1>8. PICK w \in Seq(Message) : w = wire[p][c]
  BY <1>2, <1>6
<1>9. /\ wire'[s][c] = wire[s][c]
      /\ \A t \in Sides, d \in Channels : d # c => wire'[t][d] = wire[t][d]
      /\ wire'[p][c] = IF Broken(c) THEN w ELSE Append(w, Msg("CLOSE", k))
  <2>1. CASE Broken(c)
    BY <1>1, <1>8, <2>1 DEF Post
  <2>2. CASE ~ Broken(c)
    <3>1. wire' = [wire EXCEPT ![p][c] = Append(@, Msg("CLOSE", k))]
      BY <1>1, <2>2 DEF Post
    <3> QED
      BY <1>2, <1>6, <1>8, <2>2, <3>1
  <2> QED
    BY <2>1, <2>2
<1>10. Broken(c) <=> ~ (Alive(chan[s][c]) /\ Alive(chan[p][c]))
  BY Knows DEF Peer, Sides
<1>11. \/ wire'[p][c] = w
       \/ More(wire'[p][c], w, "CLOSE", k) /\ Alive(chan[p][c])
  <2>1. CASE ~ Broken(c)
    <3>1. /\ Msg("CLOSE", k) \in Message /\ Msg("CLOSE", k).type = "CLOSE"
          /\ Msg("CLOSE", k).lease = k
      BY <1>6 DEF Msg, Message
    <3>2. More(Append(w, Msg("CLOSE", k)), w, "CLOSE", k)
      BY <3>1, AppendMore
    <3> QED
      BY <1>9, <1>10, <2>1, <3>2
  <2> QED
    BY <1>9, <2>1
<1>12. /\ \A j \in Nat : Data(wire'[p][c], j) = Data(w, j)
       /\ \A j \in Nat : j # k =>
             (Closing(wire'[p][c], j) <=> Closing(wire[p][c], j))
       /\ Closing(wire'[p][c], k) => Closing(wire[p][c], k) \/ Alive(chan[p][c])
  <2>1. \A j \in Nat : Data(w, j) \in Nat
    BY DataNat
  <2>2. CASE wire'[p][c] = w
    BY <1>8, <2>2
  <2>3. CASE More(wire'[p][c], w, "CLOSE", k) /\ Alive(chan[p][c])
    <3>1. PICK v : v = wire'[p][c]
      OBVIOUS
    <3>2. \A j \in Nat : Holds(v, "CLOSE", j) <=> Holds(w, "CLOSE", j) \/ k = j
      BY <2>3, <3>1 DEF More
    <3>3. \A j \in Nat : Data(v, j) = Data(w, j) + OneMore("CLOSE", k, j)
      BY <2>3, <3>1 DEF More
    <3>4. \A j \in Nat : Data(v, j) = Data(w, j)
      BY <2>1, <3>3 DEF OneMore
    <3> QED
      BY <1>8, <2>3, <3>1, <3>2, <3>4 DEF Closing
  <2> QED
    BY <1>11, <2>2, <2>3
<1>13. \A j \in Nat : BehindNow(s, c, j) = BehindOf(s, c, j)
  BY <1>3, <1>5, <1>7, <1>9 DEF BehindNow, BehindOf, Behind, Unread
<1>14. \A j \in Nat : BehindNow(p, c, j) = BehindOf(p, c, j)
  BY <1>7, <1>8, <1>12 DEF BehindNow, BehindOf, Behind, Unread
<1>15. Works(e, e2)
  BY <1>1, <1>3, <1>5 DEF Works, Alive, EndOK
<1>16. Straight(c)'
  BY <1>6 DEF Straight
<1>17. \A t \in Sides, j \in Leases : j # k =>
          /\ BehindNow(t, c, j) = BehindOf(t, c, j)
          /\ Closing(wire'[t][c], j) <=> Closing(wire[t][c], j)
  <2>1. \A j \in Leases : j \in Nat
    BY DEF Leases
  <2> QED
    BY <1>2, <1>9, <1>12, <1>13, <1>14, <2>1
<1>18. WiredAs(s, c, k)
  BY <1>3, <1>6, <1>7, <1>15, <1>16, <1>17 DEF WiredAs
<1> QED
  BY <1>3, <1>5, <1>6, <1>7, <1>9, <1>12, <1>13, <1>14, <1>18 DEF ClosedAs

\* Who stops by itself has the channel still.
LEMMA StopsInLease ==
    ASSUME NEW s \in Sides, NEW e \in PoolChannel, NEW x \in Session, NEW o,
           NEW k \in Nat \ {0}, NEW why, EndOK(e), Own(s, e, x, k, o),
           e.state = "OPEN", StopsFor(e, x, why, k)
    PROVE  /\ e.lease = k
           /\ \/ why = "failed" /\ x.step = "failed"
              \/ /\ why \in {"failed", "socketClosed"} /\ x.step = "linked"
                 /\ x.queued = 0
<1>1. /\ Holding(s, e, x, k) /\ Hearing(s, e, x, k) /\ x.stop = "no"
      /\ Alive(e) /\ ~ JustLeft(e, k)
  BY DEF Own, StopsFor, Alive, JustLeft
<1>2. why # "channelClosed"
  <2> SUFFICES ASSUME why = "channelClosed" PROVE FALSE
    OBVIOUS
  <2>1. x.listens # 0 /\ (x.listens < e.lease \/ e.onceClosed = "settled")
    BY DEF StopsFor
  <2>2. x.listens = k /\ e.lease = k
    BY <1>1, <2>1 DEF Hearing
  <2>3. e.onceClosed = "pending"
    BY <1>1 DEF EndOK
  <2> QED
    BY <2>1, <2>2, <2>3
<1>3. why = "failed" /\ x.step = "failed" => e.lease = k
  BY <1>1 DEF Holding, Held
<1>4. x.step = "linked" /\ x.socket = "gone" => e.lease = k
  BY <1>1 DEF Holding, Hearing, Listens, Sides
<1> QED
  BY <1>2, <1>3, <1>4 DEF StopsFor

\* A session stops, and its channel is open: it closes it.
LEMMA OpenStopKeeps ==
    ASSUME IInv, IInv', LinkInv, SessionsTypeOK, NEW s \in Sides, NEW c \in Channels,
           c \notin missed, Kept(c),
           NEW k \in Leases, NEW why, StopsFor(chan[s][c], session[s][c][k], why, k),
           Stop(s, c, k, why), chan[s][c].state = "OPEN", UNCHANGED overflow
    PROVE  Kept(c)'
<1>1. PICK me \in Session : me = session[s][c][k]
  BY DEF Kept, SessionsTypeOK
<1>2. /\ Own(s, chan[s][c], me, k, overflow[s][c]) /\ chan[s][c] \in PoolChannel
      /\ k \in Nat \ {0} /\ EndOK(chan[s][c])
  BY <1>1, OwnIs
<1>3. PICK e \in PoolChannel : e = chan[s][c]
  BY <1>2
<1>4. /\ e.lease = k
      /\ \/ why = "failed" /\ me.step = "failed"
         \/ /\ why \in {"failed", "socketClosed"} /\ me.step = "linked"
            /\ me.queued = 0
  BY <1>1, <1>2, <1>3, StopsInLease
<1>5. me.stop = "no"
  BY <1>1 DEF StopsFor
<1>6. PICK x : x = [me EXCEPT !.stop = why]
  OBVIOUS
<1>7. /\ x \in Session /\ x.stop = why /\ x.step = me.step
      /\ x.queued = me.queued /\ x.sent = me.sent /\ x.got = me.got
      /\ x.socket = me.socket /\ x.reads = me.reads /\ x.listens = me.listens
      /\ x.paused = me.paused /\ x.reply = me.reply
  BY <1>4, <1>6 DEF Session
<1>8. /\ session' = [session EXCEPT ![s][c][k] = x]
      /\ Close(s, c) /\ UNCHANGED strayed /\ first' = first
  BY <1>1, <1>3, <1>4, <1>6 DEF Stop, Become, Uses
<1>9. PICK p \in Sides : p = Peer(s) /\ p # s
  BY DEF Peer, Sides
<1>10. ClosedAs(s, c, k, p)
  BY <1>3, <1>4, <1>8, <1>9, CloseIs
<1>11. /\ StoryWith(s, c, k, p, me, overflow[s][c])
       /\ TypedNow(s, c, k, p)
  BY <1>1, <1>9, StoryIs
<1>12. chan'[s][c] \in PoolChannel /\ Closing(wire'[p][c], k) \in BOOLEAN
  BY DEF IInv, TypeOK, Closing, Holds
<1>13. Finishes(e, chan'[s][c], chan[p][c], me, x, Closing(wire[p][c], k),
                Closing(wire'[p][c], k), k)
  BY <1>3, <1>4, <1>5, <1>7, <1>10 DEF Finishes, ClosedAs, Alike
<1>14. StoryAt(s, chan'[s][c], chan[p][c], x, session[p][c][k],
               overflow[s][c], overflow[p][c], first[s][c][k], first[p][c][k],
               BehindOf(s, c, k), BehindOf(p, c, k),
               Closing(wire[s][c], k), Closing(wire'[p][c], k), k)
  BY <1>1, <1>3, <1>7, <1>11, <1>12, <1>13, FinishesStory DEF StoryWith, TypedNow
<1>15. FirstAs(c, k)
  BY <1>8 DEF FirstAs, FirstType, Kept, SessionsTypeOK
<1>16. OverflowAs(s, c, k) /\ overflow' = overflow
  BY SameOverflow
<1>17. /\ Closing(wire'[s][c], k) = Closing(wire[s][c], k)
       /\ BehindNow(s, c, k) = BehindOf(s, c, k)
       /\ BehindNow(p, c, k) = BehindOf(p, c, k) /\ WiredAs(s, c, k)
  <2>1. Closing(wire'[s][c], k) <=> Closing(wire[s][c], k)
    BY <1>10 DEF ClosedAs
  <2>2. Closing(wire'[s][c], k) = Closing(wire[s][c], k)
    BY <2>1 DEF Closing, Holds
  <2> QED
    BY <1>10, <2>2 DEF ClosedAs
<1>18. StoryAt(s, chan'[s][c], chan[p][c], x, session[p][c][k],
               overflow'[s][c], overflow[p][c],
               first'[s][c][k], first'[p][c][k],
               BehindNow(s, c, k), BehindNow(p, c, k),
               Closing(wire'[s][c], k), Closing(wire'[p][c], k), k)
  BY <1>8, <1>14, <1>16, <1>17
<1> QED
  BY <1>7, <1>8, <1>9, <1>15, <1>16, <1>17, <1>18, ActKeeps

\* A session stops, whatever its channel is at.
LEMMA StopKeeps ==
    ASSUME IInv, IInv', LinkInv, SessionsTypeOK, NEW s \in Sides, NEW c \in Channels,
           c \notin missed, Kept(c),
           NEW k \in Leases, NEW why, StopsFor(chan[s][c], session[s][c][k], why, k),
           Stop(s, c, k, why), UNCHANGED overflow
    PROVE  Kept(c)'
BY OpenStopKeeps, LateStopKeeps

\* The send of a refusal settles, and its session stops.
LEMMA RefusalSentKeeps ==
    ASSUME IInv, IInv', LinkInv, SessionsTypeOK, Quiet, NEW c \in Channels,
           c \notin missed, Kept(c),
           NEW k \in Leases, RefusalSent(c, k), UNCHANGED overflow
    PROVE  Kept(c)'
<1>0. "remote" \in Sides
  BY DEF Sides
<1>1. PICK me \in Session : me = session["remote"][c][k]
  BY <1>0 DEF Kept, SessionsTypeOK
<1>2. /\ Own("remote", chan["remote"][c], me, k, overflow["remote"][c])
      /\ chan["remote"][c] \in PoolChannel /\ k \in Nat \ {0}
  BY <1>0, <1>1, OwnIs
<1>3. Idle(chan["remote"][c], me, k)
  BY <1>0, <1>1, QuietIsIdle DEF Kept
<1>4. me.step = "linked" /\ me.stop = "no" /\ Stop("remote", c, k, "failed")
  BY <1>1 DEF RefusalSent
<1>5. chan["remote"][c].lease = k /\ me.queued = 0
  BY <1>2, <1>3, <1>4 DEF Own, Hearing, Listens, Idle, JustLeft, PoolChannel
<1>6. StopsFor(chan["remote"][c], me, "failed", k)
  BY <1>4, <1>5 DEF StopsFor
<1> QED
  BY <1>0, <1>1, <1>4, <1>6, StopKeeps

-----------------------------------------------------------------------------
(* What a step leaves alone.                                               *)

SessionType == [Sides -> [Channels -> [Leases -> Session]]]

\* Of two values of a variable: they differ on channel c only.
SameBut(c, new, old) ==
    \A t \in Sides, d \in Channels : d # c => new[t][d] = old[t][d]

SessionIn(c) == session' \in SessionType /\ SameBut(c, session', session)

FirstIn(c) == first' \in FirstType /\ SameBut(c, first', first)

OverflowIn(c) == overflow' \in OverflowType /\ SameBut(c, overflow', overflow)

StrayedIn(c) == \E S \in SUBSET (Sides \X {c} \X Leases) : strayed' = strayed \cup S

LateIn(c) == late' \in {late, late \cup {c}}

\* A step of channel c and its sessions leaves all others alone.
Alone(c) ==
    /\ Only(c) /\ SessionIn(c) /\ FirstIn(c) /\ OverflowIn(c) /\ StrayedIn(c)
    /\ LateIn(c)

\* What is known of the others still holds.
LEMMA AloneKeeps ==
    ASSUME NEW c \in Channels, Alone(c), NEW d \in Channels, d # c, Kept(d)
    PROVE  Kept(d)'
<1>1. \A s \in Sides : /\ chan'[s][d] = chan[s][d] /\ wire'[s][d] = wire[s][d]
                       /\ session'[s][d] = session[s][d] /\ first'[s][d] = first[s][d]
                       /\ overflow'[s][d] = overflow[s][d]
  BY DEF Alone, Only, Elsewhere, SessionIn, FirstIn, OverflowIn, SameBut
<1>2. "local" \in Sides /\ "remote" \in Sides /\ \A s \in Sides : Peer(s) \in Sides
  BY DEF Sides, Peer
<1>3. \A s \in Sides : ReadAll(chan'[s][d])
  BY <1>1 DEF Kept
<1>4. Straight(d)'
  <2>1. PICK S \in SUBSET (Sides \X {c} \X Leases) : strayed' = strayed \cup S
    BY DEF Alone, StrayedIn
  <2>2. ASSUME NEW s \in Sides, NEW k \in Leases PROVE <<s, d, k>> \notin S
    BY <2>1
  <2> QED
    BY <2>1, <2>2 DEF Kept, Straight
<1>5. ASSUME NEW k \in Leases PROVE Story(d, k)'
  <2>1. Story(d, k)
    BY DEF Kept
  <2>2. TalkOf(d, k)'
    BY <1>1, <1>2, <2>1 DEF Story, TalkOf
  <2>3. ASSUME NEW s \in Sides
        PROVE  OwnOf(s, d, k)' /\ ExactOf(s, d, k)' /\ GoodbyeOf(s, d, k)'
    BY <1>1, <1>2, <2>1 DEF Story, OwnOf, ExactOf, GoodbyeOf
  <2> QED
    BY <2>2, <2>3 DEF Story
<1> QED
  BY <1>3, <1>4, <1>5 DEF Kept

\* So a step that keeps what is kept on its channel keeps the invariant.
LEMMA AllKept ==
    ASSUME IInv', SessionsInv, NEW c \in Channels, Alone(c), c \in Sound' => Kept(c)'
    PROVE  SessionsInv'
<1>1. SessionsTypeOK'
  <2>1. TypeOK'
    BY DEF IInv
  <2>2. /\ session' \in SessionType /\ first' \in FirstType /\ overflow' \in OverflowType
        /\ late' \subseteq Channels
    BY DEF Alone, SessionIn, FirstIn, OverflowIn, LateIn, SessionsInv, SessionsTypeOK
  <2>3. strayed' \subseteq Sides \X Channels \X Leases
    <3>1. PICK S \in SUBSET (Sides \X {c} \X Leases) : strayed' = strayed \cup S
      BY DEF Alone, StrayedIn
    <3>2. Sides \X {c} \X Leases \subseteq Sides \X Channels \X Leases
      OBVIOUS
    <3> QED
      BY <3>1, <3>2 DEF SessionsInv, SessionsTypeOK
  <2> QED
    BY <2>1, <2>2, <2>3 DEF SessionsTypeOK, SessionType, FirstType, OverflowType
<1>2. ASSUME NEW d \in Sound' PROVE Kept(d)'
  <2>1. d \in Sound /\ d \in Channels
    BY DEF Sound, Intact, Alone, Only, LateIn
  <2>2. Kept(d)
    BY <2>1 DEF SessionsInv
  <2> QED
    BY <2>1, <2>2, AloneKeeps
<1> QED
  BY <1>1, <1>2 DEF SessionsInv

\* A step that leaves the channels alone.
LEMMA PoolStill ==
    ASSUME NEW c \in Channels, UNCHANGED poolVars
    PROVE  Only(c)
BY DEF poolVars, Only, Elsewhere

\* A step that changes one session,
LEMMA OneChanged ==
    ASSUME SessionsTypeOK, NEW s \in Sides, NEW c \in Channels, NEW k \in Leases,
           NEW x \in Session, Become(s, c, k, x)
    PROVE  SessionIn(c)
<1>1. session \in SessionType /\ session' = [session EXCEPT ![s][c][k] = x]
  BY DEF SessionsTypeOK, SessionType, Become
<1>2. session' \in SessionType
  BY <1>1 DEF SessionType
<1>3. SameBut(c, session', session)
  BY <1>1 DEF SessionType, SameBut
<1> QED
  BY <1>2, <1>3 DEF SessionIn

\* or sets a handler.
LEMMA ReadingChanged ==
    ASSUME IInv, SessionsTypeOK, NEW s \in Sides, NEW c \in Channels, NEW k,
           NEW x \in Session, Reading(s, c, k, x)
    PROVE  SessionIn(c)
<1>1. PICK lease \in Nat : lease = chan[s][c].lease
  BY DEF SessionsTypeOK, TypeOK, PoolChannel
<1>2. PICK x2 : x2 = [x EXCEPT !.reads = lease]
  OBVIOUS
<1>3. x2 \in Session
  BY <1>2 DEF Session
<1>4. session \in SessionType
  BY DEF SessionsTypeOK, SessionType
<1>5. \A j \in Leases : /\ session[s][c][j] \in Session
                        /\ [session[s][c][j] EXCEPT !.reads = 0] \in Session
  <2>1. ASSUME NEW y \in Session PROVE [y EXCEPT !.reads = 0] \in Session
    BY DEF Session
  <2> QED
    BY <1>4, <2>1 DEF SessionType
<1>6. PICK row : row = [j \in Leases |->
            IF j = k THEN x2
            ELSE IF session[s][c][j].reads = lease
                 THEN [session[s][c][j] EXCEPT !.reads = 0]
            ELSE session[s][c][j]]
  OBVIOUS
<1>7. row \in [Leases -> Session]
  BY <1>3, <1>5, <1>6
<1>8. session' = [session EXCEPT ![s][c] = row]
  BY <1>1, <1>2, <1>4, <1>6 DEF Reading, SessionType
<1>9. session' \in SessionType
  BY <1>4, <1>7, <1>8 DEF SessionType
<1>10. SameBut(c, session', session)
  BY <1>4, <1>8 DEF SessionType, SameBut
<1> QED
  BY <1>9, <1>10 DEF SessionIn

\* Where a variable does not change, it is left alone.
LEMMA StillIn ==
    ASSUME SessionsTypeOK, NEW c \in Channels
    PROVE  /\ UNCHANGED session => SessionIn(c)
           /\ UNCHANGED first => FirstIn(c)
           /\ UNCHANGED overflow => OverflowIn(c)
           /\ UNCHANGED strayed => StrayedIn(c)
           /\ UNCHANGED late => LateIn(c)
<1>1. ASSUME UNCHANGED strayed PROVE StrayedIn(c)
  <2>1. {} \in SUBSET (Sides \X {c} \X Leases) /\ strayed' = strayed \cup {}
    BY <1>1
  <2> QED
    BY <2>1 DEF StrayedIn
<1>2. /\ UNCHANGED session => SessionIn(c)
      /\ UNCHANGED first => FirstIn(c)
  BY DEF SessionsTypeOK, SessionIn, FirstIn, SameBut, SessionType, FirstType
<1>3. /\ UNCHANGED overflow => OverflowIn(c)
      /\ UNCHANGED late => LateIn(c)
  BY DEF SessionsTypeOK, OverflowIn, LateIn, SameBut, OverflowType
<1> QED
  BY <1>1, <1>2, <1>3

\* A session that changes and does nothing else leaves the others alone.
LEMMA SilentAlone ==
    ASSUME SessionsTypeOK, NEW c \in Channels, SessionIn(c), OverflowIn(c), LateIn(c),
           UNCHANGED <<poolVars, first, strayed>>
    PROVE  Alone(c)
BY PoolStill, StillIn DEF Alone

\* What a session does with a channel is noted for that channel.
LEMMA UsesIn ==
    ASSUME NEW s \in Sides, NEW c \in Channels, NEW k \in Leases, Uses(s, c, k)
    PROVE  StrayedIn(c)
<1>1. {<<s, c, k>>} \in SUBSET (Sides \X {c} \X Leases)
      /\ {} \in SUBSET (Sides \X {c} \X Leases)
  OBVIOUS
<1>2. CASE strayed' = strayed \cup {<<s, c, k>>}
  BY <1>1, <1>2 DEF StrayedIn
<1>3. CASE strayed' = strayed \cup {}
  BY <1>1, <1>3 DEF StrayedIn
<1> QED
  BY <1>2, <1>3 DEF Uses

\* So are sends,
LEMMA SayIn ==
    ASSUME IInv, SessionsTypeOK, NEW s \in Sides, NEW c \in Channels, NEW k \in Leases,
           NEW what \in {"none", "request", "data", "taken"} \cup Reply,
           Say(s, c, k, what)
    PROVE  Only(c) /\ FirstIn(c) /\ StrayedIn(c)
<1>1. CASE UNCHANGED <<poolVars, first, strayed>>
  BY <1>1, PoolStill, StillIn
<1>2. CASE /\ Says(s, c) /\ Uses(s, c, k)
           /\ first' = [first EXCEPT ![Peer(s)][c][chan[s][c].lease] =
                          IF @ = "none" THEN what ELSE @]
  <2>1. Only(c) /\ StrayedIn(c)
    BY <1>2, UserOnly, UsesIn
  <2>2. first \in FirstType
    BY DEF SessionsTypeOK, FirstType
  <2>3. PICK p, F : /\ p \in Sides /\ p = Peer(s)
                    /\ F = {"none", "request", "data", "taken"} \cup Reply
    BY DEF Peer, Sides
  <2>4. PICK lease, v : /\ lease = chan[s][c].lease
                        /\ v = IF first[p][c][lease] = "none" THEN what
                               ELSE first[p][c][lease]
    OBVIOUS
  <2>5. PICK row : row = [first[p][c] EXCEPT ![lease] = v]
    OBVIOUS
  <2>6. first \in [Sides -> [Channels -> [Leases -> F]]] /\ what \in F
    BY <2>2, <2>3 DEF FirstType
  <2>7. row \in [Leases -> F]
    <3>1. PICK g \in [Leases -> F] : g = first[p][c]
      BY <2>3, <2>6
    <3>2. CASE lease \in Leases
      <4>1. v \in F
        BY <2>4, <2>6, <3>1, <3>2
      <4> QED
        BY <2>5, <3>1, <4>1
    <3>3. CASE lease \notin Leases
      BY <2>5, <3>1, <3>3
    <3> QED
      BY <3>2, <3>3
  <2>8. first' = [first EXCEPT ![p][c] = row]
    BY <1>2, <2>3, <2>4, <2>5, <2>6
  <2>9. first' \in [Sides -> [Channels -> [Leases -> F]]] /\ SameBut(c, first', first)
    BY <2>3, <2>6, <2>7, <2>8 DEF SameBut
  <2> QED
    BY <2>1, <2>3, <2>9 DEF FirstIn, FirstType
<1> QED
  BY <1>1, <1>2 DEF Say, Says

\* the taking of a message,
LEMMA TakeAlone ==
    ASSUME IInv, SessionsTypeOK, NEW s \in Sides, NEW c \in Channels, NEW k \in Leases,
           Take(s, c, k), UNCHANGED <<overflow, late>>
    PROVE  Alone(c)
<1>1. PICK me \in Session : me = session[s][c][k]
  BY DEF SessionsTypeOK
<1>2. PICK lease, f, what : /\ lease = Head(chan[s][c].dataFromPeerQueue)
                            /\ f = first[s][c][lease]
                            /\ what = (IF f = "taken" THEN "data" ELSE f)
  OBVIOUS
<1>3. /\ Handle(s, c) /\ UNCHANGED strayed
      /\ first' = [first EXCEPT ![s][c][lease] = "taken"]
      /\ \E x \in Taken(s, c, me, what) : Become(s, c, k, x)
  BY <1>1, <1>2 DEF Take
<1>4. Only(c)
  BY <1>3, SystemOnly DEF SystemAction
<1>5. SessionIn(c)
  <2>1. PICK x \in Taken(s, c, me, what) : Become(s, c, k, x)
    BY <1>3
  <2>2. x \in Session
    BY <1>2, TakenIs
  <2> QED
    BY <2>1, <2>2, OneChanged
<1>6. FirstIn(c)
  <2>1. first \in FirstType
    BY DEF SessionsTypeOK, FirstType
  <2>2. first' \in FirstType
    BY <1>3, <2>1 DEF FirstType
  <2>3. SameBut(c, first', first)
    BY <1>3, <2>1 DEF FirstType, SameBut
  <2> QED
    BY <2>2, <2>3 DEF FirstIn
<1> QED
  BY <1>3, <1>4, <1>5, <1>6, StillIn DEF Alone

\* the end of a session,
LEMMA StopAlone ==
    ASSUME IInv, SessionsTypeOK, NEW s \in Sides, NEW c \in Channels, NEW k \in Leases,
           NEW why \in {"failed", "socketClosed", "channelClosed"},
           Stop(s, c, k, why), UNCHANGED <<overflow, late>>
    PROVE  Alone(c)
<1>1. PICK me \in Session : me = session[s][c][k]
  BY DEF SessionsTypeOK
<1>2. PICK x : x = [me EXCEPT !.stop = why]
  OBVIOUS
<1>3. x \in Session /\ Become(s, c, k, x)
  BY <1>1, <1>2 DEF Stop, Session
<1>4. Only(c) /\ StrayedIn(c)
  BY PoolStill, StillIn, UserOnly, UsesIn DEF Stop
<1> QED
  BY <1>3, <1>4, OneChanged, StillIn DEF Stop, Alone

\* the overflow of a channel, which may pause or resume a socket.
LEMMA SignalIn ==
    ASSUME SessionsTypeOK, NEW s \in Sides, NEW c \in Channels, NEW high \in BOOLEAN,
           NEW old, old \in SessionType, SameBut(c, old, session),
           session' = Signalled(old, s, c, high),
           overflow' = [overflow EXCEPT ![s][c].high = high]
    PROVE  SessionIn(c) /\ OverflowIn(c)
<1>1. overflow \in OverflowType
  BY DEF SessionsTypeOK, OverflowType
<1>2. OverflowIn(c)
  <2>1. PICK R : /\ R = [high : BOOLEAN, listener : 0 .. MaxLeases]
                 /\ overflow \in [Sides -> [Channels -> R]]
    BY <1>1 DEF OverflowType
  <2>2. PICK o \in R : o = overflow[s][c]
    BY <2>1
  <2>3. PICK o2 : o2 = [o EXCEPT !.high = high]
    OBVIOUS
  <2>4. o2 \in R
    BY <2>1, <2>2, <2>3
  <2>5. overflow' = [overflow EXCEPT ![s][c] = o2]
    BY <2>1, <2>2, <2>3
  <2>6. overflow' \in [Sides -> [Channels -> R]]
    BY <2>1, <2>4, <2>5
  <2>7. SameBut(c, overflow', overflow)
    BY <2>1, <2>5 DEF SameBut
  <2> QED
    BY <2>1, <2>6, <2>7 DEF OverflowIn, OverflowType
<1>3. PICK k \in 0 .. MaxLeases : k = overflow[s][c].listener
  BY <1>1 DEF OverflowType
<1>4. ASSUME session' = old PROVE SessionIn(c)
  BY <1>4 DEF SessionIn, SameBut
<1>5. ASSUME session' # old PROVE SessionIn(c)
  <2>0. k # 0 /\ session' = [old EXCEPT ![s][c][k].paused =
                               IF high THEN "overflow" ELSE "no"]
    BY <1>3, <1>5 DEF Signalled
  <2>1. k \in Leases /\ session' = [old EXCEPT ![s][c][k].paused =
                                      IF high THEN "overflow" ELSE "no"]
    BY <2>0, PoolAssumption DEF Leases
  <2>2. PICK me \in Session : me = old[s][c][k]
    BY <2>1 DEF SessionType
  <2>3. PICK x : x = [me EXCEPT !.paused = IF high THEN "overflow" ELSE "no"]
    OBVIOUS
  <2>4. x \in Session
    BY <2>3 DEF Session
  <2>5. session' = [old EXCEPT ![s][c][k] = x]
    BY <2>1, <2>2, <2>3 DEF SessionType
  <2>6. session' \in SessionType
    <3>1. old \in [Sides -> [Channels -> [Leases -> Session]]]
      BY DEF SessionType
    <3>2. PICK row : row = [old[s][c] EXCEPT ![k] = x]
      OBVIOUS
    <3>3. row \in [Leases -> Session]
      BY <2>4, <3>1, <3>2
    <3>4. session' = [old EXCEPT ![s][c] = row]
      BY <2>5, <3>1, <3>2
    <3> QED
      BY <3>1, <3>3, <3>4 DEF SessionType
  <2>7. SameBut(c, session', old)
    BY <2>5 DEF SessionType, SameBut
  <2>8. SameBut(c, session', session)
    BY <2>7 DEF SameBut
  <2> QED
    BY <2>6, <2>8 DEF SessionIn
<1> QED
  BY <1>2, <1>4, <1>5

-----------------------------------------------------------------------------
(* Every callback. *)

\* A callback of channel c at end s.
CallbackOf(s, c) ==
    \/ \E k \in Leases : Link(s, c, k)
    \/ /\ \/ Start(s, c)
          \/ \E k \in Leases :
                \/ Take(s, c, k)
                \/ Flush(s, c, k)
                \/ SendReply(c, k)
                \/ \E why \in Due(s, c, k) : Stop(s, c, k, why)
       /\ UNCHANGED overflow

\* A session that starts leaves the other channels alone,
LEMMA StartAlone ==
    ASSUME IInv, SessionsTypeOK, NEW s \in Sides, NEW c \in Channels, Start(s, c),
           UNCHANGED <<overflow, late>>
    PROVE  Alone(c)
<1>1. PICK k \in Leases : k = chan[s][c].lease
  BY DEF Start
<1>2. UNCHANGED <<poolVars, first, strayed>> /\ k \in Nat
  BY <1>1 DEF Start, Leases
<1>3. NoSession \in Session /\ NoSession.step = "none"
  BY DEF NoSession, Session
<1>4. CASE s = "local"
  <2>0. PICK socket \in {"open", "gone"} :
           Become(s, c, k, [NoSession EXCEPT !.step = "auth", !.socket = socket])
    BY <1>1, <1>4 DEF Start
  <2>1. PICK x : /\ x = [NoSession EXCEPT !.step = "auth", !.socket = socket]
                 /\ Become(s, c, k, x)
    BY <2>0
  <2>2. x \in Session
    BY <1>3, <2>1 DEF Session, SocksStep
  <2> QED
    BY <1>2, <2>1, <2>2, OneChanged, SilentAlone, StillIn
<1>5. CASE s = "remote"
  <2>1. PICK x : /\ x = [NoSession EXCEPT !.step = "endpoint", !.listens = k]
                 /\ Reading(s, c, k, x)
    BY <1>1, <1>5 DEF Start
  <2>2. x \in Session
    BY <1>2, <1>3, <2>1 DEF Session, RtcStep
  <2> QED
    BY <1>2, <2>1, <2>2, ReadingChanged, SilentAlone, StillIn
<1> QED
  BY <1>4, <1>5 DEF Sides

\* one that is linked,
LEMMA LinkAlone ==
    ASSUME IInv, SessionsTypeOK, NEW s \in Sides, NEW c \in Channels, NEW k \in Leases,
           Link(s, c, k), UNCHANGED late
    PROVE  Alone(c)
<1>1. PICK me \in Session : me = session[s][c][k]
  BY DEF SessionsTypeOK
<1>2. Levels(s, c) \subseteq BOOLEAN
  BY DEF Levels, SessionsTypeOK
<1>3. PICK high \in BOOLEAN :
         /\ overflow' = [overflow EXCEPT ![s][c] = [high |-> high, listener |-> k]]
         /\ Become(s, c, k, [me EXCEPT !.paused = IF high THEN "overflow" ELSE "no"])
  BY <1>1, <1>2 DEF Link
<1>4. PICK x : x = [me EXCEPT !.paused = IF high THEN "overflow" ELSE "no"]
  OBVIOUS
<1>5. x \in Session
  BY <1>4 DEF Session
<1>6. OverflowIn(c)
  <2>1. PICK R : /\ R = [high : BOOLEAN, listener : 0 .. MaxLeases]
                 /\ overflow \in [Sides -> [Channels -> R]]
    BY DEF SessionsTypeOK
  <2>2. k \in 0 .. MaxLeases
    BY PoolAssumption DEF Leases
  <2>3. [high |-> high, listener |-> k] \in R
    BY <2>1, <2>2
  <2>4. overflow' \in [Sides -> [Channels -> R]]
    BY <1>3, <2>1, <2>3
  <2>5. SameBut(c, overflow', overflow)
    BY <1>3, <2>1 DEF SameBut
  <2> QED
    BY <2>1, <2>4, <2>5 DEF OverflowIn, OverflowType
<1>7. UNCHANGED <<poolVars, first, strayed>>
  BY DEF Link
<1> QED
  BY <1>3, <1>4, <1>5, <1>6, <1>7, OneChanged, SilentAlone, StillIn

\* one that sends what it kept,
LEMMA FlushAlone ==
    ASSUME IInv, SessionsTypeOK, NEW s \in Sides, NEW c \in Channels, NEW k \in Leases,
           Flush(s, c, k), UNCHANGED <<overflow, late>>
    PROVE  Alone(c)
<1>1. PICK me \in Session : me = session[s][c][k]
  BY DEF SessionsTypeOK
<1>2. me.queued > 0 /\ me.queued - 1 \in Nat
  BY <1>1 DEF Flush, Session
<1>3. PICK x : x = [me EXCEPT !.queued = @ - 1]
  OBVIOUS
<1>4. x \in Session
  BY <1>2, <1>3 DEF Session
<1>5. Say(s, c, k, "data") /\ Become(s, c, k, x)
  BY <1>1, <1>3 DEF Flush
<1> QED
  BY <1>4, <1>5, OneChanged, SayIn, StillIn DEF Alone

\* or one that replies to its peer.
LEMMA SendReplyAlone ==
    ASSUME IInv, SessionsTypeOK, NEW c \in Channels, NEW k \in Leases,
           SendReply(c, k), UNCHANGED <<overflow, late>>
    PROVE  Alone(c)
<1>0. "remote" \in Sides
  BY DEF Sides
<1>1. PICK me \in Session : me = session["remote"][c][k]
  BY <1>0 DEF SessionsTypeOK
<1>2. PICK x, y : x = [me EXCEPT !.step = "linked"] /\ y = [me EXCEPT !.step = "failed"]
  OBVIOUS
<1>3. x \in Session /\ y \in Session
  BY <1>2 DEF Session
<1>4. /\ Say("remote", c, k, me.reply)
      /\ Reading("remote", c, k, x) \/ Become("remote", c, k, y)
  BY <1>1, <1>2 DEF SendReply
<1>5. me.reply \in {"none", "request", "data", "taken"} \cup Reply
  BY DEF Session
<1>6. Only(c) /\ FirstIn(c) /\ StrayedIn(c)
  BY <1>0, <1>4, <1>5, SayIn
<1>7. SessionIn(c)
  BY <1>0, <1>3, <1>4, OneChanged, ReadingChanged
<1> QED
  BY <1>6, <1>7, StillIn DEF Alone

\* All callbacks leave other channels alone,
LEMMA CallbackAlone ==
    ASSUME IInv, SessionsTypeOK, NEW s \in Sides, NEW c \in Channels, CallbackOf(s, c),
           UNCHANGED late
    PROVE  Alone(c)
<1>1. ASSUME NEW k \in Leases, Link(s, c, k) PROVE Alone(c)
  BY <1>1, LinkAlone
<1>2. ASSUME UNCHANGED overflow, Start(s, c) PROVE Alone(c)
  BY <1>2, StartAlone
<1>3. ASSUME UNCHANGED overflow, NEW k \in Leases,
             \/ Take(s, c, k)
             \/ Flush(s, c, k)
             \/ SendReply(c, k)
      PROVE  Alone(c)
  BY <1>3, TakeAlone, FlushAlone, SendReplyAlone
<1>4. ASSUME UNCHANGED overflow, NEW k \in Leases, NEW why \in Due(s, c, k),
             Stop(s, c, k, why)
      PROVE  Alone(c)
  <2>1. why \in {"failed", "socketClosed", "channelClosed"}
    BY DEF Due
  <2> QED
    BY <1>4, <2>1, StopAlone
<1> QED
  BY <1>1, <1>2, <1>3, <1>4 DEF CallbackOf

\* and keep what is kept on theirs.
LEMMA CallbackKeeps ==
    ASSUME IInv, IInv', LinkInv, SessionsTypeOK, NEW s \in Sides, NEW c \in Channels,
           c \notin missed, Kept(c), CallbackOf(s, c)
    PROVE  Kept(c)'
<1>1. ASSUME NEW k \in Leases, Link(s, c, k) PROVE Kept(c)'
  BY <1>1, LinkKeeps
<1>2. ASSUME UNCHANGED overflow, Start(s, c) PROVE Kept(c)'
  BY <1>2, StartKeeps
<1>3. ASSUME UNCHANGED overflow, NEW k \in Leases,
             \/ Take(s, c, k)
             \/ Flush(s, c, k)
             \/ SendReply(c, k)
      PROVE  Kept(c)'
  BY <1>3, TakeKeeps, FlushKeeps, SendReplyKeeps
<1>4. ASSUME UNCHANGED overflow, NEW k \in Leases, NEW why \in Due(s, c, k),
             Stop(s, c, k, why)
      PROVE  Kept(c)'
  <2>1. StopsFor(chan[s][c], session[s][c][k], why, k)
    BY DueIs
  <2> QED
    BY <1>4, <2>1, StopKeeps
<1> QED
  BY <1>1, <1>2, <1>3, <1>4 DEF CallbackOf

\* So they keep the invariant.
LEMMA MicrotaskKeeps ==
    ASSUME IInv, IInv', LinkInv, SessionsInv, Microtask, UNCHANGED late
    PROVE  SessionsInv'
<1>1. PICK s \in Sides, c \in Channels : CallbackOf(s, c)
  BY DEF Microtask, CallbackOf
<1>2. SessionsTypeOK
  BY DEF SessionsInv
<1>3. Alone(c)
  BY <1>1, <1>2, CallbackAlone
<1>4. ASSUME c \in Sound' PROVE Kept(c)'
  <2>1. c \notin missed /\ Kept(c)
    BY <1>3, <1>4 DEF Sound, Intact, Alone, Only, LateIn, SessionsInv
  <2> QED
    BY <1>1, <1>2, <2>1, CallbackKeeps
<1> QED
  BY <1>3, <1>4, AllKept

-----------------------------------------------------------------------------
(* Every task. *)

\* A task of the handshakes that sends nothing.
QuietTask(c, k) ==
    \/ ReceiveAuth(c, k)
    \/ RequestSent(c, k)
    \/ Connects(c, k)

\* The steps of the handshakes leave other channels alone,
LEMMA QuietTaskAlone ==
    ASSUME IInv, SessionsTypeOK, NEW c \in Channels, NEW k \in Leases,
           QuietTask(c, k), UNCHANGED <<overflow, late>>
    PROVE  Alone(c)
<1>0. "local" \in Sides /\ "remote" \in Sides
  BY DEF Sides
<1>1. PICK a \in Session, b \in Session :
         a = session["local"][c][k] /\ b = session["remote"][c][k]
  BY <1>0 DEF SessionsTypeOK
<1>2. UNCHANGED <<poolVars, first, strayed>>
  BY DEF QuietTask, ReceiveAuth, RequestSent, Connects
<1>3. ASSUME ReceiveAuth(c, k) PROVE SessionIn(c)
  <2>0. PICK step \in {"request", "failed"} :
           Become("local", c, k, [a EXCEPT !.step = step])
    BY <1>1, <1>3 DEF ReceiveAuth
  <2>1. PICK x : x = [a EXCEPT !.step = step] /\ Become("local", c, k, x)
    BY <2>0
  <2>2. x \in Session
    BY <2>1 DEF Session, SocksStep
  <2> QED
    BY <1>0, <2>1, <2>2, OneChanged
<1>4. ASSUME RequestSent(c, k) PROVE SessionIn(c)
  <2>1. PICK x : x = [a EXCEPT !.step = "awaiting"]
    OBVIOUS
  <2>2. x \in Session
    BY <2>1 DEF Session, SocksStep
  <2>3. PICK y : y = Answering(a, "FAILURE")
    OBVIOUS
  <2>4. y \in Session
    BY <2>3, AnswerIs DEF Reply
  <2>5. Reading("local", c, k, x) \/ Become("local", c, k, y)
    BY <1>1, <1>4, <2>1, <2>3 DEF RequestSent
  <2> QED
    BY <1>0, <2>2, <2>4, <2>5, OneChanged, ReadingChanged
<1>5. ASSUME Connects(c, k) PROVE SessionIn(c)
  <2>1. PICK reply \in {"SUCCEEDED", "FAILURE"}, socket \in {"open", "gone"} :
           Become("remote", c, k, [b EXCEPT !.step = "replying", !.reply = reply,
                                            !.socket = socket])
    BY <1>1, <1>5 DEF Connects
  <2>2. PICK x : x = [b EXCEPT !.step = "replying", !.reply = reply, !.socket = socket]
    OBVIOUS
  <2>3. x \in Session
    BY <2>2 DEF Session, RtcStep, Reply
  <2> QED
    BY <1>0, <2>1, <2>2, <2>3, OneChanged
<1>6. SessionIn(c)
  BY <1>3, <1>4, <1>5 DEF QuietTask
<1> QED
  BY <1>2, <1>6, SilentAlone, StillIn

\* and so do the request, with the message that carries it,
LEMMA ReceiveRequestAlone ==
    ASSUME IInv, SessionsTypeOK, NEW c \in Channels, NEW k \in Leases,
           ReceiveRequest(c, k), UNCHANGED <<overflow, late>>
    PROVE  Alone(c)
<1>0. "local" \in Sides
  BY DEF Sides
<1>1. PICK me \in Session : me = session["local"][c][k]
  BY <1>0 DEF SessionsTypeOK
<1>2. PICK x : x = [me EXCEPT !.step = "sending", !.paused = "handshake"]
  OBVIOUS
<1>3. PICK y : y = Answering(me, "FAILURE")
  OBVIOUS
<1>4. x \in Session
  BY <1>2 DEF Session, SocksStep
<1>5. y \in Session
  BY <1>3, AnswerIs DEF Reply
<1>6. CASE Say("local", c, k, "request") /\ Become("local", c, k, x)
  BY <1>0, <1>4, <1>6, OneChanged, SayIn, StillIn DEF Alone
<1>7. CASE Become("local", c, k, y) /\ UNCHANGED <<poolVars, first, strayed>>
  BY <1>0, <1>5, <1>7, OneChanged, SilentAlone, StillIn
<1> QED
  BY <1>1, <1>2, <1>3, <1>6, <1>7 DEF ReceiveRequest

\* the answer to the client,
LEMMA AnsweredAlone ==
    ASSUME IInv, SessionsTypeOK, NEW c \in Channels, NEW k \in Leases,
           Answered(c, k), UNCHANGED overflow
    PROVE  Alone(c)
<1>0. "local" \in Sides
  BY DEF Sides
<1>1. PICK me \in Session : me = session["local"][c][k]
  BY <1>0 DEF SessionsTypeOK
<1>2. PICK next, lease : next = LinkedOrNot(me) /\ lease = chan["local"][c].lease
  OBVIOUS
<1>3. next \in Session
  BY <1>2 DEF LinkedOrNot, Session
<1>4. lease \in Nat
  BY <1>0, <1>2 DEF SessionsTypeOK, TypeOK, PoolChannel
<1>5. PICK x, y : /\ x = [next EXCEPT !.listens = lease]
                  /\ y = [me EXCEPT !.step = "failed"]
  OBVIOUS
<1>6. x \in Session
  BY <1>3, <1>4, <1>5 DEF Session
<1>7. y \in Session
  BY <1>5 DEF Session
<1>8. /\ Reading("local", c, k, x) \/ Become("local", c, k, y)
      /\ GoesOn("local", c, k) \/ UNCHANGED late
      /\ UNCHANGED <<poolVars, first, strayed>>
  BY <1>1, <1>2, <1>5 DEF Answered
<1>9. LateIn(c)
  BY <1>8 DEF GoesOn, LateIn
<1>10. SessionIn(c)
  BY <1>0, <1>6, <1>7, <1>8, OneChanged, ReadingChanged
<1> QED
  BY <1>8, <1>9, <1>10, SilentAlone, StillIn

\* the end of a connection,
LEMMA SocketGoneAlone ==
    ASSUME IInv, SessionsTypeOK, NEW s \in Sides, NEW c \in Channels, NEW k \in Leases,
           SocketGone(s, c, k), UNCHANGED <<overflow, late>>
    PROVE  Alone(c)
<1>1. PICK me \in Session : me = session[s][c][k]
  BY DEF SessionsTypeOK
<1>2. PICK x : x = [me EXCEPT !.socket = "gone"]
  OBVIOUS
<1>3. x \in Session
  BY <1>2 DEF Session
<1>4. Become(s, c, k, x) /\ UNCHANGED <<poolVars, first, strayed>>
  BY <1>1, <1>2 DEF SocketGone
<1> QED
  BY <1>3, <1>4, OneChanged, SilentAlone, StillIn

\* data from a socket,
LEMMA SocketDataAlone ==
    ASSUME IInv, SessionsTypeOK, NEW s \in Sides, NEW c \in Channels, NEW k \in Leases,
           SocketData(s, c, k)
    PROVE  Alone(c)
<1>1. PICK me \in Session : me = session[s][c][k]
  BY DEF SessionsTypeOK
<1>2. me.sent + 1 \in Nat /\ me.queued + 1 \in Nat
  BY DEF Session
<1>3. CASE /\ Become(s, c, k, [me EXCEPT !.sent = @ + 1, !.queued = @ + 1])
           /\ UNCHANGED <<poolVars, first, overflow, strayed, late>>
  <2>1. PICK x : x = [me EXCEPT !.sent = @ + 1, !.queued = @ + 1]
    OBVIOUS
  <2>2. x \in Session
    BY <1>2, <2>1 DEF Session
  <2>3. SessionIn(c)
    BY <1>3, <2>1, <2>2, OneChanged
  <2> QED
    BY <1>3, <2>3, SilentAlone, StillIn
<1>4. ASSUME Say(s, c, k, "data"), GoesOn(s, c, k) \/ UNCHANGED late,
             NEW fed, fed = [session EXCEPT ![s][c][k].sent = @ + 1],
             \/ session' = fed /\ UNCHANGED overflow
             \/ /\ session' = Signalled(fed, s, c, TRUE)
                /\ overflow' = [overflow EXCEPT ![s][c].high = TRUE]
      PROVE  Alone(c)
  <2>1. PICK x : x = [me EXCEPT !.sent = @ + 1]
    OBVIOUS
  <2>2. x \in Session
    BY <1>2, <2>1 DEF Session
  <2>3. session \in [Sides -> [Channels -> [Leases -> Session]]]
    BY DEF SessionsTypeOK
  <2>4. fed = [session EXCEPT ![s][c][k] = x]
    BY <1>1, <1>4, <2>1, <2>3
  <2>5. fed \in SessionType /\ SameBut(c, fed, session)
    BY <2>2, <2>3, <2>4 DEF SessionType, SameBut
  <2>6. SessionIn(c) /\ OverflowIn(c)
    <3>1. CASE session' = fed /\ UNCHANGED overflow
      BY <2>5, <3>1, StillIn DEF SessionIn, SameBut
    <3>2. CASE /\ session' = Signalled(fed, s, c, TRUE)
               /\ overflow' = [overflow EXCEPT ![s][c].high = TRUE]
      BY <2>5, <3>2, SignalIn
    <3> QED
      BY <1>4, <3>1, <3>2
  <2>7. LateIn(c)
    BY <1>4 DEF GoesOn, LateIn
  <2>8. Only(c) /\ FirstIn(c) /\ StrayedIn(c)
    BY <1>4, SayIn
  <2> QED
    BY <2>6, <2>7, <2>8 DEF Alone
<1> QED
  BY <1>1, <1>3, <1>4 DEF SocketData

\* and a channel that leaves overflow.
LEMMA DrainsAlone ==
    ASSUME IInv, SessionsTypeOK, NEW s \in Sides, NEW c \in Channels, Drains(s, c),
           UNCHANGED late
    PROVE  Alone(c)
<1>1. session \in SessionType /\ SameBut(c, session, session)
  BY DEF SessionsTypeOK, SessionType, SameBut
<1>2. /\ overflow' = [overflow EXCEPT ![s][c].high = FALSE]
      /\ session' = Signalled(session, s, c, FALSE)
      /\ UNCHANGED <<poolVars, first, strayed>>
  BY DEF Drains
<1>3. SessionIn(c) /\ OverflowIn(c)
  BY <1>1, <1>2, SignalIn
<1> QED
  BY <1>2, <1>3, SilentAlone, StillIn

\* Of a sound channel, everything is known.
LEMMA SoundIs ==
    ASSUME SessionsInv, NEW c, Alone(c), c \in Sound'
    PROVE  /\ c \in Channels /\ c \notin missed /\ c \notin missed' /\ c \notin late'
           /\ Kept(c) /\ SessionsTypeOK
BY DEF Sound, Intact, Alone, Only, LateIn, SessionsInv

\* What the pool does keeps the invariant,
LEMMA PoolTaskKeeps ==
    ASSUME IInv, IInv', LinkInv, LinkInv', SessionsInv, Quiet, PoolTask,
           UNCHANGED <<overflow, late>>
    PROVE  SessionsInv'
<1>1. PICK s \in Sides, c \in Channels :
         Only(c) /\ (c \notin missed \cup missed' => PoolMoves(s, c))
  BY TasksMove
<1>2. UNCHANGED <<session, first, strayed>> /\ SessionsTypeOK
  BY DEF PoolTask, SessionsInv
<1>3. Alone(c)
  BY <1>1, <1>2, StillIn DEF Alone
<1>4. ASSUME c \in Sound' PROVE Kept(c)'
  <2>1. c \notin missed /\ c \notin missed' /\ Kept(c)
    BY <1>3, <1>4, SoundIs
  <2>2. Turn(s, c) /\ Ready(s, c)
    BY <1>1, <2>1, MovesReady
  <2> QED
    BY <1>2, <2>1, <2>2, TurnKeeps
<1> QED
  BY <1>3, <1>4, AllKept

\* so does a message that arrives,
LEMMA ArrivesKeeps ==
    ASSUME IInv, IInv', LinkInv, LinkInv', SessionsInv, Quiet, PromptSends,
           NEW s \in Sides, NEW c \in Channels, Arrives(s, c),
           UNCHANGED <<overflow, late>>
    PROVE  SessionsInv'
<1>1. Deliver(s, c) /\ UNCHANGED <<session, first, strayed>> /\ SessionsTypeOK
  BY DEF Arrives, SessionsInv
<1>2. Only(c)
  BY <1>1, SystemOnly DEF SystemAction
<1>3. Alone(c)
  BY <1>1, <1>2, StillIn DEF Alone
<1>4. ASSUME c \in Sound' PROVE Kept(c)'
  BY <1>3, <1>4, SoundIs, ArrivalKeeps
<1> QED
  BY <1>3, <1>4, AllKept

\* so does a socket,
LEMMA SocketsKeep ==
    ASSUME IInv, IInv', LinkInv, SessionsInv, Quiet, NEW s \in Sides,
           NEW c \in Channels, NEW k \in Leases,
           \/ SocketGone(s, c, k) /\ UNCHANGED <<overflow, late>>
           \/ SocketData(s, c, k)
    PROVE  SessionsInv'
<1>1. SessionsTypeOK
  BY DEF SessionsInv
<1>2. Alone(c)
  BY <1>1, SocketGoneAlone, SocketDataAlone
<1>3. ASSUME c \in Sound' PROVE Kept(c)'
  <2>1. c \notin missed /\ c \notin late' /\ Kept(c)
    BY <1>2, <1>3, SoundIs
  <2> QED
    BY <1>1, <2>1, SocketGoneKeeps, SocketDataKeeps
<1> QED
  BY <1>2, <1>3, AllKept

\* and a handshake.
LEMMA HandshakesKeep ==
    ASSUME IInv, IInv', LinkInv, SessionsInv, Quiet, UNCHANGED overflow,
           NEW c \in Channels, NEW k \in Leases,
           \/ /\ \/ QuietTask(c, k)
                 \/ ReceiveRequest(c, k)
                 \/ RefusalSent(c, k)
              /\ UNCHANGED late
           \/ Answered(c, k)
    PROVE  SessionsInv'
<1>1. SessionsTypeOK /\ "remote" \in Sides
  BY DEF SessionsInv, Sides
<1>2. RefusalSent(c, k) => Stop("remote", c, k, "failed")
  BY DEF RefusalSent
<1>3. Alone(c)
  BY <1>1, <1>2, QuietTaskAlone, ReceiveRequestAlone, StopAlone, AnsweredAlone
<1>4. ASSUME c \in Sound' PROVE Kept(c)'
  <2>1. c \notin missed /\ c \notin late' /\ Kept(c)
    BY <1>3, <1>4, SoundIs
  <2>2. CASE QuietTask(c, k)
    BY <1>1, <2>1, <2>2, ReceiveAuthKeeps, RequestSentKeeps, ConnectsKeeps DEF QuietTask
  <2>3. CASE ReceiveRequest(c, k) \/ RefusalSent(c, k)
    BY <1>1, <2>1, <2>3, ReceiveRequestKeeps, RefusalSentKeeps
  <2>4. CASE Answered(c, k)
    BY <1>1, <2>1, <2>4, AnsweredKeeps
  <2> QED
    BY <2>2, <2>3, <2>4
<1> QED
  BY <1>3, <1>4, AllKept

\* Every task keeps the invariant,
LEMMA TaskKeeps ==
    ASSUME IInv, IInv', LinkInv, LinkInv', SessionsInv, Quiet, Task, PromptSends
    PROVE  SessionsInv'
<1>1. ASSUME UNCHANGED <<overflow, late>>, PoolTask PROVE SessionsInv'
  BY <1>1, PoolTaskKeeps
<1>2. ASSUME UNCHANGED <<overflow, late>>, NEW s \in Sides, NEW c \in Channels,
             Arrives(s, c)
      PROVE  SessionsInv'
  BY <1>2, ArrivesKeeps
<1>3. ASSUME NEW s \in Sides, NEW c \in Channels, NEW k \in Leases,
             \/ SocketGone(s, c, k) /\ UNCHANGED <<overflow, late>>
             \/ SocketData(s, c, k)
      PROVE  SessionsInv'
  BY <1>3, SocketsKeep
<1>4. ASSUME NEW s \in Sides, NEW c \in Channels, Drains(s, c), UNCHANGED late
      PROVE  SessionsInv'
  <2>1. SessionsTypeOK
    BY DEF SessionsInv
  <2>2. Alone(c)
    BY <1>4, <2>1, DrainsAlone
  <2>3. ASSUME c \in Sound' PROVE Kept(c)'
    <3>1. c \notin missed /\ Kept(c)
      BY <2>2, <2>3, SoundIs
    <3> QED
      BY <1>4, <2>1, <3>1, DrainsKeeps
  <2> QED
    BY <2>2, <2>3, AllKept
<1>5. ASSUME UNCHANGED <<overflow, late>>, NEW c \in Channels, NEW k \in Leases,
             \/ ReceiveAuth(c, k)
             \/ ReceiveRequest(c, k)
             \/ RequestSent(c, k)
             \/ Connects(c, k)
             \/ RefusalSent(c, k)
      PROVE  SessionsInv'
  BY <1>5, HandshakesKeep DEF QuietTask
<1>6. ASSUME NEW c \in Channels, NEW k \in Leases, Answered(c, k), UNCHANGED overflow
      PROVE  SessionsInv'
  BY <1>6, HandshakesKeep
<1> QED
  BY <1>1, <1>2, <1>3, <1>4, <1>5, <1>6 DEF Task

\* and so does a step in which nothing happens.
LEMMA NothingKeeps ==
    ASSUME SessionsInv, UNCHANGED sessionVars
    PROVE  SessionsInv'
<1>1. /\ numChannels_' = numChannels_ /\ pool_' = pool_ /\ dc' = dc
      /\ chan' = chan /\ wire' = wire /\ accepted' = accepted /\ missed' = missed
      /\ session' = session /\ first' = first /\ overflow' = overflow
      /\ strayed' = strayed /\ late' = late
  BY DEF sessionVars, poolVars
<1>2. SessionsTypeOK' /\ Sound' = Sound
  BY <1>1 DEF SessionsInv, SessionsTypeOK, TypeOK, Sound, Intact
<1>3. ASSUME NEW c \in Sound PROVE Kept(c)'
  <2>1. Kept(c)
    BY DEF SessionsInv
  <2>2. ASSUME NEW k \in Leases PROVE Story(c, k)'
    BY <1>1, <2>1 DEF Kept, Story, TalkOf, OwnOf, ExactOf, GoodbyeOf
  <2> QED
    BY <1>1, <2>1, <2>2 DEF Kept, Straight
<1> QED
  BY <1>2, <1>3 DEF SessionsInv

-----------------------------------------------------------------------------
(* Every step. *)

\* To the pool, a step of the sessions is a step of its own, or a message.
LEMMA SayIsPool ==
    ASSUME NEW s \in Sides, NEW c \in Channels, NEW k, NEW what, Say(s, c, k, what)
    PROVE  [Next]_vars \/ Says(s, c)
BY DEF Say, Says, vars, poolVars

\* What a callback does to the channels is a step of the pool, or a send,
LEMMA MicrotaskIsPool ==
    ASSUME Microtask
    PROVE  [Next]_vars \/ \E s \in Sides, c \in Channels : Says(s, c)
<1>1. PICK s \in Sides, c \in Channels :
         \/ \E k \in Leases : Link(s, c, k)
         \/ Start(s, c)
         \/ \E k \in Leases :
               \/ Take(s, c, k)
               \/ Flush(s, c, k)
               \/ SendReply(c, k)
               \/ \E why \in Due(s, c, k) : Stop(s, c, k, why)
  BY DEF Microtask
<1>2. ASSUME NEW k \in Leases, Link(s, c, k) PROVE [Next]_vars
  BY <1>2 DEF Link, poolVars, vars
<1>3. CASE Start(s, c)
  BY <1>3 DEF Start, poolVars, vars
<1>4. ASSUME NEW k \in Leases, Take(s, c, k) PROVE [Next]_vars
  BY <1>4 DEF Take, Next, SystemAction
<1>5. ASSUME NEW k \in Leases, Flush(s, c, k) PROVE [Next]_vars \/ Says(s, c)
  BY <1>5, SayIsPool DEF Flush
<1>6. ASSUME NEW k \in Leases, SendReply(c, k)
      PROVE  [Next]_vars \/ Says("remote", c)
  <2>1. "remote" \in Sides
    BY DEF Sides
  <2> QED
    BY <1>6, <2>1, SayIsPool DEF SendReply
<1>7. ASSUME NEW k \in Leases, NEW why, Stop(s, c, k, why) PROVE [Next]_vars
  <2>1. CASE Close(s, c)
    BY <2>1 DEF Next, UserAction
  <2>2. CASE UNCHANGED poolVars
    BY <2>2 DEF poolVars, vars
  <2> QED
    BY <1>7, <2>1, <2>2 DEF Stop
<1>8. "remote" \in Sides
  BY DEF Sides
<1> QED
  BY <1>1, <1>2, <1>3, <1>4, <1>5, <1>6, <1>7, <1>8

\* and so is what a task does.
LEMMA TaskIsPool ==
    ASSUME Task
    PROVE  [Next]_vars \/ \E s \in Sides, c \in Channels : Says(s, c)
<1>0. "local" \in Sides /\ "remote" \in Sides
  BY DEF Sides
<1>1. CASE PoolTask
  BY <1>1 DEF PoolTask, Next, SystemAction
<1>2. ASSUME NEW s \in Sides, NEW c \in Channels, Arrives(s, c) PROVE [Next]_vars
  BY <1>2 DEF Arrives, Next, SystemAction
<1>3. ASSUME NEW s \in Sides, NEW c \in Channels, NEW k \in Leases,
             SocketGone(s, c, k)
      PROVE  [Next]_vars
  BY <1>3 DEF SocketGone, poolVars, vars
<1>4. ASSUME NEW s \in Sides, NEW c \in Channels, Drains(s, c) PROVE [Next]_vars
  BY <1>4 DEF Drains, poolVars, vars
<1>5. ASSUME NEW s \in Sides, NEW c \in Channels, NEW k \in Leases,
             SocketData(s, c, k)
      PROVE  [Next]_vars \/ Says(s, c)
  <2>1. CASE Say(s, c, k, "data")
    BY <2>1, SayIsPool
  <2>2. CASE UNCHANGED poolVars
    BY <2>2 DEF poolVars, vars
  <2> QED
    BY <1>5, <2>1, <2>2 DEF SocketData
<1>6. ASSUME NEW c \in Channels, NEW k \in Leases,
             ReceiveAuth(c, k) \/ RequestSent(c, k) \/ Answered(c, k) \/ Connects(c, k)
      PROVE  [Next]_vars
  BY <1>6 DEF ReceiveAuth, RequestSent, Answered, Connects, poolVars, vars
<1>7. ASSUME NEW c \in Channels, NEW k \in Leases, ReceiveRequest(c, k)
      PROVE  [Next]_vars \/ Says("local", c)
  <2>1. CASE Say("local", c, k, "request")
    BY <1>0, <2>1, SayIsPool
  <2>2. CASE UNCHANGED poolVars
    BY <2>2 DEF poolVars, vars
  <2> QED
    BY <1>7, <2>1, <2>2 DEF ReceiveRequest
<1>8. ASSUME NEW c \in Channels, NEW k \in Leases, RefusalSent(c, k)
      PROVE  [Next]_vars
  <2>1. CASE Close("remote", c)
    BY <1>0, <2>1 DEF Next, UserAction
  <2>2. CASE UNCHANGED poolVars
    BY <2>2 DEF poolVars, vars
  <2> QED
    BY <1>8, <2>1, <2>2 DEF RefusalSent, Stop
<1> QED
  BY <1>0, <1>1, <1>2, <1>3, <1>4, <1>5, <1>6, <1>7, <1>8 DEF Task

\* So the invariants of the pool hold under its sessions.
LEMMA PoolKept ==
    ASSUME IInv, LinkInv, PromptSends, [SessionsNext]_sessionVars
    PROVE  IInv' /\ LinkInv'
<1>1. [Next]_vars \/ \E s \in Sides, c \in Channels : Says(s, c)
  <2>1. CASE UNCHANGED sessionVars
    BY <2>1 DEF sessionVars, poolVars, vars
  <2>2. CASE SessionsNext
    BY <2>2, MicrotaskIsPool, TaskIsPool DEF SessionsNext
  <2> QED
    BY <2>1, <2>2
<1>2. CASE [Next]_vars
  BY <1>2, StepKeeps, LinkKept
<1>3. CASE \E s \in Sides, c \in Channels : Says(s, c)
  BY <1>3, SaysKeeps, SaysSteps, UserOnly, StepsKeep
<1> QED
  BY <1>1, <1>2, <1>3

\* The three invariants together are inductive.
LEMMA NextKeeps ==
    ASSUME IInv, LinkInv, SessionsInv, PromptSends, [SessionsNext]_sessionVars
    PROVE  (IInv /\ LinkInv /\ SessionsInv)'
<1>1. IInv' /\ LinkInv'
  BY PoolKept
<1>2. SessionsInv'
  BY <1>1, MicrotaskKeeps, TaskKeeps, NothingKeeps DEF SessionsNext
<1> QED
  BY <1>1, <1>2

-----------------------------------------------------------------------------
(* The theorems. *)

\* Nothing has happened at first.
LEMMA InitSessions == SessionsInit => SessionsInv
<1> SUFFICES ASSUME SessionsInit PROVE SessionsInv
  OBVIOUS
<1>1. Init /\ TypeOK
  BY InitIInv DEF SessionsInit, IInv
<1>2. NoSession \in Session
  BY DEF NoSession, Session
<1>3. 0 \in 0 .. MaxLeases
  BY PoolAssumption
<1>4. SessionsTypeOK /\ "local" \in Sides
  BY <1>1, <1>2, <1>3 DEF SessionsTypeOK, SessionsInit, Sides
<1>5. PICK e, x, o, w : /\ e = Reset(1) /\ x = NoSession /\ w = <<>>
                        /\ o = [high |-> FALSE, listener |-> 0]
  OBVIOUS
<1>6. /\ e.state = "CLOSED" /\ e.onceOpened = "pending" /\ e.ack = "none"
      /\ e.onceClosed = "pending" /\ e.lease = 1
      /\ e.dataFromPeerQueue = <<>> /\ Len(e.dataFromPeerQueue) = 0
  BY <1>5 DEF Reset
<1>7. /\ x.step = "none" /\ x.stop = "no" /\ x.socket = "none"
      /\ x.reply = "none" /\ x.paused = "no" /\ x.reads = 0 /\ x.listens = 0
      /\ x.queued = 0 /\ x.sent = 0 /\ x.got = 0 /\ o.listener = 0
  BY <1>5 DEF NoSession
<1>8. \A s \in Sides, c \in Channels :
         /\ chan[s][c] = e /\ wire[s][c] = w /\ overflow[s][c] = o
         /\ \A k \in Leases : session[s][c][k] = x /\ first[s][c][k] = "none"
  BY <1>5 DEF SessionsInit, Init
<1>9. ReadAll(e)
  BY <1>6 DEF ReadAll
<1>10. ASSUME NEW c \in Channels, NEW k \in Leases PROVE Story(c, k)
  <2>1. k \in Nat \ {0}
    BY DEF Leases
  <2>2. ASSUME NEW s \in Sides PROVE Own(s, e, x, k, o)
    <3>1. Begun(e, x, k) /\ Holding(s, e, x, k)
      BY <1>5, <1>6, <1>7 DEF Begun, Holding, Busy
    <3>2. Hearing(s, e, x, k) /\ Reader(s, e, x, k)
      BY <1>6, <1>7, <2>1 DEF Hearing, Reader, Listens, Reads
    <3>3. Levelled(e, x, k, o) /\ Shaped(s, x)
      BY <1>7, <2>1 DEF Levelled, Shaped, Busy
    <3> QED
      BY <3>1, <3>2, <3>3 DEF Own
  <2>3. Behind(e, w, k) = 0 /\ ~ Holds(w, "CLOSE", k)
    <3>1. w \in Seq(Message) /\ ~ Carries(w, k) /\ ~ Holds(w, "CLOSE", k)
      BY <1>5, EmptyWire
    <3>2. Data(w, k) = 0 /\ Unread(e, k) = 0
      BY <1>6, <3>1, DataNat DEF Unread
    <3> QED
      BY <3>1, <3>2 DEF Behind
  <2>4. Handshake(x, x, "none", "none")
    BY <1>7 DEF Handshake, Before, Waiting
  <2>5. PICK n : n = Behind(e, w, k)
    OBVIOUS
  <2>6. PICK cl : cl = Holds(w, "CLOSE", k)
    OBVIOUS
  <2>7. n = 0 /\ ~ cl
    BY <2>3, <2>5, <2>6
  <2>8. Crossing(e, e, x, x, "none", "none", n, n, cl, cl, k)
    BY <1>7, <2>7 DEF Crossing, Waiting, Before
  <2>9. Exact(e, e, x, x, "none", n) /\ Goodbye(e, x, cl, k)
    BY <1>6, <1>7, <2>7 DEF Exact, Goodbye
  <2>10. "local" \in Sides /\ "remote" \in Sides /\ \A s \in Sides : Peer(s) \in Sides
    BY DEF Sides, Peer
  <2>11. TalkOf(c, k)
    BY <1>8, <2>4, <2>5, <2>6, <2>8, <2>10 DEF TalkOf
  <2>12. ASSUME NEW s \in Sides
         PROVE  OwnOf(s, c, k) /\ ExactOf(s, c, k) /\ GoodbyeOf(s, c, k)
    BY <1>8, <2>2, <2>5, <2>6, <2>9, <2>10 DEF OwnOf, ExactOf, GoodbyeOf
  <2> QED
    BY <2>11, <2>12 DEF Story
<1>11. ASSUME NEW c \in Channels PROVE Kept(c)
  <2>1. \A s \in Sides : ReadAll(chan[s][c])
    BY <1>8, <1>9
  <2>2. Straight(c)
    BY DEF Straight, SessionsInit
  <2> QED
    BY <1>10, <2>1, <2>2 DEF Kept
<1> QED
  BY <1>4, <1>11 DEF SessionsInv, Sound, Intact

\* Who strays was late, or another was.
LEMMA InvStraysOnlyLate == SessionsInv => StraysOnlyLate
BY DEF SessionsInv, Kept, Straight, StraysOnlyLate

\* Clients are told the truth.
LEMMA InvRepliesAgree == SessionsInv => RepliesAgree
<1> SUFFICES ASSUME SessionsInv, NEW c \in Sound, NEW k \in Leases
             PROVE  LET socks == session["local"][c][k]
                        rtc   == session["remote"][c][k]
                    IN  /\ socks.reply \in {"none", "FAILURE", rtc.reply}
                        /\ rtc.reply # "SUCCEEDED" =>
                              rtc.got = 0 /\ socks.step # "linked"
  BY DEF RepliesAgree
<1>1. TalkOf(c, k)
  BY DEF SessionsInv, Kept, Story
<1>2. PICK a, b, fl, fr : /\ a = session["local"][c][k]
                          /\ b = session["remote"][c][k]
                          /\ fl = first["local"][c][k]
                          /\ fr = first["remote"][c][k]
  OBVIOUS
<1>3. Handshake(a, b, fl, fr)
  BY <1>1, <1>2 DEF TalkOf
<1>4. a.reply # "SUCCEEDED" => b.got = 0
  BY <1>1, <1>2 DEF TalkOf, Crossing
<1>5. /\ a.reply \in {"none", "FAILURE", b.reply}
      /\ a.reply = "SUCCEEDED" => b.reply = "SUCCEEDED"
      /\ a.step = "linked" => a.reply = "SUCCEEDED"
  BY <1>3 DEF Handshake
<1> QED
  BY <1>2, <1>4, <1>5

\* Sockets are paused in overflow.
LEMMA InvPausedInOverflow ==
    ASSUME IInv, LinkInv, SessionsInv
    PROVE  PausedInOverflow
<1>0. ASSUME NEW c \in Sound
      PROVE  c \in Channels /\ c \notin missed /\ Kept(c) /\ SessionsTypeOK
  BY DEF Sound, Intact, SessionsInv
<1> SUFFICES ASSUME NEW s \in Sides, NEW c \in Sound, NEW k \in Leases, Quiet,
                    NEW me, me = session[s][c][k], me.step = "linked",
                    me.socket = "open", me.stop = "no"
             PROVE  /\ me.paused = "overflow" <=> overflow[s][c].high
                    /\ me.paused # "handshake"
  BY DEF PausedInOverflow
<1>1. /\ Own(s, chan[s][c], me, k, overflow[s][c]) /\ chan[s][c] \in PoolChannel
      /\ k \in Nat \ {0}
  BY <1>0, OwnIs
<1>2. Idle(chan[s][c], me, k)
  BY <1>0, QuietIsIdle
<1>3. chan[s][c].lease = k
  BY <1>1, <1>2 DEF Own, Hearing, Listens, Idle, JustLeft, PoolChannel, Sides
<1> QED
  BY <1>1, <1>2, <1>3 DEF Own, Levelled, Idle

\* An end that has left a lease finds nothing of it, and the other one is not
\* open in it any more.
LEMMA LeftBehind ==
    ASSUME IInv, LinkInv, NEW s \in Sides, NEW c \in Channels, c \notin missed, NEW p,
           p = Peer(s),
           NEW k \in Nat, k < chan[s][c].lease, ~ Broken(c)
    PROVE  /\ BehindOf(s, c, k) = 0
           /\ ~ (chan[p][c].lease = k /\ chan[p][c].state = "OPEN")
<1>1. PICK L \in PoolChannel, R \in PoolChannel :
         L = chan["local"][c] /\ R = chan["remote"][c]
  BY Knows
<1>2. PICK wL \in Seq(Message), wR \in Seq(Message) :
         wL = wire["local"][c] /\ wR = wire["remote"][c]
  BY Knows
<1>3. /\ ToLocal(L, wL) /\ ToRemote(R, wR) /\ Joint(L, R, wL, wR)
      /\ L.lease \in Nat /\ R.lease \in Nat
  BY <1>1, <1>2, Knows DEF LinkOf, Linked, PoolChannel
<1>4. CASE s = "local"
  <2>1. ~ Carries(wL, k)
    BY <1>1, <1>3, <1>4 DEF ToLocal
  <2>2. ~ (R.lease = k /\ R.state = "OPEN")
    BY <1>1, <1>3, <1>4 DEF Joint, SameLease, LocalAhead, RemoteAhead
  <2>3. Data(wL, k) = 0 /\ Unread(L, k) = 0
    BY <1>1, <1>4, <2>1, DataNat DEF Unread
  <2> QED
    BY <1>1, <1>2, <1>4, <2>2, <2>3 DEF BehindOf, Behind, Peer
<1>5. CASE s = "remote"
  <2>1. ~ Carries(wR, k)
    BY <1>1, <1>3, <1>5 DEF ToRemote
  <2>2. ~ (L.lease = k /\ L.state = "OPEN")
    BY <1>1, <1>3, <1>5 DEF Joint, SameLease, LocalAhead, RemoteAhead
  <2>3. Data(wR, k) = 0 /\ Unread(R, k) = 0
    BY <1>1, <1>5, <2>1, DataNat DEF Unread
  <2> QED
    BY <1>1, <1>2, <1>5, <2>2, <2>3 DEF BehindOf, Behind, Peer
<1> QED
  BY <1>4, <1>5 DEF Sides

\* Nothing is lost at the end.
LEMMA InvNothingLost ==
    ASSUME IInv, LinkInv, SessionsInv
    PROVE  NothingLost
<1> SUFFICES ASSUME NEW s \in Sides, NEW c \in Sound, NEW k \in Leases,
                    session[s][c][k].stop = "channelClosed",
                    session["local"][c][k].step = "linked", ~ Broken(c)
             PROVE  session[s][c][k].got = session[Peer(s)][c][k].sent
  BY DEF NothingLost
<1>0. c \in Channels /\ c \notin missed /\ Kept(c) /\ SessionsTypeOK
  BY DEF Sound, Intact, SessionsInv
<1>1. PICK p \in Sides : p = Peer(s) /\ p # s /\ Peer(p) = s
  BY DEF Peer, Sides
<1>2. PICK x \in Session, y \in Session :
         x = session[p][c][k] /\ y = session[s][c][k]
  BY <1>0, <1>1, OwnIs
<1>3. PICK e \in PoolChannel, d \in PoolChannel :
         e = chan[s][c] /\ d = chan[p][c] /\ Alive(e) /\ Alive(d)
  BY <1>0, <1>1, Knows DEF Sides
<1>4. /\ Own(s, e, y, k, overflow[s][c]) /\ Own(p, d, x, k, overflow[p][c])
      /\ k \in Nat \ {0}
  BY <1>0, <1>1, <1>2, <1>3, OwnIs
<1>5. k < e.lease
  BY <1>2, <1>3, <1>4 DEF Own, Hearing
<1>6. /\ BehindOf(s, c, k) = 0
      /\ ~ (d.lease = k /\ d.state = "OPEN")
  BY <1>0, <1>1, <1>3, <1>4, <1>5, LeftBehind
<1>7. TalkOf(c, k) /\ ExactOf(p, c, k) /\ GoodbyeOf(p, c, k)
  BY <1>0, StoryTyped
<1>8. PICK f : f = first[s][c][k]
  OBVIOUS
<1>9. BehindOf(s, c, k) + y.got + x.queued
         = x.sent + (IF f \in {"none", "taken"} THEN 0 ELSE 1)
  BY <1>1, <1>2, <1>3, <1>7, <1>8 DEF ExactOf, Exact, Waits, BehindOf
<1>10. PICK a, b, fl, fr : /\ a = session["local"][c][k]
                           /\ b = session["remote"][c][k]
                           /\ fl = first["local"][c][k]
                           /\ fr = first["remote"][c][k]
  OBVIOUS
<1>11. Handshake(a, b, fl, fr) /\ a.step = "linked"
  BY <1>7, <1>10 DEF TalkOf
<1>12. fl = "taken" /\ fr = "taken" /\ b.step \in {"replying", "linked"}
  BY <1>11 DEF Handshake
<1>13. f = "taken" /\ x.step \in {"linked", IF p = "remote" THEN "replying" ELSE "linked"}
  BY <1>1, <1>2, <1>8, <1>10, <1>11, <1>12 DEF Sides
<1>14. ~ Held(d, k)
  BY <1>3, <1>6 DEF Held, Alive
<1>15. x.step = "linked"
  BY <1>4, <1>13, <1>14 DEF Own, Holding, Busy
<1>16. ASSUME x.queued > 0 PROVE FALSE
  <2>1. d.lease = k /\ x.stop \in {"no", "channelClosed"}
    BY <1>4, <1>15, <1>16 DEF Own, Holding
  <2>2. x.stop = "no"
    BY <1>3, <1>4, <2>1 DEF Own, Hearing
  <2>3. d.onceOpened = "settled"
    BY <1>4, <1>15, <2>1 DEF Own, Begun
  <2>4. d.state = "CLOSING"
    BY <1>0, <1>1, <1>3, <1>6, <2>1, <2>3, Knows
       DEF EndOK, Alive, PoolChannel, State, LinkOf, Linked, Sides
  <2>5. d.ack # "none"
    BY <1>4, <1>15, <2>1, <2>2, <2>4 DEF Own, Hearing
  <2>6. y.stop \in {"failed", "socketClosed"}
    BY <1>1, <1>2, <1>3, <1>7, <2>1, <2>5 DEF GoodbyeOf, Goodbye
  <2> QED
    BY <1>2, <2>6
<1>17. y.got \in Nat /\ x.sent \in Nat /\ x.queued = 0
  BY <1>16 DEF Session
<1> QED
  BY <1>1, <1>2, <1>6, <1>9, <1>13, <1>17

\* On every channel, until a CLOSE is missed or a socket is late there, the
\* rules of its sessions hold, with those of the pool.
THEOREM SessionsInvariance ==
    ASSUME PromptSends
    PROVE  SessionsSpec => [](IInv /\ LinkInv /\ SessionsInv)
<1>1. SessionsInit => IInv /\ LinkInv /\ SessionsInv
  BY InitIInv, InitLink, InitSessions DEF SessionsInit
<1>2. IInv /\ LinkInv /\ SessionsInv /\ [SessionsNext]_sessionVars
         => (IInv /\ LinkInv /\ SessionsInv)'
  BY NextKeeps
<1> QED
  BY <1>1, <1>2, PTL DEF SessionsSpec

\* The variables of the sessions and of their channels have their types.
THEOREM SessionsTypeCorrect ==
    ASSUME PromptSends
    PROVE  SessionsSpec => []SessionsTypeOK
<1>1. SessionsInv => SessionsTypeOK
  BY DEF SessionsInv
<1> QED
  BY <1>1, SessionsInvariance, PTL

\* No session sends on a channel, or closes it, in a lease of another, unless a
\* CLOSE was missed or a socket was late on that channel.
THEOREM NoSessionStrays ==
    ASSUME PromptSends
    PROVE  SessionsSpec => []StraysOnlyLate
BY InvStraysOnlyLate, SessionsInvariance, PTL

\* On a sound channel, what a client is told is what the session at the other
\* end of its lease decided, or FAILURE; where that was not SUCCEEDED, no data is
\* handed to a server and the client's session is not linked.
THEOREM ClientsAreToldTheTruth ==
    ASSUME PromptSends
    PROVE  SessionsSpec => []RepliesAgree
BY InvRepliesAgree, SessionsInvariance, PTL

\* While the data channel works and is sound, a session that learns from it
\* that the peer is through has handed its socket all that the peer's socket
\* had delivered.
THEOREM NoDataIsLost ==
    ASSUME PromptSends
    PROVE  SessionsSpec => []NothingLost
<1>1. IInv /\ LinkInv /\ SessionsInv => NothingLost
  BY InvNothingLost
<1> QED
  BY <1>1, SessionsInvariance, PTL

\* The socket of a linked session is paused exactly while its channel, if it is
\* sound, is in overflow.
THEOREM PausedByOverflow ==
    ASSUME PromptSends
    PROVE  SessionsSpec => []PausedInOverflow
<1>1. IInv /\ LinkInv /\ SessionsInv => PausedInOverflow
  BY InvPausedInOverflow
<1> QED
  BY <1>1, SessionsInvariance, PTL
=============================================================================
