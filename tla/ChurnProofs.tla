------------------------------- MODULE ChurnProofs ----------------------------
(***************************************************************************)
(* Proofs about Churn, for any candidates that WebRTC and the probes may   *)
(* find, any outcome of binding, and any traffic; and, last, about the     *)
(* cipher that the pipes apply to that traffic.                            *)
(***************************************************************************)
EXTENDS Churn, Caesar, SequenceTheorems, WellFoundedInduction, TLAPS

-----------------------------------------------------------------------------
(* What Select computes: induction over the natural numbers, for a set of   *)
(* them, from their order being well founded.                               *)

\* A set that holds 0, and with each number the next, holds all.
LEMMA Induction ==
    ASSUME NEW S, 0 \in S, \A n \in Nat : n \in S => n + 1 \in S
    PROVE  Nat \subseteq S
<1> SUFFICES ASSUME Nat \ S # {} PROVE FALSE
  OBVIOUS
<1>1. PICK T : T = Nat \ S
  OBVIOUS
<1>2. PICK R : R = OpToRel(<, Nat)
  BY Zenon
<1>3. IsWellFoundedOn(R, Nat)
  BY <1>2, NatLessThanWellFounded, Zenon
<1>4. \A x, y \in Nat : x < y => <<x, y>> \in R
  BY <1>2 DEF OpToRel
<1>5. PICK x \in T : \A y \in T : ~ (<<y, x>> \in R)
  BY <1>1, <1>3, WFMin
<1>6. x \in Nat /\ x # 0
  BY <1>1, <1>5
<1>7. x - 1 \in Nat /\ x - 1 < x /\ x = (x - 1) + 1
  BY <1>6
<1>8. <<x - 1, x>> \in R
  BY <1>4, <1>6, <1>7
<1>9. x - 1 \in S
  BY <1>1, <1>5, <1>7, <1>8
<1>10. x \in S
  BY <1>7, <1>9
<1>11. QED
  BY <1>1, <1>5, <1>10

\* The members of S in s, in order: Select, of the members of a set.
Keep(s, S) ==
    LET pick[n \in 0 .. Len(s)] ==
            IF n = 0 THEN <<>>
            ELSE IF s[n] \in S THEN Append(pick[n - 1], s[n]) ELSE pick[n - 1]
    IN  pick[Len(s)]

\* f[n] is what is kept of the first n elements of s.
Picks(f, s, S) ==
    /\ f[0] = <<>>
    /\ \A n \in 1 .. Len(s) :
          f[n] = IF s[n] \in S THEN Append(f[n - 1], s[n]) ELSE f[n - 1]

\* The function that the definition of Keep names exists.
LEMMA PickExists ==
    ASSUME NEW T, NEW s \in Seq(T), NEW S
    PROVE  \E f : f = [n \in 0 .. Len(s) |->
               IF n = 0 THEN <<>>
               ELSE IF s[n] \in S THEN Append(f[n - 1], s[n]) ELSE f[n - 1]]
<1> DEFINE Upto(f, m) == f = [n \in 0 .. m |->
               IF n = 0 THEN <<>>
               ELSE IF s[n] \in S THEN Append(f[n - 1], s[n]) ELSE f[n - 1]]
           N == {m \in Nat : \E f : Upto(f, m)}
<1>1. 0 \in N
  <2>1. PICK f : f = [n \in 0 .. 0 |-> <<>>]
    OBVIOUS
  <2>2. Upto(f, 0)
    BY <2>1
  <2>3. QED
    BY <2>2
<1>2. ASSUME NEW m \in Nat, m \in N
      PROVE  m + 1 \in N
  <2>1. PICK f : Upto(f, m)
    BY <1>2
  <2>2. PICK g : g = [n \in 0 .. m + 1 |->
                        IF n <= m THEN f[n]
                        ELSE IF s[n] \in S THEN Append(f[n - 1], s[n])
                        ELSE f[n - 1]]
    OBVIOUS
  <2>3. \A n \in 0 .. m : g[n] = f[n]
    BY <2>2
  <2>4. ASSUME NEW n \in 0 .. m + 1
        PROVE  g[n] = IF n = 0 THEN <<>>
                      ELSE IF s[n] \in S THEN Append(g[n - 1], s[n])
                      ELSE g[n - 1]
    <3>1. CASE n = 0
      BY <2>1, <2>3, <3>1
    <3>2. CASE n \in 1 .. m
      <4>1. n - 1 \in 0 .. m /\ n \in 0 .. m
        BY <3>2
      <4>2. g[n - 1] = f[n - 1] /\ g[n] = f[n]
        BY <2>3, <4>1
      <4>3. QED
        BY <2>1, <3>2, <4>1, <4>2
    <3>3. CASE n = m + 1
      <4>1. n - 1 \in 0 .. m /\ ~ (n <= m) /\ n # 0
        BY <3>3
      <4>2. g[n - 1] = f[n - 1]
        BY <2>3, <4>1
      <4>3. QED
        BY <2>2, <4>1, <4>2
    <3>4. QED
      BY <3>1, <3>2, <3>3
  <2>5. Upto(g, m + 1)
    BY <2>2, <2>4
  <2>6. QED
    BY <2>5
<1>3. Nat \subseteq N
  <2> HIDE DEF N
  <2>1. QED
    BY <1>1, <1>2, Induction
<1>4. Len(s) \in Nat
  OBVIOUS
<1>5. QED
  BY <1>3, <1>4

\* Keep is the last value of such a function.
LEMMA KeepPicks ==
    ASSUME NEW T, NEW s \in Seq(T), NEW S
    PROVE  \E f : Picks(f, s, S) /\ Keep(s, S) = f[Len(s)]
<1> DEFINE pick[n \in 0 .. Len(s)] ==
               IF n = 0 THEN <<>>
               ELSE IF s[n] \in S THEN Append(pick[n - 1], s[n])
               ELSE pick[n - 1]
<1>1. Keep(s, S) = pick[Len(s)]
  BY DEF Keep
<1>2. pick = [n \in 0 .. Len(s) |->
                 IF n = 0 THEN <<>>
                 ELSE IF s[n] \in S THEN Append(pick[n - 1], s[n])
                 ELSE pick[n - 1]]
  <2>1. \E f : f = [n \in 0 .. Len(s) |->
                       IF n = 0 THEN <<>>
                       ELSE IF s[n] \in S THEN Append(f[n - 1], s[n])
                       ELSE f[n - 1]]
    BY PickExists
  <2>2. QED
    BY <2>1, Zenon DEF pick
<1> HIDE DEF pick
<1>3. PICK l \in Nat : l = Len(s)
  OBVIOUS
<1>4. Picks(pick, s, S)
  <2>1. \A n \in 1 .. l : n \in 0 .. l /\ n # 0
    OBVIOUS
  <2>2. 0 \in 0 .. l
    OBVIOUS
  <2>3. QED
    BY <1>2, <1>3, <2>1, <2>2, Zenon DEF Picks
<1>5. QED
  BY <1>1, <1>4

\* What is kept of the first k elements depends on nothing else.
LEMMA PicksAgree ==
    ASSUME NEW s, NEW t, NEW S, NEW f, NEW g, NEW k \in Nat,
           Len(s) \in Nat, Len(t) \in Nat, k <= Len(s), k <= Len(t),
           \A i \in 1 .. k : s[i] = t[i],
           Picks(f, s, S), Picks(g, t, S)
    PROVE  f[k] = g[k]
<1> DEFINE N == {n \in Nat : n <= k => f[n] = g[n]}
<1>1. 0 \in N
  BY DEF Picks
<1>2. ASSUME NEW n \in Nat, n \in N
      PROVE  n + 1 \in N
  <2>1. CASE n + 1 <= k
    <3>1. /\ f[n] = g[n]
          /\ n + 1 \in 1 .. Len(s) /\ n + 1 \in 1 .. Len(t)
          /\ n + 1 \in 1 .. k
          /\ (n + 1) - 1 = n
      BY <1>2, <2>1
    <3>2. s[n + 1] = t[n + 1]
      BY <3>1
    <3>3. f[n + 1] = g[n + 1]
      BY <3>1, <3>2 DEF Picks
    <3>4. QED
      BY <3>3
  <2>2. CASE ~ (n + 1 <= k)
    BY <2>2
  <2>3. QED
    BY <2>1, <2>2
<1>3. Nat \subseteq N
  <2> HIDE DEF N
  <2>1. QED
    BY <1>1, <1>2, Induction
<1>4. QED
  BY <1>3

\* What is kept are elements of the sequence and of the set.
LEMMA KeepType ==
    ASSUME NEW T, NEW s \in Seq(T), NEW S
    PROVE  Keep(s, S) \in Seq(T)
<1>1. PICK f : Picks(f, s, S) /\ Keep(s, S) = f[Len(s)]
  BY KeepPicks
<1>2. PICK l \in Nat : l = Len(s)
  OBVIOUS
<1>3. \A n \in 1 .. l : s[n] \in T
  BY <1>2
<1> DEFINE N == {n \in Nat : n <= l => f[n] \in Seq(T)}
<1>4. 0 \in N
  <2>1. f[0] = <<>>
    BY <1>1 DEF Picks
  <2>2. <<>> \in Seq(T)
    OBVIOUS
  <2>3. QED
    BY <2>1, <2>2
<1>5. ASSUME NEW n \in Nat, n \in N
      PROVE  n + 1 \in N
  <2>1. CASE n + 1 <= l
    <3>1. f[n] \in Seq(T) /\ n + 1 \in 1 .. l /\ (n + 1) - 1 = n
      BY <1>5, <2>1
    <3>2. s[n + 1] \in T
      BY <1>3, <3>1
    <3>3. f[n + 1] = IF s[n + 1] \in S THEN Append(f[n], s[n + 1]) ELSE f[n]
      BY <1>1, <1>2, <3>1 DEF Picks
    <3>4. f[n + 1] \in Seq(T)
      BY <3>1, <3>2, <3>3
    <3>5. QED
      BY <3>4
  <2>2. CASE ~ (n + 1 <= l)
    BY <2>2
  <2>3. QED
    BY <2>1, <2>2
<1>6. Nat \subseteq N
  <2> HIDE DEF N
  <2>1. QED
    BY <1>4, <1>5, Induction
<1>7. QED
  BY <1>1, <1>2, <1>6

\* Nothing is kept of nothing.
LEMMA KeepEmpty ==
    ASSUME NEW S
    PROVE  Keep(<<>>, S) = <<>>
<1>1. <<>> \in Seq({}) /\ Len(<<>>) = 0
  OBVIOUS
<1>2. PICK f : Picks(f, <<>>, S) /\ Keep(<<>>, S) = f[Len(<<>>)]
  BY <1>1, KeepPicks
<1>3. QED
  BY <1>1, <1>2 DEF Picks

\* One element more is kept, or not.
LEMMA KeepAppend ==
    ASSUME NEW T, NEW s \in Seq(T), NEW x \in T, NEW S
    PROVE  Keep(Append(s, x), S) =
               IF x \in S THEN Append(Keep(s, S), x) ELSE Keep(s, S)
<1>1. PICK t : t = Append(s, x)
  OBVIOUS
<1>2. PICK l \in Nat : l = Len(s)
  OBVIOUS
<1>3. /\ t \in Seq(T) /\ Len(t) = l + 1
      /\ \A i \in 1 .. l : t[i] = s[i]
      /\ t[l + 1] = x
  BY <1>1, <1>2
<1>4. PICK f : Picks(f, s, S) /\ Keep(s, S) = f[l]
  BY <1>2, KeepPicks
<1>5. PICK g : Picks(g, t, S) /\ Keep(t, S) = g[l + 1]
  BY <1>3, KeepPicks
<1>6. f[l] = g[l]
  <2>1. /\ Len(s) \in Nat /\ Len(t) \in Nat
        /\ l <= Len(s) /\ l <= Len(t)
        /\ \A i \in 1 .. l : s[i] = t[i]
    BY <1>2, <1>3
  <2>2. Picks(f, s, S) /\ Picks(g, t, S)
    BY <1>4, <1>5
  <2>3. QED
    BY <2>1, <2>2, PicksAgree
<1>7. g[l + 1] = IF x \in S THEN Append(g[l], x) ELSE g[l]
  <2>1. /\ \A n \in 1 .. Len(t) : g[n] =
                IF t[n] \in S THEN Append(g[n - 1], t[n]) ELSE g[n - 1]
        /\ Len(t) = l + 1 /\ t[l + 1] = x
    BY <1>3, <1>5 DEF Picks
  <2>2. l + 1 \in 1 .. l + 1 /\ (l + 1) - 1 = l
    OBVIOUS
  <2>3. QED
    BY <2>1, <2>2
<1>8. QED
  BY <1>1, <1>4, <1>5, <1>6, <1>7

\* Append and concatenation associate.
LEMMA AppendConcat ==
    ASSUME NEW T, NEW s \in Seq(T), NEW t \in Seq(T), NEW x \in T
    PROVE  Append(s \o t, x) = s \o Append(t, x)
<1>1. <<x>> \in Seq(T)
  OBVIOUS
<1>2. s \o t \in Seq(T)
  BY ConcatProperties
<1>3. /\ Append(s \o t, x) = (s \o t) \o <<x>>
      /\ Append(t, x) = t \o <<x>>
  BY <1>2, AppendIsConcat
<1>4. (s \o t) \o <<x>> = s \o (t \o <<x>>)
  BY <1>1, ConcatAssociative
<1>5. QED
  BY <1>3, <1>4

\* Of a concatenation is kept what is kept of its parts.
LEMMA KeepConcat ==
    ASSUME NEW T, NEW s \in Seq(T), NEW t \in Seq(T), NEW S
    PROVE  Keep(s \o t, S) = Keep(s, S) \o Keep(t, S)
<1>1. PICK u : u = s \o t
  OBVIOUS
<1>2. PICK l \in Nat, m \in Nat : l = Len(s) /\ m = Len(t)
  OBVIOUS
<1>3. /\ u \in Seq(T) /\ Len(u) = l + m
      /\ \A i \in 1 .. l : u[i] = s[i]
      /\ \A i \in 1 .. m : u[l + i] = t[i]
  <2>1. /\ u \in Seq(T)
        /\ Len(u) = Len(s) + Len(t)
        /\ \A i \in 1 .. Len(s) + Len(t) :
              u[i] = IF i <= Len(s) THEN s[i] ELSE t[i - Len(s)]
    BY <1>1, ConcatProperties
  <2>2. \A i \in 1 .. m : /\ l + i \in 1 .. l + m
                          /\ ~ (l + i <= l)
                          /\ (l + i) - l = i
    OBVIOUS
  <2>3. \A i \in 1 .. l : i \in 1 .. l + m /\ i <= l
    OBVIOUS
  <2>4. /\ Len(u) = l + m
        /\ \A i \in 1 .. l + m : u[i] = IF i <= l THEN s[i] ELSE t[i - l]
    BY <1>2, <2>1
  <2>5. /\ \A i \in 1 .. l : u[i] = s[i]
        /\ \A i \in 1 .. m : u[l + i] = t[i]
    BY <2>2, <2>3, <2>4
  <2>6. QED
    BY <2>1, <2>4, <2>5
<1>4. PICK f : Picks(f, s, S) /\ Keep(s, S) = f[l]
  BY <1>2, KeepPicks
<1>5. PICK g : Picks(g, t, S) /\ Keep(t, S) = g[m]
  BY <1>2, KeepPicks
<1>6. PICK h : Picks(h, u, S) /\ Keep(u, S) = h[l + m]
  BY <1>3, KeepPicks
<1>7. f[l] = h[l]
  <2>1. /\ Len(s) \in Nat /\ Len(u) \in Nat
        /\ l <= Len(s) /\ l <= Len(u)
        /\ \A i \in 1 .. l : s[i] = u[i]
    BY <1>2, <1>3
  <2>2. QED
    BY <1>4, <1>6, <2>1, PicksAgree
<1>8. Keep(s, S) \in Seq(T)
  BY KeepType
<1>9. \A i \in 1 .. m : t[i] \in T
  BY <1>2
<1> DEFINE Q(n) == g[n] \in Seq(T) /\ h[l + n] = f[l] \o g[n]
<1>10. Q(0)
  <2>1. f[l] \in Seq(T) /\ g[0] = <<>> /\ l + 0 = l
    BY <1>4, <1>5, <1>8 DEF Picks
  <2>2. f[l] \o <<>> = f[l] /\ <<>> \in Seq(T)
    BY <2>1
  <2>3. QED
    BY <1>7, <2>1, <2>2
<1>11. ASSUME NEW n \in Nat, n + 1 <= m, Q(n)
       PROVE  Q(n + 1)
  <2>1. /\ n + 1 \in 1 .. m /\ (n + 1) - 1 = n
        /\ l + (n + 1) \in 1 .. l + m /\ (l + (n + 1)) - 1 = l + n
    <3> HIDE DEF Q
    <3>1. QED
      BY <1>11
  <2>2. PICK x \in T : x = t[n + 1]
    BY <1>9, <2>1
  <2>3. u[l + (n + 1)] = x
    BY <1>3, <2>1, <2>2
  <2>4. g[n + 1] = IF x \in S THEN Append(g[n], x) ELSE g[n]
    BY <1>2, <1>5, <2>1, <2>2 DEF Picks
  <2>5. h[l + (n + 1)] = IF x \in S THEN Append(h[l + n], x) ELSE h[l + n]
    BY <1>3, <1>6, <2>1, <2>3 DEF Picks
  <2>6. f[l] \in Seq(T) /\ g[n] \in Seq(T) /\ h[l + n] = f[l] \o g[n]
    BY <1>4, <1>8, <1>11, Zenon
  <2>7. Append(f[l] \o g[n], x) = f[l] \o Append(g[n], x)
    <3>1. PICK a \in Seq(T), b \in Seq(T) : a = f[l] /\ b = g[n]
      BY <2>6
    <3>2. a \o Append(b, x) = Append(a \o b, x)
      BY AppendConcat
    <3>3. QED
      BY <3>1, <3>2
  <2>8. h[l + (n + 1)] = f[l] \o g[n + 1]
    BY <2>4, <2>5, <2>6, <2>7
  <2>9. g[n + 1] \in Seq(T)
    BY <2>4, <2>6
  <2>10. QED
    BY <2>8, <2>9
<1>12. Q(m)
  <2> HIDE DEF Q
  <2> DEFINE N == {n \in Nat : n <= m => Q(n)}
  <2>1. 0 \in N
    BY <1>10
  <2>2. \A n \in Nat : n \in N => n + 1 \in N
    BY <1>11
  <2> HIDE DEF N
  <2>3. Nat \subseteq N
    BY <2>1, <2>2, Induction
  <2>4. QED
    BY <2>3 DEF N
<1>13. h[l + m] = f[l] \o g[m]
  BY <1>12, Zenon
<1>14. QED
  BY <1>1, <1>4, <1>5, <1>6, <1>13

-----------------------------------------------------------------------------
(* The inductive invariant. *)

\* An endpoint, or none yet.
Known == Endpoints \cup {None}

CandidateLines == [kind : {"host", "ipv6", "other"}, endpoint : Known]

Signals ==
    [type : {"PUBLIC_ENDPOINT", "OFFER", "ANSWER", "CANDIDATE"},
     line : CandidateLines, endpoint : Known, sdp : SUBSET Endpoints]

Ends ==
    [probeCandidates_ : Seq(ProbeLines),
     probing : {"gathering", "closing", "complete", "failed"},
     nat : {None} \cup [internal : Endpoints, external : Endpoints],
     webRtcEndpoint : Known, remoteEndpoint : Known,
     forwarding : BOOLEAN,
     deferred : Seq(CandidateLines), given : Seq(CandidateLines),
     described : SUBSET {"OFFER", "ANSWER"}]

Pipes ==
    [publicSocket_ : {"none", "binding", "bound", "failed", "waiting", "stuck"},
     publicEndpoint : Known,
     mirrorSockets_ : [Endpoints -> {"none", "binding", "bound", "failed"}],
     held : [Endpoints -> BOOLEAN],
     info : {"none", "fulfilled", "rejected"},
     transformer_ : {"none", "caesar"},
     browserEndpoint_ : Known]

Typed ==
    /\ end \in [Sides -> Ends]
    /\ pipe \in [Sides -> Pipes]
    /\ signals \in [Sides -> Seq(Signals)]
    /\ found \in [Sides -> Seq(Lines)]

\* What end e of s knows, when its peer is o: probing comes to something once,
\* WebRTC has one endpoint, and the remote endpoint is what the peer's probe
\* came to.
Learned(s, e, o) ==
    /\ e.probing \in {"gathering", "closing"} => e.nat = None
    /\ e.webRtcEndpoint # None => e.webRtcEndpoint = At(s, "webrtc")
    /\ e.remoteEndpoint # None =>
          /\ o.nat # None
          /\ e.remoteEndpoint = o.nat.external

\* WebRTC is given candidates once the mirror socket of the remote endpoint is
\* bound, with that endpoint, and then none waits.
Passed(e, p) ==
    /\ e.forwarding =>
          /\ e.remoteEndpoint # None
          /\ p.mirrorSockets_[e.remoteEndpoint] = "bound"
          /\ e.deferred = <<>>
    /\ \A i \in 1 .. Len(e.given) :
          e.forwarding /\ e.given[i].endpoint = e.remoteEndpoint

\* What the signals q of peer o say: nothing of its own addresses but what its
\* probe came to.
Announced(q, o) ==
    \A i \in 1 .. Len(q) :
        /\ q[i].sdp = {}
        /\ q[i].line.kind = "host" => q[i].line.endpoint = None
        /\ q[i].type = "PUBLIC_ENDPOINT" =>
              /\ o.nat # None
              /\ q[i].endpoint = o.nat.external

\* Pipe p of end e of s is as it was made, or set up with the three endpoints.
SetUp(s, e, p, o) ==
    /\ p.publicSocket_ = "none" => p = NewPipe
    /\ p.publicSocket_ # "none" =>
          /\ p.transformer_ = "caesar"
          /\ e.nat # None
          /\ o.nat # None
          /\ p.publicEndpoint = e.nat.internal
          /\ p.browserEndpoint_ = At(s, "webrtc")
          /\ p.mirrorSockets_[o.nat.external] # "none"

\* What is on the network comes from an address and is obfuscated.
Carried(w) == \A d \in w : d.from \in Endpoints /\ d.obfuscated

SideInv(s) ==
    /\ Learned(s, end[s], end[Peer(s)])
    /\ Passed(end[s], pipe[s])
    /\ Announced(signals[s], end[Peer(s)])
    /\ SetUp(s, end[s], pipe[s], end[Peer(s)])

IInv ==
    /\ Typed
    /\ \A s \in Sides : SideInv(s)
    /\ Carried(wire)

-----------------------------------------------------------------------------
(* What one side may do. *)

\* Each side is the other's peer.
LEMMA Peers ==
    \A s \in Sides : Peer(s) \in Sides /\ Peer(s) # s /\ Peer(Peer(s)) = s
                     /\ \A t \in Sides : t = s \/ t = Peer(s)
BY DEF Sides, Peer

\* Addresses are endpoints.
LEMMA Addresses ==
    \A s \in Sides, where \in Places :
        At(s, where) \in Endpoints /\ At(s, where) # None
BY ChurnAssumption DEF At

\* The fields of an end.
LEMMA EndFields ==
    ASSUME NEW e \in Ends
    PROVE  /\ e.probeCandidates_ \in Seq(ProbeLines)
           /\ e.probing \in {"gathering", "closing", "complete", "failed"}
           /\ e.nat # None => e.nat \in [internal : Endpoints, external : Endpoints]
           /\ e.nat # None => e.nat.internal \in Endpoints
           /\ e.nat # None => e.nat.external \in Endpoints
           /\ e.webRtcEndpoint \in Known /\ e.remoteEndpoint \in Known
           /\ e.forwarding \in BOOLEAN
           /\ e.deferred \in Seq(CandidateLines)
           /\ e.given \in Seq(CandidateLines)
           /\ e.described \in SUBSET {"OFFER", "ANSWER"}
BY DEF Ends

\* A step of s that changes its end to e and its pipe to p, handles a signal or
\* sends one, and keeps every part of the invariant that these take part in.
LEMMA OneSide ==
    ASSUME IInv, NEW s \in Sides, NEW e \in Ends, NEW p \in Pipes,
           end' = [end EXCEPT ![s] = e],
           pipe' = [pipe EXCEPT ![s] = p],
           signals' \in [Sides -> Seq(Signals)],
           found' \in [Sides -> Seq(Lines)],
           Learned(s, e, end[Peer(s)]),
           Passed(e, p),
           SetUp(s, e, p, end[Peer(s)]),
           Announced(signals'[s], end[Peer(s)]),
           Announced(signals'[Peer(s)], e),
           e.nat = end[s].nat \/ end[s].nat = None,
           Carried(wire')
    PROVE  IInv'
<1>0. Typed
  BY DEF IInv
<1>1. PICK t \in Sides : t = Peer(s) /\ t # s /\ Peer(t) = s
  BY Peers
<1>2. /\ end'[s] = e /\ pipe'[s] = p
      /\ end'[t] = end[t] /\ pipe'[t] = pipe[t]
  BY <1>0, <1>1 DEF Typed
<1>3. Typed'
  BY <1>0 DEF Typed
<1>4. SideInv(s)'
  BY <1>1, <1>2 DEF SideInv
<1>5. SideInv(t)
  BY DEF IInv
<1>6. SideInv(t)'
  <2>1. /\ Learned(t, end[t], end[s])
        /\ Passed(end[t], pipe[t])
        /\ SetUp(t, end[t], pipe[t], end[s])
    BY <1>1, <1>5 DEF SideInv
  <2>2. Learned(t, end[t], e)
    BY <2>1 DEF Learned
  <2>3. SetUp(t, end[t], pipe[t], e)
    BY <2>1 DEF SetUp
  <2>4. Announced(signals'[t], e)
    BY <1>1
  <2>5. QED
    BY <1>1, <1>2, <2>1, <2>2, <2>3, <2>4 DEF SideInv
<1>7. \A r \in Sides : r = s \/ r = t
  BY <1>1, Peers
<1>8. QED
  BY <1>3, <1>4, <1>6, <1>7 DEF IInv

\* What SideInv says of the constants of a step.
LEMMA Sided ==
    ASSUME IInv, NEW s \in Sides
    PROVE  /\ end[s] \in Ends /\ pipe[s] \in Pipes
           /\ signals[s] \in Seq(Signals) /\ found[s] \in Seq(Lines)
           /\ Learned(s, end[s], end[Peer(s)])
           /\ Passed(end[s], pipe[s])
           /\ SetUp(s, end[s], pipe[s], end[Peer(s)])
           /\ Announced(signals[s], end[Peer(s)])
           /\ Announced(signals[Peer(s)], end[s])
           /\ end[Peer(s)] \in Ends
           /\ signals[Peer(s)] \in Seq(Signals)
           /\ Carried(wire)
<1>1. /\ Peer(s) \in Sides /\ Peer(Peer(s)) = s
  BY Peers
<1>2. SideInv(s) /\ SideInv(Peer(s)) /\ Typed
  BY <1>1 DEF IInv
<1>3. QED
  BY <1>1, <1>2 DEF IInv, SideInv, Typed

\* The types of the constants of the initial state.
LEMMA NewTypes == NewEnd \in Ends /\ NewPipe \in Pipes
BY DEF NewEnd, NewPipe, Ends, Pipes, Known

\* The initial states.
LEMMA InitIInv == Init => IInv
<1> SUFFICES ASSUME Init PROVE IInv
  OBVIOUS
<1>1. Typed
  BY NewTypes DEF Init, Typed
<1>2. ASSUME NEW s \in Sides
      PROVE  SideInv(s)
  <2>1. /\ end[s] = NewEnd /\ pipe[s] = NewPipe /\ signals[s] = <<>>
    BY <1>2 DEF Init
  <2>2. /\ NewEnd.nat = None /\ NewEnd.webRtcEndpoint = None
        /\ NewEnd.remoteEndpoint = None /\ NewEnd.forwarding = FALSE
        /\ NewEnd.given = <<>> /\ NewPipe.publicSocket_ = "none"
    BY DEF NewEnd, NewPipe
  <2>3. \A i : i \notin 1 .. Len(<<>>)
    OBVIOUS
  <2>4. QED
    BY <2>1, <2>2, <2>3
    DEF SideInv, Learned, Passed, Announced, SetUp
<1>3. QED
  BY <1>1, <1>2 DEF Init, IInv, Carried

-----------------------------------------------------------------------------
(* What the operations on an end and on a pipe do. *)

\* The lines that setCandidateLineEndpoint can rewrite.
Hosts == {line \in CandidateLines : line.kind # "other"}

\* Select of the lines that can be rewritten.
LEMMA SelectHosts ==
    ASSUME NEW s \in Seq(CandidateLines)
    PROVE  Select(s, IsHost) = Keep(s, Hosts)
<1> DEFINE pick[n \in 0 .. Len(s)] ==
               IF n = 0 THEN <<>>
               ELSE IF IsHost(s[n]) THEN Append(pick[n - 1], s[n])
               ELSE pick[n - 1]
<1>1. Select(s, IsHost) = pick[Len(s)]
  BY DEF Select
<1>2. PICK l \in Nat : l = Len(s)
  OBVIOUS
<1>3. \A n \in 1 .. l : IsHost(s[n]) <=> s[n] \in Hosts
  <2>1. \A n \in 1 .. l : s[n] \in CandidateLines
    BY <1>2
  <2>2. QED
    BY <2>1 DEF IsHost, Hosts
<1>4. PICK f : f = [n \in 0 .. l |->
                      IF n = 0 THEN <<>>
                      ELSE IF s[n] \in Hosts THEN Append(f[n - 1], s[n])
                      ELSE f[n - 1]]
  <2>1. \E f : f = [n \in 0 .. Len(s) |->
                       IF n = 0 THEN <<>>
                       ELSE IF s[n] \in Hosts THEN Append(f[n - 1], s[n])
                       ELSE f[n - 1]]
    BY PickExists
  <2>2. QED
    BY <1>2, <2>1
<1>5. \A n \in 0 .. l : n # 0 => n \in 1 .. l
  OBVIOUS
<1>6. f = [n \in 0 .. l |->
             IF n = 0 THEN <<>>
             ELSE IF IsHost(s[n]) THEN Append(f[n - 1], s[n])
             ELSE f[n - 1]]
  BY <1>3, <1>4, <1>5
<1>7. pick = [n \in 0 .. l |->
                IF n = 0 THEN <<>>
                ELSE IF IsHost(s[n]) THEN Append(pick[n - 1], s[n])
                ELSE pick[n - 1]]
  BY <1>2, <1>6, Zenon DEF pick
<1> HIDE DEF pick
<1>8. Picks(pick, s, Hosts)
  <2>1. \A n \in 1 .. l : n \in 0 .. l /\ n # 0
    OBVIOUS
  <2>2. 0 \in 0 .. l
    OBVIOUS
  <2>3. QED
    BY <1>2, <1>3, <1>7, <2>1, <2>2, Zenon DEF Picks
<1>9. PICK g : Picks(g, s, Hosts) /\ Keep(s, Hosts) = g[l]
  BY <1>2, KeepPicks
<1>10. pick[l] = g[l]
  <2>1. Len(s) \in Nat /\ l <= Len(s)
    BY <1>2
  <2>2. QED
    BY <1>8, <1>9, <2>1, PicksAgree
<1>11. QED
  BY <1>1, <1>2, <1>9, <1>10

\* f is e when WebRTC was given m, the lines that can be rewritten, all of them
\* with endpoint at.
Gives(e, lines, at, f, m) ==
    /\ m \in Seq(CandidateLines)
    /\ f = [e EXCEPT !.given = @ \o m]
    /\ Len(m) = Len(Keep(lines, Hosts))
    /\ \A i \in 1 .. Len(m) :
          /\ m[i].endpoint = at
          /\ m[i].kind = Keep(lines, Hosts)[i].kind

\* This is what giving candidates does.
LEMMA GiveDoes ==
    ASSUME NEW e \in Ends, NEW lines \in Seq(CandidateLines), NEW at \in Known
    PROVE  \E m : Gives(e, lines, at, Give(e, lines, at), m)
<1>1. PICK h \in Seq(CandidateLines) :
         h = Keep(lines, Hosts) /\ h = Select(lines, IsHost)
  BY KeepType, SelectHosts
<1>2. PICK m : m = [i \in DOMAIN h |-> SetEndpoint(h[i], at)]
  OBVIOUS
<1>3. PICK l \in Nat : l = Len(h)
  OBVIOUS
<1>4. DOMAIN h = 1 .. l /\ \A i \in 1 .. l : h[i] \in CandidateLines
  BY <1>3
<1>5. \A line \in CandidateLines :
         /\ SetEndpoint(line, at) \in CandidateLines
         /\ SetEndpoint(line, at).endpoint = at
         /\ SetEndpoint(line, at).kind = line.kind
  BY DEF SetEndpoint, CandidateLines
<1>6. m = [i \in 1 .. l |-> SetEndpoint(h[i], at)]
  BY <1>2, <1>4
<1>7. /\ m \in Seq(CandidateLines)
      /\ Len(m) = l
      /\ \A i \in 1 .. l : m[i] = SetEndpoint(h[i], at)
  <2>1. \A i \in 1 .. l : SetEndpoint(h[i], at) \in CandidateLines
    BY <1>4, <1>5
  <2>2. QED
    BY <1>6, <2>1
<1>8. Give(e, lines, at) = [e EXCEPT !.given = @ \o m]
  BY <1>1, <1>2 DEF Give
<1>9. \A i \in 1 .. l : m[i].endpoint = at /\ m[i].kind = h[i].kind
  BY <1>4, <1>5, <1>7
<1>10. Gives(e, lines, at, Give(e, lines, at), m)
  BY <1>1, <1>3, <1>7, <1>8, <1>9 DEF Gives
<1>11. QED
  BY <1>10

\* The four calls that configure a pipe.
LEMMA ConfigureDoes ==
    ASSUME NEW a \in Known, NEW b \in Known, NEW r \in Endpoints
    PROVE  /\ Configure(a, b, r) \in Pipes
           /\ Configure(a, b, r).publicSocket_ = "binding"
           /\ Configure(a, b, r).transformer_ = "caesar"
           /\ Configure(a, b, r).publicEndpoint = a
           /\ Configure(a, b, r).browserEndpoint_ = b
           /\ Configure(a, b, r).mirrorSockets_[r] # "none"
<1>1. PICK p : p = [NewPipe EXCEPT !.transformer_ = "caesar",
                                   !.browserEndpoint_ = b]
  OBVIOUS
<1>2. /\ p.publicSocket_ = "none" /\ p.transformer_ = "caesar"
      /\ p.browserEndpoint_ = b
      /\ p \in Pipes
  BY <1>1 DEF NewPipe, Pipes, Known
<1>3. PICK q : q = BindLocal(p, a)
  OBVIOUS
<1>4. q = [p EXCEPT !.publicSocket_ = "binding", !.publicEndpoint = a]
  BY <1>2, <1>3 DEF BindLocal
<1>5. /\ q.publicSocket_ = "binding" /\ q.transformer_ = "caesar"
      /\ q.browserEndpoint_ = b /\ q.publicEndpoint = a
      /\ q.mirrorSockets_ = p.mirrorSockets_
      /\ q \in Pipes
  BY <1>2, <1>4 DEF Pipes
<1>6. PICK c : c = GetMirrorSocket(q, r)
  OBVIOUS
<1>7. c = [q EXCEPT !.mirrorSockets_ =
              [q.mirrorSockets_ EXCEPT ![r] = IF @ = "none" THEN "binding" ELSE @]]
  BY <1>6 DEF GetMirrorSocket
<1>8. PICK ms : ms = [q.mirrorSockets_ EXCEPT
                         ![r] = IF @ = "none" THEN "binding" ELSE @]
  OBVIOUS
<1>9. /\ ms \in [Endpoints -> {"none", "binding", "bound", "failed"}]
      /\ ms[r] # "none"
  <2>1. q.mirrorSockets_ \in [Endpoints -> {"none", "binding", "bound", "failed"}]
    BY <1>5 DEF Pipes
  <2>2. QED
    BY <1>8, <2>1
<1>10. c = [q EXCEPT !.mirrorSockets_ = ms]
  BY <1>7, <1>8
<1>11. /\ c.publicSocket_ = "binding" /\ c.transformer_ = "caesar"
       /\ c.browserEndpoint_ = b /\ c.publicEndpoint = a
       /\ c.mirrorSockets_ = ms
       /\ c \in Pipes
  BY <1>5, <1>9, <1>10 DEF Pipes
<1>12. Configure(a, b, r) = c
  BY <1>1, <1>3, <1>6 DEF Configure
<1>13. QED
  BY <1>9, <1>11, <1>12

\* When the end of s becomes e, its pipe is set up if nothing is missing.
LEMMA BecomeDoes ==
    ASSUME IInv, NEW s \in Sides, NEW e \in Ends, NEW o,
           Learned(s, e, o), Passed(e, pipe[s]), SetUp(s, e, pipe[s], o),
           Become(s, e)
    PROVE  /\ end' = [end EXCEPT ![s] = e]
           /\ \E p \in Pipes :
                 /\ pipe' = [pipe EXCEPT ![s] = p]
                 /\ Passed(e, p)
                 /\ SetUp(s, e, p, o)
<1>0. /\ pipe \in [Sides -> Pipes] /\ pipe[s] \in Pipes
  BY DEF IInv, Typed
<1>1. end' = [end EXCEPT ![s] = e]
  BY DEF Become
<1> DEFINE Ready_ == /\ pipe[s].publicSocket_ = "none"
                     /\ e.webRtcEndpoint # None
                     /\ e.remoteEndpoint # None
                     /\ e.nat # None
<1>2. CASE ~ Ready_
  <2>1. pipe' = pipe
    BY <1>2 DEF Become
  <2>2. pipe' = [pipe EXCEPT ![s] = pipe[s]]
    BY <1>0, <2>1
  <2>3. QED
    BY <1>0, <1>1, <2>2
<1>3. CASE Ready_
  <2>1. PICK p : p = Configure(e.nat.internal, e.webRtcEndpoint,
                               e.remoteEndpoint)
    OBVIOUS
  <2>2. pipe' = [pipe EXCEPT ![s] = p]
    BY <1>3, <2>1 DEF Become
  <2>3. /\ e.nat.internal \in Known /\ e.webRtcEndpoint \in Known
        /\ e.remoteEndpoint \in Endpoints
        /\ o.nat # None /\ e.remoteEndpoint = o.nat.external
        /\ e.webRtcEndpoint = At(s, "webrtc")
    BY <1>3, EndFields DEF Known, Learned
  <2>4. /\ p \in Pipes
        /\ p.publicSocket_ = "binding"
        /\ p.transformer_ = "caesar"
        /\ p.publicEndpoint = e.nat.internal
        /\ p.browserEndpoint_ = e.webRtcEndpoint
        /\ p.mirrorSockets_[e.remoteEndpoint] # "none"
    BY <2>1, <2>3, ConfigureDoes
  <2>5. SetUp(s, e, p, o)
    BY <1>3, <2>3, <2>4 DEF SetUp
  <2>6. Passed(e, p)
    <3>1. pipe[s] = NewPipe
      BY <1>3 DEF SetUp
    <3>2. NewPipe.mirrorSockets_[e.remoteEndpoint] = "none"
      BY <2>3 DEF NewPipe
    <3>3. ~ e.forwarding
      BY <3>1, <3>2 DEF Passed
    <3>4. QED
      BY <3>3 DEF Passed
  <2>7. QED
    BY <1>1, <2>2, <2>4, <2>5, <2>6
<1>4. QED
  BY <1>2, <1>3

-----------------------------------------------------------------------------
(* What the steps have in common. *)

\* What a signal of o may say.
Says(m, o) ==
    /\ m.sdp = {}
    /\ m.line.kind = "host" => m.line.endpoint = None
    /\ m.type = "PUBLIC_ENDPOINT" => o.nat # None /\ m.endpoint = o.nat.external

\* Announced, signal by signal.
LEMMA AnnouncedSays ==
    \A q, o : Announced(q, o) <=> \A i \in 1 .. Len(q) : Says(q[i], o)
BY DEF Announced, Says

\* One signal more, of an end that may have learned its address.
LEMMA AnnouncedAppend ==
    ASSUME NEW q \in Seq(Signals), NEW m \in Signals, NEW o, NEW e,
           Announced(q, o), Says(m, e), e.nat = o.nat \/ o.nat = None
    PROVE  Announced(Append(q, m), e)
<1>1. PICK r : r = Append(q, m)
  OBVIOUS
<1>2. PICK l \in Nat : l = Len(q)
  OBVIOUS
<1>3. /\ Len(r) = l + 1
      /\ \A i \in 1 .. l : r[i] = q[i]
      /\ r[l + 1] = m
  BY <1>1, <1>2
<1>4. \A i \in 1 .. l : Says(q[i], o)
  BY <1>2, AnnouncedSays
<1>5. \A n : Says(n, o) => Says(n, e)
  BY DEF Says
<1>6. ASSUME NEW i \in 1 .. l + 1
      PROVE  Says(r[i], e)
  <2>1. CASE i \in 1 .. l
    BY <1>3, <1>4, <1>5, <2>1
  <2>2. CASE i = l + 1
    BY <1>3, <2>2
  <2>3. QED
    BY <2>1, <2>2
<1>7. QED
  BY <1>1, <1>3, <1>6, AnnouncedSays

\* One signal fewer.
LEMMA AnnouncedTail ==
    ASSUME NEW q \in Seq(Signals), NEW o, Announced(q, o), q # <<>>
    PROVE  /\ Tail(q) \in Seq(Signals)
           /\ Announced(Tail(q), o)
           /\ Head(q) \in Signals
           /\ Says(Head(q), o)
<1>1. PICK r : r = Tail(q)
  OBVIOUS
<1>2. PICK l \in Nat : l = Len(q)
  OBVIOUS
<1>3. /\ r \in Seq(Signals) /\ Len(r) = l - 1 /\ l > 0
      /\ \A i \in 1 .. l - 1 : r[i] = q[i + 1]
      /\ Head(q) = q[1] /\ q[1] \in Signals
  BY <1>1, <1>2
<1>4. \A i \in 1 .. l : Says(q[i], o)
  BY <1>2, AnnouncedSays
<1>5. \A i \in 1 .. l - 1 : i + 1 \in 1 .. l
  BY <1>3
<1>6. \A i \in 1 .. l - 1 : Says(r[i], o)
  BY <1>3, <1>4, <1>5
<1>7. 1 \in 1 .. l
  BY <1>3
<1>8. QED
  BY <1>1, <1>3, <1>4, <1>6, <1>7, AnnouncedSays

\* The signals after one was sent to the peer.
LEMMA Signalled ==
    ASSUME IInv, NEW s \in Sides, NEW e \in Ends, NEW m \in Signals, Says(m, e),
           SignalPeer(s, m), e.nat = end[s].nat \/ end[s].nat = None
    PROVE  /\ signals' \in [Sides -> Seq(Signals)]
           /\ Announced(signals'[s], end[Peer(s)])
           /\ Announced(signals'[Peer(s)], e)
<1>1. PICK t \in Sides : t = Peer(s) /\ t # s
  BY Peers
<1>2. PICK r : r = Append(signals[t], m)
  OBVIOUS
<1>3. /\ signals[t] \in Seq(Signals) /\ Announced(signals[t], end[s])
      /\ Announced(signals[s], end[t])
  BY <1>1, Sided
<1>4. r \in Seq(Signals) /\ Announced(r, e)
  <2>1. PICK q \in Seq(Signals) : q = signals[t]
    BY <1>3
  <2>2. PICK o : o = end[s]
    OBVIOUS
  <2>3. Announced(q, o)
    BY <1>3, <2>1, <2>2
  <2>4. e.nat = o.nat \/ o.nat = None
    BY <2>2
  <2>5. Announced(Append(q, m), e)
    BY <2>3, <2>4, AnnouncedAppend
  <2>6. r = Append(q, m)
    BY <1>2, <2>1
  <2>7. Append(q, m) \in Seq(Signals)
    OBVIOUS
  <2>8. QED
    BY <2>5, <2>6, <2>7
<1>5. signals \in [Sides -> Seq(Signals)]
  BY DEF IInv, Typed
<1>6. signals' = [signals EXCEPT ![t] = r]
  BY <1>1, <1>2 DEF SignalPeer
<1>7. QED
  BY <1>1, <1>3, <1>4, <1>5, <1>6

\* The signals that stay as they are, for an end that may have learned its
\* address.
LEMMA Unsignalled ==
    ASSUME IInv, NEW s \in Sides, NEW e, e.nat = end[s].nat \/ end[s].nat = None
    PROVE  Announced(signals[Peer(s)], e)
<1>1. Announced(signals[Peer(s)], end[s])
  BY Sided
<1>2. \A n : Says(n, end[s]) => Says(n, e)
  BY DEF Says
<1>3. QED
  BY <1>1, <1>2, AnnouncedSays

\* A step in which s becomes e.
LEMMA BecomeStep ==
    ASSUME IInv, NEW s \in Sides, NEW e \in Ends, Become(s, e),
           Learned(s, e, end[Peer(s)]),
           Passed(e, pipe[s]),
           signals' \in [Sides -> Seq(Signals)],
           found' \in [Sides -> Seq(Lines)],
           Announced(signals'[s], end[Peer(s)]),
           Announced(signals'[Peer(s)], e),
           e.nat = end[s].nat \/ end[s].nat = None,
           Carried(wire')
    PROVE  IInv'
<1>1. SetUp(s, e, pipe[s], end[Peer(s)])
  <2>1. SetUp(s, end[s], pipe[s], end[Peer(s)])
    BY Sided
  <2>2. QED
    BY <2>1 DEF SetUp
<1>2. PICK p \in Pipes :
         /\ pipe' = [pipe EXCEPT ![s] = p]
         /\ Passed(e, p)
         /\ SetUp(s, e, p, end[Peer(s)])
  BY <1>1, BecomeDoes
<1>3. end' = [end EXCEPT ![s] = e]
  BY DEF Become
<1>4. QED
  BY <1>2, <1>3, OneSide

\* A step of the pipe of s, once it is set up, with which s may become e.
LEMMA PipeStep ==
    ASSUME IInv, NEW s \in Sides, NEW e \in Ends, NEW p \in Pipes,
           pipe[s].publicSocket_ # "none", p.publicSocket_ # "none",
           p.transformer_ = pipe[s].transformer_,
           p.publicEndpoint = pipe[s].publicEndpoint,
           p.browserEndpoint_ = pipe[s].browserEndpoint_,
           \A r \in Endpoints : pipe[s].mirrorSockets_[r] # "none" =>
                                    p.mirrorSockets_[r] # "none",
           end' = [end EXCEPT ![s] = e],
           pipe' = [pipe EXCEPT ![s] = p],
           UNCHANGED <<signals, found>>,
           Learned(s, e, end[Peer(s)]),
           Passed(e, p),
           e.nat = end[s].nat,
           Carried(wire')
    PROVE  IInv'
<1>1. SetUp(s, e, p, end[Peer(s)])
  <2>1. /\ SetUp(s, end[s], pipe[s], end[Peer(s)])
        /\ end[Peer(s)] \in Ends
    BY Sided
  <2>2. end[Peer(s)].nat # None => end[Peer(s)].nat.external \in Endpoints
    BY <2>1, EndFields
  <2>3. QED
    BY <2>1, <2>2 DEF SetUp
<1>2. /\ signals' \in [Sides -> Seq(Signals)]
      /\ found' \in [Sides -> Seq(Lines)]
  BY DEF IInv, Typed
<1>3. /\ Announced(signals'[s], end[Peer(s)])
      /\ Announced(signals'[Peer(s)], e)
  BY Sided, Unsignalled
<1>4. QED
  BY <1>1, <1>2, <1>3, OneSide

\* A step that touches nothing but an end.
LEMMA QuietStep ==
    ASSUME IInv, NEW s \in Sides, NEW e \in Ends,
           end' = [end EXCEPT ![s] = e],
           UNCHANGED <<pipe, signals, found>>,
           Learned(s, e, end[Peer(s)]),
           Passed(e, pipe[s]),
           e.nat = end[s].nat,
           Carried(wire')
    PROVE  IInv'
<1>1. SetUp(s, e, pipe[s], end[Peer(s)])
  <2>1. SetUp(s, end[s], pipe[s], end[Peer(s)])
    BY Sided
  <2>2. QED
    BY <2>1 DEF SetUp
<1>2. /\ signals' \in [Sides -> Seq(Signals)]
      /\ found' \in [Sides -> Seq(Lines)]
      /\ pipe' = [pipe EXCEPT ![s] = pipe[s]]
  BY DEF IInv, Typed
<1>3. /\ Announced(signals'[s], end[Peer(s)])
      /\ Announced(signals'[Peer(s)], e)
  BY Sided, Unsignalled
<1>4. pipe[s] \in Pipes
  BY Sided
<1>5. QED
  BY <1>1, <1>2, <1>3, <1>4, OneSide

\* A step that leaves the end as it is leaves Passed true, when the mirror
\* sockets that are bound stay so.
LEMMA StillPassed ==
    ASSUME NEW e \in Ends, NEW p, NEW q, Passed(e, p),
           \A r \in Endpoints : p.mirrorSockets_[r] = "bound" =>
                                    q.mirrorSockets_[r] = "bound"
    PROVE  Passed(e, q)
<1>1. e.remoteEndpoint # None => e.remoteEndpoint \in Endpoints
  BY EndFields DEF Known
<1>2. QED
  BY <1>1 DEF Passed

-----------------------------------------------------------------------------
(* Each of them keeps the invariant. *)

\* A candidate of the probe.
LEMMA ProbeCandidateKeeps ==
    ASSUME IInv, NEW s \in Sides, NEW kind \in ProbeLines,
           ProbeCandidate(s, kind)
    PROVE  IInv'
<1>1. PICK c : c = Append(end[s].probeCandidates_, kind)
  OBVIOUS
<1>2. PICK e : e = [end[s] EXCEPT !.probeCandidates_ = c]
  OBVIOUS
<1>3. end' = [end EXCEPT ![s] = e]
  BY <1>1, <1>2 DEF ProbeCandidate
<1>4. end[s] \in Ends /\ Learned(s, end[s], end[Peer(s)]) /\ Passed(end[s], pipe[s])
  BY Sided
<1>5. c \in Seq(ProbeLines)
  BY <1>1, <1>4, EndFields
<1>6. /\ e \in Ends
      /\ e.probing = end[s].probing /\ e.nat = end[s].nat
      /\ e.webRtcEndpoint = end[s].webRtcEndpoint
      /\ e.remoteEndpoint = end[s].remoteEndpoint
      /\ e.forwarding = end[s].forwarding /\ e.deferred = end[s].deferred
      /\ e.given = end[s].given
  BY <1>2, <1>4, <1>5 DEF Ends
<1>7. Learned(s, e, end[Peer(s)]) /\ Passed(e, pipe[s])
  BY <1>4, <1>6 DEF Learned, Passed
<1>8. UNCHANGED <<pipe, signals, wire, found>>
  BY DEF ProbeCandidate
<1>9. Carried(wire')
  BY <1>8, Sided
<1>10. QED
  BY <1>3, <1>6, <1>7, <1>8, <1>9, QuietStep

\* The probe has found all it will.
LEMMA ProbeEndsKeeps ==
    ASSUME IInv, NEW s \in Sides, ProbeEnds(s)
    PROVE  IInv'
<1>1. PICK e : e = [end[s] EXCEPT !.probing = "closing"]
  OBVIOUS
<1>2. end' = [end EXCEPT ![s] = e]
  BY <1>1 DEF ProbeEnds
<1>3. end[s] \in Ends /\ Learned(s, end[s], end[Peer(s)]) /\ Passed(end[s], pipe[s])
  BY Sided
<1>4. /\ e \in Ends
      /\ e.nat = end[s].nat
      /\ e.webRtcEndpoint = end[s].webRtcEndpoint
      /\ e.remoteEndpoint = end[s].remoteEndpoint
      /\ e.forwarding = end[s].forwarding /\ e.deferred = end[s].deferred
      /\ e.given = end[s].given
  BY <1>1, <1>3 DEF Ends
<1>5. end[s].probing = "gathering"
  BY DEF ProbeEnds
<1>6. Learned(s, e, end[Peer(s)]) /\ Passed(e, pipe[s])
  BY <1>3, <1>4, <1>5 DEF Learned, Passed
<1>7. UNCHANGED <<pipe, signals, wire, found>>
  BY DEF ProbeEnds
<1>8. Carried(wire')
  BY <1>7, Sided
<1>9. QED
  BY <1>2, <1>4, <1>6, <1>7, <1>8, QuietStep

\* An address is a pair of endpoints.
LEMMA Selected ==
    ASSUME NEW s \in Sides, NEW c
    PROVE  LET nat == SelectPublicAddress(s, c)
           IN  \/ nat = None
               \/ /\ nat # None
                  /\ nat \in [internal : Endpoints, external : Endpoints]
<1>1. /\ At(s, "public") \in Endpoints /\ At(s, "base") \in Endpoints
      /\ At(s, "srflx") \in Endpoints /\ At(s, "private") \in Endpoints
  BY Addresses DEF Places
<1>2. QED
  BY <1>1 DEF SelectPublicAddress

\* Probing comes to something, or to nothing.
LEMMA ProbeClosedKeeps ==
    ASSUME IInv, NEW s \in Sides, ProbeClosed(s)
    PROVE  IInv'
<1>1. PICK nat : nat = SelectPublicAddress(s, end[s].probeCandidates_)
  OBVIOUS
<1>2. nat = None \/ nat \in [internal : Endpoints, external : Endpoints]
  BY <1>1, Selected
<1>3. PICK e : e = [end[s] EXCEPT !.probing = IF nat = None THEN "failed"
                                              ELSE "complete",
                                  !.nat = nat]
  OBVIOUS
<1>4. /\ end[s] \in Ends /\ Learned(s, end[s], end[Peer(s)])
      /\ Passed(end[s], pipe[s])
      /\ Announced(signals[s], end[Peer(s)])
  BY Sided
<1>5. /\ e \in Ends
      /\ e.probing \in {"failed", "complete"} /\ e.nat = nat
      /\ e.webRtcEndpoint = end[s].webRtcEndpoint
      /\ e.remoteEndpoint = end[s].remoteEndpoint
      /\ e.forwarding = end[s].forwarding /\ e.deferred = end[s].deferred
      /\ e.given = end[s].given
  BY <1>2, <1>3, <1>4 DEF Ends
<1>6. end[s].nat = None
  BY <1>4 DEF ProbeClosed, Learned
<1>7. Learned(s, e, end[Peer(s)]) /\ Passed(e, pipe[s])
  BY <1>4, <1>5 DEF Learned, Passed
<1>8. /\ Become(s, e)
      /\ IF nat = None THEN UNCHANGED signals
         ELSE SignalPeer(s, Signal("PUBLIC_ENDPOINT", NoLine, nat.external, {}))
      /\ UNCHANGED <<wire, found>>
  BY <1>1, <1>3 DEF ProbeClosed
<1>9. /\ signals' \in [Sides -> Seq(Signals)]
      /\ Announced(signals'[s], end[Peer(s)])
      /\ Announced(signals'[Peer(s)], e)
  <2>1. CASE nat = None
    BY <1>4, <1>6, <1>8, <2>1, Unsignalled DEF IInv, Typed
  <2>2. CASE nat # None
    <3>1. PICK m : m = Signal("PUBLIC_ENDPOINT", NoLine, nat.external, {})
      OBVIOUS
    <3>2. nat.external \in Endpoints
      BY <1>2, <2>2
    <3>3. /\ m \in Signals
          /\ m.sdp = {} /\ m.line.kind = "other" /\ m.endpoint = nat.external
      BY <3>1, <3>2 DEF Signal, NoLine, Line, Signals, CandidateLines, Known
    <3>4. Says(m, e)
      BY <1>5, <2>2, <3>3 DEF Says
    <3>5. SignalPeer(s, m)
      BY <1>8, <2>2, <3>1
    <3>6. QED
      BY <1>5, <1>6, <3>3, <3>4, <3>5, Signalled
  <2>3. QED
    BY <2>1, <2>2
<1>10. Carried(wire')
  BY <1>8, Sided
<1>11. found' \in [Sides -> Seq(Lines)]
  BY <1>8 DEF IInv, Typed
<1>12. QED
  BY <1>5, <1>6, <1>7, <1>8, <1>9, <1>10, <1>11, BecomeStep

\* An offer or an answer is made.
LEMMA DescribesKeeps ==
    ASSUME IInv, NEW s \in Sides, Describes(s)
    PROVE  IInv'
<1>1. PICK type \in {"OFFER", "ANSWER"} :
         type = IF s = "caller" THEN "OFFER" ELSE "ANSWER"
  OBVIOUS
<1>2. PICK e : e = [end[s] EXCEPT !.described = @ \cup {type}]
  OBVIOUS
<1>3. PICK m : m = Signal(type, NoLine, None, FilterCandidatesFromSdp({At(s, "webrtc")}))
  OBVIOUS
<1>4. /\ end' = [end EXCEPT ![s] = e]
      /\ SignalPeer(s, m)
      /\ UNCHANGED <<pipe, wire, found>>
  BY <1>1, <1>2, <1>3 DEF Describes
<1>5. /\ end[s] \in Ends /\ Learned(s, end[s], end[Peer(s)])
      /\ Passed(end[s], pipe[s]) /\ pipe[s] \in Pipes
      /\ SetUp(s, end[s], pipe[s], end[Peer(s)])
  BY Sided
<1>6. /\ e \in Ends
      /\ e.probing = end[s].probing /\ e.nat = end[s].nat
      /\ e.webRtcEndpoint = end[s].webRtcEndpoint
      /\ e.remoteEndpoint = end[s].remoteEndpoint
      /\ e.forwarding = end[s].forwarding /\ e.deferred = end[s].deferred
      /\ e.given = end[s].given
  <2>1. end[s].described \cup {type} \in SUBSET {"OFFER", "ANSWER"}
    BY <1>1, <1>5, EndFields
  <2>2. QED
    BY <1>2, <1>5, <2>1 DEF Ends
<1>7. /\ Learned(s, e, end[Peer(s)]) /\ Passed(e, pipe[s])
      /\ SetUp(s, e, pipe[s], end[Peer(s)])
  BY <1>5, <1>6 DEF Learned, Passed, SetUp
<1>8. /\ m \in Signals
      /\ m.sdp = {} /\ m.line.kind = "other" /\ m.type # "PUBLIC_ENDPOINT"
  BY <1>1, <1>3 DEF Signal, NoLine, Line, Signals, CandidateLines, Known,
                    FilterCandidatesFromSdp
<1>9. Says(m, e)
  BY <1>8 DEF Says
<1>10. /\ signals' \in [Sides -> Seq(Signals)]
       /\ Announced(signals'[s], end[Peer(s)])
       /\ Announced(signals'[Peer(s)], e)
  BY <1>4, <1>6, <1>8, <1>9, Signalled
<1>11. Carried(wire')
  BY <1>4, Sided
<1>12. /\ found' \in [Sides -> Seq(Lines)]
       /\ pipe' = [pipe EXCEPT ![s] = pipe[s]]
  BY <1>4 DEF IInv, Typed
<1>13. QED
  BY <1>4, <1>5, <1>6, <1>7, <1>10, <1>11, <1>12, OneSide

\* A candidate is found, and announced.
LEMMA FindsCandidateKeeps ==
    ASSUME IInv, NEW s \in Sides, NEW kind \in Lines, FindsCandidate(s, kind)
    PROVE  IInv'
<1>1. PICK line : line = Line(kind, At(s, "webrtc"))
  OBVIOUS
<1>2. PICK e : e = IF kind = "host" /\ end[s].webRtcEndpoint = None
                   THEN [end[s] EXCEPT !.webRtcEndpoint = line.endpoint]
                   ELSE end[s]
  OBVIOUS
<1>3. PICK m : m = Signal("CANDIDATE", Obfuscate(line), None, {})
  OBVIOUS
<1>4. /\ Become(s, e)
      /\ SignalPeer(s, m)
      /\ found' = [found EXCEPT ![s] = Append(@, kind)]
      /\ wire' = wire
  BY <1>1, <1>2, <1>3 DEF FindsCandidate
<1>5. /\ end[s] \in Ends /\ Learned(s, end[s], end[Peer(s)])
      /\ Passed(end[s], pipe[s])
  BY Sided
<1>6. /\ At(s, "webrtc") \in Endpoints /\ At(s, "webrtc") # None
      /\ kind \in {"host", "ipv6", "other"}
  BY Addresses, ChurnAssumption DEF Places
<1>7. /\ line \in CandidateLines
      /\ line.kind = kind /\ line.endpoint = At(s, "webrtc")
  BY <1>1, <1>6 DEF Line, CandidateLines, Known
<1>8. /\ e \in Ends
      /\ e.probing = end[s].probing /\ e.nat = end[s].nat
      /\ e.webRtcEndpoint \in {end[s].webRtcEndpoint, At(s, "webrtc")}
      /\ e.remoteEndpoint = end[s].remoteEndpoint
      /\ e.forwarding = end[s].forwarding /\ e.deferred = end[s].deferred
      /\ e.given = end[s].given
  BY <1>2, <1>5, <1>6, <1>7 DEF Ends, Known
<1>9. Learned(s, e, end[Peer(s)]) /\ Passed(e, pipe[s])
  BY <1>5, <1>8 DEF Learned, Passed
<1>10. /\ m \in Signals
       /\ m.sdp = {} /\ m.type = "CANDIDATE"
       /\ m.line = Obfuscate(line)
       /\ m.line.kind = "host" => m.line.endpoint = None
  <2>1. /\ Obfuscate(line) \in CandidateLines
        /\ Obfuscate(line).kind = "host" => Obfuscate(line).endpoint = None
    BY <1>7 DEF Obfuscate, SetEndpoint, CandidateLines, Known
  <2>2. QED
    BY <1>3, <2>1 DEF Signal, Signals, Known
<1>11. Says(m, e)
  BY <1>10 DEF Says
<1>12. /\ signals' \in [Sides -> Seq(Signals)]
       /\ Announced(signals'[s], end[Peer(s)])
       /\ Announced(signals'[Peer(s)], e)
  BY <1>4, <1>8, <1>10, <1>11, Signalled
<1>13. Carried(wire')
  BY <1>4, Sided
<1>14. found' \in [Sides -> Seq(Lines)]
  BY <1>4 DEF IInv, Typed
<1>15. QED
  BY <1>4, <1>8, <1>9, <1>12, <1>13, <1>14, BecomeStep

\* Candidate lines that all name one endpoint.
AllAt(lines, at) ==
    /\ lines \in Seq(CandidateLines)
    /\ \A i \in 1 .. Len(lines) : lines[i].endpoint = at

\* The end when WebRTC was given m more candidates.
LEMMA GivenMore ==
    ASSUME NEW e \in Ends, NEW m \in Seq(CandidateLines), NEW at,
           \A i \in 1 .. Len(m) : m[i].endpoint = at,
           \A i \in 1 .. Len(e.given) : e.given[i].endpoint = at
    PROVE  AllAt(e.given \o m, at)
<1>1. PICK g \in Seq(CandidateLines) : g = e.given
  BY EndFields
<1>2. PICK k \in Nat, l \in Nat : k = Len(g) /\ l = Len(m)
  OBVIOUS
<1>3. PICK r : r = g \o m
  OBVIOUS
<1>4. /\ r \in Seq(CandidateLines)
      /\ Len(r) = k + l
      /\ \A i \in 1 .. k + l : r[i] = IF i <= k THEN g[i] ELSE m[i - k]
  <2>1. /\ r \in Seq(CandidateLines)
        /\ Len(r) = Len(g) + Len(m)
        /\ \A i \in 1 .. Len(g) + Len(m) :
              r[i] = IF i <= Len(g) THEN g[i] ELSE m[i - Len(g)]
    BY <1>3, ConcatProperties
  <2>2. QED
    BY <1>2, <2>1
<1>5. \A i \in 1 .. k + l : /\ i <= k => i \in 1 .. k
                            /\ ~ (i <= k) => i - k \in 1 .. l
  OBVIOUS
<1>6. \A i \in 1 .. k : g[i].endpoint = at
  BY <1>1, <1>2
<1>7. \A i \in 1 .. l : m[i].endpoint = at
  BY <1>2
<1>8. \A i \in 1 .. k + l : r[i].endpoint = at
  BY <1>4, <1>5, <1>6, <1>7
<1>9. QED
  BY <1>1, <1>3, <1>4, <1>8 DEF AllAt

\* What a candidate from the peer does.
LEMMA HandlesCandidate ==
    ASSUME NEW e \in Ends, NEW p, NEW line \in CandidateLines, Passed(e, p)
    PROVE  LET f == HandleCandidate(e, line)
           IN  /\ f \in Ends
               /\ f.probing = e.probing /\ f.nat = e.nat
               /\ f.webRtcEndpoint = e.webRtcEndpoint
               /\ f.remoteEndpoint = e.remoteEndpoint
               /\ Passed(f, p)
<1>1. PICK f : f = HandleCandidate(e, line)
  OBVIOUS
<1>2. CASE e.forwarding
  <2>1. f = Give(e, <<line>>, e.remoteEndpoint)
    BY <1>1, <1>2 DEF HandleCandidate
  <2>2. PICK c \in Seq(CandidateLines), at \in Known :
           c = <<line>> /\ at = e.remoteEndpoint
    <3>1. <<line>> \in Seq(CandidateLines) /\ e.remoteEndpoint \in Known
      BY EndFields
    <3>2. QED
      BY <3>1
  <2>3. PICK m \in Seq(CandidateLines) :
           /\ f = [e EXCEPT !.given = @ \o m]
           /\ \A i \in 1 .. Len(m) : m[i].endpoint = e.remoteEndpoint
    <3>1. f = Give(e, c, at)
      BY <2>1, <2>2
    <3>2. PICK m : Gives(e, c, at, f, m)
      BY <3>1, GiveDoes
    <3>3. QED
      BY <2>2, <3>2 DEF Gives
  <2>4. \A i \in 1 .. Len(e.given) : e.given[i].endpoint = e.remoteEndpoint
    BY DEF Passed
  <2>5. PICK g \in Seq(CandidateLines) :
           /\ g = e.given \o m
           /\ \A i \in 1 .. Len(g) : g[i].endpoint = e.remoteEndpoint
    <3>1. \A i \in 1 .. Len(m) : m[i].endpoint = at
      BY <2>2, <2>3
    <3>2. \A i \in 1 .. Len(e.given) : e.given[i].endpoint = at
      BY <2>2, <2>4
    <3>3. AllAt(e.given \o m, at)
      BY <3>1, <3>2, GivenMore
    <3>4. QED
      BY <2>2, <3>3 DEF AllAt
  <2>6. f = [e EXCEPT !.given = g]
    BY <2>3, <2>5
  <2>7. /\ f \in Ends
        /\ f.probing = e.probing /\ f.nat = e.nat
        /\ f.webRtcEndpoint = e.webRtcEndpoint
        /\ f.remoteEndpoint = e.remoteEndpoint
        /\ f.forwarding = e.forwarding /\ f.deferred = e.deferred
        /\ f.given = g
    BY <2>6 DEF Ends
  <2>8. Passed(f, p)
    BY <1>2, <2>5, <2>7 DEF Passed
  <2>9. QED
    BY <1>1, <2>7, <2>8
<1>3. CASE ~ e.forwarding
  <2>1. PICK d : d = Append(e.deferred, line)
    OBVIOUS
  <2>2. d \in Seq(CandidateLines)
    BY <2>1, EndFields
  <2>3. f = [e EXCEPT !.deferred = d]
    BY <1>1, <1>3, <2>1 DEF HandleCandidate
  <2>4. /\ f \in Ends
        /\ f.probing = e.probing /\ f.nat = e.nat
        /\ f.webRtcEndpoint = e.webRtcEndpoint
        /\ f.remoteEndpoint = e.remoteEndpoint
        /\ f.forwarding = e.forwarding /\ f.given = e.given
    BY <2>2, <2>3 DEF Ends
  <2>5. Passed(f, p)
    BY <1>3, <2>4 DEF Passed
  <2>6. QED
    BY <1>1, <2>4, <2>5
<1>4. QED
  BY <1>2, <1>3

\* A signal is handled.
LEMMA HandleSignalKeeps ==
    ASSUME IInv, NEW s \in Sides, HandleSignal(s)
    PROVE  IInv'
<1>1. PICK t \in Sides : t = Peer(s) /\ t # s
  BY Peers
<1>2. PICK e \in Ends : e = end[s]
  BY Sided
<1>3. PICK o : o = end[t]
  OBVIOUS
<1>4. /\ Learned(s, e, o) /\ Passed(e, pipe[s])
      /\ Announced(signals[s], o) /\ Announced(signals[t], e)
      /\ signals[s] \in Seq(Signals)
      /\ o \in Ends
  BY <1>1, <1>2, <1>3, Sided
<1>5. PICK q : q = Tail(signals[s])
  OBVIOUS
<1>6. PICK m : m = Head(signals[s])
  OBVIOUS
<1>7. /\ q \in Seq(Signals) /\ Announced(q, o)
      /\ m \in Signals /\ Says(m, o)
  <2>1. signals[s] # <<>>
    BY DEF HandleSignal
  <2>2. QED
    BY <1>4, <1>5, <1>6, <2>1, AnnouncedTail
<1>8. signals' = [signals EXCEPT ![s] = q]
  BY <1>5 DEF HandleSignal
<1>9. /\ signals' \in [Sides -> Seq(Signals)]
      /\ signals'[s] = q /\ signals'[t] = signals[t]
  BY <1>1, <1>7, <1>8 DEF IInv, Typed
<1>10. UNCHANGED <<wire, found>>
  BY DEF HandleSignal
<1>11. Carried(wire')
  BY <1>10, Sided
<1>12. found' \in [Sides -> Seq(Lines)]
  BY <1>10 DEF IInv, Typed
<1>13. \E f \in Ends :
          /\ Become(s, f)
          /\ Learned(s, f, o) /\ Passed(f, pipe[s])
          /\ f.nat = e.nat
  <2>1. CASE m.type = "PUBLIC_ENDPOINT" /\
             Become(s, IF e.remoteEndpoint # None THEN e
                       ELSE [e EXCEPT !.remoteEndpoint = m.endpoint])
    <3>1. CASE e.remoteEndpoint # None
      BY <1>4, <2>1, <3>1
    <3>2. CASE e.remoteEndpoint = None
      <4>1. PICK f : f = [e EXCEPT !.remoteEndpoint = m.endpoint]
        OBVIOUS
      <4>2. m.endpoint \in Known
        BY <1>7 DEF Signals
      <4>3. /\ f \in Ends
            /\ f.probing = e.probing /\ f.nat = e.nat
            /\ f.webRtcEndpoint = e.webRtcEndpoint
            /\ f.remoteEndpoint = m.endpoint
            /\ f.forwarding = e.forwarding /\ f.deferred = e.deferred
            /\ f.given = e.given
        BY <4>1, <4>2 DEF Ends
      <4>4. o.nat # None /\ m.endpoint = o.nat.external
        BY <1>7, <2>1 DEF Says
      <4>5. Learned(s, f, o)
        BY <1>4, <4>3, <4>4 DEF Learned
      <4>6. Passed(f, pipe[s])
        BY <1>4, <3>2, <4>3 DEF Passed
      <4>7. Become(s, f)
        BY <2>1, <3>2, <4>1
      <4>8. QED
        BY <4>3, <4>5, <4>6, <4>7
    <3>3. QED
      BY <3>1, <3>2
  <2>2. CASE m.type = "CANDIDATE" /\ Become(s, HandleCandidate(e, m.line))
    <3>1. m.line \in CandidateLines
      BY <1>7 DEF Signals
    <3>2. PICK f : f = HandleCandidate(e, m.line)
      OBVIOUS
    <3>3. /\ f \in Ends
          /\ f.probing = e.probing /\ f.nat = e.nat
          /\ f.webRtcEndpoint = e.webRtcEndpoint
          /\ f.remoteEndpoint = e.remoteEndpoint
          /\ Passed(f, pipe[s])
      BY <1>4, <3>1, <3>2, HandlesCandidate
    <3>4. Learned(s, f, o)
      BY <1>4, <3>3 DEF Learned
    <3>5. QED
      BY <2>2, <3>2, <3>3, <3>4
  <2>3. CASE m.type \in {"OFFER", "ANSWER"} /\
             Become(s, [e EXCEPT !.described = @ \cup {m.type}])
    <3>1. PICK f : f = [e EXCEPT !.described = @ \cup {m.type}]
      OBVIOUS
    <3>2. e.described \cup {m.type} \in SUBSET {"OFFER", "ANSWER"}
      BY <2>3, EndFields
    <3>3. /\ f \in Ends
          /\ f.probing = e.probing /\ f.nat = e.nat
          /\ f.webRtcEndpoint = e.webRtcEndpoint
          /\ f.remoteEndpoint = e.remoteEndpoint
          /\ f.forwarding = e.forwarding /\ f.deferred = e.deferred
          /\ f.given = e.given
      BY <3>1, <3>2 DEF Ends
    <3>4. Learned(s, f, o) /\ Passed(f, pipe[s])
      BY <1>4, <3>3 DEF Learned, Passed
    <3>5. QED
      BY <2>3, <3>1, <3>3, <3>4
  <2>4. QED
    BY <1>2, <1>6, <2>1, <2>2, <2>3 DEF HandleSignal
<1>14. PICK f \in Ends :
          /\ Become(s, f)
          /\ Learned(s, f, o) /\ Passed(f, pipe[s])
          /\ f.nat = e.nat
  BY <1>13
<1>15. Announced(signals'[s], o) /\ Announced(signals'[t], f)
  <2>1. Announced(signals[t], f)
    BY <1>1, <1>2, <1>14, Unsignalled
  <2>2. QED
    BY <1>7, <1>9, <2>1
<1>16. QED
  BY <1>1, <1>2, <1>3, <1>9, <1>11, <1>12, <1>14, <1>15, BecomeStep

\* The bind of the public socket settles.
LEMMA LocalBindSettlesKeeps ==
    ASSUME IInv, NEW s \in Sides, NEW result \in BindResults,
           LocalBindSettles(s, result)
    PROVE  IInv'
<1>1. PICK p : p = LocalBound(pipe[s], result)
  OBVIOUS
<1>2. /\ pipe[s] \in Pipes /\ end[s] \in Ends /\ Passed(end[s], pipe[s])
      /\ Learned(s, end[s], end[Peer(s)])
      /\ Carried(wire)
  BY Sided
<1>3. /\ p \in Pipes
      /\ p.publicSocket_ # "none"
      /\ p.transformer_ = pipe[s].transformer_
      /\ p.publicEndpoint = pipe[s].publicEndpoint
      /\ p.browserEndpoint_ = pipe[s].browserEndpoint_
      /\ p.mirrorSockets_ = pipe[s].mirrorSockets_
  <2>1. PICK x : x = CASE result = "bound" -> "bound"
                      [] result = "code" -> "failed"
                      [] result = "rejected" -> "waiting"
    OBVIOUS
  <2>2. x \in {"bound", "failed", "waiting"}
    BY <2>1, ChurnAssumption
  <2>3. p = [pipe[s] EXCEPT !.publicSocket_ = x]
    BY <1>1, <2>1 DEF LocalBound
  <2>4. QED
    BY <1>2, <2>2, <2>3 DEF Pipes
<1>4. /\ pipe[s].publicSocket_ = "binding"
      /\ pipe' = [pipe EXCEPT ![s] = p]
      /\ UNCHANGED <<end, signals, wire, found>>
  BY <1>1 DEF LocalBindSettles
<1>5. end' = [end EXCEPT ![s] = end[s]]
  BY <1>4 DEF IInv, Typed
<1>6. Passed(end[s], p)
  BY <1>2, <1>3, StillPassed
<1>7. /\ pipe[s].publicSocket_ # "none"
      /\ pipe' = [pipe EXCEPT ![s] = p]
      /\ UNCHANGED <<signals, found>>
      /\ Carried(wire')
      /\ \A r \in Endpoints : pipe[s].mirrorSockets_[r] # "none" =>
                                  p.mirrorSockets_[r] # "none"
  BY <1>2, <1>3, <1>4
<1>8. QED
  <2>1. PICK e \in Ends : e = end[s]
    BY <1>2
  <2>2. /\ end' = [end EXCEPT ![s] = e] /\ Passed(e, p)
        /\ Learned(s, e, end[Peer(s)]) /\ e.nat = end[s].nat
    BY <1>2, <1>5, <1>6, <2>1
  <2>3. QED
    BY <1>3, <1>7, <2>2, PipeStep

\* The timer of a bind that was rejected fires.
LEMMA TimerFiresKeeps ==
    ASSUME IInv, NEW s \in Sides, TimerFires(s)
    PROVE  IInv'
<1>1. PICK p : p = [pipe[s] EXCEPT !.publicSocket_ = "stuck"]
  OBVIOUS
<1>2. /\ pipe[s] \in Pipes /\ end[s] \in Ends /\ Passed(end[s], pipe[s])
      /\ Learned(s, end[s], end[Peer(s)])
      /\ Carried(wire)
  BY Sided
<1>3. /\ p \in Pipes
      /\ p.publicSocket_ = "stuck"
      /\ p.transformer_ = pipe[s].transformer_
      /\ p.publicEndpoint = pipe[s].publicEndpoint
      /\ p.browserEndpoint_ = pipe[s].browserEndpoint_
      /\ p.mirrorSockets_ = pipe[s].mirrorSockets_
  BY <1>1, <1>2 DEF Pipes
<1>4. /\ pipe[s].publicSocket_ = "waiting"
      /\ pipe' = [pipe EXCEPT ![s] = p]
      /\ UNCHANGED <<end, signals, wire, found>>
  BY <1>1 DEF TimerFires, RetryTimer
<1>5. end' = [end EXCEPT ![s] = end[s]]
  BY <1>4 DEF IInv, Typed
<1>6. Passed(end[s], p)
  BY <1>2, <1>3, StillPassed
<1>7. QED
  BY <1>2, <1>3, <1>4, <1>5, <1>6, PipeStep

\* A mirror socket in the table is that of a pipe that is set up.
LEMMA MirrorOfSetUp ==
    ASSUME NEW s, NEW e, NEW p, NEW o, NEW r \in Endpoints, SetUp(s, e, p, o),
           p.mirrorSockets_[r] # "none"
    PROVE  p.publicSocket_ # "none"
<1>1. NewPipe.mirrorSockets_[r] = "none"
  BY DEF NewPipe
<1>2. QED
  BY <1>1 DEF SetUp

\* q is p but for what it holds of endpoint r, whose mirror socket is x.
Mirrored(p, r, x, q) ==
    /\ q \in Pipes
    /\ q.publicSocket_ = p.publicSocket_
    /\ q.transformer_ = p.transformer_
    /\ q.publicEndpoint = p.publicEndpoint
    /\ q.browserEndpoint_ = p.browserEndpoint_
    /\ q.mirrorSockets_[r] = x
    /\ \A a \in Endpoints : a # r => q.mirrorSockets_[a] = p.mirrorSockets_[a]

\* What a change of the mirror sockets of p leaves.
LEMMA WithMirrors ==
    ASSUME NEW p \in Pipes, NEW r \in Endpoints,
           NEW x \in {"none", "binding", "bound", "failed"}, NEW h \in BOOLEAN,
           NEW q, q = [p EXCEPT !.mirrorSockets_[r] = x, !.held[r] = h]
    PROVE  Mirrored(p, r, x, q)
<1>1. PICK ms, hs :
         /\ ms = [p.mirrorSockets_ EXCEPT ![r] = x]
         /\ hs = [p.held EXCEPT ![r] = h]
  OBVIOUS
<1>2. /\ p.mirrorSockets_ \in [Endpoints -> {"none", "binding", "bound", "failed"}]
      /\ p.held \in [Endpoints -> BOOLEAN]
  BY DEF Pipes
<1>3. /\ ms \in [Endpoints -> {"none", "binding", "bound", "failed"}]
      /\ ms[r] = x
      /\ \A a \in Endpoints : a # r => ms[a] = p.mirrorSockets_[a]
  BY <1>1, <1>2
<1>4. hs \in [Endpoints -> BOOLEAN]
  BY <1>1, <1>2
<1>5. q = [p EXCEPT !.mirrorSockets_ = ms, !.held = hs]
  BY <1>1, <1>2 DEF Pipes
<1>6. /\ q \in Pipes
      /\ q.publicSocket_ = p.publicSocket_
      /\ q.transformer_ = p.transformer_
      /\ q.publicEndpoint = p.publicEndpoint
      /\ q.browserEndpoint_ = p.browserEndpoint_
      /\ q.mirrorSockets_ = ms
  BY <1>3, <1>4, <1>5 DEF Pipes
<1>7. QED
  BY <1>3, <1>6 DEF Mirrored

\* What waited for the forwarding socket is handled.
LEMMA Forwards ==
    ASSUME NEW e \in Ends, NEW p, NEW q, Passed(e, p), e.remoteEndpoint # None,
           q.mirrorSockets_[e.remoteEndpoint] = "bound"
    PROVE  LET f == Forwarding(e)
           IN  /\ f \in Ends
               /\ f.probing = e.probing /\ f.nat = e.nat
               /\ f.webRtcEndpoint = e.webRtcEndpoint
               /\ f.remoteEndpoint = e.remoteEndpoint
               /\ Passed(f, q)
<1>1. PICK at \in Known, c \in Seq(CandidateLines) :
         at = e.remoteEndpoint /\ c = e.deferred
  <2>1. e.remoteEndpoint \in Known /\ e.deferred \in Seq(CandidateLines)
    BY EndFields
  <2>2. QED
    BY <2>1
<1>2. PICK g : g = Give(e, c, at)
  OBVIOUS
<1>3. PICK m : Gives(e, c, at, g, m)
  BY <1>2, GiveDoes
<1>4. AllAt(e.given \o m, at)
  <2>1. /\ m \in Seq(CandidateLines)
        /\ \A i \in 1 .. Len(m) : m[i].endpoint = at
    BY <1>3 DEF Gives
  <2>2. \A i \in 1 .. Len(e.given) : e.given[i].endpoint = at
    BY <1>1 DEF Passed
  <2>3. QED
    BY <2>1, <2>2, GivenMore
<1>5. PICK r \in Seq(CandidateLines) :
         r = e.given \o m /\ \A i \in 1 .. Len(r) : r[i].endpoint = at
  BY <1>4 DEF AllAt
<1>6. g = [e EXCEPT !.given = r]
  BY <1>3, <1>5 DEF Gives
<1>7. PICK f : f = [g EXCEPT !.forwarding = TRUE, !.deferred = <<>>]
  OBVIOUS
<1>8. f = Forwarding(e)
  BY <1>1, <1>2, <1>7 DEF Forwarding
<1>9. /\ g \in Ends
      /\ g.probing = e.probing /\ g.nat = e.nat
      /\ g.webRtcEndpoint = e.webRtcEndpoint
      /\ g.remoteEndpoint = e.remoteEndpoint
      /\ g.given = r
  BY <1>6 DEF Ends
<1>10. /\ f \in Ends
       /\ f.probing = e.probing /\ f.nat = e.nat
       /\ f.webRtcEndpoint = e.webRtcEndpoint
       /\ f.remoteEndpoint = e.remoteEndpoint
       /\ f.forwarding = TRUE /\ f.deferred = <<>> /\ f.given = r
  <2>1. <<>> \in Seq(CandidateLines)
    OBVIOUS
  <2>2. QED
    BY <1>7, <1>9, <2>1 DEF Ends
<1>11. Passed(f, q)
  BY <1>1, <1>5, <1>10 DEF Passed
<1>12. QED
  BY <1>8, <1>10, <1>11

\* The bind of a mirror socket settles.
LEMMA MirrorBindSettlesKeeps ==
    ASSUME IInv, NEW s \in Sides, NEW r \in Endpoints,
           NEW result \in BindResults,
           MirrorBindSettles(s, r, result)
    PROVE  IInv'
<1>0. PICK o : o = end[Peer(s)]
  OBVIOUS
<1>1. PICK p \in Pipes, e \in Ends :
         p = pipe[s] /\ e = end[s] /\ o = end[Peer(s)]
  BY <1>0, Sided
<1>2. /\ Learned(s, e, o) /\ Passed(e, p) /\ SetUp(s, e, p, o)
      /\ Carried(wire)
  BY <1>1, Sided
<1>3. PICK q : q = MirrorBound(p, r, result)
  OBVIOUS
<1>4. /\ p.mirrorSockets_[r] = "binding"
      /\ pipe' = [pipe EXCEPT ![s] = q]
      /\ UNCHANGED <<end, signals, wire, found>>
  BY <1>1, <1>3 DEF MirrorBindSettles
<1>5. PICK x \in {"bound", "failed"} :
         x = IF result = "bound" THEN "bound" ELSE "failed"
  OBVIOUS
<1>6. /\ q \in Pipes
      /\ q.publicSocket_ = p.publicSocket_
      /\ q.transformer_ = p.transformer_
      /\ q.publicEndpoint = p.publicEndpoint
      /\ q.browserEndpoint_ = p.browserEndpoint_
      /\ q.mirrorSockets_[r] = x
      /\ \A a \in Endpoints : a # r => q.mirrorSockets_[a] = p.mirrorSockets_[a]
  <2>1. q = [p EXCEPT !.mirrorSockets_[r] = x, !.held[r] = FALSE]
    BY <1>3, <1>5 DEF MirrorBound
  <2>2. Mirrored(p, r, x, q)
    BY <2>1, WithMirrors
  <2>3. QED
    BY <2>2 DEF Mirrored
<1>7. p.publicSocket_ # "none"
  BY <1>2, <1>4, MirrorOfSetUp
<1>8. /\ q.publicSocket_ # "none"
      /\ \A a \in Endpoints : p.mirrorSockets_[a] # "none" =>
                                  q.mirrorSockets_[a] # "none"
      /\ \A a \in Endpoints : p.mirrorSockets_[a] = "bound" =>
                                  q.mirrorSockets_[a] = "bound"
  BY <1>4, <1>5, <1>6, <1>7
<1>9. Passed(e, q) /\ end' = [end EXCEPT ![s] = e]
  <2>1. Passed(e, q)
    BY <1>2, <1>8, StillPassed
  <2>2. QED
    BY <1>1, <1>4, <2>1 DEF IInv, Typed
<1>10. Carried(wire')
  BY <1>2, <1>4
<1>11. UNCHANGED <<signals, found>>
  BY <1>4
<1>12. /\ q.transformer_ = pipe[s].transformer_
       /\ q.publicEndpoint = pipe[s].publicEndpoint
       /\ q.browserEndpoint_ = pipe[s].browserEndpoint_
       /\ q.publicSocket_ # "none" /\ pipe[s].publicSocket_ # "none"
       /\ \A a \in Endpoints : pipe[s].mirrorSockets_[a] # "none" =>
                                   q.mirrorSockets_[a] # "none"
       /\ pipe' = [pipe EXCEPT ![s] = q]
       /\ q \in Pipes
  BY <1>1, <1>4, <1>6, <1>7, <1>8
<1>13. Learned(s, e, end[Peer(s)]) /\ e.nat = end[s].nat
  BY <1>1, <1>2
<1>14. QED
  BY <1>9, <1>10, <1>11, <1>12, <1>13, PipeStep

\* getInfo of the mirror socket of the peer settles: what waited is given, or
\* bindRemote is rejected.
LEMMA InfoSettlesKeeps ==
    ASSUME IInv, NEW s \in Sides, NEW result \in {"fulfilled", "rejected"},
           InfoSettles(s, result)
    PROVE  IInv'
<1>0. PICK o : o = end[Peer(s)]
  OBVIOUS
<1>1. PICK p \in Pipes, e \in Ends :
         p = pipe[s] /\ e = end[s] /\ o = end[Peer(s)]
  BY <1>0, Sided
<1>2. /\ Learned(s, e, o) /\ Passed(e, p) /\ SetUp(s, e, p, o)
      /\ Carried(wire)
  BY <1>1, Sided
<1>3. PICK q : q = [p EXCEPT !.info = result]
  OBVIOUS
<1>4. /\ e.remoteEndpoint # None
      /\ p.mirrorSockets_[e.remoteEndpoint] = "bound"
      /\ pipe' = [pipe EXCEPT ![s] = q]
      /\ end' = IF result = "fulfilled"
                THEN [end EXCEPT ![s] = Forwarding(e)] ELSE end
      /\ UNCHANGED <<signals, wire, found>>
  BY <1>1, <1>3 DEF InfoSettles, Asked, Informed
<1>5. /\ q \in Pipes
      /\ q.publicSocket_ = p.publicSocket_
      /\ q.transformer_ = p.transformer_
      /\ q.publicEndpoint = p.publicEndpoint
      /\ q.browserEndpoint_ = p.browserEndpoint_
      /\ q.mirrorSockets_ = p.mirrorSockets_
  BY <1>3 DEF Pipes
<1>6. e.remoteEndpoint \in Endpoints
  BY <1>4 DEF Ends, Known
<1>7. p.publicSocket_ # "none"
  <2>1. p.mirrorSockets_[e.remoteEndpoint] # "none"
    BY <1>4
  <2>2. QED
    BY <1>2, <1>6, <2>1, MirrorOfSetUp
<1>8. PICK f \in Ends :
         /\ end' = [end EXCEPT ![s] = f]
         /\ f.nat = e.nat
         /\ Learned(s, f, o) /\ Passed(f, q)
  <2>1. CASE result = "fulfilled"
    <3>1. PICK f : f = Forwarding(e)
      OBVIOUS
    <3>2. q.mirrorSockets_[e.remoteEndpoint] = "bound"
      BY <1>4, <1>5
    <3>3. /\ f \in Ends
          /\ f.probing = e.probing /\ f.nat = e.nat
          /\ f.webRtcEndpoint = e.webRtcEndpoint
          /\ f.remoteEndpoint = e.remoteEndpoint
          /\ Passed(f, q)
      BY <1>2, <1>4, <3>1, <3>2, Forwards
    <3>4. Learned(s, f, o)
      BY <1>2, <3>3 DEF Learned
    <3>5. QED
      BY <1>4, <2>1, <3>1, <3>3, <3>4
  <2>2. CASE result = "rejected"
    <3>1. Passed(e, q)
      BY <1>2, <1>5, StillPassed
    <3>2. end' = [end EXCEPT ![s] = e]
      BY <1>1, <1>4, <2>2 DEF IInv, Typed
    <3>3. QED
      BY <1>2, <3>1, <3>2
  <2>3. QED
    BY <2>1, <2>2
<1>9. Carried(wire') /\ UNCHANGED <<signals, found>>
  BY <1>2, <1>4
<1>10. /\ q.transformer_ = pipe[s].transformer_
       /\ q.publicEndpoint = pipe[s].publicEndpoint
       /\ q.browserEndpoint_ = pipe[s].browserEndpoint_
       /\ q.publicSocket_ # "none" /\ pipe[s].publicSocket_ # "none"
       /\ \A a \in Endpoints : pipe[s].mirrorSockets_[a] # "none" =>
                                   q.mirrorSockets_[a] # "none"
       /\ pipe' = [pipe EXCEPT ![s] = q]
       /\ q \in Pipes
  BY <1>1, <1>4, <1>5, <1>7
<1>11. /\ Learned(s, f, end[Peer(s)]) /\ f.nat = end[s].nat
       /\ end' = [end EXCEPT ![s] = f] /\ Passed(f, q)
  BY <1>1, <1>8
<1>12. QED
  BY <1>9, <1>10, <1>11, PipeStep

\* WebRTC sends a datagram through the pipe.
LEMMA SendsDatagramKeeps ==
    ASSUME IInv, NEW s \in Sides, SendsDatagram(s)
    PROVE  IInv'
<1>1. PICK to \in Targets(s), from \in Sources(s) :
         /\ Sends(pipe[s], to)
         /\ wire' = wire \cup
                {[from |-> from, to |-> to, obfuscated |-> Obfuscated(pipe[s])]}
         /\ UNCHANGED <<end, pipe, signals, found>>
  BY DEF SendsDatagram
<1>2. /\ SetUp(s, end[s], pipe[s], end[Peer(s)])
      /\ Carried(wire)
  BY Sided
<1>3. Obfuscated(pipe[s])
  BY <1>1, <1>2 DEF Sends, SetUp, Obfuscated
<1>4. from \in Endpoints
  <2>1. end[s] \in Ends /\ At(s, "remapped") \in Endpoints
    BY Sided, Addresses DEF Places
  <2>2. end[s].nat # None => end[s].nat.external \in Endpoints
    BY <2>1, EndFields
  <2>3. QED
    BY <1>1, <2>1, <2>2 DEF Sources
<1>5. Carried(wire')
  BY <1>1, <1>2, <1>3, <1>4 DEF Carried
<1>6. QED
  BY <1>1, <1>5 DEF IInv, Typed, SideInv

\* A datagram arrives.
LEMMA ReceivesKeeps ==
    ASSUME IInv, NEW s \in Sides, NEW d \in wire, Receives(s, d)
    PROVE  IInv'
<1>0. PICK o : o = end[Peer(s)]
  OBVIOUS
<1>1. PICK p \in Pipes, e \in Ends :
         p = pipe[s] /\ e = end[s] /\ o = end[Peer(s)]
  BY <1>0, Sided
<1>2. /\ Learned(s, e, o) /\ Passed(e, p) /\ SetUp(s, e, p, o)
      /\ Carried(wire)
  BY <1>1, Sided
<1>3. PICK r \in Endpoints : r = d.from
  BY <1>2 DEF Carried
<1>4. PICK q : q = Incoming(p, r)
  OBVIOUS
<1>5. /\ p.publicSocket_ = "bound"
      /\ wire' = wire \ {d}
      /\ pipe' = [pipe EXCEPT ![s] = q]
      /\ UNCHANGED <<end, signals, found>>
  BY <1>1, <1>3, <1>4 DEF Receives
<1>6. /\ p.mirrorSockets_[r] \in {"none", "binding", "bound", "failed"}
      /\ p.held[r] \in BOOLEAN
  BY DEF Pipes
<1>7. PICK x \in {"none", "binding", "bound", "failed"}, h \in BOOLEAN :
         /\ x = IF p.mirrorSockets_[r] = "none" THEN "binding"
                ELSE p.mirrorSockets_[r]
         /\ h = (p.held[r] \/ p.mirrorSockets_[r] = "none")
  BY <1>6
<1>8. /\ q \in Pipes
      /\ q.publicSocket_ = p.publicSocket_
      /\ q.transformer_ = p.transformer_
      /\ q.publicEndpoint = p.publicEndpoint
      /\ q.browserEndpoint_ = p.browserEndpoint_
      /\ q.mirrorSockets_[r] = x
      /\ \A a \in Endpoints : a # r => q.mirrorSockets_[a] = p.mirrorSockets_[a]
  <2>1. q = [p EXCEPT !.mirrorSockets_[r] = x, !.held[r] = h]
    BY <1>4, <1>7 DEF Incoming, GetMirrorSocket, Pipes
  <2>2. Mirrored(p, r, x, q)
    BY <2>1, WithMirrors
  <2>3. QED
    BY <2>2 DEF Mirrored
<1>9. /\ \A a \in Endpoints : p.mirrorSockets_[a] # "none" =>
                                  q.mirrorSockets_[a] # "none"
      /\ \A a \in Endpoints : p.mirrorSockets_[a] = "bound" =>
                                  q.mirrorSockets_[a] = "bound"
  BY <1>7, <1>8
<1>10. Passed(e, q)
  BY <1>2, <1>9, StillPassed
<1>11. /\ Carried(wire')
       /\ end' = [end EXCEPT ![s] = e]
  BY <1>1, <1>2, <1>5 DEF IInv, Typed, Carried
<1>12. UNCHANGED <<signals, found>>
  BY <1>5
<1>13. /\ q.transformer_ = pipe[s].transformer_
       /\ q.publicEndpoint = pipe[s].publicEndpoint
       /\ q.browserEndpoint_ = pipe[s].browserEndpoint_
       /\ q.publicSocket_ # "none" /\ pipe[s].publicSocket_ # "none"
       /\ \A a \in Endpoints : pipe[s].mirrorSockets_[a] # "none" =>
                                   q.mirrorSockets_[a] # "none"
       /\ pipe' = [pipe EXCEPT ![s] = q]
       /\ q \in Pipes
  BY <1>1, <1>5, <1>8, <1>9
<1>14. Learned(s, e, end[Peer(s)]) /\ e.nat = end[s].nat
  BY <1>1, <1>2
<1>15. QED
  BY <1>10, <1>11, <1>12, <1>13, <1>14, PipeStep

\* A datagram is lost.
LEMMA LostKeeps ==
    ASSUME IInv, NEW d, Lost(d)
    PROVE  IInv'
BY DEF Lost, IInv, Typed, SideInv, Carried

\* Every step keeps the invariant.
LEMMA NextIInv == IInv /\ [Next]_vars => IInv'
<1> SUFFICES ASSUME IInv, [Next]_vars PROVE IInv'
  OBVIOUS
<1>1. ASSUME NEW s \in Sides, ProbeEnds(s) \/ ProbeClosed(s) \/ Describes(s)
      PROVE  IInv'
  BY <1>1, ProbeEndsKeeps, ProbeClosedKeeps, DescribesKeeps
<1>2. ASSUME NEW s \in Sides, HandleSignal(s)
      PROVE  IInv'
  BY <1>2, HandleSignalKeeps
<1>3. ASSUME NEW s \in Sides, Settles(s)
      PROVE  IInv'
  BY <1>3, TimerFiresKeeps, LocalBindSettlesKeeps, MirrorBindSettlesKeeps,
     InfoSettlesKeeps DEF Settles
<1>4. ASSUME NEW s \in Sides, NEW kind \in ProbeLines, ProbeCandidate(s, kind)
      PROVE  IInv'
  BY <1>4, ProbeCandidateKeeps
<1>5. ASSUME NEW s \in Sides, NEW kind \in Lines, FindsCandidate(s, kind)
      PROVE  IInv'
  BY <1>5, FindsCandidateKeeps
<1>6. ASSUME NEW s \in Sides, SendsDatagram(s)
      PROVE  IInv'
  BY <1>6, SendsDatagramKeeps
<1>7. ASSUME NEW s \in Sides, NEW p \in wire, Receives(s, p)
      PROVE  IInv'
  BY <1>7, ReceivesKeeps
<1>8. ASSUME NEW p \in wire, Lost(p)
      PROVE  IInv'
  BY <1>8, LostKeeps
<1>9. CASE UNCHANGED vars
  BY <1>9 DEF vars, IInv, Typed, SideInv
<1>10. QED
  BY <1>1, <1>2, <1>3, <1>4, <1>5, <1>6, <1>7, <1>8, <1>9 DEF Next

\* The invariant: what an end knows of its peer and what is on its way to it are
\* what the peer's probe came to, and its pipe and its WebRTC have nothing else.
THEOREM Invariance == Spec => []IInv
<1>1. Init => IInv
  BY InitIInv
<1>2. IInv /\ [Next]_vars => IInv'
  BY NextIInv
<1>3. QED
  BY <1>1, <1>2, PTL DEF Spec

\* Whichever of its three endpoints comes last, the pipe of an end is set up
\* with the addresses that both probes came to (churn.ts, the Promise.all).
THEOREM PipesMatch == Spec => []PipeMatches
<1>1. IInv => PipeMatches
  BY DEF IInv, SideInv, SetUp, PipeMatches
<1>2. QED
  BY <1>1, Invariance, PTL

\* WebRTC is given the bound mirror socket of its peer and nothing else, a host
\* candidate that is not IPv6 is signalled without its address (lines of other
\* kinds go out as they are, churn.ts:387-392), and what is on the network is
\* obfuscated.
THEOREM NothingIsBypassed == Spec => []NothingBypasses
<1>1. IInv => NothingBypasses
  <2> SUFFICES ASSUME IInv PROVE NothingBypasses
    OBVIOUS
  <2>1. ASSUME NEW s \in Sides, NEW line \in ToSet(end[s].given)
        PROVE  /\ end[Peer(s)].nat # None
               /\ line.endpoint = end[Peer(s)].nat.external
               /\ pipe[s].mirrorSockets_[line.endpoint] = "bound"
    <3>1. PICK e \in Ends : e = end[s]
      BY Sided
    <3>2. Learned(s, e, end[Peer(s)]) /\ Passed(e, pipe[s])
      BY <3>1, Sided
    <3>3. PICK g \in Seq(CandidateLines) : g = e.given
      BY EndFields
    <3>4. PICK i \in 1 .. Len(g) : line = g[i]
      <4>1. DOMAIN g = 1 .. Len(g)
        OBVIOUS
      <4>2. QED
        BY <2>1, <3>1, <3>3, <4>1 DEF ToSet
    <3>5. e.forwarding /\ line.endpoint = e.remoteEndpoint
      BY <3>2, <3>3, <3>4 DEF Passed
    <3>6. QED
      BY <3>2, <3>5 DEF Passed, Learned
  <2>2. ASSUME NEW s \in Sides, NEW m \in ToSet(signals[s])
        PROVE  m.sdp = {} /\ (m.line.kind = "host" => m.line.endpoint = None)
    <3>1. PICK q \in Seq(Signals) : q = signals[s]
      BY Sided
    <3>2. Announced(q, end[Peer(s)])
      BY <3>1, Sided
    <3>3. PICK i \in 1 .. Len(q) : m = q[i]
      <4>1. DOMAIN q = 1 .. Len(q)
        OBVIOUS
      <4>2. QED
        BY <2>2, <3>1, <4>1 DEF ToSet
    <3>4. QED
      BY <3>2, <3>3 DEF Announced
  <2>3. \A p \in wire : p.obfuscated
    BY DEF IInv, Carried
  <2>4. QED
    BY <2>1, <2>2, <2>3 DEF NothingBypasses
<1>2. QED
  BY <1>1, Invariance, PTL

-----------------------------------------------------------------------------
(* The order of the candidates. *)

AllKinds == {"host", "ipv6", "other"}
UsableKinds == {"host", "ipv6"}
Candidates == {m \in Signals : m.type = "CANDIDATE"}

\* Select of the kinds that WebRTC can use.
LEMMA SelectUsable ==
    ASSUME NEW s \in Seq(AllKinds)
    PROVE  Select(s, IsUsable) = Keep(s, UsableKinds)
<1> DEFINE pick[n \in 0 .. Len(s)] ==
               IF n = 0 THEN <<>>
               ELSE IF IsUsable(s[n]) THEN Append(pick[n - 1], s[n])
               ELSE pick[n - 1]
<1>1. Select(s, IsUsable) = pick[Len(s)]
  BY DEF Select
<1>2. PICK l \in Nat : l = Len(s)
  OBVIOUS
<1>3. \A n \in 1 .. l : IsUsable(s[n]) <=> s[n] \in UsableKinds
  <2>1. \A n \in 1 .. l : s[n] \in AllKinds
    BY <1>2
  <2>2. QED
    BY <2>1 DEF IsUsable, UsableKinds, AllKinds
<1>4. PICK f : f = [n \in 0 .. l |->
                      IF n = 0 THEN <<>>
                      ELSE IF s[n] \in UsableKinds THEN Append(f[n - 1], s[n])
                      ELSE f[n - 1]]
  <2>1. \E f : f = [n \in 0 .. Len(s) |->
                       IF n = 0 THEN <<>>
                       ELSE IF s[n] \in UsableKinds THEN Append(f[n - 1], s[n])
                       ELSE f[n - 1]]
    BY PickExists
  <2>2. QED
    BY <1>2, <2>1
<1>5. \A n \in 0 .. l : n # 0 => n \in 1 .. l
  OBVIOUS
<1>6. f = [n \in 0 .. l |->
             IF n = 0 THEN <<>>
             ELSE IF IsUsable(s[n]) THEN Append(f[n - 1], s[n])
             ELSE f[n - 1]]
  BY <1>3, <1>4, <1>5
<1>7. pick = [n \in 0 .. l |->
                IF n = 0 THEN <<>>
                ELSE IF IsUsable(s[n]) THEN Append(pick[n - 1], s[n])
                ELSE pick[n - 1]]
  BY <1>2, <1>6, Zenon DEF pick
<1> HIDE DEF pick
<1>8. Picks(pick, s, UsableKinds)
  <2>1. \A n \in 1 .. l : n \in 0 .. l /\ n # 0
    OBVIOUS
  <2>2. 0 \in 0 .. l
    OBVIOUS
  <2>3. QED
    BY <1>2, <1>3, <1>7, <2>1, <2>2, Zenon DEF Picks
<1>9. PICK g : Picks(g, s, UsableKinds) /\ Keep(s, UsableKinds) = g[l]
  BY <1>2, KeepPicks
<1>10. pick[l] = g[l]
  <2>1. Len(s) \in Nat /\ l <= Len(s)
    BY <1>2
  <2>2. QED
    BY <1>8, <1>9, <2>1, PicksAgree
<1>11. QED
  BY <1>1, <1>2, <1>9, <1>10

\* Select of the candidates among signals.
LEMMA SelectCandidates ==
    ASSUME NEW s \in Seq(Signals)
    PROVE  Select(s, IsCandidate) = Keep(s, Candidates)
<1> DEFINE pick[n \in 0 .. Len(s)] ==
               IF n = 0 THEN <<>>
               ELSE IF IsCandidate(s[n]) THEN Append(pick[n - 1], s[n])
               ELSE pick[n - 1]
<1>1. Select(s, IsCandidate) = pick[Len(s)]
  BY DEF Select
<1>2. PICK l \in Nat : l = Len(s)
  OBVIOUS
<1>3. \A n \in 1 .. l : IsCandidate(s[n]) <=> s[n] \in Candidates
  <2>1. \A n \in 1 .. l : s[n] \in Signals
    BY <1>2
  <2>2. QED
    BY <2>1 DEF IsCandidate, Candidates
<1>4. PICK f : f = [n \in 0 .. l |->
                      IF n = 0 THEN <<>>
                      ELSE IF s[n] \in Candidates THEN Append(f[n - 1], s[n])
                      ELSE f[n - 1]]
  <2>1. \E f : f = [n \in 0 .. Len(s) |->
                       IF n = 0 THEN <<>>
                       ELSE IF s[n] \in Candidates THEN Append(f[n - 1], s[n])
                       ELSE f[n - 1]]
    BY PickExists
  <2>2. QED
    BY <1>2, <2>1
<1>5. \A n \in 0 .. l : n # 0 => n \in 1 .. l
  OBVIOUS
<1>6. f = [n \in 0 .. l |->
             IF n = 0 THEN <<>>
             ELSE IF IsCandidate(s[n]) THEN Append(f[n - 1], s[n])
             ELSE f[n - 1]]
  BY <1>3, <1>4, <1>5
<1>7. pick = [n \in 0 .. l |->
                IF n = 0 THEN <<>>
                ELSE IF IsCandidate(s[n]) THEN Append(pick[n - 1], s[n])
                ELSE pick[n - 1]]
  BY <1>2, <1>6, Zenon DEF pick
<1> HIDE DEF pick
<1>8. Picks(pick, s, Candidates)
  <2>1. \A n \in 1 .. l : n \in 0 .. l /\ n # 0
    OBVIOUS
  <2>2. 0 \in 0 .. l
    OBVIOUS
  <2>3. QED
    BY <1>2, <1>3, <1>7, <2>1, <2>2, Zenon DEF Picks
<1>9. PICK g : Picks(g, s, Candidates) /\ Keep(s, Candidates) = g[l]
  BY <1>2, KeepPicks
<1>10. pick[l] = g[l]
  <2>1. Len(s) \in Nat /\ l <= Len(s)
    BY <1>2
  <2>2. QED
    BY <1>8, <1>9, <2>1, PicksAgree
<1>11. QED
  BY <1>1, <1>2, <1>9, <1>10

\* The values of function F at the elements of s.
Mapped(s, F) == [i \in DOMAIN s |-> F[s[i]]]

\* r is the sequence of the values, in U.
Values(r, s, F, U) ==
    /\ r \in Seq(U)
    /\ Len(r) = Len(s)
    /\ \A i \in 1 .. Len(s) : r[i] = F[s[i]]

\* That is what Mapped is.
LEMMA MapType ==
    ASSUME NEW T, NEW U, NEW F \in [T -> U], NEW s \in Seq(T)
    PROVE  Values(Mapped(s, F), s, F, U)
<1>1. PICK l \in Nat : l = Len(s)
  OBVIOUS
<1>2. DOMAIN s = 1 .. l /\ \A i \in 1 .. l : s[i] \in T
  BY <1>1
<1>3. PICK r : r = Mapped(s, F)
  OBVIOUS
<1>4. r = [i \in 1 .. l |-> F[s[i]]]
  BY <1>2, <1>3 DEF Mapped
<1>5. \A i \in 1 .. l : F[s[i]] \in U
  BY <1>2
<1>6. /\ r \in Seq(U) /\ Len(r) = l
      /\ \A i \in 1 .. l : r[i] = F[s[i]]
  BY <1>4, <1>5
<1>7. QED
  BY <1>1, <1>3, <1>6 DEF Values

\* One value more.
LEMMA MapAppend ==
    ASSUME NEW T, NEW U, NEW F \in [T -> U], NEW s \in Seq(T), NEW x \in T
    PROVE  Mapped(Append(s, x), F) = Append(Mapped(s, F), F[x])
<1>1. PICK l \in Nat : l = Len(s)
  OBVIOUS
<1>2. PICK t : t = Append(s, x)
  OBVIOUS
<1>3. /\ t \in Seq(T) /\ Len(t) = l + 1 /\ t[l + 1] = x
      /\ \A i \in 1 .. l : t[i] = s[i]
  BY <1>1, <1>2
<1>4. PICK a : a = Mapped(s, F) /\ Values(a, s, F, U)
  BY MapType
<1>5. PICK b : b = Mapped(t, F) /\ Values(b, t, F, U)
  BY <1>3, MapType
<1>6. a \in Seq(U) /\ Len(a) = l /\ \A i \in 1 .. l : a[i] = F[s[i]]
  BY <1>1, <1>4 DEF Values
<1>7. b \in Seq(U) /\ Len(b) = l + 1 /\ \A i \in 1 .. l + 1 : b[i] = F[t[i]]
  BY <1>3, <1>5 DEF Values
<1>8. PICK c : c = Append(a, F[x])
  OBVIOUS
<1>9. /\ c \in Seq(U) /\ Len(c) = l + 1 /\ c[l + 1] = F[x]
      /\ \A i \in 1 .. l : c[i] = a[i]
  <2>1. F[x] \in U
    OBVIOUS
  <2>2. QED
    BY <1>6, <1>8, <2>1
<1>10. ASSUME NEW i \in 1 .. l + 1
       PROVE  b[i] = c[i]
  <2>1. CASE i \in 1 .. l
    BY <1>3, <1>6, <1>7, <1>9, <2>1
  <2>2. CASE i = l + 1
    BY <1>3, <1>7, <1>9, <2>2
  <2>3. QED
    BY <2>1, <2>2
<1>11. b = c
  <2>1. Len(b) = Len(c) /\ \A i \in 1 .. Len(b) : b[i] = c[i]
    BY <1>7, <1>9, <1>10
  <2>2. QED
    BY <1>7, <1>9, <2>1, SeqEqual
<1>12. QED
  BY <1>2, <1>4, <1>5, <1>8, <1>11

\* The values of a concatenation.
LEMMA MapConcat ==
    ASSUME NEW T, NEW U, NEW F \in [T -> U], NEW s \in Seq(T), NEW t \in Seq(T)
    PROVE  Mapped(s \o t, F) = Mapped(s, F) \o Mapped(t, F)
<1>1. PICK l \in Nat, m \in Nat : l = Len(s) /\ m = Len(t)
  OBVIOUS
<1>2. PICK u : u = s \o t
  OBVIOUS
<1>3. /\ u \in Seq(T) /\ Len(u) = l + m
      /\ \A i \in 1 .. l + m : u[i] = IF i <= l THEN s[i] ELSE t[i - l]
  <2>1. /\ u \in Seq(T)
        /\ Len(u) = Len(s) + Len(t)
        /\ \A i \in 1 .. Len(s) + Len(t) :
              u[i] = IF i <= Len(s) THEN s[i] ELSE t[i - Len(s)]
    BY <1>2, ConcatProperties
  <2>2. QED
    BY <1>1, <2>1
<1>4. PICK a, b : /\ a = Mapped(s, F) /\ Values(a, s, F, U)
                  /\ b = Mapped(t, F) /\ Values(b, t, F, U)
  BY MapType
<1>5. PICK v : v = Mapped(u, F) /\ Values(v, u, F, U)
  BY <1>3, MapType
<1>6. /\ a \in Seq(U) /\ Len(a) = l /\ \A i \in 1 .. l : a[i] = F[s[i]]
      /\ b \in Seq(U) /\ Len(b) = m /\ \A i \in 1 .. m : b[i] = F[t[i]]
  BY <1>1, <1>4 DEF Values
<1>7. v \in Seq(U) /\ Len(v) = l + m /\ \A i \in 1 .. l + m : v[i] = F[u[i]]
  BY <1>3, <1>5 DEF Values
<1>8. PICK w : w = a \o b
  OBVIOUS
<1>9. /\ w \in Seq(U) /\ Len(w) = l + m
      /\ \A i \in 1 .. l + m : w[i] = IF i <= l THEN a[i] ELSE b[i - l]
  <2>1. /\ w \in Seq(U)
        /\ Len(w) = Len(a) + Len(b)
        /\ \A i \in 1 .. Len(a) + Len(b) :
              w[i] = IF i <= Len(a) THEN a[i] ELSE b[i - Len(a)]
    <3>1. PICK c \in Seq(U), d \in Seq(U) : c = a /\ d = b
      BY <1>6
    <3>2. /\ c \o d \in Seq(U)
          /\ Len(c \o d) = Len(c) + Len(d)
          /\ \A i \in 1 .. Len(c) + Len(d) :
                (c \o d)[i] = IF i <= Len(c) THEN c[i] ELSE d[i - Len(c)]
      BY ConcatProperties
    <3>3. QED
      BY <1>8, <3>1, <3>2
  <2>2. QED
    BY <1>6, <2>1
<1>10. \A i \in 1 .. l + m : /\ i <= l => i \in 1 .. l
                             /\ ~ (i <= l) => i - l \in 1 .. m
  OBVIOUS
<1>11. ASSUME NEW i \in 1 .. l + m
       PROVE  v[i] = w[i]
  <2>1. v[i] = F[u[i]]
    BY <1>7
  <2>2. CASE i <= l
    <3>1. u[i] = s[i] /\ w[i] = a[i] /\ i \in 1 .. l
      BY <1>3, <1>9, <1>10, <2>2
    <3>2. a[i] = F[s[i]]
      BY <1>6, <3>1
    <3>3. QED
      BY <2>1, <3>1, <3>2
  <2>3. CASE ~ (i <= l)
    <3>1. PICK k \in 1 .. m : k = i - l
      BY <1>10, <2>3
    <3>2. u[i] = t[k] /\ w[i] = b[k]
      BY <1>3, <1>9, <2>3, <3>1
    <3>3. b[k] = F[t[k]]
      BY <1>6
    <3>4. QED
      BY <2>1, <3>2, <3>3
  <2>4. QED
    BY <2>2, <2>3
<1>12. v = w
  <2>1. Len(v) = Len(w) /\ \A i \in 1 .. Len(v) : v[i] = w[i]
    BY <1>7, <1>9, <1>11
  <2>2. QED
    BY <1>7, <1>9, <2>1, SeqEqual
<1>13. QED
  BY <1>2, <1>4, <1>5, <1>8, <1>12

\* F takes the elements of T that are in S, and no others, into R.
Matches(T, S, F, R) == \A x \in T : x \in S <=> F[x] \in R

\* The values of what is kept of s are what is kept of its values.
Commutes(s, S, F, R) == Mapped(Keep(s, S), F) = Keep(Mapped(s, F), R)

\* So they are, when F matches S with R.
LEMMA KeepMap ==
    ASSUME NEW T, NEW U, NEW F \in [T -> U], NEW s \in Seq(T), NEW S, NEW R,
           Matches(T, S, F, R)
    PROVE  Commutes(s, S, F, R)
<1>1. PICK l \in Nat : l = Len(s)
  OBVIOUS
<1>2. PICK t : t = Mapped(s, F) /\ Values(t, s, F, U)
  BY MapType
<1>3. t \in Seq(U) /\ Len(t) = l /\ \A i \in 1 .. l : t[i] = F[s[i]]
  BY <1>1, <1>2 DEF Values
<1>4. \A i \in 1 .. l : s[i] \in T
  BY <1>1
<1>5. PICK f : Picks(f, s, S) /\ Keep(s, S) = f[l]
  BY <1>1, KeepPicks
<1>6. PICK g : Picks(g, t, R) /\ Keep(t, R) = g[l]
  BY <1>3, KeepPicks
<1> DEFINE Q(n) == f[n] \in Seq(T) /\ Mapped(f[n], F) = g[n]
<1>7. Q(0)
  <2>1. f[0] = <<>> /\ g[0] = <<>> /\ <<>> \in Seq(T)
    BY <1>5, <1>6 DEF Picks
  <2>2. PICK a : a = Mapped(<<>>, F)
    OBVIOUS
  <2>3. a \in Seq(U) /\ Len(a) = 0
    <3>1. Values(a, <<>>, F, U)
      BY <2>1, <2>2, MapType
    <3>2. Len(<<>>) = 0
      OBVIOUS
    <3>3. QED
      BY <3>1, <3>2 DEF Values
  <2>4. a = <<>>
    BY <2>3
  <2>5. QED
    BY <2>1, <2>2, <2>4
<1>8. ASSUME NEW n \in Nat, n + 1 <= l, Q(n)
      PROVE  Q(n + 1)
  <2>1. n + 1 \in 1 .. l /\ (n + 1) - 1 = n
    <3> HIDE DEF Q
    <3>1. QED
      BY <1>8
  <2>2. PICK x \in T : x = s[n + 1]
    BY <1>4, <2>1
  <2>3. t[n + 1] = F[x]
    BY <1>3, <2>1, <2>2
  <2>4. f[n + 1] = IF x \in S THEN Append(f[n], x) ELSE f[n]
    BY <1>1, <1>5, <2>1, <2>2 DEF Picks
  <2>5. g[n + 1] = IF F[x] \in R THEN Append(g[n], F[x]) ELSE g[n]
    BY <1>3, <1>6, <2>1, <2>3 DEF Picks
  <2>6. f[n] \in Seq(T) /\ Mapped(f[n], F) = g[n]
    BY <1>8, Zenon
  <2>7. PICK a \in Seq(T) : a = f[n]
    BY <2>6
  <2>8. Mapped(Append(a, x), F) = Append(Mapped(a, F), F[x])
    BY MapAppend
  <2>9. Append(a, x) \in Seq(T)
    OBVIOUS
  <2>10. x \in S <=> F[x] \in R
    BY DEF Matches
  <2>11. CASE x \in S
    <3>1. f[n + 1] = Append(a, x) /\ g[n + 1] = Append(Mapped(a, F), F[x])
      BY <2>4, <2>5, <2>6, <2>7, <2>10, <2>11
    <3>2. QED
      BY <2>8, <2>9, <3>1
  <2>12. CASE x \notin S
    <3>1. f[n + 1] = f[n] /\ g[n + 1] = g[n]
      BY <2>4, <2>5, <2>10, <2>12
    <3>2. QED
      BY <2>6, <3>1
  <2>13. QED
    BY <2>11, <2>12
<1>9. Q(l)
  <2> HIDE DEF Q
  <2> DEFINE N == {n \in Nat : n <= l => Q(n)}
  <2>1. 0 \in N
    BY <1>7
  <2>2. \A n \in Nat : n \in N => n + 1 \in N
    BY <1>8
  <2> HIDE DEF N
  <2>3. Nat \subseteq N
    BY <2>1, <2>2, Induction
  <2>4. QED
    BY <2>3 DEF N
<1>10. Mapped(f[l], F) = g[l]
  BY <1>9, Zenon
<1>11. QED
  BY <1>2, <1>5, <1>6, <1>10 DEF Commutes

KindOf == [line \in CandidateLines |-> line.kind]
KindIn == [m \in Signals |-> m.line.kind]

\* The kinds of candidates, of those that can be used, and of those among
\* signals.
Has(lines) == Mapped(lines, KindOf)
Waiting(lines) == Keep(Has(lines), UsableKinds)
Coming(q) == Keep(Mapped(Keep(q, Candidates), KindIn), UsableKinds)
Alone(kind) == IF kind \in UsableKinds THEN <<kind>> ELSE <<>>

\* What signal m adds.
Brings(m) == IF m.type = "CANDIDATE" THEN Alone(m.line.kind) ELSE <<>>

\* The types of these.
LEMMA KindTypes ==
    /\ KindOf \in [CandidateLines -> AllKinds]
    /\ KindIn \in [Signals -> AllKinds]
    /\ \A kind \in AllKinds : Alone(kind) \in Seq(AllKinds)
    /\ \A m \in Signals : Brings(m) \in Seq(AllKinds)
<1>1. \A line \in CandidateLines : line.kind \in AllKinds
  BY DEF CandidateLines, AllKinds
<1>2. \A m \in Signals : m.line.kind \in AllKinds
  BY <1>1 DEF Signals
<1>3. \A kind \in AllKinds : Alone(kind) \in Seq(AllKinds)
  BY DEF Alone
<1>4. <<>> \in Seq(AllKinds)
  OBVIOUS
<1>5. \A m \in Signals : Brings(m) \in Seq(AllKinds)
  BY <1>2, <1>3, <1>4 DEF Brings
<1>6. QED
  BY <1>1, <1>2, <1>3, <1>5 DEF KindOf, KindIn

\* The kinds of lines are a sequence of kinds.
LEMMA HasType ==
    ASSUME NEW lines \in Seq(CandidateLines)
    PROVE  Has(lines) \in Seq(AllKinds) /\ Waiting(lines) \in Seq(AllKinds)
<1>1. PICK h : h = Has(lines) /\ Values(h, lines, KindOf, AllKinds)
  BY KindTypes, MapType DEF Has
<1>2. h \in Seq(AllKinds)
  BY <1>1 DEF Values
<1>3. Keep(h, UsableKinds) \in Seq(AllKinds)
  BY <1>2, KeepType
<1>4. QED
  BY <1>1, <1>2, <1>3 DEF Waiting

\* So are those of signals.
LEMMA ComingType ==
    ASSUME NEW q \in Seq(Signals)
    PROVE  Coming(q) \in Seq(AllKinds)
<1>1. PICK c \in Seq(Signals) : c = Keep(q, Candidates)
  BY KeepType
<1>2. PICK h : h = Mapped(c, KindIn) /\ Values(h, c, KindIn, AllKinds)
  BY KindTypes, MapType
<1>3. h \in Seq(AllKinds)
  BY <1>2 DEF Values
<1>4. Keep(h, UsableKinds) \in Seq(AllKinds)
  BY <1>3, KeepType
<1>5. QED
  BY <1>1, <1>2, <1>4 DEF Coming

\* One element more, as a concatenation.
LEMMA KeepOneMore ==
    ASSUME NEW k \in Seq(AllKinds), NEW kind \in AllKinds
    PROVE  Keep(Append(k, kind), UsableKinds) =
               Keep(k, UsableKinds) \o Alone(kind)
<1>1. Keep(Append(k, kind), UsableKinds) =
         IF kind \in UsableKinds THEN Append(Keep(k, UsableKinds), kind)
         ELSE Keep(k, UsableKinds)
  BY KeepAppend
<1>2. PICK a \in Seq(AllKinds) : a = Keep(k, UsableKinds)
  BY KeepType
<1>3. Append(a, kind) = a \o <<kind>>
  BY AppendIsConcat
<1>4. a \o <<>> = a
  BY ConcatEmptySeq
<1>5. QED
  BY <1>1, <1>2, <1>3, <1>4 DEF Alone

\* What can be used of a concatenation.
LEMMA KeepMore ==
    ASSUME NEW k \in Seq(AllKinds), NEW l \in Seq(AllKinds)
    PROVE  Keep(k \o l, UsableKinds) = Keep(k, UsableKinds) \o Keep(l, UsableKinds)
BY KeepConcat

\* The candidates of a concatenation.
LEMMA KeepCandidates ==
    ASSUME NEW q \in Seq(Signals), NEW r \in Seq(Signals)
    PROVE  Keep(q \o r, Candidates) = Keep(q, Candidates) \o Keep(r, Candidates)
BY KeepConcat

\* One line more waits.
LEMMA WaitingMore ==
    ASSUME NEW lines \in Seq(CandidateLines), NEW line \in CandidateLines
    PROVE  Waiting(Append(lines, line)) = Waiting(lines) \o Alone(line.kind)
<1>1. Has(Append(lines, line)) = Append(Has(lines), KindOf[line])
  BY KindTypes, MapAppend DEF Has
<1>2. PICK kind \in AllKinds : kind = line.kind /\ kind = KindOf[line]
  BY DEF CandidateLines, AllKinds, KindOf
<1>3. PICK k \in Seq(AllKinds) : k = Has(lines)
  BY HasType
<1>4. Keep(Append(k, kind), UsableKinds) = Keep(k, UsableKinds) \o Alone(kind)
  BY KeepOneMore
<1>5. QED
  BY <1>1, <1>2, <1>3, <1>4 DEF Waiting

\* Of no lines there are no kinds.
LEMMA NothingHas == Has(<<>>) = <<>>
<1>1. <<>> \in Seq(CandidateLines)
  OBVIOUS
<1>2. PICK h : h = Has(<<>>) /\ Values(h, <<>>, KindOf, AllKinds)
  BY <1>1, KindTypes, MapType DEF Has
<1>3. h \in Seq(AllKinds) /\ Len(h) = 0
  <2>1. Len(<<>>) = 0
    OBVIOUS
  <2>2. QED
    BY <1>2, <2>1 DEF Values
<1>4. h = <<>>
  BY <1>3
<1>5. QED
  BY <1>2, <1>4

\* Nothing waits.
LEMMA NothingWaits == Waiting(<<>>) = <<>>
BY NothingHas, KeepEmpty DEF Waiting

\* Nothing comes.
LEMMA NothingComes == Coming(<<>>) = <<>>
<1>1. PICK none \in Seq(Signals) : none = <<>>
  <2>1. <<>> \in Seq(Signals)
    OBVIOUS
  <2>2. QED
    BY <2>1
<1>2. Keep(none, Candidates) = none
  BY <1>1, KeepEmpty
<1>3. PICK v : v = Mapped(none, KindIn) /\ Values(v, none, KindIn, AllKinds)
  BY KindTypes, MapType
<1>4. v \in Seq(AllKinds) /\ Len(v) = 0
  <2>1. Len(none) = 0
    BY <1>1
  <2>2. QED
    BY <1>3, <2>1 DEF Values
<1>5. v = <<>>
  BY <1>4
<1>6. QED
  BY <1>1, <1>2, <1>3, <1>5, KeepEmpty DEF Coming

\* A line on its own.
LEMMA WaitingAlone ==
    ASSUME NEW line \in CandidateLines
    PROVE  Waiting(<<line>>) = Alone(line.kind)
<1>1. <<>> \in Seq(CandidateLines)
  OBVIOUS
<1>2. Waiting(Append(<<>>, line)) = Waiting(<<>>) \o Alone(line.kind)
  BY <1>1, WaitingMore
<1>3. PICK a \in Seq(AllKinds) : a = Alone(line.kind)
  BY KindTypes DEF CandidateLines, AllKinds
<1>4. <<>> \o a = a
  BY ConcatEmptySeq
<1>5. Append(<<>>, line) = <<line>>
  OBVIOUS
<1>6. QED
  BY <1>2, <1>3, <1>4, <1>5, NothingWaits

\* One signal more comes.
LEMMA ComingMore ==
    ASSUME NEW q \in Seq(Signals), NEW m \in Signals
    PROVE  Coming(Append(q, m)) = Coming(q) \o Brings(m)
<1>1. PICK c \in Seq(Signals) : c = Keep(q, Candidates)
  BY KeepType
<1>2. PICK d : d = Keep(Append(q, m), Candidates)
  OBVIOUS
<1>3. d = IF m \in Candidates THEN Append(c, m) ELSE c
  BY <1>1, <1>2, KeepAppend
<1>4. PICK h : h = Mapped(c, KindIn) /\ Values(h, c, KindIn, AllKinds)
  BY KindTypes, MapType
<1>5. h \in Seq(AllKinds)
  BY <1>4 DEF Values
<1>6. PICK kind \in AllKinds : kind = m.line.kind /\ kind = KindIn[m]
  BY DEF Signals, CandidateLines, AllKinds, KindIn
<1>7. Coming(q) = Keep(h, UsableKinds) /\ Coming(q) \in Seq(AllKinds)
  BY <1>1, <1>4, ComingType DEF Coming
<1>8. Coming(Append(q, m)) = Keep(Mapped(d, KindIn), UsableKinds)
  BY <1>2 DEF Coming
<1>9. CASE m.type = "CANDIDATE"
  <2>1. d = Append(c, m) /\ Brings(m) = Alone(kind)
    BY <1>3, <1>6, <1>9 DEF Candidates, Brings
  <2>2. Mapped(Append(c, m), KindIn) = Append(h, kind)
    <3>1. PICK F \in [Signals -> AllKinds] : F = KindIn
      BY KindTypes
    <3>2. Mapped(Append(c, m), F) = Append(Mapped(c, F), F[m])
      BY MapAppend
    <3>3. QED
      BY <1>4, <1>6, <3>1, <3>2
  <2>3. Keep(Append(h, kind), UsableKinds) = Keep(h, UsableKinds) \o Alone(kind)
    BY <1>5, KeepOneMore
  <2>4. QED
    BY <1>7, <1>8, <2>1, <2>2, <2>3
<1>10. CASE m.type # "CANDIDATE"
  <2>1. d = c /\ Brings(m) = <<>>
    BY <1>3, <1>10 DEF Candidates, Brings
  <2>2. Coming(q) \o <<>> = Coming(q)
    BY <1>7, ConcatEmptySeq
  <2>3. QED
    BY <1>4, <1>7, <1>8, <2>1, <2>2
<1>11. QED
  BY <1>9, <1>10

\* The first signal is taken.
LEMMA ComingFirst ==
    ASSUME NEW q \in Seq(Signals), q # <<>>
    PROVE  /\ Tail(q) \in Seq(Signals)
           /\ Head(q) \in Signals
           /\ Coming(q) = Brings(Head(q)) \o Coming(Tail(q))
<1>1. PICK m \in Signals, r \in Seq(Signals) : m = Head(q) /\ r = Tail(q)
  <2>1. Head(q) \in Signals /\ Tail(q) \in Seq(Signals)
    OBVIOUS
  <2>2. QED
    BY <2>1
<1>2. PICK one \in Seq(Signals) : one = <<m>>
  <2>1. <<m>> \in Seq(Signals)
    OBVIOUS
  <2>2. QED
    BY <2>1
<1>3. one \o r = q
  <2>1. PICK l \in Nat : l = Len(q)
    OBVIOUS
  <2>2. /\ l > 0 /\ Len(r) = l - 1 /\ m = q[1]
        /\ \A i \in 1 .. l - 1 : r[i] = q[i + 1]
    BY <1>1, <2>1
  <2>3. PICK u : u = one \o r
    OBVIOUS
  <2>4. /\ u \in Seq(Signals) /\ Len(u) = Len(one) + Len(r)
        /\ \A i \in 1 .. Len(one) + Len(r) :
              u[i] = IF i <= Len(one) THEN one[i] ELSE r[i - Len(one)]
    BY <2>3, ConcatProperties
  <2>5. Len(one) = 1 /\ one[1] = m
    BY <1>2
  <2>6. ASSUME NEW i \in 1 .. l
        PROVE  u[i] = q[i]
    <3>1. CASE i = 1
      BY <2>2, <2>4, <2>5, <3>1
    <3>2. CASE i # 1
      <4>1. i - 1 \in 1 .. l - 1 /\ (i - 1) + 1 = i /\ ~ (i <= 1)
        BY <3>2
      <4>2. r[i - 1] = q[i]
        BY <2>2, <4>1
      <4>3. QED
        BY <2>2, <2>4, <2>5, <4>1, <4>2
    <3>3. QED
      BY <3>1, <3>2
  <2>7. Len(u) = l
    BY <2>2, <2>4, <2>5
  <2>8. Len(u) = Len(q) /\ \A i \in 1 .. Len(u) : u[i] = q[i]
    BY <2>1, <2>6, <2>7
  <2>9. QED
    BY <2>3, <2>4, <2>8, SeqEqual
<1>4. PICK a \in Seq(Signals), b \in Seq(Signals) :
         a = Keep(one, Candidates) /\ b = Keep(r, Candidates)
  BY KeepType
<1>5. Keep(q, Candidates) = a \o b
  <2>1. Keep(one \o r, Candidates) = Keep(one, Candidates) \o Keep(r, Candidates)
    BY KeepCandidates
  <2>2. QED
    BY <1>3, <1>4, <2>1
<1>6. PICK h, k : /\ h = Mapped(a, KindIn) /\ Values(h, a, KindIn, AllKinds)
                  /\ k = Mapped(b, KindIn) /\ Values(k, b, KindIn, AllKinds)
  BY KindTypes, MapType
<1>7. h \in Seq(AllKinds) /\ k \in Seq(AllKinds)
  BY <1>6 DEF Values
<1>8. Mapped(a \o b, KindIn) = h \o k
  BY <1>6, KindTypes, MapConcat
<1>9. Keep(h \o k, UsableKinds) = Keep(h, UsableKinds) \o Keep(k, UsableKinds)
  BY <1>7, KeepMore
<1>10. Coming(q) = Coming(one) \o Coming(r)
  BY <1>4, <1>5, <1>6, <1>8, <1>9 DEF Coming
<1>11. Coming(one) = Brings(m)
  <2>1. PICK none \in Seq(Signals) : none = <<>>
    <3>1. <<>> \in Seq(Signals)
      OBVIOUS
    <3>2. QED
      BY <3>1
  <2>2. Coming(Append(none, m)) = Coming(none) \o Brings(m)
    BY ComingMore
  <2>3. Append(none, m) = one
    BY <1>2, <2>1
  <2>4. Coming(none) = <<>>
    BY <2>1, NothingComes
  <2>5. PICK x \in Seq(AllKinds) : x = Brings(m)
    BY KindTypes
  <2>6. <<>> \o x = x
    BY ConcatEmptySeq
  <2>7. QED
    BY <2>2, <2>3, <2>4, <2>5, <2>6
<1>12. QED
  BY <1>1, <1>10, <1>11

\* The kinds of the lines that can be rewritten are those that can be used.
LEMMA WaitingMapped ==
    ASSUME NEW lines \in Seq(CandidateLines)
    PROVE  Mapped(Keep(lines, Hosts), KindOf) = Waiting(lines)
<1>1. PICK F \in [CandidateLines -> AllKinds] : F = KindOf
  BY KindTypes
<1>2. Matches(CandidateLines, Hosts, F, UsableKinds)
  BY <1>1 DEF Matches, KindOf, Hosts, UsableKinds, CandidateLines
<1>3. Commutes(lines, Hosts, F, UsableKinds)
  BY <1>2, KeepMap
<1>4. QED
  BY <1>1, <1>3 DEF Commutes, Has, Waiting

\* What WebRTC is given.
LEMMA HasGiven ==
    ASSUME NEW e \in Ends, NEW lines \in Seq(CandidateLines), NEW at, NEW f, NEW m,
           Gives(e, lines, at, f, m)
    PROVE  Has(f.given) = Has(e.given) \o Waiting(lines)
<1>1. m \in Seq(CandidateLines) /\ f.given = e.given \o m
  BY DEF Gives, Ends
<1>2. PICK c \in Seq(CandidateLines) : c = Keep(lines, Hosts)
  BY KeepType
<1>3. PICK l \in Nat : l = Len(c)
  OBVIOUS
<1>4. Len(m) = l /\ \A i \in 1 .. l : m[i].kind = c[i].kind
  BY <1>2, <1>3 DEF Gives
<1>5. PICK h, k : /\ h = Has(m) /\ Values(h, m, KindOf, AllKinds)
                  /\ k = Has(c) /\ Values(k, c, KindOf, AllKinds)
  BY <1>1, KindTypes, MapType DEF Has
<1>6. /\ h \in Seq(AllKinds) /\ Len(h) = l /\ \A i \in 1 .. l : h[i] = KindOf[m[i]]
      /\ k \in Seq(AllKinds) /\ Len(k) = l /\ \A i \in 1 .. l : k[i] = KindOf[c[i]]
  BY <1>3, <1>4, <1>5 DEF Values
<1>7. \A i \in 1 .. l : m[i] \in CandidateLines /\ c[i] \in CandidateLines
  BY <1>1, <1>3, <1>4
<1>8. \A x \in CandidateLines : KindOf[x] = x.kind
  BY DEF KindOf
<1>9. \A i \in 1 .. l : h[i] = k[i]
  BY <1>4, <1>6, <1>7, <1>8
<1>10. h = k
  <2>1. Len(h) = Len(k) /\ \A i \in 1 .. Len(h) : h[i] = k[i]
    BY <1>6, <1>9
  <2>2. QED
    BY <1>6, <2>1, SeqEqual
<1>11. k = Waiting(lines)
  BY <1>2, <1>5, WaitingMapped DEF Has
<1>12. PICK g \in Seq(CandidateLines) : g = e.given
  BY EndFields
<1>13. Mapped(g \o m, KindOf) = Mapped(g, KindOf) \o Mapped(m, KindOf)
  BY <1>1, KindTypes, MapConcat
<1>14. QED
  BY <1>1, <1>5, <1>10, <1>11, <1>12, <1>13 DEF Has

\* What can be used of f, which the peer found, is what e was given, then what
\* waits there, then what is on its way.
InOrder(e, q, f) ==
    Keep(f, UsableKinds) = Has(e.given) \o (Waiting(e.deferred) \o Coming(q))

Ordered == \A s \in Sides : InOrder(end[s], signals[s], found[Peer(s)])

\* How a candidate a moves along: it is sent, it waits, it is given.
MovesAlong(g, w, a, c) ==
    /\ (g \o (w \o c)) \o a = g \o (w \o (c \o a))
    /\ g \o (w \o (a \o c)) = g \o ((w \o a) \o c)
    /\ g \o (<<>> \o (a \o c)) = (g \o a) \o (<<>> \o c)

\* Concatenation associates.
LEMMA Associates ==
    ASSUME NEW g \in Seq(AllKinds), NEW x \in Seq(AllKinds),
           NEW a \in Seq(AllKinds)
    PROVE  (g \o x) \o a = g \o (x \o a)
BY ConcatAssociative

\* None of it is a change of the order.
LEMMA Rearranged ==
    ASSUME NEW g \in Seq(AllKinds), NEW w \in Seq(AllKinds),
           NEW a \in Seq(AllKinds), NEW c \in Seq(AllKinds)
    PROVE  MovesAlong(g, w, a, c)
<1>1. <<>> \o c = c /\ <<>> \o (a \o c) = a \o c
  <2>1. a \o c \in Seq(AllKinds)
    BY ConcatProperties
  <2>2. QED
    BY <2>1, ConcatEmptySeq
<1>2. (w \o c) \o a = w \o (c \o a)
  BY Associates
<1>3. (g \o (w \o c)) \o a = g \o ((w \o c) \o a)
  <2>1. PICK x \in Seq(AllKinds) : x = w \o c
    <3>1. w \o c \in Seq(AllKinds)
      BY ConcatProperties
    <3>2. QED
      BY <3>1
  <2>2. (g \o x) \o a = g \o (x \o a)
    BY Associates
  <2>3. QED
    BY <2>1, <2>2
<1>4. (w \o a) \o c = w \o (a \o c)
  BY Associates
<1>5. (g \o a) \o c = g \o (a \o c)
  BY Associates
<1>6. QED
  BY <1>1, <1>2, <1>3, <1>4, <1>5 DEF MovesAlong

\* Nothing moves.
LEMMA OrderStays ==
    ASSUME Ordered,
           \A s \in Sides : /\ end'[s].given = end[s].given
                            /\ end'[s].deferred = end[s].deferred,
           UNCHANGED <<signals, found>>
    PROVE  Ordered'
BY DEF Ordered, InOrder

\* s takes a signal, or hands candidates to WebRTC.
LEMMA OrderMoves ==
    ASSUME IInv, Ordered, NEW s \in Sides, NEW e, NEW q,
           end' = [end EXCEPT ![s] = e],
           signals' = [signals EXCEPT ![s] = q],
           UNCHANGED found,
           InOrder(e, q, found[Peer(s)])
    PROVE  Ordered'
<1>1. /\ end \in [Sides -> Ends] /\ signals \in [Sides -> Seq(Signals)]
  BY DEF IInv, Typed
<1>2. ASSUME NEW r \in Sides
      PROVE  InOrder(end'[r], signals'[r], found'[Peer(r)])
  <2>1. CASE r = s
    BY <1>1, <2>1
  <2>2. CASE r # s
    <3>1. end'[r] = end[r] /\ signals'[r] = signals[r]
      BY <1>1, <2>2
    <3>2. QED
      BY <3>1 DEF Ordered
  <2>3. QED
    BY <2>1, <2>2
<1>3. QED
  BY <1>2 DEF Ordered

\* s sends signal m, which brings what was found.
LEMMA OrderSent ==
    ASSUME IInv, Ordered, NEW s \in Sides, NEW m \in Signals, SignalPeer(s, m),
           \A r \in Sides : /\ end'[r].given = end[r].given
                            /\ end'[r].deferred = end[r].deferred,
           found'[Peer(s)] = found[Peer(s)],
           Keep(found'[s], UsableKinds) = Keep(found[s], UsableKinds) \o Brings(m)
    PROVE  Ordered'
<1>1. PICK t \in Sides : t = Peer(s) /\ t # s /\ Peer(t) = s
  BY Peers
<1>2. PICK q \in Seq(Signals) : q = signals[t]
  BY <1>1, Sided
<1>3. /\ signals'[t] = Append(q, m) /\ signals'[s] = signals[s]
  <2>1. signals \in [Sides -> Seq(Signals)]
    BY DEF IInv, Typed
  <2>2. QED
    BY <1>1, <1>2, <2>1 DEF SignalPeer
<1>4. InOrder(end[s], signals[s], found[t]) /\ InOrder(end[t], q, found[s])
  BY <1>1, <1>2 DEF Ordered
<1>5. InOrder(end'[s], signals'[s], found'[t])
  BY <1>1, <1>3, <1>4 DEF InOrder
<1>6. InOrder(end'[t], signals'[t], found'[s])
  <2>1. PICK g \in Seq(AllKinds), w \in Seq(AllKinds) :
           g = Has(end[t].given) /\ w = Waiting(end[t].deferred)
    <3>1. end[t] \in Ends
      BY Sided
    <3>2. end[t].given \in Seq(CandidateLines) /\ end[t].deferred \in Seq(CandidateLines)
      BY <3>1, EndFields
    <3>3. Has(end[t].given) \in Seq(AllKinds) /\ Waiting(end[t].deferred) \in Seq(AllKinds)
      BY <3>2, HasType
    <3>4. QED
      BY <3>3
  <2>2. PICK c \in Seq(AllKinds), a \in Seq(AllKinds) : c = Coming(q) /\ a = Brings(m)
    <3>1. Coming(q) \in Seq(AllKinds) /\ Brings(m) \in Seq(AllKinds)
      BY ComingType, KindTypes
    <3>2. QED
      BY <3>1
  <2>3. Coming(Append(q, m)) = c \o a
    BY <2>2, ComingMore
  <2>4. (g \o (w \o c)) \o a = g \o (w \o (c \o a))
    <3>1. MovesAlong(g, w, a, c)
      BY Rearranged
    <3>2. QED
      BY <3>1 DEF MovesAlong
  <2>5. Keep(found[s], UsableKinds) = g \o (w \o c)
    BY <1>4, <2>1, <2>2 DEF InOrder
  <2>6. Keep(found'[s], UsableKinds) = g \o (w \o (c \o a))
    BY <2>2, <2>4, <2>5
  <2>7. end'[t].given = end[t].given /\ end'[t].deferred = end[t].deferred
    OBVIOUS
  <2>8. QED
    BY <1>3, <2>1, <2>3, <2>6, <2>7 DEF InOrder
<1>7. \A r \in Sides : r = s \/ r = t
  BY <1>1, Peers
<1>8. QED
  BY <1>1, <1>5, <1>6, <1>7 DEF Ordered

\* The initial states.
LEMMA InitOrdered == Init => Ordered
<1> SUFFICES ASSUME Init, NEW s \in Sides
             PROVE  InOrder(end[s], signals[s], found[Peer(s)])
  BY DEF Ordered
<1>1. /\ end[s] = NewEnd /\ signals[s] = <<>> /\ found[Peer(s)] = <<>>
  BY Peers DEF Init
<1>2. NewEnd.given = <<>> /\ NewEnd.deferred = <<>>
  BY DEF NewEnd
<1>3. Keep(<<>>, UsableKinds) = <<>>
  BY KeepEmpty
<1>4. Has(<<>>) = <<>> /\ Coming(<<>>) = <<>>
  BY NothingHas, NothingComes
<1>5. <<>> \o (<<>> \o <<>>) = <<>>
  OBVIOUS
<1>6. QED
  BY <1>1, <1>2, <1>3, <1>4, <1>5, NothingWaits DEF InOrder

\* Candidates of the peer come in order.
LEMMA TakenInOrder ==
    ASSUME NEW e \in Ends, NEW p, NEW q \in Seq(Signals), NEW line \in CandidateLines,
           NEW f, NEW r \in Seq(Signals), Passed(e, p),
           InOrder(e, q, f), Coming(q) = Alone(line.kind) \o Coming(r)
    PROVE  InOrder(HandleCandidate(e, line), r, f)
<1>1. PICK g \in Seq(AllKinds), w \in Seq(AllKinds) :
         g = Has(e.given) /\ w = Waiting(e.deferred)
  <2>1. e.given \in Seq(CandidateLines) /\ e.deferred \in Seq(CandidateLines)
    BY EndFields
  <2>2. Has(e.given) \in Seq(AllKinds) /\ Waiting(e.deferred) \in Seq(AllKinds)
    BY <2>1, HasType
  <2>3. QED
    BY <2>2
<1>2. PICK a \in Seq(AllKinds), c \in Seq(AllKinds) :
         a = Alone(line.kind) /\ c = Coming(r)
  <2>1. Alone(line.kind) \in Seq(AllKinds) /\ Coming(r) \in Seq(AllKinds)
    BY KindTypes, ComingType DEF CandidateLines, AllKinds
  <2>2. QED
    BY <2>1
<1>3. Keep(f, UsableKinds) = g \o (w \o (a \o c))
  BY <1>1, <1>2 DEF InOrder
<1>4. PICK h : h = HandleCandidate(e, line)
  OBVIOUS
<1>5. CASE e.forwarding
  <2>1. h = Give(e, <<line>>, e.remoteEndpoint)
    BY <1>4, <1>5 DEF HandleCandidate
  <2>2. PICK l \in Seq(CandidateLines), at \in Known :
           l = <<line>> /\ at = e.remoteEndpoint
    <3>1. <<line>> \in Seq(CandidateLines) /\ e.remoteEndpoint \in Known
      BY EndFields
    <3>2. QED
      BY <3>1
  <2>3. PICK m : Gives(e, l, at, h, m)
    <3>1. h = Give(e, l, at)
      BY <2>1, <2>2
    <3>2. QED
      BY <3>1, GiveDoes
  <2>4. Has(h.given) = g \o a
    <3>1. Has(h.given) = Has(e.given) \o Waiting(l)
      BY <2>3, HasGiven
    <3>2. Waiting(l) = a
      BY <1>2, <2>2, WaitingAlone
    <3>3. QED
      BY <1>1, <3>1, <3>2
  <2>5. h.deferred = e.deferred
    BY <2>3 DEF Gives, Ends
  <2>6. w = <<>>
    BY <1>1, <1>5, NothingWaits DEF Passed
  <2>7. g \o (<<>> \o (a \o c)) = (g \o a) \o (<<>> \o c)
    <3>1. MovesAlong(g, w, a, c)
      BY Rearranged
    <3>2. QED
      BY <3>1 DEF MovesAlong
  <2>8. InOrder(h, r, f)
    BY <1>1, <1>2, <1>3, <2>4, <2>5, <2>6, <2>7 DEF InOrder
  <2>9. QED
    BY <1>4, <2>8
<1>6. CASE ~ e.forwarding
  <2>1. PICK d \in Seq(CandidateLines) : d = e.deferred
    BY EndFields
  <2>2. h = [e EXCEPT !.deferred = Append(d, line)]
    BY <1>4, <1>6, <2>1 DEF HandleCandidate
  <2>3. h.given = e.given /\ h.deferred = Append(d, line)
    BY <2>2 DEF Ends
  <2>4. Waiting(Append(d, line)) = w \o a
    BY <1>1, <1>2, <2>1, WaitingMore
  <2>5. g \o (w \o (a \o c)) = g \o ((w \o a) \o c)
    <3>1. MovesAlong(g, w, a, c)
      BY Rearranged
    <3>2. QED
      BY <3>1 DEF MovesAlong
  <2>6. InOrder(h, r, f)
    BY <1>1, <1>2, <1>3, <2>3, <2>4, <2>5 DEF InOrder
  <2>7. QED
    BY <1>4, <2>6
<1>7. QED
  BY <1>5, <1>6

\* What waited is handed on in order.
LEMMA ForwardsInOrder ==
    ASSUME NEW e \in Ends, NEW q \in Seq(Signals), NEW f, InOrder(e, q, f)
    PROVE  InOrder(Forwarding(e), q, f)
<1>1. PICK g \in Seq(AllKinds), w \in Seq(AllKinds) :
         g = Has(e.given) /\ w = Waiting(e.deferred)
  <2>1. e.given \in Seq(CandidateLines) /\ e.deferred \in Seq(CandidateLines)
    BY EndFields
  <2>2. Has(e.given) \in Seq(AllKinds) /\ Waiting(e.deferred) \in Seq(AllKinds)
    BY <2>1, HasType
  <2>3. QED
    BY <2>2
<1>2. PICK c \in Seq(AllKinds) : c = Coming(q)
  BY ComingType
<1>3. PICK at \in Known, l \in Seq(CandidateLines) :
         at = e.remoteEndpoint /\ l = e.deferred
  <2>1. e.remoteEndpoint \in Known /\ e.deferred \in Seq(CandidateLines)
    BY EndFields
  <2>2. QED
    BY <2>1
<1>4. PICK x : x = Give(e, l, at)
  OBVIOUS
<1>5. PICK m : Gives(e, l, at, x, m)
  BY <1>4, GiveDoes
<1>6. Has(x.given) = g \o w
  BY <1>1, <1>3, <1>5, HasGiven
<1>7. PICK h : h = [x EXCEPT !.forwarding = TRUE, !.deferred = <<>>]
  OBVIOUS
<1>8. h = Forwarding(e)
  BY <1>3, <1>4, <1>7 DEF Forwarding
<1>9. x = [e EXCEPT !.given = e.given \o m]
  BY <1>5 DEF Gives
<1>10. h.given = x.given /\ h.deferred = <<>>
  BY <1>7, <1>9 DEF Ends
<1>11. (g \o w) \o (<<>> \o c) = g \o (<<>> \o (w \o c)) /\ <<>> \o (w \o c) = w \o c
  <2>1. w \o c \in Seq(AllKinds)
    BY ConcatProperties
  <2>2. <<>> \o (w \o c) = w \o c
    BY <2>1, ConcatEmptySeq
  <2>3. g \o (<<>> \o (w \o c)) = (g \o w) \o (<<>> \o c)
    <3>1. MovesAlong(g, w, w, c)
      BY Rearranged
    <3>2. QED
      BY <3>1 DEF MovesAlong
  <2>4. QED
    BY <2>2, <2>3
<1>12. InOrder(h, q, f)
  BY <1>1, <1>2, <1>6, <1>10, <1>11, NothingWaits DEF InOrder
<1>13. QED
  BY <1>8, <1>12

\* What WebRTC finds.
LEMMA FoundKinds ==
    ASSUME IInv, NEW s \in Sides
    PROVE  found[s] \in Seq(AllKinds)
<1>1. found[s] \in Seq(Lines)
  BY Sided
<1>2. \A x \in Lines : x \in AllKinds
  BY ChurnAssumption DEF AllKinds
<1>3. QED
  BY <1>1, <1>2

\* Nothing more of it.
LEMMA FoundEmpty ==
    ASSUME IInv, NEW s \in Sides
    PROVE  Keep(found[s], UsableKinds) = Keep(found[s], UsableKinds) \o <<>>
<1>1. PICK f \in Seq(AllKinds) : f = found[s]
  BY FoundKinds
<1>2. PICK k \in Seq(AllKinds) : k = Keep(f, UsableKinds)
  BY KeepType
<1>3. k \o <<>> = k
  BY ConcatEmptySeq
<1>4. QED
  BY <1>1, <1>2, <1>3

\* Steps in which no candidate moves.
LEMMA QuietInOrder ==
    ASSUME IInv, Ordered, NEW s \in Sides,
           \/ \E kind \in ProbeLines : ProbeCandidate(s, kind)
           \/ ProbeEnds(s)
           \/ TimerFires(s)
           \/ \E result \in BindResults : LocalBindSettles(s, result)
           \/ \E result \in BindResults, r \in Endpoints : MirrorBindSettles(s, r, result)
           \/ SendsDatagram(s)
           \/ \E p \in wire : Receives(s, p)
    PROVE  Ordered'
<1>1. \/ end' = end
      \/ \E e : /\ end' = [end EXCEPT ![s] = e]
               /\ \/ \E c : e = [end[s] EXCEPT !.probeCandidates_ = c]
                  \/ e = [end[s] EXCEPT !.probing = "closing"]
  BY DEF ProbeCandidate, ProbeEnds, TimerFires, LocalBindSettles, MirrorBindSettles,
         SendsDatagram, Receives
<1>2. UNCHANGED <<signals, found>>
  BY DEF ProbeCandidate, ProbeEnds, TimerFires, LocalBindSettles, MirrorBindSettles,
         SendsDatagram, Receives
<1>3. \A r \in Sides : /\ end'[r].given = end[r].given
                       /\ end'[r].deferred = end[r].deferred
  <2>1. ASSUME NEW e, end' = [end EXCEPT ![s] = e],
               \/ \E c : e = [end[s] EXCEPT !.probeCandidates_ = c]
               \/ e = [end[s] EXCEPT !.probing = "closing"]
        PROVE  \A r \in Sides : /\ end'[r].given = end[r].given
                                /\ end'[r].deferred = end[r].deferred
    <3>1. end[s] \in Ends
      BY Sided
    <3>2. e.given = end[s].given /\ e.deferred = end[s].deferred
      BY <2>1, <3>1 DEF Ends
    <3>3. end \in [Sides -> Ends]
      BY DEF IInv, Typed
    <3>4. QED
      BY <2>1, <3>2, <3>3
  <2>2. QED
    BY <1>1, <2>1
<1>4. QED
  BY <1>2, <1>3, OrderStays

\* Probing ends.
LEMMA ProbeClosedInOrder ==
    ASSUME IInv, Ordered, NEW s \in Sides, ProbeClosed(s)
    PROVE  Ordered'
<1>1. PICK nat : nat = SelectPublicAddress(s, end[s].probeCandidates_)
  OBVIOUS
<1>2. PICK e : e = [end[s] EXCEPT !.probing = IF nat = None THEN "failed"
                                              ELSE "complete",
                                  !.nat = nat]
  OBVIOUS
<1>3. /\ end' = [end EXCEPT ![s] = e]
      /\ IF nat = None THEN UNCHANGED signals
         ELSE SignalPeer(s, Signal("PUBLIC_ENDPOINT", NoLine, nat.external, {}))
      /\ UNCHANGED found
  BY <1>1, <1>2 DEF ProbeClosed, Become
<1>4. e.given = end[s].given /\ e.deferred = end[s].deferred
  BY <1>2, Sided DEF Ends
<1>5. \A r \in Sides : /\ end'[r].given = end[r].given
                       /\ end'[r].deferred = end[r].deferred
  BY <1>3, <1>4 DEF IInv, Typed
<1>6. CASE nat = None
  BY <1>3, <1>5, <1>6, OrderStays
<1>7. CASE nat # None
  <2>1. PICK m : m = Signal("PUBLIC_ENDPOINT", NoLine, nat.external, {})
    OBVIOUS
  <2>2. nat.external \in Endpoints
    BY <1>1, <1>7, Selected
  <2>3. m \in Signals /\ m.type = "PUBLIC_ENDPOINT"
    BY <2>1, <2>2 DEF Signal, NoLine, Line, Signals, CandidateLines, Known
  <2>4. Brings(m) = <<>>
    BY <2>3 DEF Brings
  <2>5. Keep(found'[s], UsableKinds) = Keep(found[s], UsableKinds) \o Brings(m)
    BY <1>3, <2>4, FoundEmpty
  <2>6. SignalPeer(s, m)
    BY <1>3, <1>7, <2>1
  <2>7. QED
    BY <1>3, <1>5, <2>3, <2>5, <2>6, OrderSent
<1>8. QED
  BY <1>6, <1>7

\* An offer or an answer is sent.
LEMMA DescribesInOrder ==
    ASSUME IInv, Ordered, NEW s \in Sides, Describes(s)
    PROVE  Ordered'
<1>1. PICK type \in {"OFFER", "ANSWER"} :
         type = IF s = "caller" THEN "OFFER" ELSE "ANSWER"
  OBVIOUS
<1>2. PICK m : m = Signal(type, NoLine, None, FilterCandidatesFromSdp({At(s, "webrtc")}))
  OBVIOUS
<1>3. /\ end' = [end EXCEPT ![s].described = @ \cup {type}]
      /\ SignalPeer(s, m)
      /\ UNCHANGED found
  BY <1>1, <1>2 DEF Describes
<1>4. \A r \in Sides : /\ end'[r].given = end[r].given
                       /\ end'[r].deferred = end[r].deferred
  BY <1>3 DEF IInv, Typed, Ends
<1>5. m \in Signals /\ m.type = type
  BY <1>1, <1>2 DEF Signal, NoLine, Line, Signals, CandidateLines, Known,
                    FilterCandidatesFromSdp
<1>6. Brings(m) = <<>>
  BY <1>1, <1>5 DEF Brings
<1>7. Keep(found'[s], UsableKinds) = Keep(found[s], UsableKinds) \o Brings(m)
  BY <1>3, <1>6, FoundEmpty
<1>8. QED
  BY <1>3, <1>4, <1>5, <1>7, OrderSent

\* A candidate is found: it is the last on its way.
LEMMA FindsCandidateInOrder ==
    ASSUME IInv, Ordered, NEW s \in Sides, NEW kind \in Lines,
           FindsCandidate(s, kind)
    PROVE  Ordered'
<1>1. PICK line : line = Line(kind, At(s, "webrtc"))
  OBVIOUS
<1>2. PICK e : e = IF kind = "host" /\ end[s].webRtcEndpoint = None
                   THEN [end[s] EXCEPT !.webRtcEndpoint = line.endpoint]
                   ELSE end[s]
  OBVIOUS
<1>3. PICK m : m = Signal("CANDIDATE", Obfuscate(line), None, {})
  OBVIOUS
<1>4. /\ end' = [end EXCEPT ![s] = e]
      /\ SignalPeer(s, m)
      /\ found' = [found EXCEPT ![s] = Append(@, kind)]
  BY <1>1, <1>2, <1>3 DEF FindsCandidate, Become
<1>5. e.given = end[s].given /\ e.deferred = end[s].deferred
  BY <1>2, Sided DEF Ends
<1>6. \A r \in Sides : /\ end'[r].given = end[r].given
                       /\ end'[r].deferred = end[r].deferred
  BY <1>4, <1>5 DEF IInv, Typed
<1>7. kind \in AllKinds
  BY ChurnAssumption DEF AllKinds
<1>8. /\ line \in CandidateLines /\ line.kind = kind
  BY <1>1, <1>7, Addresses DEF Line, CandidateLines, Known, AllKinds, Places
<1>9. /\ m \in Signals /\ m.type = "CANDIDATE" /\ m.line.kind = kind
  <2>1. /\ Obfuscate(line) \in CandidateLines /\ Obfuscate(line).kind = kind
    BY <1>8 DEF Obfuscate, SetEndpoint, CandidateLines, Known
  <2>2. QED
    BY <1>3, <2>1 DEF Signal, Signals, Known
<1>10. Brings(m) = Alone(kind)
  BY <1>9 DEF Brings
<1>11. PICK f \in Seq(AllKinds) : f = found[s]
  BY FoundKinds
<1>12. found'[s] = Append(f, kind)
  BY <1>4, <1>11 DEF IInv, Typed
<1>13. Keep(found'[s], UsableKinds) = Keep(found[s], UsableKinds) \o Brings(m)
  <2>1. Keep(Append(f, kind), UsableKinds) = Keep(f, UsableKinds) \o Alone(kind)
    BY <1>7, KeepOneMore
  <2>2. QED
    BY <1>10, <1>11, <1>12, <2>1
<1>14. found'[Peer(s)] = found[Peer(s)]
  BY <1>4, Peers DEF IInv, Typed
<1>15. QED
  BY <1>4, <1>6, <1>9, <1>13, <1>14, OrderSent

\* A signal is handled: the candidate in it is given or waits, last in either.
LEMMA HandleSignalInOrder ==
    ASSUME IInv, Ordered, NEW s \in Sides, HandleSignal(s)
    PROVE  Ordered'
<1>0. PICK f : f = found[Peer(s)]
  OBVIOUS
<1>1. PICK e \in Ends, p \in Pipes, q \in Seq(Signals) :
         e = end[s] /\ p = pipe[s] /\ q = signals[s] /\ f = found[Peer(s)]
  BY <1>0, Sided
<1>2. Passed(e, p) /\ InOrder(e, q, f)
  BY <1>1, Sided DEF Ordered
<1>3. q # <<>>
  BY <1>1 DEF HandleSignal
<1>4. PICK m \in Signals, r \in Seq(Signals) :
         m = Head(q) /\ r = Tail(q) /\ Coming(q) = Brings(m) \o Coming(r)
  BY <1>3, ComingFirst
<1>5. signals' = [signals EXCEPT ![s] = r] /\ UNCHANGED found
  BY <1>1, <1>4 DEF HandleSignal
<1>6. \E g : end' = [end EXCEPT ![s] = g] /\ InOrder(g, r, f)
  <2>1. PICK c \in Seq(AllKinds) : c = Coming(r)
    BY ComingType
  <2>2. <<>> \o c = c
    BY ConcatEmptySeq
  <2>3. ASSUME NEW g, m.type # "CANDIDATE",
               g.given = e.given, g.deferred = e.deferred
        PROVE  InOrder(g, r, f)
    <3>1. Coming(q) = Coming(r)
      BY <1>4, <2>1, <2>2, <2>3 DEF Brings
    <3>2. QED
      BY <1>2, <2>3, <3>1 DEF InOrder
  <2>4. CASE m.type = "PUBLIC_ENDPOINT" /\
             Become(s, IF e.remoteEndpoint # None THEN e
                       ELSE [e EXCEPT !.remoteEndpoint = m.endpoint])
    <3>1. PICK g : g = IF e.remoteEndpoint # None THEN e
                       ELSE [e EXCEPT !.remoteEndpoint = m.endpoint]
      OBVIOUS
    <3>2. g.given = e.given /\ g.deferred = e.deferred
      BY <3>1 DEF Ends
    <3>3. InOrder(g, r, f)
      BY <2>3, <2>4, <3>2
    <3>4. end' = [end EXCEPT ![s] = g]
      BY <2>4, <3>1 DEF Become
    <3>5. QED
      BY <3>3, <3>4
  <2>5. CASE m.type = "CANDIDATE" /\ Become(s, HandleCandidate(e, m.line))
    <3>1. m.line \in CandidateLines
      BY DEF Signals
    <3>2. Coming(q) = Alone(m.line.kind) \o Coming(r)
      BY <1>4, <2>5 DEF Brings
    <3>3. InOrder(HandleCandidate(e, m.line), r, f)
      BY <1>2, <3>1, <3>2, TakenInOrder
    <3>4. end' = [end EXCEPT ![s] = HandleCandidate(e, m.line)]
      BY <2>5 DEF Become
    <3>5. QED
      BY <3>3, <3>4
  <2>6. CASE m.type \in {"OFFER", "ANSWER"} /\
             Become(s, [e EXCEPT !.described = @ \cup {m.type}])
    <3>1. PICK g : g = [e EXCEPT !.described = @ \cup {m.type}]
      OBVIOUS
    <3>2. g.given = e.given /\ g.deferred = e.deferred
      BY <3>1 DEF Ends
    <3>3. InOrder(g, r, f)
      BY <2>3, <2>6, <3>2
    <3>4. end' = [end EXCEPT ![s] = g]
      BY <2>6, <3>1 DEF Become
    <3>5. QED
      BY <3>3, <3>4
  <2>7. QED
    BY <1>1, <1>4, <2>4, <2>5, <2>6 DEF HandleSignal
<1>7. PICK g : end' = [end EXCEPT ![s] = g] /\ InOrder(g, r, f)
  BY <1>6
<1>8. QED
  BY <1>1, <1>5, <1>7, OrderMoves

\* The forwarding socket is known: what waited for it is given.
LEMMA InfoSettlesInOrder ==
    ASSUME IInv, Ordered, NEW s \in Sides, NEW result \in {"fulfilled", "rejected"},
           InfoSettles(s, result)
    PROVE  Ordered'
<1>0. PICK f : f = found[Peer(s)]
  OBVIOUS
<1>1. PICK e \in Ends, q \in Seq(Signals) :
         e = end[s] /\ q = signals[s] /\ f = found[Peer(s)]
  BY <1>0, Sided
<1>2. InOrder(e, q, f)
  BY <1>1 DEF Ordered
<1>3. UNCHANGED <<signals, found>>
  BY DEF InfoSettles
<1>4. CASE result = "fulfilled"
  <2>1. end' = [end EXCEPT ![s] = Forwarding(e)]
    BY <1>1, <1>4 DEF InfoSettles
  <2>2. InOrder(Forwarding(e), q, f)
    BY <1>2, ForwardsInOrder
  <2>3. signals' = [signals EXCEPT ![s] = q]
    BY <1>1, <1>3 DEF IInv, Typed
  <2>4. QED
    BY <1>1, <1>3, <2>1, <2>2, <2>3, OrderMoves
<1>5. CASE result = "rejected"
  <2>1. end' = end
    BY <1>1, <1>5 DEF InfoSettles
  <2>2. QED
    BY <1>3, <2>1, OrderStays
<1>6. QED
  BY <1>4, <1>5

\* Every step keeps the order.
LEMMA NextOrdered == IInv /\ Ordered /\ [Next]_vars => Ordered'
<1> SUFFICES ASSUME IInv, Ordered, [Next]_vars PROVE Ordered'
  OBVIOUS
<1>1. ASSUME NEW s \in Sides, ProbeEnds(s) \/ ProbeClosed(s) \/ Describes(s)
      PROVE  Ordered'
  BY <1>1, QuietInOrder, ProbeClosedInOrder, DescribesInOrder
<1>2. ASSUME NEW s \in Sides, HandleSignal(s)
      PROVE  Ordered'
  BY <1>2, HandleSignalInOrder
<1>3. ASSUME NEW s \in Sides, Settles(s)
      PROVE  Ordered'
  BY <1>3, QuietInOrder, InfoSettlesInOrder DEF Settles
<1>4. ASSUME NEW s \in Sides, NEW kind \in ProbeLines, ProbeCandidate(s, kind)
      PROVE  Ordered'
  BY <1>4, QuietInOrder
<1>5. ASSUME NEW s \in Sides, NEW kind \in Lines, FindsCandidate(s, kind)
      PROVE  Ordered'
  BY <1>5, FindsCandidateInOrder
<1>6. ASSUME NEW s \in Sides, SendsDatagram(s)
      PROVE  Ordered'
  BY <1>6, QuietInOrder
<1>7. ASSUME NEW s \in Sides, NEW p \in wire, Receives(s, p)
      PROVE  Ordered'
  BY <1>7, QuietInOrder
<1>8. ASSUME NEW p \in wire, Lost(p)
      PROVE  Ordered'
  BY <1>8, OrderStays DEF Lost
<1>9. CASE UNCHANGED vars
  BY <1>9, OrderStays DEF vars
<1>10. QED
  BY <1>1, <1>2, <1>3, <1>4, <1>5, <1>6, <1>7, <1>8, <1>9 DEF Next

\* In terms of the module's own operators.
LEMMA OrderedSelects ==
    ASSUME IInv, Ordered
    PROVE  CandidatesInOrder
<1> SUFFICES ASSUME NEW s \in Sides
             PROVE  Usable(found[Peer(s)]) =
                        Kinds(end[s].given)
                            \o Usable(Kinds(end[s].deferred) \o InFlight(s))
  BY DEF CandidatesInOrder
<1>1. \A lines \in Seq(CandidateLines) : Kinds(lines) = Has(lines)
  <2>1. ASSUME NEW lines \in Seq(CandidateLines)
        PROVE  Kinds(lines) = Has(lines)
    <3>1. \A i \in DOMAIN lines : lines[i] \in CandidateLines
      OBVIOUS
    <3>2. \A i \in DOMAIN lines : lines[i].kind = KindOf[lines[i]]
      BY <3>1 DEF KindOf
    <3>3. QED
      BY <3>2 DEF Kinds, Has, Mapped
  <2>2. QED
    BY <2>1
<1>2. PICK q \in Seq(Signals) : q = signals[s]
  BY Sided
<1>3. PICK c \in Seq(Signals) : c = Keep(q, Candidates)
  BY KeepType
<1>4. InFlight(s) = Mapped(c, KindIn)
  <2>1. c = Select(signals[s], IsCandidate)
    BY <1>2, <1>3, SelectCandidates
  <2>2. \A i \in DOMAIN c : c[i] \in Signals
    OBVIOUS
  <2>3. \A i \in DOMAIN c : c[i].line.kind = KindIn[c[i]]
    BY <2>2 DEF KindIn
  <2>4. QED
    BY <2>1, <2>3 DEF InFlight, Mapped
<1>5. PICK k \in Seq(AllKinds) : k = InFlight(s)
  <2>1. Values(InFlight(s), c, KindIn, AllKinds)
    BY <1>4, KindTypes, MapType
  <2>2. InFlight(s) \in Seq(AllKinds)
    BY <2>1 DEF Values
  <2>3. QED
    BY <2>2
<1>6. end[s] \in Ends
  BY Sided
<1>7. PICK d \in Seq(CandidateLines), g \in Seq(CandidateLines) :
         d = end[s].deferred /\ g = end[s].given
  <2>1. end[s].deferred \in Seq(CandidateLines) /\ end[s].given \in Seq(CandidateLines)
    BY <1>6, EndFields
  <2>2. QED
    BY <2>1
<1>8. PICK h \in Seq(AllKinds) : h = Has(d)
  BY HasType
<1>9. Keep(h \o k, UsableKinds) = Waiting(d) \o Coming(q)
  <2>1. Keep(h \o k, UsableKinds) = Keep(h, UsableKinds) \o Keep(k, UsableKinds)
    BY KeepMore
  <2>2. QED
    BY <1>3, <1>4, <1>5, <1>8, <2>1 DEF Waiting, Coming
<1>10. Usable(h \o k) = Keep(h \o k, UsableKinds)
  <2>1. PICK x \in Seq(AllKinds) : x = h \o k
    <3>1. h \o k \in Seq(AllKinds)
      BY ConcatProperties
    <3>2. QED
      BY <3>1
  <2>2. Select(x, IsUsable) = Keep(x, UsableKinds)
    BY SelectUsable
  <2>3. QED
    BY <2>1, <2>2 DEF Usable
<1>11. Usable(found[Peer(s)]) = Keep(found[Peer(s)], UsableKinds)
  <2>1. PICK x \in Seq(AllKinds) : x = found[Peer(s)]
    BY Peers, FoundKinds
  <2>2. Select(x, IsUsable) = Keep(x, UsableKinds)
    BY SelectUsable
  <2>3. QED
    BY <2>1, <2>2 DEF Usable
<1>12. Keep(found[Peer(s)], UsableKinds) = Has(g) \o (Waiting(d) \o Coming(q))
  BY <1>2, <1>7 DEF Ordered, InOrder
<1>13. Kinds(g) = Has(g) /\ Kinds(d) = h
  BY <1>1, <1>8
<1>14. QED
  BY <1>5, <1>7, <1>9, <1>10, <1>11, <1>12, <1>13

\* Candidates that WebRTC can use are neither lost nor repeated nor overtaken,
\* before the forwarding socket is bound or after (churn.ts, handleSignalMessage
\* and the promise of the forwarding socket).
THEOREM CandidatesComeInOrder == Spec => []CandidatesInOrder
<1>1. Init => Ordered
  BY InitOrdered
<1>2. IInv /\ Ordered /\ [Next]_vars => Ordered'
  BY NextOrdered
<1>3. IInv /\ Ordered => CandidatesInOrder
  BY OrderedSelects
<1>4. QED
  BY <1>1, <1>2, <1>3, Invariance, PTL DEF Spec

-----------------------------------------------------------------------------
(* The Caesar cipher gives back every datagram that a pipe sends, under     *)
(* every key.                                                               *)

\* A byte that is shifted is a byte, and shifting it back gives the byte.
LEMMA ByteRestored ==
    ASSUME NEW i \in Bytes, NEW s \in Bytes
    PROVE  /\ transformByte(i, s) \in Bytes
           /\ restoreByte(transformByte(i, s), s) = i
<1>1. CASE i + s < 256
  <2>1. transformByte(i, s) = i + s
    BY <1>1 DEF transformByte, Bytes
  <2>2. restoreByte(i + s, s) = i
    BY <1>1 DEF restoreByte, Bytes
  <2> QED
    BY <1>1, <2>1, <2>2 DEF Bytes
<1>2. CASE i + s >= 256
  <2>1. transformByte(i, s) = i + s - 256
    BY <1>2 DEF transformByte, Bytes
  <2>2. restoreByte(i + s - 256, s) = i
    BY <1>2 DEF restoreByte, Bytes
  <2> QED
    BY <1>2, <2>1, <2>2 DEF Bytes
<1> QED
  BY <1>1, <1>2 DEF Bytes

\* The shift is a byte.
LEMMA ShiftIsByte ==
    ASSUME NEW key \in Seq(Bytes), IsKey(key)
    PROVE  Shift(key) \in Bytes
<1>1. 1 \in 1 .. Len(key)
  BY DEF IsKey
<1>2. key[1] \in Bytes
  BY <1>1
<1> QED
  BY <1>2 DEF Shift

\* What goes out on the wire is as long as the datagram, and made of bytes.
THEOREM TransformKeepsBytes ==
    ASSUME NEW buffer \in Seq(Bytes), NEW key \in Seq(Bytes), IsKey(key)
    PROVE  /\ transform(buffer, key) \in Seq(Bytes)
           /\ Len(transform(buffer, key)) = Len(buffer)
<1>1. Shift(key) \in Bytes
  BY ShiftIsByte
<1>2. \A i \in DOMAIN buffer : buffer[i] \in Bytes
  OBVIOUS
<1>3. \A i \in DOMAIN buffer : transformByte(buffer[i], Shift(key)) \in Bytes
  BY <1>1, <1>2, ByteRestored
<1> QED
  BY <1>3 DEF transform

\* restore undoes transform: the far end of the pipe has the datagram that was
\* sent, whatever the datagram and the key.
THEOREM RestoreTransform ==
    ASSUME NEW buffer \in Seq(Bytes), NEW key \in Seq(Bytes), IsKey(key)
    PROVE  restore(transform(buffer, key), key) = buffer
<1> DEFINE sent == transform(buffer, key)
           n == Len(buffer)
<1>1. Shift(key) \in Bytes
  BY ShiftIsByte
<1>2. n \in Nat /\ DOMAIN buffer = 1 .. n /\ \A i \in 1 .. n : buffer[i] \in Bytes
  OBVIOUS
<1>3. DOMAIN sent = 1 .. n
  BY <1>2 DEF transform
<1>4. \A i \in 1 .. n : restoreByte(sent[i], Shift(key)) = buffer[i]
  <2>1. TAKE i \in 1 .. n
  <2>2. sent[i] = transformByte(buffer[i], Shift(key))
    BY <1>2 DEF transform
  <2> HIDE DEF sent
  <2> QED
    BY <1>1, <1>2, <2>2, ByteRestored
<1>5. restore(sent, key) = [i \in 1 .. n |-> restoreByte(sent[i], Shift(key))]
  BY <1>3 DEF restore
<1>6. [i \in 1 .. n |-> restoreByte(sent[i], Shift(key))] = [i \in 1 .. n |-> buffer[i]]
  BY <1>4, Zenon
<1>7. buffer = [i \in 1 .. n |-> buffer[i]]
  BY <1>2
<1> QED
  BY <1>5, <1>6, <1>7
===============================================================================
