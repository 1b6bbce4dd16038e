---------------------------- MODULE ProxyProofs -----------------------------
(***************************************************************************)
(* Proofs about TcpServer and Proxy, for any number of clients, any limit  *)
(* and repeated disconnection events: types, the limit, that the end of a  *)
(* server is final, and that a proxy that stopped left nothing behind.     *)
(*                                                                         *)
(* Everything the server's safety rests on is an order of events: behind   *)
(* the report that a socket went down comes no connection.                 *)
(***************************************************************************)
EXTENDS Proxy, CounterLemmas, FiniteSetTheorems

\* The socket is down for good.
Down == ~ socket.up /\ server.opening # "listen"
           /\ (server.opening = "unused" => server.shutdown # "unused")

\* No connection is reported behind the first n events.
SilentAfter(n) ==
    \A i \in n + 1 .. Len(socket.events) : socket.events[i].type # "connection"

\* Connections are reported once, and while their client waits for it.
Reported ==
    /\ \A i \in 1 .. Len(socket.events) :
          socket.events[i].type = "connection" =>
             /\ client[socket.events[i].id] = "connecting"
             /\ \A j \in 1 .. Len(socket.events) :
                   socket.events[j].type = "connection"
                   /\ socket.events[j].id = socket.events[i].id => j = i
    /\ \A id \in SocketIds : client[id] = "connecting" =>
          \E i \in 1 .. Len(socket.events) :
             /\ socket.events[i].type = "connection"
             /\ socket.events[i].id = id

\* An event that says the socket went down: a disconnection, or the outcome
\* shutdown() goes on after.
Final(e) ==
    \/ e.type = "disconnect"
    \/ e.type = "stopped" /\ e.ok /\ e.caller = "shutdown"

\* The socket is up only once listen() made it so; what it reports of its end,
\* and what the server made of such a report, is true, and nothing follows it.
Ended ==
    /\ socket.up => server.opening \in {"getInfo", "done"}
    /\ \A i \in 1 .. Len(socket.events) :
          Final(socket.events[i]) => Down /\ SilentAfter(i)
    /\ server.info # "none" \/ server.shutdown \in {"closing", "fulfilled"} =>
          Down /\ SilentAfter(0)
    /\ server.onceShutdown_ \in {"WE_CLOSED_IT", "UNKOWN"} => server.info # "none"

\* A call of close that has not settled waits for the socket, or its outcome is
\* reported and waits to be handled.
InCalls(caller) == {i \in 1 .. Len(socket.calls) : socket.calls[i] = caller}

InEvents(caller) ==
    {i \in 1 .. Len(socket.events) :
        socket.events[i].type = "stopped" /\ socket.events[i].caller = caller}

Unsettled(caller) == InCalls(caller) # {} \/ InEvents(caller) # {}

OneUnsettled(caller) ==
    /\ \A i, j \in InCalls(caller) : i = j
    /\ \A i, j \in InEvents(caller) : i = j
    /\ InCalls(caller) = {} \/ InEvents(caller) = {}

\* There is one such call at a time of each caller, stops counts them, and
\* nobody but shutdown() calls in its name.
Counted ==
    /\ OneUnsettled("stopListening") /\ OneUnsettled("shutdown")
    /\ Unsettled("shutdown") => server.shutdown = "stopping"
    /\ server.stops = (IF Unsettled("stopListening") THEN 1 ELSE 0)
                        + (IF Unsettled("shutdown") THEN 1 ELSE 0)

\* The server's table holds exactly the connections that are open, and from
\* closeAll() on shutdown() waits for all of them.
Tabled ==
    /\ server.connections_ = Active
    /\ server.shutdown = "closing" => server.closing = server.connections_
    /\ server.shutdown = "fulfilled" => server.connections_ = {}

IInv == TypeOK /\ Reported /\ Ended /\ Counted /\ Tabled /\ WithinLimit

-----------------------------------------------------------------------------
(* Sequences of events and calls. *)

\* What is left of a sequence without its head.
LEMMA TailFacts ==
    ASSUME NEW S, NEW q \in Seq(S), q # <<>>
    PROVE  /\ Tail(q) \in Seq(S) /\ Head(q) \in S /\ Head(q) = q[1]
           /\ Len(q) \in Nat \ {0} /\ Len(Tail(q)) = Len(q) - 1
           /\ \A i \in 1 .. Len(Tail(q)) : i + 1 \in 1 .. Len(q)
           /\ \A i \in 1 .. Len(Tail(q)) : Tail(q)[i] = q[i + 1]
           /\ 1 \in 1 .. Len(q)
           /\ \A i \in 1 .. Len(q) : i # 1 => i - 1 \in 1 .. Len(Tail(q))
           /\ \A i \in 1 .. Len(q) : i # 1 => Tail(q)[i - 1] = q[i]
<1>1. /\ Tail(q) \in Seq(S) /\ Head(q) \in S /\ Head(q) = q[1]
      /\ Len(q) \in Nat \ {0} /\ Len(Tail(q)) = Len(q) - 1
  OBVIOUS
<1>2. \A i \in 1 .. Len(Tail(q)) : Tail(q)[i] = q[i + 1]
  OBVIOUS
<1>3. /\ 1 \in 1 .. Len(q)
      /\ \A i \in 1 .. Len(Tail(q)) : i + 1 \in 1 .. Len(q)
      /\ \A i \in 1 .. Len(q) : i # 1 => i - 1 \in 1 .. Len(Tail(q))
  BY <1>1
<1>4. \A i \in 1 .. Len(q) : i # 1 => Tail(q)[i - 1] = q[i]
  <2> TAKE i \in 1 .. Len(q)
  <2> HAVE i # 1
  <2>1. i - 1 \in 1 .. Len(Tail(q)) /\ (i - 1) + 1 = i
    BY <1>1, <1>3
  <2> QED
    BY <1>2, <2>1
<1> QED
  BY <1>1, <1>2, <1>3, <1>4

\* What a sequence holds once another was put behind it.
LEMMA ConcatFacts ==
    ASSUME NEW S, NEW q \in Seq(S), NEW r \in Seq(S)
    PROVE  /\ q \o r \in Seq(S)
           /\ Len(q) \in Nat /\ Len(r) \in Nat /\ Len(q \o r) = Len(q) + Len(r)
           /\ \A i \in 1 .. Len(q) : (q \o r)[i] = q[i]
           /\ \A i \in 1 .. Len(r) : (q \o r)[Len(q) + i] = r[i]
           /\ \A i \in 1 .. Len(q \o r) : i \notin 1 .. Len(q) =>
                 i - Len(q) \in 1 .. Len(r) /\ (q \o r)[i] = r[i - Len(q)]
<1>1. /\ q \o r \in Seq(S)
      /\ Len(q) \in Nat /\ Len(r) \in Nat /\ Len(q \o r) = Len(q) + Len(r)
      /\ \A i \in 1 .. Len(q) : (q \o r)[i] = q[i]
  OBVIOUS
<1>2. \A i \in 1 .. Len(q \o r) : i \notin 1 .. Len(q) =>
         i - Len(q) \in 1 .. Len(r) /\ (q \o r)[i] = r[i - Len(q)]
  BY <1>1
<1>3. \A i \in 1 .. Len(r) : (q \o r)[Len(q) + i] = r[i]
  <2> TAKE i \in 1 .. Len(r)
  <2>1. /\ Len(q) + i \in 1 .. Len(q \o r) /\ Len(q) + i \notin 1 .. Len(q)
        /\ (Len(q) + i) - Len(q) = i
    BY <1>1
  <2> QED
    BY <1>2, <2>1
<1> QED
  BY <1>1, <1>2, <1>3

-----------------------------------------------------------------------------
(* The pieces of a task. *)

\* fulfillShutdown_ touches only its promise.
LEMMA FulfillShutdownFacts ==
    ASSUME NEW s \in Server, NEW kind \in SocketCloseKind
    PROVE  LET f == FulfillShutdown(s, kind)
           IN  /\ f \in Server
               /\ f.counter_ = s.counter_ /\ f.opening = s.opening
               /\ f.onceListening_ = s.onceListening_ /\ f.stops = s.stops
               /\ f.info = s.info /\ f.connections_ = s.connections_
               /\ f.shutdown = s.shutdown /\ f.closing = s.closing
               /\ f.onceShutdown_ \in {s.onceShutdown_, kind}
BY DEF FulfillShutdown, Server

\* A settled call counts down, and tells of the end only once a disconnection
\* was reported.
LEMMA AfterCallFacts ==
    ASSUME NEW s \in Server
    PROVE  /\ AfterCall(s) \in Server
           /\ AfterCall(s).opening = s.opening
           /\ AfterCall(s).onceListening_ = s.onceListening_
           /\ AfterCall(s).stops = s.stops
           /\ AfterCall(s).info = s.info
           /\ AfterCall(s).connections_ = s.connections_
           /\ AfterCall(s).shutdown = s.shutdown
           /\ AfterCall(s).closing = s.closing
           /\ AfterCall(s).onceShutdown_ = s.onceShutdown_ \/ s.info # "none"
<1> DEFINE d == [s EXCEPT !.counter_ = After(@)]
<1>1. After(s.counter_) \in CounterType
  BY AfterCountsDown DEF Server
<1>2. /\ d \in Server /\ d.opening = s.opening
      /\ d.onceListening_ = s.onceListening_ /\ d.stops = s.stops
      /\ d.info = s.info /\ d.connections_ = s.connections_
      /\ d.shutdown = s.shutdown /\ d.closing = s.closing
      /\ d.onceShutdown_ = s.onceShutdown_
  BY <1>1 DEF Server
<1>3. KindOf(d) \in SocketCloseKind
  BY DEF KindOf, SocketCloseKind
<1>4. AfterCall(s) = IF d.counter_.onceDestroyed_ # "pending" /\ d.info # "none"
                     THEN FulfillShutdown(d, KindOf(d)) ELSE d
  BY DEF AfterCall
<1> HIDE DEF d
<1>5. CASE d.counter_.onceDestroyed_ # "pending" /\ d.info # "none"
  BY <1>2, <1>3, <1>4, <1>5, FulfillShutdownFacts
<1>6. CASE ~ (d.counter_.onceDestroyed_ # "pending" /\ d.info # "none")
  BY <1>2, <1>4, <1>6
<1> QED
  BY <1>5, <1>6

\* shutdown() fulfills only when nothing is left to close.
LEMMA JoinClosedFacts ==
    ASSUME NEW s \in Server
    PROVE  /\ JoinClosed(s) \in Server
           /\ JoinClosed(s).opening = s.opening
           /\ JoinClosed(s).stops = s.stops
           /\ JoinClosed(s).info = s.info
           /\ JoinClosed(s).connections_ = s.connections_
           /\ JoinClosed(s).closing = s.closing
           /\ JoinClosed(s).onceShutdown_ = s.onceShutdown_
           /\ \/ JoinClosed(s).shutdown = s.shutdown
              \/ /\ s.shutdown = "closing" /\ s.closing = {}
                 /\ JoinClosed(s).shutdown = "fulfilled"
BY DEF JoinClosed, Server

\* The events of a socket that goes down: disconnections, and the outcomes of
\* close.
EndEvents ==
    [type : {"disconnect"}, errcode : {"SUCCESS", "OTHER"}]
        \union [type : {"stopped"}, ok : BOOLEAN,
                caller : {"stopListening", "shutdown"}]

\* A report of disconnections holds nothing else.
LEMMA DisconnectsFacts ==
    ASSUME NEW errcode \in {"SUCCESS", "OTHER"}, NEW ds \in Disconnects(errcode)
    PROVE  /\ ds \in Seq(EndEvents)
           /\ \A i \in 1 .. Len(ds) : ds[i].type = "disconnect"
<1>1. PICK n \in 1 .. MaxEvents :
         ds = [i \in 1 .. n |-> [type |-> "disconnect", errcode |-> errcode]]
  BY DEF Disconnects
<1>2. n \in Nat
  BY ServerAssumption, <1>1
<1>3. [type |-> "disconnect", errcode |-> errcode] \in EndEvents
  BY DEF EndEvents
<1>4. ds \in [1 .. n -> EndEvents]
  BY <1>1, <1>3
<1>5. ds \in Seq(EndEvents) /\ Len(ds) = n
  BY <1>1, <1>2, <1>4
<1> QED
  BY <1>1, <1>5

-----------------------------------------------------------------------------
(* Steps of the server. *)

\* Closing connections keeps them in the table until they report it.
LEMMA CloseConnectionsFacts ==
    ASSUME TypeOK, NEW ids, ids \subseteq Active, CloseConnections(ids)
    PROVE  /\ client' \in [SocketIds -> ClientState]
           /\ Active' = Active
           /\ \A id \in SocketIds :
                 client'[id] = "connecting" <=> client[id] = "connecting"
<1>1. /\ client \in [SocketIds -> ClientState]
      /\ \A id \in SocketIds :
            client'[id] = IF id \in ids THEN "closing" ELSE client[id]
  BY DEF CloseConnections, TypeOK
<1>2. client' = [id \in SocketIds |-> IF id \in ids THEN "closing" ELSE client[id]]
  BY DEF CloseConnections
<1>3. \A id \in ids : id \in SocketIds /\ client[id] \in {"open", "closing"}
  BY DEF Active
<1>4. client' \in [SocketIds -> ClientState]
  BY <1>1, <1>2 DEF ClientState
<1>5. \A id \in SocketIds :
         /\ client'[id] \in {"open", "closing"} <=> client[id] \in {"open", "closing"}
         /\ client'[id] = "connecting" <=> client[id] = "connecting"
  BY <1>1, <1>3
<1> QED
  BY <1>4, <1>5 DEF Active

\* The limit is kept by whatever opens no connection.
LEMMA FewerActive ==
    ASSUME WithinLimit, Active' \subseteq Active
    PROVE  WithinLimit'
<1>1. /\ IsFiniteSet(Active) /\ IsFiniteSet(SocketIds)
      /\ maxConnections_ \in Nat
  BY ServerAssumption, FS_Subset DEF Active
<1>2. /\ IsFiniteSet(Active') /\ Cardinality(Active') <= Cardinality(Active)
      /\ Cardinality(Active) \in Nat /\ Cardinality(Active') \in Nat
  BY <1>1, FS_Subset, FS_CardinalityType
<1> QED
  BY <1>1, <1>2 DEF WithinLimit

\* The calls that are unsettled can be read off the socket.
LEMMA SameUnsettled ==
    ASSUME Counted, socket'.calls = socket.calls, socket'.events = socket.events,
           server'.stops = server.stops,
           server.shutdown = "stopping" => server'.shutdown = "stopping"
    PROVE  Counted'
<1>1. \A caller \in {"stopListening", "shutdown"} :
         /\ InCalls(caller)' = InCalls(caller)
         /\ InEvents(caller)' = InEvents(caller)
  BY DEF InCalls, InEvents
<1>2. /\ OneUnsettled("stopListening")' /\ OneUnsettled("shutdown")'
      /\ Unsettled("stopListening")' <=> Unsettled("stopListening")
      /\ Unsettled("shutdown")' <=> Unsettled("shutdown")
  BY <1>1 DEF Counted, OneUnsettled, Unsettled
<1> QED
  BY <1>2 DEF Counted

\* What a step that leaves the socket alone has to keep.
LEMMA SameSocket ==
    ASSUME IInv, socket' = socket, server' \in Server,
           client' \in [SocketIds -> ClientState],
           \A id \in SocketIds :
              client'[id] = "connecting" <=> client[id] = "connecting",
           server'.stops = server.stops, server'.info = server.info,
           \/ server'.shutdown = server.shutdown
           \/ server.shutdown = "closing" /\ server'.shutdown = "fulfilled",
           \/ server'.opening = server.opening
           \/ /\ server.opening \in {"listen", "getInfo"}
              /\ server'.opening \in {"getInfo", "done"},
           server'.onceShutdown_ \in {"WE_CLOSED_IT", "UNKOWN"} =>
              server.onceShutdown_ \in {"WE_CLOSED_IT", "UNKOWN"}
              \/ server.info # "none"
    PROVE  TypeOK' /\ Reported' /\ Ended' /\ Counted'
<1>1. TypeOK'
  BY DEF IInv, TypeOK
<1>2. Reported'
  <2>1. \A i \in 1 .. Len(socket.events) :
           socket.events[i].type = "connection" => socket.events[i].id \in SocketIds
    <3>1. \A i \in 1 .. Len(socket.events) : socket.events[i] \in Event
      BY DEF IInv, TypeOK, Socket
    <3> QED
      BY <3>1 DEF Event
  <2> QED
    BY <2>1 DEF IInv, Reported
<1>3. Down => Down'
  BY DEF Down
<1>4. Ended'
  BY <1>3 DEF IInv, Ended, SilentAfter
<1>5. Counted'
  BY SameUnsettled DEF IInv
<1> QED
  BY <1>1, <1>2, <1>4, <1>5

\* listen() is called on a server whose socket nothing was asked of.
LEMMA ListenStep ==
    ASSUME IInv, Listen
    PROVE  IInv'
<1>1. /\ server \in Server /\ server.opening = "unused"
      /\ server.shutdown = "unused" /\ socket' = socket /\ client' = client
      /\ server' = [server EXCEPT !.opening = "listen", !.counter_ = Before(@)]
  BY DEF IInv, TypeOK, Listen
<1>2. Before(server.counter_) \in CounterType
  BY <1>1 DEF Server, Before, CounterType
<1>3. /\ server' \in Server /\ server'.opening = "listen"
      /\ server'.stops = server.stops /\ server'.info = server.info
      /\ server'.connections_ = server.connections_
      /\ server'.closing = server.closing
      /\ server'.shutdown = server.shutdown
      /\ server'.onceShutdown_ = server.onceShutdown_
  BY <1>1, <1>2 DEF Server
<1>4. ~ Down
  BY <1>1 DEF Down
<1>5. TypeOK' /\ Reported'
  BY <1>1, <1>3 DEF IInv, TypeOK, Reported
<1>6. Ended'
  BY <1>1, <1>3, <1>4 DEF IInv, Ended
<1>7. Counted'
  BY <1>1, <1>3, SameUnsettled DEF IInv
<1>8. Tabled' /\ WithinLimit'
  BY <1>1, <1>3 DEF IInv, Tabled, WithinLimit, Active
<1> QED
  BY <1>5, <1>6, <1>7, <1>8 DEF IInv

\* A call of close is the only one of its caller that is not settled.
LEMMA StopStep ==
    ASSUME IInv, NEW caller \in {"stopListening", "shutdown"},
           ~ Unsettled(caller), Stop(caller),
           caller = "shutdown" => server.shutdown = "unused"
    PROVE  IInv'
<1> DEFINE calls == socket.calls
           more == Append(calls, caller)
           stage == IF caller = "shutdown" THEN "stopping" ELSE server.shutdown
<1>1. /\ server \in Server /\ client' = client
      /\ socket \in Socket /\ calls \in Seq({"stopListening", "shutdown"})
      /\ socket'.calls = more
      /\ socket'.events = socket.events /\ socket'.up = socket.up
      /\ socket' \in Socket
  <2>1. /\ server \in Server /\ client' = client /\ socket \in Socket
        /\ socket' = [socket EXCEPT !.calls = more]
    BY DEF IInv, TypeOK, Stop
  <2>2. calls \in Seq({"stopListening", "shutdown"})
    BY <2>1 DEF Socket
  <2>3. more \in Seq({"stopListening", "shutdown"})
    BY <2>2
  <2> HIDE DEF more
  <2> QED
    BY <2>1, <2>2, <2>3 DEF Socket
<1>2. Before(server.counter_) \in CounterType
  BY <1>1 DEF Server, Before, CounterType
<1>3. /\ server' \in Server /\ server'.opening = server.opening
      /\ server'.stops = server.stops + 1 /\ server'.info = server.info
      /\ server'.connections_ = server.connections_
      /\ server'.closing = server.closing
      /\ server'.onceShutdown_ = server.onceShutdown_
      /\ server'.shutdown = stage
  <2> DEFINE counter == Before(server.counter_)
             n == server.stops + 1
  <2>1. n \in Nat /\ counter \in CounterType
    BY <1>1, <1>2 DEF Server
  <2>2. stage \in {"unused", "stopping", "closing", "fulfilled", "rejected"}
    BY <1>1 DEF Server
  <2>3. server' = [server EXCEPT !.counter_ = counter, !.stops = n,
                                 !.shutdown = stage]
    BY DEF Stop
  <2> HIDE DEF counter, n, stage
  <2>4. /\ server' \in Server /\ server'.opening = server.opening
        /\ server'.stops = n /\ server'.info = server.info
        /\ server'.connections_ = server.connections_
        /\ server'.closing = server.closing
        /\ server'.onceShutdown_ = server.onceShutdown_
        /\ server'.shutdown = stage
    BY <1>1, <2>1, <2>2, <2>3 DEF Server
  <2> QED
    BY <2>4 DEF n
<1>4. TypeOK' /\ Reported'
  BY <1>1, <1>3 DEF IInv, TypeOK, Reported
<1>5. Down => Down'
  BY <1>1, <1>3 DEF Down
<1>6. Ended'
  BY <1>1, <1>3, <1>5 DEF IInv, Ended, SilentAfter
<1>7. /\ Len(calls) \in Nat /\ Len(socket'.calls) = Len(calls) + 1
      /\ \A i \in 1 .. Len(calls) : socket'.calls[i] = calls[i]
      /\ socket'.calls[Len(calls) + 1] = caller
  BY <1>1
<1>8. /\ InCalls(caller)' = {Len(calls) + 1} /\ InCalls(caller) = {}
      /\ \A c : c # caller => InCalls(c)' = InCalls(c)
      /\ \A c : InEvents(c)' = InEvents(c)
      /\ InEvents(caller) = {}
  <2> HIDE DEF calls
  <2>1. InCalls(caller) = {} /\ InEvents(caller) = {}
    BY DEF Unsettled
  <2>2. \A i \in 1 .. Len(calls) + 1 : i \in 1 .. Len(calls) \/ i = Len(calls) + 1
    BY <1>7
  <2>3. \A i \in 1 .. Len(calls) : i \in 1 .. Len(calls) + 1
    BY <1>7
  <2>4. \A c : InCalls(c) = {i \in 1 .. Len(calls) : calls[i] = c}
    BY DEF InCalls, calls
  <2>5. \A c : InCalls(c)' = {i \in 1 .. Len(calls) + 1 : socket'.calls[i] = c}
    BY <1>7 DEF InCalls
  <2>6. Len(calls) + 1 \in 1 .. Len(calls) + 1
    BY <1>7
  <2>7. InCalls(caller)' = {Len(calls) + 1}
    BY <1>7, <2>1, <2>2, <2>4, <2>5, <2>6
  <2>8. \A c : c # caller => InCalls(c)' = InCalls(c)
    BY <1>7, <2>2, <2>3, <2>4, <2>5
  <2>9. \A c : InEvents(c)' = InEvents(c)
    BY <1>1 DEF InEvents
  <2> QED
    BY <2>1, <2>7, <2>8, <2>9
<1>9. Counted'
  <2>1. Unsettled(caller)' /\ ~ Unsettled(caller)
        /\ \A c : c # caller => (Unsettled(c)' <=> Unsettled(c))
    BY <1>8 DEF Unsettled
  <2>2. OneUnsettled("stopListening")' /\ OneUnsettled("shutdown")'
    BY <1>8 DEF IInv, Counted, OneUnsettled
  <2>3. Unsettled("shutdown")' => server'.shutdown = "stopping"
    BY <1>3, <2>1 DEF IInv, Counted
  <2>4. server'.stops = (IF Unsettled("stopListening")' THEN 1 ELSE 0)
                        + (IF Unsettled("shutdown")' THEN 1 ELSE 0)
    BY <1>3, <2>1 DEF IInv, Counted
  <2> QED
    BY <2>2, <2>3, <2>4 DEF Counted
<1>10. Tabled' /\ WithinLimit'
  BY <1>1, <1>3 DEF IInv, Tabled, WithinLimit, Active
<1> QED
  BY <1>4, <1>6, <1>9, <1>10 DEF IInv

\* stopListening(), shutdown() and closeAll() of the owner.
LEMMA OwnerStep ==
    ASSUME IInv, OwnerCalls
    PROVE  IInv'
<1>1. CASE Listen
  BY <1>1, ListenStep
<1>2. CASE StopListening
  <2>1. ~ Unsettled("stopListening")
    BY <1>2 DEF StopListening, IInv, Counted
  <2> QED
    BY <1>2, <2>1, StopStep DEF StopListening
<1>3. CASE Shutdown
  <2>1. ~ Unsettled("shutdown")
    BY <1>3 DEF Shutdown, IInv, Counted
  <2> QED
    BY <1>3, <2>1, StopStep DEF Shutdown
<1>4. CASE CloseAll
  <2>1. /\ CloseConnections(Active) /\ server' = server /\ socket' = socket
        /\ server \in Server
    BY <1>4 DEF CloseAll, IInv, Tabled, TypeOK
  <2>2. /\ client' \in [SocketIds -> ClientState] /\ Active' = Active
        /\ \A id \in SocketIds :
              client'[id] = "connecting" <=> client[id] = "connecting"
    BY <2>1, CloseConnectionsFacts DEF IInv
  <2>3. TypeOK' /\ Reported' /\ Ended' /\ Counted'
    <3>1. /\ server'.stops = server.stops /\ server'.info = server.info
          /\ server'.shutdown = server.shutdown
          /\ server'.opening = server.opening
          /\ server'.onceShutdown_ = server.onceShutdown_
          /\ server' \in Server
      BY <2>1
    <3> QED
      BY <2>1, <2>2, <3>1, SameSocket
  <2>4. Tabled' /\ WithinLimit'
    BY <2>1, <2>2, FewerActive DEF IInv, Tabled
  <2> QED
    BY <2>3, <2>4 DEF IInv
<1> QED
  BY <1>1, <1>2, <1>3, <1>4 DEF OwnerCalls

-----------------------------------------------------------------------------
(* Tasks of the server that no event of the socket starts. *)

\* listen() fulfills: the socket is up, and has reported nothing before.
LEMMA ListenFulfillsStep ==
    ASSUME IInv, ListenFulfills
    PROVE  IInv'
<1>1. /\ server \in Server /\ socket \in Socket /\ server.opening = "listen"
      /\ server' = [server EXCEPT !.opening = "getInfo"]
      /\ socket' = [socket EXCEPT !.up = TRUE] /\ client' = client
  BY DEF IInv, TypeOK, ListenFulfills
<1>2. /\ server' \in Server /\ server'.opening = "getInfo"
      /\ server'.stops = server.stops /\ server'.info = server.info
      /\ server'.connections_ = server.connections_
      /\ server'.closing = server.closing
      /\ server'.shutdown = server.shutdown
      /\ server'.onceShutdown_ = server.onceShutdown_
      /\ socket' \in Socket
      /\ socket'.events = socket.events /\ socket'.calls = socket.calls
  BY <1>1 DEF Server, Socket
<1>3. ~ Down
  BY <1>1 DEF Down
<1>4. TypeOK' /\ Reported'
  BY <1>1, <1>2 DEF IInv, TypeOK, Reported
<1>5. Ended'
  BY <1>2, <1>3 DEF IInv, Ended
<1>6. Counted'
  BY <1>2, SameUnsettled DEF IInv
<1>7. Tabled' /\ WithinLimit'
  BY <1>1, <1>2 DEF IInv, Tabled, WithinLimit, Active
<1> QED
  BY <1>4, <1>5, <1>6, <1>7 DEF IInv

\* getInfo() fulfills, or one of the calls of listen rejects.
LEMMA OpeningStep ==
    ASSUME IInv, InfoFulfills \/ ListenRejects
    PROVE  IInv'
<1> DEFINE s == AfterCall(server)
           told == IF InfoFulfills THEN "fulfilled" ELSE "rejected"
           t == [s EXCEPT !.opening = "done", !.onceListening_ = told]
<1>1. /\ server \in Server /\ server.opening \in {"listen", "getInfo"}
      /\ InfoFulfills => server.opening = "getInfo"
      /\ socket' = socket /\ client' = client
      /\ server' = t \/ server' = FulfillShutdown(t, "NEVER_CONNECTED")
  BY DEF IInv, TypeOK, ListenRejects, InfoFulfills
<1>2. /\ s \in Server /\ s.stops = server.stops /\ s.info = server.info
      /\ s.connections_ = server.connections_ /\ s.shutdown = server.shutdown
      /\ s.closing = server.closing
      /\ s.onceShutdown_ = server.onceShutdown_ \/ server.info # "none"
  BY <1>1, AfterCallFacts
<1>3. told \in {"pending", "fulfilled", "rejected"}
  OBVIOUS
<1> HIDE DEF s, told
<1>4. /\ t \in Server /\ t.stops = s.stops /\ t.info = s.info
      /\ t.connections_ = s.connections_ /\ t.shutdown = s.shutdown
      /\ t.closing = s.closing /\ t.onceShutdown_ = s.onceShutdown_
      /\ t.opening = "done"
  BY <1>2, <1>3 DEF Server
<1> HIDE DEF t
<1>5. "NEVER_CONNECTED" \in SocketCloseKind
  BY DEF SocketCloseKind
<1>6. /\ server' \in Server /\ server'.stops = server.stops
      /\ server'.info = server.info /\ server'.opening = "done"
      /\ server'.connections_ = server.connections_
      /\ server'.shutdown = server.shutdown /\ server'.closing = server.closing
      /\ server'.onceShutdown_ \in {server.onceShutdown_, "NEVER_CONNECTED"}
         \/ server.info # "none"
  BY <1>1, <1>2, <1>4, <1>5, FulfillShutdownFacts
<1>7. client' \in [SocketIds -> ClientState]
  BY <1>1 DEF IInv, TypeOK
<1>8. TypeOK' /\ Reported' /\ Ended' /\ Counted'
  BY <1>1, <1>6, <1>7, SameSocket
<1>9. Tabled' /\ WithinLimit'
  BY <1>1, <1>6 DEF IInv, Tabled, WithinLimit, Active
<1> QED
  BY <1>8, <1>9 DEF IInv

\* A connection closes: it leaves the table and what shutdown() waits for.
LEMMA ConnectionClosedStep ==
    ASSUME IInv, NEW id \in SocketIds, ConnectionClosed(id)
    PROVE  IInv'
<1> DEFINE s == [server EXCEPT !.connections_ = @ \ {id}, !.closing = @ \ {id}]
<1>1. /\ server \in Server /\ client \in [SocketIds -> ClientState]
      /\ client[id] \in {"open", "closing"} /\ id \in Active
      /\ client' = [client EXCEPT ![id] = "closed"]
      /\ server' = JoinClosed(s) /\ socket' = socket
  BY DEF IInv, TypeOK, ConnectionClosed, Active
<1>2. /\ s \in Server /\ s.stops = server.stops /\ s.info = server.info
      /\ s.opening = server.opening /\ s.shutdown = server.shutdown
      /\ s.onceShutdown_ = server.onceShutdown_
      /\ s.connections_ = server.connections_ \ {id}
      /\ s.closing = server.closing \ {id}
  BY <1>1 DEF Server
<1> HIDE DEF s
<1>3. /\ server' \in Server /\ server'.stops = server.stops
      /\ server'.info = server.info /\ server'.opening = server.opening
      /\ server'.onceShutdown_ = server.onceShutdown_
      /\ server'.connections_ = server.connections_ \ {id}
      /\ server'.closing = server.closing \ {id}
      /\ \/ server'.shutdown = server.shutdown
         \/ /\ server.shutdown = "closing" /\ server'.shutdown = "fulfilled"
            /\ server'.closing = {}
  BY <1>1, <1>2, JoinClosedFacts
<1>4. /\ client' \in [SocketIds -> ClientState]
      /\ Active' = Active \ {id}
      /\ \A x \in SocketIds :
            client'[x] = "connecting" <=> client[x] = "connecting"
  BY <1>1 DEF ClientState, Active
<1>5. TypeOK' /\ Reported' /\ Ended' /\ Counted'
  BY <1>1, <1>3, <1>4, SameSocket
<1>6. Tabled'
  BY <1>3, <1>4 DEF IInv, Tabled
<1>7. WithinLimit'
  BY <1>4, FewerActive DEF IInv
<1> QED
  BY <1>5, <1>6, <1>7 DEF IInv

-----------------------------------------------------------------------------
(* Tasks that handle an event of the socket. *)

\* The events that are left moved up by one.
LEMMA Handled ==
    ASSUME IInv, socket.events # <<>>,
           socket' = [socket EXCEPT !.events = Tail(@)]
    PROVE  /\ socket' \in Socket
           /\ socket'.up = socket.up /\ socket'.calls = socket.calls
           /\ Head(socket.events) \in Event
           /\ Head(socket.events) = socket.events[1]
           /\ 1 \in 1 .. Len(socket.events)
           /\ \A i \in 1 .. Len(socket'.events) :
                 /\ i + 1 \in 1 .. Len(socket.events)
                 /\ socket'.events[i] = socket.events[i + 1]
           /\ \A i \in 1 .. Len(socket.events) : i # 1 =>
                 /\ i - 1 \in 1 .. Len(socket'.events)
                 /\ socket'.events[i - 1] = socket.events[i]
           /\ Len(socket.events) \in Nat
           /\ Len(socket'.events) = Len(socket.events) - 1
<1>1. socket \in Socket
  BY DEF IInv, TypeOK
<1>2. socket.events \in Seq(Event)
  BY <1>1 DEF Socket
<1>3. /\ Tail(socket.events) \in Seq(Event)
      /\ Head(socket.events) \in Event
  BY <1>2, TailFacts
<1>4. /\ socket'.events = Tail(socket.events)
      /\ socket' \in Socket
      /\ socket'.up = socket.up /\ socket'.calls = socket.calls
  BY <1>1, <1>3 DEF Socket
<1> QED
  BY <1>2, <1>3, <1>4, TailFacts

\* What handling an event has to keep of Ended: the server believes the end
\* only of an event that says so.
LEMMA HandledEnded ==
    ASSUME IInv, socket.events # <<>>,
           socket' = [socket EXCEPT !.events = Tail(@)],
           server'.opening = server.opening,
           server.shutdown # "unused" => server'.shutdown # "unused",
           server.info # "none" => server'.info # "none",
           server'.info # "none" =>
              server.info # "none" \/ Final(Head(socket.events)),
           server'.shutdown \in {"closing", "fulfilled"} =>
              \/ server.shutdown \in {"closing", "fulfilled"}
              \/ Final(Head(socket.events)),
           server'.onceShutdown_ \in {"WE_CLOSED_IT", "UNKOWN"} =>
              \/ server.onceShutdown_ \in {"WE_CLOSED_IT", "UNKOWN"}
              \/ server'.info # "none"
    PROVE  Ended'
<1>1. Down => Down'
  BY Handled DEF Down
<1>2. ASSUME NEW n \in Nat, SilentAfter(n + 1)
      PROVE  SilentAfter(n)'
  <2> SUFFICES ASSUME NEW i \in n + 1 .. Len(socket'.events)
               PROVE  socket'.events[i].type # "connection"
    BY DEF SilentAfter
  <2>1. /\ i \in 1 .. Len(socket'.events)
        /\ i + 1 \in (n + 1) + 1 .. Len(socket.events)
    BY Handled
  <2> QED
    BY <1>2, <2>1, Handled DEF SilentAfter
<1>3. ASSUME SilentAfter(0) \/ SilentAfter(1)
      PROVE  SilentAfter(0)'
  <2>1. SilentAfter(0) => SilentAfter(0 + 1)
    BY DEF SilentAfter
  <2> QED
    BY <1>2, <1>3, <2>1
<1>4. Final(Head(socket.events)) => Down /\ SilentAfter(1)
  BY Handled DEF IInv, Ended
<1>5. ASSUME NEW i \in 1 .. Len(socket'.events), Final(socket'.events[i])
      PROVE  Down' /\ SilentAfter(i)'
  <2>1. i \in Nat /\ Down /\ SilentAfter(i + 1)
    BY <1>5, Handled DEF IInv, Ended
  <2> QED
    BY <1>1, <1>2, <2>1
<1>6. server'.info # "none" \/ server'.shutdown \in {"closing", "fulfilled"} =>
         Down' /\ SilentAfter(0)'
  BY <1>1, <1>3, <1>4 DEF IInv, Ended
<1>7. socket'.up => server'.opening \in {"getInfo", "done"}
  BY Handled DEF IInv, Ended
<1>8. server'.onceShutdown_ \in {"WE_CLOSED_IT", "UNKOWN"} =>
         server'.info # "none"
  BY DEF IInv, Ended
<1> QED
  BY <1>5, <1>6, <1>7, <1>8 DEF Ended

\* The client whose connection is handled waits no longer.
LEMMA HandledReported ==
    ASSUME IInv, socket.events # <<>>,
           socket' = [socket EXCEPT !.events = Tail(@)],
           \A id \in SocketIds : client'[id] = "connecting" <=>
              /\ client[id] = "connecting"
              /\ ~ (/\ Head(socket.events).type = "connection"
                    /\ Head(socket.events).id = id)
    PROVE  Reported'
<1>1. ASSUME NEW i \in 1 .. Len(socket'.events),
             socket'.events[i].type = "connection"
      PROVE  /\ client'[socket'.events[i].id] = "connecting"
             /\ \A j \in 1 .. Len(socket'.events) :
                   socket'.events[j].type = "connection"
                   /\ socket'.events[j].id = socket'.events[i].id => j = i
  <2> DEFINE e == socket.events[i + 1]
  <2>1. /\ i \in Nat /\ i + 1 \in 1 .. Len(socket.events)
        /\ socket'.events[i] = e /\ e.type = "connection"
    BY <1>1, Handled
  <2>2. e.id \in SocketIds
    <3>1. e \in Event
      BY <2>1 DEF IInv, TypeOK, Socket
    <3> QED
      BY <2>1, <3>1 DEF Event
  <2>3. ~ (/\ Head(socket.events).type = "connection"
           /\ Head(socket.events).id = e.id)
    <3>1. /\ 1 # i + 1 /\ 1 \in 1 .. Len(socket.events)
          /\ Head(socket.events) = socket.events[1]
      BY <2>1, Handled
    <3>2. \A j \in 1 .. Len(socket.events) :
             socket.events[j].type = "connection" /\ socket.events[j].id = e.id
             => j = i + 1
      BY <2>1 DEF IInv, Reported
    <3> QED
      BY <3>1, <3>2
  <2>4. client[e.id] = "connecting"
    BY <2>1 DEF IInv, Reported
  <2>5. ASSUME NEW j \in 1 .. Len(socket'.events),
               socket'.events[j].type = "connection",
               socket'.events[j].id = e.id
        PROVE  j = i
    <3>1. /\ j \in Nat /\ j + 1 \in 1 .. Len(socket.events)
          /\ socket.events[j + 1] = socket'.events[j]
      BY Handled
    <3>2. j + 1 = i + 1
      BY <2>1, <2>5, <3>1 DEF IInv, Reported
    <3> QED
      BY <2>1, <3>1, <3>2
  <2> QED
    BY <2>1, <2>2, <2>3, <2>4, <2>5
<1>2. ASSUME NEW id \in SocketIds, client'[id] = "connecting"
      PROVE  \E i \in 1 .. Len(socket'.events) :
                socket'.events[i].type = "connection" /\ socket'.events[i].id = id
  <2>1. PICK i \in 1 .. Len(socket.events) :
           socket.events[i].type = "connection" /\ socket.events[i].id = id
    BY <1>2 DEF IInv, Reported
  <2>2. i # 1
    BY <1>2, <2>1, Handled
  <2> QED
    BY <2>1, <2>2, Handled
<1> QED
  BY <1>1, <1>2 DEF Reported

\* A handled event settles the call of close that it is the outcome of.
LEMMA HandledCounted ==
    ASSUME IInv, socket.events # <<>>,
           socket' = [socket EXCEPT !.events = Tail(@)],
           NEW e, e = Head(socket.events),
           server'.stops = server.stops - (IF e.type = "stopped" THEN 1 ELSE 0),
           server.shutdown = "stopping" =>
              \/ server'.shutdown = "stopping"
              \/ e.type = "stopped" /\ e.caller = "shutdown"
    PROVE  Counted'
<1>1. /\ e \in Event /\ e = socket.events[1] /\ 1 \in 1 .. Len(socket.events)
  BY Handled
<1>2. e.type = "stopped" => e.caller \in {"stopListening", "shutdown"}
  BY <1>1 DEF Event
<1>3. ASSUME NEW c \in {"stopListening", "shutdown"}
      PROVE  /\ InCalls(c)' = InCalls(c)
             /\ OneUnsettled(c) => OneUnsettled(c)'
             /\ InEvents(c)' # {} <=> \E i \in InEvents(c) : i # 1
  <2>1. InCalls(c)' = InCalls(c)
    BY Handled DEF InCalls
  <2>2. \A i \in InEvents(c)' : i \in Nat /\ i + 1 \in InEvents(c) /\ i + 1 # 1
    BY Handled DEF InEvents
  <2>3. \A i \in InEvents(c) : i # 1 => i - 1 \in InEvents(c)'
    BY Handled DEF InEvents
  <2>4. ASSUME OneUnsettled(c)
        PROVE  OneUnsettled(c)'
    <3>1. \A i, j \in InEvents(c)' : i = j
      BY <2>2, <2>4 DEF OneUnsettled
    <3> QED
      BY <2>1, <2>2, <2>4, <3>1 DEF OneUnsettled
  <2> QED
    BY <2>1, <2>2, <2>3, <2>4
<1>4. ASSUME NEW c \in {"stopListening", "shutdown"}, OneUnsettled(c)
      PROVE  IF e.type = "stopped" /\ e.caller = c
             THEN Unsettled(c) /\ ~ Unsettled(c)'
             ELSE Unsettled(c)' <=> Unsettled(c)
  <2>1. 1 \in InEvents(c) <=> e.type = "stopped" /\ e.caller = c
    BY <1>1 DEF InEvents
  <2> QED
    BY <1>3, <1>4, <2>1 DEF Unsettled, OneUnsettled
<1>5. /\ OneUnsettled("stopListening") /\ OneUnsettled("shutdown")
      /\ OneUnsettled("stopListening")' /\ OneUnsettled("shutdown")'
  BY <1>3 DEF IInv, Counted
<1>6. /\ IF e.type = "stopped" /\ e.caller = "shutdown"
         THEN Unsettled("shutdown") /\ ~ Unsettled("shutdown")'
         ELSE Unsettled("shutdown")' <=> Unsettled("shutdown")
      /\ IF e.type = "stopped" /\ e.caller = "stopListening"
         THEN Unsettled("stopListening") /\ ~ Unsettled("stopListening")'
         ELSE Unsettled("stopListening")' <=> Unsettled("stopListening")
  BY <1>4, <1>5
<1>7. server'.stops = (IF Unsettled("stopListening")' THEN 1 ELSE 0)
                        + (IF Unsettled("shutdown")' THEN 1 ELSE 0)
  BY <1>2, <1>6 DEF IInv, Counted
<1>8. Unsettled("shutdown")' => server'.shutdown = "stopping"
  BY <1>6 DEF IInv, Counted
<1> QED
  BY <1>5, <1>7, <1>8 DEF Counted

\* A connection that is accepted makes one more, below the limit; one that is
\* dropped makes none.
LEMMA OnConnectionStep ==
    ASSUME IInv, OnConnection
    PROVE  IInv'
<1> DEFINE e == Head(socket.events)
           id == e.id
<1>1. /\ server \in Server /\ client \in [SocketIds -> ClientState]
      /\ socket.events # <<>> /\ e.type = "connection"
      /\ socket' = [socket EXCEPT !.events = Tail(@)]
  BY DEF IInv, TypeOK, OnConnection
<1>2. e \in Event /\ id \in SocketIds /\ client[id] = "connecting"
  <2>1. e \in Event /\ e = socket.events[1] /\ 1 \in 1 .. Len(socket.events)
    BY <1>1, Handled
  <2>2. client[id] = "connecting"
    BY <1>1, <2>1 DEF IInv, Reported
  <2> QED
    BY <1>1, <2>1, <2>2 DEF Event
<1>3. \/ /\ Full /\ server' = server
         /\ client' = [client EXCEPT ![id] = "dropped"]
      \/ /\ ~ Full /\ client' = [client EXCEPT ![id] = "open"]
         /\ server' = [server EXCEPT !.connections_ = @ \union {id}]
  BY DEF OnConnection
<1>4. ~ Final(e)
  BY <1>1 DEF Final
<1>5. server.shutdown \notin {"closing", "fulfilled"}
  <2>1. ~ SilentAfter(0)
    BY <1>1, Handled DEF SilentAfter
  <2> QED
    BY <2>1 DEF IInv, Ended
<1> HIDE DEF e, id
<1>6. /\ server' \in Server /\ server'.opening = server.opening
      /\ server'.stops = server.stops /\ server'.info = server.info
      /\ server'.shutdown = server.shutdown
      /\ server'.closing = server.closing
      /\ server'.onceShutdown_ = server.onceShutdown_
      /\ server'.connections_ =
            IF Full THEN server.connections_ ELSE server.connections_ \union {id}
  <2> DEFINE more == server.connections_ \union {id}
  <2>1. more \in SUBSET SocketIds
    BY <1>1, <1>2 DEF Server
  <2>2. CASE Full
    BY <1>1, <1>3, <2>2
  <2>3. CASE ~ Full
    <3>1. server' = [server EXCEPT !.connections_ = more]
      BY <1>3, <2>3
    <3> HIDE DEF more
    <3>2. /\ server' \in Server /\ server'.opening = server.opening
          /\ server'.stops = server.stops /\ server'.info = server.info
          /\ server'.shutdown = server.shutdown
          /\ server'.closing = server.closing
          /\ server'.onceShutdown_ = server.onceShutdown_
          /\ server'.connections_ = more
      BY <1>1, <2>1, <3>1 DEF Server
    <3> QED
      BY <2>3, <3>2 DEF more
  <2> QED
    BY <2>2, <2>3
<1>7. /\ client' \in [SocketIds -> ClientState]
      /\ Active' = IF Full THEN Active ELSE Active \union {id}
      /\ \A x \in SocketIds : client'[x] = "connecting" <=>
            client[x] = "connecting" /\ x # id
  BY <1>1, <1>2, <1>3 DEF ClientState, Active
<1>8. TypeOK'
  BY <1>1, <1>6, <1>7, Handled DEF TypeOK
<1>9. Reported'
  BY <1>1, <1>7, HandledReported DEF e, id
<1>10. Ended'
  <2>1. /\ server'.info # "none" => server.info # "none"
        /\ server'.shutdown \in {"closing", "fulfilled"} =>
              server.shutdown \in {"closing", "fulfilled"}
    BY <1>6
  <2> QED
    BY <1>1, <1>6, <2>1, HandledEnded
<1>11. Counted'
  <2>1. server'.stops = server.stops - (IF e.type = "stopped" THEN 1 ELSE 0)
    BY <1>1, <1>6 DEF Server
  <2> QED
    BY <1>1, <1>6, <2>1, HandledCounted DEF e
<1>12. Tabled'
  BY <1>5, <1>6, <1>7 DEF IInv, Tabled
<1>13. WithinLimit'
  <2>1. CASE Full
    BY <1>7, <2>1, FewerActive DEF IInv
  <2>2. CASE ~ Full
    <3>1. /\ IsFiniteSet(Active) /\ Cardinality(Active) \in Nat
          /\ maxConnections_ \in Nat
      BY ServerAssumption, FS_Subset, FS_CardinalityType DEF Active
    <3>2. id \notin Active
      BY <1>2 DEF Active
    <3>3. Cardinality(Active \union {id}) = Cardinality(Active) + 1
      BY <3>1, <3>2, FS_AddElement
    <3>4. Cardinality(Active) < maxConnections_
      BY <2>2, <3>1 DEF Full, IInv, Tabled
    <3> QED
      BY <1>7, <2>2, <3>1, <3>3, <3>4 DEF WithinLimit
  <2> QED
    BY <2>1, <2>2
<1> QED
  BY <1>8, <1>9, <1>10, <1>11, <1>12, <1>13 DEF IInv

\* A disconnection counts once, and tells of an end that is true.
LEMMA OnDisconnectStep ==
    ASSUME IInv, OnDisconnect
    PROVE  IInv'
<1> DEFINE e == Head(socket.events)
           info == IF server.info = "none" THEN e.errcode ELSE server.info
           s == [server EXCEPT !.info = info]
<1>1. /\ server \in Server /\ socket.events # <<>> /\ e.type = "disconnect"
      /\ socket' = [socket EXCEPT !.events = Tail(@)]
      /\ server' = AfterCall(s) /\ client' = client
      /\ client \in [SocketIds -> ClientState]
  BY DEF IInv, TypeOK, OnDisconnect
<1>2. e \in Event /\ e.errcode \in {"SUCCESS", "OTHER"}
  BY <1>1, Handled DEF Event
<1>3. info \in {"SUCCESS", "OTHER"}
  BY <1>1, <1>2 DEF Server
<1>4. Final(e)
  BY <1>1 DEF Final
<1> HIDE DEF e, info
<1>5. /\ s \in Server /\ s.stops = server.stops /\ s.info = info
      /\ s.opening = server.opening /\ s.connections_ = server.connections_
      /\ s.shutdown = server.shutdown /\ s.closing = server.closing
      /\ s.onceShutdown_ = server.onceShutdown_
  BY <1>1, <1>3 DEF Server
<1> HIDE DEF s
<1>6. /\ server' \in Server /\ server'.stops = server.stops
      /\ server'.info = info /\ server'.opening = server.opening
      /\ server'.connections_ = server.connections_
      /\ server'.shutdown = server.shutdown /\ server'.closing = server.closing
  BY <1>1, <1>5, AfterCallFacts
<1>7. info # "none"
  BY <1>3
<1>8. TypeOK'
  BY <1>1, <1>6, Handled DEF TypeOK
<1>9. Reported'
  BY <1>1, HandledReported DEF e
<1>10. Ended'
  <2>1. server'.info # "none" /\ Final(Head(socket.events))
    BY <1>4, <1>6, <1>7 DEF e
  <2> QED
    BY <1>1, <1>6, <2>1, HandledEnded
<1>11. Counted'
  <2>1. server'.stops = server.stops - (IF e.type = "stopped" THEN 1 ELSE 0)
    BY <1>1, <1>6 DEF Server
  <2> QED
    BY <1>1, <1>6, <2>1, HandledCounted DEF e
<1>12. Tabled' /\ WithinLimit'
  BY <1>1, <1>6 DEF IInv, Tabled, WithinLimit, Active
<1> QED
  BY <1>8, <1>9, <1>10, <1>11, <1>12 DEF IInv

\* The outcome of close: only that of shutdown(), when it succeeded, starts the
\* closing of all that is in the table.
LEMMA StopSettlesStep ==
    ASSUME IInv, StopSettles
    PROVE  IInv'
<1> DEFINE e == Head(socket.events)
           a == AfterCall(server)
           s == [a EXCEPT !.stops = @ - 1]
           all == [s EXCEPT !.shutdown = "closing", !.closing = s.connections_]
<1>1. /\ server \in Server /\ socket.events # <<>> /\ e.type = "stopped"
      /\ socket' = [socket EXCEPT !.events = Tail(@)]
      /\ client \in [SocketIds -> ClientState]
  BY DEF IInv, TypeOK, StopSettles
<1>2. /\ e \in Event /\ e.caller \in {"stopListening", "shutdown"}
      /\ e.ok \in BOOLEAN
  BY <1>1, Handled DEF Event
<1>3. \/ e.caller = "stopListening" /\ server' = s /\ client' = client
      \/ /\ e.caller = "shutdown" /\ ~ e.ok /\ server' = StopFailed(s)
         /\ client' = client
      \/ /\ e.caller = "shutdown" /\ e.ok /\ server' = JoinClosed(all)
         /\ CloseConnections(s.connections_)
  BY <1>2 DEF StopSettles
<1>4. Unsettled(e.caller) /\ server.stops \in Nat \ {0}
  <2>1. 1 \in InEvents(e.caller)
    BY <1>1, Handled DEF InEvents
  <2>2. Unsettled(e.caller)
    BY <2>1 DEF Unsettled
  <2> QED
    BY <1>2, <2>2 DEF IInv, Counted
<1>5. e.caller = "shutdown" => server.shutdown = "stopping"
  BY <1>4 DEF IInv, Counted
<1>6. e.caller = "shutdown" /\ e.ok => Final(e)
  BY <1>1 DEF Final
<1> HIDE DEF e
<1>7. /\ a \in Server /\ a.opening = server.opening /\ a.stops = server.stops
      /\ a.info = server.info /\ a.connections_ = server.connections_
      /\ a.shutdown = server.shutdown /\ a.closing = server.closing
      /\ a.onceShutdown_ = server.onceShutdown_ \/ server.info # "none"
  BY <1>1, AfterCallFacts
<1> HIDE DEF a
<1>8. /\ s \in Server /\ s.opening = server.opening
      /\ s.stops = server.stops - 1
      /\ s.info = server.info /\ s.connections_ = server.connections_
      /\ s.shutdown = server.shutdown /\ s.closing = server.closing
      /\ s.onceShutdown_ = server.onceShutdown_ \/ server.info # "none"
  <2> DEFINE n == a.stops - 1
  <2>1. n \in Nat /\ n = server.stops - 1 /\ s = [a EXCEPT !.stops = n]
    BY <1>4, <1>7
  <2> HIDE DEF n, s
  <2> QED
    BY <1>7, <2>1 DEF Server
<1> HIDE DEF s
<1>9. /\ all \in Server /\ all.opening = s.opening /\ all.stops = s.stops
      /\ all.info = s.info /\ all.connections_ = s.connections_
      /\ all.shutdown = "closing" /\ all.closing = s.connections_
      /\ all.onceShutdown_ = s.onceShutdown_
  BY <1>8 DEF Server
<1> HIDE DEF all
<1>10. /\ server' \in Server /\ server'.opening = server.opening
       /\ server'.stops = server.stops - 1
       /\ server'.info = server.info
       /\ server'.connections_ = server.connections_
       /\ server'.onceShutdown_ = server.onceShutdown_ \/ server.info # "none"
  <2>1. CASE e.caller = "stopListening" /\ server' = s
    BY <1>8, <2>1
  <2>2. CASE server' = StopFailed(s)
    BY <1>8, <2>2 DEF StopFailed, Server
  <2>3. CASE server' = JoinClosed(all)
    BY <1>8, <1>9, <2>3, JoinClosedFacts
  <2> QED
    BY <1>3, <2>1, <2>2, <2>3
<1>11. \/ /\ e.caller = "stopListening" /\ server'.shutdown = server.shutdown
          /\ server'.closing = server.closing
       \/ /\ e.caller = "shutdown" /\ server'.shutdown = "rejected"
       \/ /\ e.caller = "shutdown" /\ Final(e)
          /\ server'.closing = server.connections_
          /\ \/ server'.shutdown = "closing"
             \/ server'.shutdown = "fulfilled" /\ server.connections_ = {}
  <2>1. CASE e.caller = "stopListening" /\ server' = s
    BY <1>8, <2>1
  <2>2. CASE e.caller = "shutdown" /\ server' = StopFailed(s)
    BY <1>8, <2>2 DEF StopFailed, Server
  <2>3. CASE e.caller = "shutdown" /\ e.ok /\ server' = JoinClosed(all)
    BY <1>6, <1>8, <1>9, <2>3, JoinClosedFacts
  <2> QED
    BY <1>3, <2>1, <2>2, <2>3
<1>12. /\ client' \in [SocketIds -> ClientState] /\ Active' = Active
       /\ \A x \in SocketIds :
             client'[x] = "connecting" <=> client[x] = "connecting"
  <2>1. CASE client' = client
    BY <1>1, <2>1 DEF Active
  <2>2. CASE CloseConnections(s.connections_)
    BY <1>8, <2>2, CloseConnectionsFacts DEF IInv, Tabled
  <2> QED
    BY <1>3, <2>1, <2>2
<1>13. TypeOK'
  BY <1>1, <1>10, <1>12, Handled DEF TypeOK
<1>14. Reported'
  BY <1>1, <1>12, HandledReported DEF e
<1>15. Ended'
  <2>1. /\ server'.info # "none" => server.info # "none"
        /\ server.shutdown # "unused" => server'.shutdown # "unused"
        /\ server'.shutdown \in {"closing", "fulfilled"} =>
              \/ server.shutdown \in {"closing", "fulfilled"}
              \/ Final(Head(socket.events))
    BY <1>10, <1>11 DEF e
  <2> QED
    BY <1>1, <1>10, <2>1, HandledEnded
<1>16. Counted'
  <2>1. server'.stops = server.stops - (IF e.type = "stopped" THEN 1 ELSE 0)
    BY <1>1, <1>10
  <2>2. server.shutdown = "stopping" =>
           \/ server'.shutdown = "stopping"
           \/ e.type = "stopped" /\ e.caller = "shutdown"
    BY <1>1, <1>11
  <2> QED
    BY <1>1, <2>1, <2>2, HandledCounted DEF e
<1>17. Tabled'
  BY <1>5, <1>10, <1>11, <1>12 DEF IInv, Tabled
<1>18. WithinLimit'
  BY <1>12, FewerActive DEF IInv
<1> QED
  BY <1>13, <1>14, <1>15, <1>16, <1>17, <1>18 DEF IInv

-----------------------------------------------------------------------------
(* Steps of the socket. *)

\* A client that connects is reported behind everything else, by a socket that
\* is up and so has reported no end.
LEMMA IncomingStep ==
    ASSUME IInv, NEW id \in SocketIds, Incoming(id)
    PROVE  IInv'
<1> DEFINE q == socket.events
           e == [type |-> "connection", id |-> id]
           n == Len(q)
<1>1. /\ socket \in Socket /\ client \in [SocketIds -> ClientState]
      /\ socket.up /\ client[id] = "new" /\ server' = server
      /\ client' = [client EXCEPT ![id] = "connecting"]
      /\ socket' = [socket EXCEPT !.events = Append(q, e)]
  BY DEF IInv, TypeOK, Incoming
<1>2. q \in Seq(Event) /\ e \in Event /\ Append(q, e) \in Seq(Event)
  <2>1. q \in Seq(Event)
    BY <1>1 DEF Socket
  <2>2. e \in Event
    BY DEF Event
  <2> HIDE DEF q, e
  <2> QED
    BY <2>1, <2>2
<1>3. /\ n \in Nat /\ Len(Append(q, e)) = n + 1
      /\ \A i \in 1 .. n : Append(q, e)[i] = q[i]
      /\ Append(q, e)[n + 1] = e
  <2> HIDE DEF q, e
  <2> QED
    BY <1>2
<1>4. e.type = "connection" /\ e.id = id
  OBVIOUS
<1>5. /\ socket' \in Socket /\ socket'.up = socket.up
      /\ socket'.calls = socket.calls
      /\ socket'.events = Append(q, e)
  <2> DEFINE more == Append(q, e)
  <2>1. more \in Seq(Event) /\ socket' = [socket EXCEPT !.events = more]
    BY <1>1, <1>2
  <2> HIDE DEF more
  <2>2. /\ socket' \in Socket /\ socket'.up = socket.up
        /\ socket'.calls = socket.calls /\ socket'.events = more
    BY <1>1, <2>1 DEF Socket
  <2> QED
    BY <2>2 DEF more
<1>6. /\ Len(socket'.events) = n + 1 /\ 1 .. n \subseteq 1 .. n + 1
      /\ \A i \in 1 .. n + 1 : i \in 1 .. n \/ i = n + 1
      /\ n + 1 \in 1 .. n + 1
      /\ \A i \in 1 .. n : socket'.events[i] = q[i]
      /\ socket'.events[n + 1] = e
  BY <1>3, <1>5
<1>7. /\ client' \in [SocketIds -> ClientState]
      /\ Active' = Active
      /\ \A x \in SocketIds : client'[x] = "connecting" <=>
            client[x] = "connecting" \/ x = id
      /\ client[id] # "connecting"
  BY <1>1 DEF ClientState, Active
<1>8. ~ Down
  BY <1>1 DEF Down
<1>9. /\ \A i \in 1 .. n : ~ Final(q[i])
      /\ server.info = "none"
      /\ server.shutdown \notin {"closing", "fulfilled"}
  BY <1>8 DEF IInv, Ended
<1>10. ~ Final(e)
  BY <1>4 DEF Final
<1> HIDE DEF e
<1>11. TypeOK'
  BY <1>1, <1>5, <1>7 DEF IInv, TypeOK
<1>12. Reported'
  <2>1. \A i \in 1 .. n : q[i].type = "connection" =>
           q[i].id \in SocketIds /\ client[q[i].id] = "connecting"
    <3>1. \A i \in 1 .. n : q[i] \in Event
      BY <1>2, <1>3
    <3> QED
      BY <3>1 DEF IInv, Reported, Event
  <2>2. ASSUME NEW i \in 1 .. n + 1, socket'.events[i].type = "connection"
        PROVE  /\ client'[socket'.events[i].id] = "connecting"
               /\ \A j \in 1 .. n + 1 :
                     socket'.events[j].type = "connection"
                     /\ socket'.events[j].id = socket'.events[i].id => j = i
    <3>1. CASE i = n + 1
      BY <1>4, <1>6, <1>7, <2>1, <3>1
    <3>2. CASE i \in 1 .. n
      <4>1. socket'.events[i] = q[i] /\ q[i].id # id
        BY <1>6, <1>7, <2>1, <2>2, <3>2
      <4>2. client'[q[i].id] = "connecting"
        BY <1>7, <2>1, <2>2, <3>2, <4>1
      <4>3. \A j \in 1 .. n :
               q[j].type = "connection" /\ q[j].id = q[i].id => j = i
        BY <2>2, <3>2, <4>1 DEF IInv, Reported
      <4>4. \A j \in 1 .. n + 1 :
               socket'.events[j].type = "connection"
               /\ socket'.events[j].id = q[i].id => j = i
        BY <1>4, <1>6, <4>1, <4>3
      <4> QED
        BY <4>1, <4>2, <4>4
    <3> QED
      BY <1>6, <3>1, <3>2
  <2>3. ASSUME NEW x \in SocketIds, client'[x] = "connecting"
        PROVE  \E i \in 1 .. n + 1 :
                  socket'.events[i].type = "connection" /\ socket'.events[i].id = x
    <3>1. CASE x = id
      BY <1>4, <1>6, <3>1
    <3>2. CASE x # id
      <4>1. PICK i \in 1 .. n : q[i].type = "connection" /\ q[i].id = x
        BY <1>7, <2>3, <3>2 DEF IInv, Reported
      <4> QED
        BY <1>6, <4>1
    <3> QED
      BY <3>1, <3>2
  <2> HIDE DEF n, q
  <2> QED
    BY <1>6, <2>2, <2>3 DEF Reported
<1>13. Ended'
  <2>1. \A i \in 1 .. n + 1 : ~ Final(socket'.events[i])
    BY <1>6, <1>9, <1>10
  <2>2. socket'.up => server'.opening \in {"getInfo", "done"}
    BY <1>1, <1>5 DEF IInv, Ended
  <2>3. server'.onceShutdown_ \in {"WE_CLOSED_IT", "UNKOWN"} =>
           server'.info # "none"
    BY <1>1 DEF IInv, Ended
  <2> QED
    BY <1>1, <1>6, <1>9, <2>1, <2>2, <2>3 DEF Ended
<1>14. Counted'
  <2>1. \A c \in {"stopListening", "shutdown"} :
           /\ InCalls(c)' = InCalls(c)
           /\ InEvents(c)' = InEvents(c)
    <3>1. e.type # "stopped"
      BY <1>4
    <3> QED
      BY <1>5, <1>6, <3>1 DEF InCalls, InEvents
  <2>2. /\ OneUnsettled("stopListening")' /\ OneUnsettled("shutdown")'
        /\ Unsettled("stopListening")' <=> Unsettled("stopListening")
        /\ Unsettled("shutdown")' <=> Unsettled("shutdown")
    BY <2>1 DEF IInv, Counted, OneUnsettled, Unsettled
  <2> QED
    BY <1>1, <2>2 DEF IInv, Counted
<1>15. Tabled' /\ WithinLimit'
  BY <1>1, <1>7, FewerActive DEF IInv, Tabled
<1> QED
  BY <1>11, <1>12, <1>13, <1>14, <1>15 DEF IInv

\* Where the events of a socket's end are put.
LEMMA EndedReports ==
    ASSUME IInv, NEW es \in Seq(EndEvents),
           socket' \in Socket, socket'.events = socket.events \o es
    PROVE  /\ \A i \in 1 .. Len(socket.events) :
                 /\ i \in 1 .. Len(socket'.events)
                 /\ socket'.events[i] = socket.events[i]
           /\ \A i \in 1 .. Len(es) :
                 /\ Len(socket.events) + i \in 1 .. Len(socket'.events)
                 /\ socket'.events[Len(socket.events) + i] = es[i]
           /\ \A i \in 1 .. Len(socket'.events) : i \notin 1 .. Len(socket.events) =>
                 /\ i - Len(socket.events) \in 1 .. Len(es)
                 /\ socket'.events[i] = es[i - Len(socket.events)]
                 /\ socket'.events[i] \in EndEvents
           /\ Len(socket.events) \in Nat /\ Len(es) \in Nat
           /\ Len(socket'.events) = Len(socket.events) + Len(es)
<1>1. socket.events \in Seq(Event)
  BY DEF IInv, TypeOK, Socket
<1>2. es \in Seq(Event)
  <2>1. EndEvents \subseteq Event
    BY DEF EndEvents, Event
  <2> QED
    BY <2>1
<1>3. \A i \in 1 .. Len(es) : es[i] \in EndEvents
  OBVIOUS
<1> QED
  BY <1>1, <1>2, <1>3, ConcatFacts

\* A socket goes down, or was down: what it reports then is true, and no
\* connection follows.
LEMMA EndStep ==
    ASSUME IInv, NEW es \in Seq(EndEvents),
           socket' \in Socket, socket'.events = socket.events \o es,
           ~ socket'.up, server.opening # "listen",
           \A i \in 1 .. Len(es) : Final(es[i]) =>
              server.opening # "unused" \/ server.shutdown # "unused",
           UNCHANGED <<server, client>>
    PROVE  TypeOK' /\ Reported' /\ Ended' /\ Tabled' /\ WithinLimit'
<1>1. TypeOK' /\ Tabled' /\ WithinLimit'
  BY DEF IInv, TypeOK, Tabled, WithinLimit, Active
<1>2. \A e \in EndEvents : e.type # "connection"
  BY DEF EndEvents
<1>3. Reported'
  <2>1. \A i \in 1 .. Len(socket'.events) :
           socket'.events[i].type = "connection" => i \in 1 .. Len(socket.events)
    BY <1>2, EndedReports
  <2>2. ASSUME NEW i \in 1 .. Len(socket'.events),
               socket'.events[i].type = "connection"
        PROVE  /\ client'[socket'.events[i].id] = "connecting"
               /\ \A j \in 1 .. Len(socket'.events) :
                     socket'.events[j].type = "connection"
                     /\ socket'.events[j].id = socket'.events[i].id => j = i
    BY <2>1, <2>2, EndedReports DEF IInv, Reported
  <2>3. ASSUME NEW x \in SocketIds, client'[x] = "connecting"
        PROVE  \E i \in 1 .. Len(socket'.events) :
                  socket'.events[i].type = "connection" /\ socket'.events[i].id = x
    <3>1. PICK i \in 1 .. Len(socket.events) :
             socket.events[i].type = "connection" /\ socket.events[i].id = x
      BY <2>3 DEF IInv, Reported
    <3> QED
      BY <3>1, EndedReports
  <2> QED
    BY <2>2, <2>3 DEF Reported
<1>4. Down => Down'
  BY DEF Down
<1>5. ASSUME NEW n \in Nat, SilentAfter(n)
      PROVE  SilentAfter(n)'
  <2> SUFFICES ASSUME NEW i \in n + 1 .. Len(socket'.events)
               PROVE  socket'.events[i].type # "connection"
    BY DEF SilentAfter
  <2>1. i \in 1 .. Len(socket'.events)
    BY EndedReports
  <2>2. CASE i \in 1 .. Len(socket.events)
    <3>1. i \in n + 1 .. Len(socket.events)
      BY <2>2, EndedReports
    <3> QED
      BY <1>5, <2>2, <3>1, EndedReports DEF SilentAfter
  <2>3. CASE i \notin 1 .. Len(socket.events)
    BY <1>2, <2>1, <2>3, EndedReports
  <2> QED
    BY <2>2, <2>3
<1>6. ASSUME NEW i \in 1 .. Len(socket'.events), Final(socket'.events[i])
      PROVE  Down' /\ SilentAfter(i)'
  <2>1. CASE i \in 1 .. Len(socket.events)
    BY <1>4, <1>5, <1>6, <2>1, EndedReports DEF IInv, Ended
  <2>2. CASE i \notin 1 .. Len(socket.events)
    <3>1. Down'
      BY <1>6, <2>2, EndedReports DEF Down
    <3>2. SilentAfter(i)'
      <4> SUFFICES ASSUME NEW j \in i + 1 .. Len(socket'.events)
                   PROVE  socket'.events[j].type # "connection"
        BY DEF SilentAfter
      <4>1. j \in 1 .. Len(socket'.events) /\ j \notin 1 .. Len(socket.events)
        BY <2>2, EndedReports
      <4> QED
        BY <1>2, <4>1, EndedReports
    <3> QED
      BY <3>1, <3>2
  <2> QED
    BY <2>1, <2>2
<1>7. Ended'
  BY <1>4, <1>5, <1>6 DEF IInv, Ended
<1> QED
  BY <1>1, <1>3, <1>7

\* The socket fails: it reports disconnections, and settles no call.
LEMMA SocketFailsStep ==
    ASSUME IInv, SocketFails
    PROVE  IInv'
<1>1. PICK ds \in Disconnects("OTHER") :
         socket' = [socket EXCEPT !.up = FALSE, !.events = @ \o ds]
  BY DEF SocketFails
<1>2. /\ socket \in Socket /\ socket.up /\ UNCHANGED <<server, client>>
      /\ server.opening \in {"getInfo", "done"}
  BY DEF IInv, TypeOK, Ended, SocketFails
<1>3. ds \in Seq(EndEvents) /\ \A i \in 1 .. Len(ds) : ds[i].type = "disconnect"
  BY DisconnectsFacts
<1>4. socket.events \o ds \in Seq(Event)
  <2>1. EndEvents \subseteq Event /\ socket.events \in Seq(Event)
    BY <1>2 DEF EndEvents, Event, Socket
  <2>2. ds \in Seq(Event)
    BY <1>3, <2>1
  <2> QED
    BY <2>1, <2>2, ConcatFacts
<1>5. /\ socket' \in Socket /\ ~ socket'.up /\ socket'.calls = socket.calls
      /\ socket'.events = socket.events \o ds
  <2> DEFINE more == socket.events \o ds
  <2>1. more \in Seq(Event) /\ socket' = [socket EXCEPT !.up = FALSE, !.events = more]
    BY <1>1, <1>4
  <2> HIDE DEF more
  <2>2. /\ socket' \in Socket /\ ~ socket'.up /\ socket'.calls = socket.calls
        /\ socket'.events = more
    BY <1>2, <2>1 DEF Socket
  <2> QED
    BY <2>2 DEF more
<1>6. TypeOK' /\ Reported' /\ Ended' /\ Tabled' /\ WithinLimit'
  BY <1>2, <1>3, <1>5, EndStep
<1>7. Counted'
  <2>1. \A c \in {"stopListening", "shutdown"} : InCalls(c)' = InCalls(c)
    BY <1>5 DEF InCalls
  <2>2. \A i \in 1 .. Len(socket'.events) :
           socket'.events[i].type = "stopped" => i \in 1 .. Len(socket.events)
    BY <1>3, <1>5, EndedReports
  <2>3. \A c \in {"stopListening", "shutdown"} : InEvents(c)' = InEvents(c)
    BY <1>3, <1>5, <2>2, EndedReports DEF InEvents
  <2>4. /\ OneUnsettled("stopListening")' /\ OneUnsettled("shutdown")'
        /\ Unsettled("stopListening")' <=> Unsettled("stopListening")
        /\ Unsettled("shutdown")' <=> Unsettled("shutdown")
    BY <2>1, <2>3 DEF IInv, Counted, OneUnsettled, Unsettled
  <2> QED
    BY <1>2, <2>4 DEF IInv, Counted
<1> QED
  BY <1>6, <1>7 DEF IInv

\* A report of one outcome, and no other events but disconnections.
ReportsOnce(es, o) ==
    /\ es \in Seq(EndEvents)
    /\ \E k \in 1 .. Len(es) : es[k] = o
          /\ \A i \in 1 .. Len(es) : i # k => es[i].type = "disconnect"

\* It stays one among disconnections.
LEMMA ReportsAmong ==
    ASSUME NEW o, NEW q \in Seq(EndEvents), NEW r \in Seq(EndEvents)
    PROVE  /\ ReportsOnce(q, o) /\ (\A i \in 1 .. Len(r) : r[i].type = "disconnect")
                 => ReportsOnce(q \o r, o)
           /\ (\A i \in 1 .. Len(q) : q[i].type = "disconnect") /\ ReportsOnce(r, o)
                 => ReportsOnce(q \o r, o)
<1>1. /\ q \o r \in Seq(EndEvents)
      /\ Len(q) \in Nat /\ Len(r) \in Nat /\ Len(q \o r) = Len(q) + Len(r)
      /\ \A i \in 1 .. Len(q) : (q \o r)[i] = q[i]
      /\ \A i \in 1 .. Len(r) : (q \o r)[Len(q) + i] = r[i]
      /\ \A i \in 1 .. Len(q \o r) : i \notin 1 .. Len(q) =>
            i - Len(q) \in 1 .. Len(r) /\ (q \o r)[i] = r[i - Len(q)]
  BY ConcatFacts
<1>2. ASSUME ReportsOnce(q, o), \A i \in 1 .. Len(r) : r[i].type = "disconnect"
      PROVE  ReportsOnce(q \o r, o)
  <2>1. PICK k \in 1 .. Len(q) : /\ q[k] = o
           /\ \A i \in 1 .. Len(q) : i # k => q[i].type = "disconnect"
    BY <1>2 DEF ReportsOnce
  <2>2. k \in 1 .. Len(q \o r) /\ (q \o r)[k] = o
    BY <1>1, <2>1
  <2>3. \A i \in 1 .. Len(q \o r) : i # k => (q \o r)[i].type = "disconnect"
    BY <1>1, <1>2, <2>1
  <2> QED
    BY <1>1, <2>2, <2>3 DEF ReportsOnce
<1>3. ASSUME \A i \in 1 .. Len(q) : q[i].type = "disconnect", ReportsOnce(r, o)
      PROVE  ReportsOnce(q \o r, o)
  <2>1. PICK k \in 1 .. Len(r) : /\ r[k] = o
           /\ \A i \in 1 .. Len(r) : i # k => r[i].type = "disconnect"
    BY <1>3 DEF ReportsOnce
  <2>2. Len(q) + k \in 1 .. Len(q \o r) /\ (q \o r)[Len(q) + k] = o
    BY <1>1, <2>1
  <2>3. ASSUME NEW i \in 1 .. Len(q \o r), i # Len(q) + k
        PROVE  (q \o r)[i].type = "disconnect"
    <3>1. CASE i \in 1 .. Len(q)
      BY <1>1, <1>3, <3>1
    <3>2. CASE i \notin 1 .. Len(q)
      <4>1. /\ i - Len(q) \in 1 .. Len(r) /\ (q \o r)[i] = r[i - Len(q)]
            /\ i - Len(q) # k
        BY <1>1, <2>3, <3>2
      <4> QED
        BY <2>1, <4>1
    <3> QED
      BY <3>1, <3>2
  <2> QED
    BY <1>1, <2>2, <2>3 DEF ReportsOnce
<1> QED
  BY <1>2, <1>3

\* What close has to report is such a report, alone or among disconnections.
LEMMA CloseReports ==
    ASSUME NEW one \in Seq(EndEvents), Len(one) = 1
    PROVE  /\ ReportsOnce(one, one[1])
           /\ \A ds \in Disconnects("SUCCESS") :
                 /\ ReportsOnce(ds \o one, one[1])
                 /\ ReportsOnce(one \o ds, one[1])
<1>1. ReportsOnce(one, one[1])
  BY DEF ReportsOnce
<1> QED
  BY <1>1, DisconnectsFacts, ReportsAmong

\* The socket handles a call of close: its outcome is reported, once.
LEMMA SocketClosesStep ==
    ASSUME IInv, SocketCloses
    PROVE  IInv'
<1>1. /\ socket \in Socket /\ UNCHANGED <<server, client>>
      /\ socket.calls # <<>> /\ server.opening # "listen"
      /\ server \in Server
  BY DEF IInv, TypeOK, SocketCloses
<1>2. socket.calls \in Seq({"stopListening", "shutdown"})
  BY <1>1 DEF Socket
<1>3. PICK caller \in {"stopListening", "shutdown"} :
         /\ caller = Head(socket.calls) /\ caller = socket.calls[1]
         /\ Tail(socket.calls) \in Seq({"stopListening", "shutdown"})
  BY <1>1, <1>2, TailFacts
<1>4. PICK ok \in BOOLEAN : \E o, one, es :
         /\ o = [type |-> "stopped", ok |-> ok, caller |-> caller]
         /\ one = <<o>>
         /\ socket' = [up |-> FALSE, calls |-> Tail(socket.calls),
                       events |-> socket.events \o es]
         /\ \/ es = one
            \/ socket.up /\ \E ds \in Disconnects("SUCCESS") :
                  es \in {ds \o one, one \o ds}
  <2>1. CASE socket.up
    <3> DEFINE o == [type |-> "stopped", ok |-> TRUE, caller |-> caller]
    <3>1. PICK ds \in Disconnects("SUCCESS") :
             \/ socket' = [up |-> FALSE, calls |-> Tail(socket.calls),
                           events |-> socket.events \o (ds \o <<o>>)]
             \/ socket' = [up |-> FALSE, calls |-> Tail(socket.calls),
                           events |-> socket.events \o (<<o>> \o ds)]
      BY <1>3, <2>1 DEF SocketCloses
    <3>2. PICK es : /\ es = ds \o <<o>> \/ es = <<o>> \o ds
                    /\ socket' = [up |-> FALSE, calls |-> Tail(socket.calls),
                                  events |-> socket.events \o es]
      BY <3>1
    <3> QED
      BY <2>1, <3>2
  <2>2. CASE ~ socket.up
    <3>1. PICK ok \in BOOLEAN :
             socket' = [up |-> FALSE, calls |-> Tail(socket.calls),
                        events |-> socket.events \o
                           << [type |-> "stopped", ok |-> ok, caller |-> caller] >>]
      BY <1>3, <2>2 DEF SocketCloses
    <3> QED
      BY <3>1
  <2> QED
    BY <2>1, <2>2
<1>4a. PICK o, one, es :
         /\ o = [type |-> "stopped", ok |-> ok, caller |-> caller]
         /\ one = <<o>>
         /\ socket' = [up |-> FALSE, calls |-> Tail(socket.calls),
                       events |-> socket.events \o es]
         /\ \/ es = one
            \/ socket.up /\ \E ds \in Disconnects("SUCCESS") :
                  es \in {ds \o one, one \o ds}
  BY <1>4
<1>5. o.type = "stopped" /\ o.caller = caller
  BY <1>4a
<1>6. ReportsOnce(es, o) /\ es \in Seq(EndEvents)
  <2>1. o \in EndEvents /\ one = <<o>>
    BY <1>4a DEF EndEvents
  <2>2. one \in Seq(EndEvents) /\ Len(one) = 1 /\ one[1] = o
    BY <2>1
  <2>3. ReportsOnce(es, o)
    BY <1>4a, <2>2, CloseReports
  <2> QED
    BY <2>3 DEF ReportsOnce
<1>7. PICK k \in 1 .. Len(es) : /\ es[k] = o
         /\ \A i \in 1 .. Len(es) : i # k => es[i].type = "disconnect"
  BY <1>6 DEF ReportsOnce
<1>8. /\ socket' \in Socket /\ ~ socket'.up
      /\ socket'.calls = Tail(socket.calls)
      /\ socket'.events = socket.events \o es
  <2>1. EndEvents \subseteq Event /\ socket.events \in Seq(Event)
    BY <1>1 DEF EndEvents, Event, Socket
  <2>2. es \in Seq(Event)
    BY <1>6, <2>1
  <2>3. socket.events \o es \in Seq(Event)
    BY <2>1, <2>2, ConcatFacts
  <2> DEFINE more == socket.events \o es
             fewer == Tail(socket.calls)
  <2>4. /\ more \in Seq(Event) /\ fewer \in Seq({"stopListening", "shutdown"})
        /\ socket' = [up |-> FALSE, calls |-> fewer, events |-> more]
    BY <1>3, <1>4a, <2>3
  <2> HIDE DEF more, fewer
  <2>5. /\ socket' \in Socket /\ ~ socket'.up /\ socket'.calls = fewer
        /\ socket'.events = more
    BY <2>4 DEF Socket
  <2> QED
    BY <2>5 DEF more, fewer
<1>9. 1 \in InCalls(caller)
  BY <1>1, <1>2, <1>3, TailFacts DEF InCalls
<1>10. /\ Unsettled(caller) /\ InEvents(caller) = {} /\ InCalls(caller) = {1}
       /\ caller = "shutdown" => server.shutdown = "stopping"
  <2>1. OneUnsettled(caller) /\ Unsettled(caller)
    BY <1>3, <1>9 DEF IInv, Counted, Unsettled
  <2> QED
    BY <1>9, <2>1 DEF OneUnsettled, IInv, Counted
<1>11. \A i \in 1 .. Len(es) : Final(es[i]) =>
          server.opening # "unused" \/ server.shutdown # "unused"
  <2> SUFFICES ASSUME NEW i \in 1 .. Len(es), Final(es[i])
               PROVE  server.opening # "unused" \/ server.shutdown # "unused"
    OBVIOUS
  <2>1. CASE i = k
    BY <1>5, <1>7, <1>10, <2>1 DEF Final
  <2>2. CASE i # k
    <3>1. socket.up
      BY <1>4a, <1>7, <2>2, <1>6
    <3> QED
      BY <3>1 DEF IInv, Ended
  <2> QED
    BY <2>1, <2>2
<1>12. TypeOK' /\ Reported' /\ Ended' /\ Tabled' /\ WithinLimit'
  BY <1>1, <1>6, <1>8, <1>11, EndStep
<1>13. Counted'
  <2>0. PICK n \in Nat : n = Len(socket.events)
    BY <1>6, <1>8, EndedReports
  <2>1. /\ \A i \in InEvents(caller)' : i = n + k
        /\ n + k \in InEvents(caller)'
        /\ InCalls(caller)' = {}
    <3>1. \A i \in InCalls(caller)' : i \in Nat /\ i + 1 \in InCalls(caller) /\ i + 1 # 1
      BY <1>1, <1>2, <1>8, TailFacts DEF InCalls
    <3>2. InCalls(caller)' = {}
      BY <1>10, <3>1
    <3>3. n + k \in InEvents(caller)'
      BY <1>5, <2>0, <1>6, <1>7, <1>8, EndedReports DEF InEvents
    <3>4. ASSUME NEW i \in InEvents(caller)'
          PROVE  i = n + k
      <4>1. /\ i \in 1 .. Len(socket'.events)
            /\ socket'.events[i].type = "stopped"
            /\ socket'.events[i].caller = caller
        BY DEF InEvents
      <4>2. i \notin 1 .. n
        BY <2>0, <1>6, <1>8, <1>10, <4>1, EndedReports DEF InEvents
      <4>3. i - n \in 1 .. Len(es) /\ socket'.events[i] = es[i - n]
        BY <2>0, <1>6, <1>8, <4>1, <4>2, EndedReports
      <4>4. i - n = k
        BY <1>7, <4>1, <4>3
      <4> QED
        BY <2>0, <1>6, <1>8, <4>1, <4>4, EndedReports
    <3> QED
      BY <3>2, <3>3, <3>4
  <2>2. ASSUME NEW c \in {"stopListening", "shutdown"}, c # caller
        PROVE  /\ InEvents(c)' = InEvents(c)
               /\ \A i \in InCalls(c)' : i \in Nat /\ i + 1 \in InCalls(c)
               /\ InCalls(c)' # {} <=> InCalls(c) # {}
    <3>1. \A i \in InCalls(c)' : i \in Nat /\ i + 1 \in InCalls(c)
      BY <1>1, <1>2, <1>8, TailFacts DEF InCalls
    <3>2. \A i \in InCalls(c) : i # 1 /\ i - 1 \in InCalls(c)'
      BY <1>1, <1>2, <1>3, <1>8, <2>2, TailFacts DEF InCalls
    <3>3. ASSUME NEW i \in 1 .. Len(socket'.events), i \notin 1 .. n,
                 socket'.events[i].type = "stopped"
          PROVE  socket'.events[i].caller = caller
      <4>1. i - n \in 1 .. Len(es) /\ socket'.events[i] = es[i - n]
        BY <2>0, <1>6, <1>8, <3>3, EndedReports
      <4>2. i - n = k
        BY <1>7, <3>3, <4>1
      <4> QED
        BY <1>5, <1>7, <4>1, <4>2
    <3>4. InEvents(c)' = InEvents(c)
      BY <2>0, <1>6, <1>8, <2>2, <3>3, EndedReports DEF InEvents
    <3> QED
      BY <3>1, <3>2, <3>4
  <2>3. ASSUME NEW c \in {"stopListening", "shutdown"}
        PROVE  /\ OneUnsettled(c) => OneUnsettled(c)'
               /\ Unsettled(c)' <=> Unsettled(c)
    <3>1. CASE c = caller
      BY <1>10, <2>1, <3>1 DEF OneUnsettled, Unsettled
    <3>2. CASE c # caller
      <4>1. /\ InEvents(c)' = InEvents(c)
            /\ \A i \in InCalls(c)' : i \in Nat /\ i + 1 \in InCalls(c)
            /\ InCalls(c)' # {} <=> InCalls(c) # {}
        BY <2>2, <3>2
      <4>2. ASSUME OneUnsettled(c) PROVE \A i, j \in InCalls(c)' : i = j
        BY <4>1, <4>2 DEF OneUnsettled
      <4> QED
        BY <4>1, <4>2 DEF OneUnsettled, Unsettled
    <3> QED
      BY <3>1, <3>2
  <2>4. /\ OneUnsettled("stopListening")' /\ OneUnsettled("shutdown")'
        /\ Unsettled("stopListening")' <=> Unsettled("stopListening")
        /\ Unsettled("shutdown")' <=> Unsettled("shutdown")
    BY <2>3 DEF IInv, Counted
  <2> QED
    BY <1>1, <2>4 DEF IInv, Counted
<1> QED
  BY <1>12, <1>13 DEF IInv

-----------------------------------------------------------------------------
(* The server. *)

\* A server that nobody used: no promise, no event, no connection.
LEMMA InitIInv == Init => IInv
<1> SUFFICES ASSUME Init PROVE IInv
  OBVIOUS
<1>1. Active = {} /\ Cardinality(Active) = 0 /\ maxConnections_ \in Nat
  BY FS_EmptySet, ServerAssumption DEF Init, Active
<1>2. socket.events = <<>> /\ socket.calls = <<>>
      /\ Len(socket.events) = 0 /\ Len(socket.calls) = 0 /\ ~ socket.up
  BY DEF Init
<1>3. NewCounter \in CounterType
  BY DEF NewCounter, CounterType
<1>4. TypeOK
  BY <1>3 DEF Init, TypeOK, Server, Socket, ClientState
<1>5. Reported /\ Ended
  BY <1>2 DEF Init, Reported, Ended
<1>6. InCalls("stopListening") = {} /\ InCalls("shutdown") = {}
      /\ InEvents("stopListening") = {} /\ InEvents("shutdown") = {}
  BY <1>2 DEF InCalls, InEvents
<1>7. Counted
  BY <1>6 DEF Init, Counted, OneUnsettled, Unsettled
<1>8. Tabled /\ WithinLimit
  BY <1>1 DEF Init, Tabled, WithinLimit
<1> QED
  BY <1>4, <1>5, <1>7, <1>8 DEF IInv

\* Every step keeps the invariant.
LEMMA NextIInv == IInv /\ [Next]_vars => IInv'
<1> SUFFICES ASSUME IInv, [Next]_vars PROVE IInv'
  OBVIOUS
<1>1. CASE OwnerCalls
  BY <1>1, OwnerStep
<1>2. CASE ServerTasks
  <2>1. CASE ListenFulfills
    BY <2>1, ListenFulfillsStep
  <2>2. CASE InfoFulfills \/ ListenRejects
    BY <2>2, OpeningStep
  <2>3. CASE StopSettles
    BY <2>3, StopSettlesStep
  <2>4. CASE OnConnection
    BY <2>4, OnConnectionStep
  <2>5. CASE OnDisconnect
    BY <2>5, OnDisconnectStep
  <2>6. ASSUME NEW id \in SocketIds, ConnectionClosed(id)
        PROVE  IInv'
    BY <2>6, ConnectionClosedStep
  <2> QED
    BY <1>2, <2>1, <2>2, <2>3, <2>4, <2>5, <2>6 DEF ServerTasks
<1>3. CASE SocketSteps
  <2>1. CASE SocketCloses
    BY <2>1, SocketClosesStep
  <2>2. CASE SocketFails
    BY <2>2, SocketFailsStep
  <2>3. ASSUME NEW id \in SocketIds, Incoming(id)
        PROVE  IInv'
    BY <2>3, IncomingStep
  <2> QED
    BY <1>3, <2>1, <2>2, <2>3 DEF SocketSteps
<1>4. CASE UNCHANGED vars
  <2>1. server' = server /\ socket' = socket /\ client' = client
    BY <1>4 DEF vars
  <2>2. TypeOK' /\ Ended'
    BY <2>1 DEF IInv, TypeOK, Ended, Down, SilentAfter
  <2>3. Reported'
    BY <2>1 DEF IInv, Reported
  <2>4. Counted'
    BY <2>1, SameUnsettled DEF IInv
  <2>5. Tabled' /\ WithinLimit'
    BY <2>1 DEF IInv, Tabled, WithinLimit, Active
  <2> QED
    BY <2>2, <2>3, <2>4, <2>5 DEF IInv
<1> QED
  BY <1>1, <1>2, <1>3, <1>4 DEF Next

\* What the server's safety rests on holds always, whoever owns it.
THEOREM ServerInvariance == Spec => []IInv
<1> QED
  BY InitIInv, NextIInv, PTL DEF Spec

\* When shutdown() has fulfilled, no connection is open, and none waits in the
\* socket to be handed over (tcp.ts:203-204).
LEMMA IInvClosesAll == IInv => ShutdownClosesAll
<1> SUFFICES ASSUME IInv, server.shutdown = "fulfilled", NEW id \in SocketIds
             PROVE  client[id] \in {"new", "dropped", "closed"}
  BY DEF ShutdownClosesAll
<1>1. client[id] \in ClientState /\ SilentAfter(0) /\ server.connections_ = {}
      /\ socket.events \in Seq(Event)
  BY DEF IInv, TypeOK, Ended, Tabled, Socket
<1>2. client[id] \notin {"open", "closing"}
  BY <1>1 DEF IInv, Tabled, Active
<1>3. client[id] # "connecting"
  BY <1>1 DEF IInv, Reported, SilentAfter
<1> QED
  BY <1>1, <1>2, <1>3 DEF ClientState

\* onceShutdown tells of a socket that stopped accepting, and of a table that
\* misses no connection (tcp.ts:250-251).
LEMMA IInvFinal == IInv => ShutdownIsFinal
<1> SUFFICES ASSUME IInv, server.onceShutdown_ \in {"WE_CLOSED_IT", "UNKOWN"}
             PROVE  ~ socket.up /\ \A id \in SocketIds : client[id] # "connecting"
  BY DEF ShutdownIsFinal
<1>1. ~ socket.up /\ SilentAfter(0) /\ socket.events \in Seq(Event)
  BY DEF IInv, TypeOK, Ended, Down, Socket
<1>2. \A id \in SocketIds : client[id] # "connecting"
  BY <1>1 DEF IInv, Reported, SilentAfter
<1> QED
  BY <1>1, <1>2

-----------------------------------------------------------------------------
(* The proxy. *)

\* The proxy's own invariant: resources are freed once, after start() and for
\* good, and the peer connection with them.
Freed ==
    \A e \in Ends : proxy[e].freed =>
        proxy[e].started /\ proxy[e].stopping /\ peer[e].closed

PInv == IInv /\ ProxyTypeOK /\ Freed

\* To the server, the proxy is an owner like any other.
LEMMA ProxyOwnsServer == ProxyNext => [Next]_vars
BY DEF ProxyNext, Callback, Tell, StopResources, Task, Start, StopCalled,
       Connects, ConnectFails, Disconnected, Next, OwnerCalls

\* At the start nothing was freed.
LEMMA InitPInv == ProxyInit => PInv
BY InitIInv DEF ProxyInit, PInv, IInv, ProxyTypeOK, Freed, ProxyObject,
                PeerConnection, Promised, Ends

\* Every step of the proxy keeps what was freed, freed.
LEMMA NextPInv == PInv /\ [ProxyNext]_allVars => PInv'
<1> SUFFICES ASSUME PInv, [ProxyNext]_allVars PROVE PInv'
  OBVIOUS
<1>1. IInv'
  BY ProxyOwnsServer, NextIInv DEF PInv, allVars
<1>2. /\ TypeOK'
      /\ proxy \in [Ends -> ProxyObject] /\ peer \in [Ends -> PeerConnection]
      /\ Freed /\ server \in Server
  BY <1>1 DEF IInv, PInv, ProxyTypeOK, TypeOK
<1> DEFINE Kept == /\ proxy' \in [Ends -> ProxyObject]
                   /\ peer' \in [Ends -> PeerConnection]
                   /\ Freed'
<1>3. ASSUME NEW e \in Ends, Tell(e)
      PROVE  Kept
  <2>1. OnceReady(e) \in Promised
    BY DEF OnceReady, Promised
  <2> DEFINE told == IF Stopping(e) THEN "rejected" ELSE OnceReady(e)
  <2>2. told \in Promised
    BY <2>1 DEF Promised
  <2>3. proxy' = [proxy EXCEPT ![e].told = told] /\ peer' = peer
    BY <1>3 DEF Tell
  <2> HIDE DEF told
  <2> QED
    BY <1>2, <2>2, <2>3 DEF ProxyObject, Freed
<1>4. ASSUME NEW e \in Ends, StopResources(e)
      PROVE  Kept
  <2>1. /\ proxy[e] \in ProxyObject /\ peer[e] \in PeerConnection
        /\ proxy[e].started
        /\ proxy' = [proxy EXCEPT ![e].freed = TRUE, ![e].stopping = TRUE]
        /\ peer' = [peer EXCEPT ![e].closed = TRUE]
    BY <1>2, <1>4 DEF StopResources, MustFree
  <2>2. /\ proxy' \in [Ends -> ProxyObject] /\ peer' \in [Ends -> PeerConnection]
        /\ proxy'[e].started /\ proxy'[e].stopping /\ peer'[e].closed
        /\ \A o \in Ends : o # e => proxy'[o] = proxy[o] /\ peer'[o] = peer[o]
    BY <1>2, <2>1 DEF ProxyObject, PeerConnection
  <2> QED
    BY <1>2, <2>2 DEF Freed
<1>5. ASSUME NEW e \in Ends, Start(e) \/ StopCalled(e)
      PROVE  Kept
  BY <1>2, <1>5 DEF Start, StopCalled, ProxyObject, Freed
<1>6. ASSUME NEW e \in Ends, Connects(e) \/ ConnectFails(e) \/ Disconnected(e)
      PROVE  Kept
  BY <1>2, <1>6 DEF Connects, ConnectFails, Disconnected, PeerConnection,
                    Promised, Freed
<1>7. ASSUME UNCHANGED proxyVars
      PROVE  Kept
  BY <1>2, <1>7 DEF proxyVars, Freed
<1> HIDE DEF Kept
<1>8. Kept
  BY <1>3, <1>4, <1>5, <1>6, <1>7 DEF ProxyNext, Callback, Task, allVars,
                                     proxyVars
<1> QED
  BY <1>1, <1>2, <1>8 DEF Kept, PInv, ProxyTypeOK

\* The invariant holds of every proxy and of every owner of a server.
THEOREM ProxyInvariance == ProxySpec => []PInv
<1> QED
  BY InitPInv, NextPInv, PTL DEF ProxySpec

\* The types of the server, of the proxy's two ends and of their connections.
THEOREM ProxyTypeCorrect == ProxySpec => []ProxyTypeOK
<1>1. PInv => ProxyTypeOK
  BY DEF PInv
<1> QED
  BY <1>1, ProxyInvariance, PTL

\* Never are more connections really open than the server was told to accept.
THEOREM ServerWithinLimit == ProxySpec => []WithinLimit
<1>1. PInv => WithinLimit
  BY DEF PInv, IInv
<1> QED
  BY <1>1, ProxyInvariance, PTL

\* Once onceShutdown told of the end, the socket accepts nothing, and no
\* connection it accepted is missing from the table.
THEOREM ServerShutdownIsFinal == ProxySpec => []ShutdownIsFinal
<1>1. PInv => ShutdownIsFinal
  BY IInvFinal DEF PInv
<1> QED
  BY <1>1, ProxyInvariance, PTL

\* stop() of the proxy fulfills only when its server accepts nothing, no client
\* is left, its peer connection is closed and the caller of start() was told.
THEOREM ProxyStoppedReleases == ProxySpec => []StoppedReleases
<1>1. PInv => StoppedReleases
  <2> SUFFICES ASSUME PInv PROVE StoppedReleases
    OBVIOUS
  <2>1. ShutdownClosesAll
    BY IInvClosesAll DEF PInv
  <2>2. ASSUME OnceStopped("local") = "fulfilled"
        PROVE  /\ ~ socket.up
               /\ peer["local"].closed
               /\ Quiet => proxy["local"].told # "pending"
    <3>1. proxy["local"].freed /\ server.shutdown = "fulfilled" /\ "local" \in Ends
      BY <2>2 DEF OnceStopped, Ends
    <3>2. ~ socket.up
      BY <3>1 DEF PInv, IInv, Ended, Down
    <3>3. /\ proxy["local"].started /\ proxy["local"].stopping
          /\ peer["local"].closed
      BY <3>1 DEF PInv, Freed
    <3> QED
      BY <3>1, <3>2, <3>3 DEF Quiet, MustTell, Stopping
  <2> QED
    BY <2>1, <2>2 DEF StoppedReleases
<1> QED
  BY <1>1, ProxyInvariance, PTL
=============================================================================
