----------------------------- MODULE TcpProofs ------------------------------
(***************************************************************************)
(* Proofs about TcpConnection: its types, that its counter is exact, that  *)
(* the socket is destroyed only when idle, and what onceClosed tells.      *)
(***************************************************************************)
EXTENDS TcpConnection, CounterLemmas

\* The inductive invariant.
IInv == TypeOK /\ CounterExact

-----------------------------------------------------------------------------
(* What each piece of a task does to the fields the invariant reads. *)

\* The fields of a connection have the types Connection gives them.
LEMMA FieldTypes ==
    ASSUME NEW c \in Connection
    PROVE  /\ c.counter_ \in CounterType
           /\ c.counter_.counter_ \in Int
           /\ c.counter_.destructions \in Nat
           /\ c.calls \in [Calls -> Nat]
           /\ c.calls["pause"] \in Nat /\ c.calls["resume"] \in Nat
           /\ c.calls["close"] \in Nat /\ c.calls["write"] \in Nat
           /\ c.dataToSocketQueue \in Nat
           /\ c.handling \in BOOLEAN
           /\ c.info \in {"none"} \union ErrCode
           /\ Outstanding(c) \in Nat
BY DEF Connection, CounterType, Calls, Outstanding

\* What Outstanding says of the calls.
LEMMA OutstandingFacts ==
    ASSUME NEW c \in Connection
    PROVE  /\ Outstanding(c) = 0 =>
                 c.calls["write"] = 0
           /\ c.opening # "none" /\ Outstanding(c) <= 1 =>
                 \A call \in Calls : c.calls[call] = 0
           /\ c.opening = "none"
              /\ (\A call \in Calls \ {"write"} : c.calls[call] = 0) =>
                 Outstanding(c) = c.calls["write"]
BY FieldTypes DEF Outstanding, Calls

\* Outstanding reads nothing but the calls and onceConnected's.
LEMMA SameOutstanding ==
    ASSUME NEW c, NEW d, c.calls = d.calls,
           c.opening = "none" <=> d.opening = "none"
    PROVE  Outstanding(c) = Outstanding(d)
BY DEF Outstanding

\* fulfillClosed_ touches nothing else.
LEMMA FulfillClosedFacts ==
    ASSUME NEW c \in Connection, NEW kind \in SocketCloseKind
    PROVE  /\ FulfillClosed(c, kind) \in Connection
           /\ FulfillClosed(c, kind).counter_ = c.counter_
           /\ FulfillClosed(c, kind).calls = c.calls
           /\ FulfillClosed(c, kind).opening = c.opening
           /\ FulfillClosed(c, kind).state_ = c.state_
           /\ FulfillClosed(c, kind).dataToSocketQueue = c.dataToSocketQueue
           /\ FulfillClosed(c, kind).handling = c.handling
BY DEF FulfillClosed, Connection

\* A wrapped call is counted and outstanding.
LEMMA WrapFacts ==
    ASSUME NEW c \in Connection, NEW call \in Calls
    PROVE  /\ Wrap(c, call) \in Connection
           /\ Wrap(c, call).counter_.counter_ = c.counter_.counter_ + 1
           /\ Wrap(c, call).counter_.destructions = c.counter_.destructions
           /\ Wrap(c, call).opening = c.opening
           /\ Wrap(c, call).state_ = c.state_
           /\ Wrap(c, call).dataToSocketQueue = c.dataToSocketQueue
           /\ Wrap(c, call).handling = c.handling
           /\ Outstanding(Wrap(c, call)) = Outstanding(c) + 1
<1>1. Before(c.counter_) \in CounterType
      /\ Before(c.counter_).counter_ = c.counter_.counter_ + 1
      /\ Before(c.counter_).destructions = c.counter_.destructions
  BY FieldTypes DEF Before, CounterType
<1>2. [c.calls EXCEPT ![call] = @ + 1] \in [Calls -> Nat]
  BY FieldTypes
<1>3. Wrap(c, call) = [c EXCEPT !.counter_ = Before(c.counter_),
                                !.calls = [c.calls EXCEPT ![call] = @ + 1]]
  BY DEF Wrap, Connection
<1>4. Wrap(c, call) \in Connection
  BY <1>1, <1>2, <1>3 DEF Connection
<1>5. /\ Wrap(c, call).calls = [c.calls EXCEPT ![call] = @ + 1]
      /\ Wrap(c, call).counter_ = Before(c.counter_)
      /\ Wrap(c, call).opening = c.opening
      /\ Wrap(c, call).state_ = c.state_
      /\ Wrap(c, call).dataToSocketQueue = c.dataToSocketQueue
      /\ Wrap(c, call).handling = c.handling
  BY <1>3 DEF Connection
<1>6. Outstanding(Wrap(c, call)) = Outstanding(c) + 1
  BY <1>5, FieldTypes DEF Outstanding, Calls
<1>7. QED
  BY <1>1, <1>4, <1>5, <1>6

\* after_ counts down; the destructor runs exactly below zero.
LEMMA AfterCallFacts ==
    ASSUME NEW c \in Connection
    PROVE  /\ AfterCall(c) \in Connection
           /\ AfterCall(c).counter_.counter_ = c.counter_.counter_ - 1
           /\ AfterCall(c).counter_.destructions # c.counter_.destructions
                 <=> c.counter_.counter_ - 1 < 0
           /\ AfterCall(c).calls = c.calls
           /\ AfterCall(c).opening = c.opening
           /\ AfterCall(c).state_ = c.state_
           /\ AfterCall(c).dataToSocketQueue = c.dataToSocketQueue
           /\ AfterCall(c).handling = c.handling
<1> DEFINE d == [c EXCEPT !.counter_ = After(@)]
<1>1. After(c.counter_) \in CounterType
  BY FieldTypes, AfterCountsDown
<1>2. /\ d \in Connection
      /\ d.counter_ = After(c.counter_)
      /\ d.calls = c.calls
      /\ d.opening = c.opening
      /\ d.state_ = c.state_
      /\ d.dataToSocketQueue = c.dataToSocketQueue
      /\ d.handling = c.handling
  BY <1>1 DEF Connection
<1>3. d.counter_.counter_ = c.counter_.counter_ - 1
      /\ (d.counter_.destructions # c.counter_.destructions
             <=> c.counter_.counter_ - 1 < 0)
  BY <1>2, FieldTypes, AfterCountsDown
<1>4. AfterCall(c) = IF d.counter_.onceDestroyed_ = "fulfilled"
                        /\ d.info # "none"
                     THEN FulfillClosed(d, KindOf(d.info)) ELSE d
  BY DEF AfterCall
<1>5. KindOf(d.info) \in SocketCloseKind
  BY DEF KindOf, SocketCloseKind
<1> HIDE DEF d
<1>6. QED
  BY <1>2, <1>3, <1>4, <1>5, FulfillClosedFacts

\* Flushing turns queued buffers into counted, outstanding writes.
LEMMA FlushFacts ==
    ASSUME NEW c \in Connection
    PROVE  /\ Flush(c) \in Connection
           /\ Flush(c).state_ = c.state_
           /\ Flush(c).opening = c.opening
           /\ Flush(c).counter_.destructions = c.counter_.destructions
           /\ Flush(c).counter_.counter_ - c.counter_.counter_
                 = Outstanding(Flush(c)) - Outstanding(c)
           /\ \A call \in Calls \ {"write"} :
                 Flush(c).calls[call] = c.calls[call]
           /\ Flush(c).calls["write"]
                 <= c.calls["write"] + c.dataToSocketQueue
<1>1. CASE ~ c.handling
  BY <1>1, FieldTypes DEF Flush
<1>2. CASE c.handling
  <2> DEFINE n == c.dataToSocketQueue
             count == [c.counter_ EXCEPT !.counter_ = @ + n]
             calls == [c.calls EXCEPT !["write"] = @ + n]
  <2>1. n \in Nat
    BY FieldTypes
  <2>2. /\ count \in CounterType
        /\ count.counter_ = c.counter_.counter_ + n
        /\ count.destructions = c.counter_.destructions
    BY <2>1, FieldTypes DEF CounterType
  <2>3. /\ calls \in [Calls -> Nat]
        /\ calls["write"] = c.calls["write"] + n
        /\ \A call \in Calls \ {"write"} : calls[call] = c.calls[call]
    BY <2>1, FieldTypes DEF Calls
  <2>4. Flush(c) = [c EXCEPT !.counter_ = count, !.calls = calls,
                             !.dataToSocketQueue = 0]
    BY <1>2 DEF Flush, Connection
  <2> HIDE DEF count, calls, n
  <2>5. /\ Flush(c).counter_ = count
        /\ Flush(c).calls = calls
        /\ Flush(c).opening = c.opening
        /\ Flush(c).state_ = c.state_
    BY <2>4 DEF Connection
  <2>8. Flush(c) \in Connection
    <3>1. \A x \in CounterType, y \in [Calls -> Nat] :
             [c EXCEPT !.counter_ = x, !.calls = y, !.dataToSocketQueue = 0]
                 \in Connection
      BY DEF Connection
    <3>2. QED
      BY <2>2, <2>3, <2>4, <3>1
  <2>6. Outstanding(Flush(c)) = Outstanding(c) + n
    BY <2>1, <2>3, <2>5, FieldTypes DEF Outstanding, Calls
  <2>7. QED
    BY <2>1, <2>2, <2>3, <2>5, <2>6, <2>8, FieldTypes DEF n
<1>3. QED
  BY <1>1, <1>2, FieldTypes

\* When getInfo fulfills, the call that opened the connection is over, and the
\* writes that were queued go out.
LEMMA ConnectedFacts ==
    ASSUME NEW c \in Connection, c.opening # "none"
    PROVE  /\ Connected(c) \in Connection
           /\ Connected(c).state_ = "CLOSED" <=> c.state_ = "CLOSED"
           /\ Connected(c).opening = "none"
           /\ Connected(c).counter_.destructions = c.counter_.destructions
           /\ Connected(c).counter_.counter_ - c.counter_.counter_
                 = Outstanding(Connected(c)) - Outstanding(c) + 1
           /\ \A call \in Calls \ {"write"} :
                 Connected(c).calls[call] = c.calls[call]
           /\ Connected(c).calls["write"]
                 <= c.calls["write"] + c.dataToSocketQueue
<1> DEFINE d == [c EXCEPT !.opening = "none",
                          !.onceConnected = "fulfilled",
                          !.state_ = IF @ = "CONNECTING" THEN "CONNECTED"
                                     ELSE @,
                          !.handling = TRUE]
<1>1. d \in Connection
  <2>1. [c EXCEPT !.opening = "none", !.onceConnected = "fulfilled"]
           \in Connection
    BY DEF Connection
  <2>2. (IF c.state_ = "CONNECTING" THEN "CONNECTED" ELSE c.state_)
           \in {"CONNECTING", "CONNECTED", "CLOSED"}
    BY DEF Connection
  <2>3. d = [[c EXCEPT !.opening = "none", !.onceConnected = "fulfilled"]
               EXCEPT !.state_ = IF c.state_ = "CONNECTING" THEN "CONNECTED"
                                 ELSE c.state_,
                      !.handling = TRUE]
    BY DEF Connection
  <2>4. QED
    BY <2>1, <2>2, <2>3 DEF Connection
<1>2. /\ d.counter_ = c.counter_
      /\ d.calls = c.calls
      /\ d.dataToSocketQueue = c.dataToSocketQueue
      /\ d.opening = "none"
      /\ d.state_ = "CLOSED" <=> c.state_ = "CLOSED"
  BY DEF Connection
<1>3. Outstanding(d) = Outstanding(c) - 1
  BY <1>2, FieldTypes DEF Outstanding
<1>4. Connected(c) = Flush(d)
  BY DEF Connected
<1> HIDE DEF d
<1>5. /\ Flush(d).counter_.counter_ \in Int
      /\ Outstanding(Flush(d)) \in Nat
      /\ Outstanding(c) \in Nat
      /\ c.counter_.counter_ \in Int
  BY <1>1, FlushFacts, FieldTypes
<1>6. QED
  BY <1>1, <1>2, <1>3, <1>4, <1>5, FlushFacts

\* When the opening call rejects, it is over too.
LEMMA RejectedFacts ==
    ASSUME NEW c \in Connection, c.opening # "none"
    PROVE  /\ Rejected(c) \in Connection
           /\ Rejected(c).state_ = c.state_
           /\ Rejected(c).opening = "none"
           /\ Rejected(c).counter_ = c.counter_
           /\ Rejected(c).calls = c.calls
           /\ Outstanding(Rejected(c)) = Outstanding(c) - 1
<1> DEFINE d == [c EXCEPT !.opening = "none", !.onceConnected = "rejected"]
<1>1. /\ d \in Connection
      /\ d.state_ = c.state_
      /\ d.opening = "none"
      /\ d.counter_ = c.counter_
      /\ d.calls = c.calls
  BY DEF Connection
<1>2. Rejected(c) = FulfillClosed(d, "NEVER_CONNECTED")
      /\ "NEVER_CONNECTED" \in SocketCloseKind
  BY DEF Rejected, SocketCloseKind
<1> HIDE DEF d
<1>3. /\ Rejected(c) \in Connection
      /\ Rejected(c).state_ = c.state_
      /\ Rejected(c).opening = "none"
      /\ Rejected(c).counter_ = c.counter_
      /\ Rejected(c).calls = c.calls
  BY <1>1, <1>2, FulfillClosedFacts
<1>4. QED
  BY <1>3, FieldTypes DEF Outstanding

-----------------------------------------------------------------------------
(* The invariant. *)

\* The constructor establishes it: one call is counted and outstanding.
LEMMA InitIInv == Init => IInv
<1> SUFFICES ASSUME NEW kind \in Kinds, NEW paused \in BOOLEAN,
                    conn = NewConnection(kind, paused),
                    socket = [up |-> kind = "existing", closing |-> FALSE,
                              events |-> [e \in ErrCode |-> 0]],
                    requests = 0
             PROVE  IInv
  BY DEF Init
<1>1. kind \in {"existing", "endpoint"}
  BY TcpAssumption
<1>2. /\ Before(NewCounter) \in CounterType
      /\ Before(NewCounter).counter_ = 1
  BY DEF Before, NewCounter, CounterType
<1>3. /\ [call \in Calls |-> 0] \in [Calls -> Nat]
      /\ [e \in ErrCode |-> 0] \in [ErrCode -> Nat]
  OBVIOUS
<1>4. conn \in Connection
  BY <1>1, <1>2, <1>3 DEF NewConnection, Connection
<1>5. socket \in Socket /\ requests \in 0 .. MaxRequests
  BY <1>3, TcpAssumption DEF Socket
<1>6. Outstanding(conn) = 1 /\ conn.counter_.counter_ = 1
      /\ conn.state_ # "CLOSED"
  BY <1>1, <1>2 DEF NewConnection, Outstanding, Calls
<1>7. QED
  BY <1>4, <1>5, <1>6 DEF IInv, TypeOK, CounterExact

\* The outstanding calls, one of them settled: the state in which after_ runs.
LEMMA SettledFacts ==
    ASSUME NEW c \in Connection, NEW call \in Calls, c.calls[call] > 0
    PROVE  LET d == [c EXCEPT !.calls[call] = @ - 1]
           IN  /\ d \in Connection
               /\ d.counter_ = c.counter_
               /\ d.state_ = c.state_
               /\ d.opening = c.opening
               /\ Outstanding(d) = Outstanding(c) - 1
<1> DEFINE calls == [c.calls EXCEPT ![call] = @ - 1]
           d == [c EXCEPT !.calls = calls]
<1>1. calls \in [Calls -> Nat]
  BY FieldTypes
<1>2. \A y \in [Calls -> Nat] : [c EXCEPT !.calls = y] \in Connection
  BY DEF Connection
<1>3. d \in Connection
  BY <1>1, <1>2
<1>4. d.counter_ = c.counter_ /\ d.state_ = c.state_
      /\ d.opening = c.opening /\ d.calls = calls
  BY DEF Connection
<1>5. Outstanding(d) = Outstanding(c) - 1
  BY <1>4, FieldTypes DEF Outstanding, Calls
<1>6. [c EXCEPT !.calls[call] = @ - 1] = d
  BY DEF Connection
<1> HIDE DEF d
<1>7. QED
  BY <1>3, <1>4, <1>5, <1>6

\* The state in which the onDisconnect handler calls discard().
LEMMA DisconnectedFacts ==
    ASSUME NEW c \in Connection, NEW errcode \in ErrCode
    PROVE  LET d == [c EXCEPT !.state_ = "CLOSED", !.info = errcode,
                              !.handling = FALSE, !.dataToSocketQueue = 0]
           IN  /\ d \in Connection
               /\ d.counter_ = c.counter_
               /\ d.state_ = "CLOSED"
               /\ Outstanding(d) = Outstanding(c)
<1> DEFINE d == [c EXCEPT !.state_ = "CLOSED", !.info = errcode,
                          !.handling = FALSE, !.dataToSocketQueue = 0]
<1>1. \A x \in {"none"} \union ErrCode :
         [c EXCEPT !.state_ = "CLOSED", !.info = x,
                   !.handling = FALSE, !.dataToSocketQueue = 0] \in Connection
  BY DEF Connection
<1>2. d \in Connection
  BY <1>1
<1>3. d.counter_ = c.counter_ /\ d.state_ = "CLOSED"
      /\ d.opening = c.opening /\ d.calls = c.calls
  BY DEF Connection
<1> HIDE DEF d
<1>4. Outstanding(d) = Outstanding(c)
  BY <1>3 DEF Outstanding
<1>5. QED
  BY <1>2, <1>3, <1>4 DEF d

\* Every action keeps the type of conn and the balance of its counter, and
\* destroys the socket only when it is idle.
LEMMA NextConn ==
    ASSUME IInv, Next
    PROVE  /\ conn' \in Connection
           /\ CounterExact'
           /\ conn'.counter_.destructions # conn.counter_.destructions =>
                 /\ conn'.state_ = "CLOSED"
                 /\ Outstanding(conn') = conn'.calls["write"]
                 /\ conn'.calls["write"] <= conn.dataToSocketQueue
<1> DEFINE Good ==
             /\ conn' \in Connection
             /\ CounterExact'
             /\ conn'.counter_.destructions # conn.counter_.destructions =>
                   /\ conn'.state_ = "CLOSED"
                   /\ Outstanding(conn') = conn'.calls["write"]
                   /\ conn'.calls["write"] <= conn.dataToSocketQueue
<1>0. conn \in Connection /\ CounterExact
  BY DEF IInv, TypeOK
<1>1. CASE ConnectFulfills
  <2> DEFINE d == Wrap(conn, "pause")
  <2>1. /\ d \in Connection
        /\ d.counter_.counter_ = conn.counter_.counter_ + 1
        /\ d.counter_.destructions = conn.counter_.destructions
        /\ d.state_ = conn.state_
        /\ d.opening = conn.opening
        /\ Outstanding(d) = Outstanding(conn) + 1
    BY <1>0, WrapFacts DEF Calls
  <2>2. conn' = [d EXCEPT !.opening = "getInfo"]
    BY <1>1 DEF ConnectFulfills
  <2> HIDE DEF d
  <2>3. /\ conn' \in Connection
        /\ conn'.counter_ = d.counter_
        /\ conn'.state_ = d.state_
        /\ conn'.calls = d.calls
        /\ conn'.opening = "getInfo"
    BY <2>1, <2>2 DEF Connection
  <2>4. Outstanding(conn') = Outstanding(d)
    BY <1>1, <2>1, <2>3, SameOutstanding DEF ConnectFulfills
  <2>5. conn.counter_.counter_ \in Int /\ Outstanding(conn) \in Nat
    BY <1>0, FieldTypes
  <2>6. QED
    BY <1>0, <2>1, <2>3, <2>4, <2>5 DEF CounterExact
<1>2. CASE InfoFulfills
  <2> DEFINE resumed == IF conn.kind = "endpoint" /\ ~ conn.startPaused_
                        THEN Wrap(conn, "resume") ELSE conn
             closed == IF conn.state_ = "CLOSED" THEN 1 ELSE 0
             less == AfterCall(resumed)
  <2>1. conn' = Connected(less) /\ conn.opening = "getInfo"
    BY <1>2 DEF InfoFulfills
  <2>2. /\ resumed \in Connection
        /\ resumed.counter_.counter_ = Outstanding(resumed) - closed
        /\ resumed.counter_.destructions = conn.counter_.destructions
        /\ resumed.state_ = conn.state_
        /\ resumed.opening = "getInfo"
        /\ resumed.dataToSocketQueue = conn.dataToSocketQueue
    <3>1. CASE conn.kind = "endpoint" /\ ~ conn.startPaused_
      <4> "resume" \in Calls
        BY DEF Calls
      <4>1. /\ conn.counter_.counter_ \in Int
            /\ Outstanding(conn) \in Nat
        BY <1>0, FieldTypes
      <4>2. QED
        BY <1>0, <2>1, <3>1, <4>1, WrapFacts DEF CounterExact
    <3>2. CASE ~ (conn.kind = "endpoint" /\ ~ conn.startPaused_)
      BY <1>0, <2>1, <3>2 DEF CounterExact
    <3>3. QED
      BY <3>1, <3>2
  <2> HIDE DEF resumed
  <2>3. /\ less \in Connection
        /\ less.counter_.counter_ = resumed.counter_.counter_ - 1
        /\ less.counter_.destructions # resumed.counter_.destructions
              <=> resumed.counter_.counter_ - 1 < 0
        /\ less.calls = resumed.calls
        /\ less.opening = "getInfo"
        /\ less.state_ = conn.state_
        /\ less.dataToSocketQueue = conn.dataToSocketQueue
    BY <2>2, AfterCallFacts
  <2>4. Outstanding(less) = Outstanding(resumed)
    BY <2>2, <2>3 DEF Outstanding
  <2> HIDE DEF less
  <2>5. /\ conn' \in Connection
        /\ conn'.state_ = "CLOSED" <=> conn.state_ = "CLOSED"
        /\ conn'.opening = "none"
        /\ conn'.counter_.destructions = less.counter_.destructions
        /\ conn'.counter_.counter_ - less.counter_.counter_
              = Outstanding(conn') - Outstanding(less) + 1
        /\ \A call \in Calls \ {"write"} :
              conn'.calls[call] = resumed.calls[call]
        /\ conn'.calls["write"]
              <= resumed.calls["write"] + conn.dataToSocketQueue
    BY <2>1, <2>3, ConnectedFacts
  <2>6. /\ resumed.counter_.counter_ \in Int /\ Outstanding(resumed) \in Nat
        /\ less.counter_.counter_ \in Int /\ Outstanding(less) \in Nat
        /\ conn'.counter_.counter_ \in Int /\ Outstanding(conn') \in Nat
    BY <2>2, <2>3, <2>5, FieldTypes
  <2>7. CounterExact'
    BY <2>2, <2>3, <2>4, <2>5, <2>6 DEF CounterExact
  <2>8. ASSUME conn'.counter_.destructions # conn.counter_.destructions
        PROVE  /\ conn'.state_ = "CLOSED"
               /\ Outstanding(conn') = conn'.calls["write"]
               /\ conn'.calls["write"] <= conn.dataToSocketQueue
    <3>1. Outstanding(resumed) - closed <= 0
      BY <2>2, <2>3, <2>5, <2>6, <2>8
    <3>2. Outstanding(resumed) <= 1 /\ (Outstanding(resumed) >= 1 => closed = 1)
      BY <2>6, <3>1
    <3>3. \A call \in Calls : resumed.calls[call] = 0
      BY <2>2, <3>2, OutstandingFacts
    <3>4. Outstanding(resumed) >= 1
      BY <2>2, FieldTypes DEF Outstanding
    <3>5. /\ \A call \in Calls \ {"write"} : conn'.calls[call] = 0
          /\ resumed.calls["write"] = 0
      BY <2>5, <3>3 DEF Calls
    <3>6. Outstanding(conn') = conn'.calls["write"]
      BY <2>5, <3>5, OutstandingFacts
    <3>7. /\ conn'.calls["write"] \in Nat
          /\ conn.dataToSocketQueue \in Nat
      BY <1>0, <2>5, FieldTypes
    <3>8. QED
      BY <2>5, <3>2, <3>4, <3>5, <3>6, <3>7
  <2>9. QED
    BY <2>5, <2>7, <2>8
<1>3. CASE OpeningRejects
  <2> DEFINE less == AfterCall(conn)
  <2>1. conn' = Rejected(less) /\ conn.opening # "none"
    BY <1>3 DEF OpeningRejects
  <2>2. /\ less \in Connection
        /\ less.counter_.counter_ = conn.counter_.counter_ - 1
        /\ less.counter_.destructions # conn.counter_.destructions
              <=> conn.counter_.counter_ - 1 < 0
        /\ less.calls = conn.calls
        /\ less.opening = conn.opening
        /\ less.state_ = conn.state_
    BY <1>0, AfterCallFacts
  <2>3. Outstanding(less) = Outstanding(conn)
    BY <2>2 DEF Outstanding
  <2> HIDE DEF less
  <2>4. /\ conn' \in Connection
        /\ conn'.state_ = conn.state_
        /\ conn'.counter_ = less.counter_
        /\ conn'.calls = conn.calls
        /\ Outstanding(conn') = Outstanding(conn) - 1
    BY <2>1, <2>2, <2>3, RejectedFacts
  <2>5. /\ conn.counter_.counter_ \in Int /\ Outstanding(conn) \in Nat
        /\ Outstanding(conn') \in Nat /\ conn.calls["write"] \in Nat
        /\ conn.dataToSocketQueue \in Nat
    BY <1>0, <2>4, FieldTypes
  <2>6. Outstanding(conn') = 0 => conn'.calls["write"] = 0
    BY <2>4, OutstandingFacts
  <2>7. QED
    BY <1>0, <2>2, <2>4, <2>5, <2>6 DEF CounterExact
<1>4. ASSUME NEW call \in Calls, CallSettles(call)
      PROVE  Good
  <2> DEFINE d == [conn EXCEPT !.calls[call] = @ - 1]
  <2>1. conn' = AfterCall(d) /\ conn.calls[call] > 0
    BY <1>4 DEF CallSettles
  <2>2. /\ d \in Connection
        /\ d.counter_ = conn.counter_
        /\ d.state_ = conn.state_
        /\ Outstanding(d) = Outstanding(conn) - 1
    BY <1>0, <2>1, SettledFacts
  <2> HIDE DEF d
  <2>3. /\ conn' \in Connection
        /\ conn'.counter_.counter_ = d.counter_.counter_ - 1
        /\ conn'.counter_.destructions # d.counter_.destructions
              <=> d.counter_.counter_ - 1 < 0
        /\ conn'.calls = d.calls
        /\ conn'.opening = d.opening
        /\ conn'.state_ = conn.state_
    BY <2>1, <2>2, AfterCallFacts
  <2>4. Outstanding(conn') = Outstanding(d)
    BY <2>3 DEF Outstanding
  <2>5. /\ conn.counter_.counter_ \in Int /\ Outstanding(conn) \in Nat
        /\ Outstanding(conn') \in Nat /\ conn.dataToSocketQueue \in Nat
    BY <1>0, <2>3, FieldTypes
  <2>6. Outstanding(conn') = 0 => conn'.calls["write"] = 0
    BY <2>3, OutstandingFacts
  <2>7. QED
    BY <1>0, <2>2, <2>3, <2>4, <2>5, <2>6 DEF CounterExact
<1>5. ASSUME NEW errcode \in ErrCode, OnDisconnect(errcode)
      PROVE  Good
  <2> DEFINE d == [conn EXCEPT !.state_ = "CLOSED", !.info = errcode,
                               !.handling = FALSE, !.dataToSocketQueue = 0]
  <2>1. CASE conn.state_ = "CLOSED"
    BY <1>0, <1>5, <2>1 DEF OnDisconnect, CounterExact, Outstanding
  <2>2. CASE conn.state_ # "CLOSED"
    <3>1. conn' = AfterCall(d)
      BY <1>5, <2>2 DEF OnDisconnect
    <3>2. /\ d \in Connection
          /\ d.counter_ = conn.counter_
          /\ d.state_ = "CLOSED"
          /\ Outstanding(d) = Outstanding(conn)
      BY <1>0, DisconnectedFacts
    <3> HIDE DEF d
    <3>3. /\ conn' \in Connection
          /\ conn'.counter_.counter_ = d.counter_.counter_ - 1
          /\ conn'.counter_.destructions # d.counter_.destructions
                <=> d.counter_.counter_ - 1 < 0
          /\ conn'.calls = d.calls
          /\ conn'.opening = d.opening
          /\ conn'.state_ = "CLOSED"
      BY <3>1, <3>2, AfterCallFacts
    <3>4. Outstanding(conn') = Outstanding(d)
      BY <3>3 DEF Outstanding
    <3>5. /\ conn.counter_.counter_ \in Int /\ Outstanding(conn) \in Nat
          /\ Outstanding(conn') \in Nat /\ conn.dataToSocketQueue \in Nat
      BY <1>0, <3>3, FieldTypes
    <3>6. Outstanding(conn') = 0 => conn'.calls["write"] = 0
      BY <3>3, OutstandingFacts
    <3>7. QED
      BY <1>0, <2>2, <3>2, <3>3, <3>4, <3>5, <3>6 DEF CounterExact
  <2>3. QED
    BY <2>1, <2>2
<1>6. CASE Send
  <2> DEFINE d == [conn EXCEPT !.dataToSocketQueue = @ + 1]
  <2>1. conn' = Flush(d)
    BY <1>6 DEF Send
  <2>2. conn.dataToSocketQueue + 1 \in Nat
    BY <1>0, FieldTypes
  <2>3. \A n \in Nat : [conn EXCEPT !.dataToSocketQueue = n] \in Connection
    BY <1>0 DEF Connection
  <2>4. /\ d \in Connection
        /\ d.counter_ = conn.counter_
        /\ d.calls = conn.calls
        /\ d.opening = conn.opening
        /\ d.state_ = conn.state_
    BY <1>0, <2>2, <2>3 DEF Connection
  <2>5. Outstanding(d) = Outstanding(conn)
    BY <2>4 DEF Outstanding
  <2> HIDE DEF d
  <2>6. /\ conn' \in Connection
        /\ conn'.state_ = conn.state_
        /\ conn'.counter_.destructions = conn.counter_.destructions
        /\ conn'.counter_.counter_ - conn.counter_.counter_
              = Outstanding(conn') - Outstanding(conn)
    BY <2>1, <2>4, <2>5, FlushFacts
  <2>7. /\ conn.counter_.counter_ \in Int /\ Outstanding(conn) \in Nat
        /\ conn'.counter_.counter_ \in Int /\ Outstanding(conn') \in Nat
    BY <1>0, <2>6, FieldTypes
  <2>8. QED
    BY <1>0, <2>6, <2>7 DEF CounterExact
<1>7. ASSUME NEW call \in Calls, conn' = Wrap(conn, call)
      PROVE  Good
  <2>1. conn.counter_.counter_ \in Int /\ Outstanding(conn) \in Nat
    BY <1>0, FieldTypes
  <2>2. QED
    BY <1>0, <1>7, <2>1, WrapFacts DEF CounterExact
<1>8. CASE UNCHANGED conn
  BY <1>0, <1>8 DEF CounterExact, Outstanding
<1>9. QED
  <2>1. ASSUME NEW errcode \in ErrCode, SocketDown(errcode)
        PROVE  Good
    BY <1>8, <2>1 DEF SocketDown
  <2>2. ASSUME NEW call \in {"pause", "resume"}, PauseOrResume(call)
        PROVE  Good
    BY <1>7, <2>2 DEF PauseOrResume, Calls
  <2>3. CASE Close
    BY <1>7, <2>3 DEF Close, Calls
  <2>4. QED
    BY <1>1, <1>2, <1>3, <1>4, <1>5, <1>6, <2>1, <2>2, <2>3 DEF Next

\* The socket and the bound on requests keep their types.
LEMMA NextSocket ==
    ASSUME IInv, Next
    PROVE  socket' \in Socket /\ requests' \in 0 .. MaxRequests
<1>0. socket \in Socket /\ requests \in 0 .. MaxRequests
  BY DEF IInv, TypeOK
<1>1. requests' \in 0 .. MaxRequests
  <2>1. requests' = requests \/ Request
    BY DEF Next, ConnectFulfills, InfoFulfills, OpeningRejects, CallSettles,
           OnDisconnect, SocketDown, Send, PauseOrResume, Close
  <2>2. QED
    BY <1>0, <2>1, TcpAssumption DEF Request
<1>2. /\ socket.events \in [ErrCode -> Nat]
      /\ socket.up \in BOOLEAN
      /\ socket.closing \in BOOLEAN
  BY <1>0 DEF Socket
<1>3. \A f \in [ErrCode -> Nat], up \in BOOLEAN, closing \in BOOLEAN :
         [socket EXCEPT !.up = up, !.closing = closing, !.events = f]
             \in Socket
  BY <1>0 DEF Socket
<1>4. CASE UNCHANGED socket
  BY <1>0, <1>1, <1>4
<1>5. CASE ConnectFulfills
  <2>1. socket' = [socket EXCEPT !.up = TRUE, !.closing = socket.closing,
                                 !.events = socket.events]
    BY <1>0, <1>5 DEF ConnectFulfills, Socket
  <2>2. QED
    BY <1>1, <1>2, <1>3, <2>1
<1>6. CASE socket' = [socket EXCEPT !.events["OTHER"] = @ + 1]
  <2>1. [socket.events EXCEPT !["OTHER"] = @ + 1] \in [ErrCode -> Nat]
    BY <1>2 DEF ErrCode
  <2>2. socket' = [socket EXCEPT
                      !.up = socket.up, !.closing = socket.closing,
                      !.events = [socket.events EXCEPT !["OTHER"] = @ + 1]]
    BY <1>0, <1>6 DEF Socket
  <2>3. QED
    BY <1>1, <1>2, <1>3, <2>1, <2>2
<1>7. ASSUME NEW e \in ErrCode, OnDisconnect(e)
      PROVE  socket' \in Socket
  <2>1. socket.events[e] > 0
        /\ socket' = [socket EXCEPT !.events[e] = @ - 1]
    BY <1>7 DEF OnDisconnect
  <2>2. [socket.events EXCEPT ![e] = @ - 1] \in [ErrCode -> Nat]
    BY <1>2, <2>1
  <2>3. socket' = [socket EXCEPT
                      !.up = socket.up, !.closing = socket.closing,
                      !.events = [socket.events EXCEPT ![e] = @ - 1]]
    BY <1>0, <2>1 DEF Socket
  <2>4. QED
    BY <1>2, <1>3, <2>2, <2>3
<1>8. ASSUME NEW e \in ErrCode, SocketDown(e)
      PROVE  socket' \in Socket
  <2>1. PICK n \in 1 .. MaxEvents :
           socket' = [socket EXCEPT !.up = FALSE, !.events[e] = @ + n]
    BY <1>8 DEF SocketDown
  <2>2. [socket.events EXCEPT ![e] = @ + n] \in [ErrCode -> Nat]
    BY <1>2, <2>1
  <2>3. socket' = [socket EXCEPT
                      !.up = FALSE, !.closing = socket.closing,
                      !.events = [socket.events EXCEPT ![e] = @ + n]]
    BY <1>0, <2>1 DEF Socket
  <2>4. QED
    BY <1>2, <1>3, <2>2, <2>3
<1>9. CASE Close
  <2>1. socket' = [socket EXCEPT !.up = socket.up, !.closing = TRUE,
                                 !.events = socket.events]
    BY <1>0, <1>9 DEF Close, Socket
  <2>2. QED
    BY <1>1, <1>2, <1>3, <2>1
<1>10. QED
  BY <1>1, <1>4, <1>5, <1>6, <1>7, <1>8, <1>9
  DEF Next, InfoFulfills, OpeningRejects, CallSettles, Send, PauseOrResume

\* Every step keeps it.
LEMMA NextIInv == IInv /\ [Next]_vars => IInv'
<1>1. IInv /\ Next => IInv'
  <2> SUFFICES ASSUME IInv, Next PROVE IInv'
    OBVIOUS
  <2>1. QED
    BY NextConn, NextSocket DEF IInv, TypeOK
<1>2. IInv /\ UNCHANGED vars => IInv'
  BY DEF vars, IInv, TypeOK, CounterExact, Outstanding
<1>3. QED
  BY <1>1, <1>2

-----------------------------------------------------------------------------
(* What onceClosed tells. *)

\* ClosedTells of one connection, and what it rests on: an onDisconnect event
\* closes the connection, and onceDestroyed fulfills when the destructor runs.
Told(c) ==
    /\ c.onceClosed \notin {"pending", "NEVER_CONNECTED"} =>
          /\ c.state_ = "CLOSED"
          /\ c.onceClosed = KindOf(c.info)
          /\ c.counter_.destructions > 0
    /\ c.info # "none" => c.state_ = "CLOSED"
    /\ c.counter_.onceDestroyed_ = "fulfilled" =>
          c.counter_.destructions > 0

\* Told reads five fields.
LEMMA ToldSame ==
    ASSUME NEW c, NEW d, Told(c),
           d.onceClosed = c.onceClosed, d.info = c.info,
           d.state_ = "CLOSED" <=> c.state_ = "CLOSED",
           d.counter_.destructions = c.counter_.destructions,
           d.counter_.onceDestroyed_ = c.counter_.onceDestroyed_
    PROVE  Told(d)
BY DEF Told

\* A call that goes out tells nothing.
LEMMA WrapTells ==
    ASSUME NEW c \in Connection, NEW call \in Calls, Told(c)
    PROVE  Told(Wrap(c, call))
<1>1. /\ Before(c.counter_).destructions = c.counter_.destructions
      /\ Before(c.counter_).onceDestroyed_ = c.counter_.onceDestroyed_
  BY FieldTypes DEF Before, CounterType
<1>2. /\ Wrap(c, call).onceClosed = c.onceClosed
      /\ Wrap(c, call).info = c.info
      /\ Wrap(c, call).state_ = c.state_
      /\ Wrap(c, call).counter_ = Before(c.counter_)
  BY DEF Wrap, Connection
<1>3. QED
  BY <1>1, <1>2, ToldSame

\* Nor does the queue, when it writes.
LEMMA FlushTells ==
    ASSUME NEW c \in Connection, Told(c)
    PROVE  Told(Flush(c))
<1>1. CASE ~ c.handling
  BY <1>1 DEF Flush
<1>2. CASE c.handling
  <2>1. PICK k : k = [c.counter_ EXCEPT !.counter_ = @ + c.dataToSocketQueue]
    OBVIOUS
  <2>2. /\ k.destructions = c.counter_.destructions
        /\ k.onceDestroyed_ = c.counter_.onceDestroyed_
    BY <2>1, FieldTypes DEF CounterType
  <2>3. /\ Flush(c).onceClosed = c.onceClosed
        /\ Flush(c).info = c.info
        /\ Flush(c).state_ = c.state_
        /\ Flush(c).counter_ = k
    BY <1>2, <2>1 DEF Flush, Connection
  <2>4. QED
    BY <2>2, <2>3, ToldSame
<1>3. QED
  BY <1>1, <1>2

\* When the counter destroys the socket behind the disconnection, onceClosed
\* is given the kind of that disconnection.
LEMMA AfterCallTells ==
    ASSUME NEW c \in Connection, Told(c)
    PROVE  Told(AfterCall(c))
<1>1. PICK k : k = After(c.counter_)
  OBVIOUS
<1>2. /\ c.counter_.destructions > 0 => k.destructions > 0
      /\ k.onceDestroyed_ = "fulfilled" => k.destructions > 0
  <2>1. /\ c.counter_ \in CounterType
        /\ c.counter_.counter_ \in Int
        /\ c.counter_.destructions \in Nat
    BY FieldTypes
  <2>2. c.counter_.onceDestroyed_ = "fulfilled" =>
           c.counter_.destructions > 0
    BY DEF Told
  <2>3. QED
    BY <1>1, <2>1, <2>2 DEF After, Destruct, Outcome, CounterType
<1>3. PICK d : d = [c EXCEPT !.counter_ = k]
  OBVIOUS
<1>4. /\ d.onceClosed = c.onceClosed
      /\ d.info = c.info
      /\ d.state_ = c.state_
      /\ d.counter_ = k
  BY <1>3 DEF Connection
<1>5. AfterCall(c) =
         IF d.counter_.onceDestroyed_ = "fulfilled" /\ d.info # "none"
         THEN FulfillClosed(d, KindOf(d.info)) ELSE d
  BY <1>1, <1>3 DEF AfterCall
<1>6. Told(d)
  BY <1>2, <1>4 DEF Told
<1>7. CASE d.counter_.onceDestroyed_ = "fulfilled" /\ d.info # "none"
  <2>1. AfterCall(c) = [d EXCEPT !.onceClosed = IF @ = "pending"
                                                THEN KindOf(d.info) ELSE @]
    BY <1>5, <1>7 DEF FulfillClosed
  <2>2. /\ AfterCall(c).onceClosed = IF c.onceClosed = "pending"
                                     THEN KindOf(c.info) ELSE c.onceClosed
        /\ AfterCall(c).info = c.info
        /\ AfterCall(c).state_ = c.state_
        /\ AfterCall(c).counter_ = k
    BY <1>3, <1>4, <2>1 DEF Connection
  <2>3. c.info # "none" /\ k.onceDestroyed_ = "fulfilled"
    BY <1>4, <1>7
  <2>4. QED
    BY <1>2, <2>2, <2>3 DEF Told
<1>8. QED
  BY <1>5, <1>6, <1>7

\* Connecting, and failing to, tell of no disconnection.
LEMMA OpenedTells ==
    ASSUME NEW c \in Connection, c.opening # "none", Told(c)
    PROVE  Told(Connected(c)) /\ Told(Rejected(c))
<1>1. Told(Connected(c))
  <2>1. PICK d : d = [c EXCEPT !.opening = "none",
                               !.onceConnected = "fulfilled",
                               !.state_ = IF @ = "CONNECTING"
                                          THEN "CONNECTED" ELSE @,
                               !.handling = TRUE]
    OBVIOUS
  <2>2. d \in Connection
    BY <2>1 DEF Connection
  <2>3. /\ d.onceClosed = c.onceClosed
        /\ d.info = c.info
        /\ d.state_ = "CLOSED" <=> c.state_ = "CLOSED"
        /\ d.counter_ = c.counter_
    BY <2>1 DEF Connection
  <2>4. Told(d)
    BY <2>3, ToldSame
  <2>5. Connected(c) = Flush(d)
    BY <2>1 DEF Connected
  <2>6. QED
    BY <2>2, <2>4, <2>5, FlushTells
<1>2. Told(Rejected(c))
  <2>1. /\ Rejected(c).onceClosed = IF c.onceClosed = "pending"
                                    THEN "NEVER_CONNECTED" ELSE c.onceClosed
        /\ Rejected(c).info = c.info
        /\ Rejected(c).state_ = c.state_
        /\ Rejected(c).counter_ = c.counter_
    BY DEF Rejected, FulfillClosed, Connection
  <2>2. QED
    BY <2>1 DEF Told
<1>3. QED
  BY <1>1, <1>2

\* The constructor has nothing to tell.
LEMMA InitTells == Init => Told(conn)
<1> SUFFICES ASSUME NEW kind \in Kinds, NEW paused \in BOOLEAN,
                    conn = NewConnection(kind, paused)
             PROVE  Told(conn)
  BY DEF Init
<1>1. /\ conn.onceClosed = "pending"
      /\ conn.info = "none"
      /\ conn.counter_ = Before(NewCounter)
  BY DEF NewConnection
<1>2. Before(NewCounter).onceDestroyed_ = "pending"
  BY DEF Before, NewCounter
<1>3. QED
  BY <1>1, <1>2 DEF Told

\* No step tells more than has happened.
LEMMA NextTells ==
    ASSUME IInv, Told(conn), Next
    PROVE  Told(conn)'
<1> SUFFICES Told(conn')
  OBVIOUS
<1>0. conn \in Connection
  BY DEF IInv, TypeOK
<1>1. CASE ConnectFulfills
  <2>1. "pause" \in Calls
    BY DEF Calls
  <2>2. PICK d : d = Wrap(conn, "pause")
    OBVIOUS
  <2>3. d \in Connection /\ Told(d)
    BY <1>0, <2>1, <2>2, WrapFacts, WrapTells
  <2>4. conn' = [d EXCEPT !.opening = "getInfo"]
    BY <1>1, <2>2 DEF ConnectFulfills
  <2>5. /\ conn'.onceClosed = d.onceClosed
        /\ conn'.info = d.info
        /\ conn'.state_ = d.state_
        /\ conn'.counter_ = d.counter_
    BY <2>3, <2>4 DEF Connection
  <2>6. QED
    BY <2>3, <2>5, ToldSame
<1>2. CASE InfoFulfills
  <2>1. PICK d : d = IF conn.kind = "endpoint" /\ ~ conn.startPaused_
                     THEN Wrap(conn, "resume") ELSE conn
    OBVIOUS
  <2>2. conn' = Connected(AfterCall(d)) /\ conn.opening = "getInfo"
    BY <1>2, <2>1 DEF InfoFulfills
  <2>3. "resume" \in Calls
    BY DEF Calls
  <2>4. d \in Connection /\ Told(d) /\ d.opening # "none"
    BY <1>0, <2>1, <2>2, <2>3, WrapFacts, WrapTells
  <2>5. /\ AfterCall(d) \in Connection
        /\ AfterCall(d).opening # "none"
        /\ Told(AfterCall(d))
    BY <2>4, AfterCallFacts, AfterCallTells
  <2>6. QED
    BY <2>2, <2>5, OpenedTells
<1>3. CASE OpeningRejects
  <2>1. conn' = Rejected(AfterCall(conn)) /\ conn.opening # "none"
    BY <1>3 DEF OpeningRejects
  <2>2. /\ AfterCall(conn) \in Connection
        /\ AfterCall(conn).opening # "none"
        /\ Told(AfterCall(conn))
    BY <1>0, <2>1, AfterCallFacts, AfterCallTells
  <2>3. QED
    BY <2>1, <2>2, OpenedTells
<1>4. ASSUME NEW call \in Calls, CallSettles(call)
      PROVE  Told(conn')
  <2>1. PICK d : d = [conn EXCEPT !.calls[call] = @ - 1]
    OBVIOUS
  <2>2. conn' = AfterCall(d) /\ conn.calls[call] > 0
    BY <1>4, <2>1 DEF CallSettles
  <2>3. d \in Connection
    BY <1>0, <2>1, <2>2, SettledFacts
  <2>4. /\ d.onceClosed = conn.onceClosed
        /\ d.info = conn.info
        /\ d.state_ = conn.state_
        /\ d.counter_ = conn.counter_
    BY <1>0, <2>1 DEF Connection
  <2>5. Told(d)
    BY <2>4, ToldSame
  <2>6. QED
    BY <2>2, <2>3, <2>5, AfterCallTells
<1>5. ASSUME NEW errcode \in ErrCode, OnDisconnect(errcode)
      PROVE  Told(conn')
  <2>1. CASE conn.state_ = "CLOSED"
    BY <1>5, <2>1 DEF OnDisconnect
  <2>2. CASE conn.state_ # "CLOSED"
    <3>1. PICK d : d = [conn EXCEPT !.state_ = "CLOSED", !.info = errcode,
                                    !.handling = FALSE,
                                    !.dataToSocketQueue = 0]
      OBVIOUS
    <3>2. conn' = AfterCall(d)
      BY <1>5, <2>2, <3>1 DEF OnDisconnect
    <3>3. d \in Connection
      BY <1>0, <3>1, DisconnectedFacts
    <3>4. /\ d.onceClosed = conn.onceClosed
          /\ d.state_ = "CLOSED"
          /\ d.counter_ = conn.counter_
      BY <1>0, <3>1 DEF Connection
    <3>5. Told(d)
      BY <2>2, <3>4 DEF Told
    <3>6. QED
      BY <3>2, <3>3, <3>5, AfterCallTells
  <2>3. QED
    BY <2>1, <2>2
<1>6. CASE Send
  <2>1. PICK d : d = [conn EXCEPT !.dataToSocketQueue = @ + 1]
    OBVIOUS
  <2>2. conn' = Flush(d)
    BY <1>6, <2>1 DEF Send
  <2>3. d \in Connection
    <3>1. conn.dataToSocketQueue + 1 \in Nat
      BY <1>0, FieldTypes
    <3>2. QED
      BY <1>0, <2>1, <3>1 DEF Connection
  <2>4. /\ d.onceClosed = conn.onceClosed
        /\ d.info = conn.info
        /\ d.state_ = conn.state_
        /\ d.counter_ = conn.counter_
    BY <1>0, <2>1 DEF Connection
  <2>5. Told(d)
    BY <2>4, ToldSame
  <2>6. QED
    BY <2>2, <2>3, <2>5, FlushTells
<1>7. ASSUME NEW call \in {"pause", "resume", "close"},
             conn' = Wrap(conn, call)
      PROVE  Told(conn')
  BY <1>0, <1>7, WrapTells DEF Calls
<1>8. CASE UNCHANGED conn
  BY <1>8
<1>9. QED
  <2>1. ASSUME NEW errcode \in ErrCode, SocketDown(errcode)
        PROVE  Told(conn')
    BY <1>8, <2>1 DEF SocketDown
  <2>2. ASSUME NEW call \in {"pause", "resume"}, PauseOrResume(call)
        PROVE  Told(conn')
    BY <1>7, <2>2 DEF PauseOrResume
  <2>3. CASE Close
    BY <1>7, <2>3 DEF Close
  <2>4. QED
    BY <1>1, <1>2, <1>3, <1>4, <1>5, <1>6, <2>1, <2>2, <2>3 DEF Next

-----------------------------------------------------------------------------
(* The theorems. *)

\* The inductive invariant holds throughout, for connections of either kind,
\* any number of requests and of disconnect events.
THEOREM Invariance == Spec => []IInv
BY InitIInv, NextIInv, PTL DEF Spec

\* Every field of Connection keeps its type (tcp.ts:263-478).
THEOREM TypeCorrect == Spec => []TypeOK
BY Invariance, PTL DEF IInv

\* The counter counts the calls that are outstanding, less one for the
\* disconnection, whatever order calls, failures and repeated disconnect
\* events come in (wrap in tcp.ts:319-450, discard in 404-409).
THEOREM CounterIsExact == Spec => []CounterExact
BY Invariance, PTL DEF IInv

\* destroyFreedomSocket_ never runs under a call that was outstanding before
\* the disconnection or made before it ran (tcp.ts:286-287, "for safe
\* destruction").
THEOREM SafeDestruction == Spec => DestroyedIdle
<1>1. IInv /\ [Next]_vars =>
        [conn'.counter_.destructions # conn.counter_.destructions =>
            /\ conn'.state_ = "CLOSED"
            /\ Outstanding(conn') = conn'.calls["write"]
            /\ conn'.calls["write"] <= conn.dataToSocketQueue]_vars
  BY NextConn
<1>2. QED
  BY <1>1, Invariance, PTL DEF Spec, DestroyedIdle

\* onceClosed tells the disconnection's own kind, or that the connection was
\* never made, and not before the socket object is gone (tcp.ts:395-418).
THEOREM ClosedTellsTrue == Spec => []ClosedTells
<1>1. Init => Told(conn)
  BY InitTells
<1>2. IInv /\ Told(conn) /\ [Next]_vars => Told(conn)'
  BY NextTells DEF vars, Told
<1>3. Told(conn) => ClosedTells
  BY DEF Told, ClosedTells
<1>4. QED
  BY <1>1, <1>2, <1>3, Invariance, PTL DEF Spec
=============================================================================
