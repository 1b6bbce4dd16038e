--------------------------------- MODULE Turn ---------------------------------
(***************************************************************************)
(* The TURN server in two halves: the frontend, which TURN clients talk to *)
(* over UDP (src/turn-frontend/turn-frontend.ts), and the backend, which   *)
(* owns one relay socket per client (src/turn-backend/turn-backend.ts).    *)
(* The halves send each other STUN messages tagged with the client, in     *)
(* order and without loss.  Clients are named by their tag, address:port.  *)
(*                                                                         *)
(* Datagrams are lost, duplicated and reordered on the way to the frontend *)
(* by clients that ask anything, any number of times; what the frontend    *)
(* sends to a client is kept in answers, and may be lost after that.       *)
(* Messages that are refused without any effect are left out.              *)
(***************************************************************************)
EXTENDS Naturals, Sequences, SequencesExt, FiniteSets

CONSTANTS
    Clients,        \* tags of TURN clients
    Transactions,   \* transaction ids a client may use
    MaxAsked,       \* bound: datagrams of each client
    MaxData,        \* bound: datagrams that come in at one relay socket
    MayFail         \* whether bind and getInfo may fail

ASSUME TurnAssumption ==
    MaxAsked \in [Clients -> Nat] /\ MaxData \in Nat /\ MayFail \in BOOLEAN

VARIABLES
    asked,      \* asked[c]: datagrams of c that the frontend handled
    promises_,  \* frontend: promises_[c], which callbacks_[c] settles
    waiting,    \* frontend: transactions of c that wait for promises_[c]
    toBackend,  \* "ipc" events of the frontend, for handleIpc of the backend
    allocations_, \* backend: allocations_[c]
    afterBind,  \* backend: requests of c that wait for allocations_[c]
    infos,      \* backend: transactions whose getInfo is outstanding
    arrived,    \* datagrams that came in at the relay socket of c
    toFrontend, \* "ipc" events of the backend, for handleIpc of the frontend
    answers,    \* what the frontend sent to c
    relayed,    \* SEND indications that left c's relay socket
    dropped     \* requests of c that came to nothing in the backend, and why

frontendVars == <<asked, promises_, waiting>>
backendVars == <<allocations_, afterBind, infos, arrived, relayed, dropped>>
vars == <<frontendVars, toBackend, backendVars, toFrontend, answers>>

-----------------------------------------------------------------------------
(* Messages *)

\* A STUN message between the two halves.  ok: the class of a response, and of
\* a SEND whether its client had asked for a relay.  A SEND is identified by
\* its place among the client's datagrams.
Ipc(method, c, tid, ok) == [method |-> method, tag |-> c, tid |-> tid, ok |-> ok]

\* A response for the request asked, with the transaction id tid: that of the
\* object that is sent.  signed counts its MESSAGE-INTEGRITY attributes.
Answer(method, ok, request, tid, signed) ==
    [method |-> method, ok |-> ok, request |-> request, tid |-> tid,
     signed |-> signed]

NoPromise == [state |-> "none", tid |-> 0, signed |-> 0]

\* What waits for an allocation: ALLOCATE requests, by transaction, and SENDs.
NoRequests == [allocates |-> <<>>, sends |-> <<>>]

Init ==
    /\ asked = [c \in Clients |-> 0]
    /\ promises_ = [c \in Clients |-> NoPromise]
    /\ waiting = [c \in Clients |-> <<>>]
    /\ toBackend = <<>> /\ toFrontend = <<>>
    /\ allocations_ = [c \in Clients |-> "none"]
    /\ afterBind = [c \in Clients |-> NoRequests]
    /\ infos = [c \in Clients |-> <<>>]
    /\ arrived = [c \in Clients |-> 0]
    /\ answers = [c \in Clients |-> {}]
    /\ relayed = [c \in Clients |-> <<>>]
    /\ dropped = [c \in Clients |-> {}]

-----------------------------------------------------------------------------
(* Frontend *)

Asks(c) == /\ asked[c] < MaxAsked[c]
           /\ asked' = [asked EXCEPT ![c] = @ + 1]

\* formatStunMessageWithIntegrity appends its attribute to the message itself:
\* the memoised response collects one for each of the requests it is sent for.
SendMemoised(c, requests, memo) ==
    /\ answers' = [answers EXCEPT ![c] = @ \cup
           {Answer("ALLOCATE", TRUE, requests[i], memo.tid, memo.signed + i) :
               i \in DOMAIN requests}]
    /\ promises_' = [promises_ EXCEPT ![c] =
           [memo EXCEPT !.signed = @ + Len(requests)]]

\* CREATE_PERMISSION and REFRESH succeed, and ALLOCATE without a USERNAME
\* fails, whatever the client has.
AnswerAtOnce(c, tid) ==
    /\ Asks(c)
    /\ \E method \in {"CREATE_PERMISSION", "REFRESH", "ALLOCATE"} :
          answers' = [answers EXCEPT ![c] =
              @ \cup {Answer(method, method # "ALLOCATE", tid, tid, 1)}]
    /\ UNCHANGED <<promises_, waiting, toBackend, backendVars, toFrontend>>

\* ALLOCATE with a USERNAME: the promise of the client is made once, but the
\* backend is asked every time.
RequestRelay(c, tid) ==
    /\ Asks(c)
    /\ toBackend' = Append(toBackend, Ipc("ALLOCATE", c, tid, TRUE))
    /\ CASE promises_[c].state = "fulfilled" ->
              SendMemoised(c, <<tid>>, promises_[c]) /\ UNCHANGED waiting
         [] promises_[c].state = "rejected" ->
              UNCHANGED <<answers, promises_, waiting>>
         [] OTHER ->
              /\ waiting' = [waiting EXCEPT ![c] = Append(@, tid)]
              /\ promises_' = [promises_ EXCEPT ![c].state = "pending"]
              /\ UNCHANGED answers
    /\ UNCHANGED <<backendVars, toFrontend>>

SendIndication(c) ==
    /\ Asks(c)
    /\ toBackend' = Append(toBackend,
           Ipc("SEND", c, asked'[c], promises_[c].state # "none"))
    /\ UNCHANGED <<promises_, waiting, answers, backendVars, toFrontend>>

\* Mistake: a second response settles the promise again.
SettleAgain(m) ==
    IF m.ok THEN /\ SendMemoised(m.tag, waiting[m.tag],
                                 [state |-> "fulfilled", tid |-> m.tid, signed |-> 0])
                 /\ waiting' = [waiting EXCEPT ![m.tag] = <<>>]
    ELSE /\ promises_' = [promises_ EXCEPT ![m.tag].state = "rejected"]
         /\ UNCHANGED <<answers, waiting>>

\* Mistake: only the request that came last is answered.
SettleLast(m) ==
    IF promises_[m.tag].state # "pending"
    THEN UNCHANGED <<answers, promises_, waiting>>
    ELSE IF m.ok
    THEN /\ SendMemoised(m.tag, <<Last(waiting[m.tag])>>,
                         [state |-> "fulfilled", tid |-> m.tid, signed |-> 0])
         /\ waiting' = [waiting EXCEPT ![m.tag] = Front(@)]
    ELSE /\ promises_' = [promises_ EXCEPT ![m.tag].state = "rejected"]
         /\ UNCHANGED <<answers, waiting>>

\* callbacks_[tag]: the first response settles the promise.  A failure is only
\* logged: the requests that wait for it are never answered.
Settle(m) ==
    IF promises_[m.tag].state # "pending"
    THEN UNCHANGED <<answers, promises_, waiting>>
    ELSE IF m.ok
    THEN /\ SendMemoised(m.tag, waiting[m.tag],
                         [state |-> "fulfilled", tid |-> m.tid, signed |-> 0])
         /\ waiting' = [waiting EXCEPT ![m.tag] = <<>>]
    ELSE /\ promises_' = [promises_ EXCEPT ![m.tag].state = "rejected"]
         /\ UNCHANGED <<answers, waiting>>

\* handleIpc of the frontend.  A DATA message is sent on as it is, unsigned.
FrontendHandles ==
    /\ toFrontend # <<>>
    /\ toFrontend' = Tail(toFrontend)
    /\ LET m == Head(toFrontend) IN
       \/ m.method = "ALLOCATE" /\ Settle(m)
       \/ /\ m.method = "DATA"
          /\ answers' = [answers EXCEPT ![m.tag] =
                 @ \cup {Answer("DATA", TRUE, m.tid, m.tid, 0)}]
          /\ UNCHANGED <<promises_, waiting>>
    /\ UNCHANGED <<asked, toBackend, backendVars>>

-----------------------------------------------------------------------------
(* Backend *)

Emit(m) == toFrontend' = Append(toFrontend, m)

Drop(c, messages, why) ==
    dropped' = [dropped EXCEPT ![c] =
        @ \cup {[tid |-> m.tid, asked |-> m.ok, why |-> why] : m \in messages}]

\* Mistake: the latest request is the first to go on.
WithRequestFirst(r, m) ==
    IF m.method = "ALLOCATE" THEN [r EXCEPT !.allocates = <<m.tid>> \o @]
                             ELSE [r EXCEPT !.sends = <<m>> \o @]

WithRequest(r, m) ==
    IF m.method = "ALLOCATE" THEN [r EXCEPT !.allocates = Append(@, m.tid)]
                             ELSE [r EXCEPT !.sends = Append(@, m)]

\* allocation.then: once the allocation is settled, an ALLOCATE goes on to
\* getInfo or is refused, and a SEND leaves or is lost.
Resume(c, r, bound) ==
    IF bound
    THEN /\ infos' = [infos EXCEPT ![c] = @ \o r.allocates]
         /\ relayed' = [relayed EXCEPT ![c] = @ \o
                [i \in DOMAIN r.sends |-> r.sends[i].tid]]
         /\ UNCHANGED <<toFrontend, dropped>>
    ELSE /\ toFrontend' = toFrontend \o
                [i \in DOMAIN r.allocates |->
                    Ipc("ALLOCATE", c, r.allocates[i], FALSE)]
         /\ Drop(c, ToSet(r.sends), "unbound")
         /\ UNCHANGED <<infos, relayed>>

\* Mistake: an allocation that failed is made again.
SettledUnlessFailed(c) == allocations_[c] = "bound"

\* The allocation is settled; before that, it is the same pending promise.
Settled(c) == allocations_[c] \in {"bound", "failed"}

\* makeAllocation_ and allocations_[tag], followed by then: the socket is made
\* for the first request only.
UseAllocation(m) ==
    IF Settled(m.tag)
    THEN /\ Resume(m.tag, WithRequest(NoRequests, m), allocations_[m.tag] = "bound")
         /\ UNCHANGED <<allocations_, afterBind>>
    ELSE /\ allocations_' = [allocations_ EXCEPT ![m.tag] = "binding"]
         /\ afterBind' = [afterBind EXCEPT ![m.tag] = WithRequest(@, m)]
         /\ UNCHANGED <<infos, toFrontend, relayed, dropped>>

\* Mistake: a SEND makes an allocation.
RefusesNothing(m) == FALSE

\* Mistake: a SEND must find the allocation bound.
RefusesUnbound(m) == m.method = "SEND" /\ allocations_[m.tag] # "bound"

\* A SEND needs an allocation, bound or not.
Refuses(m) == m.method = "SEND" /\ allocations_[m.tag] = "none"

\* handleIpc of the backend.
BackendHandles ==
    /\ toBackend # <<>>
    /\ toBackend' = Tail(toBackend)
    /\ LET m == Head(toBackend) IN
       \/ ~ Refuses(m) /\ UseAllocation(m)
       \/ /\ Refuses(m)
          /\ Drop(m.tag, {m}, "refused")
          /\ UNCHANGED <<allocations_, afterBind, infos, toFrontend, relayed>>
    /\ UNCHANGED <<frontendVars, arrived, answers>>

\* bind: the socket listens, or the allocation has failed for ever.
BindSettles(c, bound) ==
    /\ allocations_[c] = "binding"
    /\ bound \/ MayFail
    /\ allocations_' = [allocations_ EXCEPT ![c] = IF bound THEN "bound" ELSE "failed"]
    /\ afterBind' = [afterBind EXCEPT ![c] = NoRequests]
    /\ Resume(c, afterBind[c], bound)
    /\ UNCHANGED <<frontendVars, toBackend, arrived, answers>>

\* getInfo calls settle in any order; when one fails nothing is sent.
InfoSettles(c, i, ok) ==
    /\ i \in DOMAIN infos[c]
    /\ ok \/ MayFail
    /\ infos' = [infos EXCEPT ![c] = RemoveAt(@, i)]
    /\ LET response == Ipc("ALLOCATE", c, infos[c][i], TRUE) IN
       IF ok THEN Emit(response) /\ UNCHANGED dropped
             ELSE Drop(c, {response}, "getInfo") /\ UNCHANGED toFrontend
    /\ UNCHANGED <<frontendVars, toBackend, allocations_, afterBind, arrived,
                   relayed, answers>>

\* onData of a relay socket: DATA indications are numbered by arrival.
SocketData(c) ==
    /\ allocations_[c] = "bound"
    /\ arrived[c] < MaxData
    /\ arrived' = [arrived EXCEPT ![c] = @ + 1]
    /\ Emit(Ipc("DATA", c, arrived'[c], TRUE))
    /\ UNCHANGED <<frontendVars, toBackend, allocations_, afterBind, infos,
                   relayed, dropped, answers>>

-----------------------------------------------------------------------------
Settles(c) ==
    \/ \E bound \in BOOLEAN : BindSettles(c, bound)
    \/ \E i \in DOMAIN infos[c], ok \in BOOLEAN : InfoSettles(c, i, ok)

Next ==
    \/ FrontendHandles \/ BackendHandles
    \/ \E c \in Clients :
          \/ Settles(c) \/ SocketData(c) \/ SendIndication(c)
          \/ \E tid \in Transactions : AnswerAtOnce(c, tid) \/ RequestRelay(c, tid)

Spec == Init /\ [][Next]_vars

\* The event loops handle the messages they are sent and sockets settle their
\* calls; clients and peers need not send anything.
FairSpec ==
    /\ Spec
    /\ WF_vars(FrontendHandles) /\ WF_vars(BackendHandles)
    /\ \A c \in Clients : WF_vars(Settles(c))

-----------------------------------------------------------------------------
(* Properties *)

\* Transactions name requests of clients, numbers what else the halves send.
Ids == Transactions \cup Nat

Messages ==
    [method : {"ALLOCATE", "SEND", "DATA"}, tag : Clients, tid : Ids, ok : BOOLEAN]

Answers ==
    [method : {"CREATE_PERMISSION", "REFRESH", "ALLOCATE", "DATA"},
     ok : BOOLEAN, request : Ids, tid : Ids, signed : Nat]

\* The variables have their types.
TypeOK ==
    /\ asked \in [Clients -> Nat]
    /\ promises_ \in [Clients ->
           [state : {"none", "pending", "fulfilled", "rejected"},
            tid : Ids, signed : Nat]]
    /\ waiting \in [Clients -> Seq(Transactions)]
    /\ toBackend \in Seq(Messages) /\ toFrontend \in Seq(Messages)
    /\ allocations_ \in [Clients -> {"none", "binding", "bound", "failed"}]
    /\ afterBind \in [Clients ->
           [allocates : Seq(Ids), sends : Seq(Messages)]]
    /\ infos \in [Clients -> Seq(Ids)]
    /\ arrived \in [Clients -> Nat]
    /\ answers \in [Clients -> SUBSET Answers]
    /\ relayed \in [Clients -> Seq(Ids)]
    /\ dropped \in [Clients -> SUBSET
           [tid : Ids, asked : BOOLEAN, why : {"refused", "unbound", "getInfo"}]]

\* What c was told of its relay.
Told(c) == {a \in answers[c] : a.method = "ALLOCATE" /\ a.ok}

\* Every success that a client is told is one and the same response, whichever
\* of its requests it answers and however the two halves' answers interleave;
\* one of the requests it was sent for is the one whose transaction it names.
OneResponse ==
    \A c \in Clients :
        /\ \A a, b \in Told(c) : a.tid = b.tid
        /\ Told(c) # {} => \E a \in Told(c) : a.request = a.tid

\* The frontend's handleIpc calls callbacks_[tag] unchecked: whatever arrives
\* is about a client that has one, and whose socket was made.
CallbackExists ==
    \A m \in ToSet(toFrontend) :
        /\ promises_[m.tag].state # "none"
        /\ allocations_[m.tag] \notin {"none", "binding"}

\* A client that asked for its relay before it sends is never refused for want
\* of an allocation, however long the socket takes to bind.
NoneRefused ==
    \A c \in Clients : \A d \in dropped[c] : d.why = "refused" => ~ d.asked

\* Datagrams leave a relay socket in the order in which the frontend took them,
\* each once, those that waited for the socket before those that did not.
SendsInOrder ==
    \A c \in Clients : \A i, j \in DOMAIN relayed[c] :
        i < j => relayed[c][i] < relayed[c][j]

\* The relay of c, and what c was told of it, as in the table of relays.
RelayOf(c) ==
    CASE allocations_[c] = "bound" -> "granted"
      [] allocations_[c] = "failed" -> "refused"
      [] OTHER -> IF promises_[c].state = "none" THEN "none" ELSE "asked"

ToldOf(c) == IF Told(c) = {} THEN "nothing" ELSE "granted"

Table == INSTANCE RelayTable WITH
    relay <- [c \in Clients |-> RelayOf(c)], told <- [c \in Clients |-> ToldOf(c)]

\* Frontend and backend together implement the table of relays: each client
\* has at most one relay, decided once, and is told only of that one.
ImplementsTable == Table!Spec

\* A client that waits for its relay is answered, unless the relay could not
\* be made or a getInfo call for it failed.
AskedIsAnswered ==
    \A c \in Clients :
        waiting[c] # <<>> ~>
            \/ waiting[c] = <<>>
            \/ promises_[c].state = "rejected"
            \/ \E d \in dropped[c] : d.why = "getInfo"
===============================================================================
