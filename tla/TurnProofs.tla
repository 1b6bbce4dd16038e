------------------------------ MODULE TurnProofs ------------------------------
(***************************************************************************)
(* Proofs about Turn, for any clients, transactions and bounds.            *)
(***************************************************************************)
EXTENDS Turn, SequenceTheorems, TLAPS

Allocates(m, c) == m.method = "ALLOCATE" /\ m.tag = c

\* The backend is asked for a relay only of clients that have a promise, and
\* answers with one only when it is bound.
MessagesInv ==
    /\ \A m \in ToSet(toBackend) :
          /\ m.method \in {"ALLOCATE", "SEND"}
          /\ m.method = "ALLOCATE" => promises_[m.tag].state # "none"
    /\ \A m \in ToSet(toFrontend) :
          /\ m.method \in {"ALLOCATE", "DATA"}
          /\ m.method = "ALLOCATE" /\ m.ok => allocations_[m.tag] = "bound"

\* The backend has an allocation only for clients with a promise, and its
\* getInfo calls are on sockets that are bound.
AllocationInv ==
    \A c \in Clients :
        /\ allocations_[c] # "none" => promises_[c].state # "none"
        /\ infos[c] # <<>> => allocations_[c] = "bound"

\* What a client was told is what its promise was fulfilled with.
PromiseInv ==
    \A c \in Clients :
        /\ promises_[c].state = "fulfilled" =>
              /\ allocations_[c] = "bound"
              /\ \E a \in Told(c) : a.request = a.tid
        /\ \A a \in Told(c) :
              promises_[c].state = "fulfilled" /\ a.tid = promises_[c].tid

\* Until the promise of a client is settled, whatever transaction is under way
\* for its relay waits for that promise.
WaitingInv ==
    \A c \in Clients : promises_[c].state \notin {"fulfilled", "rejected"} =>
        /\ \A m \in ToSet(toBackend) \cup ToSet(toFrontend) :
              Allocates(m, c) => m.tid \in ToSet(waiting[c])
        /\ ToSet(afterBind[c].allocates) \subseteq ToSet(waiting[c])
        /\ ToSet(infos[c]) \subseteq ToSet(waiting[c])

\* An ALLOCATE is on its way to the backend, or has been there, before every
\* SEND of a client that asked.
OrderInv ==
    /\ \A c \in Clients : promises_[c].state # "none" =>
          \/ allocations_[c] # "none"
          \/ \E j \in 1 .. Len(toBackend) : Allocates(toBackend[j], c)
    /\ \A i \in 1 .. Len(toBackend) :
          toBackend[i].method = "SEND" /\ toBackend[i].ok =>
              \/ allocations_[toBackend[i].tag] # "none"
              \/ \E j \in 1 .. i - 1 : Allocates(toBackend[j], toBackend[i].tag)

IInv ==
    /\ TypeOK /\ MessagesInv /\ AllocationInv /\ PromiseInv /\ WaitingInv
    /\ OrderInv /\ CallbackExists /\ NoneRefused

-----------------------------------------------------------------------------
(* Elements of sequences. *)

\* The elements of a sequence are its values at 1 .. Len.
LEMMA Elements ==
    ASSUME NEW S, NEW s \in Seq(S)
    PROVE  /\ \A x : x \in ToSet(s) <=> \E i \in 1 .. Len(s) : x = s[i]
           /\ ToSet(s) \subseteq S
  BY DEF ToSet

\* Append adds an element.
LEMMA AppendElements ==
    ASSUME NEW S, NEW s \in Seq(S), NEW e \in S
    PROVE  /\ Append(s, e) \in Seq(S)
           /\ ToSet(Append(s, e)) = ToSet(s) \cup {e}
  <1>1. /\ Append(s, e) \in Seq(S)
        /\ Len(Append(s, e)) = Len(s) + 1 /\ Len(s) \in Nat
        /\ \A i \in 1 .. Len(s) : Append(s, e)[i] = s[i]
        /\ Append(s, e)[Len(s) + 1] = e
    BY AppendProperties, LenProperties
  <1>2. \A x : x \in ToSet(s) <=> \E i \in 1 .. Len(s) : x = s[i]
    BY Elements
  <1>3. \A x : x \in ToSet(Append(s, e))
                 <=> \E i \in 1 .. Len(Append(s, e)) : x = Append(s, e)[i]
    BY <1>1, Elements
  <1>4. 1 .. Len(s) + 1 = 1 .. Len(s) \cup {Len(s) + 1}
    BY <1>1
  <1> QED
    BY <1>1, <1>2, <1>3, <1>4

\* Taking the head of a sequence leaves elements of it.
LEMMA TailElements ==
    ASSUME NEW S, NEW s \in Seq(S), s # <<>>
    PROVE  /\ Tail(s) \in Seq(S)
           /\ Head(s) \in S /\ Head(s) \in ToSet(s)
           /\ ToSet(Tail(s)) \subseteq ToSet(s)
  <1>1. /\ Tail(s) \in Seq(S) /\ Len(s) \in Nat \ {0}
        /\ Len(Tail(s)) = Len(s) - 1 /\ Head(s) = s[1] /\ s[1] \in S
    OBVIOUS
  <1>2. \A i \in 1 .. Len(Tail(s)) : i + 1 \in 1 .. Len(s) /\ Tail(s)[i] = s[i + 1]
    BY <1>1
  <1>3. \A x : x \in ToSet(s) <=> \E i \in 1 .. Len(s) : x = s[i]
    BY Elements
  <1>4. \A x : x \in ToSet(Tail(s)) <=> \E i \in 1 .. Len(Tail(s)) : x = Tail(s)[i]
    BY <1>1, Elements
  <1>5. 1 \in 1 .. Len(s)
    BY <1>1
  <1> QED
    BY <1>1, <1>2, <1>3, <1>4, <1>5

\* Concatenation joins the elements.
LEMMA ConcatElements ==
    ASSUME NEW S, NEW s \in Seq(S), NEW t \in Seq(S)
    PROVE  /\ s \o t \in Seq(S)
           /\ ToSet(s \o t) \subseteq ToSet(s) \cup ToSet(t)
  <1>1. /\ s \o t \in Seq(S)
        /\ Len(s \o t) = Len(s) + Len(t) /\ Len(s) \in Nat /\ Len(t) \in Nat
        /\ \A i \in 1 .. Len(s) + Len(t) : (s \o t)[i] =
               IF i <= Len(s) THEN s[i] ELSE t[i - Len(s)]
    BY ConcatProperties, LenProperties
  <1>2. /\ \A x : x \in ToSet(s) <=> \E i \in 1 .. Len(s) : x = s[i]
        /\ \A x : x \in ToSet(t) <=> \E i \in 1 .. Len(t) : x = t[i]
    BY Elements
  <1>3. \A x : x \in ToSet(s \o t) <=> \E i \in 1 .. Len(s \o t) : x = (s \o t)[i]
    BY <1>1, Elements
  <1>4. \A i \in 1 .. Len(s) + Len(t) :
            IF i <= Len(s) THEN i \in 1 .. Len(s) ELSE i - Len(s) \in 1 .. Len(t)
    BY <1>1
  <1> QED
    BY <1>1, <1>2, <1>3, <1>4

\* A part of a sequence has elements of it.
LEMMA SubSeqElements ==
    ASSUME NEW S, NEW s \in Seq(S), NEW m \in Int, NEW n \in Int,
           1 <= m, n <= Len(s)
    PROVE  /\ SubSeq(s, m, n) \in Seq(S)
           /\ ToSet(SubSeq(s, m, n)) \subseteq ToSet(s)
  <1>1. \A j \in m .. n : j \in 1 .. Len(s) /\ s[j] \in S
    OBVIOUS
  <1>2. /\ SubSeq(s, m, n) \in Seq(S)
        /\ Len(SubSeq(s, m, n)) = IF m <= n THEN n - m + 1 ELSE 0
        /\ \A j \in 1 .. n - m + 1 : SubSeq(s, m, n)[j] = s[m + j - 1]
    BY <1>1, SubSeqProperties
  <1>3. \A x : x \in ToSet(s) <=> \E i \in 1 .. Len(s) : x = s[i]
    BY Elements
  <1>4. \A x : x \in ToSet(SubSeq(s, m, n))
                 <=> \E i \in 1 .. Len(SubSeq(s, m, n)) : x = SubSeq(s, m, n)[i]
    BY <1>2, Elements
  <1>5. \A j \in 1 .. Len(SubSeq(s, m, n)) :
            j \in 1 .. n - m + 1 /\ m + j - 1 \in m .. n
    BY <1>2
  <1> QED
    BY <1>1, <1>2, <1>3, <1>4, <1>5

\* Removing an element leaves elements of the sequence.
LEMMA RemoveElements ==
    ASSUME NEW S, NEW s \in Seq(S), NEW i \in 1 .. Len(s)
    PROVE  /\ RemoveAt(s, i) \in Seq(S)
           /\ ToSet(RemoveAt(s, i)) \subseteq ToSet(s)
  <1> DEFINE before == SubSeq(s, 1, i - 1)
             after == SubSeq(s, i + 1, Len(s))
  <1>1. before \in Seq(S) /\ ToSet(before) \subseteq ToSet(s)
    BY SubSeqElements
  <1>2. after \in Seq(S) /\ ToSet(after) \subseteq ToSet(s)
    BY SubSeqElements
  <1>3. RemoveAt(s, i) = before \o after
    BY DEF RemoveAt
  <1> HIDE DEF before, after
  <1>4. before \o after \in Seq(S) /\ ToSet(before \o after) \subseteq ToSet(s)
    BY <1>1, <1>2, ConcatElements
  <1> QED
    BY <1>3, <1>4

-----------------------------------------------------------------------------
(* The frontend's actions. *)

\* The initial states.
LEMMA Initially == ASSUME Init PROVE IInv
  <1>1. \A c \in Clients : NoRequests \in [allocates : Seq(Ids), sends : Seq(Messages)]
    BY DEF NoRequests
  <1>2. NoPromise \in [state : {"none", "pending", "fulfilled", "rejected"},
                       tid : Ids, signed : Nat] /\ NoPromise.state = "none"
    BY DEF NoPromise, Ids
  <1>3. TypeOK
    BY <1>1, <1>2 DEF Init, TypeOK
  <1>4. ToSet(toBackend) = {} /\ ToSet(toFrontend) = {} /\ Len(toBackend) = 0
    BY DEF Init, ToSet
  <1>5. \A c \in Clients : Told(c) = {}
    BY DEF Init, Told
  <1>6. MessagesInv /\ AllocationInv /\ PromiseInv /\ CallbackExists /\ NoneRefused
    BY <1>2, <1>4, <1>5 DEF Init, MessagesInv, AllocationInv, PromiseInv,
       CallbackExists, NoneRefused
  <1>7. WaitingInv
    BY <1>4 DEF Init, WaitingInv, NoRequests, ToSet
  <1>8. OrderInv
    BY <1>2, <1>4 DEF Init, OrderInv
  <1> QED
    BY <1>3, <1>6, <1>7, <1>8 DEF IInv

\* What more a client is told of its relay, when it is sent more.
LEMMA MoreTold ==
    ASSUME TypeOK, NEW c \in Clients, NEW A \in SUBSET Answers,
           answers' = [answers EXCEPT ![c] = @ \cup A]
    PROVE  /\ answers' \in [Clients -> SUBSET Answers]
           /\ \A d \in Clients : \A a :
                 a \in Told(d)' <=>
                     \/ a \in Told(d)
                     \/ d = c /\ a \in A /\ a.method = "ALLOCATE" /\ a.ok
  <1>1. answers \in [Clients -> SUBSET Answers]
    BY DEF TypeOK
  <1>2. answers' \in [Clients -> SUBSET Answers]
    BY <1>1
  <1>3. \A d \in Clients : \A a :
            a \in answers'[d] <=> a \in answers[d] \/ (d = c /\ a \in A)
    BY <1>1
  <1>4. \A d \in Clients : \A a :
            /\ a \in Told(d)' <=> a \in answers'[d] /\ a.method = "ALLOCATE" /\ a.ok
            /\ a \in Told(d) <=> a \in answers[d] /\ a.method = "ALLOCATE" /\ a.ok
    BY Zenon DEF Told
  <1>5. \A d \in Clients : \A a :
            a \in Told(d)' <=>
                \/ a \in Told(d)
                \/ d = c /\ a \in A /\ a.method = "ALLOCATE" /\ a.ok
    BY <1>3, <1>4, Zenon
  <1> QED
    BY <1>2, <1>5

\* Requests that are answered at once change what a client was told of its
\* relay no more than anything else.
LEMMA AnswerAtOnceKeeps ==
    ASSUME IInv, NEW c \in Clients, NEW tid \in Transactions, AnswerAtOnce(c, tid)
    PROVE  IInv'
  <1> USE DEF AnswerAtOnce, Asks, frontendVars, backendVars
  <1>0. \E a \in Answers :
            /\ answers' = [answers EXCEPT ![c] = @ \cup {a}]
            /\ ~ (a.method = "ALLOCATE" /\ a.ok)
    <2>1. PICK method \in {"CREATE_PERMISSION", "REFRESH", "ALLOCATE"} :
              answers' = [answers EXCEPT ![c] =
                  @ \cup {Answer(method, method # "ALLOCATE", tid, tid, 1)}]
      OBVIOUS
    <2> DEFINE a == Answer(method, method # "ALLOCATE", tid, tid, 1)
    <2>2. method \in {"CREATE_PERMISSION", "REFRESH", "ALLOCATE", "DATA"} /\ tid \in Ids /\ 1 \in Nat
      BY <2>1 DEF Ids
    <2>3. a \in Answers /\ a.method = method /\ a.ok = (method # "ALLOCATE")
      BY <2>2, Zenon DEF Answer, Answers
    <2>4. ~ (a.method = "ALLOCATE" /\ a.ok)
      BY <2>3, Zenon
    <2> QED
      BY <2>1, <2>3, <2>4, Zenon
  <1>1. TypeOK'
    <2>1. TypeOK /\ asked[c] + 1 \in Nat
      BY DEF IInv, TypeOK
    <2> QED
      BY <1>0, <2>1 DEF TypeOK
  <1>2. \A d \in Clients : Told(d)' = Told(d)
    <2>1. PICK a \in Answers :
              /\ answers' = [answers EXCEPT ![c] = @ \cup {a}]
              /\ ~ (a.method = "ALLOCATE" /\ a.ok)
      BY <1>0
    <2> DEFINE A == {a}
    <2>2. \A x \in A : ~ (x.method = "ALLOCATE" /\ x.ok)
      BY <2>1
    <2>3. TypeOK /\ A \in SUBSET Answers /\ answers' = [answers EXCEPT ![c] = @ \cup A]
      BY <2>1 DEF IInv
    <2> HIDE DEF A
    <2>4. \A d \in Clients : \A x :
              x \in Told(d)' <=>
                  \/ x \in Told(d)
                  \/ d = c /\ x \in A /\ x.method = "ALLOCATE" /\ x.ok
      BY <2>3, MoreTold, Zenon
    <2>5. \A d \in Clients : \A x : x \in Told(d)' <=> x \in Told(d)
      BY <2>2, <2>4, Zenon
    <2> QED
      BY <2>5
  <1>3. MessagesInv' /\ AllocationInv' /\ CallbackExists' /\ NoneRefused'
    BY DEF IInv, MessagesInv, AllocationInv, CallbackExists, NoneRefused
  <1>4. PromiseInv'
    BY <1>2 DEF IInv, PromiseInv
  <1>5. WaitingInv' /\ OrderInv'
    BY DEF IInv, WaitingInv, OrderInv, Allocates
  <1> QED
    BY <1>1, <1>3, <1>4, <1>5 DEF IInv

\* A SEND follows the ALLOCATE of its client, if there was one.
LEMMA SendIndicationKeeps ==
    ASSUME IInv, NEW c \in Clients, SendIndication(c)
    PROVE  IInv'
  <1> DEFINE m == Ipc("SEND", c, asked'[c], promises_[c].state # "none")
  <1> USE DEF SendIndication, Asks, backendVars
  <1>0. /\ TypeOK /\ toBackend \in Seq(Messages) /\ Len(toBackend) \in Nat
        /\ m \in Messages /\ toBackend' = Append(toBackend, m)
    <2>1. TypeOK /\ toBackend \in Seq(Messages) /\ Len(toBackend) \in Nat
      BY DEF IInv, TypeOK
    <2>2. asked'[c] \in Ids /\ (promises_[c].state # "none") \in BOOLEAN
      BY DEF IInv, TypeOK, Ids
    <2> QED
      BY <2>1, <2>2, Zenon DEF Ipc, Messages
  <1>1. toBackend' \in Seq(Messages) /\ ToSet(toBackend') = ToSet(toBackend) \cup {m}
    BY <1>0, AppendElements
  <1>2. TypeOK'
    BY <1>0, <1>1 DEF TypeOK
  <1>3. m.method = "SEND" /\ m.tag = c /\ (m.ok => promises_[c].state # "none")
    BY Zenon DEF Ipc
  <1> HIDE DEF m
  <1>4. MessagesInv' /\ AllocationInv' /\ CallbackExists' /\ NoneRefused'
    BY <1>1, <1>3 DEF IInv, MessagesInv, AllocationInv, CallbackExists, NoneRefused
  <1>5. PromiseInv'
    BY DEF IInv, PromiseInv, Told
  <1>6. WaitingInv'
    BY <1>1, <1>3 DEF IInv, WaitingInv, Allocates
  <1>7. /\ Len(toBackend') = Len(toBackend) + 1
        /\ \A i \in 1 .. Len(toBackend) : toBackend'[i] = toBackend[i]
        /\ toBackend'[Len(toBackend) + 1] = m
    BY <1>0, AppendProperties
  <1>8. \A d \in Clients : promises_[d].state # "none" =>
            \/ allocations_[d] # "none"
            \/ \E j \in 1 .. Len(toBackend) : Allocates(toBackend[j], d)
    BY DEF IInv, OrderInv
  <1>9. ASSUME NEW i \in 1 .. Len(toBackend'),
               toBackend'[i].method = "SEND", toBackend'[i].ok
        PROVE  \/ allocations_[toBackend'[i].tag] # "none"
               \/ \E j \in 1 .. i - 1 : Allocates(toBackend'[j], toBackend'[i].tag)
    <2>1. CASE i \in 1 .. Len(toBackend)
      <3>1. \A j \in 1 .. i - 1 : toBackend'[j] = toBackend[j]
        BY <1>0, <1>7, <2>1
      <3>2. \/ allocations_[toBackend[i].tag] # "none"
            \/ \E j \in 1 .. i - 1 : Allocates(toBackend[j], toBackend[i].tag)
        BY <1>7, <1>9, <2>1 DEF IInv, OrderInv
      <3> QED
        BY <1>7, <2>1, <3>1, <3>2
    <2>2. CASE i = Len(toBackend) + 1
      BY <1>0, <1>3, <1>7, <1>8, <1>9, <2>2
    <2> QED
      BY <1>0, <1>7, <2>1, <2>2
  <1>10. OrderInv'
    <2>1. \A d \in Clients : promises_[d].state # "none" =>
              \/ allocations_[d] # "none"
              \/ \E j \in 1 .. Len(toBackend') : Allocates(toBackend'[j], d)
      BY <1>0, <1>7, <1>8
    <2> QED
      BY <1>9, <2>1 DEF OrderInv, Allocates
  <1> QED
    BY <1>2, <1>4, <1>5, <1>6, <1>10 DEF IInv

\* Sending the memoised response tells a client of nothing else, and leaves its
\* promise as it was but for the count of signatures.
LEMMA MemoisedTold ==
    ASSUME TypeOK, NEW c \in Clients, NEW requests \in Seq(Transactions),
           NEW memo \in [state : {"none", "pending", "fulfilled", "rejected"},
                         tid : Ids, signed : Nat],
           SendMemoised(c, requests, memo)
    PROVE  /\ answers' \in [Clients -> SUBSET Answers]
           /\ promises_' \in [Clients ->
                 [state : {"none", "pending", "fulfilled", "rejected"},
                  tid : Ids, signed : Nat]]
           /\ promises_'[c].state = memo.state /\ promises_'[c].tid = memo.tid
           /\ \A d \in Clients \ {c} :
                 promises_'[d] = promises_[d] /\ Told(d)' = Told(d)
           /\ Told(c) \subseteq Told(c)'
           /\ \A a \in Told(c)' : a \in Told(c) \/ a.tid = memo.tid
           /\ \A i \in DOMAIN requests :
                 \E a \in Told(c)' : a.request = requests[i] /\ a.tid = memo.tid
  <1> DEFINE answer(i) == Answer("ALLOCATE", TRUE, requests[i], memo.tid, memo.signed + i)
             A == {answer(i) : i \in DOMAIN requests}
  <1>1. DOMAIN requests = 1 .. Len(requests) /\ Len(requests) \in Nat
    OBVIOUS
  <1>2. \A i \in DOMAIN requests : requests[i] \in Ids /\ memo.signed + i \in Nat
    BY <1>1 DEF Ids
  <1>3. memo.tid \in Ids /\ TRUE \in BOOLEAN
        /\ "ALLOCATE" \in {"CREATE_PERMISSION", "REFRESH", "ALLOCATE", "DATA"}
    OBVIOUS
  <1>4. \A i \in DOMAIN requests :
            /\ answer(i) \in Answers
            /\ answer(i).method = "ALLOCATE" /\ answer(i).ok
            /\ answer(i).request = requests[i] /\ answer(i).tid = memo.tid
    BY <1>2, <1>3, Zenon DEF Answer, Answers
  <1>5. A \in SUBSET Answers /\ answers' = [answers EXCEPT ![c] = @ \cup A]
    BY <1>4 DEF SendMemoised
  <1>6. \A x \in A : x.method = "ALLOCATE" /\ x.ok /\ x.tid = memo.tid
    <2> SUFFICES ASSUME NEW x \in A
                 PROVE  x.method = "ALLOCATE" /\ x.ok /\ x.tid = memo.tid
      OBVIOUS
    <2>1. PICK i \in DOMAIN requests : x = answer(i)
      OBVIOUS
    <2> HIDE DEF answer
    <2> QED
      BY <1>4, <2>1, Zenon
  <1>7. \A i \in DOMAIN requests : answer(i) \in A
    OBVIOUS
  <1>8. /\ promises_' = [promises_ EXCEPT ![c] = [memo EXCEPT !.signed = @ + Len(requests)]]
        /\ [memo EXCEPT !.signed = @ + Len(requests)] \in
              [state : {"none", "pending", "fulfilled", "rejected"},
               tid : Ids, signed : Nat]
    BY <1>1 DEF SendMemoised
  <1> HIDE DEF A
  <1>9. /\ answers' \in [Clients -> SUBSET Answers]
        /\ \A d \in Clients : \A a :
              a \in Told(d)' <=>
                  \/ a \in Told(d)
                  \/ d = c /\ a \in A /\ a.method = "ALLOCATE" /\ a.ok
    BY <1>5, MoreTold, Zenon
  <1>10. \A a : a \in Told(c)' <=> a \in Told(c) \/ a \in A
    BY <1>6, <1>9, Zenon
  <1>11. \A d \in Clients \ {c} : Told(d)' = Told(d)
    BY <1>9
  <1>12. \A i \in DOMAIN requests :
             \E a \in Told(c)' : a.request = requests[i] /\ a.tid = memo.tid
    BY <1>4, <1>7, <1>10, Zenon
  <1>13. /\ promises_' \in [Clients ->
               [state : {"none", "pending", "fulfilled", "rejected"},
                tid : Ids, signed : Nat]]
         /\ promises_'[c].state = memo.state /\ promises_'[c].tid = memo.tid
         /\ \A d \in Clients \ {c} : promises_'[d] = promises_[d]
    BY <1>8 DEF TypeOK
  <1>14. Told(c) \subseteq Told(c)' /\ \A a \in Told(c)' : a \in Told(c) \/ a.tid = memo.tid
    BY <1>6, <1>10
  <1> QED
    BY <1>9, <1>11, <1>12, <1>13, <1>14

\* What the frontend's promises, the requests that wait for them, and what the
\* clients are told become when c asks for a relay.
LEMMA RequestRelayDoes ==
    ASSUME IInv, NEW c \in Clients, NEW tid \in Transactions, RequestRelay(c, tid)
    PROVE  /\ TypeOK'
           /\ \A d \in Clients \ {c} :
                 /\ promises_'[d] = promises_[d] /\ Told(d)' = Told(d)
                 /\ waiting'[d] = waiting[d]
           /\ promises_'[c].state = IF promises_[c].state \in {"fulfilled", "rejected"}
                                    THEN promises_[c].state ELSE "pending"
           /\ promises_'[c].tid = promises_[c].tid
           /\ Told(c) \subseteq Told(c)'
           /\ \A a \in Told(c)' : \/ a \in Told(c)
                                  \/ /\ promises_[c].state = "fulfilled"
                                     /\ a.tid = promises_[c].tid
           /\ promises_[c].state \notin {"fulfilled", "rejected"} =>
                 ToSet(waiting'[c]) = ToSet(waiting[c]) \cup {tid}
           /\ promises_[c].state \in {"fulfilled", "rejected"} =>
                 waiting'[c] = waiting[c]
  <1> DEFINE m == Ipc("ALLOCATE", c, tid, TRUE)
             States == {"none", "pending", "fulfilled", "rejected"}
             Promise == [state : States, tid : Ids, signed : Nat]
  <1>1. /\ asked \in [Clients -> Nat] /\ toBackend \in Seq(Messages)
        /\ promises_ \in [Clients -> Promise]
        /\ waiting \in [Clients -> Seq(Transactions)]
        /\ answers \in [Clients -> SUBSET Answers] /\ TypeOK
    BY DEF IInv, TypeOK
  <1>2. m \in Messages /\ toBackend' = Append(toBackend, m)
    <2>1. tid \in Ids /\ TRUE \in BOOLEAN
      BY DEF Ids
    <2> QED
      BY <2>1, Zenon DEF Ipc, Messages, RequestRelay
  <1>3. toBackend' \in Seq(Messages)
    BY <1>1, <1>2, AppendElements
  <1>4. asked' \in [Clients -> Nat]
    BY <1>1 DEF RequestRelay, Asks
  <1>5. ASSUME promises_' \in [Clients -> Promise],
               waiting' \in [Clients -> Seq(Transactions)],
               answers' \in [Clients -> SUBSET Answers]
        PROVE  TypeOK'
    BY <1>1, <1>3, <1>4, <1>5 DEF TypeOK, RequestRelay, backendVars
  <1> HIDE DEF m
  <1>6. CASE promises_[c].state = "fulfilled"
    <2>1. SendMemoised(c, <<tid>>, promises_[c]) /\ waiting' = waiting
      BY <1>6 DEF RequestRelay
    <2>2. <<tid>> \in Seq(Transactions) /\ promises_[c] \in Promise
      BY <1>1
    <2>3. /\ answers' \in [Clients -> SUBSET Answers]
          /\ promises_' \in [Clients -> Promise]
          /\ promises_'[c].state = promises_[c].state /\ promises_'[c].tid = promises_[c].tid
          /\ \A d \in Clients \ {c} :
                promises_'[d] = promises_[d] /\ Told(d)' = Told(d)
          /\ Told(c) \subseteq Told(c)'
          /\ \A a \in Told(c)' : a \in Told(c) \/ a.tid = promises_[c].tid
      BY <1>1, <2>1, <2>2, MemoisedTold, Zenon
    <2> QED
      BY <1>1, <1>5, <1>6, <2>1, <2>3
  <1>7. CASE promises_[c].state = "rejected"
    <2>1. UNCHANGED <<answers, promises_, waiting>>
      BY <1>7 DEF RequestRelay
    <2> QED
      BY <1>1, <1>5, <1>7, <2>1 DEF Told
  <1>8. CASE promises_[c].state \notin {"fulfilled", "rejected"}
    <2>1. /\ waiting' = [waiting EXCEPT ![c] = Append(@, tid)]
          /\ promises_' = [promises_ EXCEPT ![c].state = "pending"]
          /\ answers' = answers
      BY <1>8 DEF RequestRelay
    <2>2. /\ Append(waiting[c], tid) \in Seq(Transactions)
          /\ ToSet(Append(waiting[c], tid)) = ToSet(waiting[c]) \cup {tid}
      BY <1>1, AppendElements
    <2>3. \A d \in Clients : Told(d)' = Told(d)
      BY <2>1 DEF Told
    <2> QED
      BY <1>1, <1>5, <1>8, <2>1, <2>2, <2>3
  <1> QED
    BY <1>6, <1>7, <1>8

\* An ALLOCATE at the end of the queue to the backend.
LEMMA RequestRelayKeeps ==
    ASSUME IInv, NEW c \in Clients, NEW tid \in Transactions, RequestRelay(c, tid)
    PROVE  IInv'
  <1> DEFINE m == Ipc("ALLOCATE", c, tid, TRUE)
  <1>0. /\ toBackend \in Seq(Messages) /\ Len(toBackend) \in Nat
        /\ m \in Messages /\ toBackend' = Append(toBackend, m)
        /\ promises_ \in [Clients ->
              [state : {"none", "pending", "fulfilled", "rejected"},
               tid : Ids, signed : Nat]]
        /\ toFrontend \in Seq(Messages)
    <2>1. tid \in Ids /\ TRUE \in BOOLEAN
      BY DEF Ids
    <2>2. m \in Messages
      BY <2>1, Zenon DEF Ipc, Messages
    <2>3. toBackend' = Append(toBackend, m)
      BY DEF RequestRelay
    <2> HIDE DEF m
    <2> QED
      BY <2>2, <2>3 DEF IInv, TypeOK
  <1>2. m.method = "ALLOCATE" /\ m.tag = c /\ m.tid = tid
    BY Zenon DEF Ipc
  <1> HIDE DEF m
  <1>1. ToSet(toBackend') = ToSet(toBackend) \cup {m} /\ ToSet(toBackend) \subseteq Messages
        /\ ToSet(toFrontend) \subseteq Messages
    BY <1>0, AppendElements, Elements
  <1>3. UNCHANGED <<backendVars, toFrontend>>
    BY DEF RequestRelay
  <1>4. /\ TypeOK'
        /\ \A d \in Clients \ {c} :
              /\ promises_'[d] = promises_[d] /\ Told(d)' = Told(d)
              /\ waiting'[d] = waiting[d]
        /\ promises_'[c].state = IF promises_[c].state \in {"fulfilled", "rejected"}
                                 THEN promises_[c].state ELSE "pending"
        /\ promises_'[c].tid = promises_[c].tid
        /\ Told(c) \subseteq Told(c)'
        /\ \A a \in Told(c)' : \/ a \in Told(c)
                               \/ /\ promises_[c].state = "fulfilled"
                                  /\ a.tid = promises_[c].tid
        /\ promises_[c].state \notin {"fulfilled", "rejected"} =>
              ToSet(waiting'[c]) = ToSet(waiting[c]) \cup {tid}
        /\ promises_[c].state \in {"fulfilled", "rejected"} =>
              waiting'[c] = waiting[c]
    BY RequestRelayDoes
  <1>5. \A d \in Clients :
            /\ promises_[d].state # "none" => promises_'[d].state # "none"
            /\ promises_'[d].state = "fulfilled" <=> promises_[d].state = "fulfilled"
    BY <1>4
  <1>6. \A x \in Messages : x.tag \in Clients
    BY DEF Messages
  <1>7. MessagesInv' /\ CallbackExists'
    BY <1>1, <1>2, <1>3, <1>4, <1>5, <1>6 DEF IInv, MessagesInv, CallbackExists, backendVars
  <1>8. AllocationInv' /\ NoneRefused'
    BY <1>3, <1>5 DEF IInv, AllocationInv, NoneRefused, backendVars
  <1>9. PromiseInv'
    <2> SUFFICES ASSUME NEW d \in Clients
                 PROVE  /\ promises_'[d].state = "fulfilled" =>
                              /\ allocations_[d] = "bound"
                              /\ \E a \in Told(d)' : a.request = a.tid
                        /\ \A a \in Told(d)' :
                              promises_'[d].state = "fulfilled" /\ a.tid = promises_'[d].tid
      BY <1>3 DEF PromiseInv, backendVars
    <2>1. /\ promises_[d].state = "fulfilled" =>
                /\ allocations_[d] = "bound"
                /\ \E a \in Told(d) : a.request = a.tid
          /\ \A a \in Told(d) :
                promises_[d].state = "fulfilled" /\ a.tid = promises_[d].tid
      BY DEF IInv, PromiseInv
    <2> QED
      BY <1>4, <1>5, <2>1
  <1>10. WaitingInv'
    <2> SUFFICES ASSUME NEW d \in Clients, promises_'[d].state \notin {"fulfilled", "rejected"}
                 PROVE  /\ \A x \in ToSet(toBackend') \cup ToSet(toFrontend) :
                              Allocates(x, d) => x.tid \in ToSet(waiting'[d])
                        /\ ToSet(afterBind[d].allocates) \subseteq ToSet(waiting'[d])
                        /\ ToSet(infos[d]) \subseteq ToSet(waiting'[d])
      BY <1>3 DEF WaitingInv, backendVars, Allocates
    <2>1. promises_[d].state \notin {"fulfilled", "rejected"}
      BY <1>4
    <2>2. /\ \A x \in ToSet(toBackend) \cup ToSet(toFrontend) :
                Allocates(x, d) => x.tid \in ToSet(waiting[d])
          /\ ToSet(afterBind[d].allocates) \subseteq ToSet(waiting[d])
          /\ ToSet(infos[d]) \subseteq ToSet(waiting[d])
      BY <2>1 DEF IInv, WaitingInv
    <2>3. ToSet(waiting[d]) \subseteq ToSet(waiting'[d]) /\ (d = c => tid \in ToSet(waiting'[d]))
      BY <1>4, <2>1
    <2>4. Allocates(m, d) => d = c /\ m.tid = tid
      BY <1>2 DEF Allocates
    <2> QED
      BY <1>1, <2>2, <2>3, <2>4
  <1>11. /\ Len(toBackend') = Len(toBackend) + 1
         /\ \A i \in 1 .. Len(toBackend) : toBackend'[i] = toBackend[i]
         /\ toBackend'[Len(toBackend) + 1] = m
    BY <1>0, AppendProperties
  <1>12. \A d \in Clients : promises_'[d].state # "none" =>
             \/ allocations_[d] # "none"
             \/ \E j \in 1 .. Len(toBackend') : Allocates(toBackend'[j], d)
    <2> SUFFICES ASSUME NEW d \in Clients, promises_'[d].state # "none"
                 PROVE  \/ allocations_[d] # "none"
                        \/ \E j \in 1 .. Len(toBackend') : Allocates(toBackend'[j], d)
      OBVIOUS
    <2>1. CASE d = c
      BY <1>0, <1>2, <1>11, <2>1 DEF Allocates
    <2>2. CASE d # c
      <3>1. promises_[d].state # "none"
        BY <1>4, <2>2
      <3>2. \/ allocations_[d] # "none"
            \/ \E j \in 1 .. Len(toBackend) : Allocates(toBackend[j], d)
        BY <3>1 DEF IInv, OrderInv
      <3> QED
        BY <1>0, <1>11, <3>2
    <2> QED
      BY <2>1, <2>2
  <1>13. ASSUME NEW i \in 1 .. Len(toBackend'),
                toBackend'[i].method = "SEND", toBackend'[i].ok
         PROVE  \/ allocations_[toBackend'[i].tag] # "none"
                \/ \E j \in 1 .. i - 1 : Allocates(toBackend'[j], toBackend'[i].tag)
    <2>1. i \in 1 .. Len(toBackend)
      BY <1>0, <1>2, <1>11, <1>13
    <2>2. \A j \in 1 .. i - 1 : toBackend'[j] = toBackend[j]
      BY <1>0, <1>11, <2>1
    <2>3. \/ allocations_[toBackend[i].tag] # "none"
          \/ \E j \in 1 .. i - 1 : Allocates(toBackend[j], toBackend[i].tag)
      BY <1>11, <1>13, <2>1 DEF IInv, OrderInv
    <2> QED
      BY <1>11, <2>1, <2>2, <2>3
  <1>14. OrderInv'
    BY <1>3, <1>12, <1>13 DEF OrderInv, Allocates, backendVars
  <1> QED
    BY <1>4, <1>7, <1>8, <1>9, <1>10, <1>14 DEF IInv

\* What the frontend does with a message: nothing, to the promise of its client,
\* or it settles it, as the backend says.
LEMMA FrontendHandlesDoes ==
    ASSUME IInv, FrontendHandles, NEW c, c = Head(toFrontend).tag
    PROVE  /\ c \in Clients
           /\ TypeOK'
           /\ ToSet(toFrontend') \subseteq ToSet(toFrontend)
           /\ UNCHANGED <<asked, toBackend, backendVars>>
           /\ \A d \in Clients \ {c} :
                 /\ promises_'[d] = promises_[d] /\ Told(d)' = Told(d)
                 /\ waiting'[d] = waiting[d]
           /\ \/ /\ promises_'[c] = promises_[c] /\ Told(c)' = Told(c)
                 /\ waiting'[c] = waiting[c]
              \/ /\ promises_[c].state = "pending" /\ promises_'[c].state = "fulfilled"
                 /\ allocations_[c] = "bound"
                 /\ \E a \in Told(c)' : a.request = a.tid
                 /\ \A a \in Told(c)' : a.tid = promises_'[c].tid
              \/ /\ promises_[c].state = "pending" /\ promises_'[c].state = "rejected"
                 /\ Told(c)' = {}
  <1> DEFINE m == Head(toFrontend)
             States == {"none", "pending", "fulfilled", "rejected"}
             Promise == [state : States, tid : Ids, signed : Nat]
  <1>1. /\ toFrontend \in Seq(Messages) /\ promises_ \in [Clients -> Promise]
        /\ waiting \in [Clients -> Seq(Transactions)]
        /\ answers \in [Clients -> SUBSET Answers] /\ TypeOK
    BY DEF IInv, TypeOK
  <1>2. /\ toFrontend # <<>> /\ toFrontend' = Tail(toFrontend)
        /\ UNCHANGED <<asked, toBackend, backendVars>>
        /\ \/ m.method = "ALLOCATE" /\ Settle(m)
           \/ /\ m.method = "DATA"
              /\ answers' = [answers EXCEPT ![m.tag] =
                     @ \cup {Answer("DATA", TRUE, m.tid, m.tid, 0)}]
              /\ UNCHANGED <<promises_, waiting>>
    BY DEF FrontendHandles
  <1>3. /\ toFrontend' \in Seq(Messages) /\ m \in Messages /\ m \in ToSet(toFrontend)
        /\ ToSet(toFrontend') \subseteq ToSet(toFrontend) /\ c = m.tag
    BY <1>1, <1>2, TailElements
  <1> HIDE DEF m
  <1>4. c \in Clients /\ m.tid \in Ids
    BY <1>3 DEF Messages
  <1>5. ASSUME promises_' \in [Clients -> Promise],
               waiting' \in [Clients -> Seq(Transactions)],
               answers' \in [Clients -> SUBSET Answers]
        PROVE  TypeOK'
    BY <1>1, <1>2, <1>3, <1>5 DEF TypeOK, backendVars
  <1>6. ASSUME UNCHANGED <<promises_, waiting, answers>>
        PROVE  /\ TypeOK'
               /\ \A d \in Clients : Told(d)' = Told(d)
    BY <1>1, <1>5, <1>6 DEF Told
  <1>7. CASE m.method = "DATA"
    <2>1. /\ answers' = [answers EXCEPT ![c] =
                 @ \cup {Answer("DATA", TRUE, m.tid, m.tid, 0)}]
          /\ UNCHANGED <<promises_, waiting>>
      BY <1>2, <1>3, <1>7
    <2> DEFINE a == Answer("DATA", TRUE, m.tid, m.tid, 0)
               A == {a}
    <2>2. /\ "DATA" \in {"CREATE_PERMISSION", "REFRESH", "ALLOCATE", "DATA"}
          /\ 0 \in Nat /\ TRUE \in BOOLEAN /\ "DATA" # "ALLOCATE"
      OBVIOUS
    <2>3. a \in Answers /\ a.method = "DATA"
      BY <1>4, <2>2, Zenon DEF Answer, Answers
    <2>4. A \in SUBSET Answers /\ \A x \in A : x.method # "ALLOCATE"
      BY <2>2, <2>3, Zenon
    <2>5. answers' = [answers EXCEPT ![c] = @ \cup A]
      BY <2>1
    <2> HIDE DEF A, a
    <2>6. /\ answers' \in [Clients -> SUBSET Answers]
          /\ \A d \in Clients : \A x :
                x \in Told(d)' <=>
                    \/ x \in Told(d)
                    \/ d = c /\ x \in A /\ x.method = "ALLOCATE" /\ x.ok
      BY <1>1, <1>4, <2>4, <2>5, MoreTold, Zenon
    <2>7. \A d \in Clients : \A x : x \in Told(d)' <=> x \in Told(d)
      BY <2>4, <2>6, Zenon
    <2>8. \A d \in Clients : Told(d)' = Told(d)
      BY <2>7
    <2> QED
      BY <1>1, <1>2, <1>3, <1>4, <1>5, <2>1, <2>6, <2>8
  <1>8. CASE m.method = "ALLOCATE" /\ promises_[c].state # "pending"
    <2>1. Settle(m)
      BY <1>2, <1>8
    <2>2. UNCHANGED <<promises_, waiting, answers>>
      BY <1>3, <1>8, <2>1 DEF Settle
    <2> QED
      BY <1>2, <1>3, <1>4, <1>6, <2>2
  <1>9. CASE m.method = "ALLOCATE" /\ promises_[c].state = "pending"
    <2>1. Settle(m) /\ promises_[m.tag].state = "pending"
      BY <1>2, <1>3, <1>9
    <2>2. Told(c) = {}
      BY <1>4, <1>9 DEF IInv, PromiseInv
    <2>3. CASE m.ok
      <3> DEFINE memo == [state |-> "fulfilled", tid |-> m.tid, signed |-> 0]
      <3>1. /\ SendMemoised(c, waiting[c], memo)
            /\ waiting' = [waiting EXCEPT ![c] = <<>>]
        <4>1. /\ SendMemoised(m.tag, waiting[m.tag], memo)
              /\ waiting' = [waiting EXCEPT ![m.tag] = <<>>]
          BY <2>1, <2>3, Zenon DEF Settle
        <4> QED
          BY <1>3, <4>1, Zenon
      <3>2. memo \in Promise /\ memo.state = "fulfilled" /\ memo.tid = m.tid
        BY <1>4
      <3>3. waiting[c] \in Seq(Transactions) /\ waiting' \in [Clients -> Seq(Transactions)]
            /\ \A d \in Clients \ {c} : waiting'[d] = waiting[d]
        BY <1>1, <1>4, <3>1
      <3> HIDE DEF memo
      <3>0. PICK requests \in Seq(Transactions) : requests = waiting[c]
        BY <3>3
      <3>9. PICK memoised \in Promise : memoised = memo
        BY <3>2
      <3>a. SendMemoised(c, requests, memoised)
        BY <3>0, <3>1, <3>9, Zenon
      <3>b. /\ answers' \in [Clients -> SUBSET Answers]
            /\ promises_' \in [Clients -> [state : {"none", "pending", "fulfilled", "rejected"},
                tid : Ids, signed : Nat]]
            /\ promises_'[c].state = memoised.state /\ promises_'[c].tid = memoised.tid
            /\ \A d \in Clients \ {c} :
                  promises_'[d] = promises_[d] /\ Told(d)' = Told(d)
            /\ Told(c) \subseteq Told(c)'
            /\ \A a \in Told(c)' : a \in Told(c) \/ a.tid = memoised.tid
            /\ \A i \in DOMAIN requests :
                  \E a \in Told(c)' : a.request = requests[i] /\ a.tid = memoised.tid
        <4>1. requests \in Seq(Transactions) /\ TypeOK /\ c \in Clients
              /\ memoised \in [state : {"none", "pending", "fulfilled", "rejected"},
                              tid : Ids, signed : Nat]
          BY <1>1, <1>4, <3>0, <3>9
        <4> QED
          BY <3>a, <4>1, MemoisedTold, SMTT(60)
      <3>4. /\ answers' \in [Clients -> SUBSET Answers]
            /\ promises_' \in [Clients -> Promise]
            /\ promises_'[c].state = memo.state /\ promises_'[c].tid = memo.tid
            /\ \A d \in Clients \ {c} :
                  promises_'[d] = promises_[d] /\ Told(d)' = Told(d)
            /\ \A a \in Told(c)' : a \in Told(c) \/ a.tid = memo.tid
            /\ \A i \in DOMAIN waiting[c] :
                  \E a \in Told(c)' : a.request = waiting[c][i] /\ a.tid = memo.tid
        BY <3>0, <3>9, <3>b, Zenon
      <3>5. m.tid \in ToSet(waiting[c])
        BY <1>3, <1>4, <1>9 DEF IInv, WaitingInv, Allocates
      <3>6. \E i \in DOMAIN waiting[c] : waiting[c][i] = m.tid
        BY <3>5 DEF ToSet
      <3>7. \E a \in Told(c)' : a.request = a.tid
        BY <3>2, <3>4, <3>6
      <3>8. allocations_[c] = "bound"
        <4>1. m.method = "ALLOCATE" /\ m.ok => allocations_[m.tag] = "bound"
          BY <1>3, Zenon DEF IInv, MessagesInv
        <4> QED
          BY <1>3, <1>9, <2>3, <4>1, Zenon
      <3> QED
        BY <1>2, <1>3, <1>4, <1>5, <1>9, <2>2, <3>2, <3>3, <3>4, <3>7, <3>8
    <2>4. CASE ~ m.ok
      <3>1. /\ promises_' = [promises_ EXCEPT ![m.tag].state = "rejected"]
            /\ UNCHANGED <<answers, waiting>>
        BY <2>1, <2>4, Zenon DEF Settle
      <3>2. \A d \in Clients : Told(d)' = Told(d)
        BY <3>1 DEF Told
      <3>3. promises_' \in [Clients -> Promise] /\ promises_'[c].state = "rejected"
            /\ \A d \in Clients \ {c} : promises_'[d] = promises_[d]
        BY <1>1, <1>3, <1>4, <3>1
      <3> QED
        BY <1>1, <1>2, <1>3, <1>4, <1>5, <1>9, <2>2, <3>1, <3>2, <3>3
    <2> QED
      BY <2>3, <2>4
  <1>10. m.method \in {"ALLOCATE", "DATA"}
    BY <1>2
  <1> QED
    BY <1>7, <1>8, <1>9, <1>10

\* A message from the backend.
LEMMA FrontendHandlesKeeps ==
    ASSUME IInv, FrontendHandles
    PROVE  IInv'
  <1>0. PICK c : c = Head(toFrontend).tag
    OBVIOUS
  <1>1. /\ c \in Clients
        /\ TypeOK'
        /\ ToSet(toFrontend') \subseteq ToSet(toFrontend)
        /\ UNCHANGED <<asked, toBackend, backendVars>>
        /\ \A d \in Clients \ {c} :
              /\ promises_'[d] = promises_[d] /\ Told(d)' = Told(d)
              /\ waiting'[d] = waiting[d]
        /\ \/ /\ promises_'[c] = promises_[c] /\ Told(c)' = Told(c)
              /\ waiting'[c] = waiting[c]
           \/ /\ promises_[c].state = "pending" /\ promises_'[c].state = "fulfilled"
              /\ allocations_[c] = "bound"
              /\ \E a \in Told(c)' : a.request = a.tid
              /\ \A a \in Told(c)' : a.tid = promises_'[c].tid
           \/ /\ promises_[c].state = "pending" /\ promises_'[c].state = "rejected"
              /\ Told(c)' = {}
    BY <1>0, FrontendHandlesDoes, Zenon
  <1>2. \A d \in Clients :
            /\ promises_[d].state = "none" <=> promises_'[d].state = "none"
            /\ promises_'[d].state \notin {"fulfilled", "rejected"} =>
                  /\ promises_[d].state \notin {"fulfilled", "rejected"}
                  /\ waiting'[d] = waiting[d]
    BY <1>1
  <1>3. /\ ToSet(toBackend) \subseteq Messages /\ ToSet(toFrontend) \subseteq Messages
        /\ toBackend \in Seq(Messages)
    BY Elements DEF IInv, TypeOK
  <1>4. \A x \in Messages : x.tag \in Clients
    BY DEF Messages
  <1>5. UNCHANGED <<allocations_, infos, afterBind, dropped, toBackend>>
    BY <1>1 DEF backendVars
  <1>6. MessagesInv' /\ CallbackExists'
    BY <1>1, <1>2, <1>3, <1>4, <1>5 DEF IInv, MessagesInv, CallbackExists
  <1>7. AllocationInv' /\ NoneRefused'
    BY <1>2, <1>5 DEF IInv, AllocationInv, NoneRefused
  <1>8. PromiseInv'
    <2> SUFFICES ASSUME NEW d \in Clients
                 PROVE  /\ promises_'[d].state = "fulfilled" =>
                              /\ allocations_[d] = "bound"
                              /\ \E a \in Told(d)' : a.request = a.tid
                        /\ \A a \in Told(d)' :
                              promises_'[d].state = "fulfilled" /\ a.tid = promises_'[d].tid
      BY <1>5 DEF PromiseInv
    <2>1. /\ promises_[d].state = "fulfilled" =>
                /\ allocations_[d] = "bound"
                /\ \E a \in Told(d) : a.request = a.tid
          /\ \A a \in Told(d) :
                promises_[d].state = "fulfilled" /\ a.tid = promises_[d].tid
      BY DEF IInv, PromiseInv
    <2>2. CASE d = c
      BY <1>1, <2>1, <2>2
    <2>3. CASE d # c
      BY <1>1, <2>1, <2>3
    <2> QED
      BY <2>2, <2>3
  <1>9. WaitingInv'
    BY <1>1, <1>2, <1>5 DEF IInv, WaitingInv, Allocates
  <1>10. OrderInv'
    BY <1>2, <1>5 DEF IInv, OrderInv, Allocates
  <1> QED
    BY <1>1, <1>6, <1>7, <1>8, <1>9, <1>10 DEF IInv

-----------------------------------------------------------------------------
(* The backend's actions. *)

\* The order of messages survives that the first is taken, if an ALLOCATE made
\* an allocation.
LEMMA TailOrder ==
    ASSUME IInv, toBackend # <<>>, toBackend' = Tail(toBackend),
           UNCHANGED promises_, Head(toBackend).tag \in Clients,
           \A d \in Clients : allocations_[d] # "none" => allocations_'[d] # "none",
           Head(toBackend).method = "ALLOCATE" =>
               allocations_'[Head(toBackend).tag] # "none"
    PROVE  OrderInv'
  <1>1. toBackend \in Seq(Messages) /\ ToSet(toBackend) \subseteq Messages
    BY Elements DEF IInv, TypeOK
  <1>2. /\ Len(toBackend) \in Nat \ {0} /\ Len(toBackend') = Len(toBackend) - 1
        /\ \A i \in 1 .. Len(toBackend') : toBackend'[i] = toBackend[i + 1]
        /\ Head(toBackend) = toBackend[1]
        /\ \A i \in 1 .. Len(toBackend) : toBackend[i] \in Messages
    BY <1>1
  <1>3. \A x \in Messages : x.tag \in Clients
    BY DEF Messages
  <1>4. \A d \in Clients : promises_[d].state # "none" =>
            \/ allocations_'[d] # "none"
            \/ \E j \in 1 .. Len(toBackend') : Allocates(toBackend'[j], d)
    <2> SUFFICES ASSUME NEW d \in Clients, promises_[d].state # "none",
                        allocations_'[d] = "none"
                 PROVE  \E j \in 1 .. Len(toBackend') : Allocates(toBackend'[j], d)
      OBVIOUS
    <2>1. PICK j \in 1 .. Len(toBackend) : Allocates(toBackend[j], d)
      BY DEF IInv, OrderInv
    <2>2. j # 1
      BY <1>2, <2>1 DEF Allocates
    <2>3. j - 1 \in 1 .. Len(toBackend') /\ toBackend'[j - 1] = toBackend[j]
      BY <1>2, <2>2
    <2> QED
      BY <2>1, <2>3
  <1>5. ASSUME NEW i \in 1 .. Len(toBackend'),
               toBackend'[i].method = "SEND", toBackend'[i].ok,
               allocations_'[toBackend'[i].tag] = "none"
        PROVE  \E j \in 1 .. i - 1 : Allocates(toBackend'[j], toBackend'[i].tag)
    <2> DEFINE d == toBackend[i + 1].tag
    <2>1. i + 1 \in 1 .. Len(toBackend) /\ toBackend'[i] = toBackend[i + 1]
      BY <1>2
    <2>2. d \in Clients /\ allocations_'[d] = "none" /\ allocations_[d] = "none"
      BY <1>2, <1>3, <1>5, <2>1
    <2>3. PICK j \in 1 .. i : Allocates(toBackend[j], d)
      <3>1. \/ allocations_[d] # "none"
            \/ \E j \in 1 .. (i + 1) - 1 : Allocates(toBackend[j], d)
        BY <1>5, <2>1 DEF IInv, OrderInv
      <3>2. (i + 1) - 1 = i
        BY <1>2
      <3> QED
        BY <2>2, <3>1, <3>2
    <2>4. j # 1
      BY <1>2, <2>2, <2>3 DEF Allocates
    <2>5. j - 1 \in 1 .. i - 1 /\ toBackend'[j - 1] = toBackend[j]
      BY <1>2, <2>4
    <2> QED
      BY <2>1, <2>3, <2>5
  <1> QED
    BY <1>4, <1>5 DEF OrderInv, Allocates

\* What requests that go on do to the variables of the backend.
LEMMA ResumeDoes ==
    ASSUME IInv, NEW c \in Clients,
           NEW r \in [allocates : Seq(Ids), sends : Seq(Messages)],
           NEW bound \in BOOLEAN, Resume(c, r, bound)
    PROVE  /\ infos' \in [Clients -> Seq(Ids)] /\ relayed' \in [Clients -> Seq(Ids)]
           /\ toFrontend' \in Seq(Messages)
           /\ dropped' \in [Clients -> SUBSET [tid : Ids, asked : BOOLEAN,
                                              why : {"refused", "unbound", "getInfo"}]]
           /\ \A d \in Clients \ {c} : infos'[d] = infos[d]
           /\ ToSet(infos'[c]) \subseteq ToSet(infos[c]) \cup ToSet(r.allocates)
           /\ ~ bound => infos' = infos
           /\ \A x \in ToSet(toFrontend') :
                 \/ x \in ToSet(toFrontend)
                 \/ ~ bound /\ x.method = "ALLOCATE" /\ x.tag = c /\ ~ x.ok
                       /\ x.tid \in ToSet(r.allocates)
           /\ \A d \in Clients : \A x \in dropped'[d] :
                 x \in dropped[d] \/ x.why = "unbound"
  <1> DEFINE Drops == [tid : Ids, asked : BOOLEAN, why : {"refused", "unbound", "getInfo"}]
  <1>1. /\ infos \in [Clients -> Seq(Ids)] /\ relayed \in [Clients -> Seq(Ids)]
        /\ toFrontend \in Seq(Messages) /\ dropped \in [Clients -> SUBSET Drops]
    BY DEF IInv, TypeOK
  <1>2. r.allocates \in Seq(Ids) /\ r.sends \in Seq(Messages)
    OBVIOUS
  <1>3. \A x \in Messages : x.tid \in Ids /\ x.ok \in BOOLEAN
    BY DEF Messages
  <1>4. CASE bound
    <2> DEFINE ids == [i \in DOMAIN r.sends |-> r.sends[i].tid]
    <2>1. /\ infos' = [infos EXCEPT ![c] = @ \o r.allocates]
          /\ relayed' = [relayed EXCEPT ![c] = @ \o ids]
          /\ UNCHANGED <<toFrontend, dropped>>
      BY <1>4 DEF Resume
    <2>2. ids \in Seq(Ids)
      BY <1>2, <1>3
    <2> HIDE DEF ids
    <2>3. /\ infos[c] \o r.allocates \in Seq(Ids)
          /\ ToSet(infos[c] \o r.allocates) \subseteq ToSet(infos[c]) \cup ToSet(r.allocates)
          /\ relayed[c] \o ids \in Seq(Ids)
      BY <1>1, <1>2, <2>2, ConcatElements
    <2> QED
      BY <1>1, <1>4, <2>1, <2>3
  <1>5. CASE ~ bound
    <2> DEFINE response(i) == Ipc("ALLOCATE", c, r.allocates[i], FALSE)
               responses == [i \in DOMAIN r.allocates |-> response(i)]
               drop(x) == [tid |-> x.tid, asked |-> x.ok, why |-> "unbound"]
               drops == {drop(x) : x \in ToSet(r.sends)}
    <2>1. /\ toFrontend' = toFrontend \o responses
          /\ dropped' = [dropped EXCEPT ![c] = @ \cup drops]
          /\ UNCHANGED <<infos, relayed>>
      BY <1>5 DEF Resume, Drop
    <2>2. \A i \in DOMAIN r.allocates :
              /\ response(i) \in Messages
              /\ response(i).method = "ALLOCATE" /\ response(i).tag = c
              /\ ~ response(i).ok /\ response(i).tid = r.allocates[i]
      <3>1. \A i \in DOMAIN r.allocates : r.allocates[i] \in Ids
        BY <1>2
      <3> QED
        BY <3>1, Zenon DEF Ipc, Messages
    <2>3. drops \subseteq Drops /\ \A x \in drops : x.why = "unbound"
      <3>1. ToSet(r.sends) \subseteq Messages
        BY <1>2, Elements
      <3>2. \A x \in Messages : drop(x) \in Drops /\ drop(x).why = "unbound"
        <4>1. "unbound" \in {"refused", "unbound", "getInfo"}
          OBVIOUS
        <4> QED
          BY <1>3, <4>1, Zenon
      <3> HIDE DEF drop
      <3> QED
        BY <3>1, <3>2
    <2>4. /\ DOMAIN r.allocates = 1 .. Len(r.allocates) /\ Len(r.allocates) \in Nat
          /\ DOMAIN responses = DOMAIN r.allocates
          /\ \A i \in DOMAIN r.allocates : responses[i] = response(i)
      BY <1>2
    <2> HIDE DEF response, responses, drops
    <2>5. responses \in Seq(Messages)
      <3>1. responses = [i \in 1 .. Len(r.allocates) |-> response(i)]
        BY <2>4 DEF responses
      <3> QED
        BY <2>2, <2>4, <3>1
    <2>6. /\ toFrontend \o responses \in Seq(Messages)
          /\ ToSet(toFrontend \o responses) \subseteq ToSet(toFrontend) \cup ToSet(responses)
      BY <1>1, <2>5, ConcatElements
    <2>7. ASSUME NEW x \in ToSet(responses)
          PROVE  /\ x.method = "ALLOCATE" /\ x.tag = c /\ ~ x.ok
                 /\ x.tid \in ToSet(r.allocates)
      <3>1. PICK i \in DOMAIN r.allocates : x = response(i)
        BY <2>4 DEF ToSet
      <3>2. r.allocates[i] \in ToSet(r.allocates)
        BY DEF ToSet
      <3> QED
        BY <2>2, <3>1, <3>2, Zenon
    <2>8. \A x \in ToSet(toFrontend') :
              \/ x \in ToSet(toFrontend)
              \/ ~ bound /\ x.method = "ALLOCATE" /\ x.tag = c /\ ~ x.ok
                    /\ x.tid \in ToSet(r.allocates)
      BY <1>5, <2>1, <2>6, <2>7
    <2>9. /\ dropped' \in [Clients -> SUBSET Drops]
          /\ \A d \in Clients : \A x \in dropped'[d] :
                x \in dropped[d] \/ x.why = "unbound"
      BY <1>1, <2>1, <2>3
    <2> QED
      BY <1>1, <1>5, <2>1, <2>6, <2>8, <2>9
  <1> QED
    BY <1>4, <1>5

\* Requests that go on once their allocation is settled keep the invariant.
LEMMA ResumeKeeps ==
    ASSUME IInv, NEW c \in Clients,
           NEW r \in [allocates : Seq(Ids), sends : Seq(Messages)],
           NEW bound \in BOOLEAN, Resume(c, r, bound),
           UNCHANGED <<frontendVars, arrived, answers>>,
           toBackend' \in Seq(Messages), ToSet(toBackend') \subseteq ToSet(toBackend),
           allocations_' \in [Clients -> {"none", "binding", "bound", "failed"}],
           afterBind' \in [Clients -> [allocates : Seq(Ids), sends : Seq(Messages)]],
           allocations_'[c] = IF bound THEN "bound" ELSE "failed",
           allocations_[c] \in {"binding", allocations_'[c]},
           \A d \in Clients \ {c} :
               allocations_'[d] = allocations_[d] /\ afterBind'[d] = afterBind[d],
           ToSet(afterBind'[c].allocates) \subseteq ToSet(afterBind[c].allocates),
           promises_[c].state \notin {"fulfilled", "rejected"} =>
               ToSet(r.allocates) \subseteq ToSet(waiting[c]),
           OrderInv'
    PROVE  IInv'
  <1>1. /\ infos' \in [Clients -> Seq(Ids)] /\ relayed' \in [Clients -> Seq(Ids)]
        /\ toFrontend' \in Seq(Messages)
        /\ dropped' \in [Clients -> SUBSET [tid : Ids, asked : BOOLEAN,
                                           why : {"refused", "unbound", "getInfo"}]]
        /\ \A d \in Clients \ {c} : infos'[d] = infos[d]
        /\ ToSet(infos'[c]) \subseteq ToSet(infos[c]) \cup ToSet(r.allocates)
        /\ ~ bound => infos' = infos
        /\ \A x \in ToSet(toFrontend') :
              \/ x \in ToSet(toFrontend)
              \/ ~ bound /\ x.method = "ALLOCATE" /\ x.tag = c /\ ~ x.ok
                    /\ x.tid \in ToSet(r.allocates)
        /\ \A d \in Clients : \A x \in dropped'[d] :
              x \in dropped[d] \/ x.why = "unbound"
    BY ResumeDoes
  <1>2. /\ UNCHANGED <<asked, promises_, waiting, arrived, answers>>
        /\ \A d \in Clients : Told(d)' = Told(d)
    BY DEF frontendVars, Told
  <1>3. TypeOK'
    BY <1>1, <1>2 DEF IInv, TypeOK
  <1>4. /\ ToSet(toBackend) \subseteq Messages /\ ToSet(toFrontend) \subseteq Messages
        /\ \A x \in Messages : x.tag \in Clients
    BY Elements DEF IInv, TypeOK, Messages
  <1>5. promises_[c].state # "none" /\ allocations_'[c] \in {"bound", "failed"}
    BY DEF IInv, AllocationInv
  <1>6. \A d \in Clients : allocations_[d] = "bound" => allocations_'[d] = "bound"
    OBVIOUS
  <1>7. MessagesInv'
    <2>1. \A x \in ToSet(toBackend') :
              /\ x.method \in {"ALLOCATE", "SEND"}
              /\ x.method = "ALLOCATE" => promises_'[x.tag].state # "none"
      BY <1>2 DEF IInv, MessagesInv
    <2>2. ASSUME NEW x \in ToSet(toFrontend')
          PROVE  /\ x.method \in {"ALLOCATE", "DATA"}
                 /\ x.method = "ALLOCATE" /\ x.ok => allocations_'[x.tag] = "bound"
      <3>1. CASE x \in ToSet(toFrontend)
        <4>1. x.tag \in Clients
          BY <1>4, <3>1
        <4>2. /\ x.method \in {"ALLOCATE", "DATA"}
              /\ x.method = "ALLOCATE" /\ x.ok => allocations_[x.tag] = "bound"
          BY <3>1, Zenon DEF IInv, MessagesInv
        <4> QED
          BY <1>6, <4>1, <4>2, Zenon
      <3>2. CASE x.method = "ALLOCATE" /\ ~ x.ok
        BY <3>2, Zenon
      <3> QED
        BY <1>1, <3>1, <3>2, Zenon
    <2> QED
      BY <2>1, <2>2, Zenon DEF MessagesInv
  <1>8. CallbackExists'
    <2> SUFFICES ASSUME NEW x \in ToSet(toFrontend')
                 PROVE  /\ promises_'[x.tag].state # "none"
                        /\ allocations_'[x.tag] \notin {"none", "binding"}
      BY DEF CallbackExists
    <2>1. CASE x \in ToSet(toFrontend)
      BY <1>2, <1>4, <1>5, <2>1 DEF IInv, CallbackExists
    <2>2. CASE x.tag = c
      BY <1>2, <1>5, <2>2
    <2> QED
      BY <1>1, <2>1, <2>2, Zenon
  <1>9. AllocationInv'
    BY <1>1, <1>2, <1>5, <1>6 DEF IInv, AllocationInv
  <1>10. NoneRefused'
    <2>1. ASSUME NEW d \in Clients, NEW x \in dropped'[d], x.why = "refused"
          PROVE  ~ x.asked
      <3>1. x \in dropped[d]
        BY <1>1, <2>1
      <3> QED
        BY <2>1, <3>1, Zenon DEF IInv, NoneRefused
    <2> QED
      BY <2>1, Zenon DEF NoneRefused
  <1>11. PromiseInv'
    BY <1>2, <1>6 DEF IInv, PromiseInv
  <1>12. WaitingInv'
    <2> SUFFICES ASSUME NEW d \in Clients, promises_[d].state \notin {"fulfilled", "rejected"}
                 PROVE  /\ \A x \in ToSet(toBackend') \cup ToSet(toFrontend') :
                              Allocates(x, d) => x.tid \in ToSet(waiting[d])
                        /\ ToSet(afterBind'[d].allocates) \subseteq ToSet(waiting[d])
                        /\ ToSet(infos'[d]) \subseteq ToSet(waiting[d])
      BY <1>2 DEF WaitingInv, Allocates
    <2>1. /\ \A x \in ToSet(toBackend) \cup ToSet(toFrontend) :
                Allocates(x, d) => x.tid \in ToSet(waiting[d])
          /\ ToSet(afterBind[d].allocates) \subseteq ToSet(waiting[d])
          /\ ToSet(infos[d]) \subseteq ToSet(waiting[d])
      BY DEF IInv, WaitingInv
    <2>2. ASSUME NEW x \in ToSet(toFrontend'), Allocates(x, d)
          PROVE  x.tid \in ToSet(waiting[d])
      <3>1. CASE x \in ToSet(toFrontend)
        BY <2>1, <2>2, <3>1
      <3>2. CASE x.tag = c /\ x.tid \in ToSet(r.allocates)
        BY <2>2, <3>2 DEF Allocates
      <3> QED
        BY <1>1, <3>1, <3>2, Zenon
    <2>3. ToSet(afterBind'[d].allocates) \subseteq ToSet(waiting[d])
      BY <2>1
    <2>4. ToSet(infos'[d]) \subseteq ToSet(waiting[d])
      BY <1>1, <2>1
    <2> QED
      BY <2>1, <2>2, <2>3, <2>4
  <1> QED
    BY <1>3, <1>7, <1>8, <1>9, <1>10, <1>11, <1>12 DEF IInv

\* What one request makes of those that wait.
LEMMA WithRequestAdds ==
    ASSUME NEW m \in Messages, NEW r \in [allocates : Seq(Ids), sends : Seq(Messages)]
    PROVE  /\ WithRequest(r, m) \in [allocates : Seq(Ids), sends : Seq(Messages)]
           /\ ToSet(WithRequest(r, m).allocates) \subseteq
                 ToSet(r.allocates) \cup
                     (IF m.method = "ALLOCATE" THEN {m.tid} ELSE {})
  <1>1. m.tid \in Ids
    BY DEF Messages
  <1>2. /\ Append(r.allocates, m.tid) \in Seq(Ids)
        /\ ToSet(Append(r.allocates, m.tid)) = ToSet(r.allocates) \cup {m.tid}
        /\ Append(r.sends, m) \in Seq(Messages)
    BY <1>1, AppendElements
  <1> QED
    BY <1>2 DEF WithRequest

\* bind settles, and the requests that waited for it go on.
LEMMA BindSettlesKeeps ==
    ASSUME IInv, NEW c \in Clients, NEW bound \in BOOLEAN, BindSettles(c, bound)
    PROVE  IInv'
  <1>1. /\ allocations_[c] = "binding"
        /\ allocations_' = [allocations_ EXCEPT ![c] = IF bound THEN "bound" ELSE "failed"]
        /\ afterBind' = [afterBind EXCEPT ![c] = NoRequests]
        /\ Resume(c, afterBind[c], bound)
        /\ UNCHANGED <<frontendVars, toBackend, arrived, answers>>
    BY DEF BindSettles
  <1>2. /\ allocations_ \in [Clients -> {"none", "binding", "bound", "failed"}]
        /\ afterBind \in [Clients -> [allocates : Seq(Ids), sends : Seq(Messages)]]
        /\ toBackend \in Seq(Messages)
    BY DEF IInv, TypeOK
  <1>3. NoRequests \in [allocates : Seq(Ids), sends : Seq(Messages)]
        /\ NoRequests.allocates = <<>>
    BY DEF NoRequests
  <1>4. /\ allocations_' \in [Clients -> {"none", "binding", "bound", "failed"}]
        /\ allocations_'[c] = IF bound THEN "bound" ELSE "failed"
        /\ \A d \in Clients \ {c} : allocations_'[d] = allocations_[d]
    BY <1>1, <1>2
  <1>5. /\ afterBind' \in [Clients -> [allocates : Seq(Ids), sends : Seq(Messages)]]
        /\ afterBind'[c].allocates = <<>>
        /\ \A d \in Clients \ {c} : afterBind'[d] = afterBind[d]
    BY <1>1, <1>2, <1>3
  <1>6. PICK r \in [allocates : Seq(Ids), sends : Seq(Messages)] : r = afterBind[c]
    BY <1>2
  <1>7. Resume(c, r, bound)
    BY <1>1, <1>6, Zenon
  <1>8. promises_[c].state \notin {"fulfilled", "rejected"} =>
            ToSet(r.allocates) \subseteq ToSet(waiting[c])
    BY <1>6 DEF IInv, WaitingInv
  <1>9. ToSet(afterBind'[c].allocates) \subseteq ToSet(afterBind[c].allocates)
    BY <1>5 DEF ToSet
  <1>10. OrderInv'
    <2>1. \A d \in Clients : allocations_[d] # "none" <=> allocations_'[d] # "none"
      BY <1>1, <1>4
    <2>2. \A i \in 1 .. Len(toBackend) : toBackend[i].tag \in Clients
      <3>1. \A i \in 1 .. Len(toBackend) : toBackend[i] \in Messages
        BY <1>2
      <3> QED
        BY <3>1 DEF Messages
    <2> QED
      BY <1>1, <2>1, <2>2 DEF IInv, OrderInv, Allocates, frontendVars
  <1>11. /\ UNCHANGED <<frontendVars, arrived, answers>>
         /\ toBackend' \in Seq(Messages) /\ ToSet(toBackend') \subseteq ToSet(toBackend)
         /\ allocations_[c] \in {"binding", allocations_'[c]}
    BY <1>1, <1>2
  <1>12. \A d \in Clients \ {c} :
             allocations_'[d] = allocations_[d] /\ afterBind'[d] = afterBind[d]
    BY <1>4, <1>5
  <1> QED
    BY <1>4, <1>5, <1>7, <1>8, <1>9, <1>10, <1>11, <1>12, ResumeKeeps, ZenonT(60)

\* A SEND that is refused came before its client asked for a relay.
LEMMA RefusalKeeps ==
    ASSUME IInv, BackendHandles, Refuses(Head(toBackend))
    PROVE  IInv'
  <1> DEFINE Drops == [tid : Ids, asked : BOOLEAN, why : {"refused", "unbound", "getInfo"}]
  <1>1. PICK m : m = Head(toBackend)
    OBVIOUS
  <1>2. /\ toBackend # <<>> /\ toBackend' = Tail(toBackend) /\ Drop(m.tag, {m}, "refused")
        /\ UNCHANGED <<allocations_, afterBind, infos, toFrontend, relayed>>
        /\ UNCHANGED <<frontendVars, arrived, answers>>
    BY <1>1 DEF BackendHandles
  <1>3. /\ TypeOK /\ toBackend \in Seq(Messages) /\ toFrontend \in Seq(Messages)
        /\ dropped \in [Clients -> SUBSET Drops]
    BY DEF IInv, TypeOK
  <1>4. /\ toBackend' \in Seq(Messages) /\ m \in Messages /\ m \in ToSet(toBackend)
        /\ ToSet(toBackend') \subseteq ToSet(toBackend)
    BY <1>1, <1>2, <1>3, TailElements
  <1>5. m.tag \in Clients /\ m.tid \in Ids /\ m.ok \in BOOLEAN
    BY <1>4 DEF Messages
  <1>6. m.method = "SEND" /\ allocations_[m.tag] = "none"
    BY <1>1 DEF Refuses
  <1>7. ~ m.ok
    <2>1. 1 \in 1 .. Len(toBackend) /\ toBackend[1] = m
      BY <1>1, <1>2, <1>3
    <2>2. m.ok => \/ allocations_[m.tag] # "none"
                  \/ \E j \in 1 .. 1 - 1 : Allocates(toBackend[j], m.tag)
      BY <1>6, <2>1 DEF IInv, OrderInv
    <2>3. 1 .. 1 - 1 = {}
      OBVIOUS
    <2> QED
      BY <1>6, <2>2, <2>3
  <1> DEFINE drop(x) == [tid |-> x.tid, asked |-> x.ok, why |-> "refused"]
  <1>8. dropped' = [dropped EXCEPT ![m.tag] = @ \cup {drop(x) : x \in {m}}]
    BY <1>2 DEF Drop
  <1>9. drop(m) \in Drops /\ ~ drop(m).asked
    <2>1. "refused" \in {"refused", "unbound", "getInfo"}
      OBVIOUS
    <2> QED
      BY <1>5, <1>7, <2>1, Zenon
  <1> HIDE DEF drop
  <1>10. /\ dropped' \in [Clients -> SUBSET Drops]
         /\ \A d \in Clients : \A x \in dropped'[d] : x \in dropped[d] \/ x = drop(m)
    BY <1>3, <1>5, <1>8, <1>9
  <1>11. NoneRefused'
    BY <1>9, <1>10, Zenon DEF IInv, NoneRefused
  <1>12. TypeOK'
    BY <1>2, <1>3, <1>4, <1>10 DEF TypeOK, frontendVars
  <1>13. MessagesInv' /\ CallbackExists' /\ AllocationInv'
    BY <1>2, <1>4 DEF IInv, MessagesInv, CallbackExists, AllocationInv, frontendVars
  <1>14. PromiseInv'
    BY <1>2 DEF IInv, PromiseInv, frontendVars, Told
  <1>15. WaitingInv'
    BY <1>2, <1>4 DEF IInv, WaitingInv, frontendVars, Allocates
  <1>16. OrderInv'
    BY <1>1, <1>2, <1>5, <1>6, TailOrder DEF frontendVars
  <1> QED
    BY <1>11, <1>12, <1>13, <1>14, <1>15, <1>16 DEF IInv

\* A request for an allocation that is settled goes on at once.
LEMMA UseSettledKeeps ==
    ASSUME IInv, BackendHandles, ~ Refuses(Head(toBackend)),
           Settled(Head(toBackend).tag)
    PROVE  IInv'
  <1>1. PICK m : m = Head(toBackend)
    OBVIOUS
  <1>2. PICK c : c = m.tag
    OBVIOUS
  <1>3. PICK bound \in BOOLEAN : bound = (allocations_[c] = "bound")
    OBVIOUS
  <1>4. /\ toBackend # <<>> /\ toBackend' = Tail(toBackend)
        /\ UseAllocation(m) /\ Settled(m.tag)
        /\ UNCHANGED <<frontendVars, arrived, answers>>
    BY <1>1 DEF BackendHandles
  <1>5. /\ Resume(m.tag, WithRequest(NoRequests, m), allocations_[m.tag] = "bound")
        /\ UNCHANGED <<allocations_, afterBind>>
    BY <1>4 DEF UseAllocation
  <1>6. /\ toBackend \in Seq(Messages)
        /\ allocations_ \in [Clients -> {"none", "binding", "bound", "failed"}]
        /\ afterBind \in [Clients -> [allocates : Seq(Ids), sends : Seq(Messages)]]
    BY DEF IInv, TypeOK
  <1>7. /\ toBackend' \in Seq(Messages) /\ m \in Messages /\ m \in ToSet(toBackend)
        /\ ToSet(toBackend') \subseteq ToSet(toBackend)
    BY <1>1, <1>4, <1>6, TailElements
  <1>8. c \in Clients
    BY <1>2, <1>7 DEF Messages
  <1>9. NoRequests \in [allocates : Seq(Ids), sends : Seq(Messages)]
        /\ ToSet(NoRequests.allocates) = {}
    BY DEF NoRequests, ToSet
  <1>10. /\ WithRequest(NoRequests, m) \in [allocates : Seq(Ids), sends : Seq(Messages)]
         /\ ToSet(WithRequest(NoRequests, m).allocates) \subseteq
               ToSet(NoRequests.allocates) \cup
                   (IF m.method = "ALLOCATE" THEN {m.tid} ELSE {})
    BY <1>7, <1>9, WithRequestAdds, Zenon
  <1>11. PICK r \in [allocates : Seq(Ids), sends : Seq(Messages)] :
             r = WithRequest(NoRequests, m)
    BY <1>10
  <1>12. Resume(c, r, bound)
    BY <1>2, <1>3, <1>5, <1>11, Zenon
  <1>13. promises_[c].state \notin {"fulfilled", "rejected"} =>
             ToSet(r.allocates) \subseteq ToSet(waiting[c])
    <2> SUFFICES ASSUME promises_[c].state \notin {"fulfilled", "rejected"},
                        m.method = "ALLOCATE"
                 PROVE  m.tid \in ToSet(waiting[c])
      BY <1>9, <1>10, <1>11
    <2>1. \A x \in ToSet(toBackend) : Allocates(x, c) => x.tid \in ToSet(waiting[c])
      BY <1>8 DEF IInv, WaitingInv
    <2> QED
      BY <1>2, <1>7, <2>1 DEF Allocates
  <1>14. /\ allocations_'[c] = IF bound THEN "bound" ELSE "failed"
         /\ allocations_[c] \in {"binding", allocations_'[c]}
    <2>1. allocations_[c] \in {"bound", "failed"} /\ allocations_' = allocations_
      BY <1>2, <1>4, <1>5 DEF Settled
    <2> QED
      BY <1>3, <2>1
  <1>15. OrderInv'
    <2>1. /\ UNCHANGED promises_ /\ Head(toBackend).tag \in Clients
          /\ allocations_' = allocations_
          /\ allocations_'[Head(toBackend).tag] # "none"
      BY <1>1, <1>2, <1>4, <1>5, <1>8 DEF Settled, frontendVars
    <2> QED
      BY <1>4, <2>1, TailOrder
  <1>16. /\ allocations_' \in [Clients -> {"none", "binding", "bound", "failed"}]
         /\ afterBind' \in [Clients -> [allocates : Seq(Ids), sends : Seq(Messages)]]
         /\ \A d \in Clients \ {c} :
               allocations_'[d] = allocations_[d] /\ afterBind'[d] = afterBind[d]
         /\ ToSet(afterBind'[c].allocates) \subseteq ToSet(afterBind[c].allocates)
    BY <1>5, <1>6
  <1> QED
    BY <1>4, <1>7, <1>8, <1>12, <1>13, <1>14, <1>15, <1>16, ResumeKeeps, ZenonT(60)

\* A request for an allocation that is not settled waits for it, and makes it.
LEMMA UsePendingKeeps ==
    ASSUME IInv, BackendHandles, ~ Refuses(Head(toBackend)),
           ~ Settled(Head(toBackend).tag)
    PROVE  IInv'
  <1>1. PICK m : m = Head(toBackend)
    OBVIOUS
  <1>2. PICK c : c = m.tag
    OBVIOUS
  <1>3. /\ toBackend # <<>> /\ toBackend' = Tail(toBackend)
        /\ UseAllocation(m) /\ ~ Settled(c) /\ ~ Refuses(m)
        /\ UNCHANGED <<frontendVars, arrived, answers>>
    BY <1>1, <1>2 DEF BackendHandles
  <1>4. /\ allocations_' = [allocations_ EXCEPT ![c] = "binding"]
        /\ afterBind' = [afterBind EXCEPT ![c] = WithRequest(@, m)]
        /\ UNCHANGED <<infos, toFrontend, relayed, dropped>>
    BY <1>2, <1>3 DEF UseAllocation
  <1>5. /\ toBackend \in Seq(Messages) /\ toFrontend \in Seq(Messages)
        /\ allocations_ \in [Clients -> {"none", "binding", "bound", "failed"}]
        /\ afterBind \in [Clients -> [allocates : Seq(Ids), sends : Seq(Messages)]]
    BY DEF IInv, TypeOK
  <1>6. /\ toBackend' \in Seq(Messages) /\ m \in Messages /\ m \in ToSet(toBackend)
        /\ ToSet(toBackend') \subseteq ToSet(toBackend)
    BY <1>1, <1>3, <1>5, TailElements
  <1>7. c \in Clients
    BY <1>2, <1>6 DEF Messages
  <1>8. /\ WithRequest(afterBind[c], m) \in [allocates : Seq(Ids), sends : Seq(Messages)]
        /\ ToSet(WithRequest(afterBind[c], m).allocates) \subseteq
              ToSet(afterBind[c].allocates) \cup
                  (IF m.method = "ALLOCATE" THEN {m.tid} ELSE {})
    <2>1. afterBind[c] \in [allocates : Seq(Ids), sends : Seq(Messages)]
      BY <1>5, <1>7
    <2> QED
      BY <1>6, <2>1, WithRequestAdds, Zenon
  <1>9. /\ afterBind' \in [Clients -> [allocates : Seq(Ids), sends : Seq(Messages)]]
        /\ \A d \in Clients \ {c} : afterBind'[d] = afterBind[d]
        /\ ToSet(afterBind'[c].allocates) \subseteq
              ToSet(afterBind[c].allocates) \cup
                  (IF m.method = "ALLOCATE" THEN {m.tid} ELSE {})
    BY <1>4, <1>5, <1>7, <1>8
  <1>10. /\ allocations_' \in [Clients -> {"none", "binding", "bound", "failed"}]
         /\ allocations_'[c] = "binding" /\ allocations_[c] \in {"none", "binding"}
         /\ \A d \in Clients \ {c} : allocations_'[d] = allocations_[d]
    BY <1>3, <1>4, <1>5, <1>7 DEF Settled
  <1>11. TypeOK'
    BY <1>3, <1>4, <1>6, <1>9, <1>10 DEF IInv, TypeOK, frontendVars
  <1>12. m.method \in {"ALLOCATE", "SEND"} /\ promises_[c].state # "none"
    <2>1. CASE m.method = "ALLOCATE"
      BY <1>2, <1>6, <2>1 DEF IInv, MessagesInv
    <2>2. CASE m.method = "SEND"
      <3>1. allocations_[c] # "none"
        BY <1>2, <1>3, <2>2 DEF Refuses
      <3> QED
        BY <1>7, <2>2, <3>1 DEF IInv, AllocationInv
    <2>3. m.method \in {"ALLOCATE", "SEND"}
      BY <1>6 DEF IInv, MessagesInv
    <2> QED
      BY <2>1, <2>2, <2>3
  <1>13. /\ UNCHANGED <<asked, promises_, waiting, answers>>
         /\ \A d \in Clients : Told(d)' = Told(d)
         /\ \A d \in Clients : allocations_[d] = "bound" <=> allocations_'[d] = "bound"
         /\ \A d \in Clients : allocations_[d] # "none" => allocations_'[d] # "none"
    BY <1>3, <1>10 DEF frontendVars, Told
  <1>14. ToSet(toFrontend) \subseteq Messages /\ \A x \in Messages : x.tag \in Clients
    BY <1>5, Elements DEF Messages
  <1>15. MessagesInv'
    <2>1. \A x \in ToSet(toBackend') :
              /\ x.method \in {"ALLOCATE", "SEND"}
              /\ x.method = "ALLOCATE" => promises_'[x.tag].state # "none"
      BY <1>6, <1>13 DEF IInv, MessagesInv
    <2>2. ASSUME NEW x \in ToSet(toFrontend')
          PROVE  /\ x.method \in {"ALLOCATE", "DATA"}
                 /\ x.method = "ALLOCATE" /\ x.ok => allocations_'[x.tag] = "bound"
      <3>1. x \in ToSet(toFrontend) /\ x.tag \in Clients
        BY <1>4, <1>14, <2>2
      <3>2. /\ x.method \in {"ALLOCATE", "DATA"}
            /\ x.method = "ALLOCATE" /\ x.ok => allocations_[x.tag] = "bound"
        BY <3>1, Zenon DEF IInv, MessagesInv
      <3> QED
        BY <1>13, <3>1, <3>2, Zenon
    <2> QED
      BY <2>1, <2>2, Zenon DEF MessagesInv
  <1>16. CallbackExists'
    BY <1>4, <1>10, <1>13, <1>14 DEF IInv, CallbackExists
  <1>17. AllocationInv'
    BY <1>4, <1>10, <1>12, <1>13 DEF IInv, AllocationInv
  <1>18. PromiseInv' /\ NoneRefused'
    BY <1>4, <1>13 DEF IInv, PromiseInv, NoneRefused
  <1>19. WaitingInv'
    <2> SUFFICES ASSUME NEW d \in Clients, promises_[d].state \notin {"fulfilled", "rejected"}
                 PROVE  /\ \A x \in ToSet(toBackend') \cup ToSet(toFrontend) :
                              Allocates(x, d) => x.tid \in ToSet(waiting[d])
                        /\ ToSet(afterBind'[d].allocates) \subseteq ToSet(waiting[d])
                        /\ ToSet(infos[d]) \subseteq ToSet(waiting[d])
      BY <1>4, <1>13 DEF WaitingInv, Allocates
    <2>1. /\ \A x \in ToSet(toBackend) \cup ToSet(toFrontend) :
                Allocates(x, d) => x.tid \in ToSet(waiting[d])
          /\ ToSet(afterBind[d].allocates) \subseteq ToSet(waiting[d])
          /\ ToSet(infos[d]) \subseteq ToSet(waiting[d])
      BY DEF IInv, WaitingInv
    <2>2. ToSet(afterBind'[d].allocates) \subseteq ToSet(waiting[d])
      <3>1. CASE d = c
        <4>1. m.method = "ALLOCATE" => m.tid \in ToSet(waiting[c])
          BY <1>2, <1>6, <2>1, <3>1 DEF Allocates
        <4> QED
          BY <1>9, <2>1, <3>1, <4>1
      <3>2. CASE d # c
        BY <1>9, <2>1, <3>2
      <3> QED
        BY <3>1, <3>2
    <2> QED
      BY <1>6, <2>1, <2>2
  <1>20. OrderInv'
    BY <1>1, <1>2, <1>3, <1>7, <1>10, <1>13, TailOrder
  <1> QED
    BY <1>11, <1>15, <1>16, <1>17, <1>18, <1>19, <1>20 DEF IInv

\* The backend handles a message of the frontend.
LEMMA BackendHandlesKeeps ==
    ASSUME IInv, BackendHandles
    PROVE  IInv'
  BY RefusalKeeps, UseSettledKeeps, UsePendingKeeps

\* getInfo settles, and its request is answered or dropped.
LEMMA InfoSettlesKeeps ==
    ASSUME IInv, NEW c \in Clients, NEW i \in DOMAIN infos[c], NEW ok \in BOOLEAN,
           InfoSettles(c, i, ok)
    PROVE  IInv'
  <1> DEFINE Drops == [tid : Ids, asked : BOOLEAN, why : {"refused", "unbound", "getInfo"}]
  <1>1. PICK m : m = Ipc("ALLOCATE", c, infos[c][i], TRUE)
    OBVIOUS
  <1>2. /\ infos' = [infos EXCEPT ![c] = RemoveAt(@, i)]
        /\ IF ok THEN Emit(m) /\ UNCHANGED dropped
                 ELSE Drop(c, {m}, "getInfo") /\ UNCHANGED toFrontend
        /\ UNCHANGED <<frontendVars, toBackend, allocations_, afterBind, arrived,
                       relayed, answers>>
    BY <1>1 DEF InfoSettles
  <1>3. /\ infos \in [Clients -> Seq(Ids)] /\ toFrontend \in Seq(Messages)
        /\ dropped \in [Clients -> SUBSET Drops]
    BY DEF IInv, TypeOK
  <1>4. infos[c] \in Seq(Ids) /\ i \in 1 .. Len(infos[c])
    BY <1>3
  <1>5. /\ RemoveAt(infos[c], i) \in Seq(Ids)
        /\ ToSet(RemoveAt(infos[c], i)) \subseteq ToSet(infos[c])
    BY <1>4, RemoveElements
  <1>6. /\ infos' \in [Clients -> Seq(Ids)]
        /\ \A d \in Clients : ToSet(infos'[d]) \subseteq ToSet(infos[d])
        /\ \A d \in Clients : infos'[d] # <<>> => infos[d] # <<>>
    <2>1. infos[c] # <<>>
      BY <1>4
    <2> QED
      BY <1>2, <1>3, <1>5, <2>1
  <1>7. /\ m.method = "ALLOCATE" /\ m.tag = c /\ m.ok /\ m.tid = infos[c][i]
        /\ m.tid \in Ids /\ m \in Messages
    <2>1. infos[c][i] \in Ids
      BY <1>4
    <2> QED
      BY <1>1, <2>1, Zenon DEF Ipc, Messages
  <1>8. m.tid \in ToSet(infos[c])
    BY <1>4, <1>7, Elements
  <1>9. allocations_[c] = "bound"
    <2>1. infos[c] # <<>>
      BY <1>4
    <2> QED
      BY <2>1 DEF IInv, AllocationInv
  <1>10. /\ toFrontend' \in Seq(Messages)
         /\ \A x \in ToSet(toFrontend') : x \in ToSet(toFrontend) \/ x = m
    <2>1. CASE ok
      <3>1. toFrontend' = Append(toFrontend, m)
        BY <1>2, <2>1 DEF Emit
      <3> QED
        BY <1>3, <1>7, <3>1, AppendElements
    <2>2. CASE ~ ok
      BY <1>2, <1>3, <2>2
    <2> QED
      BY <2>1, <2>2
  <1> DEFINE drop(x) == [tid |-> x.tid, asked |-> x.ok, why |-> "getInfo"]
  <1>11. drop(m) \in Drops /\ drop(m).why = "getInfo"
    <2>1. "getInfo" \in {"refused", "unbound", "getInfo"}
      OBVIOUS
    <2>2. m.ok \in BOOLEAN
      BY <1>7 DEF Messages
    <2> QED
      BY <1>7, <2>1, <2>2, Zenon
  <1>12. ~ ok => dropped' = [dropped EXCEPT ![c] = @ \cup {drop(x) : x \in {m}}]
    BY <1>2 DEF Drop
  <1> HIDE DEF drop
  <1>13. /\ dropped' \in [Clients -> SUBSET Drops]
         /\ \A d \in Clients : \A x \in dropped'[d] : x \in dropped[d] \/ x.why = "getInfo"
    <2>1. CASE ok
      BY <1>2, <1>3, <2>1
    <2>2. CASE ~ ok
      <3>1. /\ dropped' \in [Clients -> SUBSET Drops]
            /\ \A d \in Clients : \A x \in dropped'[d] : x \in dropped[d] \/ x = drop(m)
        <4>1. dropped' = [dropped EXCEPT ![c] = @ \cup {drop(x) : x \in {m}}]
          BY <1>12, <2>2, Zenon
        <4> QED
          BY <1>3, <1>11, <4>1
      <3> QED
        BY <1>11, <3>1, Zenon
    <2> QED
      BY <2>1, <2>2
  <1>14. TypeOK'
    BY <1>2, <1>6, <1>10, <1>13 DEF IInv, TypeOK, frontendVars
  <1>15. UNCHANGED <<asked, promises_, waiting, answers, allocations_, toBackend, afterBind>>
    BY <1>2 DEF frontendVars
  <1>16. MessagesInv'
    <2>1. \A x \in ToSet(toBackend') :
              /\ x.method \in {"ALLOCATE", "SEND"}
              /\ x.method = "ALLOCATE" => promises_'[x.tag].state # "none"
      BY <1>15 DEF IInv, MessagesInv
    <2>2. ASSUME NEW x \in ToSet(toFrontend')
          PROVE  /\ x.method \in {"ALLOCATE", "DATA"}
                 /\ x.method = "ALLOCATE" /\ x.ok => allocations_'[x.tag] = "bound"
      <3>1. CASE x = m
        BY <1>7, <1>9, <1>15, <3>1
      <3>2. CASE x \in ToSet(toFrontend)
        BY <1>15, <3>2 DEF IInv, MessagesInv
      <3> QED
        BY <1>10, <3>1, <3>2
    <2> QED
      BY <2>1, <2>2, Zenon DEF MessagesInv
  <1>17. CallbackExists'
    <2>1. promises_[c].state # "none"
      BY <1>9 DEF IInv, AllocationInv
    <2> QED
      BY <1>7, <1>9, <1>10, <1>15, <2>1 DEF IInv, CallbackExists
  <1>18. AllocationInv' /\ PromiseInv'
    BY <1>6, <1>15 DEF IInv, AllocationInv, PromiseInv, Told
  <1>19. NoneRefused'
    BY <1>13 DEF IInv, NoneRefused
  <1>20. WaitingInv'
    <2> SUFFICES ASSUME NEW d \in Clients, promises_[d].state \notin {"fulfilled", "rejected"}
                 PROVE  /\ \A x \in ToSet(toBackend) \cup ToSet(toFrontend') :
                              Allocates(x, d) => x.tid \in ToSet(waiting[d])
                        /\ ToSet(afterBind[d].allocates) \subseteq ToSet(waiting[d])
                        /\ ToSet(infos'[d]) \subseteq ToSet(waiting[d])
      BY <1>15 DEF WaitingInv, Allocates
    <2>1. /\ \A x \in ToSet(toBackend) \cup ToSet(toFrontend) :
                Allocates(x, d) => x.tid \in ToSet(waiting[d])
          /\ ToSet(afterBind[d].allocates) \subseteq ToSet(waiting[d])
          /\ ToSet(infos[d]) \subseteq ToSet(waiting[d])
      BY DEF IInv, WaitingInv
    <2>2. Allocates(m, d) => m.tid \in ToSet(waiting[d])
      BY <1>7, <1>8, <2>1 DEF Allocates
    <2> QED
      BY <1>6, <1>10, <2>1, <2>2
  <1>21. OrderInv'
    BY <1>15 DEF IInv, OrderInv, Allocates
  <1> QED
    BY <1>14, <1>16, <1>17, <1>18, <1>19, <1>20, <1>21 DEF IInv

\* A datagram comes in at a relay socket, which has a client that asked for it.
LEMMA SocketDataKeeps ==
    ASSUME IInv, NEW c \in Clients, SocketData(c)
    PROVE  IInv'
  <1>1. PICK m : m = Ipc("DATA", c, arrived[c] + 1, TRUE)
    OBVIOUS
  <1>2. /\ arrived \in [Clients -> Nat] /\ toFrontend \in Seq(Messages)
    BY DEF IInv, TypeOK
  <1>3. /\ arrived' = [arrived EXCEPT ![c] = @ + 1] /\ arrived'[c] = arrived[c] + 1
        /\ allocations_[c] = "bound"
        /\ UNCHANGED <<asked, promises_, waiting, toBackend, allocations_, afterBind,
                       infos, relayed, dropped, answers>>
    BY <1>2 DEF SocketData, frontendVars
  <1>4. toFrontend' = Append(toFrontend, m)
    BY <1>1, <1>3 DEF SocketData, Emit
  <1>5. m \in Messages /\ m.method = "DATA" /\ m.tag = c
    <2>1. arrived[c] + 1 \in Ids
      BY <1>2 DEF Ids
    <2> QED
      BY <1>1, <2>1, Zenon DEF Ipc, Messages
  <1>6. /\ toFrontend' \in Seq(Messages)
        /\ \A x \in ToSet(toFrontend') : x \in ToSet(toFrontend) \/ x = m
    BY <1>2, <1>4, <1>5, AppendElements
  <1>7. TypeOK'
    <2>1. arrived' \in [Clients -> Nat]
      BY <1>2, <1>3
    <2> QED
      BY <1>3, <1>6, <2>1 DEF IInv, TypeOK
  <1>8. MessagesInv'
    <2>1. \A x \in ToSet(toBackend') :
              /\ x.method \in {"ALLOCATE", "SEND"}
              /\ x.method = "ALLOCATE" => promises_'[x.tag].state # "none"
      BY <1>3 DEF IInv, MessagesInv
    <2>2. ASSUME NEW x \in ToSet(toFrontend')
          PROVE  /\ x.method \in {"ALLOCATE", "DATA"}
                 /\ x.method = "ALLOCATE" /\ x.ok => allocations_'[x.tag] = "bound"
      <3>1. CASE x = m
        BY <1>5, <3>1
      <3>2. CASE x \in ToSet(toFrontend)
        BY <1>3, <3>2 DEF IInv, MessagesInv
      <3> QED
        BY <1>6, <3>1, <3>2
    <2> QED
      BY <2>1, <2>2, Zenon DEF MessagesInv
  <1>9. CallbackExists'
    <2>1. promises_[c].state # "none"
      BY <1>3 DEF IInv, AllocationInv
    <2> QED
      BY <1>3, <1>5, <1>6, <2>1 DEF IInv, CallbackExists
  <1>10. AllocationInv' /\ PromiseInv' /\ NoneRefused'
    BY <1>3 DEF IInv, AllocationInv, PromiseInv, NoneRefused, Told
  <1>11. WaitingInv'
    BY <1>3, <1>5, <1>6 DEF IInv, WaitingInv, Allocates
  <1>12. OrderInv'
    BY <1>3 DEF IInv, OrderInv, Allocates
  <1> QED
    BY <1>7, <1>8, <1>9, <1>10, <1>11, <1>12 DEF IInv

\* A step that changes nothing.
LEMMA StutterKeeps ==
    ASSUME IInv, UNCHANGED vars
    PROVE  IInv'
  <1>1. UNCHANGED <<asked, promises_, waiting, toBackend, allocations_, afterBind, infos,
                    arrived, relayed, dropped, toFrontend, answers>>
    BY DEF vars, frontendVars, backendVars
  <1>2. TypeOK' /\ MessagesInv' /\ AllocationInv'
    BY <1>1 DEF IInv, TypeOK, MessagesInv, AllocationInv
  <1>3. PromiseInv' /\ WaitingInv'
    BY <1>1 DEF IInv, PromiseInv, WaitingInv, Told, Allocates
  <1>4. OrderInv' /\ CallbackExists' /\ NoneRefused'
    BY <1>1 DEF IInv, OrderInv, CallbackExists, NoneRefused, Allocates
  <1> QED
    BY <1>2, <1>3, <1>4 DEF IInv

-----------------------------------------------------------------------------
(* The invariant. *)

\* Every step keeps the invariant.
LEMMA StepKeeps ==
    ASSUME IInv, [Next]_vars
    PROVE  IInv'
  <1>1. ASSUME NEW c \in Clients, Settles(c)
        PROVE  IInv'
    BY <1>1, BindSettlesKeeps, InfoSettlesKeeps DEF Settles
  <1>2. ASSUME NEW c \in Clients, NEW tid \in Transactions,
               AnswerAtOnce(c, tid) \/ RequestRelay(c, tid)
        PROVE  IInv'
    BY <1>2, AnswerAtOnceKeeps, RequestRelayKeeps
  <1>3. ASSUME NEW c \in Clients, SocketData(c) \/ SendIndication(c)
        PROVE  IInv'
    BY <1>3, SocketDataKeeps, SendIndicationKeeps
  <1>4. CASE FrontendHandles \/ BackendHandles
    BY <1>4, FrontendHandlesKeeps, BackendHandlesKeeps
  <1>5. CASE UNCHANGED vars
    BY <1>5, StutterKeeps
  <1> QED
    BY <1>1, <1>2, <1>3, <1>4, <1>5 DEF Next

\* The inductive invariant of the two halves.
THEOREM Invariance == Spec => []IInv
  <1>1. Init => IInv
    BY Initially
  <1>2. IInv /\ [Next]_vars => IInv'
    BY StepKeeps
  <1> QED
    BY <1>1, <1>2, PTL DEF Spec

\* The variables of frontend and backend have their types, whatever the clients
\* ask and in whatever order bind and getInfo settle.
THEOREM TypeCorrect == Spec => []TypeOK
  BY Invariance, PTL DEF IInv

\* handleIpc of the frontend always finds the callback that it calls.
THEOREM CallbackAlwaysExists == Spec => []CallbackExists
  BY Invariance, PTL DEF IInv

\* No SEND of a client that asked for a relay is refused for want of one.
THEOREM NoneIsRefused == Spec => []NoneRefused
  BY Invariance, PTL DEF IInv

\* All that a client is told of its relay is one response to one of its
\* requests.
THEOREM OneResponseAlways == Spec => []OneResponse
  <1>1. IInv => OneResponse
    BY DEF IInv, PromiseInv, OneResponse
  <1> QED
    BY <1>1, Invariance, PTL

-----------------------------------------------------------------------------
(* The table of relays. *)

\* What may become of one relay is a step of the table.
LEMMA OneRelayStep ==
    ASSUME NEW c \in Clients,
           \A d \in Clients \ {c} : RelayOf(d)' = RelayOf(d) /\ ToldOf(d)' = ToldOf(d),
           \/ RelayOf(c)' = RelayOf(c) /\ ToldOf(c)' = ToldOf(c)
           \/ RelayOf(c) = "none" /\ RelayOf(c)' = "asked" /\ ToldOf(c)' = ToldOf(c)
           \/ /\ RelayOf(c) = "asked" /\ RelayOf(c)' \in {"granted", "refused"}
              /\ ToldOf(c)' = ToldOf(c)
           \/ RelayOf(c) = "granted" /\ RelayOf(c)' = "granted" /\ ToldOf(c)' = "granted"
    PROVE  [Table!Next]_(Table!vars)
  <1> DEFINE relay == [d \in Clients |-> RelayOf(d)]
             told == [d \in Clients |-> ToldOf(d)]
  <1> USE DEF Table!Next, Table!vars, Table!Ask, Table!Decide, Table!Tell
  <1>1. /\ relay' = [relay EXCEPT ![c] = RelayOf(c)']
        /\ told' = [told EXCEPT ![c] = ToldOf(c)']
        /\ relay[c] = RelayOf(c) /\ told[c] = ToldOf(c)
    OBVIOUS
  <1>2. RelayOf(c)' = RelayOf(c) => relay' = relay
    BY <1>1
  <1>3. ToldOf(c)' = ToldOf(c) => told' = told
    BY <1>1
  <1> HIDE DEF relay, told
  <1>4. CASE RelayOf(c)' = RelayOf(c) /\ ToldOf(c)' = ToldOf(c)
    BY <1>2, <1>3, <1>4 DEF relay, told
  <1>5. CASE RelayOf(c) = "none" /\ RelayOf(c)' = "asked" /\ ToldOf(c)' = ToldOf(c)
    <2>1. relay[c] = "none" /\ relay' = [relay EXCEPT ![c] = "asked"] /\ told' = told
      BY <1>1, <1>3, <1>5
    <2> QED
      BY <2>1 DEF relay, told
  <1>6. CASE /\ RelayOf(c) = "asked" /\ RelayOf(c)' \in {"granted", "refused"}
             /\ ToldOf(c)' = ToldOf(c)
    <2>1. /\ relay[c] = "asked" /\ told' = told
          /\ \E outcome \in {"granted", "refused"} :
                relay' = [relay EXCEPT ![c] = outcome]
      BY <1>1, <1>3, <1>6
    <2> QED
      BY <2>1 DEF relay, told
  <1>7. CASE RelayOf(c) = "granted" /\ RelayOf(c)' = "granted" /\ ToldOf(c)' = "granted"
    <2>1. relay[c] = "granted" /\ told' = [told EXCEPT ![c] = "granted"] /\ relay' = relay
      BY <1>1, <1>2, <1>7
    <2> QED
      BY <2>1 DEF relay, told
  <1> QED
    BY <1>4, <1>5, <1>6, <1>7

\* No client has a relay, or was told of one, at first.
LEMMA TableInit ==
    ASSUME Init
    PROVE  Table!Init
  <1>1. NoPromise.state = "none"
    BY DEF NoPromise
  <1>2. \A c \in Clients : RelayOf(c) = "none" /\ ToldOf(c) = "nothing"
    BY <1>1 DEF Init, RelayOf, ToldOf, Told
  <1> QED
    BY <1>2 DEF Table!Init

\* A step that leaves allocations, promises and what was told leaves the table.
LEMMA TableSame ==
    ASSUME UNCHANGED allocations_,
           \A c \in Clients :
               /\ promises_'[c].state = "none" <=> promises_[c].state = "none"
               /\ Told(c)' = Told(c)
    PROVE  [Table!Next]_(Table!vars)
  <1>1. \A c \in Clients : RelayOf(c)' = RelayOf(c) /\ ToldOf(c)' = ToldOf(c)
    BY DEF RelayOf, ToldOf
  <1> QED
    BY <1>1 DEF Table!vars

\* A request for a relay: the first asks, later ones may be told.
LEMMA TableRequest ==
    ASSUME IInv, NEW c \in Clients, NEW tid \in Transactions, RequestRelay(c, tid)
    PROVE  [Table!Next]_(Table!vars)
  <1>1. /\ \A d \in Clients \ {c} :
              /\ promises_'[d] = promises_[d] /\ Told(d)' = Told(d)
              /\ waiting'[d] = waiting[d]
        /\ promises_'[c].state = IF promises_[c].state \in {"fulfilled", "rejected"}
                                 THEN promises_[c].state ELSE "pending"
        /\ Told(c) \subseteq Told(c)'
        /\ \A a \in Told(c)' : \/ a \in Told(c)
                               \/ /\ promises_[c].state = "fulfilled"
                                  /\ a.tid = promises_[c].tid
    BY RequestRelayDoes, Zenon
  <1>2. UNCHANGED allocations_
    BY DEF RequestRelay, backendVars
  <1>3. \A d \in Clients \ {c} : RelayOf(d)' = RelayOf(d) /\ ToldOf(d)' = ToldOf(d)
    BY <1>1, <1>2 DEF RelayOf, ToldOf
  <1>4. ToldOf(c)' = ToldOf(c)
    <2>1. promises_[c].state = "fulfilled" => \E a \in Told(c) : a.request = a.tid
      BY DEF IInv, PromiseInv
    <2>2. Told(c)' = {} <=> Told(c) = {}
      BY <1>1, <2>1
    <2> QED
      BY <2>2 DEF ToldOf
  <1>5. \/ RelayOf(c)' = RelayOf(c)
        \/ RelayOf(c) = "none" /\ RelayOf(c)' = "asked"
    <2>1. promises_[c].state = "none" => allocations_[c] = "none"
      BY DEF IInv, AllocationInv
    <2> QED
      BY <1>1, <1>2, <2>1 DEF RelayOf
  <1> QED
    BY <1>3, <1>4, <1>5, OneRelayStep

\* A message from the backend: its client may be told.
LEMMA TableFrontend ==
    ASSUME IInv, FrontendHandles
    PROVE  [Table!Next]_(Table!vars)
  <1>0. PICK c : c = Head(toFrontend).tag
    OBVIOUS
  <1>1. /\ c \in Clients
        /\ UNCHANGED <<asked, toBackend, backendVars>>
        /\ \A d \in Clients \ {c} :
              /\ promises_'[d] = promises_[d] /\ Told(d)' = Told(d)
              /\ waiting'[d] = waiting[d]
        /\ \/ /\ promises_'[c] = promises_[c] /\ Told(c)' = Told(c)
              /\ waiting'[c] = waiting[c]
           \/ /\ promises_[c].state = "pending" /\ promises_'[c].state = "fulfilled"
              /\ allocations_[c] = "bound"
              /\ \E a \in Told(c)' : a.request = a.tid
              /\ \A a \in Told(c)' : a.tid = promises_'[c].tid
           \/ /\ promises_[c].state = "pending" /\ promises_'[c].state = "rejected"
              /\ Told(c)' = {}
    BY <1>0, FrontendHandlesDoes, Zenon
  <1>2. UNCHANGED allocations_
    BY <1>1 DEF backendVars
  <1>3. \A d \in Clients \ {c} : RelayOf(d)' = RelayOf(d) /\ ToldOf(d)' = ToldOf(d)
    BY <1>1, <1>2 DEF RelayOf, ToldOf
  <1>4. RelayOf(c)' = RelayOf(c)
    BY <1>1, <1>2 DEF RelayOf
  <1>5. promises_[c].state = "pending" => Told(c) = {}
    BY <1>1 DEF IInv, PromiseInv
  <1>6. \/ ToldOf(c)' = ToldOf(c)
        \/ RelayOf(c) = "granted" /\ ToldOf(c)' = "granted"
    BY <1>1, <1>5 DEF ToldOf, RelayOf
  <1> QED
    BY <1>1, <1>3, <1>4, <1>6, OneRelayStep

\* A message from the frontend makes the socket of a relay that was asked for.
LEMMA TableBackend ==
    ASSUME IInv, BackendHandles
    PROVE  [Table!Next]_(Table!vars)
  <1>1. UNCHANGED <<promises_, answers>>
    BY DEF BackendHandles, frontendVars
  <1>2. allocations_ \in [Clients -> {"none", "binding", "bound", "failed"}]
    BY DEF IInv, TypeOK
  <1>3. \A d \in Clients :
            \/ allocations_'[d] = allocations_[d]
            \/ /\ allocations_[d] \in {"none", "binding"}
               /\ allocations_'[d] = "binding"
    BY <1>2 DEF BackendHandles, UseAllocation, Settled
  <1>4. \A d \in Clients : allocations_'[d] # "none" => promises_[d].state # "none"
    BY <1>1, BackendHandlesKeeps DEF IInv, AllocationInv
  <1>5. \A d \in Clients : RelayOf(d)' = RelayOf(d)
    BY <1>1, <1>3, <1>4 DEF RelayOf
  <1>6. \A d \in Clients : ToldOf(d)' = ToldOf(d)
    BY <1>1 DEF ToldOf, Told
  <1> QED
    BY <1>5, <1>6 DEF Table!vars

\* bind decides.
LEMMA TableBind ==
    ASSUME IInv, NEW c \in Clients, NEW bound \in BOOLEAN, BindSettles(c, bound)
    PROVE  [Table!Next]_(Table!vars)
  <1>1. /\ allocations_[c] = "binding"
        /\ allocations_' = [allocations_ EXCEPT ![c] = IF bound THEN "bound" ELSE "failed"]
        /\ UNCHANGED <<promises_, answers>>
    BY DEF BindSettles, frontendVars
  <1>2. allocations_ \in [Clients -> {"none", "binding", "bound", "failed"}]
    BY DEF IInv, TypeOK
  <1>3. promises_[c].state # "none"
    BY <1>1 DEF IInv, AllocationInv
  <1>4. RelayOf(c) = "asked" /\ RelayOf(c)' \in {"granted", "refused"}
    BY <1>1, <1>2, <1>3 DEF RelayOf
  <1>5. \A d \in Clients \ {c} : RelayOf(d)' = RelayOf(d)
    BY <1>1, <1>2 DEF RelayOf
  <1>6. \A d \in Clients : ToldOf(d)' = ToldOf(d)
    BY <1>1 DEF ToldOf, Told
  <1> QED
    BY <1>4, <1>5, <1>6, OneRelayStep

\* What is answered at once is nothing that a client is told of its relay.
LEMMA TableAnswer ==
    ASSUME IInv, NEW c \in Clients, NEW tid \in Transactions, AnswerAtOnce(c, tid)
    PROVE  [Table!Next]_(Table!vars)
  <1>1. PICK method \in {"CREATE_PERMISSION", "REFRESH", "ALLOCATE"} :
            answers' = [answers EXCEPT ![c] =
                @ \cup {Answer(method, method # "ALLOCATE", tid, tid, 1)}]
    BY DEF AnswerAtOnce
  <1>2. PICK a : a = Answer(method, method # "ALLOCATE", tid, tid, 1)
    OBVIOUS
  <1>3. a \in Answers /\ ~ (a.method = "ALLOCATE" /\ a.ok)
    <2>1. /\ method \in {"CREATE_PERMISSION", "REFRESH", "ALLOCATE", "DATA"}
          /\ tid \in Ids /\ 1 \in Nat /\ (method # "ALLOCATE") \in BOOLEAN
      BY DEF Ids
    <2>2. a.method = method /\ a.ok = (method # "ALLOCATE")
      BY <1>2, Zenon DEF Answer
    <2>3. a \in Answers
      BY <1>2, <2>1, Zenon DEF Answer, Answers
    <2> QED
      BY <2>2, <2>3
  <1>4. TypeOK /\ {a} \in SUBSET Answers
        /\ answers' = [answers EXCEPT ![c] = @ \cup {a}]
    BY <1>1, <1>2, <1>3 DEF IInv
  <1>5. \A d \in Clients : \A x :
            x \in Told(d)' <=>
                \/ x \in Told(d)
                \/ d = c /\ x \in {a} /\ x.method = "ALLOCATE" /\ x.ok
    BY <1>4, MoreTold, Zenon
  <1>6. \A d \in Clients : \A x : x \in Told(d)' <=> x \in Told(d)
    BY <1>3, <1>5, Zenon
  <1>7. \A d \in Clients : Told(d)' = Told(d)
    BY <1>6
  <1>8. UNCHANGED <<allocations_, promises_>>
    BY DEF AnswerAtOnce, backendVars
  <1> QED
    BY <1>7, <1>8, TableSame

\* Frontend and backend together implement the table of relays: every step of
\* theirs is a step of the table, or none.
THEOREM TableIsImplemented == Spec => ImplementsTable
  <1>1. Init => Table!Init
    BY TableInit
  <1>2. IInv /\ [Next]_vars => [Table!Next]_(Table!vars)
    <2> SUFFICES ASSUME IInv, [Next]_vars
                 PROVE  [Table!Next]_(Table!vars)
      OBVIOUS
    <2>1. ASSUME UNCHANGED <<allocations_, promises_, answers>>
          PROVE  [Table!Next]_(Table!vars)
      BY <2>1, TableSame DEF Told
    <2>2. ASSUME NEW c \in Clients, Settles(c)
          PROVE  [Table!Next]_(Table!vars)
      <3>1. ASSUME NEW i \in DOMAIN infos[c], NEW ok \in BOOLEAN, InfoSettles(c, i, ok)
            PROVE  [Table!Next]_(Table!vars)
        BY <2>1, <3>1 DEF InfoSettles, frontendVars
      <3> QED
        BY <2>2, <3>1, TableBind DEF Settles
    <2>3. ASSUME NEW c \in Clients, SocketData(c)
          PROVE  [Table!Next]_(Table!vars)
      BY <2>1, <2>3 DEF SocketData, frontendVars
    <2>4. ASSUME NEW c \in Clients, SendIndication(c)
          PROVE  [Table!Next]_(Table!vars)
      BY <2>1, <2>4 DEF SendIndication, backendVars
    <2>5. CASE UNCHANGED vars
      BY <2>1, <2>5 DEF vars, frontendVars, backendVars
    <2> QED
      BY <2>2, <2>3, <2>4, <2>5, TableFrontend, TableBackend, TableAnswer,
         TableRequest DEF Next
  <1> QED
    BY <1>1, <1>2, Invariance, PTL DEF Spec, ImplementsTable, Table!Spec

-----------------------------------------------------------------------------
(* The order of what is sent. *)

\* m is a SEND of c.
Sends(m, c) == m.method = "SEND" /\ m.tag = c

\* The SENDs of c stand in one line: those that left as left, those that wait
\* for the socket as wait, those on their way to the backend in sent, all taken
\* by the frontend among the first n datagrams of c, and numbered by that.
InLine(left, wait, sent, c, n) ==
    /\ \A i \in 1 .. Len(left) : left[i] \in 1 .. n
    /\ \A i \in 1 .. Len(wait) : wait[i].tid \in 1 .. n
    /\ \A i \in 1 .. Len(sent) : Sends(sent[i], c) => sent[i].tid \in 1 .. n
    /\ \A i, j \in 1 .. Len(left) : i < j => left[i] < left[j]
    /\ \A i, j \in 1 .. Len(wait) : i < j => wait[i].tid < wait[j].tid
    /\ \A i, j \in 1 .. Len(sent) :
          i < j /\ Sends(sent[i], c) /\ Sends(sent[j], c) =>
              sent[i].tid < sent[j].tid
    /\ \A i \in 1 .. Len(left), j \in 1 .. Len(wait) : left[i] < wait[j].tid
    /\ \A i \in 1 .. Len(left), j \in 1 .. Len(sent) :
          Sends(sent[j], c) => left[i] < sent[j].tid
    /\ \A i \in 1 .. Len(wait), j \in 1 .. Len(sent) :
          Sends(sent[j], c) => wait[i].tid < sent[j].tid

\* SENDs stand in line, and none waits for a socket that is settled.
SendsInv ==
    \A c \in Clients :
        /\ InLine(relayed[c], afterBind[c].sends, toBackend, c, asked[c])
        /\ Settled(c) => afterBind[c].sends = <<>>

\* The frontend takes another datagram, which may go to the back of the line.
LEMMA LineJoined ==
    ASSUME NEW left \in Seq(Ids), NEW wait \in Seq(Messages),
           NEW sent \in Seq(Messages), NEW c, NEW n \in Nat,
           NEW m \in Messages, NEW k \in Nat, n <= k,
           InLine(left, wait, sent, c, n),
           Sends(m, c) => m.tid = k /\ n < k
    PROVE  InLine(left, wait, Append(sent, m), c, k)
<1>1. PICK s : s = Append(sent, m)
  OBVIOUS
<1>2. /\ Len(sent) \in Nat /\ Len(s) = Len(sent) + 1
      /\ \A i \in 1 .. Len(sent) : s[i] = sent[i]
      /\ s[Len(sent) + 1] = m
  BY <1>1
<1>3. PICK l \in Nat : l = Len(sent)
  BY <1>2
<1>4. /\ Len(s) = l + 1
      /\ \A i \in 1 .. l : s[i] = sent[i]
      /\ s[l + 1] = m
  BY <1>2, <1>3
<1>5. \A i \in 1 .. l + 1 : i \in 1 .. l \/ i = l + 1
  OBVIOUS
<1>6. /\ \A i \in 1 .. Len(left) : left[i] \in 1 .. n
      /\ \A i \in 1 .. Len(wait) : wait[i].tid \in 1 .. n
      /\ \A i \in 1 .. l : Sends(sent[i], c) => sent[i].tid \in 1 .. n
      /\ \A i, j \in 1 .. Len(left) : i < j => left[i] < left[j]
      /\ \A i, j \in 1 .. Len(wait) : i < j => wait[i].tid < wait[j].tid
      /\ \A i, j \in 1 .. l :
            i < j /\ Sends(sent[i], c) /\ Sends(sent[j], c) =>
                sent[i].tid < sent[j].tid
      /\ \A i \in 1 .. Len(left), j \in 1 .. Len(wait) : left[i] < wait[j].tid
      /\ \A i \in 1 .. Len(left), j \in 1 .. l :
            Sends(sent[j], c) => left[i] < sent[j].tid
      /\ \A i \in 1 .. Len(wait), j \in 1 .. l :
            Sends(sent[j], c) => wait[i].tid < sent[j].tid
  BY <1>3 DEF InLine
<1>14. Sends(m, c) => m.tid = k /\ \A x \in 1 .. n : x < k
  OBVIOUS
<1>7. /\ \A i \in 1 .. Len(left) : left[i] \in 1 .. k
      /\ \A i \in 1 .. Len(wait) : wait[i].tid \in 1 .. k
  BY <1>6
<1>8. \A i \in 1 .. l + 1 : Sends(s[i], c) => s[i].tid \in 1 .. k
  BY <1>4, <1>5, <1>6
<1>9. ASSUME NEW i \in 1 .. l + 1, NEW j \in 1 .. l + 1,
             i < j, Sends(s[i], c), Sends(s[j], c)
      PROVE  s[i].tid < s[j].tid
  <2>1. i \in 1 .. l
    BY <1>5, <1>9
  <2>2. CASE j \in 1 .. l
    BY <1>4, <1>6, <1>9, <2>1, <2>2
  <2>3. CASE j = l + 1
    <3>1. s[j] = m /\ Sends(m, c) /\ s[i] = sent[i] /\ Sends(sent[i], c)
      BY <1>4, <1>9, <2>1, <2>3
    <3>2. sent[i].tid \in 1 .. n
      BY <1>6, <2>1, <3>1
    <3>3. QED
      BY <1>14, <3>1, <3>2
  <2>4. QED
    BY <1>5, <2>2, <2>3
<1>10. \A i \in 1 .. Len(left), j \in 1 .. l + 1 :
          Sends(s[j], c) => left[i] < s[j].tid
  <2>1. \A i \in 1 .. Len(left) : Sends(m, c) => left[i] < m.tid
    BY <1>6, <1>14
  <2>2. QED
    BY <1>4, <1>5, <1>6, <2>1
<1>11. \A i \in 1 .. Len(wait), j \in 1 .. l + 1 :
          Sends(s[j], c) => wait[i].tid < s[j].tid
  <2>1. \A i \in 1 .. Len(wait) : Sends(m, c) => wait[i].tid < m.tid
    BY <1>6, <1>14
  <2>2. QED
    BY <1>4, <1>5, <1>6, <2>1
<1>12. InLine(left, wait, s, c, k)
  BY <1>4, <1>6, <1>7, <1>8, <1>9, <1>10, <1>11 DEF InLine
<1>13. QED
  BY <1>1, <1>12

\* The frontend takes a datagram that it does not pass on.
LEMMA LineAsked ==
    ASSUME NEW left, NEW wait, NEW sent, NEW c, NEW n \in Nat, NEW k \in Nat,
           n <= k, InLine(left, wait, sent, c, n)
    PROVE  InLine(left, wait, sent, c, k)
<1>1. \A x : x \in 1 .. n => x \in 1 .. k
  OBVIOUS
<1>2. QED
  BY <1>1 DEF InLine

\* The backend takes the message in front, and it is lost.
LEMMA LineLost ==
    ASSUME NEW left, NEW wait, NEW sent \in Seq(Messages), sent # <<>>,
           NEW c, NEW n \in Nat, InLine(left, wait, sent, c, n)
    PROVE  InLine(left, wait, Tail(sent), c, n)
<1>1. PICK s : s = Tail(sent)
  OBVIOUS
<1>2. PICK l \in Nat : l = Len(s)
  BY <1>1
<1>3. /\ Len(sent) = l + 1
      /\ \A i \in 1 .. l : s[i] = sent[i + 1]
  BY <1>1, <1>2
<1>4. \A i \in 1 .. l : i + 1 \in 1 .. l + 1
  OBVIOUS
<1>5. \A i, j \in 1 .. l : i < j => i + 1 < j + 1
  OBVIOUS
<1>6. InLine(left, wait, s, c, n)
  BY <1>2, <1>3, <1>4, <1>5 DEF InLine
<1>7. QED
  BY <1>1, <1>6

\* It waits for the socket.
LEMMA LineWaits ==
    ASSUME NEW left, NEW wait \in Seq(Messages), NEW sent \in Seq(Messages),
           sent # <<>>, NEW c, NEW n \in Nat,
           InLine(left, wait, sent, c, n), Sends(Head(sent), c)
    PROVE  InLine(left, Append(wait, Head(sent)), Tail(sent), c, n)
<1>1. PICK s, m : s = Tail(sent) /\ m = Head(sent)
  OBVIOUS
<1>2. PICK l \in Nat : l = Len(s)
  BY <1>1
<1>3. /\ Len(sent) = l + 1
      /\ \A i \in 1 .. l : s[i] = sent[i + 1]
      /\ m = sent[1]
      /\ m \in Messages
  BY <1>1, <1>2
<1>4. PICK w : w = Append(wait, m)
  OBVIOUS
<1>5. PICK k \in Nat : k = Len(wait)
  OBVIOUS
<1>6. /\ Len(w) = k + 1
      /\ \A i \in 1 .. k : w[i] = wait[i]
      /\ w[k + 1] = m
  BY <1>3, <1>4, <1>5
<1>7. /\ \A i \in 1 .. k + 1 : i \in 1 .. k \/ i = k + 1
      /\ \A i \in 1 .. l : i + 1 \in 1 .. l + 1 /\ 1 < i + 1
      /\ 1 \in 1 .. l + 1
  OBVIOUS
<1>8. Sends(m, c)
  BY <1>1
<1>9. InLine(left, wait, s, c, n)
  BY <1>1, LineLost
<1>10. /\ m.tid \in 1 .. n
       /\ \A i \in 1 .. k : wait[i].tid < m.tid
       /\ \A i \in 1 .. Len(left) : left[i] < m.tid
       /\ \A j \in 1 .. l : Sends(s[j], c) => m.tid < s[j].tid
  <2>1. Len(wait) = k /\ Len(sent) = l + 1
    BY <1>3, <1>5
  <2>2. /\ 1 \in 1 .. l + 1
        /\ m = sent[1]
        /\ \A i \in 1 .. l : s[i] = sent[i + 1]
    BY <1>3, <1>7
  <2>3. QED
    BY <1>7, <1>8, <2>1, <2>2 DEF InLine
<1>11. /\ \A i \in 1 .. Len(left) : left[i] \in 1 .. n
       /\ \A i \in 1 .. k : wait[i].tid \in 1 .. n
       /\ \A i \in 1 .. l : Sends(s[i], c) => s[i].tid \in 1 .. n
       /\ \A i, j \in 1 .. Len(left) : i < j => left[i] < left[j]
       /\ \A i, j \in 1 .. k : i < j => wait[i].tid < wait[j].tid
       /\ \A i, j \in 1 .. l :
             i < j /\ Sends(s[i], c) /\ Sends(s[j], c) => s[i].tid < s[j].tid
       /\ \A i \in 1 .. Len(left), j \in 1 .. k : left[i] < wait[j].tid
       /\ \A i \in 1 .. Len(left), j \in 1 .. l :
             Sends(s[j], c) => left[i] < s[j].tid
       /\ \A i \in 1 .. k, j \in 1 .. l :
             Sends(s[j], c) => wait[i].tid < s[j].tid
  BY <1>2, <1>5, <1>9 DEF InLine
<1>12. \A i \in 1 .. k + 1 : w[i].tid \in 1 .. n
  BY <1>6, <1>7, <1>10, <1>11
<1>13. ASSUME NEW i \in 1 .. k + 1, NEW j \in 1 .. k + 1, i < j
       PROVE  w[i].tid < w[j].tid
  <2>1. i \in 1 .. k
    BY <1>13
  <2>2. CASE j \in 1 .. k
    BY <1>6, <1>11, <1>13, <2>1, <2>2
  <2>3. CASE j = k + 1
    BY <1>6, <1>10, <2>1, <2>3
  <2>4. QED
    BY <1>7, <2>2, <2>3
<1>14. \A i \in 1 .. Len(left), j \in 1 .. k + 1 : left[i] < w[j].tid
  BY <1>6, <1>7, <1>10, <1>11
<1>15. \A i \in 1 .. k + 1, j \in 1 .. l :
          Sends(s[j], c) => w[i].tid < s[j].tid
  BY <1>6, <1>7, <1>10, <1>11
<1>16. InLine(left, w, s, c, n)
  BY <1>2, <1>6, <1>11, <1>12, <1>13, <1>14, <1>15 DEF InLine
<1>17. QED
  BY <1>1, <1>4, <1>16

\* What waits leaves together.
LEMMA LineLeaves ==
    ASSUME NEW left \in Seq(Ids), NEW wait \in Seq(Messages),
           NEW sent, NEW c, NEW n \in Nat, InLine(left, wait, sent, c, n)
    PROVE  InLine(left \o [i \in DOMAIN wait |-> wait[i].tid], <<>>, sent, c, n)
<1>1. PICK t : t = [i \in DOMAIN wait |-> wait[i].tid]
  OBVIOUS
<1>2. /\ t \in Seq(Ids)
      /\ Len(t) = Len(wait)
      /\ \A i \in 1 .. Len(wait) : t[i] = wait[i].tid
  <2>1. /\ Len(wait) \in Nat
        /\ DOMAIN wait = 1 .. Len(wait)
        /\ \A i \in 1 .. Len(wait) : wait[i] \in Messages
    OBVIOUS
  <2>2. \A i \in 1 .. Len(wait) : wait[i].tid \in Ids
    BY <2>1 DEF Messages
  <2>3. t = [i \in 1 .. Len(wait) |-> wait[i].tid]
    BY <1>1, <2>1
  <2>4. QED
    BY <2>1, <2>2, <2>3
<1>3. PICK a \in Nat, b \in Nat : a = Len(left) /\ b = Len(wait)
  OBVIOUS
<1>4. PICK r : r = left \o t
  OBVIOUS
<1>5. /\ Len(r) = a + b
      /\ \A i \in 1 .. a : r[i] = left[i]
      /\ \A i \in 1 .. a + b : i > a => r[i] = t[i - a]
  <2>1. Len(left) = a /\ Len(t) = b
    BY <1>2, <1>3
  <2>2. /\ Len(r) = Len(left) + Len(t)
        /\ \A i \in 1 .. Len(left) + Len(t) :
              r[i] = IF i <= Len(left) THEN left[i] ELSE t[i - Len(left)]
    <3>1. t \in Seq(Ids)
      BY <1>2
    <3>2. QED
      BY <1>4, <3>1, ConcatProperties
  <2>3. QED
    BY <2>1, <2>2
<1>6. \A i \in 1 .. a + b :
         \/ i \in 1 .. a
         \/ i > a /\ i - a \in 1 .. b
  OBVIOUS
<1>7. \A i \in 1 .. a + b : i > a => r[i] = wait[i - a].tid
  BY <1>2, <1>3, <1>5, <1>6
<1>8. /\ \A i \in 1 .. a : left[i] \in 1 .. n
      /\ \A i \in 1 .. b : wait[i].tid \in 1 .. n
      /\ \A i \in 1 .. Len(sent) : Sends(sent[i], c) => sent[i].tid \in 1 .. n
      /\ \A i, j \in 1 .. a : i < j => left[i] < left[j]
      /\ \A i, j \in 1 .. b : i < j => wait[i].tid < wait[j].tid
      /\ \A i, j \in 1 .. Len(sent) :
            i < j /\ Sends(sent[i], c) /\ Sends(sent[j], c) =>
                sent[i].tid < sent[j].tid
      /\ \A i \in 1 .. a, j \in 1 .. b : left[i] < wait[j].tid
      /\ \A i \in 1 .. a, j \in 1 .. Len(sent) :
            Sends(sent[j], c) => left[i] < sent[j].tid
      /\ \A i \in 1 .. b, j \in 1 .. Len(sent) :
            Sends(sent[j], c) => wait[i].tid < sent[j].tid
  BY <1>3 DEF InLine
<1>9. \A i \in 1 .. a + b : r[i] \in 1 .. n
  BY <1>5, <1>6, <1>7, <1>8
<1>10. ASSUME NEW i \in 1 .. a + b, NEW j \in 1 .. a + b, i < j
       PROVE  r[i] < r[j]
  <2>1. CASE i \in 1 .. a /\ j \in 1 .. a
    BY <1>5, <1>8, <1>10, <2>1
  <2>2. CASE i \in 1 .. a /\ j > a
    <3>1. j - a \in 1 .. b
      BY <1>6, <2>2
    <3>2. QED
      BY <1>5, <1>7, <1>8, <2>2, <3>1
  <2>3. CASE i > a /\ j > a
    <3>1. i - a \in 1 .. b /\ j - a \in 1 .. b /\ i - a < j - a
      BY <1>10, <2>3
    <3>2. QED
      BY <1>7, <1>8, <2>3, <3>1
  <2>4. QED
    BY <1>6, <1>10, <2>1, <2>2, <2>3
<1>11. \A i \in 1 .. a + b, j \in 1 .. Len(sent) :
          Sends(sent[j], c) => r[i] < sent[j].tid
  <2> SUFFICES ASSUME NEW i \in 1 .. a + b, NEW j \in 1 .. Len(sent),
                      Sends(sent[j], c)
               PROVE  r[i] < sent[j].tid
    OBVIOUS
  <2>1. CASE i \in 1 .. a
    BY <1>5, <1>8, <2>1
  <2>2. CASE i > a /\ i - a \in 1 .. b
    BY <1>7, <1>8, <2>2
  <2>3. QED
    BY <1>6, <2>1, <2>2
<1>12. InLine(r, <<>>, sent, c, n)
  <2>1. Len(r) = a + b
    BY <1>5
  <2>2. \A i : i \notin 1 .. Len(<<>>)
    OBVIOUS
  <2>3. QED
    BY <1>8, <1>9, <1>10, <1>11, <2>1, <2>2 DEF InLine
<1>13. QED
  BY <1>1, <1>4, <1>12

\* What waits is lost.
LEMMA LineRefused ==
    ASSUME NEW left, NEW wait, NEW sent, NEW c, NEW n \in Nat,
           InLine(left, wait, sent, c, n)
    PROVE  InLine(left, <<>>, sent, c, n)
<1>1. \A i : i \notin 1 .. Len(<<>>)
  OBVIOUS
<1>2. QED
  BY <1>1 DEF InLine

\* Init: nothing was taken.
LEMMA InitSends == Init => SendsInv
<1> SUFFICES ASSUME Init, NEW c \in Clients
             PROVE  /\ InLine(relayed[c], afterBind[c].sends, toBackend, c,
                              asked[c])
                    /\ Settled(c) => afterBind[c].sends = <<>>
  BY DEF SendsInv
<1>1. /\ relayed[c] = <<>> /\ afterBind[c].sends = <<>> /\ toBackend = <<>>
  BY DEF Init, NoRequests
<1>2. \A i : i \notin 1 .. Len(<<>>)
  OBVIOUS
<1>3. QED
  BY <1>1, <1>2 DEF InLine

\* The types SendsInv depends on.
LEMMA LineTypes ==
    ASSUME IInv, NEW c \in Clients
    PROVE  /\ relayed[c] \in Seq(Ids)
           /\ afterBind[c].sends \in Seq(Messages)
           /\ afterBind[c].allocates \in Seq(Ids)
           /\ toBackend \in Seq(Messages)
           /\ asked[c] \in Nat
<1>1. afterBind[c] \in [allocates : Seq(Ids), sends : Seq(Messages)]
  BY DEF IInv, TypeOK
<1>2. QED
  BY <1>1 DEF IInv, TypeOK

\* A datagram of c that goes to the backend as m.
LEMMA AskedKeepsOrder ==
    ASSUME IInv, SendsInv, NEW c \in Clients, Asks(c), NEW m \in Messages,
           m.tag = c, m.method = "SEND" => m.tid = asked'[c],
           toBackend' = Append(toBackend, m),
           UNCHANGED <<relayed, afterBind, allocations_>>
    PROVE  SendsInv'
<1> SUFFICES ASSUME NEW d \in Clients
             PROVE  /\ InLine(relayed[d], afterBind[d].sends, toBackend', d,
                              asked'[d])
                    /\ Settled(d) => afterBind[d].sends = <<>>
  BY DEF SendsInv, Settled
<1>1. /\ relayed[d] \in Seq(Ids)
      /\ afterBind[d].sends \in Seq(Messages)
      /\ toBackend \in Seq(Messages)
      /\ asked[d] \in Nat
  BY LineTypes
<1>2. /\ asked'[d] = IF d = c THEN asked[d] + 1 ELSE asked[d]
  BY DEF Asks, IInv, TypeOK
<1>3. /\ InLine(relayed[d], afterBind[d].sends, toBackend, d, asked[d])
      /\ Settled(d) => afterBind[d].sends = <<>>
  BY DEF SendsInv
<1>4. Sends(m, d) => m.tid = asked'[d] /\ asked[d] < asked'[d]
  BY <1>1, <1>2 DEF Sends
<1>5. asked'[d] \in Nat /\ asked[d] <= asked'[d]
  BY <1>1, <1>2
<1>6. InLine(relayed[d], afterBind[d].sends, Append(toBackend, m), d,
             asked'[d])
  BY <1>1, <1>3, <1>4, <1>5, LineJoined
<1>7. QED
  BY <1>3, <1>6

\* The frontend's actions: those that ask, and the rest, which touch nothing
\* of the line.
LEMMA FrontendKeepsOrder ==
    ASSUME IInv, SendsInv, NEW c \in Clients,
           \/ SendIndication(c)
           \/ \E tid \in Transactions :
                 RequestRelay(c, tid) \/ AnswerAtOnce(c, tid)
    PROVE  SendsInv'
<1>1. CASE SendIndication(c)
  <2>1. PICK m : m = Ipc("SEND", c, asked'[c], promises_[c].state # "none")
    OBVIOUS
  <2>2. /\ m.method = "SEND" /\ m.tag = c /\ m.tid = asked'[c]
    BY <2>1, Zenon DEF Ipc
  <2>3. m \in Messages
    <3>1. asked'[c] \in Ids
      BY <1>1 DEF SendIndication, Asks, IInv, TypeOK, Ids
    <3>2. QED
      BY <2>1, <3>1, Zenon DEF Ipc, Messages
  <2>4. /\ Asks(c)
        /\ toBackend' = Append(toBackend, m)
        /\ UNCHANGED <<relayed, afterBind, allocations_>>
    BY <1>1, <2>1 DEF SendIndication, backendVars
  <2>5. QED
    BY <2>2, <2>3, <2>4, AskedKeepsOrder
<1>2. ASSUME NEW tid \in Transactions, RequestRelay(c, tid)
      PROVE  SendsInv'
  <2>1. PICK m : m = Ipc("ALLOCATE", c, tid, TRUE)
    OBVIOUS
  <2>2. m.method # "SEND" /\ m.tag = c
    BY <2>1 DEF Ipc
  <2>3. m \in Messages
    BY <2>1 DEF Ipc, Messages, Ids
  <2>4. /\ Asks(c)
        /\ toBackend' = Append(toBackend, m)
        /\ UNCHANGED <<relayed, afterBind, allocations_>>
    BY <1>2, <2>1 DEF RequestRelay, backendVars
  <2>5. QED
    BY <2>2, <2>3, <2>4, AskedKeepsOrder
<1>3. ASSUME NEW tid \in Transactions, AnswerAtOnce(c, tid)
      PROVE  SendsInv'
  <2>1. /\ Asks(c)
        /\ UNCHANGED <<relayed, afterBind, allocations_, toBackend>>
    BY <1>3 DEF AnswerAtOnce, backendVars
  <2> SUFFICES ASSUME NEW d \in Clients
               PROVE  /\ InLine(relayed[d], afterBind[d].sends, toBackend, d,
                                asked'[d])
                      /\ Settled(d) => afterBind[d].sends = <<>>
    BY <2>1 DEF SendsInv, Settled
  <2>2. asked[d] \in Nat
    BY LineTypes
  <2>3. asked'[d] = IF d = c THEN asked[d] + 1 ELSE asked[d]
    BY <2>1 DEF Asks, IInv, TypeOK
  <2>4. /\ InLine(relayed[d], afterBind[d].sends, toBackend, d, asked[d])
        /\ Settled(d) => afterBind[d].sends = <<>>
    BY DEF SendsInv
  <2>5. asked'[d] \in Nat /\ asked[d] <= asked'[d]
    BY <2>2, <2>3
  <2>6. QED
    BY <2>2, <2>4, <2>5, LineAsked
<1>4. QED
  BY <1>1, <1>2, <1>3

\* handleIpc of the backend takes the message in front: it leaves when the
\* socket is bound, waits while it binds, and is lost otherwise.
LEMMA BackendKeepsOrder ==
    ASSUME IInv, SendsInv, BackendHandles
    PROVE  SendsInv'
<1>1. /\ toBackend # <<>>
      /\ toBackend' = Tail(toBackend)
      /\ UNCHANGED asked
      /\ toBackend \in Seq(Messages)
  BY DEF BackendHandles, frontendVars, IInv, TypeOK
<1>2. PICK m : m = Head(toBackend)
  OBVIOUS
<1>3. m \in Messages /\ m \in ToSet(toBackend)
  BY <1>1, <1>2, TailElements
<1>4. /\ m.tag \in Clients
      /\ m.method \in {"ALLOCATE", "SEND"}
      /\ m.tid \in Ids
  BY <1>3 DEF Messages, IInv, MessagesInv
<1>5. /\ relayed \in [Clients -> Seq(Ids)]
      /\ afterBind \in [Clients ->
             [allocates : Seq(Ids), sends : Seq(Messages)]]
      /\ allocations_ \in [Clients -> {"none", "binding", "bound", "failed"}]
  BY DEF IInv, TypeOK
\* what becomes of the line of d
<1> DEFINE Kept(d) ==
             /\ InLine(relayed'[d], afterBind'[d].sends, toBackend', d,
                       asked[d])
             /\ Settled(d)' => afterBind'[d].sends = <<>>
<1> SUFFICES ASSUME NEW d \in Clients
             PROVE  Kept(d)
  BY <1>1 DEF SendsInv
<1>6. /\ InLine(relayed[d], afterBind[d].sends, toBackend, d, asked[d])
      /\ Settled(d) => afterBind[d].sends = <<>>
  BY DEF SendsInv
<1>7. /\ relayed[d] \in Seq(Ids)
      /\ afterBind[d].sends \in Seq(Messages)
      /\ asked[d] \in Nat
  BY LineTypes
<1>8. InLine(relayed[d], afterBind[d].sends, toBackend', d, asked[d])
  BY <1>1, <1>6, <1>7, LineLost
<1>9. ASSUME relayed'[d] = relayed[d],
             afterBind'[d].sends = afterBind[d].sends,
             Settled(d)' <=> Settled(d)
      PROVE  Kept(d)
  BY <1>6, <1>8, <1>9
<1>10. CASE Refuses(m)
  <2>1. UNCHANGED <<relayed, afterBind, allocations_>>
    BY <1>2, <1>10 DEF BackendHandles
  <2>2. QED
    BY <1>9, <2>1 DEF Settled
<1>11. CASE ~ Refuses(m) /\ Settled(m.tag)
  <2>1. PICK r : r = WithRequest(NoRequests, m)
    OBVIOUS
  <2>2. /\ Resume(m.tag, r, allocations_[m.tag] = "bound")
        /\ UNCHANGED <<allocations_, afterBind>>
    BY <1>2, <1>11, <2>1 DEF BackendHandles, UseAllocation
  <2>3. r.sends = IF m.method = "ALLOCATE" THEN <<>> ELSE <<m>>
    <3>1. NoRequests.sends = <<>>
      BY DEF NoRequests
    <3>2. Append(<<>>, m) = <<m>>
      OBVIOUS
    <3>3. QED
      BY <2>1, <3>1, <3>2 DEF WithRequest, NoRequests
  <2>4. PICK t : t = [i \in DOMAIN r.sends |-> r.sends[i].tid]
    OBVIOUS
  <2>5. \/ UNCHANGED relayed
        \/ relayed' = [relayed EXCEPT ![m.tag] = @ \o t]
    BY <2>2, <2>4 DEF Resume
  <2>6. CASE UNCHANGED relayed
    BY <1>9, <2>2, <2>6 DEF Settled
  <2>7. CASE relayed' = [relayed EXCEPT ![m.tag] = @ \o t] /\ d # m.tag
    <3>1. relayed'[d] = relayed[d]
      BY <1>5, <2>7
    <3>2. QED
      BY <1>9, <2>2, <3>1 DEF Settled
  <2>8. CASE /\ relayed' = [relayed EXCEPT ![m.tag] = @ \o t]
             /\ d = m.tag /\ m.method = "ALLOCATE"
    <3>1. r.sends = <<>>
      BY <2>3, <2>8
    <3>2. t = <<>>
      BY <2>4, <3>1
    <3>3. relayed[d] \o <<>> = relayed[d]
      BY <1>7
    <3>4. relayed'[d] = relayed[d]
      BY <1>5, <2>8, <3>2, <3>3
    <3>5. QED
      BY <1>9, <2>2, <3>4 DEF Settled
  <2>9. CASE /\ relayed' = [relayed EXCEPT ![m.tag] = @ \o t]
             /\ d = m.tag /\ m.method = "SEND"
    <3>1. r.sends = <<m>>
      BY <2>3, <2>9
    <3>2. afterBind[d].sends = <<>>
      BY <1>6, <1>11, <2>9
    <3>3. /\ Sends(m, d)
          /\ <<>> \in Seq(Messages)
          /\ InLine(relayed[d], <<>>, toBackend, d, asked[d])
      BY <1>6, <2>9, <3>2 DEF Sends
    <3>4. InLine(relayed[d], Append(<<>>, m), toBackend', d, asked[d])
      BY <1>1, <1>2, <1>7, <3>3, LineWaits
    <3>5. PICK w : w = <<m>>
      OBVIOUS
    <3>6. w \in Seq(Messages)
      <4>1. m \in Messages
        BY <1>3
      <4>2. QED
        BY <3>5, <4>1
    <3>7. Append(<<>>, m) = <<m>>
      OBVIOUS
    <3>8. /\ InLine(relayed[d], w, toBackend', d, asked[d])
          /\ t = [i \in DOMAIN w |-> w[i].tid]
      BY <2>4, <3>1, <3>4, <3>5, <3>7
    <3>9. InLine(relayed[d] \o t, <<>>, toBackend', d, asked[d])
      BY <1>7, <3>8, <3>6, LineLeaves
    <3>10. relayed'[d] = relayed[d] \o t
      BY <1>5, <2>9
    <3>11. afterBind'[d].sends = <<>>
      BY <2>2, <3>2
    <3>12. QED
      BY <3>9, <3>10, <3>11
  <2>10. QED
    BY <1>4, <2>5, <2>6, <2>7, <2>8, <2>9
<1>12. CASE ~ Refuses(m) /\ ~ Settled(m.tag)
  <2>1. /\ allocations_' = [allocations_ EXCEPT ![m.tag] = "binding"]
        /\ afterBind' = [afterBind EXCEPT ![m.tag] = WithRequest(@, m)]
        /\ UNCHANGED relayed
    BY <1>2, <1>12 DEF BackendHandles, UseAllocation
  <2>2. CASE d # m.tag
    <3>1. afterBind'[d] = afterBind[d] /\ allocations_'[d] = allocations_[d]
      BY <1>5, <2>1, <2>2
    <3>2. QED
      BY <1>9, <2>1, <3>1 DEF Settled
  <2>3. CASE d = m.tag
    <3>1. ~ Settled(d)'
      BY <1>4, <1>5, <2>1, <2>3 DEF Settled
    <3>2. afterBind'[d] = WithRequest(afterBind[d], m)
      BY <1>5, <2>1, <2>3
    <3>3. afterBind[d] \in [allocates : Seq(Ids), sends : Seq(Messages)]
      BY <1>5
    <3>4. CASE m.method = "ALLOCATE"
      <4>1. afterBind'[d].sends = afterBind[d].sends
        BY <3>2, <3>3, <3>4 DEF WithRequest
      <4>2. QED
        BY <1>8, <2>1, <3>1, <4>1
    <3>5. CASE m.method = "SEND"
      <4>1. afterBind'[d].sends = Append(afterBind[d].sends, m)
        BY <3>2, <3>3, <3>5 DEF WithRequest
      <4>2. Sends(m, d)
        BY <2>3, <3>5 DEF Sends
      <4>3. InLine(relayed[d], Append(afterBind[d].sends, m), toBackend', d,
                   asked[d])
        BY <1>1, <1>2, <1>6, <1>7, <4>2, LineWaits
      <4>4. QED
        BY <2>1, <3>1, <4>1, <4>3
    <3>6. QED
      BY <1>4, <3>4, <3>5
  <2>4. QED
    BY <2>2, <2>3
<1>13. QED
  BY <1>10, <1>11, <1>12

\* bind: what waits leaves together, or is lost.
LEMMA BindKeepsOrder ==
    ASSUME IInv, SendsInv, NEW c \in Clients, NEW bound \in BOOLEAN,
           BindSettles(c, bound)
    PROVE  SendsInv'
<1>1. /\ relayed \in [Clients -> Seq(Ids)]
      /\ afterBind \in [Clients ->
             [allocates : Seq(Ids), sends : Seq(Messages)]]
      /\ allocations_ \in [Clients -> {"none", "binding", "bound", "failed"}]
  BY DEF IInv, TypeOK
<1>2. /\ allocations_' = [allocations_ EXCEPT
                             ![c] = IF bound THEN "bound" ELSE "failed"]
      /\ afterBind' = [afterBind EXCEPT ![c] = NoRequests]
      /\ Resume(c, afterBind[c], bound)
      /\ UNCHANGED <<asked, toBackend>>
  BY DEF BindSettles, frontendVars
<1> SUFFICES ASSUME NEW d \in Clients
             PROVE  /\ InLine(relayed'[d], afterBind'[d].sends, toBackend, d,
                              asked[d])
                    /\ Settled(d)' => afterBind'[d].sends = <<>>
  BY <1>2 DEF SendsInv
<1>3. /\ InLine(relayed[d], afterBind[d].sends, toBackend, d, asked[d])
      /\ Settled(d) => afterBind[d].sends = <<>>
  BY DEF SendsInv
<1>4. PICK w : w = afterBind[d].sends
  OBVIOUS
<1>5. PICK t : t = [i \in DOMAIN w |-> w[i].tid]
  OBVIOUS
<1>6. /\ relayed[d] \in Seq(Ids)
      /\ w \in Seq(Messages)
      /\ asked[d] \in Nat
  BY <1>4, LineTypes
<1>7. CASE d # c
  <2>1. /\ relayed'[d] = relayed[d]
        /\ afterBind'[d] = afterBind[d]
        /\ allocations_'[d] = allocations_[d]
    BY <1>1, <1>2, <1>7 DEF Resume
  <2>2. QED
    BY <1>3, <2>1 DEF Settled
<1>8. CASE d = c
  <2>1. afterBind'[d].sends = <<>>
    BY <1>1, <1>2, <1>8 DEF NoRequests
  <2>2. \/ relayed'[d] = relayed[d]
        \/ relayed'[d] = relayed[d] \o t
    BY <1>1, <1>2, <1>4, <1>5, <1>8 DEF Resume
  <2>3. InLine(relayed[d], w, toBackend, d, asked[d])
    BY <1>3, <1>4
  <2>4. /\ InLine(relayed[d], <<>>, toBackend, d, asked[d])
        /\ InLine(relayed[d] \o t, <<>>, toBackend, d, asked[d])
    BY <1>5, <1>6, <2>3, LineRefused, LineLeaves
  <2>5. QED
    BY <2>1, <2>2, <2>4
<1>9. QED
  BY <1>7, <1>8

\* Every step keeps SENDs in line.
LEMMA NextKeepsOrder ==
    ASSUME IInv, SendsInv, [Next]_vars
    PROVE  SendsInv'
<1>1. ASSUME UNCHANGED <<asked, relayed, afterBind, allocations_, toBackend>>
      PROVE  SendsInv'
  BY <1>1 DEF SendsInv, Settled
<1>2. CASE FrontendHandles
  BY <1>1, <1>2 DEF FrontendHandles, backendVars
<1>3. ASSUME NEW c \in Clients, Settles(c)
      PROVE  SendsInv'
  <2>1. ASSUME NEW i \in DOMAIN infos[c], NEW ok \in BOOLEAN,
               InfoSettles(c, i, ok)
        PROVE  SendsInv'
    BY <1>1, <2>1 DEF InfoSettles, frontendVars
  <2>2. QED
    BY <1>3, <2>1, BindKeepsOrder DEF Settles
<1>4. ASSUME NEW c \in Clients, SocketData(c)
      PROVE  SendsInv'
  BY <1>1, <1>4 DEF SocketData, frontendVars
<1>5. CASE UNCHANGED vars
  BY <1>1, <1>5 DEF vars, frontendVars, backendVars
<1>6. QED
  BY <1>2, <1>3, <1>4, <1>5, BackendKeepsOrder, FrontendKeepsOrder DEF Next

\* What waited for a relay socket leaves before what did not, in the order in
\* which the frontend took it and once (turn-backend.ts:124-134).
THEOREM SendsAreInOrder == Spec => []SendsInOrder
<1>1. SendsInv /\ IInv => SendsInOrder
  <2> SUFFICES ASSUME SendsInv, IInv, NEW c \in Clients,
                      NEW i \in DOMAIN relayed[c], NEW j \in DOMAIN relayed[c],
                      i < j
               PROVE  relayed[c][i] < relayed[c][j]
    BY DEF SendsInOrder
  <2>1. relayed[c] \in Seq(Ids)
    BY LineTypes
  <2>2. i \in 1 .. Len(relayed[c]) /\ j \in 1 .. Len(relayed[c])
    BY <2>1
  <2>3. InLine(relayed[c], afterBind[c].sends, toBackend, c, asked[c])
    BY DEF SendsInv
  <2>4. QED
    BY <2>2, <2>3 DEF InLine
<1>2. Init => SendsInv
  BY InitSends
<1>3. IInv /\ SendsInv /\ [Next]_vars => SendsInv'
  BY NextKeepsOrder
<1>4. QED
  BY <1>1, <1>2, <1>3, Invariance, PTL DEF Spec
===============================================================================
