------------------------------ MODULE RelayTable ------------------------------
(***************************************************************************)
(* What the TURN server promises its clients, whichever side of it is      *)
(* asked: a client that asks for a relay gets at most one, for ever, and   *)
(* is only ever told of the one it has.  Frontend, backend, the messages   *)
(* between them, repetitions and transactions are not part of the promise. *)
(***************************************************************************)
CONSTANT Clients

VARIABLES
    relay,   \* relay[c]: whether c has a relay
    told     \* told[c]: what c was told of it

vars == <<relay, told>>

Init ==
    /\ relay = [c \in Clients |-> "none"]
    /\ told = [c \in Clients |-> "nothing"]

Ask(c) ==
    /\ relay[c] = "none"
    /\ relay' = [relay EXCEPT ![c] = "asked"]
    /\ UNCHANGED told

\* The decision is made once.
Decide(c) ==
    /\ relay[c] = "asked"
    /\ \E outcome \in {"granted", "refused"} :
          relay' = [relay EXCEPT ![c] = outcome]
    /\ UNCHANGED told

\* The client is told, once or more, always of the same relay.
Tell(c) ==
    /\ relay[c] = "granted"
    /\ told' = [told EXCEPT ![c] = "granted"]
    /\ UNCHANGED relay

Next == \E c \in Clients : Ask(c) \/ Decide(c) \/ Tell(c)

Spec == Init /\ [][Next]_vars
===============================================================================
