---------------------------- MODULE ChannelLease ----------------------------
(***************************************************************************)
(* What the pool promises of each data channel (pool.ts:161-166): a        *)
(* sequence of leases, each held by one user at the opening end and at     *)
(* most one at the peer's.  The peer joins every lease once and in order,  *)
(* and the opener takes a new lease only when the peer has left the last.  *)
(* Messages, queues and acks are not part of the promise.                  *)
(***************************************************************************)
EXTENDS Naturals

CONSTANT Channels

VARIABLES
    opener,   \* opener[c]: the opening end's part in the current lease
    peer,     \* peer[c]: the peer's part in the lease it joined last
    lease,    \* lease[c]: leases taken so far
    joined    \* joined[c]: leases the peer has joined so far

vars == <<opener, peer, lease, joined>>

Part == {"idle", "active", "leaving", "dead"}

Init ==
    /\ opener = [c \in Channels |-> "idle"]
    /\ peer = [c \in Channels |-> "idle"]
    /\ lease = [c \in Channels |-> 0]
    /\ joined = [c \in Channels |-> 0]

\* A user leases the channel; on a dead one it gets a lease that is over.
Acquire(c) ==
    /\ opener[c] \in {"idle", "dead"}
    /\ opener[c] = "idle" => peer[c] # "active" /\ joined[c] = lease[c]
    /\ opener' = [opener EXCEPT ![c] = IF @ = "idle" THEN "active" ELSE @]
    /\ lease' = [lease EXCEPT ![c] = @ + 1]
    /\ UNCHANGED <<peer, joined>>

\* The peer joins the lease, once.
Join(c) ==
    /\ peer[c] = "idle"
    /\ joined[c] < lease[c]
    /\ peer' = [peer EXCEPT ![c] = "active"]
    /\ joined' = [joined EXCEPT ![c] = @ + 1]
    /\ UNCHANGED <<opener, lease>>

OpenerLeaves(c) ==
    /\ opener[c] = "active"
    /\ opener' = [opener EXCEPT ![c] = "leaving"]
    /\ UNCHANGED <<peer, lease, joined>>

PeerLeaves(c) ==
    /\ peer[c] = "active"
    /\ peer' = [peer EXCEPT ![c] = "leaving"]
    /\ UNCHANGED <<opener, lease, joined>>

\* The lease is over for the opener when the peer, having joined, has left.
OpenerDone(c) ==
    /\ opener[c] = "leaving"
    /\ joined[c] = lease[c]
    /\ peer[c] # "active"
    /\ opener' = [opener EXCEPT ![c] = "idle"]
    /\ UNCHANGED <<peer, lease, joined>>

\* And for the peer when the opener has left, perhaps for a newer lease.
PeerDone(c) ==
    /\ peer[c] = "leaving"
    /\ opener[c] = "active" => joined[c] < lease[c]
    /\ peer' = [peer EXCEPT ![c] = "idle"]
    /\ UNCHANGED <<opener, lease, joined>>

OpenerDies(c) ==
    /\ opener[c] # "dead"
    /\ opener' = [opener EXCEPT ![c] = "dead"]
    /\ UNCHANGED <<peer, lease, joined>>

PeerDies(c) ==
    /\ peer[c] # "dead"
    /\ peer' = [peer EXCEPT ![c] = "dead"]
    /\ UNCHANGED <<opener, lease, joined>>

Next ==
    \E c \in Channels :
        \/ Acquire(c)
        \/ Join(c)
        \/ OpenerLeaves(c)
        \/ PeerLeaves(c)
        \/ OpenerDone(c)
        \/ PeerDone(c)
        \/ OpenerDies(c)
        \/ PeerDies(c)

Spec == Init /\ [][Next]_vars
=============================================================================
