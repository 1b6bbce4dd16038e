------------------------------- MODULE MCPool -------------------------------
(***************************************************************************)
(* Pool for TLC: how many messages a user may have unread on each channel. *)
(***************************************************************************)
EXTENDS Pool

\* Data on the channel that is opened first; on the other, control messages.
Unread == [c \in Channels |-> IF c = 0 THEN 1 ELSE 0]
=============================================================================
