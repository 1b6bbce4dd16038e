----------------------------- MODULE MCSessions -----------------------------
(***************************************************************************)
(* Sessions for TLC.  Nothing more is promised of a channel that missed a  *)
(* CLOSE or had a late socket: no run goes on when no channel is left.     *)
(***************************************************************************)
EXTENDS Sessions

SomeSound == Sound # {}
=============================================================================
