----------------------------- MODULE CounterUse -----------------------------
(***************************************************************************)
(* A counter and its owner: calls are wrapped, settle in any order, and    *)
(* discard() comes at any time, also while calls are outstanding.          *)
(***************************************************************************)
EXTENDS Counter

CONSTANTS
    MaxCalls,     \* bound: calls made
    MaxDiscards   \* how often the owner calls discard()

ASSUME UseAssumption == MaxCalls \in Nat /\ MaxDiscards \in Nat

VARIABLES
    k,            \* the counter object
    made,         \* calls made so far
    outstanding,  \* those that have not settled
    discards      \* calls of discard()

vars == <<k, made, outstanding, discards>>

Init ==
    /\ k = NewCounter
    /\ made = 0
    /\ outstanding = 0
    /\ discards = 0

\* wrap(f): the call is counted, then made.
Wrap ==
    /\ made < MaxCalls
    /\ k' = Before(k)
    /\ made' = made + 1
    /\ outstanding' = outstanding + 1
    /\ UNCHANGED discards

\* The promise of a wrapped call fulfills or rejects.
Settle ==
    /\ outstanding > 0
    /\ k' = After(k)
    /\ outstanding' = outstanding - 1
    /\ UNCHANGED <<made, discards>>

Discard ==
    /\ discards < MaxDiscards
    /\ k' = After(k)
    /\ discards' = discards + 1
    /\ UNCHANGED <<made, outstanding>>

Next == Wrap \/ Settle \/ Discard

Spec == Init /\ [][Next]_vars

-----------------------------------------------------------------------------
(* Properties *)

TypeOK ==
    /\ k \in CounterType
    /\ k.counter_ \in -MaxDiscards .. MaxCalls
    /\ made \in 0 .. MaxCalls
    /\ outstanding \in 0 .. made
    /\ discards \in 0 .. MaxDiscards

\* The destructor never runs under a call that is still outstanding, nor
\* before discard(): "safely destroying" in counter.ts:6-7.
DestroysSafely ==
    [][k'.destructions # k.destructions
          => outstanding' = 0 /\ discards' > 0]_vars

\* And it is not forgotten: when discard() was called and no call is left, it
\* has run, whichever came last (the -1 of counter.ts:31-35).
IdleMeansDestroyed ==
    discards > 0 /\ outstanding = 0 => k.onceDestroyed_ # "pending"
=============================================================================
