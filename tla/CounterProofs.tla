--------------------------- MODULE CounterProofs ----------------------------
(***************************************************************************)
(* Proofs about CounterUse.  The counter never remembers more than the     *)
(* difference between outstanding calls and calls of discard(); everything *)
(* else follows from that equation.                                        *)
(***************************************************************************)
EXTENDS CounterUse, CounterLemmas

\* The inductive invariant.
Balance == k.counter_ = outstanding - discards

IInv == TypeOK /\ Balance /\ IdleMeansDestroyed

\* A new counter balances.
LEMMA InitIInv == Init => IInv
BY UseAssumption DEF Init, IInv, TypeOK, Balance, IdleMeansDestroyed,
                     NewCounter, CounterType

\* Every operation keeps the balance.
LEMMA NextIInv == IInv /\ [Next]_vars => IInv'
<1> SUFFICES ASSUME IInv, [Next]_vars PROVE IInv'
  OBVIOUS
<1> USE UseAssumption
<1>0. /\ k \in CounterType /\ k.counter_ \in Int
      /\ outstanding \in Nat /\ made \in Nat /\ discards \in Nat
  BY DEF IInv, TypeOK, CounterType
<1>1. CASE Wrap
  <2>1. k' \in CounterType /\ k'.counter_ = k.counter_ + 1
    BY <1>0, <1>1 DEF Wrap, Before, CounterType
  <2>2. QED
    BY <1>0, <1>1, <2>1
    DEF Wrap, IInv, TypeOK, Balance, IdleMeansDestroyed
<1>2. CASE Settle
  <2>1. k' = After(k)
    BY <1>2 DEF Settle
  <2>2. TypeOK' /\ Balance'
    BY <1>0, <1>2, <2>1, AfterCountsDown DEF Settle, IInv, TypeOK, Balance
  <2>3. IdleMeansDestroyed'
    BY <1>0, <1>2, <2>1, AfterCountsDown
    DEF Settle, IInv, Balance, IdleMeansDestroyed
  <2>4. QED
    BY <2>2, <2>3 DEF IInv
<1>3. CASE Discard
  <2>1. k' = After(k)
    BY <1>3 DEF Discard
  <2>2. TypeOK' /\ Balance'
    BY <1>0, <1>3, <2>1, AfterCountsDown DEF Discard, IInv, TypeOK, Balance
  <2>3. IdleMeansDestroyed'
    BY <1>0, <1>3, <2>1, AfterCountsDown
    DEF Discard, IInv, Balance, IdleMeansDestroyed
  <2>4. QED
    BY <2>2, <2>3 DEF IInv
<1>4. CASE UNCHANGED vars
  BY <1>4 DEF vars, IInv, TypeOK, Balance, IdleMeansDestroyed
<1>5. QED
  BY <1>1, <1>2, <1>3, <1>4 DEF Next

\* The inductive invariant holds throughout, for any number of calls and of
\* calls of discard() (counter.ts:37-57).
THEOREM CounterInvariance == Spec => []IInv
BY InitIInv, NextIInv, PTL DEF Spec

\* Nothing is forgotten: however calls and discard() interleave, and however
\* often discard() is called, the destructor has run when a discarded counter
\* is idle (after_ of counter.ts).
THEOREM NothingForgotten == Spec => []IdleMeansDestroyed
BY CounterInvariance, PTL DEF IInv

\* With one discard(), as Connection calls it, the destructor never runs under
\* an outstanding call; with two it may.
THEOREM SafeDestruction ==
    ASSUME MaxDiscards <= 1
    PROVE  Spec => DestroysSafely
<1>1. IInv /\ [Next]_vars =>
        [k'.destructions # k.destructions
            => outstanding' = 0 /\ discards' > 0]_vars
  <2> SUFFICES ASSUME IInv, Next, k'.destructions # k.destructions
               PROVE  outstanding' = 0 /\ discards' > 0
    BY DEF vars
  <2>1. /\ k \in CounterType /\ k.counter_ \in Int
        /\ outstanding \in Nat /\ discards \in 0 .. MaxDiscards
        /\ MaxDiscards \in Nat
    BY UseAssumption DEF IInv, TypeOK, CounterType
  <2>2. CASE Wrap
    BY <2>1, <2>2 DEF Wrap, Before, CounterType
  <2>3. CASE Settle
    BY <2>1, <2>3, AfterCountsDown DEF Settle, IInv, Balance
  <2>4. CASE Discard
    BY <2>1, <2>4, AfterCountsDown DEF Discard, IInv, Balance
  <2>5. QED
    BY <2>2, <2>3, <2>4 DEF Next
<1>2. QED
  BY <1>1, CounterInvariance, PTL DEF Spec, DestroysSafely
=============================================================================
