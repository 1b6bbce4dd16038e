--------------------------- MODULE CounterLemmas ----------------------------
(***************************************************************************)
(* What the operations of Counter do, for the proofs that use them.        *)
(***************************************************************************)
EXTENDS Counter, TLAPS

\* after_() counts down, keeps the counter well-typed, and runs the destructor
\* exactly when the count falls below zero.
LEMMA AfterCountsDown ==
    ASSUME NEW c \in CounterType
    PROVE  /\ After(c) \in CounterType
           /\ After(c).counter_ = c.counter_ - 1
           /\ After(c).destructions # c.destructions <=> c.counter_ - 1 < 0
           /\ c.counter_ - 1 < 0 => After(c).onceDestroyed_ # "pending"
           /\ c.onceDestroyed_ # "pending" => After(c).onceDestroyed_ # "pending"
<1> DEFINE less == [c EXCEPT !.counter_ = @ - 1]
<1>1. /\ less \in CounterType
      /\ less.counter_ = c.counter_ - 1
      /\ less.destructions = c.destructions
      /\ less.onceDestroyed_ = c.onceDestroyed_
  BY DEF CounterType
<1>2. ASSUME NEW d \in CounterType
      PROVE  /\ Destruct(d) \in CounterType
             /\ Destruct(d).counter_ = d.counter_
             /\ Destruct(d).destructions = d.destructions + 1
             /\ Destruct(d).onceDestroyed_ # "pending"
  <2>1. Outcome \in {"fulfilled", "rejected"}
    BY DEF Outcome
  <2>2. /\ d.destructions \in Nat /\ d.counter_ \in Int
        /\ d.onceDestroyed_ \in {"pending", "fulfilled", "rejected"}
    BY DEF CounterType
  <2>3. /\ Destruct(d).counter_ = d.counter_
        /\ Destruct(d).destructions = d.destructions + 1
        /\ Destruct(d).onceDestroyed_ =
              IF d.onceDestroyed_ = "pending" THEN Outcome
              ELSE d.onceDestroyed_
    BY DEF Destruct, CounterType
  <2>4. Destruct(d) \in CounterType
    <3> DEFINE once == IF d.onceDestroyed_ = "pending" THEN Outcome
                       ELSE d.onceDestroyed_
               runs == d.destructions + 1
    <3>1. /\ once \in {"pending", "fulfilled", "rejected"}
          /\ runs \in Nat
      BY <2>1, <2>2
    <3>2. Destruct(d) = [d EXCEPT !.destructions = runs,
                                  !.onceDestroyed_ = once]
      BY DEF Destruct
    <3> HIDE DEF once, runs
    <3>3. QED
      BY <3>1, <3>2 DEF CounterType
  <2>5. QED
    BY <2>1, <2>2, <2>3, <2>4
<1>3. After(c) = IF less.counter_ < 0 THEN Destruct(less) ELSE less
  BY DEF After
<1> HIDE DEF less
<1>4. c.counter_ \in Int /\ c.destructions \in Nat
  BY DEF CounterType
<1>5. CASE less.counter_ < 0
  BY <1>1, <1>2, <1>3, <1>4, <1>5
<1>6. CASE ~ (less.counter_ < 0)
  BY <1>1, <1>3, <1>4, <1>6
<1>7. QED
  BY <1>5, <1>6
=============================================================================
