------------------------------ MODULE Counter -------------------------------
(***************************************************************************)
(* The object of src/net/counter.ts.  It counts the calls to a socket that *)
(* have yet to settle, and destroys the socket when the count reaches zero *)
(* and discard() was called.                                               *)
(***************************************************************************)
EXTENDS Integers

CONSTANT Throws     \* the destructor throws

ASSUME CounterAssumption == Throws \in BOOLEAN

\* destructions is how often destructor_ has run.
CounterType ==
    [counter_ : Int,
     onceDestroyed_ : {"pending", "fulfilled", "rejected"},
     destructions : Nat]

NewCounter ==
    [counter_ |-> 0, onceDestroyed_ |-> "pending", destructions |-> 0]

Before(k) == [k EXCEPT !.counter_ = @ + 1]

Outcome == IF Throws THEN "rejected" ELSE "fulfilled"

Destruct(k) ==
    [k EXCEPT !.destructions = @ + 1,
              !.onceDestroyed_ = IF @ = "pending" THEN Outcome ELSE @]

\* Mistake: the termination condition is off by one.
AfterAtZero(k) ==
    LET less == [k EXCEPT !.counter_ = @ - 1]
    IN  IF less.counter_ <= 0 THEN Destruct(less) ELSE less

\* Mistake: the termination condition is met only once it has passed.
AfterBelow(k) ==
    LET less == [k EXCEPT !.counter_ = @ - 1]
    IN  IF less.counter_ < -1 THEN Destruct(less) ELSE less

\* after_(), which is also all of discard().
After(k) ==
    LET less == [k EXCEPT !.counter_ = @ - 1]
    IN  IF less.counter_ < 0 THEN Destruct(less) ELSE less
=============================================================================
