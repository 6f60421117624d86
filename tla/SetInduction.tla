--------------------------- MODULE SetInduction ---------------------------
(***************************************************************************)
(* Induction over the natural numbers, stated for a set of numbers and not *)
(* for a predicate, so that it is used like any other fact: a set that     *)
(* holds zero and with every number the next one holds them all.  With it  *)
(* the recursive functions of the models can be reasoned about.            *)
(***************************************************************************)
EXTENDS Naturals, FiniteSets, FiniteSetTheorems, TLAPS

\* A set that holds 0 and is closed under successors holds every number: on
\* the members up to one that is missing, going to the next would be one to
\* one and not onto, which no function from a finite set to itself is.
THEOREM NatSetInduction ==
  ASSUME NEW T, 0 \in T, \A n \in Nat : n \in T => n + 1 \in T
  PROVE  Nat \subseteq T
<1> SUFFICES ASSUME NEW n \in Nat, n \notin T
             PROVE  FALSE
  OBVIOUS
<1> DEFINE U == T \intersect (0..n)
           next == [u \in U |-> u + 1]
<1>1. IsFiniteSet(U)
  <2>1. IsFiniteSet(0..n)
    BY FS_Interval
  <2>2. QED
    BY <2>1, FS_Subset
<1>2. next \in [U -> U]
  OBVIOUS
<1>3. next \in Injection(U, U)
  BY <1>2 DEF Injection, IsInjective
<1>4. next \in Surjection(U, U)
  BY <1>1, <1>3, FS_Injection
<1>5. \A t \in U : \E u \in U : next[u] = t
  BY <1>4, Zenon DEF Surjection
<1>6. QED
  BY <1>5

\* What a function takes on an interval is finite, and no larger than it.
THEOREM IntervalImage ==
  ASSUME NEW f, NEW a \in Int, NEW b \in Int, a <= b + 1
  PROVE  /\ IsFiniteSet({f[i] : i \in a..b})
         /\ Cardinality({f[i] : i \in a..b}) \in Nat
         /\ Cardinality({f[i] : i \in a..b}) <= b + 1 - a
<1> DEFINE T == {f[i] : i \in a..b}
           g == [i \in a..b |-> f[i]]
<1>1. IsFiniteSet(a..b) /\ Cardinality(a..b) = b + 1 - a
  BY FS_Interval
<1>2. g \in Surjection(a..b, T)
  BY DEF Surjection
<1>3. IsFiniteSet(T) /\ Cardinality(T) <= Cardinality(a..b)
  BY <1>1, <1>2, FS_Surjection
<1>4. Cardinality(T) \in Nat
  BY <1>3, FS_CardinalityType
<1>5. QED
  BY <1>1, <1>3, <1>4

=============================================================================
