------------------------------ MODULE QueueLemmas ------------------------------
(***************************************************************************)
(* How often the elements of a set occur in a queue, and how pushing and   *)
(* popping change that.  The bookkeeping of jpeg_top and of the simulated  *)
(* host link conserve things that move from queue to queue; their proofs   *)
(* count them with these facts.                                            *)
(***************************************************************************)
EXTENDS Integers, Sequences, FiniteSets, FiniteSetTheorems, TLAPS

Positions(q, S) == {k \in 1..Len(q) : q[k] \in S}
Count(q, S) == Cardinality(Positions(q, S))
One(c) == IF c THEN 1 ELSE 0

LEMMA CountType ==
  ASSUME NEW T, NEW S, NEW q \in Seq(T)
  PROVE  IsFiniteSet(Positions(q, S)) /\ Count(q, S) \in Nat
<1>1. IsFiniteSet(1..Len(q))
  BY FS_Interval
<1>2. Positions(q, S) \in SUBSET (1..Len(q))
  BY DEF Positions
<1>3. QED
  BY <1>1, <1>2, FS_Subset, FS_CardinalityType DEF Count

LEMMA CountEmpty ==
  ASSUME NEW S
  PROVE  Count(<<>>, S) = 0
<1>1. Positions(<<>>, S) = {}
  BY DEF Positions
<1>2. QED
  BY <1>1, FS_EmptySet DEF Count

LEMMA CountAppend ==
  ASSUME NEW T, NEW S, NEW q \in Seq(T), NEW x \in T
  PROVE  Count(Append(q, x), S) = Count(q, S) + One(x \in S)
<1> DEFINE n == Len(q) + 1
<1>1. /\ n \in Nat /\ n \notin 1..Len(q) /\ Len(Append(q, x)) = n
      /\ Append(q, x)[n] = x /\ \A k \in 1..Len(q) : Append(q, x)[k] = q[k]
  OBVIOUS
<1>2. Positions(Append(q, x), S) = IF x \in S THEN Positions(q, S) \union {n} ELSE Positions(q, S)
  BY <1>1 DEF Positions
<1>3. n \notin Positions(q, S)
  BY <1>1 DEF Positions
<1>4. IsFiniteSet(Positions(q, S))
  BY CountType
<1>5. Cardinality(Positions(q, S) \union {n}) = Cardinality(Positions(q, S)) + 1
  BY <1>3, <1>4, FS_AddElement
<1>6. Count(q, S) \in Nat
  BY CountType
<1>7. QED
  BY <1>2, <1>5, <1>6 DEF Count, One

LEMMA CountTail ==
  ASSUME NEW T, NEW S, NEW q \in Seq(T), q # <<>>
  PROVE  Count(Tail(q), S) = Count(q, S) - One(Head(q) \in S)
<1> DEFINE rest == Positions(q, S) \ {1}
           tail == Positions(Tail(q), S)
           shift == [k \in tail |-> k + 1]
<1>1. /\ Tail(q) \in Seq(T) /\ Len(q) \in Nat /\ Len(q) >= 1 /\ Len(Tail(q)) = Len(q) - 1
      /\ \A k \in 1..(Len(q) - 1) : Tail(q)[k] = q[k + 1]
      /\ Head(q) = q[1]
  OBVIOUS
<1>2. IsFiniteSet(tail) /\ IsFiniteSet(Positions(q, S)) /\ Count(q, S) \in Nat
  BY <1>1, CountType
<1>3. \A k \in Nat : k \in tail <=> k + 1 \in rest
  BY <1>1 DEF Positions
<1>4. tail \subseteq Nat /\ \A k \in rest : k - 1 \in Nat
  BY <1>1 DEF Positions
<1>5. shift \in Bijection(tail, rest)
  <2>1. shift \in [tail -> rest]
    BY <1>3, <1>4
  <2>2. \A j, k \in tail : shift[j] = shift[k] => j = k
    BY <1>4
  <2>3. \A k \in rest : k - 1 \in tail /\ shift[k - 1] = k
    BY <1>3, <1>4, <1>1 DEF Positions
  <2>4. QED
    BY <2>1, <2>2, <2>3 DEF Bijection, Injection, IsInjective, Surjection
<1>6. Cardinality(rest) = Cardinality(tail)
  BY <1>2, <1>5, FS_Bijection DEF ExistsBijection
<1>7. Cardinality(rest) = Count(q, S) - One(Head(q) \in S)
  <2>1. 1 \in Positions(q, S) <=> Head(q) \in S
    BY <1>1 DEF Positions
  <2>2. Cardinality(rest) = IF 1 \in Positions(q, S) THEN Cardinality(Positions(q, S)) - 1
                            ELSE Cardinality(Positions(q, S))
    BY <1>2, FS_RemoveElement
  <2>3. QED
    BY <1>2, <2>1, <2>2 DEF Count, One
<1>8. QED
  BY <1>6, <1>7 DEF Count

LEMMA CountNone ==
  ASSUME NEW T, NEW S, NEW q \in Seq(T)
  PROVE  Count(q, S) = 0 <=> \A k \in 1..Len(q) : q[k] \notin S
<1>1. Count(q, S) = 0 <=> Positions(q, S) = {}
  BY CountType, FS_EmptySet DEF Count
<1>2. QED
  BY <1>1 DEF Positions

(* A set of natural numbers has a smallest element, and some element of a   *)
(* set has the smallest number.                                             *)
LEMMA Smallest ==
  ASSUME NEW T \in SUBSET Nat, T # {}
  PROVE  \E x \in T : \A y \in T : x <= y
<1> DEFINE R == OpToRel(<, Nat)
<1>1. IsWellFoundedOn(R, Nat)
  BY NatLessThanWellFounded
<1>2. PICK x \in T : \A y \in T : <<y, x>> \notin R
  <2> HIDE DEF R
  <2> QED
    BY <1>1, WFMin
<1>3. \A y \in T : <<y, x>> \in R <=> y < x
  BY DEF OpToRel
<1>4. \A y \in T : ~(y < x)
  BY <1>2, <1>3
<1> HIDE DEF R
<1>5. QED
  BY <1>4
=============================================================================
