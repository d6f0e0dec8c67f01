-------------------------- MODULE Induction_proof --------------------------
(***************************************************************************)
(* Induction, recursion and "the first that applies", in the form the      *)
(* provers can use: over sets and functions. The library's induction       *)
(* theorems take an operator as a parameter; its theorem that every set of *)
(* a well-founded relation has a minimal element does not, and the rest    *)
(* follows from it.                                                        *)
(***************************************************************************)
EXTENDS Integers, Refusals, WellFoundedInduction, TLAPS

(* A set of natural numbers has a least one. *)
LEMMA Least ==
  ASSUME NEW S, S \subseteq Nat, S # {}
  PROVE  \E m \in S : \A n \in S : m <= n
<1> DEFINE R == OpToRel(<, Nat)
<1>1. IsWellFoundedOn(R, Nat)
  BY NatLessThanWellFounded
<1>2. ASSUME NEW x \in Nat, NEW y \in Nat, x < y PROVE <<x, y>> \in R
  BY <1>2 DEF OpToRel
<1> HIDE DEF R
<1>3. PICK m \in S : \A n \in S : ~(<<n, m>> \in R)
  BY <1>1, WFMin
<1>4. ASSUME NEW n \in S PROVE m <= n
  <2>1. ~(n < m)
    BY <1>2, <1>3
  <2> QED BY <2>1
<1> QED BY <1>4

(* What holds of 0 and passes from each number to the next holds of all;   *)
(* the set is the property.                                                *)
LEMMA SetInduction ==
  ASSUME NEW S, 0 \in S, \A n \in Nat : n \in S => n + 1 \in S
  PROVE  Nat \subseteq S
<1> DEFINE T == Nat \ S
<1> SUFFICES ASSUME T # {} PROVE FALSE
  OBVIOUS
<1>1. T \subseteq Nat
  OBVIOUS
<1> HIDE DEF T
<1>2. PICK m \in T : \A n \in T : m <= n
  BY <1>1, Least
<1>3. m # 0 /\ m \in Nat
  BY <1>1 DEF T
<1>4. m - 1 \in Nat /\ m - 1 \notin T
  BY <1>2, <1>3
<1> QED BY <1>2, <1>3, <1>4 DEF T

(* A value and a step for each of 1..N define a function on 0..N. *)
LEMMA Recursion ==
  ASSUME NEW V, NEW a \in V, NEW N \in Nat, NEW h \in [1..N -> [V -> V]]
  PROVE  \E f \in [0..N -> V] : f[0] = a /\ \A i \in 1..N : f[i] = h[i][f[i-1]]
<1> DEFINE S == {n \in Nat : n <= N =>
                  \E f \in [0..n -> V] : f[0] = a /\ \A i \in 1..n : f[i] = h[i][f[i-1]]}
<1>1. 0 \in S
  <2> DEFINE f == [i \in 0..0 |-> a]
  <2>1. f \in [0..0 -> V] /\ f[0] = a /\ 1..0 = {}
    OBVIOUS
  <2> HIDE DEF f
  <2>2. \E g \in [0..0 -> V] : g[0] = a /\ \A i \in 1..0 : g[i] = h[i][g[i-1]]
    BY <2>1
  <2> QED BY <2>2
<1>2. ASSUME NEW n \in Nat, n \in S PROVE n + 1 \in S
  <2> SUFFICES ASSUME n + 1 <= N
               PROVE  \E f \in [0..(n+1) -> V] :
                        f[0] = a /\ \A i \in 1..(n+1) : f[i] = h[i][f[i-1]]
    OBVIOUS
  <2>1. PICK f \in [0..n -> V] : f[0] = a /\ \A i \in 1..n : f[i] = h[i][f[i-1]]
    BY <1>2
  <2> DEFINE g == [i \in 0..(n+1) |-> IF i = n + 1 THEN h[n+1][f[n]] ELSE f[i]]
  <2>2. h[n+1] \in [V -> V] /\ f[n] \in V
    OBVIOUS
  <2>3. g \in [0..(n+1) -> V]
    BY <2>2
  <2>4. g[0] = a /\ \A i \in 1..n : g[i] = f[i] /\ i-1 \in 0..n /\ g[i-1] = f[i-1]
    BY <2>1
  <2>5. g[n+1] = h[n+1][g[n]]
    OBVIOUS
  <2> HIDE DEF g
  <2>6. \A i \in 1..(n+1) : g[i] = h[i][g[i-1]]
    <3> TAKE i \in 1..(n+1)
    <3>1. CASE i \in 1..n
      BY <2>1, <2>4, <3>1
    <3>2. CASE i = n+1
      BY <2>5, <3>2
    <3> QED BY <3>1, <3>2
  <2> QED BY <2>3, <2>4, <2>6
<1> HIDE DEF S
<1>3. N \in S
  BY <1>1, <1>2, SetInduction
<1> QED BY <1>3 DEF S

(* Of the places of a sequence that satisfy something, one is the first.   *)
LEMMA FirstOf ==
  ASSUME NEW n \in Nat, NEW P, P \subseteq 1..n, P # {}
  PROVE  \E i \in P : \A j \in 1..(i-1) : j \notin P
<1>1. P \subseteq Nat
  OBVIOUS
<1>2. PICK i \in P : \A j \in P : i <= j
  BY <1>1, Least
<1>3. \A j \in 1..(i-1) : j \notin P
  BY <1>2
<1> QED BY <1>3

(* What a validator answers is Nothing, or the code of a check that        *)
(* applies; if it is Nothing, and Nothing is no code, no check applies.    *)
LEMMA RefusalIsACode ==
  ASSUME NEW Codes, NEW refusals \in Seq(BOOLEAN \X Codes)
  PROVE  FirstRefusal(refusals) \in Codes \cup {Nothing}
<1> DEFINE A == Applying(refusals)
           i == CHOOSE k \in A : \A j \in A : k <= j
<1>1. SUFFICES ASSUME A # {} PROVE FirstRefusal(refusals) \in Codes
  BY DEF FirstRefusal
<1>2. A \subseteq Nat /\ A \subseteq 1..Len(refusals)
  BY DEF Applying
<1>3. FirstRefusal(refusals) = refusals[i][2]
  BY <1>1 DEF FirstRefusal
<1> HIDE DEF A
<1>4. \E k \in A : \A j \in A : k <= j
  BY <1>1, <1>2, Least
<1>5. i \in A
  BY <1>4
<1> HIDE DEF i
<1>6. refusals[i] \in BOOLEAN \X Codes
  BY <1>2, <1>5
<1> QED BY <1>3, <1>6

LEMMA NothingApplies ==
  ASSUME NEW Codes, NEW refusals \in Seq(BOOLEAN \X Codes), Nothing \notin Codes,
         FirstRefusal(refusals) = Nothing
  PROVE  \A i \in 1..Len(refusals) : ~refusals[i][1]
<1> DEFINE A == Applying(refusals)
           i == CHOOSE k \in A : \A j \in A : k <= j
<1>1. SUFFICES ASSUME A # {} PROVE FALSE
  BY DEF Applying
<1>2. A \subseteq Nat /\ A \subseteq 1..Len(refusals)
  BY DEF Applying
<1>3. FirstRefusal(refusals) = refusals[i][2]
  BY <1>1 DEF FirstRefusal
<1> HIDE DEF A
<1>4. \E k \in A : \A j \in A : k <= j
  BY <1>1, <1>2, Least
<1>5. i \in A
  BY <1>4
<1> HIDE DEF i
<1>6. refusals[i] \in BOOLEAN \X Codes
  BY <1>2, <1>5
<1> QED BY <1>3, <1>6

(* The answer of a list of checks is that of the first that applies. *)
LEMMA AnswerIsFirst ==
  ASSUME NEW S, NEW refusals \in Seq(S), FirstRefusal(refusals) # Nothing
  PROVE  \E i \in 1..Len(refusals) :
            /\ refusals[i][1] /\ FirstRefusal(refusals) = refusals[i][2]
            /\ \A j \in 1..(i - 1) : ~refusals[j][1]
<1> DEFINE A == Applying(refusals)
           i == CHOOSE k \in A : \A j \in A : k <= j
<1>1. /\ A # {} /\ A \subseteq Nat /\ A = {k \in 1..Len(refusals) : refusals[k][1]}
      /\ Len(refusals) \in Nat
  BY DEF Applying, FirstRefusal
<1>2. FirstRefusal(refusals) = refusals[i][2]
  BY <1>1 DEF FirstRefusal
<1> HIDE DEF A
<1>3. \E k \in A : \A j \in A : k <= j
  BY <1>1, Least
<1>4. i \in A /\ \A j \in A : i <= j
  BY <1>3
<1> HIDE DEF i
<1>5. ASSUME NEW j \in 1..(i - 1) PROVE ~refusals[j][1]
  <2>1. j \in 1..Len(refusals) /\ ~(i <= j)
    BY <1>1, <1>4
  <2> QED BY <1>1, <1>4, <2>1
<1> QED BY <1>1, <1>2, <1>4, <1>5

LEMMA FirstAnswers ==
  ASSUME NEW S, NEW refusals \in Seq(S), NEW i \in 1..Len(refusals), refusals[i][1],
         \A j \in 1..(i - 1) : ~refusals[j][1]
  PROVE  FirstRefusal(refusals) = refusals[i][2]
<1> DEFINE A == Applying(refusals)
           first == CHOOSE k \in A : \A j \in A : k <= j
<1>1. A = {k \in 1..Len(refusals) : refusals[k][1]} /\ Len(refusals) \in Nat
  BY DEF Applying
<1>2. i \in A /\ \A j \in A : i <= j
  <2>1. i \in A
    BY <1>1
  <2>2. ASSUME NEW j \in A PROVE i <= j
    <3>1. j \in 1..Len(refusals) /\ refusals[j][1]
      BY <1>1
    <3>2. ~(j < i)
      <4>1. j < i => j \in 1..(i - 1)
        BY <3>1, <1>1
      <4> QED BY <3>1, <4>1
    <3> QED BY <3>1, <3>2, <1>1
  <2> QED BY <2>1, <2>2
<1>3. FirstRefusal(refusals) = refusals[first][2]
  BY <1>2 DEF FirstRefusal
<1>4. A \subseteq Nat
  BY <1>1
<1> HIDE DEF A
<1>5. first \in A /\ \A j \in A : first <= j
  BY <1>2
<1> HIDE DEF first
<1>6. first <= i /\ i <= first /\ first \in Nat /\ i \in Nat
  BY <1>2, <1>4, <1>5
<1>7. first = i
  BY <1>6
<1> QED BY <1>3, <1>7
=============================================================================
