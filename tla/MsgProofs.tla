------------------------------ MODULE MsgProofs ------------------------------
(***************************************************************************)
(* System V messages, for any number of processes, queues, headers and     *)
(* units of text: the lists and the text are exact, nobody sleeps for what *)
(* is there, and the queues implement the abstract ones.                   *)
(*                                                                         *)
(* The lists are followed through the headers by a recursive function, so  *)
(* the invariant MsgInv names them: there is an L with a sequence of       *)
(* headers for each queue and one for the free list, each a chain of next  *)
(* pointers, and each action is shown to lead to the L it ought to.        *)
(***************************************************************************)
EXTENDS Msg, FiniteSetTheorems, SequenceTheorems, WellFoundedInduction, TLAPS

(* A set of numbers has a least one.                                       *)
LEMMA LeastOf ==
  ASSUME NEW T \in SUBSET Nat, T # {}
  PROVE  \E x \in T : \A y \in T : x =< y
<1> DEFINE Downs == {0 .. x : x \in T}
<1>1. Downs \subseteq FiniteSubsetsOf(Nat) /\ Downs # {}
  <2>1. ASSUME NEW x \in T PROVE (0 .. x) \in FiniteSubsetsOf(Nat)
    BY FS_Interval DEF FiniteSubsetsOf
  <2> QED
    BY <2>1
<1>2. PICK D \in Downs : \A E \in Downs : ~ (<<E, D>> \in StrictSubsetOrdering(Nat))
  BY <1>1, FS_StrictSubsetOrderingWellFounded, WFMin
<1>3. PICK x \in T : D = 0 .. x
  OBVIOUS
<1>4. ASSUME NEW y \in T, y < x PROVE FALSE
  <2>1. (0 .. y) \subseteq (0 .. x) /\ (0 .. y) # (0 .. x)
    BY <1>4
  <2>2. <<0 .. y, D>> \in StrictSubsetOrdering(Nat)
    BY <1>3, <2>1 DEF StrictSubsetOrdering
  <2> QED
    BY <1>2, <2>2
<1> QED
  BY <1>4

(* What holds at 0 and goes on from n to n + 1: a set of numbers.          *)
LEMMA Upwards ==
  ASSUME NEW T \in SUBSET Nat, 0 \in T, \A n \in T : n + 1 \in T
  PROVE  T = Nat
<1>1. SUFFICES ASSUME Nat \ T # {} PROVE FALSE
  OBVIOUS
<1>2. PICK x \in Nat \ T : \A y \in Nat \ T : x =< y
  BY <1>1, LeastOf
<1>3. x # 0 /\ x - 1 \in Nat /\ (x - 1) + 1 = x
  BY <1>2
<1>4. x - 1 \in T
  BY <1>2, <1>3
<1> QED
  BY <1>2, <1>3, <1>4

------------------------------------------------------------------------------
(* Sequences: what is left without one element, what there is with one     *)
(* more behind or in front, and one in front of another back to front.     *)

Elems(s)     == {s[i] : i \in 1 .. Len(s)}
Injective(s) == \A i, j \in 1 .. Len(s) : s[i] = s[j] => i = j

Less(s, i) == [j \in 1 .. Len(s) - 1 |-> IF j < i THEN s[j] ELSE s[j + 1]]
More(s, x) == [j \in 1 .. Len(s) + 1 |-> IF j = Len(s) + 1 THEN x ELSE s[j]]
Push(x, s) == [j \in 1 .. Len(s) + 1 |-> IF j = 1 THEN x ELSE s[j - 1]]
Back(a, b) == [j \in 1 .. Len(a) + Len(b) |->
                 IF j <= Len(a) THEN a[Len(a) + 1 - j] ELSE b[j - Len(a)]]

LEMMA SeqIs ==
  ASSUME NEW S, NEW n \in Nat, NEW f \in [1 .. n -> S]
  PROVE  f \in Seq(S) /\ Len(f) = n
OBVIOUS

LEMMA SeqHas ==
  ASSUME NEW S, NEW s \in Seq(S)
  PROVE  /\ Len(s) \in Nat /\ DOMAIN s = 1 .. Len(s) /\ s \in [1 .. Len(s) -> S]
         /\ \A i \in 1 .. Len(s) : s[i] \in S
OBVIOUS

LEMMA LessIs ==
  ASSUME NEW S, NEW s \in Seq(S), NEW i \in 1 .. Len(s)
  PROVE  /\ Less(s, i) \in Seq(S) /\ Len(Less(s, i)) = Len(s) - 1
         /\ \A j \in 1 .. Len(s) - 1 : Less(s, i)[j] = IF j < i THEN s[j] ELSE s[j + 1]
<1>1. Len(s) \in Nat /\ \A j \in 1 .. Len(s) : s[j] \in S
  BY SeqHas
<1>2. Len(s) - 1 \in Nat
  BY <1>1
<1>3. ASSUME NEW j \in 1 .. Len(s) - 1 PROVE j \in 1 .. Len(s) /\ j + 1 \in 1 .. Len(s)
  BY <1>1
<1>4. Less(s, i) \in [1 .. Len(s) - 1 -> S]
  BY <1>1, <1>3 DEF Less
<1>5. \A j \in 1 .. Len(s) - 1 : Less(s, i)[j] = IF j < i THEN s[j] ELSE s[j + 1]
  BY DEF Less
<1> QED
  BY <1>2, <1>4, <1>5, SeqIs

LEMMA MoreIs ==
  ASSUME NEW S, NEW s \in Seq(S), NEW x \in S
  PROVE  /\ More(s, x) \in Seq(S) /\ Len(More(s, x)) = Len(s) + 1
         /\ \A j \in 1 .. Len(s) + 1 : More(s, x)[j] = IF j = Len(s) + 1 THEN x ELSE s[j]
<1>1. Len(s) \in Nat /\ \A j \in 1 .. Len(s) : s[j] \in S
  BY SeqHas
<1>2. Len(s) + 1 \in Nat
  BY <1>1
<1>3. ASSUME NEW j \in 1 .. Len(s) + 1, j # Len(s) + 1 PROVE j \in 1 .. Len(s)
  BY <1>1, <1>3
<1>4. More(s, x) \in [1 .. Len(s) + 1 -> S]
  BY <1>1, <1>3 DEF More
<1>5. \A j \in 1 .. Len(s) + 1 : More(s, x)[j] = IF j = Len(s) + 1 THEN x ELSE s[j]
  BY DEF More
<1> QED
  BY <1>2, <1>4, <1>5, SeqIs

LEMMA MoreAt ==
  ASSUME NEW S, NEW s \in Seq(S), NEW x \in S
  PROVE  /\ More(s, x) \in Seq(S) /\ Len(More(s, x)) = Len(s) + 1
         /\ More(s, x)[Len(s) + 1] = x /\ \A j \in 1 .. Len(s) : More(s, x)[j] = s[j]
<1>1. Len(s) \in Nat
  BY SeqHas
<1>2. /\ More(s, x) \in Seq(S) /\ Len(More(s, x)) = Len(s) + 1
      /\ \A j \in 1 .. Len(s) + 1 : More(s, x)[j] = IF j = Len(s) + 1 THEN x ELSE s[j]
  BY MoreIs
<1> QED
  BY <1>1, <1>2

LEMMA PushIs ==
  ASSUME NEW S, NEW s \in Seq(S), NEW x \in S
  PROVE  /\ Push(x, s) \in Seq(S) /\ Len(Push(x, s)) = Len(s) + 1
         /\ \A j \in 1 .. Len(s) + 1 : Push(x, s)[j] = IF j = 1 THEN x ELSE s[j - 1]
<1>1. Len(s) \in Nat /\ \A j \in 1 .. Len(s) : s[j] \in S
  BY SeqHas
<1>2. Len(s) + 1 \in Nat
  BY <1>1
<1>3. ASSUME NEW j \in 1 .. Len(s) + 1, j # 1 PROVE j - 1 \in 1 .. Len(s)
  BY <1>1, <1>3
<1>4. Push(x, s) \in [1 .. Len(s) + 1 -> S]
  BY <1>1, <1>3 DEF Push
<1>5. \A j \in 1 .. Len(s) + 1 : Push(x, s)[j] = IF j = 1 THEN x ELSE s[j - 1]
  BY DEF Push
<1> QED
  BY <1>2, <1>4, <1>5, SeqIs

LEMMA BackIs ==
  ASSUME NEW S, NEW a \in Seq(S), NEW b \in Seq(S)
  PROVE  /\ Back(a, b) \in Seq(S) /\ Len(Back(a, b)) = Len(a) + Len(b)
         /\ \A j \in 1 .. Len(a) + Len(b) :
              Back(a, b)[j] = IF j <= Len(a) THEN a[Len(a) + 1 - j] ELSE b[j - Len(a)]
<1>1. /\ Len(a) \in Nat /\ \A j \in 1 .. Len(a) : a[j] \in S
      /\ Len(b) \in Nat /\ \A j \in 1 .. Len(b) : b[j] \in S
  BY SeqHas
<1>2. Len(a) + Len(b) \in Nat
  BY <1>1
<1>3. ASSUME NEW j \in 1 .. Len(a) + Len(b)
      PROVE  IF j <= Len(a) THEN Len(a) + 1 - j \in 1 .. Len(a) ELSE j - Len(a) \in 1 .. Len(b)
  BY <1>1
<1>4. Back(a, b) \in [1 .. Len(a) + Len(b) -> S]
  BY <1>1, <1>3 DEF Back
<1>5. \A j \in 1 .. Len(a) + Len(b) :
        Back(a, b)[j] = IF j <= Len(a) THEN a[Len(a) + 1 - j] ELSE b[j - Len(a)]
  BY DEF Back
<1> QED
  BY <1>2, <1>4, <1>5, SeqIs

(* What is in them, and that it is there once.                             *)
LEMMA LessElems ==
  ASSUME NEW S, NEW s \in Seq(S), NEW i \in 1 .. Len(s), Injective(s)
  PROVE  Injective(Less(s, i)) /\ Elems(Less(s, i)) = Elems(s) \ {s[i]}
<1> DEFINE t == Less(s, i)
           n == Len(s)
<1>1. /\ n \in Nat /\ Len(t) = n - 1
      /\ \A j \in 1 .. n - 1 : t[j] = IF j < i THEN s[j] ELSE s[j + 1]
  BY LessIs, SeqHas
<1>2. \A j, k \in 1 .. n : s[j] = s[k] => j = k
  BY DEF Injective
<1> HIDE DEF t, n
<1>i. i \in 1 .. n
  BY DEF n
<1>3. ASSUME NEW j \in 1 .. n - 1, NEW k \in 1 .. n - 1, t[j] = t[k] PROVE j = k
  BY <1>i, <1>1, <1>2, <1>3
<1>4. ASSUME NEW j \in 1 .. n - 1 PROVE t[j] # s[i] /\ \E k \in 1 .. n : t[j] = s[k]
  BY <1>i, <1>1, <1>2
<1>5. ASSUME NEW k \in 1 .. n, k # i PROVE \E j \in 1 .. n - 1 : t[j] = s[k]
  <2>1. CASE k < i
    BY <1>i, <1>1, <2>1
  <2>2. CASE k > i
    <3>1. k - 1 \in 1 .. n - 1 /\ t[k - 1] = s[k]
      BY <1>i, <1>1, <2>2
    <3> QED
      BY <3>1
  <2> QED
    BY <1>i, <1>1, <1>5, <2>1, <2>2
<1>6. Injective(t)
  BY <1>1, <1>3 DEF Injective
<1>7. Elems(t) = {t[j] : j \in 1 .. n - 1} /\ Elems(s) = {s[j] : j \in 1 .. n}
  BY <1>1 DEF Elems, n
<1>8. Elems(t) = Elems(s) \ {s[i]}
  BY <1>i, <1>4, <1>5, <1>7
<1> QED
  BY <1>6, <1>8 DEF t

LEMMA MoreElems ==
  ASSUME NEW S, NEW s \in Seq(S), NEW x \in S, x \notin Elems(s), Injective(s)
  PROVE  Injective(More(s, x)) /\ Elems(More(s, x)) = Elems(s) \cup {x}
<1> DEFINE t == More(s, x)
           n == Len(s)
<1>1. /\ n \in Nat /\ Len(t) = n + 1
      /\ \A j \in 1 .. n + 1 : t[j] = IF j = n + 1 THEN x ELSE s[j]
  BY MoreIs, SeqHas
<1>2. /\ \A j, k \in 1 .. n : s[j] = s[k] => j = k
      /\ \A j \in 1 .. n : s[j] # x
  BY DEF Injective, Elems
<1> HIDE DEF t, n
<1>3. ASSUME NEW j \in 1 .. n + 1, NEW k \in 1 .. n + 1, t[j] = t[k] PROVE j = k
  BY <1>1, <1>2, <1>3
<1>4. Injective(t)
  BY <1>1, <1>3 DEF Injective
<1>5. Elems(t) = {t[j] : j \in 1 .. n + 1} /\ Elems(s) = {s[j] : j \in 1 .. n}
  BY <1>1 DEF Elems, n
<1>6. \A j \in 1 .. n : j \in 1 .. n + 1 /\ t[j] = s[j]
  BY <1>1
<1>7. n + 1 \in 1 .. n + 1 /\ t[n + 1] = x /\ \A j \in 1 .. n + 1 : j = n + 1 \/ j \in 1 .. n
  BY <1>1
<1>8. Elems(t) = Elems(s) \cup {x}
  BY <1>5, <1>6, <1>7
<1> QED
  BY <1>4, <1>8 DEF t

LEMMA PushElems ==
  ASSUME NEW S, NEW s \in Seq(S), NEW x \in S, x \notin Elems(s), Injective(s)
  PROVE  Injective(Push(x, s)) /\ Elems(Push(x, s)) = Elems(s) \cup {x}
<1> DEFINE t == Push(x, s)
           n == Len(s)
<1>1. /\ n \in Nat /\ Len(t) = n + 1
      /\ \A j \in 1 .. n + 1 : t[j] = IF j = 1 THEN x ELSE s[j - 1]
  BY PushIs, SeqHas
<1>2. /\ \A j, k \in 1 .. n : s[j] = s[k] => j = k
      /\ \A j \in 1 .. n : s[j] # x
  BY DEF Injective, Elems
<1> HIDE DEF t, n
<1>3. ASSUME NEW j \in 1 .. n + 1, NEW k \in 1 .. n + 1, t[j] = t[k] PROVE j = k
  BY <1>1, <1>2, <1>3
<1>4. Injective(t)
  BY <1>1, <1>3 DEF Injective
<1>5. Elems(t) = {t[j] : j \in 1 .. n + 1} /\ Elems(s) = {s[j] : j \in 1 .. n}
  BY <1>1 DEF Elems, n
<1>6. \A j \in 1 .. n : j + 1 \in 1 .. n + 1 /\ t[j + 1] = s[j]
  BY <1>1
<1>7. /\ 1 \in 1 .. n + 1 /\ t[1] = x
      /\ \A j \in 1 .. n + 1 : j = 1 \/ (j - 1 \in 1 .. n /\ t[j] = s[j - 1])
  BY <1>1
<1>8. Elems(t) = Elems(s) \cup {x}
  BY <1>5, <1>6, <1>7
<1> QED
  BY <1>4, <1>8 DEF t

LEMMA BackElems ==
  ASSUME NEW S, NEW a \in Seq(S), NEW b \in Seq(S), Injective(a), Injective(b),
         Elems(a) \cap Elems(b) = {}
  PROVE  Injective(Back(a, b)) /\ Elems(Back(a, b)) = Elems(a) \cup Elems(b)
<1> DEFINE t == Back(a, b)
           n == Len(a)
           m == Len(b)
<1>1. /\ n \in Nat /\ m \in Nat /\ Len(t) = n + m
      /\ \A j \in 1 .. n + m : t[j] = IF j <= n THEN a[n + 1 - j] ELSE b[j - n]
  BY BackIs, SeqHas
<1>2. /\ \A j, k \in 1 .. n : a[j] = a[k] => j = k
      /\ \A j, k \in 1 .. m : b[j] = b[k] => j = k
      /\ \A j \in 1 .. n, k \in 1 .. m : a[j] # b[k]
  BY SMTT(30) DEF Injective, Elems
<1> HIDE DEF t, n, m
<1>a. \A j \in 1 .. n + m : j <= n => n + 1 - j \in 1 .. n /\ t[j] = a[n + 1 - j]
  BY <1>1
<1>b. \A j \in 1 .. n + m : ~(j <= n) => j - n \in 1 .. m /\ t[j] = b[j - n]
  BY <1>1
<1>3. ASSUME NEW j \in 1 .. n + m, NEW k \in 1 .. n + m, t[j] = t[k] PROVE j = k
  <2>1. CASE j <= n /\ k <= n
    <3>1. n + 1 - j = n + 1 - k
      BY <1>2, <1>3, <1>a, <2>1
    <3> QED
      BY <1>1, <3>1
  <2>2. CASE ~(j <= n) /\ ~(k <= n)
    <3>1. j - n = k - n
      BY <1>2, <1>3, <1>b, <2>2
    <3> QED
      BY <1>1, <3>1
  <2>3. CASE j <= n /\ ~(k <= n)
    BY <1>2, <1>3, <1>a, <1>b, <2>3
  <2>4. CASE ~(j <= n) /\ k <= n
    BY <1>2, <1>3, <1>a, <1>b, <2>4
  <2> QED
    BY <2>1, <2>2, <2>3, <2>4
<1>4. Injective(t)
  BY <1>1, <1>3 DEF Injective
<1>5. /\ Elems(t) = {t[j] : j \in 1 .. n + m}
      /\ Elems(a) = {a[j] : j \in 1 .. n} /\ Elems(b) = {b[j] : j \in 1 .. m}
  BY <1>1 DEF Elems, n, m
<1>6. \A j \in 1 .. n : n + 1 - j \in 1 .. n + m /\ t[n + 1 - j] = a[j]
  BY <1>1
<1>7. \A j \in 1 .. m : n + j \in 1 .. n + m /\ t[n + j] = b[j]
  BY <1>1
<1>8. \A j \in 1 .. n + m : (\E k \in 1 .. n : t[j] = a[k]) \/ (\E k \in 1 .. m : t[j] = b[k])
  BY <1>a, <1>b
<1>9. Elems(t) = Elems(a) \cup Elems(b)
  <2>1. ASSUME NEW x \in Elems(t) PROVE x \in Elems(a) \/ x \in Elems(b)
    BY <1>5, <1>8
  <2>2. Elems(a) \subseteq Elems(t)
    BY <1>5, <1>6
  <2>3. Elems(b) \subseteq Elems(t)
    BY <1>5, <1>7
  <2> QED
    BY <2>1, <2>2, <2>3
<1> QED
  BY <1>4, <1>9 DEF t

------------------------------------------------------------------------------
(* The sum of the numbers of a sequence, through the sums of its beginnings. *)

Sums(P, f) == P = [k \in 0 .. Len(f) |-> IF k = 0 THEN 0 ELSE P[k - 1] + f[k]]

LEMMA SumsAre ==
  ASSUME NEW f \in Seq(Int), NEW P \in [0 .. Len(f) -> Int],
         P[0] = 0, \A k \in 1 .. Len(f) : P[k] = P[k - 1] + f[k]
  PROVE  Sums(P, f)
<1> DEFINE n == Len(f)
           Q == [k \in 0 .. n |-> IF k = 0 THEN 0 ELSE P[k - 1] + f[k]]
<1>1. n \in Nat
  BY SeqHas
<1>2. \A k \in 0 .. n : k = 0 \/ k \in 1 .. n
  BY <1>1
<1>3. \A k \in 0 .. n : P[k] = Q[k]
  BY <1>2
<1>4. P = Q
  BY <1>3
<1> QED
  BY <1>4 DEF Sums

LEMMA SumsExist ==
  ASSUME NEW f \in Seq(Int)
  PROVE  \E P \in [0 .. Len(f) -> Int] :
           Sums(P, f) /\ P[0] = 0 /\ \A k \in 1 .. Len(f) : P[k] = P[k - 1] + f[k]
<1> DEFINE N == Len(f)
           Is(P, n) == P[0] = 0 /\ \A k \in 1 .. n : P[k] = P[k - 1] + f[k]
           Has(n) == \E P \in [0 .. n -> Int] : Is(P, n)
           T == {n \in Nat : n <= N => Has(n)}
<1>1. N \in Nat /\ \A k \in 1 .. N : f[k] \in Int
  BY SeqHas
<1>2. 0 \in T
  <2> DEFINE P == [k \in 0 .. 0 |-> 0]
  <2>1. P \in [0 .. 0 -> Int] /\ Is(P, 0)
    OBVIOUS
  <2>2. Has(0)
    BY <2>1
  <2> HIDE DEF Has
  <2> QED
    BY <2>2
<1>3. ASSUME NEW n \in Nat, n <= N => Has(n), n + 1 <= N PROVE Has(n + 1)
  <2>1. n \in Nat
    OBVIOUS
  <2>2. n + 1 <= N
    BY <1>3
  <2>3. PICK P \in [0 .. n -> Int] : Is(P, n)
    <3>1. Has(n)
      <4> HIDE DEF Has
      <4> QED
        BY <1>1, <1>3
    <3> QED
      BY <3>1
  <2> DEFINE R == [k \in 0 .. n + 1 |-> IF k = n + 1 THEN P[n] + f[n + 1] ELSE P[k]]
  <2>4. n \in 0 .. n /\ n + 1 \in 1 .. N /\ \A k \in 0 .. n + 1 : k = n + 1 \/ k \in 0 .. n
    BY <1>1, <2>1, <2>2
  <2>5. P[n] \in Int /\ f[n + 1] \in Int
    BY <1>1, <2>4
  <2>6. R \in [0 .. n + 1 -> Int]
    BY <2>3, <2>4, <2>5
  <2>7. R[0] = 0
    BY <2>1, <2>3
  <2>8. ASSUME NEW k \in 1 .. n + 1 PROVE R[k] = R[k - 1] + f[k]
    <3>1. CASE k = n + 1
      <4>1. R[k] = P[n] + f[n + 1] /\ R[n] = P[n] /\ k - 1 = n
        BY <2>1, <2>4, <3>1
      <4> QED
        BY <3>1, <4>1
    <3>2. CASE k # n + 1
      <4>1. k \in 1 .. n /\ k - 1 \in 0 .. n + 1 /\ k - 1 # n + 1 /\ k \in 0 .. n + 1
        BY <2>1, <3>2
      <4>2. R[k] = P[k] /\ R[k - 1] = P[k - 1]
        BY <3>2, <4>1
      <4> QED
        BY <2>3, <4>1, <4>2
    <3> QED
      BY <3>1, <3>2
  <2> QED
    BY <2>6, <2>7, <2>8
<1>4. T \in SUBSET Nat /\ \A n \in T : n + 1 \in T
  <2> HIDE DEF Has
  <2> QED
    BY <1>3
<1>5. Has(N)
  <2> HIDE DEF Has
  <2>1. T = Nat
    <3> HIDE DEF T
    <3> QED
      BY <1>2, <1>4, Upwards
  <2> QED
    BY <1>1, <2>1
<1>6. PICK P \in [0 .. N -> Int] : Is(P, N)
  BY <1>1, <1>5
<1>7. Sums(P, f)
  BY <1>6, SumsAre
<1> QED
  BY <1>6, <1>7

LEMMA SumsOne ==
  ASSUME NEW f \in Seq(Int), NEW P, NEW R, Sums(P, f), Sums(R, f)
  PROVE  P[Len(f)] = R[Len(f)]
<1> DEFINE N == Len(f)
           T == {n \in Nat : n <= N => P[n] = R[n]}
<1>1. N \in Nat
  BY SeqHas
<1>2. /\ \A k \in 0 .. N : P[k] = IF k = 0 THEN 0 ELSE P[k - 1] + f[k]
      /\ \A k \in 0 .. N : R[k] = IF k = 0 THEN 0 ELSE R[k - 1] + f[k]
  <2>1. P = [k \in 0 .. Len(f) |-> IF k = 0 THEN 0 ELSE P[k - 1] + f[k]]
    BY DEF Sums
  <2>2. R = [k \in 0 .. Len(f) |-> IF k = 0 THEN 0 ELSE R[k - 1] + f[k]]
    BY DEF Sums
  <2>3. \A k \in 0 .. N : P[k] = IF k = 0 THEN 0 ELSE P[k - 1] + f[k]
    BY <2>1
  <2>4. \A k \in 0 .. N : R[k] = IF k = 0 THEN 0 ELSE R[k - 1] + f[k]
    BY <2>2
  <2> QED
    BY <2>3, <2>4
<1>3. 0 \in T
  BY <1>1, <1>2
<1>4. ASSUME NEW n \in T PROVE n + 1 \in T
  <2>1. n \in Nat /\ (n <= N => P[n] = R[n])
    OBVIOUS
  <2>2. SUFFICES ASSUME n + 1 <= N PROVE P[n + 1] = R[n + 1]
    BY <2>1
  <2>3. n + 1 \in 0 .. N /\ n + 1 # 0 /\ (n + 1) - 1 = n /\ n <= N
    BY <1>1, <2>1, <2>2
  <2>4. P[n + 1] = P[n] + f[n + 1] /\ R[n + 1] = R[n] + f[n + 1]
    BY <1>2, <2>3
  <2> QED
    BY <2>1, <2>3, <2>4
<1>5. T \in SUBSET Nat
  OBVIOUS
<1> HIDE DEF T
<1>6. T = Nat
  BY <1>3, <1>4, <1>5, Upwards
<1> QED
  BY <1>1, <1>6 DEF T

LEMMA TotalIs ==
  ASSUME NEW f \in Seq(Int), NEW P, Sums(P, f)
  PROVE  Total(f) = P[Len(f)]
<1> DEFINE U == CHOOSE g : g = [n \in 0 .. Len(f) |-> IF n = 0 THEN 0 ELSE g[n - 1] + f[n]]
<1>1. Sums(U, f)
  <2>1. \E g : g = [n \in 0 .. Len(f) |-> IF n = 0 THEN 0 ELSE g[n - 1] + f[n]]
    BY DEF Sums
  <2>2. U = [n \in 0 .. Len(f) |-> IF n = 0 THEN 0 ELSE U[n - 1] + f[n]]
    BY <2>1
  <2> QED
    BY <2>2 DEF Sums
<1>2. Total(f) = U[Len(f)]
  BY DEF Total
<1> HIDE DEF U
<1> QED
  BY <1>1, <1>2, SumsOne

LEMMA TotalEmpty ==
  ASSUME NEW f \in Seq(Int), Len(f) = 0
  PROVE  Total(f) = 0
BY SumsExist, TotalIs

LEMMA TotalMore ==
  ASSUME NEW f \in Seq(Int), NEW x \in Int
  PROVE  Total(f) \in Int /\ Total(More(f, x)) = Total(f) + x
<1> DEFINE g == More(f, x)
           n == Len(f)
<1>1. PICK P \in [0 .. n -> Int] :
        Sums(P, f) /\ P[0] = 0 /\ \A k \in 1 .. n : P[k] = P[k - 1] + f[k]
  BY SumsExist
<1>2. /\ n \in Nat /\ g \in Seq(Int) /\ Len(g) = n + 1
      /\ \A j \in 1 .. n + 1 : g[j] = IF j = n + 1 THEN x ELSE f[j]
  <2> DEFINE I == Int
  <2>1. f \in Seq(I) /\ x \in I /\ n \in Nat
    BY SeqHas
  <2> HIDE DEF I
  <2>2. /\ g \in Seq(I) /\ Len(g) = n + 1
        /\ \A j \in 1 .. n + 1 : g[j] = IF j = n + 1 THEN x ELSE f[j]
    BY <2>1, MoreIs
  <2> QED
    BY <2>1, <2>2 DEF I
<1>3. Total(f) = P[n] /\ P[n] \in Int
  BY <1>1, <1>2, TotalIs
<1> HIDE DEF g, n
<1> DEFINE R == [k \in 0 .. n + 1 |-> IF k = n + 1 THEN P[n] + x ELSE P[k]]
<1>4. R \in [0 .. n + 1 -> Int]
  BY <1>1, <1>2, <1>3
<1>5. R[0] = 0
  BY <1>1, <1>2
<1>6. ASSUME NEW k \in 1 .. n + 1 PROVE R[k] = R[k - 1] + g[k]
  <2>1. CASE k = n + 1
    <3>1. R[k] = P[n] + x /\ R[n] = P[n] /\ k - 1 = n /\ g[k] = x
      BY <1>2, <2>1
    <3> QED
      BY <3>1
  <2>2. CASE k # n + 1
    <3>1. k \in 1 .. n /\ k - 1 \in 0 .. n + 1 /\ k - 1 # n + 1 /\ k \in 0 .. n + 1
      BY <1>2, <2>2
    <3>2. R[k] = P[k] /\ R[k - 1] = P[k - 1] /\ g[k] = f[k]
      BY <1>2, <2>2, <3>1
    <3> QED
      BY <1>1, <3>1, <3>2
  <2> QED
    BY <2>1, <2>2
<1>7. R[n + 1] = P[n] + x
  BY <1>2
<1> HIDE DEF R
<1>8. Sums(R, g)
  BY <1>2, <1>4, <1>5, <1>6, SumsAre
<1>9. Total(g) = R[n + 1]
  BY <1>2, <1>8, TotalIs
<1> QED
  BY <1>3, <1>7, <1>9 DEF g

LEMMA TotalLess ==
  ASSUME NEW f \in Seq(Int), NEW i \in 1 .. Len(f)
  PROVE  Total(Less(f, i)) = Total(f) - f[i]
<1> DEFINE g == Less(f, i)
           n == Len(f)
<1>1. PICK P \in [0 .. n -> Int] :
        Sums(P, f) /\ P[0] = 0 /\ \A k \in 1 .. n : P[k] = P[k - 1] + f[k]
  BY SumsExist
<1>2. /\ n \in Nat /\ g \in Seq(Int) /\ Len(g) = n - 1
      /\ \A j \in 1 .. n - 1 : g[j] = IF j < i THEN f[j] ELSE f[j + 1]
      /\ \A j \in 1 .. n : f[j] \in Int
  BY LessIs, SeqHas
<1>3. Total(f) = P[n] /\ i \in 1 .. n
  BY <1>1, TotalIs
<1> HIDE DEF g, n
<1> DEFINE R == [k \in 0 .. n - 1 |-> IF k < i THEN P[k] ELSE P[k + 1] - f[i]]
<1>4. ASSUME NEW k \in 0 .. n - 1
      PROVE  /\ k \in 0 .. n /\ k + 1 \in 0 .. n /\ k + 1 \in 1 .. n
             /\ R[k] = IF k < i THEN P[k] ELSE P[k + 1] - f[i]
  BY <1>2
<1>5. R \in [0 .. n - 1 -> Int]
  <2>1. f[i] \in Int
    BY <1>2, <1>3
  <2>2. ASSUME NEW k \in 0 .. n - 1 PROVE P[k] \in Int /\ P[k + 1] - f[i] \in Int
    BY SMTT(30), <1>1, <1>4, <2>1
  <2> QED
    BY <2>2
<1>6. R[0] = 0
  BY <1>1, <1>2, <1>3
<1>7. ASSUME NEW k \in 1 .. n - 1 PROVE R[k] = R[k - 1] + g[k]
  <2>1. k \in 1 .. n /\ k + 1 \in 1 .. n /\ k - 1 \in 0 .. n - 1 /\ k \in 0 .. n - 1 /\ (k + 1) - 1 = k
    BY <1>2
  <2>2. P[k] = P[k - 1] + f[k] /\ P[k + 1] = P[k] + f[k + 1] /\ P[k] \in Int /\ P[k - 1] \in Int
    <3>1. k \in 0 .. n /\ k - 1 \in 0 .. n
      BY <1>2, <2>1
    <3>2. P[k + 1] = P[(k + 1) - 1] + f[k + 1]
      BY <1>1, <2>1
    <3> QED
      BY <1>1, <2>1, <3>1, <3>2
  <2>3. R[k] = (IF k < i THEN P[k] ELSE P[k + 1] - f[i])
    BY <1>4, <2>1
  <2>4. R[k - 1] = (IF k - 1 < i THEN P[k - 1] ELSE P[k] - f[i])
    BY <2>1
  <2>5. f[k] \in Int /\ f[k + 1] \in Int /\ f[i] \in Int /\ g[k] = IF k < i THEN f[k] ELSE f[k + 1]
    BY <1>2, <1>3, <2>1
  <2>6. CASE k < i
    BY <2>1, <2>2, <2>3, <2>4, <2>5, <2>6
  <2>7. CASE k = i
    BY SMTT(30), <2>1, <2>2, <2>3, <2>4, <2>5, <2>7
  <2>8. CASE k > i
    BY SMTT(30), <1>3, <2>1, <2>2, <2>3, <2>4, <2>5, <2>8
  <2> QED
    BY <1>3, <2>1, <2>6, <2>7, <2>8
<1>8. R[n - 1] = P[n] - f[i]
  <2>1. n - 1 \in 0 .. n - 1 /\ (n - 1) + 1 = n
    BY <1>2, <1>3
  <2>2. CASE n - 1 < i
    <3>1. i = n
      BY <1>2, <1>3, <2>2
    <3>2. P[n] = P[n - 1] + f[n] /\ P[n - 1] \in Int /\ f[n] \in Int /\ P[n] \in Int
      BY <1>1, <1>2, <1>3, <3>1
    <3>3. R[n - 1] = P[n - 1]
      BY <2>1, <2>2
    <3> QED
      BY <3>1, <3>2, <3>3
  <2>3. CASE ~(n - 1 < i)
    BY <2>1, <2>3
  <2> QED
    BY <2>2, <2>3
<1> HIDE DEF R
<1>9. Sums(R, g)
  BY <1>2, <1>5, <1>6, <1>7, SumsAre
<1>10. Total(g) = R[n - 1]
  BY <1>2, <1>9, TotalIs
<1> QED
  BY <1>3, <1>8, <1>10 DEF g, n

------------------------------------------------------------------------------
(* Chains of headers.                                                      *)

LEMMA Constants ==
  /\ MSGMNI \in Nat /\ MSGMNI > 0 /\ MSGTQL \in Nat /\ MSGTQL > 0 /\ MSGSEG \in Nat
  /\ MSGSSZ \in Nat /\ MSGSSZ > 0 /\ MaxSeq \in Nat /\ MSGMNB \in Nat
BY MsgAssumption

(* The headers ms are what is found from h on.                             *)
Chain(m, h, ms) ==
  /\ ms \in Seq(Hdr) /\ Injective(ms)
  /\ h = IF Len(ms) = 0 THEN 0 ELSE ms[1]
  /\ \A i \in 1 .. Len(ms) : m[ms[i]].next = IF i = Len(ms) THEN 0 ELSE ms[i + 1]

LEMMA ChainShort ==
  ASSUME NEW ms \in Seq(Hdr), Injective(ms)
  PROVE  Len(ms) <= MSGTQL
<1>1. IsFiniteSet(Hdr) /\ Cardinality(Hdr) = MSGTQL
  BY Constants, FS_Interval DEF Hdr
<1>2. Len(ms) \in Nat /\ ms \in [1 .. Len(ms) -> Hdr]
  BY SeqHas
<1>3. ms \in Injection(1 .. Len(ms), Hdr)
  BY <1>2 DEF Injective, Injection, IsInjective
<1>4. Cardinality(1 .. Len(ms)) <= Cardinality(Hdr)
  BY <1>1, <1>3, FS_Injection
<1>5. Cardinality(1 .. Len(ms)) = Len(ms)
  BY SMTT(30), <1>2, FS_Interval
<1> QED
  BY <1>1, <1>4, <1>5

(* List(), of any headers m.                                               *)
Step(m, l) == IF l.at = 0 THEN l ELSE [at |-> m[l.at].next, ms |-> Append(l.ms, l.at)]
Walks(w, m, h) ==
  w = [n \in 0 .. MSGTQL |->
         IF n = 0 THEN [at |-> h, ms |-> <<>>] ELSE Step(m, w[n - 1])]
ListIn(m, h) ==
  LET Walk[n \in 0 .. MSGTQL] ==
        IF n = 0 THEN [at |-> h, ms |-> <<>>]
        ELSE LET l == Walk[n - 1]
             IN IF l.at = 0 THEN l ELSE [at |-> m[l.at].next, ms |-> Append(l.ms, l.at)]
  IN Walk[MSGTQL].ms

LEMMA ListHere == \A h : List(h) = ListIn(msgh, h)
BY DEF List, ListIn

LEMMA WalksOne ==
  ASSUME NEW m, NEW h, NEW v, NEW w, Walks(v, m, h), Walks(w, m, h)
  PROVE  v[MSGTQL] = w[MSGTQL]
<1> DEFINE N == MSGTQL
           T == {n \in Nat : n <= N => v[n] = w[n]}
<1>1. N \in Nat
  BY Constants
<1>2. /\ \A n \in 0 .. N : v[n] = IF n = 0 THEN [at |-> h, ms |-> <<>>] ELSE Step(m, v[n - 1])
      /\ \A n \in 0 .. N : w[n] = IF n = 0 THEN [at |-> h, ms |-> <<>>] ELSE Step(m, w[n - 1])
  <2>1. v = [n \in 0 .. N |-> IF n = 0 THEN [at |-> h, ms |-> <<>>] ELSE Step(m, v[n - 1])]
    BY DEF Walks
  <2>2. w = [n \in 0 .. N |-> IF n = 0 THEN [at |-> h, ms |-> <<>>] ELSE Step(m, w[n - 1])]
    BY DEF Walks
  <2>3. \A n \in 0 .. N : v[n] = IF n = 0 THEN [at |-> h, ms |-> <<>>] ELSE Step(m, v[n - 1])
    BY <2>1
  <2>4. \A n \in 0 .. N : w[n] = IF n = 0 THEN [at |-> h, ms |-> <<>>] ELSE Step(m, w[n - 1])
    BY <2>2
  <2> QED
    BY <2>3, <2>4
<1>3. 0 \in T
  <2>1. 0 \in 0 .. N
    BY <1>1
  <2>2. v[0] = w[0]
    BY <1>2, <2>1
  <2> QED
    BY <2>2
<1>4. ASSUME NEW n \in T PROVE n + 1 \in T
  <2>1. n \in Nat /\ (n <= N => v[n] = w[n])
    OBVIOUS
  <2>2. SUFFICES ASSUME n + 1 <= N PROVE v[n + 1] = w[n + 1]
    BY <2>1
  <2>3. n + 1 \in 0 .. N /\ n + 1 # 0 /\ (n + 1) - 1 = n /\ n <= N
    BY <1>1, <2>1, <2>2
  <2>4. v[n + 1] = Step(m, v[n]) /\ w[n + 1] = Step(m, w[n])
    BY <1>2, <2>3
  <2> QED
    BY <2>1, <2>3, <2>4
<1>5. T \in SUBSET Nat
  OBVIOUS
<1> HIDE DEF T
<1>6. T = Nat
  BY <1>3, <1>4, <1>5, Upwards
<1> QED
  BY <1>1, <1>6 DEF T

LEMMA SubSeqMore ==
  ASSUME NEW S, NEW s \in Seq(S), NEW n \in 1 .. Len(s)
  PROVE  Append(SubSeq(s, 1, n - 1), s[n]) = SubSeq(s, 1, n)
<1>1. Len(s) \in Nat /\ \A i \in 1 .. Len(s) : s[i] \in S
  BY SeqHas
<1> DEFINE a == SubSeq(s, 1, n - 1)
           b == SubSeq(s, 1, n)
<1>2. a \in Seq(S) /\ Len(a) = n - 1 /\ \A i \in 1 .. n - 1 : a[i] = s[i]
  <2>1. \A i \in 1 .. n - 1 : s[i] \in S
    BY <1>1
  <2>2. /\ a \in Seq(S) /\ Len(a) = (IF 1 <= n - 1 THEN (n - 1) - 1 + 1 ELSE 0)
        /\ \A i \in 1 .. (n - 1) - 1 + 1 : a[i] = s[1 + i - 1]
    BY <1>1, <2>1, SubSeqProperties
  <2> QED
    BY <1>1, <2>2
<1>3. b \in Seq(S) /\ Len(b) = n /\ \A i \in 1 .. n : b[i] = s[i]
  <2>1. \A i \in 1 .. n : s[i] \in S
    BY <1>1
  <2>2. /\ b \in Seq(S) /\ Len(b) = (IF 1 <= n THEN n - 1 + 1 ELSE 0)
        /\ \A i \in 1 .. n - 1 + 1 : b[i] = s[1 + i - 1]
    BY <1>1, <2>1, SubSeqProperties
  <2> QED
    BY <1>1, <2>2
<1> HIDE DEF a, b
<1>4. s[n] \in S
  BY <1>1
<1> DEFINE c == Append(a, s[n])
<1>5. c \in Seq(S) /\ Len(c) = n /\ \A i \in 1 .. n : c[i] = s[i]
  <2>1. c \in Seq(S) /\ Len(c) = Len(a) + 1 /\ \A i \in 1 .. Len(c) : c[i] = IF i = Len(c) THEN s[n] ELSE a[i]
    BY <1>2, <1>4, AppendProperties
  <2> QED
    BY <1>2, <2>1
<1> HIDE DEF c
<1>6. c = b
  BY <1>3, <1>5, SeqEqual
<1> QED
  BY <1>6 DEF a, b, c

(* The list from h on is the chain that starts there.                      *)
LEMMA ListIs ==
  ASSUME NEW m, NEW h, NEW ms, Chain(m, h, ms)
  PROVE  ListIn(m, h) = ms
<1> DEFINE N == Len(ms)
           at(n) == IF n < N THEN ms[n + 1] ELSE 0
           got(n) == IF n < N THEN SubSeq(ms, 1, n) ELSE ms
           V == [n \in 0 .. MSGTQL |-> [at |-> at(n), ms |-> got(n)]]
<1>1. /\ N \in Nat /\ \A i \in 1 .. N : ms[i] \in Hdr /\ ms[i] # 0
      /\ MSGTQL \in Nat /\ N <= MSGTQL /\ ms \in Seq(Hdr)
  BY Constants, ChainShort, SeqHas DEF Chain, Hdr
<1>2. at(0) = h /\ got(0) = <<>>
  <2>1. at(0) = h
    BY <1>1 DEF Chain
  <2>2. got(0) = <<>>
    <3>1. CASE N = 0
      <4>1. ms = <<>>
        BY <1>1, <3>1, EmptySeq
      <4> QED
        BY <3>1, <4>1
    <3>2. CASE N > 0
      BY <1>1, <3>2, SubSeqEmpty
    <3> QED
      BY <1>1, <3>1, <3>2
  <2> QED
    BY <2>1, <2>2
<1>3. ASSUME NEW n \in 1 .. MSGTQL
      PROVE  [at |-> at(n), ms |-> got(n)] = Step(m, [at |-> at(n - 1), ms |-> got(n - 1)])
  <2> DEFINE l == [at |-> at(n - 1), ms |-> got(n - 1)]
  <2>1. CASE n - 1 < N
    <3>1. n \in 1 .. N /\ (n - 1) + 1 = n
      BY <1>1, <2>1
    <3>2. l.at = ms[n] /\ l.ms = SubSeq(ms, 1, n - 1) /\ ms[n] # 0
      BY <1>1, <2>1, <3>1
    <3> HIDE DEF l
    <3>3. Step(m, l) = [at |-> m[ms[n]].next, ms |-> Append(SubSeq(ms, 1, n - 1), ms[n])]
      BY <3>2 DEF Step
    <3>4. m[ms[n]].next = at(n)
      BY <1>1, <3>1 DEF Chain
    <3>5. Append(SubSeq(ms, 1, n - 1), ms[n]) = SubSeq(ms, 1, n)
      BY <1>1, <3>1, SubSeqMore
    <3>6. SubSeq(ms, 1, N) = ms
      BY <1>1, SubSeqFull
    <3>7. SubSeq(ms, 1, n) = got(n)
      BY <1>1, <3>1, <3>6
    <3> QED
      BY <3>3, <3>4, <3>5, <3>7 DEF l
  <2>2. CASE ~(n - 1 < N)
    <3>1. l.at = 0 /\ l = [at |-> 0, ms |-> ms]
      BY <2>2
    <3>2. at(n) = 0 /\ got(n) = ms
      BY <1>1, <2>2
    <3> HIDE DEF l
    <3>3. Step(m, l) = l
      BY <3>1 DEF Step
    <3> QED
      BY <3>1, <3>2, <3>3 DEF l
  <2> QED
    BY <2>1, <2>2
<1> HIDE DEF at, got
<1>4. Walks(V, m, h)
  <2> DEFINE V2 == [n \in 0 .. MSGTQL |-> IF n = 0 THEN [at |-> h, ms |-> <<>>] ELSE Step(m, V[n - 1])]
  <2>1. ASSUME NEW n \in 0 .. MSGTQL PROVE V[n] = V2[n]
    <3>1. CASE n = 0
      BY <1>1, <1>2, <3>1
    <3>2. CASE n # 0
      <4>1. n \in 1 .. MSGTQL /\ n - 1 \in 0 .. MSGTQL
        BY <1>1, <3>2
      <4>2. V[n] = Step(m, V[n - 1])
        BY <1>3, <4>1
      <4> QED
        BY <3>2, <4>2
    <3> QED
      BY <3>1, <3>2
  <2>2. V = V2
    BY <2>1
  <2> QED
    BY <2>2 DEF Walks
<1> DEFINE W == CHOOSE w : w = [n \in 0 .. MSGTQL |->
                  IF n = 0 THEN [at |-> h, ms |-> <<>>]
                  ELSE IF w[n - 1].at = 0 THEN w[n - 1]
                  ELSE [at |-> m[w[n - 1].at].next, ms |-> Append(w[n - 1].ms, w[n - 1].at)]]
<1>5. Walks(W, m, h)
  <2>1. \E w : w = [n \in 0 .. MSGTQL |->
                  IF n = 0 THEN [at |-> h, ms |-> <<>>]
                  ELSE IF w[n - 1].at = 0 THEN w[n - 1]
                  ELSE [at |-> m[w[n - 1].at].next, ms |-> Append(w[n - 1].ms, w[n - 1].at)]]
    BY Zenon, <1>4 DEF Walks, Step
  <2>2. W = [n \in 0 .. MSGTQL |->
                  IF n = 0 THEN [at |-> h, ms |-> <<>>]
                  ELSE IF W[n - 1].at = 0 THEN W[n - 1]
                  ELSE [at |-> m[W[n - 1].at].next, ms |-> Append(W[n - 1].ms, W[n - 1].at)]]
    BY Zenon, <2>1
  <2> QED
    BY Zenon, <2>2 DEF Walks, Step
<1>6. ListIn(m, h) = W[MSGTQL].ms
  BY DEF ListIn
<1>7. V[MSGTQL].ms = ms
  BY <1>1 DEF got
<1> HIDE DEF V, W
<1>8. V[MSGTQL] = W[MSGTQL]
  BY <1>4, <1>5, WalksOne
<1> QED
  BY <1>6, <1>7, <1>8

LEMMA ChainHas ==
  ASSUME NEW m, NEW h, NEW ms, Chain(m, h, ms)
  PROVE  /\ Len(ms) \in Nat /\ ms \in Seq(Hdr) /\ Injective(ms) /\ 0 \notin Hdr
         /\ \A i \in 1 .. Len(ms) : ms[i] \in Hdr
         /\ \A i, j \in 1 .. Len(ms) : ms[i] = ms[j] => i = j
         /\ h = 0 <=> Len(ms) = 0
         /\ h # 0 => 1 \in 1 .. Len(ms) /\ h = ms[1] /\ h \in Hdr
<1>1. Len(ms) \in Nat /\ ms \in Seq(Hdr) /\ Injective(ms) /\ \A i \in 1 .. Len(ms) : ms[i] \in Hdr
  BY SeqHas DEF Chain
<1>2. 0 \notin Hdr
  BY DEF Hdr
<1>3. Len(ms) # 0 => 1 \in 1 .. Len(ms)
  BY <1>1
<1> QED
  BY <1>1, <1>2, <1>3 DEF Chain, Injective

LEMMA ChainKeeps ==
  ASSUME NEW m, NEW h, NEW ms, Chain(m, h, ms), NEW m2,
         \A g \in Elems(ms) : m2[g].next = m[g].next
  PROVE  Chain(m2, h, ms)
<1>1. \A i \in 1 .. Len(ms) : m2[ms[i]].next = m[ms[i]].next
  BY DEF Elems
<1> QED
  BY <1>1 DEF Chain

(* One more header behind the last.                                        *)
LEMMA ChainMore ==
  ASSUME NEW m, NEW h, NEW ms, Chain(m, h, ms), NEW x \in Hdr, x \notin Elems(ms),
         NEW m2, m2[x].next = 0,
         \A i \in 1 .. Len(ms) : m2[ms[i]].next = IF i = Len(ms) THEN x ELSE m[ms[i]].next
  PROVE  Chain(m2, IF Len(ms) = 0 THEN x ELSE h, More(ms, x))
<1> DEFINE t == More(ms, x)
           n == Len(ms)
<1>1. /\ n \in Nat /\ ms \in Seq(Hdr) /\ t \in Seq(Hdr) /\ Len(t) = n + 1 /\ Injective(t)
      /\ \A j \in 1 .. n + 1 : t[j] = IF j = n + 1 THEN x ELSE ms[j]
  BY ChainHas, MoreIs, MoreElems
<1>2. /\ \A i \in 1 .. n : m2[ms[i]].next = IF i = n THEN x ELSE ms[i + 1]
      /\ n # 0 => h = ms[1]
  BY DEF Chain
<1> HIDE DEF t, n
<1>3. t[1] = IF n = 0 THEN x ELSE h
  BY <1>1, <1>2
<1>4. ASSUME NEW i \in 1 .. n + 1
      PROVE  m2[t[i]].next = IF i = n + 1 THEN 0 ELSE t[i + 1]
  <2>1. CASE i = n + 1
    BY <1>1, <2>1
  <2>2. CASE i # n + 1
    <3>1. i \in 1 .. n /\ i + 1 \in 1 .. n + 1 /\ (i + 1 = n + 1 <=> i = n)
      BY <1>1, <2>2
    <3>2. t[i] = ms[i] /\ t[i + 1] = IF i = n THEN x ELSE ms[i + 1]
      BY <1>1, <2>2, <3>1
    <3> QED
      BY <1>2, <2>2, <3>1, <3>2
  <2> QED
    BY <2>1, <2>2
<1>5. Chain(m2, IF n = 0 THEN x ELSE h, t)
  <2>1. Len(t) # 0
    BY <1>1
  <2> QED
    BY <1>1, <1>3, <1>4, <2>1 DEF Chain
<1> QED
  BY <1>5 DEF t, n

(* Header i unlinked.                                                      *)
LEMMA ChainLess ==
  ASSUME NEW m, NEW h, NEW ms, Chain(m, h, ms), NEW i \in 1 .. Len(ms), NEW m2,
         \A j \in 1 .. Len(ms) :
           j # i => m2[ms[j]].next = IF j = i - 1 THEN m[ms[i]].next ELSE m[ms[j]].next
  PROVE  Chain(m2, IF i = 1 THEN m[ms[i]].next ELSE h, Less(ms, i))
<1> DEFINE t == Less(ms, i)
           n == Len(ms)
<1>1. /\ n \in Nat /\ ms \in Seq(Hdr) /\ t \in Seq(Hdr) /\ Len(t) = n - 1 /\ Injective(t)
      /\ \A j \in 1 .. n - 1 : t[j] = IF j < i THEN ms[j] ELSE ms[j + 1]
  BY ChainHas, LessIs, LessElems
<1>2. /\ \A j \in 1 .. n : m[ms[j]].next = IF j = n THEN 0 ELSE ms[j + 1]
      /\ h = ms[1]
  BY <1>1 DEF Chain
<1>3. /\ i \in 1 .. n
      /\ \A j \in 1 .. n : j # i => m2[ms[j]].next = IF j = i - 1 THEN m[ms[i]].next ELSE m[ms[j]].next
  OBVIOUS
<1> HIDE DEF t, n
<1>4. n - 1 # 0 => t[1] = IF i = 1 THEN m[ms[i]].next ELSE h
  <2>1. SUFFICES ASSUME n - 1 # 0 PROVE t[1] = IF i = 1 THEN m[ms[i]].next ELSE h
    OBVIOUS
  <2>2. 1 \in 1 .. n - 1 /\ 1 \in 1 .. n /\ 1 # n
    BY <1>1, <1>3, <2>1
  <2>3. t[1] = IF 1 < i THEN ms[1] ELSE ms[1 + 1]
    BY <1>1, <2>2
  <2>4. m[ms[1]].next = ms[1 + 1]
    BY <1>2, <2>2
  <2> QED
    BY <1>2, <1>3, <2>3, <2>4
<1>5. n - 1 = 0 => (IF i = 1 THEN m[ms[i]].next ELSE h) = 0
  BY <1>2, <1>3
<1>6. ASSUME NEW j \in 1 .. n - 1
      PROVE  m2[t[j]].next = IF j = n - 1 THEN 0 ELSE t[j + 1]
  <2>1. j \in 1 .. n /\ j + 1 \in 1 .. n /\ (j # n - 1 => j + 1 \in 1 .. n - 1) /\ j # n
    BY <1>1
  <2>2. CASE j < i - 1
    <3>1. t[j] = ms[j] /\ t[j + 1] = ms[j + 1] /\ j # n - 1
      BY <1>1, <1>3, <2>1, <2>2
    <3>2. m2[ms[j]].next = ms[j + 1]
      BY <1>2, <1>3, <2>1, <2>2
    <3> QED
      BY <3>1, <3>2
  <2>3. CASE j = i - 1
    <3>1. t[j] = ms[j] /\ m2[ms[j]].next = m[ms[i]].next
      BY <1>1, <1>3, <2>1, <2>3
    <3>2. m[ms[i]].next = IF i = n THEN 0 ELSE ms[i + 1]
      BY <1>2, <1>3
    <3>3. j # n - 1 => t[j + 1] = ms[i + 1] /\ i # n
      <4>1. SUFFICES ASSUME j # n - 1 PROVE t[j + 1] = ms[i + 1] /\ i # n
        OBVIOUS
      <4>2. j + 1 \in 1 .. n - 1 /\ j + 1 = i
        BY <1>3, <2>1, <2>3, <4>1
      <4>3. t[j + 1] = ms[(j + 1) + 1]
        BY <1>1, <4>2
      <4> QED
        BY <1>3, <2>3, <4>1, <4>2, <4>3
    <3>4. j = n - 1 => i = n
      BY <1>1, <1>3, <2>3
    <3> QED
      BY <3>1, <3>2, <3>3, <3>4
  <2>4. CASE j >= i
    <3>1. t[j] = ms[j + 1] /\ j + 1 # i /\ j + 1 # i - 1
      BY <1>1, <1>3, <2>1, <2>4
    <3>2. m2[ms[j + 1]].next = m[ms[j + 1]].next
      BY <1>3, <2>1, <3>1
    <3>3. m[ms[j + 1]].next = IF j + 1 = n THEN 0 ELSE ms[(j + 1) + 1]
      BY <1>2, <2>1
    <3>4. j # n - 1 => t[j + 1] = ms[(j + 1) + 1]
      <4>1. SUFFICES ASSUME j # n - 1 PROVE t[j + 1] = ms[(j + 1) + 1]
        OBVIOUS
      <4>2. j + 1 \in 1 .. n - 1 /\ ~(j + 1 < i)
        BY <1>3, <2>1, <2>4, <4>1
      <4> QED
        BY <1>1, <4>2
    <3>5. j + 1 = n <=> j = n - 1
      BY <1>1, <2>1
    <3> QED
      BY <3>1, <3>2, <3>3, <3>4, <3>5
  <2> QED
    BY <1>3, <2>1, <2>2, <2>3, <2>4
<1>7. Chain(m2, IF i = 1 THEN m[ms[i]].next ELSE h, t)
  BY <1>1, <1>4, <1>5, <1>6 DEF Chain
<1> QED
  BY <1>7 DEF t

(* One more header before the first.                                       *)
LEMMA ChainPush ==
  ASSUME NEW m, NEW h, NEW ms, Chain(m, h, ms), NEW x \in Hdr, x \notin Elems(ms),
         NEW m2, m2[x].next = h, \A g \in Elems(ms) : m2[g].next = m[g].next
  PROVE  Chain(m2, x, Push(x, ms))
<1> DEFINE t == Push(x, ms)
           n == Len(ms)
<1>1. /\ n \in Nat /\ ms \in Seq(Hdr) /\ t \in Seq(Hdr) /\ Len(t) = n + 1 /\ Injective(t)
      /\ \A j \in 1 .. n + 1 : t[j] = IF j = 1 THEN x ELSE ms[j - 1]
  <2>1. n \in Nat /\ ms \in Seq(Hdr) /\ Injective(ms)
    BY ChainHas
  <2>2. Injective(t)
    BY <2>1, PushElems
  <2>3. /\ t \in Seq(Hdr) /\ Len(t) = n + 1
        /\ \A j \in 1 .. n + 1 : t[j] = IF j = 1 THEN x ELSE ms[j - 1]
    BY <2>1, PushIs
  <2> QED
    BY <2>1, <2>2, <2>3
<1>2. /\ \A i \in 1 .. n : m2[ms[i]].next = IF i = n THEN 0 ELSE ms[i + 1]
      /\ h = IF n = 0 THEN 0 ELSE ms[1]
  BY DEF Chain, Elems
<1> HIDE DEF t, n
<1>3. t[1] = x /\ Len(t) # 0
  BY <1>1
<1>4. ASSUME NEW i \in 1 .. n + 1
      PROVE  m2[t[i]].next = IF i = n + 1 THEN 0 ELSE t[i + 1]
  <2>1. CASE i = 1
    <3>1. n # 0 => t[i + 1] = ms[1]
      BY <1>1, <2>1
    <3>2. m2[t[i]].next = h /\ (i = n + 1 <=> n = 0)
      BY <1>1, <1>3, <2>1
    <3> QED
      BY <1>2, <3>1, <3>2
  <2>2. CASE i # 1
    <3>1. i - 1 \in 1 .. n /\ (i - 1) + 1 = i /\ (i - 1 = n <=> i = n + 1) /\ t[i] = ms[i - 1]
      BY <1>1, <2>2
    <3>2. i # n + 1 => t[i + 1] = ms[i]
      <4>1. SUFFICES ASSUME i # n + 1 PROVE t[i + 1] = ms[i]
        OBVIOUS
      <4>2. i + 1 \in 1 .. n + 1 /\ i + 1 # 1 /\ (i + 1) - 1 = i
        BY <1>1, <4>1
      <4> QED
        BY <1>1, <4>2
    <3>3. m2[ms[i - 1]].next = IF i = n + 1 THEN 0 ELSE ms[i]
      BY <1>2, <3>1
    <3> QED
      BY <3>1, <3>2, <3>3
  <2> QED
    BY <2>1, <2>2
<1>5. Chain(m2, x, t)
  BY <1>1, <1>3, <1>4 DEF Chain
<1> QED
  BY <1>5 DEF t

(* The headers a, the last one first, before the first.                    *)
LEMMA ChainBack ==
  ASSUME NEW m, NEW f, NEW b, Chain(m, f, b), NEW a \in Seq(Hdr), Injective(a),
         Elems(a) \cap Elems(b) = {}, NEW m2,
         \A i \in 1 .. Len(a) : m2[a[i]].next = IF i = 1 THEN f ELSE a[i - 1],
         \A g \in Elems(b) : m2[g].next = m[g].next
  PROVE  Chain(m2, IF Len(a) = 0 THEN f ELSE a[Len(a)], Back(a, b))
<1> DEFINE t == Back(a, b)
           n == Len(a)
           l == Len(b)
<1>1. /\ n \in Nat /\ l \in Nat /\ t \in Seq(Hdr) /\ Len(t) = n + l /\ Injective(t)
      /\ \A j \in 1 .. n + l : t[j] = IF j <= n THEN a[n + 1 - j] ELSE b[j - n]
  <2>1. b \in Seq(Hdr) /\ Injective(b) /\ l \in Nat /\ n \in Nat
    BY ChainHas, SeqHas
  <2>2. Injective(t)
    BY <2>1, BackElems
  <2>3. /\ t \in Seq(Hdr) /\ Len(t) = n + l
        /\ \A j \in 1 .. n + l : t[j] = IF j <= n THEN a[n + 1 - j] ELSE b[j - n]
    BY <2>1, BackIs
  <2> QED
    BY <2>1, <2>2, <2>3
<1>2. /\ \A i \in 1 .. l : m2[b[i]].next = IF i = l THEN 0 ELSE b[i + 1]
      /\ f = IF l = 0 THEN 0 ELSE b[1]
      /\ \A i \in 1 .. n : m2[a[i]].next = IF i = 1 THEN f ELSE a[i - 1]
  BY DEF Chain, Elems
<1> HIDE DEF t, n, l
<1> DEFINE first == IF n = 0 THEN f ELSE a[n]
<1>3. first = IF n + l = 0 THEN 0 ELSE t[1]
  <2>1. CASE n = 0
    BY <1>1, <1>2, <2>1
  <2>2. CASE n # 0
    <3>1. 1 \in 1 .. n + l /\ 1 <= n /\ n + 1 - 1 = n /\ n + l # 0
      BY <1>1, <2>2
    <3> QED
      BY <1>1, <2>2, <3>1
  <2> QED
    BY <2>1, <2>2
<1>4. ASSUME NEW i \in 1 .. n + l
      PROVE  m2[t[i]].next = IF i = n + l THEN 0 ELSE t[i + 1]
  <2>1. CASE i < n
    <3>1. n + 1 - i \in 1 .. n /\ n + 1 - i # 1 /\ (n + 1 - i) - 1 = n + 1 - (i + 1) /\ i # n + l
      BY <1>1, <2>1
    <3>2. t[i] = a[n + 1 - i] /\ t[i + 1] = a[n + 1 - (i + 1)]
      BY <1>1, <2>1
    <3>3. m2[a[n + 1 - i]].next = a[(n + 1 - i) - 1]
      BY <1>2, <3>1
    <3> QED
      BY <3>1, <3>2, <3>3
  <2>2. CASE i = n
    <3>1. t[i] = a[1] /\ 1 \in 1 .. n
      BY <1>1, <2>2
    <3>2. m2[a[1]].next = f
      BY <1>2, <3>1
    <3>3. l # 0 => t[i + 1] = b[1]
      <4>1. SUFFICES ASSUME l # 0 PROVE t[i + 1] = b[1]
        OBVIOUS
      <4>2. i + 1 \in 1 .. n + l /\ ~(i + 1 <= n) /\ (i + 1) - n = 1
        BY <1>1, <2>2, <4>1
      <4> QED
        BY <1>1, <4>2
    <3>4. i = n + l <=> l = 0
      BY <1>1, <2>2
    <3> QED
      BY <1>2, <3>1, <3>2, <3>3, <3>4
  <2>3. CASE i > n
    <3>1. i - n \in 1 .. l /\ t[i] = b[i - n] /\ (i - n = l <=> i = n + l)
      BY <1>1, <2>3
    <3>2. i # n + l => t[i + 1] = b[(i - n) + 1]
      <4>1. SUFFICES ASSUME i # n + l PROVE t[i + 1] = b[(i - n) + 1]
        OBVIOUS
      <4>2. i + 1 \in 1 .. n + l /\ ~(i + 1 <= n) /\ (i + 1) - n = (i - n) + 1
        BY <1>1, <2>3, <4>1
      <4> QED
        BY <1>1, <4>2
    <3>3. m2[b[i - n]].next = IF i - n = l THEN 0 ELSE b[(i - n) + 1]
      BY <1>2, <3>1
    <3> QED
      BY <3>1, <3>2, <3>3
  <2> QED
    BY <1>1, <2>1, <2>2, <2>3
<1>5. Chain(m2, first, t)
  BY <1>1, <1>3, <1>4 DEF Chain
<1> QED
  BY <1>5 DEF t, n

------------------------------------------------------------------------------
(* The sizes of the messages of a chain.                                   *)
SizesOf(m, ms) == [i \in DOMAIN ms |-> m[ms[i]].ts]

LEMMA SizesAre ==
  ASSUME NEW m, \A h \in Hdr : m[h].ts \in Nat, NEW ms \in Seq(Hdr)
  PROVE  /\ SizesOf(m, ms) \in Seq(Int) /\ Len(SizesOf(m, ms)) = Len(ms)
         /\ \A i \in 1 .. Len(ms) : SizesOf(m, ms)[i] = m[ms[i]].ts
<1> DEFINE f == SizesOf(m, ms)
           n == Len(ms)
<1>1. n \in Nat /\ DOMAIN ms = 1 .. n /\ \A i \in 1 .. n : ms[i] \in Hdr
  BY SeqHas
<1>2. \A i \in 1 .. n : m[ms[i]].ts \in Int
  BY <1>1
<1>3. f = [i \in 1 .. n |-> m[ms[i]].ts]
  BY <1>1 DEF SizesOf
<1> HIDE DEF f, n
<1>4. f \in [1 .. n -> Int] /\ \A i \in 1 .. n : f[i] = m[ms[i]].ts
  BY <1>2, <1>3
<1>5. f \in Seq(Int) /\ Len(f) = n
  BY <1>1, <1>4, SeqIs
<1> QED
  BY <1>4, <1>5 DEF f, n

LEMMA SizesMore ==
  ASSUME NEW m, NEW m2, \A h \in Hdr : m[h].ts \in Nat /\ m2[h].ts \in Nat,
         NEW ms \in Seq(Hdr), NEW x \in Hdr, \A h \in Elems(ms) : m2[h].ts = m[h].ts
  PROVE  Total(SizesOf(m2, More(ms, x))) = Total(SizesOf(m, ms)) + m2[x].ts
<1> DEFINE t == More(ms, x)
           f == SizesOf(m, ms)
           g == SizesOf(m2, t)
           n == Len(ms)
           v == m2[x].ts
<1>1. /\ n \in Nat /\ t \in Seq(Hdr) /\ Len(t) = n + 1
      /\ \A j \in 1 .. n + 1 : t[j] = IF j = n + 1 THEN x ELSE ms[j]
  BY MoreIs, SeqHas
<1>2. f \in Seq(Int) /\ Len(f) = n /\ \A i \in 1 .. n : f[i] = m[ms[i]].ts
  BY SizesAre
<1>3. g \in Seq(Int) /\ Len(g) = n + 1 /\ \A i \in 1 .. n + 1 : g[i] = m2[t[i]].ts
  <2> HIDE DEF t
  <2> QED
    BY <1>1, SizesAre
<1>4. \A i \in 1 .. n : m2[ms[i]].ts = m[ms[i]].ts
  BY DEF Elems
<1>5. v \in Int
  OBVIOUS
<1> HIDE DEF f, g, n, v, t
<1> DEFINE e == More(f, v)
<1>6. /\ e \in Seq(Int) /\ Len(e) = n + 1
      /\ \A j \in 1 .. n + 1 : e[j] = IF j = n + 1 THEN v ELSE f[j]
  <2> DEFINE I == Int
  <2>1. f \in Seq(I) /\ v \in I
    BY <1>2, <1>5
  <2> HIDE DEF I
  <2>2. /\ e \in Seq(I) /\ Len(e) = Len(f) + 1
        /\ \A j \in 1 .. Len(f) + 1 : e[j] = IF j = Len(f) + 1 THEN v ELSE f[j]
    BY <2>1, MoreIs
  <2> HIDE DEF e
  <2> QED
    BY <1>2, <2>2 DEF I
<1> HIDE DEF e
<1>7. \A i \in 1 .. n + 1 : g[i] = e[i]
  <2>1. ASSUME NEW i \in 1 .. n + 1 PROVE g[i] = e[i]
    <3>1. CASE i = n + 1
      BY <1>1, <1>3, <1>6, <3>1 DEF v
    <3>2. CASE i # n + 1
      <4>1. i \in 1 .. n
        BY <1>1, <3>2
      <4>2. g[i] = m2[ms[i]].ts
        BY <1>1, <1>3, <3>2
      <4>3. e[i] = m[ms[i]].ts
        BY <1>2, <1>6, <3>2, <4>1
      <4> QED
        BY <1>4, <4>1, <4>2, <4>3
    <3> QED
      BY <3>1, <3>2
  <2> QED
    BY <2>1
<1>8. g = e
  BY <1>3, <1>6, <1>7, SeqEqual
<1>9. Total(e) = Total(f) + v
  <2> USE DEF e
  <2> QED
    BY <1>2, <1>5, TotalMore
<1> QED
  BY <1>8, <1>9 DEF f, g, v, t

LEMMA SizesLess ==
  ASSUME NEW m, NEW m2, \A h \in Hdr : m[h].ts \in Nat /\ m2[h].ts \in Nat,
         NEW ms \in Seq(Hdr), NEW i \in 1 .. Len(ms), \A h \in Elems(ms) : m2[h].ts = m[h].ts
  PROVE  Total(SizesOf(m2, Less(ms, i))) = Total(SizesOf(m, ms)) - m[ms[i]].ts
<1> DEFINE t == Less(ms, i)
           f == SizesOf(m, ms)
           g == SizesOf(m2, t)
           n == Len(ms)
<1>1. /\ n \in Nat /\ t \in Seq(Hdr) /\ Len(t) = n - 1
      /\ \A j \in 1 .. n - 1 : t[j] = IF j < i THEN ms[j] ELSE ms[j + 1]
  BY LessIs, SeqHas
<1>2. f \in Seq(Int) /\ Len(f) = n /\ \A j \in 1 .. n : f[j] = m[ms[j]].ts
  BY SizesAre
<1>3. g \in Seq(Int) /\ Len(g) = n - 1 /\ \A j \in 1 .. n - 1 : g[j] = m2[t[j]].ts
  <2> HIDE DEF t
  <2> QED
    BY SMTT(30), <1>1, SizesAre
<1>4. \A j \in 1 .. n : m2[ms[j]].ts = m[ms[j]].ts
  BY DEF Elems
<1>5. i \in 1 .. n
  OBVIOUS
<1> HIDE DEF f, g, n, t
<1> DEFINE e == Less(f, i)
<1>6. /\ e \in Seq(Int) /\ Len(e) = n - 1
      /\ \A j \in 1 .. n - 1 : e[j] = IF j < i THEN f[j] ELSE f[j + 1]
  BY <1>2, <1>5, LessIs
<1> HIDE DEF e
<1>7. \A j \in 1 .. n - 1 : g[j] = e[j]
  <2>1. ASSUME NEW j \in 1 .. n - 1 PROVE g[j] = e[j]
    <3>1. j \in 1 .. n /\ j + 1 \in 1 .. n
      BY <1>1
    <3>2. CASE j < i
      <4>1. g[j] = m2[ms[j]].ts /\ e[j] = m[ms[j]].ts
        BY <1>1, <1>2, <1>3, <1>6, <3>1, <3>2
      <4> QED
        BY <1>4, <3>1, <4>1
    <3>3. CASE ~(j < i)
      <4>1. g[j] = m2[ms[j + 1]].ts /\ e[j] = m[ms[j + 1]].ts
        BY <1>1, <1>2, <1>3, <1>6, <3>1, <3>3
      <4> QED
        BY <1>4, <3>1, <4>1
    <3> QED
      BY <3>2, <3>3
  <2> QED
    BY <2>1
<1>8. g = e
  BY <1>3, <1>6, <1>7, SeqEqual
<1>9. Total(e) = Total(f) - f[i]
  <2> USE DEF e
  <2> QED
    BY <1>2, <1>5, TotalLess
<1> QED
  BY <1>2, <1>5, <1>8, <1>9 DEF f, g, t

LEMMA SizesSame ==
  ASSUME NEW m, NEW m2, \A h \in Hdr : m[h].ts \in Nat /\ m2[h].ts \in Nat,
         NEW ms \in Seq(Hdr), \A h \in Elems(ms) : m2[h].ts = m[h].ts
  PROVE  SizesOf(m2, ms) = SizesOf(m, ms)
<1>1. DOMAIN ms = 1 .. Len(ms)
  BY SeqHas
<1>2. \A i \in DOMAIN ms : m2[ms[i]].ts = m[ms[i]].ts
  BY <1>1 DEF Elems
<1> QED
  BY <1>2 DEF SizesOf

------------------------------------------------------------------------------
(* Each header is in one place: a queue, or the list of free ones, which   *)
(* is number MSGMNI of the lists L.                                        *)

Partition(L) ==
  /\ L \in [Lines -> Seq(Hdr)]
  /\ \A k \in Lines : Injective(L[k])
  /\ \A k, l \in Lines : k # l => Elems(L[k]) \cap Elems(L[l]) = {}
  /\ \A h \in Hdr : \E k \in Lines : h \in Elems(L[k])

LEMMA ElemsHdr ==
  ASSUME NEW ms \in Seq(Hdr)
  PROVE  Elems(ms) \subseteq Hdr
BY SeqHas DEF Elems

LEMMA LinesAre ==
  /\ MSGMNI \in Lines /\ Slot \subseteq Lines /\ MSGMNI \notin Slot
  /\ \A k \in Lines : k = MSGMNI \/ k \in Slot
BY Constants DEF Lines, Slot

(* What is moved between two lists.                                        *)
Swapped(L, M, s, f, a, b) == M = [L EXCEPT ![s] = a, ![f] = b]

LEMMA Moves ==
  ASSUME NEW L, Partition(L), NEW s \in Lines, NEW f \in Lines, s # f,
         NEW a \in Seq(Hdr), NEW b \in Seq(Hdr), Injective(a), Injective(b),
         Elems(a) \cap Elems(b) = {}, Elems(a) \cup Elems(b) = Elems(L[s]) \cup Elems(L[f]),
         NEW M, Swapped(L, M, s, f, a, b)
  PROVE  /\ Partition(M) /\ M[s] = a /\ M[f] = b
         /\ \A k \in Lines : k # s /\ k # f => M[k] = L[k]
<1>1. M \in [Lines -> Seq(Hdr)] /\ M[s] = a /\ M[f] = b
  BY DEF Partition, Swapped
<1>2. \A k \in Lines : k # s /\ k # f => M[k] = L[k]
  BY DEF Partition, Swapped
<1>3. \A k \in Lines : Injective(M[k])
  BY <1>1, <1>2 DEF Partition
<1>4. ASSUME NEW k \in Lines, k # s, k # f
      PROVE  Elems(L[k]) \cap (Elems(a) \cup Elems(b)) = {}
  BY <1>4 DEF Partition
<1>5. ASSUME NEW k \in Lines, NEW l \in Lines, k # l PROVE Elems(M[k]) \cap Elems(M[l]) = {}
  <2>1. CASE k \notin {s, f} /\ l \notin {s, f}
    BY <1>2, <1>5, <2>1 DEF Partition
  <2>2. CASE k \in {s, f} /\ l \notin {s, f}
    BY <1>1, <1>2, <1>4, <1>5, <2>2
  <2>3. CASE k \notin {s, f} /\ l \in {s, f}
    BY <1>1, <1>2, <1>4, <1>5, <2>3
  <2>4. CASE k \in {s, f} /\ l \in {s, f}
    BY <1>1, <1>5, <2>4
  <2> QED
    BY <2>1, <2>2, <2>3, <2>4
<1>6. ASSUME NEW h \in Hdr PROVE \E k \in Lines : h \in Elems(M[k])
  <2>1. PICK k \in Lines : h \in Elems(L[k])
    BY DEF Partition
  <2>2. CASE k \in {s, f}
    BY <1>1, <2>1, <2>2
  <2>3. CASE k \notin {s, f}
    BY <1>2, <2>1, <2>3
  <2> QED
    BY <2>2, <2>3
<1>7. Partition(M)
  BY <1>1, <1>3, <1>5, <1>6 DEF Partition
<1> QED
  BY <1>1, <1>2, <1>7

------------------------------------------------------------------------------
(* Each unit of text is free or of one message of those in U.              *)

SpanOf(m, h) == m[h].spot .. m[h].spot + btoq(m[h].ts) - 1

TextOK(tx, m, U) ==
  /\ tx \in SUBSET Unit
  /\ \A h \in U : SpanOf(m, h) \subseteq Unit /\ SpanOf(m, h) \cap tx = {}
  /\ \A g, h \in U : g # h => SpanOf(m, g) \cap SpanOf(m, h) = {}
  /\ \A x \in Unit : x \in tx \/ \E h \in U : x \in SpanOf(m, h)

LEMMA TextTaken ==
  ASSUME NEW tx, NEW m, NEW U, TextOK(tx, m, U), NEW x, x \notin U, NEW m2,
         \A h \in U : SpanOf(m2, h) = SpanOf(m, h), SpanOf(m2, x) \subseteq tx
  PROVE  TextOK(tx \ SpanOf(m2, x), m2, U \cup {x})
<1> DEFINE old(h) == SpanOf(m, h)
           new(h) == SpanOf(m2, h)
<1>1. /\ tx \in SUBSET Unit
      /\ \A h \in U : old(h) \subseteq Unit /\ old(h) \cap tx = {}
      /\ \A g, h \in U : g # h => old(g) \cap old(h) = {}
      /\ \A y \in Unit : y \in tx \/ \E h \in U : y \in old(h)
  BY DEF TextOK
<1>2. /\ \A h \in U : new(h) = old(h)
      /\ new(x) \subseteq tx
  OBVIOUS
<1> HIDE DEF old, new
<1>3. /\ tx \ new(x) \in SUBSET Unit
      /\ \A h \in U \cup {x} : new(h) \subseteq Unit /\ new(h) \cap (tx \ new(x)) = {}
      /\ \A g, h \in U \cup {x} : g # h => new(g) \cap new(h) = {}
      /\ \A y \in Unit : y \in tx \ new(x) \/ \E h \in U \cup {x} : y \in new(h)
  <2>1. \A h \in U \cup {x} : new(h) \subseteq Unit /\ new(h) \cap (tx \ new(x)) = {}
    BY <1>1, <1>2
  <2>2. \A h \in U : new(h) \cap new(x) = {}
    BY <1>1, <1>2
  <2>3. \A g, h \in U \cup {x} : g # h => new(g) \cap new(h) = {}
    BY <1>1, <1>2, <2>2
  <2>4. ASSUME NEW y \in Unit PROVE y \in tx \ new(x) \/ \E h \in U \cup {x} : y \in new(h)
    <3>1. CASE y \in tx
      BY <3>1
    <3>2. CASE y \notin tx
      BY <1>1, <1>2, <3>2
    <3> QED
      BY <3>1, <3>2
  <2> QED
    BY <1>1, <2>1, <2>3, <2>4
<1> QED
  BY <1>3 DEF TextOK, new

LEMMA TextFreed ==
  ASSUME NEW tx, NEW m, NEW U, TextOK(tx, m, U), NEW F \in SUBSET U, NEW m2,
         \A h \in U : SpanOf(m2, h) = SpanOf(m, h)
  PROVE  TextOK(tx \cup UNION {SpanOf(m, h) : h \in F}, m2, U \ F)
<1> DEFINE old(h) == SpanOf(m, h)
           new(h) == SpanOf(m2, h)
           R == UNION {old(h) : h \in F}
<1>1. /\ tx \in SUBSET Unit
      /\ \A h \in U : old(h) \subseteq Unit /\ old(h) \cap tx = {}
      /\ \A g, h \in U : g # h => old(g) \cap old(h) = {}
      /\ \A y \in Unit : y \in tx \/ \E h \in U : y \in old(h)
  BY DEF TextOK
<1>2. \A h \in U : new(h) = old(h)
  OBVIOUS
<1> HIDE DEF old, new
<1>3. /\ tx \cup R \in SUBSET Unit
      /\ \A h \in U \ F : new(h) \subseteq Unit /\ new(h) \cap (tx \cup R) = {}
      /\ \A g, h \in U \ F : g # h => new(g) \cap new(h) = {}
      /\ \A y \in Unit : y \in tx \cup R \/ \E h \in U \ F : y \in new(h)
  <2>1. R \subseteq Unit
    BY <1>1
  <2>2. ASSUME NEW h \in U \ F PROVE new(h) \cap R = {}
    <3>1. \A g \in F : g # h /\ old(g) \cap old(h) = {}
      BY <1>1
    <3> QED
      BY <1>2, <3>1
  <2>3. \A h \in U \ F : new(h) \subseteq Unit /\ new(h) \cap (tx \cup R) = {}
    BY <1>1, <1>2, <2>2
  <2>4. \A g, h \in U \ F : g # h => new(g) \cap new(h) = {}
    BY <1>1, <1>2
  <2>5. ASSUME NEW y \in Unit PROVE y \in tx \cup R \/ \E h \in U \ F : y \in new(h)
    <3>1. CASE y \in tx
      BY <3>1
    <3>2. CASE y \notin tx
      <4>1. PICK h \in U : y \in old(h)
        BY <1>1, <3>2
      <4>2. CASE h \in F
        BY <4>1, <4>2
      <4>3. CASE h \notin F
        BY <1>2, <4>1, <4>3
      <4> QED
        BY <4>2, <4>3
    <3> QED
      BY <3>1, <3>2
  <2> QED
    BY <1>1, <2>1, <2>3, <2>4, <2>5
<1> QED
  BY <1>3 DEF TextOK, old, new

------------------------------------------------------------------------------
(* The queue headers, and what the calls change of one.                    *)

Link  == 0 .. MSGTQL
Seqno == 0 .. MaxSeq
Number == Int
Msqid == [alloc : BOOLEAN, seq : Seqno, first : Link, last : Link,
          qnum : Number, cbytes : Number, qbytes : Number, rwait : BOOLEAN, wwait : BOOLEAN]
Header == [next : Link, type : Nat, ts : Nat, spot : Int]

LEMMA MsqidHas ==
  ASSUME NEW q \in Msqid
  PROVE  /\ q.alloc \in BOOLEAN /\ q.seq \in Seqno /\ q.first \in Link
         /\ q.last \in Link /\ q.qnum \in Int /\ q.cbytes \in Int /\ q.qbytes \in Int
         /\ q.rwait \in BOOLEAN /\ q.wwait \in BOOLEAN
BY DEF Msqid, Number

LEMMA HeaderHas ==
  ASSUME NEW c \in Header
  PROVE  c.next \in Link /\ c.type \in Nat /\ c.ts \in Nat /\ c.spot \in Int
BY DEF Header

(* The list of a queue is as it was.                                       *)
SameList(q, r) ==
  /\ r.alloc = q.alloc /\ r.seq = q.seq /\ r.first = q.first /\ r.last = q.last
  /\ r.qnum = q.qnum /\ r.cbytes = q.cbytes

LEMMA SetWwait ==
  ASSUME NEW q \in Msqid, NEW x \in BOOLEAN, NEW r, r = [q EXCEPT !.wwait = x]
  PROVE  r \in Msqid /\ SameList(q, r) /\ r.wwait = x /\ r.rwait = q.rwait /\ r.qbytes = q.qbytes
BY DEF Msqid, SameList

LEMMA SetRwait ==
  ASSUME NEW q \in Msqid, NEW x \in BOOLEAN, NEW r, r = [q EXCEPT !.rwait = x]
  PROVE  r \in Msqid /\ SameList(q, r) /\ r.rwait = x /\ r.wwait = q.wwait /\ r.qbytes = q.qbytes
BY DEF Msqid, SameList

LEMMA SetQbytes ==
  ASSUME NEW q \in Msqid, NEW x \in Number, NEW r, r = [q EXCEPT !.qbytes = x]
  PROVE  r \in Msqid /\ SameList(q, r) /\ r.wwait = q.wwait /\ r.rwait = q.rwait /\ r.qbytes = x
BY DEF Msqid, SameList

(* Several fields at once.                                                 *)
Four(q, f, l, n, b) == [q EXCEPT !.qnum = n, !.cbytes = b, !.last = l, !.first = f]

LEMMA MsqidIn ==
  ASSUME NEW a \in BOOLEAN, NEW e \in Seqno, NEW f \in Link, NEW l \in Link,
         NEW n \in Number, NEW b \in Number, NEW y \in Number, NEW v \in BOOLEAN, NEW w \in BOOLEAN
  PROVE  [alloc |-> a, seq |-> e, first |-> f, last |-> l, qnum |-> n, cbytes |-> b,
          qbytes |-> y, rwait |-> v, wwait |-> w] \in Msqid
BY DEF Msqid

LEMMA SetFour ==
  ASSUME NEW q \in Msqid, NEW f \in Link, NEW l \in Link, NEW n \in Number, NEW b \in Number,
         NEW r, r = Four(q, f, l, n, b)
  PROVE  /\ r \in Msqid /\ r.alloc = q.alloc /\ r.seq = q.seq
         /\ r.first = f /\ r.last = l /\ r.qnum = n /\ r.cbytes = b
         /\ r.qbytes = q.qbytes /\ r.wwait = q.wwait /\ r.rwait = q.rwait
<1>1. r = [alloc |-> q.alloc, seq |-> q.seq, first |-> f, last |-> l, qnum |-> n, cbytes |-> b,
           qbytes |-> q.qbytes, rwait |-> q.rwait, wwait |-> q.wwait]
  BY DEF Msqid, Four
<1>2. /\ q.alloc \in BOOLEAN /\ q.seq \in Seqno /\ q.qbytes \in Number
      /\ q.rwait \in BOOLEAN /\ q.wwait \in BOOLEAN
  BY MsqidHas DEF Number
<1>3. r \in Msqid
  BY <1>1, <1>2, MsqidIn
<1> QED
  BY <1>1, <1>3

LEMMA SetSent ==
  ASSUME NEW q \in Msqid, NEW n \in Nat, NEW mp \in Hdr, NEW r,
         r = [q EXCEPT !.qnum = q.qnum + 1, !.cbytes = q.cbytes + n, !.last = mp,
                       !.first = IF q.last = 0 THEN mp ELSE q.first, !.rwait = FALSE]
  PROVE  /\ r \in Msqid /\ r.alloc = q.alloc /\ r.seq = q.seq
         /\ r.first = (IF q.last = 0 THEN mp ELSE q.first) /\ r.last = mp
         /\ r.qnum = q.qnum + 1 /\ r.cbytes = q.cbytes + n
         /\ r.qbytes = q.qbytes /\ r.wwait = q.wwait /\ ~r.rwait
<1> DEFINE f == IF q.last = 0 THEN mp ELSE q.first
           k == q.qnum + 1
           b == q.cbytes + n
<1>1. f \in Link /\ mp \in Link /\ k \in Number /\ b \in Number
  BY MsqidHas DEF Hdr, Link, Number
<1>2. r = [q EXCEPT !.qnum = k, !.cbytes = b, !.last = mp, !.first = f, !.rwait = FALSE]
  OBVIOUS
<1> HIDE DEF f, k, b
<1>3. PICK e : e = Four(q, f, mp, k, b)
  OBVIOUS
<1>4. /\ e \in Msqid /\ e.alloc = q.alloc /\ e.seq = q.seq
      /\ e.first = f /\ e.last = mp /\ e.qnum = k /\ e.cbytes = b
      /\ e.qbytes = q.qbytes /\ e.wwait = q.wwait /\ e.rwait = q.rwait
  BY <1>1, <1>3, SetFour
<1>5. r = [e EXCEPT !.rwait = FALSE]
  BY <1>2, <1>3 DEF Four
<1>6. r \in Msqid /\ SameList(e, r) /\ r.rwait = FALSE /\ r.wwait = e.wwait /\ r.qbytes = e.qbytes
  BY <1>4, <1>5, SetRwait
<1> QED
  BY <1>4, <1>6 DEF SameList, f, k, b

Five(q, f, l, n, b) == [q EXCEPT !.cbytes = b, !.first = f, !.last = l, !.qnum = n, !.wwait = FALSE]

LEMMA SetFive ==
  ASSUME NEW q \in Msqid, NEW f \in Link, NEW l \in Link, NEW n \in Number, NEW b \in Number,
         NEW r, r = Five(q, f, l, n, b)
  PROVE  /\ r \in Msqid /\ r.alloc = q.alloc /\ r.seq = q.seq
         /\ r.first = f /\ r.last = l /\ r.qnum = n /\ r.cbytes = b
         /\ r.qbytes = q.qbytes /\ ~r.wwait /\ r.rwait = q.rwait
<1>1. PICK e : e = Four(q, f, l, n, b)
  OBVIOUS
<1>2. /\ e \in Msqid /\ e.alloc = q.alloc /\ e.seq = q.seq
      /\ e.first = f /\ e.last = l /\ e.qnum = n /\ e.cbytes = b
      /\ e.qbytes = q.qbytes /\ e.wwait = q.wwait /\ e.rwait = q.rwait
  BY <1>1, SetFour
<1>3. r = [e EXCEPT !.wwait = FALSE]
  BY <1>1 DEF Four, Five
<1>4. r \in Msqid /\ SameList(e, r) /\ r.wwait = FALSE /\ r.rwait = e.rwait /\ r.qbytes = e.qbytes
  BY <1>2, <1>3, SetWwait
<1> QED
  BY <1>2, <1>4 DEF SameList

Received(q, n, mp, pmp) == Unlinked([q EXCEPT !.cbytes = q.cbytes - n], mp, pmp)

FiveArgs(q, f, l, n, b) == q \in Msqid /\ f \in Link /\ l \in Link /\ n \in Number /\ b \in Number
FiveDone(q, r, f, l, n, b) ==
  /\ r \in Msqid /\ r.alloc = q.alloc /\ r.seq = q.seq
  /\ r.first = f /\ r.last = l /\ r.qnum = n /\ r.cbytes = b
  /\ r.qbytes = q.qbytes /\ ~r.wwait /\ r.rwait = q.rwait

LEMMA FiveIs ==
  \A q, r, f, l, n, b : FiveArgs(q, f, l, n, b) /\ r = Five(q, f, l, n, b) => FiveDone(q, r, f, l, n, b)
BY SetFive DEF FiveArgs, FiveDone

LEMMA SetReceived ==
  ASSUME NEW q \in Msqid, NEW n \in Nat, NEW mp \in Hdr, NEW pmp \in Link,
         msgh[mp].next \in Link,
         NEW r, r = Received(q, n, mp, pmp)
  PROVE  /\ r \in Msqid /\ r.alloc = q.alloc /\ r.seq = q.seq
         /\ r.first = (IF pmp = 0 THEN msgh[mp].next ELSE q.first)
         /\ r.last = (IF msgh[mp].next = 0 THEN pmp ELSE q.last)
         /\ r.qnum = q.qnum - 1 /\ r.cbytes = q.cbytes - n
         /\ r.qbytes = q.qbytes /\ ~r.wwait /\ r.rwait = q.rwait
<1> DEFINE f == IF pmp = 0 THEN msgh[mp].next ELSE q.first
           l == IF msgh[mp].next = 0 THEN pmp ELSE q.last
           k == q.qnum - 1
           b == q.cbytes - n
<1>1. f \in Link /\ l \in Link /\ k \in Number /\ b \in Number
  BY MsqidHas DEF Number
<1> HIDE DEF b
<1>2. r = Five(q, f, l, k, b)
  <2>1. PICK d : d = [q EXCEPT !.cbytes = b]
    OBVIOUS
  <2>2. d.first = q.first /\ d.last = q.last /\ d.qnum = q.qnum
    BY <2>1 DEF Msqid
  <2>3. r = Unlinked(d, mp, pmp)
    BY <2>1 DEF b, Received
  <2>4. r = [d EXCEPT !.first = IF pmp = 0 THEN msgh[mp].next ELSE d.first,
                      !.last = IF msgh[mp].next = 0 THEN pmp ELSE d.last,
                      !.qnum = d.qnum - 1, !.wwait = FALSE]
    BY <2>3 DEF Unlinked
  <2>5. r = [d EXCEPT !.first = f, !.last = l, !.qnum = k, !.wwait = FALSE]
    BY <2>2, <2>4
  <2> HIDE DEF f, l, k
  <2> QED
    BY <2>1, <2>5 DEF Five
<1> HIDE DEF f, l, k
<1>3. FiveArgs(q, f, l, k, b)
  BY <1>1 DEF FiveArgs
<1>4. FiveDone(q, r, f, l, k, b)
  BY <1>2, <1>3, FiveIs
<1> QED
  BY <1>4 DEF f, l, k, b, FiveDone

Two(q, a, e) == [q EXCEPT !.alloc = a, !.seq = e]

LEMMA SetTwo ==
  ASSUME NEW q \in Msqid, NEW a \in BOOLEAN, NEW e \in Seqno, NEW r, r = Two(q, a, e)
  PROVE  /\ r \in Msqid /\ r.alloc = a /\ r.seq = e /\ r.first = q.first /\ r.last = q.last
         /\ r.qnum = q.qnum /\ r.cbytes = q.cbytes /\ r.qbytes = q.qbytes
         /\ r.rwait = q.rwait /\ r.wwait = q.wwait
BY DEF Msqid, Two

LEMMA Zero == \E z \in Link, o \in Number : z = 0 /\ o = 0
BY Constants DEF Link, Number

(* Emptied, and with both flags off.                                       *)
Emptied(q, a, e, n, b, y) ==
  [q EXCEPT !.alloc = a, !.seq = e, !.first = 0, !.last = 0, !.qnum = n, !.cbytes = b,
            !.qbytes = y, !.rwait = FALSE, !.wwait = FALSE]

LEMMA SetEmpty ==
  ASSUME NEW q \in Msqid, NEW a \in BOOLEAN, NEW e \in Seqno, NEW n \in Number, NEW b \in Number,
         NEW y \in Number, NEW r, r = Emptied(q, a, e, n, b, y)
  PROVE  /\ r \in Msqid /\ r.alloc = a /\ r.seq = e
         /\ r.first = 0 /\ r.last = 0 /\ r.qnum = n /\ r.cbytes = b
         /\ r.qbytes = y /\ ~r.wwait /\ ~r.rwait
<1>1. PICK z \in Link : z = 0
  BY Zero
<1>2. PICK d1 : d1 = Two(q, a, e)
  OBVIOUS
<1>3. d1 \in Msqid /\ d1.alloc = a /\ d1.seq = e
  BY <1>2, SetTwo
<1>4. PICK d2 : d2 = Five(d1, z, z, n, b)
  OBVIOUS
<1>5. /\ d2 \in Msqid /\ d2.alloc = d1.alloc /\ d2.seq = d1.seq
      /\ d2.first = z /\ d2.last = z /\ d2.qnum = n /\ d2.cbytes = b
      /\ ~d2.wwait
  BY <1>3, <1>4, SetFive
<1>6. PICK d3 : d3 = [d2 EXCEPT !.qbytes = y]
  OBVIOUS
<1>7. d3 \in Msqid /\ SameList(d2, d3) /\ d3.wwait = d2.wwait /\ d3.qbytes = y
  BY <1>5, <1>6, SetQbytes
<1>8. r = [d3 EXCEPT !.rwait = FALSE]
  BY <1>1, <1>2, <1>4, <1>6 DEF Emptied, Five, Two
<1>9. r \in Msqid /\ SameList(d3, r) /\ r.rwait = FALSE /\ r.wwait = d3.wwait /\ r.qbytes = d3.qbytes
  BY <1>7, <1>8, SetRwait
<1> QED
  BY <1>1, <1>3, <1>5, <1>7, <1>9 DEF SameList

EmptyArgs(q, a, e, n, b, y) ==
  q \in Msqid /\ a \in BOOLEAN /\ e \in Seqno /\ n \in Number /\ b \in Number /\ y \in Number
EmptyDone(r, a, e, n, b, y) ==
  /\ r \in Msqid /\ r.alloc = a /\ r.seq = e
  /\ r.first = 0 /\ r.last = 0 /\ r.qnum = n /\ r.cbytes = b
  /\ r.qbytes = y /\ ~r.wwait /\ ~r.rwait

LEMMA EmptyIs ==
  \A q, r, a, e, n, b, y : EmptyArgs(q, a, e, n, b, y) /\ r = Emptied(q, a, e, n, b, y) =>
                              EmptyDone(r, a, e, n, b, y)
BY SetEmpty DEF EmptyArgs, EmptyDone

LEMMA SetNew ==
  ASSUME NEW q \in Msqid, NEW r,
         r = [q EXCEPT !.alloc = TRUE, !.first = 0, !.last = 0, !.qnum = 0,
                       !.qbytes = MSGMNB, !.rwait = FALSE, !.wwait = FALSE]
  PROVE  /\ r \in Msqid /\ r.alloc /\ r.seq = q.seq
         /\ r.first = 0 /\ r.last = 0 /\ r.qnum = 0 /\ r.cbytes = q.cbytes
         /\ r.qbytes = MSGMNB /\ ~r.wwait /\ ~r.rwait
<1>1. q.seq \in Seqno /\ q.cbytes \in Number /\ MSGMNB \in Number
  BY MsqidHas, Constants DEF Number
<1>2. PICK o \in Number : o = 0
  BY Zero
<1>yes. PICK on \in BOOLEAN : on = TRUE
  OBVIOUS
<1>3. PICK e : e = q.seq
  OBVIOUS
<1>4. PICK b : b = q.cbytes
  OBVIOUS
<1>5. r = Emptied(q, on, e, o, b, MSGMNB)
  BY <1>yes, <1>2, <1>3, <1>4 DEF Msqid, Emptied
<1> QED
  BY <1>1, <1>2, <1>3, <1>4, <1>5, SetEmpty

Gone(q, n) == [q EXCEPT !.alloc = FALSE, !.seq = q.seq + 1, !.first = 0, !.last = 0,
                        !.qnum = q.qnum - n, !.cbytes = 0, !.rwait = FALSE, !.wwait = FALSE]

LEMMA SetGone ==
  ASSUME NEW q \in Msqid, NEW n \in Int, q.seq < MaxSeq, NEW r, r = Gone(q, n)
  PROVE  /\ r \in Msqid /\ ~r.alloc /\ r.seq = q.seq + 1
         /\ r.first = 0 /\ r.last = 0 /\ r.qnum = q.qnum - n /\ r.cbytes = 0
         /\ r.qbytes = q.qbytes /\ ~r.wwait /\ ~r.rwait
<1> DEFINE e == q.seq + 1
           k == q.qnum - n
<1>1. e \in Seqno /\ k \in Number /\ q.qbytes \in Number
  BY MsqidHas, Constants DEF Seqno, Number
<1>2. r = [q EXCEPT !.alloc = FALSE, !.seq = e, !.first = 0, !.last = 0,
                    !.qnum = k, !.cbytes = 0, !.rwait = FALSE, !.wwait = FALSE]
  BY DEF Gone
<1> HIDE DEF e, k
<1>3. PICK o \in Number : o = 0
  BY Zero
<1>no. PICK off \in BOOLEAN : off = FALSE
  OBVIOUS
<1>4. PICK y : y = q.qbytes
  OBVIOUS
<1>5. r = Emptied(q, off, e, k, o, y)
  BY <1>no, <1>2, <1>3, <1>4 DEF Msqid, Emptied
<1>6. EmptyArgs(q, off, e, k, o, y)
  BY <1>1, <1>3, <1>4, <1>no DEF EmptyArgs
<1>7. EmptyDone(r, off, e, k, o, y)
  BY <1>5, <1>6, EmptyIs
<1> QED
  BY <1>3, <1>4, <1>7, <1>no DEF e, k, EmptyDone

LEMMA SetNext ==
  ASSUME NEW c \in Header, NEW n \in Link, NEW d, d = [c EXCEPT !.next = n]
  PROVE  d \in Header /\ d.next = n /\ d.type = c.type /\ d.ts = c.ts /\ d.spot = c.spot
BY DEF Header

------------------------------------------------------------------------------
(* What is stored, for any values of the variables.                        *)

Msqids  == [Slot -> Msqid]
Headers == [Hdr -> Header]

LEMMA HeadersAre ==
  ASSUME NEW m \in Headers
  PROVE  /\ \A h \in Hdr : m[h] \in Header /\ m[h].next \in Link /\ m[h].ts \in Nat
                           /\ m[h].type \in Nat /\ m[h].spot \in Int
         /\ DOMAIN m = Hdr
BY HeaderHas DEF Headers

LEMMA MsqidsAre ==
  ASSUME NEW que \in Msqids
  PROVE  /\ \A s \in Slot : que[s] \in Msqid
         /\ DOMAIN que = Slot
BY DEF Msqids

MoreDone(s, x) ==
  /\ More(s, x) \in Seq(Hdr) /\ Len(More(s, x)) = Len(s) + 1 /\ More(s, x)[Len(s) + 1] = x
  /\ \A j \in 1 .. Len(s) : More(s, x)[j] = s[j]

LEMMA MoreHdr ==
  ASSUME NEW s \in Seq(Hdr), NEW x \in Hdr
  PROVE  MoreDone(s, x)
<1>1. /\ More(s, x) \in Seq(Hdr) /\ Len(More(s, x)) = Len(s) + 1
      /\ \A j \in 1 .. Len(s) + 1 : More(s, x)[j] = IF j = Len(s) + 1 THEN x ELSE s[j]
  BY MoreIs
<1>2. Len(s) \in Nat
  BY SeqHas
<1> QED
  BY <1>1, <1>2 DEF MoreDone

(* The sizes of the messages of a list stay.                               *)
SameSizes(m, m2, ms) == \A h \in Elems(ms) : m2[h].ts = m[h].ts

LEMMA SizesAfterMore ==
  ASSUME NEW m \in Headers, NEW m2 \in Headers, NEW ms \in Seq(Hdr), NEW x \in Hdr, SameSizes(m, m2, ms)
  PROVE  Total(SizesOf(m2, More(ms, x))) = Total(SizesOf(m, ms)) + m2[x].ts
<1>1. \A h \in Hdr : m[h].ts \in Nat /\ m2[h].ts \in Nat
  BY HeadersAre
<1> QED
  BY <1>1, SizesMore DEF SameSizes

LEMMA SizesAfterLess ==
  ASSUME NEW m \in Headers, NEW m2 \in Headers, NEW ms \in Seq(Hdr), NEW i \in 1 .. Len(ms),
         SameSizes(m, m2, ms)
  PROVE  Total(SizesOf(m2, Less(ms, i))) = Total(SizesOf(m, ms)) - m[ms[i]].ts
<1>1. \A h \in Hdr : m[h].ts \in Nat /\ m2[h].ts \in Nat
  BY HeadersAre
<1> QED
  BY <1>1, SizesLess DEF SameSizes

LastOf(ms) == IF Len(ms) = 0 THEN 0 ELSE ms[Len(ms)]

QueueOK(q, m, ms) ==
  /\ Chain(m, q.first, ms)
  /\ q.last = LastOf(ms)
  /\ q.qnum = Len(ms)
  /\ q.cbytes = Total(SizesOf(m, ms))
  /\ ~q.alloc => Len(ms) = 0

Used(L) == Hdr \ Elems(L[MSGMNI])

Stored(que, m, fp, tx, L) ==
  /\ Partition(L)
  /\ \A s \in Slot : QueueOK(que[s], m, L[s])
  /\ Chain(m, fp, L[MSGMNI])
  /\ TextOK(tx, m, Used(L))

(* A header is as it was, as far as its list goes.                         *)
Alike(m, m2, h) == m2[h].next = m[h].next /\ m2[h].ts = m[h].ts

LEMMA QueueKeeps ==
  ASSUME NEW m \in Headers, NEW m2 \in Headers, NEW q, NEW r, NEW ms, QueueOK(q, m, ms),
         SameList(q, r), \A g \in Elems(ms) : Alike(m, m2, g)
  PROVE  QueueOK(r, m2, ms)
<1>1. ms \in Seq(Hdr) /\ Chain(m, q.first, ms)
  BY DEF QueueOK, Chain
<1>2. Chain(m2, q.first, ms)
  BY <1>1, ChainKeeps DEF Alike
<1>3. SizesOf(m2, ms) = SizesOf(m, ms)
  <2>1. \A h \in Hdr : m[h].ts \in Nat /\ m2[h].ts \in Nat
    BY HeadersAre
  <2>2. \A h \in Elems(ms) : m2[h].ts = m[h].ts
    BY DEF Alike
  <2> QED
    BY <1>1, <2>1, <2>2, SizesSame
<1> QED
  BY <1>2, <1>3 DEF QueueOK, SameList

(* What is in other lists is not in this one.                              *)
LEMMA Elsewhere ==
  ASSUME NEW L, Partition(L), NEW k \in Lines
  PROVE  /\ L[k] \in Seq(Hdr) /\ Injective(L[k]) /\ Elems(L[k]) \in SUBSET Hdr
         /\ \A l \in Lines : l # k => \A h \in Elems(L[l]) : h \notin Elems(L[k])
<1>1. L[k] \in Seq(Hdr) /\ Injective(L[k])
  BY DEF Partition
<1>2. \A l \in Lines : l # k => Elems(L[l]) \cap Elems(L[k]) = {}
  BY DEF Partition
<1> QED
  BY <1>1, <1>2, ElemsHdr

LEMMA ElemIs ==
  ASSUME NEW ms, NEW i \in 1 .. Len(ms)
  PROVE  ms[i] \in Elems(ms)
BY DEF Elems

LEMMA UsedMore ==
  ASSUME NEW L, Partition(L), NEW M, NEW x \in Elems(L[MSGMNI]),
         Elems(M[MSGMNI]) = Elems(L[MSGMNI]) \ {x}
  PROVE  Used(M) = Used(L) \cup {x} /\ x \notin Used(L)
<1>1. Elems(L[MSGMNI]) \in SUBSET Hdr
  BY LinesAre, Elsewhere
<1> QED
  BY <1>1 DEF Used

LEMMA UsedLess ==
  ASSUME NEW L, NEW M, NEW F, Elems(M[MSGMNI]) = Elems(L[MSGMNI]) \cup F
  PROVE  Used(M) = Used(L) \ F
BY DEF Used

------------------------------------------------------------------------------
(* Nothing moves.                                                          *)
LEMMA StoredKeeps ==
  ASSUME NEW que, NEW m \in Headers, NEW fp, NEW tx, NEW L, Stored(que, m, fp, tx, L),
         NEW que2, \A t \in Slot : SameList(que[t], que2[t])
  PROVE  Stored(que2, m, fp, tx, L)
<1>1. ASSUME NEW t \in Slot PROVE QueueOK(que2[t], m, L[t])
  <2>1. QueueOK(que[t], m, L[t]) /\ SameList(que[t], que2[t])
    BY DEF Stored
  <2>2. \A g \in Elems(L[t]) : Alike(m, m, g)
    BY DEF Alike
  <2> QED
    BY <2>1, <2>2, QueueKeeps
<1> QED
  BY <1>1 DEF Stored

(* A queue is made: it was empty.                                          *)
LEMMA StoredNew ==
  ASSUME NEW que, NEW m \in Headers, NEW fp, NEW tx, NEW L, Stored(que, m, fp, tx, L),
         NEW s \in Slot, ~que[s].alloc,
         NEW que2, \A t \in Slot : t # s => que2[t] = que[t],
         que2[s].first = 0, que2[s].last = 0, que2[s].qnum = 0, que2[s].cbytes = que[s].cbytes,
         que2[s].alloc
  PROVE  Stored(que2, m, fp, tx, L)
<1>1. QueueOK(que[s], m, L[s]) /\ Len(L[s]) = 0
  BY DEF Stored, QueueOK
<1>2. que[s].first = 0 /\ que[s].cbytes = Total(SizesOf(m, L[s]))
  BY <1>1 DEF QueueOK, Chain
<1>3. QueueOK(que2[s], m, L[s])
  BY <1>1, <1>2 DEF QueueOK, LastOf
<1>4. ASSUME NEW t \in Slot PROVE QueueOK(que2[t], m, L[t])
  <2>1. CASE t = s
    BY <1>3, <2>1
  <2>2. CASE t # s
    BY <2>2 DEF Stored
  <2> QED
    BY <2>1, <2>2
<1> QED
  BY <1>4 DEF Stored
------------------------------------------------------------------------------
(* A free header gets behind a queue.                                      *)
Placed(m, last, fp, x) ==
  [h \in Hdr |-> IF h = fp THEN x
                 ELSE IF last # 0 /\ h = last THEN [m[h] EXCEPT !.next = fp] ELSE m[h]]

AsPlaced(m, last, fp, x, m2) ==
  /\ m2 \in Headers /\ m2[fp] = x
  /\ \A h \in Hdr : h # fp /\ ~(last # 0 /\ h = last) => m2[h] = m[h]
  /\ \A h \in Hdr : h # fp /\ last # 0 /\ h = last => m2[h].next = fp
  /\ \A h \in Hdr : h # fp => m2[h].ts = m[h].ts /\ m2[h].spot = m[h].spot
                              /\ m2[h].type = m[h].type

LEMMA PlacedIs ==
  ASSUME NEW m \in Headers, NEW last, NEW fp \in Hdr, NEW x \in Header,
         NEW m2, m2 = Placed(m, last, fp, x)
  PROVE  AsPlaced(m, last, fp, x, m2)
<1>1. fp \in Link
  BY Constants DEF Hdr, Link
<1>2. ASSUME NEW h \in Hdr, h # fp, last # 0 /\ h = last
      PROVE  /\ m2[h] \in Header /\ m2[h].next = fp
             /\ m2[h].ts = m[h].ts /\ m2[h].spot = m[h].spot /\ m2[h].type = m[h].type
  <2>1. m2[h] = [m[h] EXCEPT !.next = fp] /\ m[h] \in Header
    BY <1>2, HeadersAre DEF Placed
  <2> QED
    BY <1>1, <2>1, SetNext
<1>3. ASSUME NEW h \in Hdr, h # fp, ~(last # 0 /\ h = last)
      PROVE  m2[h] = m[h]
  BY <1>3 DEF Placed
<1>4. m2[fp] = x
  BY DEF Placed
<1>5. ASSUME NEW h \in Hdr PROVE m2[h] \in Header
  <2>1. m[h] \in Header
    BY HeadersAre
  <2> QED
    BY <1>2, <1>3, <1>4, <2>1
<1>6. m2 \in Headers
  <2>1. DOMAIN m2 = Hdr /\ m2 = [h \in Hdr |-> m2[h]]
    BY DEF Placed
  <2> QED
    BY <1>5, <2>1 DEF Headers
<1>7. ASSUME NEW h \in Hdr, h # fp
      PROVE  m2[h].ts = m[h].ts /\ m2[h].spot = m[h].spot /\ m2[h].type = m[h].type
  BY <1>2, <1>3, <1>7
<1>8. \A h \in Hdr : h # fp /\ last # 0 /\ h = last => m2[h].next = fp
  BY <1>2
<1>9. \A h \in Hdr : h # fp /\ ~(last # 0 /\ h = last) => m2[h] = m[h]
  BY <1>3
<1> QED
  BY <1>4, <1>6, <1>7, <1>8, <1>9 DEF AsPlaced

(* What is changed of the queues, and of the lists.                        *)
Others(que, que2, s) == \A t \in Slot : t # s => que2[t] = que[t]
Moved(L, M, s, a, b) == Swapped(L, M, s, MSGMNI, a, b)
Sent(q, r, fp, n) ==
  /\ r.alloc /\ r.first = (IF q.last = 0 THEN fp ELSE q.first)
  /\ r.last = fp /\ r.qnum = q.qnum + 1 /\ r.cbytes = q.cbytes + n

LEMMA MovedIs ==
  ASSUME NEW L, Partition(L), NEW s \in Slot,
         NEW a \in Seq(Hdr), NEW b \in Seq(Hdr), Injective(a), Injective(b),
         Elems(a) \cap Elems(b) = {}, Elems(a) \cup Elems(b) = Elems(L[s]) \cup Elems(L[MSGMNI]),
         NEW M, Moved(L, M, s, a, b)
  PROVE  /\ Partition(M) /\ M[s] = a /\ M[MSGMNI] = b
         /\ \A k \in Lines : k # s /\ k # MSGMNI => M[k] = L[k]
<1>1. MSGMNI \in Lines /\ s \in Lines /\ s # MSGMNI
  BY LinesAre
<1>2. Swapped(L, M, s, MSGMNI, a, b)
  BY DEF Moved
<1> QED
  BY <1>1, <1>2, Moves

LEMMA StoredSent ==
  ASSUME NEW que, NEW m \in Headers, NEW fp, NEW tx, NEW L, Stored(que, m, fp, tx, L),
         NEW s \in Slot, que[s].alloc, fp # 0, NEW x \in Header, x.next = 0,
         NEW m2, m2 = Placed(m, que[s].last, fp, x), SpanOf(m2, fp) \subseteq tx,
         NEW que2, Others(que, que2, s), Sent(que[s], que2[s], fp, x.ts),
         NEW M, Moved(L, M, s, More(L[s], fp), Less(L[MSGMNI], 1))
  PROVE  m2 \in Headers /\ fp \in Hdr /\ Stored(que2, m2, m[fp].next, tx \ SpanOf(m2, fp), M)
<1> DEFINE f == L[MSGMNI]
           ms == L[s]
           last == que[s].last
           n == Len(ms)
<1>1. /\ Partition(L) /\ QueueOK(que[s], m, ms) /\ Chain(m, fp, f) /\ TextOK(tx, m, Used(L))
  BY DEF Stored
<1>2. /\ MSGMNI \in Lines /\ s \in Lines /\ s # MSGMNI
  BY LinesAre
<1>3. Chain(m, que[s].first, ms)
  BY <1>1 DEF QueueOK
<1> HIDE DEF f, ms, last
<1>4. /\ f \in Seq(Hdr) /\ Injective(f) /\ 1 \in 1 .. Len(f) /\ fp = f[1] /\ fp \in Hdr
      /\ Len(f) \in Nat
      /\ \A i, j \in 1 .. Len(f) : f[i] = f[j] => i = j
      /\ \A i \in 1 .. Len(f) : f[i] \in Hdr
  BY <1>1, ChainHas
<1>5. fp \in Elems(f)
  BY <1>4, ElemIs
<1>6. /\ ms \in Seq(Hdr) /\ Injective(ms) /\ n \in Nat /\ 0 \notin Hdr
      /\ \A i \in 1 .. n : ms[i] \in Hdr
      /\ \A i, j \in 1 .. n : ms[i] = ms[j] => i = j
  BY <1>3, ChainHas
<1>7. fp \notin Elems(ms) /\ \A h \in Elems(f) : h \notin Elems(ms)
  BY <1>1, <1>2, <1>5, Elsewhere DEF f, ms
<1>8. /\ m2 \in Headers /\ m2[fp] = x
      /\ \A h \in Hdr : h # fp /\ ~(last # 0 /\ h = last) => m2[h] = m[h]
      /\ \A h \in Hdr : h # fp /\ last # 0 /\ h = last => m2[h].next = fp
      /\ \A h \in Hdr : h # fp => m2[h].ts = m[h].ts /\ m2[h].spot = m[h].spot
  <2>1. m2 = Placed(m, last, fp, x)
    BY DEF last
  <2>2. AsPlaced(m, last, fp, x, m2)
    BY <1>4, <2>1, PlacedIs
  <2> QED
    BY <2>2 DEF AsPlaced
<1>9. last = LastOf(ms) /\ que[s].qnum = n /\ que[s].cbytes = Total(SizesOf(m, ms))
  BY <1>1 DEF QueueOK, last
<1>10. /\ n = 0 => last = 0
       /\ n # 0 => last = ms[n] /\ n \in 1 .. n /\ last # 0 /\ last \in Elems(ms)
  <2>1. n = 0 => last = 0
    BY <1>9 DEF LastOf
  <2>2. ASSUME n # 0 PROVE last = ms[n] /\ n \in 1 .. n /\ last # 0 /\ last \in Elems(ms)
    <3>1. last = ms[n] /\ n \in 1 .. n
      BY <1>6, <1>9, <2>2 DEF LastOf
    <3>2. ms[n] \in Hdr /\ ms[n] \in Elems(ms)
      BY <1>6, <3>1, ElemIs
    <3> QED
      BY <1>6, <3>1, <3>2
  <2> QED
    BY <2>1, <2>2
<1>11. /\ Injective(More(ms, fp)) /\ Elems(More(ms, fp)) = Elems(ms) \cup {fp}
       /\ More(ms, fp) \in Seq(Hdr) /\ Len(More(ms, fp)) = n + 1 /\ More(ms, fp)[n + 1] = fp
  <2>1. Injective(More(ms, fp)) /\ Elems(More(ms, fp)) = Elems(ms) \cup {fp}
    BY <1>4, <1>6, <1>7, MoreElems
  <2>2. MoreDone(ms, fp)
    BY <1>4, <1>6, MoreHdr
  <2> QED
    BY <2>1, <2>2 DEF MoreDone
<1>12. /\ Injective(Less(f, 1)) /\ Elems(Less(f, 1)) = Elems(f) \ {fp} /\ Less(f, 1) \in Seq(Hdr)
  BY <1>4, LessElems, LessIs
<1>13. /\ Partition(M) /\ M[s] = More(ms, fp) /\ M[MSGMNI] = Less(f, 1)
       /\ \A k \in Lines : k # s /\ k # MSGMNI => M[k] = L[k]
  <2>1. Elems(More(ms, fp)) \cap Elems(Less(f, 1)) = {}
    BY <1>7, <1>11, <1>12
  <2>2. Elems(More(ms, fp)) \cup Elems(Less(f, 1)) = Elems(ms) \cup Elems(f)
    BY <1>5, <1>11, <1>12
  <2>3. Moved(L, M, s, More(ms, fp), Less(f, 1))
    BY DEF f, ms
  <2>4. Elems(More(ms, fp)) \cup Elems(Less(f, 1)) = Elems(L[s]) \cup Elems(L[MSGMNI])
    BY <2>2 DEF f, ms
  <2> QED
    BY <1>1, <1>2, <1>11, <1>12, <2>1, <2>3, <2>4, MovedIs
<1>14. Chain(m2, IF n = 0 THEN fp ELSE que[s].first, More(ms, fp))
  <2>1. ASSUME NEW i \in 1 .. n
        PROVE  m2[ms[i]].next = IF i = n THEN fp ELSE m[ms[i]].next
    <3>1. ms[i] \in Hdr /\ ms[i] # fp /\ n # 0
      BY <1>6, <1>7, ElemIs
    <3>2. CASE i = n
      BY <1>8, <1>10, <3>1, <3>2
    <3>3. CASE i # n
      <4>1. ms[i] # last
        BY <1>6, <1>10, <3>1, <3>3
      <4> QED
        BY <1>8, <3>1, <3>3, <4>1
    <3> QED
      BY <3>2, <3>3
  <2>2. m2[fp].next = 0
    BY <1>8
  <2> QED
    BY <1>3, <1>4, <1>7, <2>1, <2>2, ChainMore
<1>15. Chain(m2, m[fp].next, Less(f, 1))
  <2>1. ASSUME NEW j \in 1 .. Len(f), j # 1
        PROVE  m2[f[j]].next = IF j = 1 - 1 THEN m[f[1]].next ELSE m[f[j]].next
    <3>1. f[j] \in Hdr /\ f[j] # fp /\ f[j] \in Elems(f) /\ f[j] \notin Elems(ms)
      BY <1>4, <1>7, <2>1, ElemIs
    <3>2. ~(last # 0 /\ f[j] = last)
      BY <1>10, <3>1
    <3>3. m2[f[j]] = m[f[j]]
      BY <1>8, <3>1, <3>2
    <3> QED
      BY <3>3, <2>1
  <2>2. Chain(m2, IF 1 = 1 THEN m[f[1]].next ELSE fp, Less(f, 1))
    BY <1>1, <1>4, <2>1, ChainLess DEF f
  <2> QED
    BY <1>4, <2>2
<1>16. QueueOK(que2[s], m2, M[s])
  <2>2. SameSizes(m, m2, ms)
    BY <1>6, <1>7, <1>8, ElemsHdr DEF SameSizes
  <2>3. Total(SizesOf(m2, More(ms, fp))) = Total(SizesOf(m, ms)) + m2[fp].ts
    BY <1>4, <1>6, <1>8, <2>2, SizesAfterMore
  <2>4. que2[s].cbytes = Total(SizesOf(m2, M[s])) /\ que2[s].qnum = Len(M[s])
    BY <1>8, <1>9, <1>11, <1>13, <2>3 DEF Sent
  <2>5. Chain(m2, que2[s].first, M[s])
    <3>1. que2[s].first = IF n = 0 THEN fp ELSE que[s].first
      BY <1>10 DEF last, Sent
    <3> QED
      BY <1>13, <1>14, <3>1
  <2>6. que2[s].last = LastOf(M[s])
    <3>1. n + 1 # 0
      BY <1>6
    <3> QED
      BY <1>11, <1>13, <3>1 DEF LastOf, Sent
  <2> QED
    BY <2>4, <2>5, <2>6 DEF QueueOK, Sent
<1>17. ASSUME NEW t \in Slot, t # s PROVE QueueOK(que2[t], m2, M[t])
  <2>1. M[t] = L[t] /\ que2[t] = que[t] /\ t \in Lines /\ t # MSGMNI
    BY <1>13, <1>17, LinesAre DEF Others
  <2>2. QueueOK(que[t], m, L[t])
    BY DEF Stored
  <2>3. ASSUME NEW g \in Elems(L[t]) PROVE Alike(m, m2, g)
    <3>1. g \in Hdr /\ g \notin Elems(ms) /\ g \notin Elems(f)
      BY <1>1, <1>2, <1>17, <2>1, Elsewhere DEF f, ms
    <3>2. g # fp /\ ~(last # 0 /\ g = last)
      BY <1>5, <1>10, <3>1
    <3>3. m2[g] = m[g]
      BY <1>8, <3>1, <3>2
    <3> QED
      BY <3>3 DEF Alike
  <2>4. SameList(que[t], que2[t])
    BY <2>1 DEF SameList
  <2> QED
    BY <1>8, <2>1, <2>2, <2>3, <2>4, QueueKeeps
<1>18. TextOK(tx \ SpanOf(m2, fp), m2, Used(M))
  <2>1. Used(M) = Used(L) \cup {fp} /\ fp \notin Used(L)
    <3>1. fp \in Elems(L[MSGMNI]) /\ Elems(M[MSGMNI]) = Elems(L[MSGMNI]) \ {fp}
      BY <1>5, <1>12, <1>13 DEF f
    <3> QED
      BY <1>1, <3>1, UsedMore
  <2>2. \A h \in Used(L) : SpanOf(m2, h) = SpanOf(m, h)
    <3>1. ASSUME NEW h \in Used(L) PROVE SpanOf(m2, h) = SpanOf(m, h)
      <4>1. h \in Hdr /\ h # fp
        BY <2>1 DEF Used
      <4>2. m2[h].ts = m[h].ts /\ m2[h].spot = m[h].spot
        BY <1>8, <4>1
      <4> QED
        BY <4>2 DEF SpanOf
    <3> QED
      BY <3>1
  <2>3. TextOK(tx \ SpanOf(m2, fp), m2, Used(L) \cup {fp})
    BY <1>1, <2>1, <2>2, TextTaken
  <2> QED
    BY <2>1, <2>3
<1>19. Stored(que2, m2, m[fp].next, tx \ SpanOf(m2, fp), M)
  BY <1>13, <1>15, <1>16, <1>17, <1>18 DEF Stored
<1> QED
  BY <1>4, <1>8, <1>19
------------------------------------------------------------------------------
(* A header is taken out of a queue, and gets free.                        *)
Unlinks(m, mp, pmp, fp) ==
  [h \in Hdr |-> IF h = mp THEN [m[h] EXCEPT !.next = fp]
                 ELSE IF h = pmp THEN [m[h] EXCEPT !.next = m[mp].next] ELSE m[h]]

AsUnlinked(m, mp, pmp, fp, m2) ==
  /\ m2 \in Headers /\ m2[mp].next = fp
  /\ \A h \in Hdr : h # mp /\ h # pmp => m2[h] = m[h]
  /\ \A h \in Hdr : h # mp /\ h = pmp => m2[h].next = m[mp].next
  /\ \A h \in Hdr : m2[h].ts = m[h].ts /\ m2[h].spot = m[h].spot /\ m2[h].type = m[h].type

LEMMA UnlinksIs ==
  ASSUME NEW m \in Headers, NEW mp \in Hdr, NEW pmp, NEW fp \in Link,
         NEW m2, m2 = Unlinks(m, mp, pmp, fp)
  PROVE  AsUnlinked(m, mp, pmp, fp, m2)
<1>1. m[mp].next \in Link
  BY HeadersAre
<1>2. /\ m2[mp] \in Header /\ m2[mp].next = fp
      /\ m2[mp].ts = m[mp].ts /\ m2[mp].spot = m[mp].spot /\ m2[mp].type = m[mp].type
  <2>1. m2[mp] = [m[mp] EXCEPT !.next = fp] /\ m[mp] \in Header
    BY HeadersAre DEF Unlinks
  <2> QED
    BY <2>1, SetNext
<1>3. ASSUME NEW h \in Hdr, h # mp, h = pmp
      PROVE  /\ m2[h] \in Header /\ m2[h].next = m[mp].next
             /\ m2[h].ts = m[h].ts /\ m2[h].spot = m[h].spot /\ m2[h].type = m[h].type
  <2>1. PICK n \in Link : n = m[mp].next
    BY <1>1
  <2>2. m2[h] = [m[h] EXCEPT !.next = n] /\ m[h] \in Header
    BY <1>3, <2>1, HeadersAre DEF Unlinks
  <2> QED
    BY <2>1, <2>2, SetNext
<1>4. ASSUME NEW h \in Hdr, h # mp, h # pmp PROVE m2[h] = m[h]
  BY <1>4 DEF Unlinks
<1>5. ASSUME NEW h \in Hdr
      PROVE  m2[h] \in Header /\ m2[h].ts = m[h].ts /\ m2[h].spot = m[h].spot /\ m2[h].type = m[h].type
  <2>1. m[h] \in Header
    BY HeadersAre
  <2>2. CASE h = mp
    BY <1>2, <2>2
  <2>3. CASE h # mp /\ h = pmp
    BY <1>3, <2>3
  <2>4. CASE h # mp /\ h # pmp
    BY <1>4, <2>1, <2>4
  <2> QED
    BY <2>2, <2>3, <2>4
<1>6. m2 \in Headers
  <2>1. DOMAIN m2 = Hdr /\ m2 = [h \in Hdr |-> m2[h]]
    BY DEF Unlinks
  <2> QED
    BY <1>5, <2>1 DEF Headers
<1>7. \A h \in Hdr : h # mp /\ h # pmp => m2[h] = m[h]
  BY <1>4
<1>8. \A h \in Hdr : h # mp /\ h = pmp => m2[h].next = m[mp].next
  BY <1>3
<1> QED
  BY <1>2, <1>5, <1>6, <1>7, <1>8 DEF AsUnlinked

GotFrom(m, mp, pmp, q, r) ==
  /\ r.alloc = q.alloc
  /\ r.first = (IF pmp = 0 THEN m[mp].next ELSE q.first)
  /\ r.last = (IF m[mp].next = 0 THEN pmp ELSE q.last)
  /\ r.qnum = q.qnum - 1 /\ r.cbytes = q.cbytes - m[mp].ts

LessDone(s, i) ==
  /\ Less(s, i) \in Seq(Hdr) /\ Len(Less(s, i)) = Len(s) - 1
  /\ \A j \in 1 .. Len(s) - 1 : Less(s, i)[j] = IF j < i THEN s[j] ELSE s[j + 1]

LEMMA PushIn ==
  ASSUME NEW s \in Seq(Hdr), NEW x \in Hdr
  PROVE  Push(x, s) \in Seq(Hdr)
BY PushIs

LEMMA LessHdr ==
  ASSUME NEW s \in Seq(Hdr), NEW i \in 1 .. Len(s)
  PROVE  LessDone(s, i)
BY LessIs DEF LessDone

LEMMA LastLessIs ==
  ASSUME NEW ms \in Seq(Hdr), NEW i \in 1 .. Len(ms)
  PROVE  LastOf(Less(ms, i)) = IF i = Len(ms) THEN (IF i > 1 THEN ms[i - 1] ELSE 0) ELSE ms[Len(ms)]
<1> DEFINE n == Len(ms)
           t == Less(ms, i)
<1>1. /\ n \in Nat /\ i \in 1 .. n
  BY SeqHas
<1>2. /\ Len(t) = n - 1 /\ \A j \in 1 .. n - 1 : t[j] = IF j < i THEN ms[j] ELSE ms[j + 1]
  BY LessHdr DEF LessDone
<1> HIDE DEF n, t
<1>3. CASE n = 1
  BY <1>1, <1>2, <1>3 DEF LastOf, n, t
<1>4. CASE n # 1
  <2>0. PICK k : k = n - 1
    OBVIOUS
  <2>1. k \in 1 .. n - 1 /\ k # 0 /\ k + 1 = n /\ (k < i <=> i = n)
    BY <1>1, <1>4, <2>0
  <2>2. t[k] = IF k < i THEN ms[k] ELSE ms[k + 1]
    BY <1>2, <2>1
  <2>3. LastOf(t) = IF i = n THEN ms[n - 1] ELSE ms[n]
    <3>1. LastOf(t) = t[k]
      BY <1>2, <2>0, <2>1 DEF LastOf
    <3>2. t[k] = IF i = n THEN ms[k] ELSE ms[n]
      BY <2>1, <2>2
    <3> QED
      BY <2>0, <3>1, <3>2
  <2>4. i = n => i > 1
    BY <1>1, <1>4
  <2> QED
    BY <2>3, <2>4 DEF n, t
<1> QED
  BY <1>3, <1>4

Behind(ms, i) == IF i > 1 THEN ms[i - 1] ELSE 0

TakesFrom(que, m, fp, L, s, i, mp, pmp, m2, que2, M) ==
  /\ s \in Slot /\ que[s].alloc /\ i \in 1 .. Len(L[s])
  /\ mp = L[s][i] /\ pmp = Behind(L[s], i)
  /\ m2 = Unlinks(m, mp, pmp, fp)
  /\ Others(que, que2, s) /\ GotFrom(m, mp, pmp, que[s], que2[s])
  /\ Moved(L, M, s, Less(L[s], i), Push(mp, L[MSGMNI]))

LEMMA StoredReceived ==
  ASSUME NEW que, NEW m \in Headers, NEW fp, NEW tx, NEW L, Stored(que, m, fp, tx, L),
         NEW s, NEW i, NEW mp, NEW pmp, NEW m2, NEW que2, NEW M,
         TakesFrom(que, m, fp, L, s, i, mp, pmp, m2, que2, M)
  PROVE  m2 \in Headers /\ mp \in Hdr
         /\ Stored(que2, m2, mp, tx \cup UNION {SpanOf(m, h) : h \in {mp}}, M)
<1>h. /\ s \in Slot /\ que[s].alloc /\ i \in 1 .. Len(L[s])
      /\ mp = L[s][i] /\ pmp = (IF i > 1 THEN L[s][i - 1] ELSE 0)
      /\ m2 = Unlinks(m, mp, pmp, fp)
      /\ Others(que, que2, s) /\ GotFrom(m, mp, pmp, que[s], que2[s])
      /\ Moved(L, M, s, Less(L[s], i), Push(mp, L[MSGMNI]))
  BY DEF TakesFrom, Behind
<1> USE <1>h
<1> DEFINE f == L[MSGMNI]
           ms == L[s]
           n == Len(ms)
<1>1. /\ Partition(L) /\ QueueOK(que[s], m, ms) /\ Chain(m, fp, f) /\ TextOK(tx, m, Used(L))
  BY DEF Stored
<1>2. /\ MSGMNI \in Lines /\ s \in Lines /\ s # MSGMNI
  BY LinesAre
<1>3. Chain(m, que[s].first, ms)
  BY <1>1 DEF QueueOK
<1>0. i \in 1 .. n /\ mp = ms[i] /\ pmp = (IF i > 1 THEN ms[i - 1] ELSE 0)
  OBVIOUS
<1> HIDE DEF f, ms
<1>4. f \in Seq(Hdr) /\ Injective(f) /\ fp \in Link
  BY <1>1, ChainHas, Constants DEF Link, Hdr
<1>5. /\ ms \in Seq(Hdr) /\ Injective(ms) /\ n \in Nat /\ 0 \notin Hdr
      /\ \A j \in 1 .. n : ms[j] \in Hdr
      /\ \A j, k \in 1 .. n : ms[j] = ms[k] => j = k
  BY <1>3, ChainHas
<1>6. mp \in Hdr /\ mp \in Elems(ms)
  BY <1>0, <1>5, ElemIs
<1>7. mp \notin Elems(f) /\ \A h \in Elems(f) : h \notin Elems(ms)
  BY <1>1, <1>2, <1>6, Elsewhere DEF f, ms
<1>8. AsUnlinked(m, mp, pmp, fp, m2)
  BY <1>4, <1>6, UnlinksIs
<1>9. /\ i = 1 => pmp = 0
      /\ i # 1 => pmp = ms[i - 1] /\ i - 1 \in 1 .. n /\ pmp # 0 /\ pmp \in Elems(ms)
  <2>1. ASSUME i # 1 PROVE pmp = ms[i - 1] /\ i - 1 \in 1 .. n
    BY <1>0, <1>5, <2>1
  <2>2. ASSUME i # 1 PROVE ms[i - 1] \in Hdr /\ ms[i - 1] \in Elems(ms)
    BY <1>5, <2>1, <2>2, ElemIs
  <2>3. i = 1 => pmp = 0
    BY <1>0
  <2> QED
    BY <1>5, <2>1, <2>2, <2>3
<1>10. /\ Injective(Less(ms, i)) /\ Elems(Less(ms, i)) = Elems(ms) \ {mp}
       /\ Less(ms, i) \in Seq(Hdr) /\ Len(Less(ms, i)) = n - 1
  <2>1. Injective(Less(ms, i)) /\ Elems(Less(ms, i)) = Elems(ms) \ {mp}
    BY <1>0, <1>5, LessElems
  <2>2. LessDone(ms, i)
    BY <1>0, <1>5, LessHdr
  <2> QED
    BY <2>1, <2>2 DEF LessDone
<1>11. /\ Injective(Push(mp, f)) /\ Elems(Push(mp, f)) = Elems(f) \cup {mp} /\ Push(mp, f) \in Seq(Hdr)
  <2>1. Injective(Push(mp, f)) /\ Elems(Push(mp, f)) = Elems(f) \cup {mp}
    BY <1>4, <1>6, <1>7, PushElems
  <2>2. Push(mp, f) \in Seq(Hdr)
    BY <1>4, <1>6, PushIn
  <2> QED
    BY <2>1, <2>2
<1>12. /\ Partition(M) /\ M[s] = Less(ms, i) /\ M[MSGMNI] = Push(mp, f)
       /\ \A k \in Lines : k # s /\ k # MSGMNI => M[k] = L[k]
  <2>1. Elems(Less(ms, i)) \cap Elems(Push(mp, f)) = {}
    BY <1>7, <1>10, <1>11
  <2>2. Elems(Less(ms, i)) \cup Elems(Push(mp, f)) = Elems(L[s]) \cup Elems(L[MSGMNI])
    BY <1>6, <1>10, <1>11 DEF f, ms
  <2>3. Moved(L, M, s, Less(ms, i), Push(mp, f))
    BY DEF f, ms
  <2> QED
    BY <1>1, <1>10, <1>11, <2>1, <2>2, <2>3, MovedIs
<1>13. m[mp].next = IF i = n THEN 0 ELSE ms[i + 1]
  BY <1>0, <1>3 DEF Chain
<1>14. m[mp].next = 0 <=> i = n
  <2>1. i # n => ms[i + 1] \in Hdr
    BY <1>0, <1>5
  <2> QED
    BY <1>5, <1>13, <2>1
<1>15. Chain(m2, IF i = 1 THEN m[mp].next ELSE que[s].first, Less(ms, i))
  <2>1. ASSUME NEW j \in 1 .. n, j # i
        PROVE  m2[ms[j]].next = IF j = i - 1 THEN m[ms[i]].next ELSE m[ms[j]].next
    <3>1. ms[j] \in Hdr /\ ms[j] # mp
      BY <1>0, <1>5, <2>1
    <3>2. CASE j = i - 1
      <4>1. ms[j] = pmp
        BY <1>0, <1>9, <3>2
      <4> QED
        BY <1>0, <1>8, <3>1, <3>2, <4>1 DEF AsUnlinked
    <3>3. CASE j # i - 1
      <4>1. ms[j] # pmp
        BY <1>5, <1>9, <3>1, <3>3
      <4>2. m2[ms[j]] = m[ms[j]]
        BY <1>8, <3>1, <4>1 DEF AsUnlinked
      <4> QED
        BY <3>3, <4>2
    <3> QED
      BY <3>2, <3>3
  <2>2. Chain(m2, IF i = 1 THEN m[ms[i]].next ELSE que[s].first, Less(ms, i))
    BY SMTT(30), <1>0, <1>3, <2>1, ChainLess
  <2> QED
    BY <1>0, <2>2
<1>16. Chain(m2, mp, Push(mp, f))
  <2>1. ASSUME NEW g \in Elems(f) PROVE m2[g].next = m[g].next
    <3>1. g \in Hdr /\ g \notin Elems(ms)
      BY <1>4, <1>7, ElemsHdr
    <3>2. g # mp /\ g # pmp
      BY <1>5, <1>6, <1>9, <3>1
    <3> QED
      BY <1>8, <3>1, <3>2 DEF AsUnlinked
  <2>2. m2[mp].next = fp
    BY <1>8 DEF AsUnlinked
  <2> QED
    BY <1>1, <1>6, <1>7, <2>1, <2>2, ChainPush
<1>17. QueueOK(que2[s], m2, M[s])
  <2>1. /\ que2[s].alloc
        /\ que2[s].first = (IF pmp = 0 THEN m[mp].next ELSE que[s].first)
        /\ que2[s].last = (IF m[mp].next = 0 THEN pmp ELSE que[s].last)
        /\ que2[s].qnum = que[s].qnum - 1 /\ que2[s].cbytes = que[s].cbytes - m[mp].ts
    BY DEF GotFrom
  <2>2. /\ que[s].last = LastOf(ms) /\ que[s].qnum = n /\ que[s].cbytes = Total(SizesOf(m, ms))
    BY <1>1 DEF QueueOK
  <2>3. Chain(m2, que2[s].first, M[s])
    <3>1. pmp = 0 <=> i = 1
      BY <1>9
    <3> QED
      BY <1>12, <1>15, <2>1, <3>1
  <2>4. que2[s].last = LastOf(M[s])
    <3>1. LastOf(Less(ms, i)) = IF i = n THEN (IF i > 1 THEN ms[i - 1] ELSE 0) ELSE ms[n]
      BY <1>0, <1>5, LastLessIs
    <3>2. que[s].last = ms[n]
      BY <1>0, <1>5, <2>2 DEF LastOf
    <3> QED
      BY <1>0, <1>12, <1>14, <2>1, <3>1, <3>2
  <2>5. Total(SizesOf(m2, Less(ms, i))) = Total(SizesOf(m, ms)) - m[ms[i]].ts
    <3>1. SameSizes(m, m2, ms) /\ m2 \in Headers
      BY <1>5, <1>8, ElemsHdr DEF SameSizes, AsUnlinked
    <3> QED
      BY <1>0, <1>5, <3>1, SizesAfterLess
  <2>6. que2[s].cbytes = Total(SizesOf(m2, M[s])) /\ que2[s].qnum = Len(M[s])
    BY <1>0, <1>10, <1>12, <2>1, <2>2, <2>5
  <2> QED
    BY <2>1, <2>3, <2>4, <2>6 DEF QueueOK
<1>18. ASSUME NEW t \in Slot, t # s PROVE QueueOK(que2[t], m2, M[t])
  <2>1. M[t] = L[t] /\ que2[t] = que[t] /\ t \in Lines /\ t # MSGMNI
    BY <1>12, <1>18, LinesAre DEF Others
  <2>2. QueueOK(que[t], m, L[t])
    BY DEF Stored
  <2>3. ASSUME NEW g \in Elems(L[t]) PROVE Alike(m, m2, g)
    <3>1. g \in Hdr /\ g \notin Elems(ms)
      BY <1>1, <1>2, <1>18, <2>1, Elsewhere DEF ms
    <3>2. g # mp /\ g # pmp
      BY <1>5, <1>6, <1>9, <3>1
    <3>3. m2[g] = m[g]
      BY <1>8, <3>1, <3>2 DEF AsUnlinked
    <3> QED
      BY <3>3 DEF Alike
  <2>4. SameList(que[t], que2[t])
    BY <2>1 DEF SameList
  <2>5. m2 \in Headers
    BY <1>8 DEF AsUnlinked
  <2> QED
    BY <2>1, <2>2, <2>3, <2>4, <2>5, QueueKeeps
<1>19. TextOK(tx \cup UNION {SpanOf(m, h) : h \in {mp}}, m2, Used(M))
  <2>0. PICK F : F = {mp}
    OBVIOUS
  <2>1. Used(M) = Used(L) \ F
    <3>1. Elems(M[MSGMNI]) = Elems(L[MSGMNI]) \cup F
      BY <1>11, <1>12, <2>0 DEF f
    <3> QED
      BY <3>1, UsedLess
  <2>2. F \in SUBSET Used(L)
    BY <1>6, <1>7, <2>0 DEF Used, f
  <2>3. ASSUME NEW h \in Used(L) PROVE SpanOf(m2, h) = SpanOf(m, h)
    <3>1. h \in Hdr
      BY DEF Used
    <3>2. m2[h].ts = m[h].ts /\ m2[h].spot = m[h].spot
      BY <1>8, <3>1 DEF AsUnlinked
    <3> QED
      BY <3>2 DEF SpanOf
  <2>4. TextOK(tx \cup UNION {SpanOf(m, h) : h \in F}, m2, Used(L) \ F)
    BY <1>1, <2>2, <2>3, TextFreed
  <2> QED
    BY <2>0, <2>1, <2>4
<1>20. Stored(que2, m2, mp, tx \cup UNION {SpanOf(m, h) : h \in {mp}}, M)
  BY <1>12, <1>16, <1>17, <1>18, <1>19 DEF Stored
<1>21. m2 \in Headers
  BY <1>8 DEF AsUnlinked
<1> QED
  BY <1>6, <1>20, <1>21
------------------------------------------------------------------------------
(* A queue is removed: its headers get free, the first of them first.      *)
AtIn(ms, h) == CHOOSE i \in DOMAIN ms : ms[i] = h

Releases(m, ms, fp) ==
  [h \in Hdr |-> IF h \in Elems(ms)
                 THEN [m[h] EXCEPT !.next = IF AtIn(ms, h) = 1 THEN fp ELSE ms[AtIn(ms, h) - 1]]
                 ELSE m[h]]

AsReleased(m, ms, fp, m2) ==
  /\ m2 \in Headers
  /\ \A h \in Hdr : h \notin Elems(ms) => m2[h] = m[h]
  /\ \A i \in 1 .. Len(ms) : m2[ms[i]].next = IF i = 1 THEN fp ELSE ms[i - 1]
  /\ \A h \in Hdr : m2[h].ts = m[h].ts /\ m2[h].spot = m[h].spot /\ m2[h].type = m[h].type

LEMMA AtIs ==
  ASSUME NEW ms \in Seq(Hdr), Injective(ms), NEW i \in 1 .. Len(ms)
  PROVE  AtIn(ms, ms[i]) = i
<1>1. DOMAIN ms = 1 .. Len(ms)
  BY SeqHas
<1>2. \E j \in DOMAIN ms : ms[j] = ms[i]
  BY <1>1
<1>3. AtIn(ms, ms[i]) \in DOMAIN ms /\ ms[AtIn(ms, ms[i])] = ms[i]
  BY <1>2 DEF AtIn
<1> QED
  BY <1>1, <1>3 DEF Injective

LEMMA ReleasesIs ==
  ASSUME NEW m \in Headers, NEW ms \in Seq(Hdr), Injective(ms), NEW fp \in Link,
         NEW m2, m2 = Releases(m, ms, fp)
  PROVE  AsReleased(m, ms, fp, m2)
<1>1. Len(ms) \in Nat /\ \A i \in 1 .. Len(ms) : ms[i] \in Hdr
  BY SeqHas
<1>2. ASSUME NEW i \in 1 .. Len(ms)
      PROVE  LET h == ms[i] IN
             /\ m2[h] \in Header /\ m2[h].next = (IF i = 1 THEN fp ELSE ms[i - 1])
             /\ m2[h].ts = m[h].ts /\ m2[h].spot = m[h].spot /\ m2[h].type = m[h].type
  <2>1. PICK h \in Hdr : h = ms[i]
    BY <1>1
  <2>2. h \in Elems(ms) /\ AtIn(ms, h) = i
    BY <2>1, ElemIs, AtIs
  <2>3. PICK n : n = IF i = 1 THEN fp ELSE ms[i - 1]
    OBVIOUS
  <2>4. n \in Link
    <3>1. i # 1 => i - 1 \in 1 .. Len(ms)
      BY <1>1
    <3>2. Hdr \subseteq Link
      BY Constants DEF Hdr, Link
    <3> QED
      BY <1>1, <2>3, <3>1, <3>2
  <2>5. m2[h] = [m[h] EXCEPT !.next = n] /\ m[h] \in Header
    BY <2>2, <2>3, HeadersAre DEF Releases
  <2>6. m2[h] \in Header /\ m2[h].next = n /\ m2[h].type = m[h].type /\ m2[h].ts = m[h].ts /\ m2[h].spot = m[h].spot
    BY <2>4, <2>5, SetNext
  <2> QED
    BY <2>1, <2>3, <2>6
<1>3. ASSUME NEW h \in Hdr, h \notin Elems(ms) PROVE m2[h] = m[h]
  BY <1>3 DEF Releases
<1>4. ASSUME NEW h \in Hdr
      PROVE  m2[h] \in Header /\ m2[h].ts = m[h].ts /\ m2[h].spot = m[h].spot /\ m2[h].type = m[h].type
  <2>1. CASE h \in Elems(ms)
    <3>1. PICK i \in 1 .. Len(ms) : h = ms[i]
      BY <2>1 DEF Elems
    <3> QED
      BY <1>2, <3>1
  <2>2. CASE h \notin Elems(ms)
    <3>1. m[h] \in Header
      BY HeadersAre
    <3> QED
      BY <1>3, <2>2, <3>1
  <2> QED
    BY <2>1, <2>2
<1>5. m2 \in Headers
  <2>1. DOMAIN m2 = Hdr /\ m2 = [h \in Hdr |-> m2[h]]
    BY DEF Releases
  <2> QED
    BY <1>4, <2>1 DEF Headers
<1>6. \A i \in 1 .. Len(ms) : m2[ms[i]].next = IF i = 1 THEN fp ELSE ms[i - 1]
  BY <1>2
<1>7. \A h \in Hdr : h \notin Elems(ms) => m2[h] = m[h]
  BY <1>3
<1> QED
  BY <1>4, <1>5, <1>6, <1>7 DEF AsReleased

LEMMA Nothing ==
  /\ <<>> \in Seq(Hdr) /\ Len(<<>>) = 0 /\ Injective(<<>>) /\ Elems(<<>>) = {}
  /\ \A m : Chain(m, 0, <<>>) /\ Total(SizesOf(m, <<>>)) = 0
<1>1. <<>> \in Seq(Hdr) /\ Len(<<>>) = 0
  OBVIOUS
<1>2. Injective(<<>>) /\ Elems(<<>>) = {}
  BY <1>1 DEF Injective, Elems
<1>3. ASSUME NEW m PROVE Chain(m, 0, <<>>)
  BY <1>1, <1>2 DEF Chain
<1>4. ASSUME NEW m PROVE Total(SizesOf(m, <<>>)) = 0
  <2>1. DOMAIN <<>> = {}
    OBVIOUS
  <2>2. SizesOf(m, <<>>) = <<>>
    BY <2>1 DEF SizesOf
  <2>3. <<>> \in Seq(Int) /\ Len(<<>>) = 0
    OBVIOUS
  <2>4. Total(<<>>) = 0
    BY <2>3, TotalEmpty
  <2> QED
    BY <2>2, <2>4
<1> QED
  BY <1>1, <1>2, <1>3, <1>4

GoneFrom(q, r, n) ==
  /\ r.first = 0 /\ r.last = 0 /\ r.qnum = q.qnum - n /\ r.cbytes = 0

LEMMA StoredGone ==
  ASSUME NEW que, NEW m \in Headers, NEW fp, NEW tx, NEW L, Stored(que, m, fp, tx, L),
         NEW s \in Slot, NEW ms, ms = L[s],
         NEW m2, m2 = Releases(m, ms, fp),
         NEW que2, Others(que, que2, s), GoneFrom(que[s], que2[s], Len(ms)),
         NEW M, Moved(L, M, s, <<>>, Back(ms, L[MSGMNI]))
  PROVE  m2 \in Headers
         /\ Stored(que2, m2, IF Len(ms) = 0 THEN fp ELSE ms[Len(ms)],
                   tx \cup UNION {SpanOf(m, h) : h \in Elems(ms)}, M)
<1> DEFINE f == L[MSGMNI]
           n == Len(ms)
<1>1. /\ Partition(L) /\ QueueOK(que[s], m, ms) /\ Chain(m, fp, f) /\ TextOK(tx, m, Used(L))
  BY DEF Stored
<1>2. /\ MSGMNI \in Lines /\ s \in Lines /\ s # MSGMNI
  BY LinesAre
<1>3. Chain(m, que[s].first, ms)
  BY <1>1 DEF QueueOK
<1> HIDE DEF f
<1>4. f \in Seq(Hdr) /\ Injective(f) /\ fp \in Link
  BY <1>1, ChainHas, Constants DEF Link, Hdr
<1>5. /\ ms \in Seq(Hdr) /\ Injective(ms) /\ n \in Nat
  BY <1>3, ChainHas
<1>6. /\ \A h \in Elems(f) : h \notin Elems(ms)
      /\ Elems(ms) \cap Elems(f) = {}
  BY <1>1, <1>2, Elsewhere DEF f
<1>7. AsReleased(m, ms, fp, m2)
  BY <1>4, <1>5, ReleasesIs
<1>8. /\ Injective(Back(ms, f)) /\ Elems(Back(ms, f)) = Elems(ms) \cup Elems(f) /\ Back(ms, f) \in Seq(Hdr)
  <2>1. Injective(Back(ms, f)) /\ Elems(Back(ms, f)) = Elems(ms) \cup Elems(f)
    BY <1>4, <1>5, <1>6, BackElems
  <2>2. Back(ms, f) \in Seq(Hdr)
    BY <1>4, <1>5, BackIs
  <2> QED
    BY <2>1, <2>2
<1>9. PICK none : none = <<>>
  OBVIOUS
<1>10. /\ none \in Seq(Hdr) /\ Len(none) = 0 /\ Injective(none) /\ Elems(none) = {}
       /\ Chain(m2, 0, none) /\ Total(SizesOf(m2, none)) = 0
  BY <1>9, Nothing
<1>11. /\ Partition(M) /\ M[s] = none /\ M[MSGMNI] = Back(ms, f)
       /\ \A k \in Lines : k # s /\ k # MSGMNI => M[k] = L[k]
  <2>1. Elems(none) \cap Elems(Back(ms, f)) = {}
    BY <1>10
  <2>2. Elems(none) \cup Elems(Back(ms, f)) = Elems(L[s]) \cup Elems(L[MSGMNI])
    BY <1>8, <1>10 DEF f
  <2>3. Moved(L, M, s, none, Back(ms, f))
    BY <1>9 DEF f
  <2>4. PICK b : b = Back(ms, f)
    OBVIOUS
  <2>5. /\ Partition(L) /\ none \in Seq(Hdr) /\ b \in Seq(Hdr) /\ Injective(none) /\ Injective(b)
        /\ Elems(none) \cap Elems(b) = {} /\ Moved(L, M, s, none, b)
        /\ Elems(none) \cup Elems(b) = Elems(L[s]) \cup Elems(L[MSGMNI])
    BY <1>1, <1>8, <1>10, <2>1, <2>2, <2>3, <2>4
  <2>6. /\ Partition(M) /\ M[s] = none /\ M[MSGMNI] = b
        /\ \A k \in Lines : k # s /\ k # MSGMNI => M[k] = L[k]
    BY <2>5, MovedIs
  <2> QED
    BY <2>4, <2>6
<1>12. Chain(m2, IF n = 0 THEN fp ELSE ms[n], Back(ms, f))
  <2>1. \A i \in 1 .. Len(ms) : m2[ms[i]].next = IF i = 1 THEN fp ELSE ms[i - 1]
    BY <1>7 DEF AsReleased
  <2>2. ASSUME NEW g \in Elems(f) PROVE m2[g].next = m[g].next
    <3>1. g \in Hdr /\ g \notin Elems(ms)
      BY <1>4, <1>6, ElemsHdr
    <3> QED
      BY <1>7, <3>1 DEF AsReleased
  <2> QED
    BY <1>1, <1>5, <1>6, <2>1, <2>2, ChainBack
<1>13. QueueOK(que2[s], m2, M[s])
  <2>1. que[s].qnum = n
    BY <1>1 DEF QueueOK
  <2>2. que2[s].first = 0 /\ que2[s].last = 0 /\ que2[s].qnum = 0 /\ que2[s].cbytes = 0
    BY <1>5, <2>1 DEF GoneFrom
  <2> QED
    BY <1>10, <1>11, <2>2 DEF QueueOK, LastOf
<1>14. ASSUME NEW t \in Slot, t # s PROVE QueueOK(que2[t], m2, M[t])
  <2>1. M[t] = L[t] /\ que2[t] = que[t] /\ t \in Lines /\ t # MSGMNI
    BY <1>11, <1>14, LinesAre DEF Others
  <2>2. QueueOK(que[t], m, L[t])
    BY DEF Stored
  <2>3. ASSUME NEW g \in Elems(L[t]) PROVE Alike(m, m2, g)
    <3>1. g \in Hdr /\ g \notin Elems(ms)
      BY <1>1, <1>2, <1>14, <2>1, Elsewhere
    <3>2. m2[g] = m[g]
      BY <1>7, <3>1 DEF AsReleased
    <3> QED
      BY <3>2 DEF Alike
  <2>4. SameList(que[t], que2[t])
    BY <2>1 DEF SameList
  <2>5. m2 \in Headers
    BY <1>7 DEF AsReleased
  <2> QED
    BY <2>1, <2>2, <2>3, <2>4, <2>5, QueueKeeps
<1>15. TextOK(tx \cup UNION {SpanOf(m, h) : h \in Elems(ms)}, m2, Used(M))
  <2>0. PICK F : F = Elems(ms)
    OBVIOUS
  <2>1. Used(M) = Used(L) \ F
    <3>1. Elems(M[MSGMNI]) = Elems(L[MSGMNI]) \cup F
      BY <1>8, <1>11, <2>0 DEF f
    <3> QED
      BY <3>1, UsedLess
  <2>2. F \in SUBSET Used(L)
    BY <1>5, <1>6, <2>0, ElemsHdr DEF Used, f
  <2>3. ASSUME NEW h \in Used(L) PROVE SpanOf(m2, h) = SpanOf(m, h)
    <3>1. h \in Hdr
      BY DEF Used
    <3>2. m2[h].ts = m[h].ts /\ m2[h].spot = m[h].spot
      BY <1>7, <3>1 DEF AsReleased
    <3> QED
      BY <3>2 DEF SpanOf
  <2>4. TextOK(tx \cup UNION {SpanOf(m, h) : h \in F}, m2, Used(L) \ F)
    BY <1>1, <2>2, <2>3, TextFreed
  <2> QED
    BY <2>0, <2>1, <2>4
<1>16. Stored(que2, m2, IF n = 0 THEN fp ELSE ms[n], tx \cup UNION {SpanOf(m, h) : h \in Elems(ms)}, M)
  BY <1>11, <1>12, <1>13, <1>14, <1>15 DEF Stored
<1> QED
  BY <1>7, <1>16 DEF AsReleased
------------------------------------------------------------------------------
(* Identifiers and calls.                                                  *)

LEMMA Multiples ==
  ASSUME NEW N \in Nat \ {0}, NEW a \in Int, NEW b \in Int, a < b
  PROVE  a * N + N =< b * N
<1>1. PICK d \in Nat : b = a + 1 + d
  <2>1. b - a - 1 \in Nat
    OBVIOUS
  <2> QED
    BY <2>1
<1>2. b * N = a * N + N + d * N
  BY <1>1
<1>3. d * N \in Nat /\ a * N \in Int
  OBVIOUS
<1> QED
  BY <1>2, <1>3

LEMMA DivMod ==
  ASSUME NEW N \in Nat \ {0}, NEW q \in Nat, NEW s \in 0 .. N - 1
  PROVE  (q * N + s) % N = s /\ (q * N + s) \div N = q
<1> DEFINE x == q * N + s
           r == x % N
           t == x \div N
<1>1. x \in Int /\ r \in 0 .. N - 1 /\ t \in Int /\ x = N * t + r
  OBVIOUS
<1>2. x = q * N + s
  OBVIOUS
<1> HIDE DEF x, r, t
<1>3. t * N = N * t
  BY <1>1
<1>4. ~ (t < q)
  BY <1>1, <1>2, <1>3, Multiples
<1>5. ~ (q < t)
  BY <1>1, <1>2, <1>3, Multiples
<1>6. t = q
  BY <1>1, <1>4, <1>5
<1>7. r = s
  BY <1>1, <1>2, <1>3, <1>6
<1> QED
  BY <1>6, <1>7 DEF x, r, t

LEMMA Divided ==
  ASSUME NEW N \in Nat \ {0}, NEW x \in Nat
  PROVE  x % N \in 0 .. N - 1 /\ x \div N \in Nat /\ x = (x \div N) * N + (x % N)
<1> DEFINE r == x % N
           t == x \div N
<1>1. x \in Int /\ r \in 0 .. N - 1 /\ t \in Int /\ x = N * t + r
  OBVIOUS
<1>2. t \in Nat
  OBVIOUS
<1> HIDE DEF r, t
<1>3. t * N = N * t
  BY <1>1
<1>4. r \in 0 .. N - 1 /\ t \in Nat /\ x = t * N + r
  BY <1>1, <1>2, <1>3
<1> QED
  BY Zenon, <1>4 DEF r, t

LEMMA SlotIs ==
  ASSUME NEW id \in Nat
  PROVE  SlotOf(id) \in Slot /\ id \div MSGMNI \in Nat /\ id = (id \div MSGMNI) * MSGMNI + SlotOf(id)
<1>1. MSGMNI \in Nat \ {0}
  BY Constants
<1>2. id % MSGMNI \in 0 .. MSGMNI - 1 /\ id \div MSGMNI \in Nat /\ id = (id \div MSGMNI) * MSGMNI + (id % MSGMNI)
  BY Zenon, <1>1, Divided
<1> QED
  BY Zenon, <1>2 DEF SlotOf, Slot

LEMMA IdIs ==
  ASSUME NEW s \in Slot, NEW q \in Nat
  PROVE  /\ q * MSGMNI + s \in Nat
         /\ SlotOf(q * MSGMNI + s) = s /\ (q * MSGMNI + s) \div MSGMNI = q
<1>1. MSGMNI \in Nat \ {0} /\ s \in 0 .. MSGMNI - 1
  BY Constants DEF Slot
<1>2. q * MSGMNI + s \in Nat
  <2>1. q * MSGMNI \in Nat /\ s \in Nat
    BY <1>1
  <2> QED
    BY <2>1
<1> QED
  BY <1>1, <1>2, DivMod DEF SlotOf

LEMMA IdNat == Id \subseteq Nat
<1>1. MSGMNI * (MaxSeq + 1) \in Int
  BY Constants
<1> QED
  BY <1>1 DEF Id

Sends(c)    == c.op = "send"
Receives(c) == c.op = "receive"

LEMMA CallHas ==
  ASSUME NEW c \in Call
  PROVE  /\ c.id \in Id /\ c.id \in Nat /\ SlotOf(c.id) \in Slot
         /\ Sends(c) => c.msg \in Message /\ c.msg[1] \in Nat /\ c.msg[2] \in Nat
         /\ Receives(c) => c.type \in RType /\ c.type \in Int
         /\ Sends(c) \/ Receives(c)
<1>1. c.id \in Id
  BY DEF Call
<1>2. ASSUME Sends(c) PROVE c.msg \in Message
  BY <1>2 DEF Call, Sends
<1>3. ASSUME Receives(c) PROVE c.type \in RType
  BY <1>3 DEF Call, Receives
<1>4. Sends(c) \/ Receives(c)
  BY DEF Call, Sends, Receives
<1>5. ASSUME NEW x \in Message PROVE x[1] \in Nat /\ x[2] \in Nat
  <2>1. x \in Nat \X (Nat \ {0})
    BY MsgAssumption
  <2> QED
    BY <2>1
<1>6. RType \subseteq Int
  BY MsgAssumption
<1>7. c.id \in Nat
  BY <1>1, IdNat
<1>8. SlotOf(c.id) \in Slot
  BY <1>7, SlotIs
<1>9. Sends(c) => c.msg \in Message /\ c.msg[1] \in Nat /\ c.msg[2] \in Nat
  BY <1>2, <1>5
<1>10. Receives(c) => c.type \in RType /\ c.type \in Int
  BY <1>3, <1>6
<1> QED
  BY <1>1, <1>4, <1>7, <1>8, <1>9, <1>10

------------------------------------------------------------------------------
(* Processes and their calls.                                              *)

AtUser    == "user"
AtRoom    == "room"
AtHeader  == "header"
AtText    == "text"
AtMessage == "message"
Place == {AtUser, AtRoom, AtHeader, AtText, AtMessage}

LEMMA Places ==
  /\ AtUser # AtRoom /\ AtUser # AtHeader /\ AtUser # AtText /\ AtUser # AtMessage
  /\ AtRoom # AtHeader /\ AtRoom # AtText /\ AtRoom # AtMessage
  /\ AtHeader # AtText /\ AtHeader # AtMessage /\ AtText # AtMessage
BY DEF AtUser, AtRoom, AtHeader, AtText, AtMessage

CallOK(p) ==
  /\ pc[p] = AtUser => ~asleep[p] /\ frame[p] = NoCall
  /\ pc[p] # AtUser => frame[p] \in Call
  /\ pc[p] = AtRoom => Sends(frame[p])
  /\ pc[p] = AtMessage => Receives(frame[p])

Calls ==
  /\ pc \in [Proc -> Place] /\ asleep \in [Proc -> BOOLEAN] /\ frame \in [Proc -> Call \cup {NoCall}]
  /\ \A p \in Proc : CallOK(p)

(* Who sleeps at a place has slept there before, is not one of those woken *)
(* P, and makes the call it made; or has just gone to sleep in call of C.  *)
On(p, on) == asleep[p] /\ pc[p] = on
Sleepers(on, P, C) == \A p \in Proc :
  On(p, on)' => (On(p, on) /\ p \notin P /\ frame'[p] = frame[p]) \/ frame'[p] \in C

LEMMA WakeupIs ==
  ASSUME Calls, NEW P, Wakeup(P), UNCHANGED <<pc, frame>>
  PROVE  Calls' /\ \A on \in Place : Sleepers(on, P, {})
<1>1. ASSUME NEW p \in Proc PROVE asleep'[p] = (asleep[p] /\ p \notin P)
  BY DEF Wakeup
<1>2. asleep' \in [Proc -> BOOLEAN]
  BY DEF Wakeup
<1>3. ASSUME NEW p \in Proc PROVE CallOK(p)'
  <2>1. CallOK(p) /\ asleep[p] \in BOOLEAN
    BY DEF Calls
  <2> QED
    BY <1>1, <2>1 DEF CallOK
<1>4. Calls'
  BY <1>2, <1>3 DEF Calls
<1>5. ASSUME NEW on \in Place PROVE Sleepers(on, P, {})
  BY <1>1 DEF Sleepers, On
<1> QED
  BY <1>4, <1>5

LEMMA ReturnsIs ==
  ASSUME Calls, NEW p \in Proc, NEW P, Returns(p, P)
  PROVE  Calls' /\ \A on \in Place : on # AtUser => Sleepers(on, P, {})
<1>1. /\ pc' = [pc EXCEPT ![p] = AtUser] /\ frame' = [frame EXCEPT ![p] = NoCall] /\ Wakeup(P \cup {p})
  BY DEF Returns, AtUser
<1>2. /\ pc \in [Proc -> Place] /\ asleep \in [Proc -> BOOLEAN] /\ frame \in [Proc -> Call \cup {NoCall}]
  BY DEF Calls
<1>3. AtUser \in Place
  BY DEF Place
<1>4. ASSUME NEW q \in Proc
      PROVE  /\ asleep'[q] = (asleep[q] /\ q \notin P \cup {p})
             /\ q # p => pc'[q] = pc[q] /\ frame'[q] = frame[q]
             /\ q = p => pc'[q] = AtUser /\ frame'[q] = NoCall
  BY <1>1, <1>2 DEF Wakeup
<1>5. /\ pc' \in [Proc -> Place] /\ asleep' \in [Proc -> BOOLEAN] /\ frame' \in [Proc -> Call \cup {NoCall}]
  BY <1>1, <1>2, <1>3 DEF Wakeup
<1>6. ASSUME NEW q \in Proc PROVE CallOK(q)'
  <2>1. CallOK(q) /\ asleep[q] \in BOOLEAN
    BY DEF Calls
  <2>2. CASE q = p
    BY <1>4, <2>2, Places DEF CallOK
  <2>3. CASE q # p
    BY <1>4, <2>1, <2>3 DEF CallOK
  <2> QED
    BY <2>2, <2>3
<1>7. ASSUME NEW on \in Place, on # AtUser PROVE Sleepers(on, P, {})
  BY <1>4, <1>7 DEF Sleepers, On
<1> QED
  BY <1>5, <1>6, <1>7 DEF Calls

LEMMA SleepsIs ==
  ASSUME Calls, NEW p \in Proc, NEW c \in Call, NEW on \in Place, on # AtUser,
         on = AtRoom => Sends(c), on = AtMessage => Receives(c),
         Sleeps(p, c, on)
  PROVE  /\ Calls' /\ Sleepers(on, {}, {c})
         /\ \A x \in Place : x # on => Sleepers(x, {}, {})
<1>1. /\ pc' = [pc EXCEPT ![p] = on] /\ asleep' = [asleep EXCEPT ![p] = TRUE]
      /\ frame' = [frame EXCEPT ![p] = c]
  BY DEF Sleeps
<1>2. /\ pc \in [Proc -> Place] /\ asleep \in [Proc -> BOOLEAN] /\ frame \in [Proc -> Call \cup {NoCall}]
  BY DEF Calls
<1>3. ASSUME NEW q \in Proc
      PROVE  /\ q # p => pc'[q] = pc[q] /\ frame'[q] = frame[q] /\ asleep'[q] = asleep[q]
             /\ q = p => pc'[q] = on /\ frame'[q] = c
  BY <1>1, <1>2
<1>4. /\ pc' \in [Proc -> Place] /\ asleep' \in [Proc -> BOOLEAN] /\ frame' \in [Proc -> Call \cup {NoCall}]
  BY <1>1, <1>2
<1>5. ASSUME NEW q \in Proc PROVE CallOK(q)'
  <2>1. CallOK(q)
    BY DEF Calls
  <2>2. CASE q = p
    BY <1>3, <2>2, Places DEF CallOK
  <2>3. CASE q # p
    BY <1>3, <2>1, <2>3 DEF CallOK
  <2> QED
    BY <2>2, <2>3
<1>6. Sleepers(on, {}, {c})
  BY <1>3 DEF Sleepers, On
<1>7. ASSUME NEW x \in Place, x # on PROVE Sleepers(x, {}, {})
  BY <1>3, <1>7 DEF Sleepers, On
<1> QED
  BY <1>4, <1>5, <1>6, <1>7 DEF Calls

LEMMA TriesIs ==
  ASSUME Calls, NEW p \in Proc, NEW c \in Tries(p)
  PROVE  /\ c \in Call /\ frame[p] \in {NoCall, c}
<1>1. CallOK(p)
  BY DEF Calls
<1>2. CASE pc[p] = AtUser
  BY <1>1, <1>2 DEF Tries, CallOK, AtUser
<1>3. CASE pc[p] # AtUser
  BY <1>1, <1>3 DEF Tries, CallOK, AtUser
<1> QED
  BY <1>2, <1>3
------------------------------------------------------------------------------
(* What a call sleeps for, and the invariant.                                  *)

SlotFor(c) == SlotOf(c.id)
Fits(q, c) == q.alloc /\ c.id \div MSGMNI = q.seq
NoMatch(t, m, ms) == \A i \in 1 .. Len(ms) : ~Matches(t, m[ms[i]])

RoomIn(q, c, in) == Fits(q, c) /\ q.wwait /\ (c.msg[1] + q.cbytes > q.qbytes \/ in)
MessageIn(q, c, m, ms) == Fits(q, c) /\ q.rwait /\ NoMatch(c.type, m, ms)
TextFor(w, tx, c) == w /\ c.msg[1] > 0 /\ \A b \in Unit : ~(b .. b + btoq(c.msg[1]) - 1 \subseteq tx)

RoomOK == \A p \in Proc : On(p, AtRoom) =>
  RoomIn(msgque[SlotFor(frame[p])], frame[p], SlotFor(frame[p]) \in raised)
HeaderOK == \A p \in Proc : On(p, AtHeader) => msgfp = 0
TextWaitOK == \A p \in Proc : On(p, AtText) => TextFor(want, text, frame[p])
MessageOK(L) == \A p \in Proc : On(p, AtMessage) =>
  MessageIn(msgque[SlotFor(frame[p])], frame[p], msgh, L[SlotFor(frame[p])])

Held(L) ==
  /\ msgque \in Msqids /\ msgh \in Headers /\ want \in BOOLEAN
  /\ Stored(msgque, msgh, msgfp, text, L)
  /\ Calls
  /\ RoomOK /\ HeaderOK /\ TextWaitOK /\ MessageOK(L)

MsgInv == \E L : Held(L)

(* Who still sleeps, and is not woken, sleeps for what is still not there. *)
LEMMA RoomStep ==
  ASSUME Calls, RoomOK, NEW P, NEW C, Sleepers(AtRoom, P, C),
         \A c \in Call : Sends(c) /\ RoomIn(msgque[SlotFor(c)], c, SlotFor(c) \in raised) =>
           RoomIn(msgque'[SlotFor(c)], c, SlotFor(c) \in raised') \/ InQueue(AtRoom, SlotFor(c)) \subseteq P,
         \A c \in C : RoomIn(msgque'[SlotFor(c)], c, SlotFor(c) \in raised')
  PROVE  RoomOK'
<1>1. SUFFICES ASSUME NEW p \in Proc, On(p, AtRoom)'
               PROVE  RoomIn(msgque'[SlotFor(frame'[p])], frame'[p], SlotFor(frame'[p]) \in raised')
  BY DEF RoomOK, SlotFor
<1>2. CASE frame'[p] \in C
  BY <1>2
<1>3. CASE On(p, AtRoom) /\ p \notin P /\ frame'[p] = frame[p]
  <2>1. PICK c : c = frame[p]
    OBVIOUS
  <2>2. c \in Call /\ Sends(c)
    BY <1>3, <2>1, Places DEF Calls, CallOK, On
  <2>3. RoomIn(msgque[SlotFor(c)], c, SlotFor(c) \in raised)
    BY <1>3, <2>1 DEF RoomOK
  <2>4. p \in InQueue(AtRoom, SlotFor(c))
    BY <1>3, <2>1 DEF InQueue, On, SlotFor
  <2>5. RoomIn(msgque'[SlotFor(c)], c, SlotFor(c) \in raised')
    BY <1>3, <2>2, <2>3, <2>4
  <2> QED
    BY <1>3, <2>1, <2>5
<1> QED
  BY <1>1, <1>2, <1>3 DEF Sleepers

LEMMA MessageStep ==
  ASSUME NEW L, NEW M, Calls, MessageOK(L), NEW P, NEW C, Sleepers(AtMessage, P, C),
         \A c \in Call : MessageIn(msgque[SlotFor(c)], c, msgh, L[SlotFor(c)]) =>
           MessageIn(msgque'[SlotFor(c)], c, msgh', M[SlotFor(c)]) \/ InQueue(AtMessage, SlotFor(c)) \subseteq P,
         \A c \in C : MessageIn(msgque'[SlotFor(c)], c, msgh', M[SlotFor(c)])
  PROVE  MessageOK(M)'
<1>1. SUFFICES ASSUME NEW p \in Proc, On(p, AtMessage)'
               PROVE  MessageIn(msgque'[SlotFor(frame'[p])], frame'[p], msgh', M[SlotFor(frame'[p])])
  BY DEF MessageOK, SlotFor
<1>2. CASE frame'[p] \in C
  BY <1>2
<1>3. CASE On(p, AtMessage) /\ p \notin P /\ frame'[p] = frame[p]
  <2>1. PICK c : c = frame[p]
    OBVIOUS
  <2>2. c \in Call
    BY <1>3, <2>1, Places DEF Calls, CallOK, On
  <2>3. MessageIn(msgque[SlotFor(c)], c, msgh, L[SlotFor(c)])
    BY <1>3, <2>1 DEF MessageOK
  <2>4. p \in InQueue(AtMessage, SlotFor(c))
    BY <1>3, <2>1 DEF InQueue, On, SlotFor
  <2>5. MessageIn(msgque'[SlotFor(c)], c, msgh', M[SlotFor(c)])
    BY <1>3, <2>2, <2>3, <2>4
  <2> QED
    BY <1>3, <2>1, <2>5
<1> QED
  BY <1>1, <1>2, <1>3 DEF Sleepers

LEMMA TextStep ==
  ASSUME Calls, TextWaitOK, NEW P, NEW C, Sleepers(AtText, P, C),
         \A c \in Call : TextFor(want, text, c) => TextFor(want', text', c) \/ AllOf(AtText) \subseteq P,
         \A c \in C : TextFor(want', text', c)
  PROVE  TextWaitOK'
<1>1. SUFFICES ASSUME NEW p \in Proc, On(p, AtText)'
               PROVE  TextFor(want', text', frame'[p])
  BY DEF TextWaitOK
<1>2. CASE frame'[p] \in C
  BY <1>2
<1>3. CASE On(p, AtText) /\ p \notin P /\ frame'[p] = frame[p]
  <2>1. frame[p] \in Call
    BY <1>3, Places DEF Calls, CallOK, On
  <2>2. TextFor(want, text, frame[p])
    BY <1>3 DEF TextWaitOK
  <2>3. p \in AllOf(AtText)
    BY <1>3 DEF AllOf, On
  <2> QED
    BY <1>3, <2>1, <2>2, <2>3
<1> QED
  BY <1>1, <1>2, <1>3 DEF Sleepers

LEMMA HeaderStep ==
  ASSUME HeaderOK, NEW P, NEW C, Sleepers(AtHeader, P, C),
         msgfp = 0 => msgfp' = 0 \/ AllOf(AtHeader) \subseteq P,
         C # {} => msgfp' = 0
  PROVE  HeaderOK'
<1>1. SUFFICES ASSUME NEW p \in Proc, On(p, AtHeader)' PROVE msgfp' = 0
  BY DEF HeaderOK
<1>2. CASE frame'[p] \in C
  BY <1>2
<1>3. CASE On(p, AtHeader) /\ p \notin P /\ frame'[p] = frame[p]
  <2>1. msgfp = 0
    BY <1>3 DEF HeaderOK
  <2>2. p \in AllOf(AtHeader)
    BY <1>3 DEF AllOf, On
  <2> QED
    BY <1>3, <2>1, <2>2
<1> QED
  BY <1>1, <1>2, <1>3 DEF Sleepers

(* The lists, as the model follows them.                                   *)
LEMMA QueueHere ==
  ASSUME NEW L, Stored(msgque, msgh, msgfp, text, L)
  PROVE  /\ \A s \in Slot : Queue(s) = L[s]
         /\ List(msgfp) = L[MSGMNI]
<1>1. ASSUME NEW s \in Slot PROVE Queue(s) = L[s]
  <2>1. Chain(msgh, msgque[s].first, L[s])
    BY DEF Stored, QueueOK
  <2>2. ListIn(msgh, msgque[s].first) = L[s]
    BY <2>1, ListIs
  <2> QED
    BY <2>2, ListHere DEF Queue
<1>2. List(msgfp) = L[MSGMNI]
  <2>1. Chain(msgh, msgfp, L[MSGMNI])
    BY DEF Stored
  <2>2. ListIn(msgh, msgfp) = L[MSGMNI]
    BY <2>1, ListIs
  <2> QED
    BY <2>2, ListHere
<1> QED
  BY <1>1, <1>2

LEMMA LiveIs ==
  ASSUME NEW c
  PROVE  Live(c.id) <=> Fits(msgque[SlotFor(c)], c)
BY DEF Live, Fits, SlotFor

LEMMA MinOf ==
  ASSUME NEW T \in SUBSET Nat, T # {}
  PROVE  Min(T) \in T /\ \A y \in T : Min(T) =< y
BY LeastOf DEF Min

(* What findmsg() finds in a list.                                         *)
FoundIn(t, m, ms) ==
  LET good == {i \in DOMAIN ms : Matches(t, m[ms[i]])}
      low  == {i \in good : \A j \in good : m[ms[i]].type <= m[ms[j]].type}
  IN IF good = {} THEN 0 ELSE Min(IF t < 0 THEN low ELSE good)

Picked(t, m, ms, i) ==
  /\ i \in 1 .. Len(ms) /\ Matches(t, m[ms[i]])
  /\ \A j \in 1 .. Len(ms) : Matches(t, m[ms[j]]) =>
       IF t < 0 THEN m[ms[i]].type < m[ms[j]].type \/ (m[ms[i]].type = m[ms[j]].type /\ i <= j)
                ELSE i <= j

LEMMA FoundIs ==
  ASSUME NEW t \in Int, NEW m \in Headers, NEW ms \in Seq(Hdr)
  PROVE  /\ NoMatch(t, m, ms) => FoundIn(t, m, ms) = 0
         /\ ~NoMatch(t, m, ms) => Picked(t, m, ms, FoundIn(t, m, ms))
<1> DEFINE n == Len(ms)
           Ok(i) == Matches(t, m[ms[i]])
           ty(i) == m[ms[i]].type
           good == {i \in 1 .. n : Ok(i)}
           low == {i \in good : \A j \in good : ty(i) <= ty(j)}
<1>1. n \in Nat /\ DOMAIN ms = 1 .. n /\ \A i \in 1 .. n : ty(i) \in Nat
  <2>1. n \in Nat /\ DOMAIN ms = 1 .. n /\ \A i \in 1 .. n : ms[i] \in Hdr
    BY SeqHas
  <2> QED
    BY <2>1, HeadersAre
<1>2. FoundIn(t, m, ms) = IF good = {} THEN 0 ELSE Min(IF t < 0 THEN low ELSE good)
  BY <1>1 DEF FoundIn
<1>3. NoMatch(t, m, ms) <=> \A i \in 1 .. n : ~Ok(i)
  BY DEF NoMatch
<1>4. NoMatch(t, m, ms) <=> good = {}
  BY <1>3
<1>5. Picked(t, m, ms, FoundIn(t, m, ms)) <=>
        LET i == FoundIn(t, m, ms) IN
        /\ i \in 1 .. n /\ Ok(i)
        /\ \A j \in 1 .. n : Ok(j) => IF t < 0 THEN ty(i) < ty(j) \/ (ty(i) = ty(j) /\ i <= j) ELSE i <= j
  BY DEF Picked
<1>6. \A i : i \in good <=> i \in 1 .. n /\ Ok(i)
  OBVIOUS
<1>7. \A i : i \in low <=> i \in good /\ \A j \in good : ty(i) <= ty(j)
  OBVIOUS
<1>8. good \in SUBSET Nat /\ low \in SUBSET good
  BY <1>1
<1> HIDE DEF n, Ok, ty, good, low
<1>9. ASSUME good # {} PROVE low # {}
  <2> DEFINE T == {ty(i) : i \in good}
  <2>1. T \in SUBSET Nat /\ T # {}
    BY <1>1, <1>6, <1>9
  <2>2. PICK x \in T : \A y \in T : x =< y
    BY <2>1, LeastOf
  <2>3. PICK i \in good : x = ty(i)
    BY <2>2
  <2>4. \A j \in good : ty(i) <= ty(j)
    BY <2>2, <2>3
  <2> QED
    BY <1>7, <2>3, <2>4
<1>10. ASSUME good # {} PROVE Picked(t, m, ms, FoundIn(t, m, ms))
  <2>1. CASE t < 0
    <3>1. PICK i : i = Min(low)
      OBVIOUS
    <3>2. i \in low /\ \A y \in low : i =< y
      BY <1>8, <1>9, <1>10, <3>1, MinOf
    <3>3. i \in 1 .. n /\ Ok(i) /\ \A j \in good : ty(i) <= ty(j)
      BY <1>6, <1>7, <3>2
    <3>4. ASSUME NEW j \in 1 .. n, Ok(j) PROVE ty(i) < ty(j) \/ (ty(i) = ty(j) /\ i <= j)
      <4>1. j \in good /\ ty(i) <= ty(j) /\ ty(i) \in Nat /\ ty(j) \in Nat
        BY <1>1, <1>6, <3>3, <3>4
      <4>2. ASSUME ty(i) = ty(j) PROVE i <= j
        <5>1. j \in low
          BY <1>7, <3>3, <4>1, <4>2
        <5> QED
          BY <3>2, <5>1
      <4> QED
        BY <4>1, <4>2
    <3>5. FoundIn(t, m, ms) = i
      BY <1>2, <1>10, <2>1, <3>1
    <3> QED
      BY <1>5, <2>1, <3>3, <3>4, <3>5
  <2>2. CASE ~(t < 0)
    <3>1. PICK i : i = Min(good)
      OBVIOUS
    <3>2. i \in good /\ \A y \in good : i =< y
      BY <1>8, <1>10, <3>1, MinOf
    <3>3. i \in 1 .. n /\ Ok(i)
      BY <1>6, <3>2
    <3>4. \A j \in 1 .. n : Ok(j) => i <= j
      BY <1>6, <3>2
    <3>5. FoundIn(t, m, ms) = i
      BY <1>2, <1>10, <2>2, <3>1
    <3> QED
      BY <1>5, <2>2, <3>3, <3>4, <3>5
  <2> QED
    BY <2>1, <2>2
<1>11. good = {} => FoundIn(t, m, ms) = 0
  BY <1>2
<1> QED
  BY <1>4, <1>10, <1>11

LEMMA FoundHere ==
  ASSUME NEW L, Held(L), NEW c \in Call, Receives(c)
  PROVE  /\ Found(c) = FoundIn(c.type, msgh, L[SlotFor(c)])
         /\ Found(c) = 0 <=> NoMatch(c.type, msgh, L[SlotFor(c)])
         /\ Found(c) # 0 => Picked(c.type, msgh, L[SlotFor(c)], Found(c))
<1> DEFINE ms == L[SlotFor(c)]
<1>1. SlotFor(c) \in Slot /\ c.type \in Int
  BY CallHas DEF SlotFor
<1>2. Stored(msgque, msgh, msgfp, text, L) /\ msgh \in Headers
  BY DEF Held
<1>3. Queue(SlotOf(c.id)) = ms
  BY <1>1, <1>2, QueueHere DEF SlotFor
<1>4. ms \in Seq(Hdr)
  <2>1. SlotFor(c) \in Lines
    BY <1>1, LinesAre
  <2> QED
    BY <1>2, <2>1, Elsewhere DEF Stored
<1>5. Found(c) = FoundIn(c.type, msgh, ms)
  BY <1>3 DEF Found, FoundIn
<1> HIDE DEF ms
<1>6. /\ NoMatch(c.type, msgh, ms) => Found(c) = 0
      /\ ~NoMatch(c.type, msgh, ms) => Picked(c.type, msgh, ms, Found(c))
  BY <1>1, <1>2, <1>4, <1>5, FoundIs
<1>7. Picked(c.type, msgh, ms, Found(c)) => Found(c) # 0
  <2>1. Len(ms) \in Nat
    BY <1>4, SeqHas
  <2> QED
    BY <2>1 DEF Picked
<1> QED
  BY <1>5, <1>6, <1>7 DEF ms
------------------------------------------------------------------------------
(* The actions keep the invariant.                                         *)

LEMMA HeldHas ==
  ASSUME NEW L, Held(L)
  PROVE  /\ msgque \in Msqids /\ msgh \in Headers /\ want \in BOOLEAN
         /\ Stored(msgque, msgh, msgfp, text, L) /\ Calls
         /\ RoomOK /\ HeaderOK /\ TextWaitOK /\ MessageOK(L)
BY DEF Held

LEMMA InPlace ==
  /\ AtRoom \in Place /\ AtHeader \in Place /\ AtText \in Place /\ AtMessage \in Place
  /\ AtRoom # AtUser /\ AtHeader # AtUser /\ AtText # AtUser /\ AtMessage # AtUser
BY Places DEF Place

(* Nothing is changed but who sleeps.                                      *)
LEMMA QuietKeeps ==
  ASSUME NEW L, Held(L), NEW p \in Proc, Returns(p, {}), UNCHANGED <<store, raised>>
  PROVE  Held(L)'
<1>1. /\ msgque' = msgque /\ msgh' = msgh /\ msgfp' = msgfp /\ text' = text /\ want' = want
      /\ raised' = raised
  BY DEF store
<1>2. Calls' /\ \A on \in Place : on # AtUser => Sleepers(on, {}, {})
  BY HeldHas, ReturnsIs
<1>3. /\ Sleepers(AtRoom, {}, {}) /\ Sleepers(AtHeader, {}, {})
      /\ Sleepers(AtText, {}, {}) /\ Sleepers(AtMessage, {}, {})
  BY <1>2, InPlace
<1>4. RoomOK'
  BY <1>1, <1>3, HeldHas, RoomStep
<1>5. HeaderOK'
  BY <1>1, <1>3, HeldHas, HeaderStep
<1>6. TextWaitOK'
  BY <1>1, <1>3, HeldHas, TextStep
<1>7. MessageOK(L)'
  BY <1>1, <1>3, HeldHas, MessageStep
<1> QED
  BY <1>1, <1>2, <1>4, <1>5, <1>6, <1>7, HeldHas DEF Held

Put(que, s, r) == [que EXCEPT ![s] = r]
PutIn(que, que2, s, r) == que2 \in Msqids /\ que2[s] = r /\ Others(que, que2, s)

LEMMA QueueSet ==
  ASSUME NEW que \in Msqids, NEW s \in Slot, NEW r \in Msqid
  PROVE  PutIn(que, Put(que, s, r), s, r)
BY DEF Msqids, Others, Put, PutIn

(* The flags that are set.                                                 *)
WwaitSet(q, r) == r \in Msqid /\ SameList(q, r) /\ r.wwait /\ r.rwait = q.rwait /\ r.qbytes = q.qbytes
RwaitSet(q, r) == r \in Msqid /\ SameList(q, r) /\ r.rwait /\ r.wwait = q.wwait /\ r.qbytes = q.qbytes

LEMMA WwaitOn ==
  ASSUME NEW q \in Msqid
  PROVE  WwaitSet(q, [q EXCEPT !.wwait = TRUE])
BY SetWwait DEF WwaitSet

LEMMA RwaitOn ==
  ASSUME NEW q \in Msqid
  PROVE  RwaitSet(q, [q EXCEPT !.rwait = TRUE])
BY SetRwait DEF RwaitSet

LEMMA SameOthers ==
  ASSUME NEW que, NEW que2, NEW s \in Slot, Others(que, que2, s), SameList(que[s], que2[s])
  PROVE  \A t \in Slot : SameList(que[t], que2[t])
BY DEF Others, SameList

LEMMA SlotForIs ==
  ASSUME NEW c \in Call
  PROVE  SlotFor(c) \in Slot
BY CallHas DEF SlotFor

LEMMA WaitForHeaderKeeps ==
  ASSUME NEW L, Held(L), NEW p \in Proc, NEW c \in Call, WaitForHeader(p, c)
  PROVE  Held(L)'
<1>1. /\ msgque' = msgque /\ msgh' = msgh /\ msgfp' = msgfp /\ text' = text /\ want' = want
      /\ raised' = raised /\ Sleeps(p, c, AtHeader) /\ msgfp = 0
  BY DEF store, WaitForHeader, AtHeader
<1>2. /\ Calls' /\ Sleepers(AtHeader, {}, {c})
      /\ \A x \in Place : x # AtHeader => Sleepers(x, {}, {})
  BY <1>1, HeldHas, SleepsIs, InPlace, Places
<1>3. /\ Sleepers(AtRoom, {}, {}) /\ Sleepers(AtText, {}, {}) /\ Sleepers(AtMessage, {}, {})
  BY <1>2, InPlace, Places
<1>4. RoomOK'
  BY <1>1, <1>3, HeldHas, RoomStep
<1>5. HeaderOK'
  BY <1>1, <1>2, HeldHas, HeaderStep
<1>6. TextWaitOK'
  BY <1>1, <1>3, HeldHas, TextStep
<1>7. MessageOK(L)'
  BY <1>1, <1>3, HeldHas, MessageStep
<1> QED
  BY <1>1, <1>2, <1>4, <1>5, <1>6, <1>7, HeldHas DEF Held

LEMMA WaitForTextKeeps ==
  ASSUME NEW L, Held(L), NEW p \in Proc, NEW c \in Call, WaitForText(p, c)
  PROVE  Held(L)'
<1>1. /\ msgque' = msgque /\ msgh' = msgh /\ msgfp' = msgfp /\ text' = text /\ want' = TRUE
      /\ raised' = raised /\ Sleeps(p, c, AtText) /\ NoText(c)
  BY DEF WaitForText, AtText
<1>2. /\ Calls' /\ Sleepers(AtText, {}, {c})
      /\ \A x \in Place : x # AtText => Sleepers(x, {}, {})
  BY <1>1, HeldHas, SleepsIs, InPlace, Places
<1>3. /\ Sleepers(AtRoom, {}, {}) /\ Sleepers(AtHeader, {}, {}) /\ Sleepers(AtMessage, {}, {})
  BY <1>2, InPlace, Places
<1>4. RoomOK'
  BY <1>1, <1>3, HeldHas, RoomStep
<1>5. HeaderOK'
  BY <1>1, <1>3, HeldHas, HeaderStep
<1>6. TextWaitOK'
  <2>1. TextFor(want', text', c)
    BY <1>1 DEF TextFor, NoText, Spots
  <2>2. \A d \in Call : TextFor(want, text, d) => TextFor(want', text', d)
    BY <1>1 DEF TextFor
  <2> QED
    BY <1>2, <2>1, <2>2, HeldHas, TextStep
<1>7. MessageOK(L)'
  BY <1>1, <1>3, HeldHas, MessageStep
<1> QED
  BY <1>1, <1>2, <1>4, <1>5, <1>6, <1>7, HeldHas DEF Held

LEMMA WaitForRoomKeeps ==
  ASSUME NEW L, Held(L), NEW p \in Proc, NEW c \in Call, WaitForRoom(p, c)
  PROVE  Held(L)'
<1> DEFINE s == SlotFor(c)
<1>1. /\ msgque' = [msgque EXCEPT ![s] = [msgque[s] EXCEPT !.wwait = TRUE]]
      /\ msgh' = msgh /\ msgfp' = msgfp /\ text' = text /\ want' = want
      /\ raised' = raised /\ Sleeps(p, c, AtRoom) /\ Sends(c)
      /\ Fits(msgque[s], c) /\ NoRoom(c)
  BY LiveIs DEF WaitForRoom, AtRoom, SlotFor, Sends
<1>2. s \in Slot /\ msgque \in Msqids
  BY SlotForIs, HeldHas
<1> HIDE DEF s
<1>3. PICK r : r = [msgque[s] EXCEPT !.wwait = TRUE]
  OBVIOUS
<1>4. PICK q : q = msgque[s]
  OBVIOUS
<1>5. q \in Msqid
  BY <1>2, <1>4, MsqidsAre
<1>6. r \in Msqid /\ SameList(q, r) /\ r.wwait /\ r.rwait = q.rwait /\ r.qbytes = q.qbytes
  <2>1. WwaitSet(q, r)
    BY <1>3, <1>4, <1>5, WwaitOn
  <2> QED
    BY <2>1 DEF WwaitSet
<1>7. msgque' = [msgque EXCEPT ![s] = r]
  BY <1>1, <1>3
<1>8. msgque' \in Msqids /\ msgque'[s] = r /\ Others(msgque, msgque', s)
  <2>1. PutIn(msgque, Put(msgque, s, r), s, r)
    BY <1>2, <1>6, QueueSet
  <2> QED
    BY <1>7, <2>1 DEF Put, PutIn
<1>9. Stored(msgque', msgh', msgfp', text', L)
  <2>1. \A t \in Slot : SameList(msgque[t], msgque'[t])
    BY <1>2, <1>4, <1>6, <1>8, SameOthers
  <2> QED
    BY <1>1, <2>1, HeldHas, StoredKeeps
<1>10. /\ Calls' /\ Sleepers(AtRoom, {}, {c})
       /\ \A x \in Place : x # AtRoom => Sleepers(x, {}, {})
  BY <1>1, HeldHas, SleepsIs, InPlace, Places
<1>11. /\ Sleepers(AtHeader, {}, {}) /\ Sleepers(AtText, {}, {}) /\ Sleepers(AtMessage, {}, {})
  BY <1>10, InPlace, Places
<1>12. RoomOK'
  <2>1. RoomIn(msgque'[s], c, s \in raised')
    <3>1. c.msg[1] + q.cbytes > q.qbytes
      BY <1>1, <1>4 DEF NoRoom, s, SlotFor
    <3>2. Fits(q, c)
      BY <1>1, <1>4
    <3> QED
      BY <1>6, <1>8, <3>1, <3>2 DEF RoomIn, Fits, SameList
  <2>2. ASSUME NEW d \in Call, RoomIn(msgque[SlotFor(d)], d, SlotFor(d) \in raised)
        PROVE  RoomIn(msgque'[SlotFor(d)], d, SlotFor(d) \in raised')
    <3>1. SlotFor(d) \in Slot
      BY SlotForIs
    <3>2. CASE SlotFor(d) = s
      BY <1>1, <1>4, <1>6, <1>8, <2>2, <3>2 DEF RoomIn, Fits, SameList
    <3>3. CASE SlotFor(d) # s
      BY <1>1, <1>8, <2>2, <3>1, <3>3 DEF Others
    <3> QED
      BY <3>2, <3>3
  <2>3. \A d \in {c} : RoomIn(msgque'[SlotFor(d)], d, SlotFor(d) \in raised')
    BY <2>1 DEF s
  <2> QED
    BY <1>10, <2>2, <2>3, HeldHas, RoomStep
<1>13. HeaderOK'
  BY <1>1, <1>11, HeldHas, HeaderStep
<1>14. TextWaitOK'
  BY <1>1, <1>11, HeldHas, TextStep
<1>15. MessageOK(L)'
  <2>1. ASSUME NEW d \in Call, MessageIn(msgque[SlotFor(d)], d, msgh, L[SlotFor(d)])
        PROVE  MessageIn(msgque'[SlotFor(d)], d, msgh', L[SlotFor(d)])
    <3>1. SlotFor(d) \in Slot
      BY SlotForIs
    <3>2. CASE SlotFor(d) = s
      BY <1>1, <1>4, <1>6, <1>8, <2>1, <3>2 DEF MessageIn, Fits, SameList
    <3>3. CASE SlotFor(d) # s
      BY <1>1, <1>8, <2>1, <3>1, <3>3 DEF Others
    <3> QED
      BY <3>2, <3>3
  <2> QED
    BY <1>11, <2>1, HeldHas, MessageStep
<1> QED
  BY <1>1, <1>8, <1>9, <1>10, <1>12, <1>13, <1>14, <1>15, HeldHas DEF Held

LEMMA WaitForMessageKeeps ==
  ASSUME NEW L, Held(L), NEW p \in Proc, NEW c \in Call, WaitForMessage(p, c)
  PROVE  Held(L)'
<1> DEFINE s == SlotFor(c)
<1>1. /\ msgque' = [msgque EXCEPT ![s] = [msgque[s] EXCEPT !.rwait = TRUE]]
      /\ msgh' = msgh /\ msgfp' = msgfp /\ text' = text /\ want' = want
      /\ raised' = raised /\ Sleeps(p, c, AtMessage) /\ Receives(c)
      /\ Fits(msgque[s], c) /\ Found(c) = 0
  BY LiveIs DEF WaitForMessage, AtMessage, SlotFor, Receives
<1>2. s \in Slot /\ msgque \in Msqids
  BY SlotForIs, HeldHas
<1>0. NoMatch(c.type, msgh, L[s])
  BY <1>1, FoundHere
<1> HIDE DEF s
<1>3. PICK r : r = [msgque[s] EXCEPT !.rwait = TRUE]
  OBVIOUS
<1>4. PICK q : q = msgque[s]
  OBVIOUS
<1>5. q \in Msqid
  BY <1>2, <1>4, MsqidsAre
<1>6. r \in Msqid /\ SameList(q, r) /\ r.rwait /\ r.wwait = q.wwait /\ r.qbytes = q.qbytes
  <2>1. RwaitSet(q, r)
    BY <1>3, <1>4, <1>5, RwaitOn
  <2> QED
    BY <2>1 DEF RwaitSet
<1>7. msgque' = [msgque EXCEPT ![s] = r]
  BY <1>1, <1>3
<1>8. msgque' \in Msqids /\ msgque'[s] = r /\ Others(msgque, msgque', s)
  <2>1. PutIn(msgque, Put(msgque, s, r), s, r)
    BY <1>2, <1>6, QueueSet
  <2> QED
    BY <1>7, <2>1 DEF Put, PutIn
<1>9. Stored(msgque', msgh', msgfp', text', L)
  <2>1. \A t \in Slot : SameList(msgque[t], msgque'[t])
    BY <1>2, <1>4, <1>6, <1>8, SameOthers
  <2> QED
    BY <1>1, <2>1, HeldHas, StoredKeeps
<1>10. /\ Calls' /\ Sleepers(AtMessage, {}, {c})
       /\ \A x \in Place : x # AtMessage => Sleepers(x, {}, {})
  BY <1>1, HeldHas, SleepsIs, InPlace, Places
<1>11. /\ Sleepers(AtHeader, {}, {}) /\ Sleepers(AtText, {}, {}) /\ Sleepers(AtRoom, {}, {})
  BY <1>10, InPlace, Places
<1>12. RoomOK'
  <2>2. ASSUME NEW d \in Call, RoomIn(msgque[SlotFor(d)], d, SlotFor(d) \in raised)
        PROVE  RoomIn(msgque'[SlotFor(d)], d, SlotFor(d) \in raised')
    <3>1. SlotFor(d) \in Slot
      BY SlotForIs
    <3>2. CASE SlotFor(d) = s
      BY <1>1, <1>4, <1>6, <1>8, <2>2, <3>2 DEF RoomIn, Fits, SameList
    <3>3. CASE SlotFor(d) # s
      BY <1>1, <1>8, <2>2, <3>1, <3>3 DEF Others
    <3> QED
      BY <3>2, <3>3
  <2> QED
    BY <1>11, <2>2, HeldHas, RoomStep
<1>13. HeaderOK'
  BY <1>1, <1>11, HeldHas, HeaderStep
<1>14. TextWaitOK'
  BY <1>1, <1>11, HeldHas, TextStep
<1>15. MessageOK(L)'
  <2>1. ASSUME NEW d \in Call, MessageIn(msgque[SlotFor(d)], d, msgh, L[SlotFor(d)])
        PROVE  MessageIn(msgque'[SlotFor(d)], d, msgh', L[SlotFor(d)])
    <3>1. SlotFor(d) \in Slot
      BY SlotForIs
    <3>2. CASE SlotFor(d) = s
      BY <1>1, <1>4, <1>6, <1>8, <2>1, <3>2 DEF MessageIn, Fits, SameList
    <3>3. CASE SlotFor(d) # s
      BY <1>1, <1>8, <2>1, <3>1, <3>3 DEF Others
    <3> QED
      BY <3>2, <3>3
  <2>2. MessageIn(msgque'[s], c, msgh', L[s])
    <3>1. Fits(q, c)
      BY <1>1, <1>4
    <3> QED
      BY <1>0, <1>1, <1>6, <1>8, <3>1 DEF MessageIn, Fits, SameList
  <2>3. \A d \in {c} : MessageIn(msgque'[SlotFor(d)], d, msgh', L[SlotFor(d)])
    BY <2>2 DEF s
  <2> QED
    BY <1>10, <2>1, <2>3, HeldHas, MessageStep
<1> QED
  BY <1>1, <1>8, <1>9, <1>10, <1>12, <1>13, <1>14, <1>15, HeldHas DEF Held
LEMMA SendFaultKeeps ==
  ASSUME NEW L, Held(L), NEW p \in Proc, NEW c \in Call, SendFault(p, c)
  PROVE  Held(L)'
<1> DEFINE P == IF want THEN AllOf(AtText) ELSE {}
<1>1. /\ msgque' = msgque /\ msgh' = msgh /\ msgfp' = msgfp /\ text' = text /\ want' = FALSE
      /\ raised' = raised /\ Returns(p, P)
  BY DEF SendFault, AtText
<1>2. Calls' /\ \A on \in Place : on # AtUser => Sleepers(on, P, {})
  BY <1>1, HeldHas, ReturnsIs
<1>3. /\ Sleepers(AtRoom, P, {}) /\ Sleepers(AtHeader, P, {})
      /\ Sleepers(AtText, P, {}) /\ Sleepers(AtMessage, P, {})
  BY <1>2, InPlace
<1>4. RoomOK'
  BY <1>1, <1>3, HeldHas, RoomStep
<1>5. HeaderOK'
  BY <1>1, <1>3, HeldHas, HeaderStep
<1>6. TextWaitOK'
  <2>1. \A d \in Call : TextFor(want, text, d) => AllOf(AtText) \subseteq P
    BY DEF TextFor
  <2> QED
    BY <1>3, <2>1, HeldHas, TextStep
<1>7. MessageOK(L)'
  BY <1>1, <1>3, HeldHas, MessageStep
<1> QED
  BY <1>1, <1>2, <1>4, <1>5, <1>6, <1>7, HeldHas DEF Held

LEMMA NoMatchKeeps ==
  ASSUME NEW t, NEW m, NEW m2, NEW ms \in Seq(Hdr), NoMatch(t, m, ms),
         \A g \in Elems(ms) : m2[g].type = m[g].type
  PROVE  NoMatch(t, m2, ms)
<1>1. ASSUME NEW i \in 1 .. Len(ms) PROVE ~Matches(t, m2[ms[i]])
  <2>1. m2[ms[i]].type = m[ms[i]].type
    BY ElemIs
  <2>2. ~Matches(t, m[ms[i]])
    BY DEF NoMatch
  <2> QED
    BY <2>1, <2>2 DEF Matches
<1> QED
  BY <1>1 DEF NoMatch

(* The units of text that are taken.                                       *)
Taken(c) == Spot(c) .. Spot(c) + btoq(c.msg[1]) - 1

LEMMA NoUnits == btoq(0) = 0
BY Constants DEF btoq

LEMMA SpotIs ==
  ASSUME NEW c \in Call, Sends(c), ~NoText(c)
  PROVE  Spot(c) \in Int /\ Taken(c) \subseteq text
<1>1. c.msg[1] \in Nat
  BY CallHas
<1>2. CASE c.msg[1] > 0
  <2> DEFINE T == Spots(btoq(c.msg[1]))
  <2>1. T # {} /\ Spot(c) = Min(T)
    BY <1>2 DEF NoText, Spot
  <2>2. T \in SUBSET Nat
    BY Constants DEF Spots, Unit
  <2>3. Min(T) \in T
    BY <2>1, <2>2, MinOf
  <2>4. Spot(c) .. Spot(c) + btoq(c.msg[1]) - 1 \subseteq text
    BY <2>1, <2>3 DEF Spots
  <2> QED
    BY <2>1, <2>2, <2>3, <2>4 DEF Taken
<1>3. CASE ~(c.msg[1] > 0)
  <2>1. c.msg[1] = 0 /\ Spot(c) = -1
    BY <1>1, <1>3 DEF Spot
  <2>2. Taken(c) = {}
    BY <2>1, NoUnits DEF Taken
  <2> QED
    BY <2>1, <2>2
<1> QED
  BY <1>2, <1>3

SentQueue(q, n, mp) ==
  [q EXCEPT !.qnum = q.qnum + 1, !.cbytes = q.cbytes + n, !.last = mp,
            !.first = IF q.last = 0 THEN mp ELSE q.first, !.rwait = FALSE]

SentDone(q, n, mp, r) ==
  /\ r \in Msqid /\ r.alloc = q.alloc /\ r.seq = q.seq
  /\ r.first = (IF q.last = 0 THEN mp ELSE q.first) /\ r.last = mp
  /\ r.qnum = q.qnum + 1 /\ r.cbytes = q.cbytes + n
  /\ r.qbytes = q.qbytes /\ r.wwait = q.wwait /\ ~r.rwait

LEMMA SentIs ==
  ASSUME NEW q \in Msqid, NEW n \in Nat, NEW mp \in Hdr
  PROVE  SentDone(q, n, mp, SentQueue(q, n, mp))
BY SetSent DEF SentQueue, SentDone

NewMessage(c) == [next |-> 0, type |-> c.msg[2], ts |-> c.msg[1], spot |-> Spot(c)]

LEMMA NewMessageIs ==
  ASSUME NEW c \in Call, Sends(c), Spot(c) \in Int
  PROVE  /\ NewMessage(c) \in Header /\ NewMessage(c).next = 0
         /\ NewMessage(c).type = c.msg[2] /\ NewMessage(c).ts = c.msg[1] /\ NewMessage(c).spot = Spot(c)
<1>1. c.msg[1] \in Nat /\ c.msg[2] \in Nat /\ 0 \in Link
  BY CallHas, Constants DEF Link
<1> QED
  BY <1>1 DEF NewMessage, Header

(* Where a message is sent to, and what is there afterwards.               *)
LEMMA SendIs ==
  ASSUME NEW L, Held(L), NEW p \in Proc, NEW c \in Call, Send(p, c),
         NEW s, s = SlotFor(c), NEW q, q = msgque[s],
         NEW M, Moved(L, M, s, More(L[s], msgfp), Less(L[MSGMNI], 1))
  PROVE  /\ s \in Slot /\ q \in Msqid /\ Fits(q, c) /\ Sends(c) /\ c.msg[1] \in Nat
         /\ msgfp \in Hdr /\ msgfp # 0 /\ want' = want /\ raised' = raised
         /\ PutIn(msgque, msgque', s, SentQueue(q, c.msg[1], msgfp))
         /\ SentDone(q, c.msg[1], msgfp, SentQueue(q, c.msg[1], msgfp))
         /\ AsPlaced(msgh, q.last, msgfp, NewMessage(c), msgh')
         /\ Stored(msgque', msgh', msgfp', text', M)
         /\ text' = text \ Taken(c)
         /\ c.msg[1] + q.cbytes <= q.qbytes
<1> DEFINE n == c.msg[1]
           r == SentQueue(q, n, msgfp)
           x == NewMessage(c)
<1>1. /\ Available(c)
      /\ text' = text \ Taken(c)
      /\ msgfp' = msgh[msgfp].next
      /\ msgh' = Placed(msgh, q.last, msgfp, x)
      /\ msgque' = Put(msgque, s, r)
      /\ want' = want /\ raised' = raised
  BY DEF Send, Taken, Placed, NewMessage, SentQueue, Put, SlotFor
<1>2. /\ Sends(c) /\ Fits(q, c) /\ ~NoRoom(c) /\ msgfp # 0 /\ ~NoText(c)
  BY <1>1, LiveIs DEF Available, Sends
<1>3. s \in Slot /\ n \in Nat /\ q \in Msqid
  BY <1>2, CallHas, SlotForIs, HeldHas, MsqidsAre
<1>4. Spot(c) \in Int /\ Taken(c) \subseteq text
  BY <1>2, SpotIs
<1>5. /\ x \in Header /\ x.next = 0 /\ x.ts = n /\ x.spot = Spot(c)
  BY <1>2, <1>4, NewMessageIs
<1> HIDE DEF n, r, x
<1>6. msgfp \in Hdr
  <2>1. Chain(msgh, msgfp, L[MSGMNI])
    BY HeldHas DEF Stored
  <2> QED
    BY <1>2, <2>1, ChainHas
<1>7. AsPlaced(msgh, q.last, msgfp, x, msgh')
  BY <1>1, <1>5, <1>6, HeldHas, PlacedIs
<1>8. SentDone(q, n, msgfp, r)
  BY <1>3, <1>6, SentIs DEF r
<1>9. PutIn(msgque, msgque', s, r)
  <2>1. r \in Msqid
    BY <1>8 DEF SentDone
  <2> QED
    BY <1>1, <1>3, <2>1, HeldHas, QueueSet
<1>10. SpanOf(msgh', msgfp) = Taken(c)
  BY <1>5, <1>7 DEF AsPlaced, SpanOf, Taken, n
<1>11. Stored(msgque', msgh', msgfp', text', M)
  <2>1. Others(msgque, msgque', s) /\ msgque'[s] = r
    BY <1>9 DEF PutIn
  <2>2. Sent(msgque[s], msgque'[s], msgfp, x.ts)
    BY <1>2, <1>5, <1>8, <2>1 DEF Sent, SentDone, Fits
  <2>3. q.alloc
    BY <1>2 DEF Fits
  <2>4. SpanOf(msgh', msgfp) \subseteq text
    BY <1>4, <1>10
  <2>5. /\ Stored(msgque, msgh, msgfp, text, L) /\ msgh \in Headers
        /\ msgque[s].alloc /\ msgh' = Placed(msgh, msgque[s].last, msgfp, x)
    BY <1>1, <2>3, HeldHas
  <2>6. Stored(msgque', msgh', msgh[msgfp].next, text \ SpanOf(msgh', msgfp), M)
    BY <1>2, <1>3, <1>5, <2>1, <2>2, <2>4, <2>5, StoredSent
  <2> QED
    BY <1>1, <1>10, <2>6
<1>12. n + q.cbytes <= q.qbytes
  <2>1. q.cbytes \in Int /\ q.qbytes \in Int
    BY <1>3, MsqidHas
  <2> QED
    BY <1>2, <1>3, <2>1 DEF NoRoom, SlotFor, n
<1> QED
  BY <1>1, <1>2, <1>3, <1>6, <1>7, <1>8, <1>9, <1>11, <1>12 DEF n, r, x
LEMMA MovedExists ==
  ASSUME NEW L, NEW s, NEW a, NEW b
  PROVE  \E M : Moved(L, M, s, a, b)
BY DEF Moved, Swapped

(* The lists of the queues nothing is moved to or from.                    *)
LEMMA MovedOther ==
  ASSUME NEW L, Partition(L), NEW M, NEW s \in Slot, NEW a, NEW b, Moved(L, M, s, a, b),
         NEW t \in Slot, t # s
  PROVE  M[t] = L[t]
<1>1. t \in Lines /\ t # MSGMNI
  BY LinesAre
<1> QED
  BY <1>1 DEF Moved, Swapped, Partition

LEMMA SendKeeps ==
  ASSUME NEW L, Held(L), NEW p \in Proc, NEW c \in Call, Send(p, c)
  PROVE  \E M : Held(M)'
<1>1. PICK s : s = SlotFor(c)
  OBVIOUS
<1>2. PICK q : q = msgque[s]
  OBVIOUS
<1>3. PICK M : Moved(L, M, s, More(L[s], msgfp), Less(L[MSGMNI], 1))
  BY MovedExists
<1>4. PICK r : r = SentQueue(q, c.msg[1], msgfp)
  OBVIOUS
<1>5. /\ s \in Slot /\ q \in Msqid /\ Fits(q, c) /\ Sends(c) /\ c.msg[1] \in Nat
      /\ msgfp \in Hdr /\ msgfp # 0 /\ want' = want /\ raised' = raised
      /\ PutIn(msgque, msgque', s, r)
      /\ SentDone(q, c.msg[1], msgfp, r)
      /\ AsPlaced(msgh, q.last, msgfp, NewMessage(c), msgh')
      /\ Stored(msgque', msgh', msgfp', text', M)
      /\ text' = text \ Taken(c)
  BY <1>1, <1>2, <1>3, <1>4, SendIs
<1>6. PICK P : P = IF q.rwait THEN InQueue(AtMessage, s) ELSE {}
  OBVIOUS
<1>7. Returns(p, P)
  BY <1>1, <1>2, <1>6 DEF Send, AtMessage, SlotFor
<1>8. Calls' /\ \A on \in Place : on # AtUser => Sleepers(on, P, {})
  BY <1>7, HeldHas, ReturnsIs
<1>9. /\ Sleepers(AtRoom, P, {}) /\ Sleepers(AtHeader, P, {})
      /\ Sleepers(AtText, P, {}) /\ Sleepers(AtMessage, P, {})
  BY <1>8, InPlace
<1>10. msgque' \in Msqids /\ msgque'[s] = r /\ Others(msgque, msgque', s)
  BY <1>5 DEF PutIn
<1>11. RoomOK'
  <2>1. ASSUME NEW d \in Call, Sends(d), RoomIn(msgque[SlotFor(d)], d, SlotFor(d) \in raised)
        PROVE  RoomIn(msgque'[SlotFor(d)], d, SlotFor(d) \in raised')
    <3>1. SlotFor(d) \in Slot /\ d.msg[1] \in Nat
      BY <2>1, SlotForIs, CallHas
    <3>2. CASE SlotFor(d) = s
      <4>1. RoomIn(q, d, s \in raised)
        BY <1>2, <2>1, <3>2
      <4>2. /\ r.alloc = q.alloc /\ r.seq = q.seq /\ r.wwait = q.wwait
            /\ r.qbytes = q.qbytes /\ r.cbytes = q.cbytes + c.msg[1]
        BY <1>5 DEF SentDone
      <4>3. q.cbytes \in Int /\ q.qbytes \in Int
        BY <1>5, MsqidHas
      <4>4. d.msg[1] + q.cbytes > q.qbytes => d.msg[1] + r.cbytes > r.qbytes
        BY <1>5, <3>1, <4>2, <4>3
      <4>5. RoomIn(r, d, s \in raised)
        BY <4>1, <4>2, <4>4 DEF RoomIn, Fits
      <4> QED
        BY <1>5, <1>10, <3>2, <4>5
    <3>3. CASE SlotFor(d) # s
      BY <1>5, <1>10, <2>1, <3>1, <3>3 DEF Others
    <3> QED
      BY <3>2, <3>3
  <2> QED
    BY <1>9, <2>1, HeldHas, RoomStep
<1>12. HeaderOK'
  BY <1>5, <1>9, HeldHas, HeaderStep
<1>13. TextWaitOK'
  <2>1. ASSUME NEW d \in Call, TextFor(want, text, d)
        PROVE  TextFor(want', text', d)
    <3>1. text' \subseteq text
      BY <1>5
    <3> QED
      BY <1>5, <2>1, <3>1 DEF TextFor
  <2> QED
    BY <1>9, <2>1, HeldHas, TextStep
<1>14. MessageOK(M)'
  <2>1. ASSUME NEW d \in Call, MessageIn(msgque[SlotFor(d)], d, msgh, L[SlotFor(d)])
        PROVE  MessageIn(msgque'[SlotFor(d)], d, msgh', M[SlotFor(d)])
               \/ InQueue(AtMessage, SlotFor(d)) \subseteq P
    <3>1. SlotFor(d) \in Slot
      BY SlotForIs
    <3>2. CASE SlotFor(d) = s
      BY <1>2, <1>6, <2>1, <3>2 DEF MessageIn
    <3>3. CASE SlotFor(d) # s
      <4>1. PICK t \in Slot : t = SlotFor(d)
        BY <3>1
      <4>2. Partition(L) /\ t \in Lines /\ s \in Lines /\ MSGMNI \in Lines /\ t # MSGMNI /\ t # s
        BY <1>5, <3>3, <4>1, HeldHas, LinesAre DEF Stored
      <4>3. M[t] = L[t] /\ L[t] \in Seq(Hdr) /\ msgque'[t] = msgque[t]
        BY <1>3, <1>5, <1>10, <4>2, MovedOther, Elsewhere DEF Others
      <4>4. NoMatch(d.type, msgh, L[t])
        BY <2>1, <4>1 DEF MessageIn
      <4>5. ASSUME NEW g \in Elems(L[t]) PROVE msgh'[g].type = msgh[g].type
        <5>1. g \in Hdr /\ g \notin Elems(L[MSGMNI])
          BY <4>2, Elsewhere
        <5>2. msgfp \in Elems(L[MSGMNI])
          <6>1. Chain(msgh, msgfp, L[MSGMNI])
            BY HeldHas DEF Stored
          <6>2. 1 \in 1 .. Len(L[MSGMNI]) /\ msgfp = L[MSGMNI][1]
            BY <1>5, <6>1, ChainHas
          <6> QED
            BY <6>2, ElemIs
        <5>3. g # msgfp
          BY <5>1, <5>2
        <5> QED
          BY <1>5, <5>1, <5>3 DEF AsPlaced
      <4>6. NoMatch(d.type, msgh', L[t])
        BY <4>3, <4>4, <4>5, NoMatchKeeps
      <4> QED
        BY <2>1, <4>1, <4>3, <4>6 DEF MessageIn
    <3> QED
      BY <3>2, <3>3
  <2> QED
    BY <1>9, <2>1, HeldHas, MessageStep
<1>15. msgh' \in Headers /\ want' \in BOOLEAN
  BY <1>5, HeldHas DEF AsPlaced
<1>16. Held(M)'
  BY <1>5, <1>8, <1>10, <1>11, <1>12, <1>13, <1>14, <1>15 DEF Held
<1> QED
  BY <1>16
LEMMA NoMatchLess ==
  ASSUME NEW t, NEW m, NEW m2, NEW ms, NEW ns, NoMatch(t, m, ms), Elems(ns) \subseteq Elems(ms),
         \A g \in Elems(ms) : m2[g].type = m[g].type
  PROVE  NoMatch(t, m2, ns)
<1>1. ASSUME NEW i \in 1 .. Len(ns) PROVE ~Matches(t, m2[ns[i]])
  <2>1. ns[i] \in Elems(ms)
    BY ElemIs
  <2>2. PICK j \in 1 .. Len(ms) : ns[i] = ms[j]
    BY <2>1 DEF Elems
  <2>3. ~Matches(t, m[ms[j]]) /\ m2[ms[j]].type = m[ms[j]].type
    BY <2>1, <2>2 DEF NoMatch
  <2> QED
    BY <2>2, <2>3 DEF Matches
<1> QED
  BY <1>1 DEF NoMatch

ReceivedDone(m, q, n, mp, pmp, r) ==
  /\ r \in Msqid /\ r.alloc = q.alloc /\ r.seq = q.seq
  /\ r.first = (IF pmp = 0 THEN m[mp].next ELSE q.first)
  /\ r.last = (IF m[mp].next = 0 THEN pmp ELSE q.last)
  /\ r.qnum = q.qnum - 1 /\ r.cbytes = q.cbytes - n
  /\ r.qbytes = q.qbytes /\ ~r.wwait /\ r.rwait = q.rwait

LEMMA ReceivedIs ==
  ASSUME NEW q \in Msqid, NEW n \in Nat, NEW mp \in Hdr, NEW pmp \in Link, msgh[mp].next \in Link
  PROVE  ReceivedDone(msgh, q, n, mp, pmp, Received(q, n, mp, pmp))
BY SetReceived DEF ReceivedDone

(* The text and whoever waits for text, when messages F are freed.         *)
FreesText(F) == text' = text \cup UNION {SpanOf(msgh, h) : h \in F}

LEMMA FreedIs ==
  ASSUME NEW F, Freed(F)
  PROVE  FreesText(F) /\ (want' <=> want /\ \A h \in F : msgh[h].ts = 0)
BY DEF Freed, FreesText, Units, SpanOf

LEMMA FreedText ==
  ASSUME msgh \in Headers, NEW F \in SUBSET Hdr, Freed(F), NEW P, want /\ (\E h \in F : msgh[h].ts > 0) => AllOf(AtText) \subseteq P,
         NEW d, TextFor(want, text, d)
  PROVE  TextFor(want', text', d) \/ AllOf(AtText) \subseteq P
<1>1. want
  BY DEF TextFor
<1>2. CASE \E h \in F : msgh[h].ts > 0
  BY <1>1, <1>2
<1>3. CASE ~ \E h \in F : msgh[h].ts > 0
  <2>1. ASSUME NEW h \in F PROVE msgh[h].ts = 0 /\ SpanOf(msgh, h) = {}
    <3>1. msgh[h].ts \in Nat /\ msgh[h].spot \in Int
      BY HeadersAre
    <3>2. msgh[h].ts = 0
      BY <1>3, <3>1
    <3> QED
      BY <3>1, <3>2, NoUnits DEF SpanOf
  <2>2. UNION {SpanOf(msgh, h) : h \in F} = {}
    BY <2>1
  <2>3. FreesText(F) /\ (want' <=> want /\ \A h \in F : msgh[h].ts = 0)
    BY FreedIs
  <2>4. text' = text
    BY <2>2, <2>3 DEF FreesText
  <2>5. want'
    BY SMTT(30), <1>1, <2>1, <2>3
  <2> QED
    BY <2>4, <2>5 DEF TextFor
<1> QED
  BY <1>2, <1>3

(* Who receives takes message i of the list of queue s.                    *)
ReceivedAll(L, M, p, c, s, q, i, mp, pmp, r) ==
  /\ s \in Slot /\ q \in Msqid /\ Fits(q, c) /\ Receives(c)
  /\ i \in 1 .. Len(L[s]) /\ Picked(c.type, msgh, L[s], i) /\ mp \in Hdr
  /\ raised' = (IF q.wwait THEN raised \ {s} ELSE raised)
  /\ PutIn(msgque, msgque', s, r)
  /\ ReceivedDone(msgh, q, msgh[mp].ts, mp, pmp, r)
  /\ AsUnlinked(msgh, mp, pmp, msgfp, msgh')
  /\ Stored(msgque', msgh', msgfp', text', M)
  /\ Freed({mp}) /\ Returns(p, FreedFor(s, {mp}))

LEMMA ReceiveIs ==
  ASSUME NEW L, Held(L), NEW p \in Proc, NEW c \in Call, Receive(p, c),
         NEW s, s = SlotFor(c), NEW q, q = msgque[s],
         NEW i, i = Found(c), NEW mp, mp = L[s][i], NEW pmp, pmp = Behind(L[s], i),
         NEW r, r = Received(q, msgh[mp].ts, mp, pmp),
         NEW M, Moved(L, M, s, Less(L[s], i), Push(mp, L[MSGMNI]))
  PROVE  ReceivedAll(L, M, p, c, s, q, i, mp, pmp, r)
<1> DEFINE ms == L[s]
           n == msgh[mp].ts
<1>1. /\ s \in Slot /\ q \in Msqid /\ Queue(s) = ms /\ msgh \in Headers
      /\ Stored(msgque, msgh, msgfp, text, L)
  BY SlotForIs, HeldHas, MsqidsAre, QueueHere
<1>2. /\ Receives(c) /\ Live(c.id) /\ i # 0
      /\ msgque' = Put(msgque, s, r)
      /\ msgh' = Unlinks(msgh, mp, pmp, msgfp) /\ msgfp' = mp
      /\ Freed({mp}) /\ Returns(p, FreedFor(s, {mp}))
      /\ raised' = (IF q.wwait THEN raised \ {s} ELSE raised)
  BY <1>1 DEF Receive, Receives, Put, Received, Unlinks, SlotFor, Behind
<1>3. Fits(q, c)
  BY <1>2, LiveIs
<1>4. Picked(c.type, msgh, ms, i)
  BY <1>2, FoundHere
<1>5. i \in 1 .. Len(ms)
  BY <1>4 DEF Picked
<1>6. Chain(msgh, q.first, ms) /\ Chain(msgh, msgfp, L[MSGMNI])
  BY <1>1 DEF Stored, QueueOK
<1> HIDE DEF ms, n
<1>7. /\ ms \in Seq(Hdr) /\ \A j \in 1 .. Len(ms) : ms[j] \in Hdr
      /\ Len(ms) \in Nat
  BY <1>6, ChainHas
<1>8. mp \in Hdr /\ mp = ms[i] /\ pmp = (IF i > 1 THEN ms[i - 1] ELSE 0)
  <2>1. mp = ms[i] /\ pmp = (IF i > 1 THEN ms[i - 1] ELSE 0)
    BY DEF ms, Behind
  <2> QED
    BY <1>5, <1>7, <2>1
<1>9. pmp \in Link /\ msgfp \in Link
  <2>1. i > 1 => i - 1 \in 1 .. Len(ms)
    BY <1>5, <1>7
  <2>2. Hdr \subseteq Link /\ 0 \in Link
    BY Constants DEF Hdr, Link
  <2>3. pmp \in Link
    BY <1>7, <1>8, <2>1, <2>2
  <2>4. msgfp \in Link
    BY <1>6, <2>2, ChainHas
  <2> QED
    BY <2>3, <2>4
<1>10. n \in Nat /\ msgh[mp].next \in Link
  BY <1>1, <1>8, HeadersAre DEF n
<1>11. ReceivedDone(msgh, q, n, mp, pmp, r)
  BY <1>1, <1>8, <1>9, <1>10, ReceivedIs DEF n
<1>12. PutIn(msgque, msgque', s, r)
  <2>1. r \in Msqid
    BY <1>11 DEF ReceivedDone
  <2> QED
    BY <1>1, <1>2, <2>1, HeldHas, QueueSet
<1>13. AsUnlinked(msgh, mp, pmp, msgfp, msgh')
  BY <1>1, <1>2, <1>8, <1>9, UnlinksIs
<1>14. Stored(msgque', msgh', msgfp', text', M)
  <2>1. Others(msgque, msgque', s) /\ msgque'[s] = r
    BY SMTT(30), <1>12 DEF PutIn
  <2>2. GotFrom(msgh, mp, pmp, msgque[s], msgque'[s])
    BY <1>11, <2>1 DEF GotFrom, ReceivedDone, n
  <2>3. msgque[s].alloc
    BY <1>3 DEF Fits
  <2>5. text' = text \cup UNION {SpanOf(msgh, h) : h \in {mp}}
    BY <1>2, FreedIs DEF FreesText
  <2>6. i \in 1 .. Len(L[s])
    BY <1>5 DEF ms
  <2>7. msgh' = Unlinks(msgh, mp, pmp, msgfp) /\ mp = L[s][i] /\ pmp = Behind(L[s], i)
    BY <1>2
  <2>8. TakesFrom(msgque, msgh, msgfp, L, s, i, mp, pmp, msgh', msgque', M)
    BY <1>1, <2>1, <2>2, <2>3, <2>6, <2>7 DEF TakesFrom
  <2>9. Stored(msgque', msgh', mp, text \cup UNION {SpanOf(msgh, h) : h \in {mp}}, M)
    BY <1>1, <2>8, StoredReceived
  <2> QED
    BY <1>2, <2>5, <2>9
<1> QED
  BY <1>1, <1>2, <1>3, <1>4, <1>5, <1>8, <1>11, <1>12, <1>13, <1>14 DEF ms, n, ReceivedAll

LEMMA ReceiveKeeps ==
  ASSUME NEW L, Held(L), NEW p \in Proc, NEW c \in Call, Receive(p, c)
  PROVE  \E M : Held(M)'
<1>1. PICK s : s = SlotFor(c)
  OBVIOUS
<1>2. PICK q : q = msgque[s]
  OBVIOUS
<1>3. PICK i : i = Found(c)
  OBVIOUS
<1>4. PICK mp : mp = L[s][i]
  OBVIOUS
<1>5. PICK pmp : pmp = Behind(L[s], i)
  OBVIOUS
<1>6. PICK M : Moved(L, M, s, Less(L[s], i), Push(mp, L[MSGMNI]))
  BY MovedExists
<1>7. PICK r : r = Received(q, msgh[mp].ts, mp, pmp)
  OBVIOUS
<1>8. /\ s \in Slot /\ q \in Msqid /\ Fits(q, c) /\ Receives(c)
      /\ i \in 1 .. Len(L[s]) /\ mp \in Hdr
      /\ raised' = (IF q.wwait THEN raised \ {s} ELSE raised)
      /\ PutIn(msgque, msgque', s, r)
      /\ ReceivedDone(msgh, q, msgh[mp].ts, mp, pmp, r)
      /\ AsUnlinked(msgh, mp, pmp, msgfp, msgh')
      /\ Stored(msgque', msgh', msgfp', text', M)
      /\ Freed({mp}) /\ Returns(p, FreedFor(s, {mp}))
  <2>1. ReceivedAll(L, M, p, c, s, q, i, mp, pmp, r)
    BY <1>1, <1>2, <1>3, <1>4, <1>5, <1>6, <1>7, ReceiveIs
  <2> QED
    BY <2>1 DEF ReceivedAll
<1>9. PICK P : P = FreedFor(s, {mp})
  OBVIOUS
<1>10. Calls' /\ \A on \in Place : on # AtUser => Sleepers(on, P, {})
  BY <1>8, <1>9, HeldHas, ReturnsIs
<1>11. /\ Sleepers(AtRoom, P, {}) /\ Sleepers(AtHeader, P, {})
       /\ Sleepers(AtText, P, {}) /\ Sleepers(AtMessage, P, {})
  BY <1>10, InPlace
<1>12. msgque' \in Msqids /\ msgque'[s] = r /\ Others(msgque, msgque', s)
  BY <1>8 DEF PutIn
<1>13. /\ q.wwait => InQueue(AtRoom, s) \subseteq P
       /\ msgfp = 0 => AllOf(AtHeader) \subseteq P
       /\ want /\ (\E h \in {mp} : msgh[h].ts > 0) => AllOf(AtText) \subseteq P
  BY <1>2, <1>9 DEF FreedFor, AtRoom, AtHeader, AtText
<1>14. RoomOK'
  <2>1. ASSUME NEW d \in Call, Sends(d), RoomIn(msgque[SlotFor(d)], d, SlotFor(d) \in raised)
        PROVE  RoomIn(msgque'[SlotFor(d)], d, SlotFor(d) \in raised')
               \/ InQueue(AtRoom, SlotFor(d)) \subseteq P
    <3>1. SlotFor(d) \in Slot
      BY SlotForIs
    <3>2. CASE SlotFor(d) = s
      BY <1>2, <1>13, <2>1, <3>2 DEF RoomIn
    <3>3. CASE SlotFor(d) # s
      <4>1. msgque'[SlotFor(d)] = msgque[SlotFor(d)]
        BY <1>12, <3>1, <3>3 DEF Others
      <4>2. SlotFor(d) \in raised' <=> SlotFor(d) \in raised
        BY <1>8, <3>3
      <4> QED
        BY <2>1, <4>1, <4>2
    <3> QED
      BY <3>2, <3>3
  <2> QED
    BY <1>11, <2>1, HeldHas, RoomStep
<1>15. HeaderOK'
  BY <1>11, <1>13, HeldHas, HeaderStep
<1>16. TextWaitOK'
  <2>1. ASSUME NEW d \in Call, TextFor(want, text, d)
        PROVE  TextFor(want', text', d) \/ AllOf(AtText) \subseteq P
    <3>1. PICK F : F = {mp}
      OBVIOUS
    <3>2. F \in SUBSET Hdr /\ Freed(F) /\ (want /\ (\E h \in F : msgh[h].ts > 0) => AllOf(AtText) \subseteq P)
      BY <1>8, <1>13, <3>1
    <3> QED
      BY <2>1, <3>2, HeldHas, FreedText
  <2> QED
    BY <1>11, <2>1, HeldHas, TextStep
<1>17. MessageOK(M)'
  <2>1. ASSUME NEW d \in Call, MessageIn(msgque[SlotFor(d)], d, msgh, L[SlotFor(d)])
        PROVE  MessageIn(msgque'[SlotFor(d)], d, msgh', M[SlotFor(d)])
    <3>0. PICK t \in Slot : t = SlotFor(d)
      BY SlotForIs
    <3>1. Partition(L) /\ t \in Lines /\ s \in Lines /\ t # MSGMNI
      BY <1>8, <3>0, HeldHas, LinesAre DEF Stored
    <3>2. L[t] \in Seq(Hdr) /\ Elems(L[t]) \in SUBSET Hdr /\ Injective(L[t])
      BY <3>1, Elsewhere
    <3>3. NoMatch(d.type, msgh, L[t]) /\ Fits(msgque[t], d) /\ msgque[t].rwait
      BY <2>1, <3>0 DEF MessageIn
    <3>4. \A g \in Elems(L[t]) : msgh'[g].type = msgh[g].type
      BY <1>8, <3>2 DEF AsUnlinked
    <3>5. Elems(M[t]) \subseteq Elems(L[t])
      <4>1. CASE t = s
        <5>1. Elems(Less(L[s], i)) = Elems(L[s]) \ {L[s][i]}
          BY <1>8, <3>2, <4>1, LessElems
        <5>2. M[s] = Less(L[s], i)
          BY <1>6, <3>1 DEF Moved, Swapped, Partition
        <5> QED
          BY <4>1, <5>1, <5>2
      <4>2. CASE t # s
        BY <1>6, <1>8, <3>1, <4>2, MovedOther
      <4> QED
        BY <4>1, <4>2
    <3>6. NoMatch(d.type, msgh', M[t])
      BY <3>3, <3>4, <3>5, NoMatchLess
    <3>7. Fits(msgque'[t], d) /\ msgque'[t].rwait
      <4>1. CASE t = s
        BY <1>2, <1>8, <1>12, <3>3, <4>1 DEF ReceivedDone, Fits
      <4>2. CASE t # s
        BY <1>12, <3>3, <4>2 DEF Others
      <4> QED
        BY <4>1, <4>2
    <3> QED
      BY <3>0, <3>6, <3>7 DEF MessageIn
  <2> QED
    BY <1>11, <2>1, HeldHas, MessageStep
<1>18. msgh' \in Headers /\ want' \in BOOLEAN
  <2>1. msgh' \in Headers
    BY <1>8 DEF AsUnlinked
  <2>2. want' \in BOOLEAN
    BY <1>8 DEF Freed
  <2> QED
    BY <2>1, <2>2
<1>19. Held(M)'
  BY <1>8, <1>10, <1>12, <1>14, <1>15, <1>16, <1>17, <1>18 DEF Held
<1> QED
  BY <1>19
------------------------------------------------------------------------------
(* A queue is removed.                                                     *)
LEMMA LiveIdIs ==
  ASSUME NEW L, Held(L), NEW id \in LiveIds
  PROVE  /\ id \in Nat /\ SlotOf(id) \in Slot /\ msgque[SlotOf(id)] \in Msqid
         /\ msgque[SlotOf(id)].alloc /\ id = IdOf(SlotOf(id))
<1>1. PICK s \in Slot : id = IdOf(s) /\ msgque[s].alloc
  BY DEF LiveIds
<1>2. msgque[s] \in Msqid
  BY HeldHas, MsqidsAre
<1>3. msgque[s].seq \in Nat
  <2>1. msgque[s].seq \in Seqno
    BY <1>2, MsqidHas
  <2> QED
    BY <2>1 DEF Seqno
<1>4. id = msgque[s].seq * MSGMNI + s
  BY <1>1 DEF IdOf
<1>5. id \in Nat /\ SlotOf(id) = s
  BY <1>3, <1>4, IdIs
<1> QED
  BY <1>1, <1>2, <1>5

LEMMA EmptyList ==
  ASSUME NEW ms \in Seq(Hdr)
  PROVE  /\ ToSet(ms) = Elems(ms) /\ (ms = <<>> <=> Len(ms) = 0)
         /\ Len(ms) = 0 => Elems(ms) = {}
         /\ Last(ms) = ms[Len(ms)]
<1>1. DOMAIN ms = 1 .. Len(ms) /\ Len(ms) \in Nat
  BY SeqHas
<1>2. ToSet(ms) = Elems(ms)
  BY <1>1 DEF ToSet, Elems
<1>3. ms = <<>> <=> Len(ms) = 0
  OBVIOUS
<1>4. Len(ms) = 0 => Elems(ms) = {}
  BY DEF Elems
<1>5. Last(ms) = ms[Len(ms)]
  BY DEF Last
<1> QED
  BY <1>2, <1>3, <1>4, <1>5

GoneDone(q, n, r) ==
  /\ r \in Msqid /\ ~r.alloc /\ r.seq = q.seq + 1
  /\ r.first = 0 /\ r.last = 0 /\ r.qnum = q.qnum - n /\ r.cbytes = 0
  /\ r.qbytes = q.qbytes /\ ~r.wwait /\ ~r.rwait

LEMMA GoneIs ==
  ASSUME NEW q \in Msqid, NEW n \in Number, q.seq < MaxSeq
  PROVE  GoneDone(q, n, Gone(q, n))
<1>1. n \in Int
  BY DEF Number
<1> QED
  BY <1>1, SetGone DEF GoneDone

(* Whom msgctl() wakes that removes a queue.                               *)
Wakes(s, ms) ==
  (IF Len(ms) = 0 THEN {} ELSE FreedFor(s, Elems(ms)))
    \cup (IF msgque[s].wwait THEN InQueue(AtRoom, s) ELSE {})
    \cup (IF msgque[s].rwait THEN InQueue(AtMessage, s) ELSE {})

(* The first free header, when a queue is removed.                         *)
LastFree(ms, fp) == IF Len(ms) = 0 THEN fp ELSE ms[Len(ms)]

RemovedAll(M, s, q, ms, r) ==
  /\ PutIn(msgque, msgque', s, r) /\ GoneDone(q, Len(ms), r)
  /\ AsReleased(msgh, ms, msgfp, msgh')
  /\ msgfp' = LastFree(ms, msgfp)
  /\ Stored(msgque', msgh', msgfp', text', M)
  /\ Freed(Elems(ms)) /\ Wakeup(Wakes(s, ms))
  /\ raised' = raised \ {s} /\ pc' = pc /\ frame' = frame

GoesFrom(que, m, fp, L, s, ms, m2, que2, M) ==
  /\ s \in Slot /\ ms = L[s] /\ m2 = Releases(m, ms, fp)
  /\ Others(que, que2, s) /\ GoneFrom(que[s], que2[s], Len(ms))
  /\ Moved(L, M, s, <<>>, Back(ms, L[MSGMNI]))

LEMMA GoesIs ==
  ASSUME NEW que, NEW m \in Headers, NEW fp, NEW tx, NEW L, Stored(que, m, fp, tx, L),
         NEW s, NEW ms, NEW m2, NEW que2, NEW M,
         GoesFrom(que, m, fp, L, s, ms, m2, que2, M)
  PROVE  Stored(que2, m2, LastFree(ms, fp), tx \cup UNION {SpanOf(m, h) : h \in Elems(ms)}, M)
<1>1. /\ s \in Slot /\ ms = L[s] /\ m2 = Releases(m, ms, fp)
      /\ Others(que, que2, s) /\ GoneFrom(que[s], que2[s], Len(ms))
      /\ Moved(L, M, s, <<>>, Back(ms, L[MSGMNI]))
  BY DEF GoesFrom
<1>2. Stored(que2, m2, IF Len(ms) = 0 THEN fp ELSE ms[Len(ms)],
             tx \cup UNION {SpanOf(m, h) : h \in Elems(ms)}, M)
  BY <1>1, StoredGone
<1> QED
  BY <1>2 DEF LastFree

(* The new links, in terms of a set of headers.                            *)
Relinks(m, ms, E, fp) ==
  [h \in Hdr |-> IF h \in E
                 THEN [m[h] EXCEPT !.next = IF AtIn(ms, h) = 1 THEN fp ELSE ms[AtIn(ms, h) - 1]]
                 ELSE m[h]]

LEMMA ReleasesHere ==
  ASSUME NEW m, NEW ms, NEW fp
  PROVE  Releases(m, ms, fp) = Relinks(m, ms, Elems(ms), fp)
BY Zenon DEF Releases, Relinks

LEMMA RmidIs ==
  ASSUME NEW L, Held(L), NEW id, Rmid(id), NEW s, s = SlotOf(id), s \in Slot, NEW q, q = msgque[s], q \in Msqid,
         NEW ms, ms = L[s], NEW r, r = Gone(q, Len(ms)),
         NEW M, Moved(L, M, s, <<>>, Back(ms, L[MSGMNI]))
  PROVE  RemovedAll(M, s, q, ms, r)
<1>1. Stored(msgque, msgh, msgfp, text, L) /\ msgh \in Headers /\ msgque \in Msqids
  BY HeldHas
<1>2. Queue(s) = ms
  BY <1>1, QueueHere
<1>3. Chain(msgh, q.first, ms) /\ Chain(msgh, msgfp, L[MSGMNI])
  BY <1>1 DEF Stored, QueueOK
<1>4. ms \in Seq(Hdr) /\ Injective(ms) /\ Len(ms) \in Nat /\ msgfp \in Link
  BY <1>3, ChainHas, Constants DEF Link, Hdr
<1>5. /\ ToSet(ms) = Elems(ms) /\ (ms = <<>> <=> Len(ms) = 0)
      /\ Len(ms) = 0 => Elems(ms) = {}
      /\ Last(ms) = ms[Len(ms)]
  BY <1>4, EmptyList
<1>6. /\ q.seq < MaxSeq
      /\ msgque' = Put(msgque, s, r)
      /\ msgh' = Relinks(msgh, ms, ToSet(ms), msgfp)
      /\ msgfp' = (IF ms = <<>> THEN msgfp ELSE Last(ms))
      /\ Freed(ToSet(ms))
      /\ Wakeup((IF ms = <<>> THEN {} ELSE FreedFor(s, ToSet(ms)))
                  \cup (IF msgque[s].wwait THEN InQueue(AtRoom, s) ELSE {})
                  \cup (IF msgque[s].rwait THEN InQueue(AtMessage, s) ELSE {}))
      /\ raised' = raised \ {s} /\ pc' = pc /\ frame' = frame
  BY <1>2 DEF Rmid, Put, Gone, Relinks, AtIn, AtRoom, AtMessage
<1>7. /\ msgh' = Releases(msgh, ms, msgfp)
      /\ msgfp' = LastFree(ms, msgfp)
      /\ Freed(Elems(ms)) /\ Wakeup(Wakes(s, ms))
  <2>1. msgh' = Releases(msgh, ms, msgfp)
    BY Zenon, <1>5, <1>6, ReleasesHere
  <2>2. msgfp' = LastFree(ms, msgfp)
    BY <1>5, <1>6 DEF LastFree
  <2>3. Freed(Elems(ms))
    BY Zenon, <1>5, <1>6
  <2>4. Wakeup(Wakes(s, ms))
    BY Zenon, <1>5, <1>6 DEF Wakes
  <2> QED
    BY <2>1, <2>2, <2>3, <2>4
<1>8. AsReleased(msgh, ms, msgfp, msgh')
  BY <1>1, <1>4, <1>7, ReleasesIs
<1>9. GoneDone(q, Len(ms), r)
  <2>1. Len(ms) \in Number
    BY <1>4 DEF Number
  <2> QED
    BY <1>6, <2>1, GoneIs
<1>10. PutIn(msgque, msgque', s, r)
  <2>1. r \in Msqid
    BY <1>9 DEF GoneDone
  <2> QED
    BY <1>1, <1>6, <2>1, QueueSet
<1>11. Stored(msgque', msgh', msgfp', text', M)
  <2>1. Others(msgque, msgque', s) /\ msgque'[s] = r
    BY <1>10 DEF PutIn
  <2>2. GoneFrom(msgque[s], msgque'[s], Len(ms))
    BY <1>9, <2>1 DEF GoneFrom, GoneDone
  <2>3. GoesFrom(msgque, msgh, msgfp, L, s, ms, msgh', msgque', M)
    BY <1>7, <2>1, <2>2 DEF GoesFrom
  <2>4. Stored(msgque', msgh', LastFree(ms, msgfp), text \cup UNION {SpanOf(msgh, h) : h \in Elems(ms)}, M)
    BY <1>1, <2>3, GoesIs
  <2>5. text' = text \cup UNION {SpanOf(msgh, h) : h \in Elems(ms)}
    BY <1>7, FreedIs DEF FreesText
  <2> QED
    BY <1>7, <2>4, <2>5
<1> QED
  BY <1>6, <1>7, <1>8, <1>9, <1>10, <1>11 DEF RemovedAll

LEMMA RmidKeeps ==
  ASSUME NEW L, Held(L), NEW id \in LiveIds, Rmid(id)
  PROVE  \E M : Held(M)'
<1>1. PICK s \in Slot : s = SlotOf(id)
  BY LiveIdIs
<1>2. PICK q \in Msqid : q = msgque[s]
  BY <1>1, LiveIdIs
<1>3. PICK ms : ms = L[s]
  OBVIOUS
<1>4. PICK r : r = Gone(q, Len(ms))
  OBVIOUS
<1>5. PICK M : Moved(L, M, s, <<>>, Back(ms, L[MSGMNI]))
  BY MovedExists
<1>6. RemovedAll(M, s, q, ms, r)
  BY <1>1, <1>2, <1>3, <1>4, <1>5, RmidIs
<1>7. PICK P : P = Wakes(s, ms)
  OBVIOUS
<1>8. Calls' /\ \A on \in Place : Sleepers(on, P, {})
  BY <1>6, <1>7, HeldHas, WakeupIs DEF RemovedAll
<1>9. /\ Sleepers(AtRoom, P, {}) /\ Sleepers(AtHeader, P, {})
      /\ Sleepers(AtText, P, {}) /\ Sleepers(AtMessage, P, {})
  BY <1>8, InPlace
<1>10. msgque' \in Msqids /\ msgque'[s] = r /\ Others(msgque, msgque', s)
  BY <1>6 DEF PutIn, RemovedAll
<1>11. /\ q.wwait => InQueue(AtRoom, s) \subseteq P
       /\ q.rwait => InQueue(AtMessage, s) \subseteq P
       /\ msgfp = 0 /\ Len(ms) # 0 => AllOf(AtHeader) \subseteq P
       /\ Len(ms) # 0 /\ want /\ (\E h \in Elems(ms) : msgh[h].ts > 0) => AllOf(AtText) \subseteq P
  BY <1>2, <1>7 DEF Wakes, FreedFor, AtRoom, AtHeader, AtText
<1>12. Partition(L) /\ s \in Lines /\ ms \in Seq(Hdr) /\ Elems(ms) \in SUBSET Hdr /\ (Len(ms) = 0 => Elems(ms) = {})
  <2>1. Partition(L) /\ s \in Lines
    BY HeldHas, LinesAre DEF Stored
  <2>2. ms \in Seq(Hdr) /\ Elems(ms) \in SUBSET Hdr
    BY <1>3, <2>1, Elsewhere
  <2> QED
    BY <2>1, <2>2, EmptyList
<1>13. RoomOK'
  <2>1. ASSUME NEW d \in Call, Sends(d), RoomIn(msgque[SlotFor(d)], d, SlotFor(d) \in raised)
        PROVE  RoomIn(msgque'[SlotFor(d)], d, SlotFor(d) \in raised')
               \/ InQueue(AtRoom, SlotFor(d)) \subseteq P
    <3>1. SlotFor(d) \in Slot
      BY SlotForIs
    <3>2. CASE SlotFor(d) = s
      BY <1>2, <1>11, <2>1, <3>2 DEF RoomIn
    <3>3. CASE SlotFor(d) # s
      <4>1. msgque'[SlotFor(d)] = msgque[SlotFor(d)]
        BY <1>10, <3>1, <3>3 DEF Others
      <4>2. SlotFor(d) \in raised' <=> SlotFor(d) \in raised
        BY <1>6, <3>3 DEF RemovedAll
      <4> QED
        BY <2>1, <4>1, <4>2
    <3> QED
      BY <3>2, <3>3
  <2> QED
    BY <1>9, <2>1, HeldHas, RoomStep
<1>14. HeaderOK'
  <2>1. msgfp = 0 => msgfp' = 0 \/ AllOf(AtHeader) \subseteq P
    BY <1>6, <1>11 DEF RemovedAll, LastFree
  <2> QED
    BY <1>9, <2>1, HeldHas, HeaderStep
<1>15. TextWaitOK'
  <2>1. ASSUME NEW d \in Call, TextFor(want, text, d)
        PROVE  TextFor(want', text', d) \/ AllOf(AtText) \subseteq P
    <3>1. PICK F : F = Elems(ms)
      OBVIOUS
    <3>2. F \in SUBSET Hdr /\ Freed(F) /\ (want /\ (\E h \in F : msgh[h].ts > 0) => AllOf(AtText) \subseteq P)
      BY <1>6, <1>11, <1>12, <3>1 DEF RemovedAll
    <3> QED
      BY <2>1, <3>2, HeldHas, FreedText
  <2> QED
    BY <1>9, <2>1, HeldHas, TextStep
<1>16. MessageOK(M)'
  <2>1. ASSUME NEW d \in Call, MessageIn(msgque[SlotFor(d)], d, msgh, L[SlotFor(d)])
        PROVE  MessageIn(msgque'[SlotFor(d)], d, msgh', M[SlotFor(d)])
               \/ InQueue(AtMessage, SlotFor(d)) \subseteq P
    <3>0. PICK t \in Slot : t = SlotFor(d)
      BY SlotForIs
    <3>1. CASE t = s
      BY <1>2, <1>11, <2>1, <3>0, <3>1 DEF MessageIn
    <3>2. CASE t # s
      <4>1. t \in Lines
        BY LinesAre
      <4>2. L[t] \in Seq(Hdr) /\ Elems(L[t]) \in SUBSET Hdr
        BY <1>12, <4>1, Elsewhere
      <4>3. \A g \in Elems(L[t]) : msgh'[g].type = msgh[g].type
        BY <1>6, <4>2 DEF AsReleased, RemovedAll
      <4>4. M[t] = L[t] /\ msgque'[t] = msgque[t]
        BY <1>5, <1>10, <1>12, <3>2, MovedOther DEF Others
      <4>5. MessageIn(msgque[t], d, msgh, L[t])
        BY <2>1, <3>0
      <4>6. NoMatch(d.type, msgh', L[t])
        BY <4>2, <4>3, <4>5, NoMatchKeeps DEF MessageIn
      <4> QED
        BY <3>0, <4>4, <4>5, <4>6 DEF MessageIn
    <3> QED
      BY <3>0, <3>1, <3>2
  <2> QED
    BY <1>9, <2>1, HeldHas, MessageStep
<1>17. msgh' \in Headers /\ want' \in BOOLEAN
  <2>1. msgh' \in Headers
    BY <1>6 DEF AsReleased, RemovedAll
  <2>2. want' \in BOOLEAN
    BY <1>6 DEF Freed, RemovedAll
  <2> QED
    BY <2>1, <2>2
<1>18. Held(M)'
  BY <1>6, <1>8, <1>10, <1>13, <1>14, <1>15, <1>16, <1>17 DEF Held, RemovedAll
<1> QED
  BY <1>18
------------------------------------------------------------------------------
(* msgget() and msgctl(): who sleeps goes on sleeping.                     *)
LEMMA StillIs ==
  ASSUME Calls, UNCHANGED <<pc, asleep, frame>>
  PROVE  /\ Calls' /\ Sleepers(AtRoom, {}, {}) /\ Sleepers(AtHeader, {}, {})
         /\ Sleepers(AtText, {}, {}) /\ Sleepers(AtMessage, {}, {})
<1>1. pc' = pc /\ asleep' = asleep /\ frame' = frame
  OBVIOUS
<1>2. Calls'
  BY <1>1 DEF Calls, CallOK
<1>3. ASSUME NEW on PROVE Sleepers(on, {}, {})
  BY <1>1 DEF Sleepers, On
<1> QED
  BY <1>2, <1>3

NewQueue(q) == [q EXCEPT !.alloc = TRUE, !.first = 0, !.last = 0, !.qnum = 0,
                         !.qbytes = MSGMNB, !.rwait = FALSE, !.wwait = FALSE]

NewDone(q, r) ==
  /\ r \in Msqid /\ r.alloc /\ r.seq = q.seq
  /\ r.first = 0 /\ r.last = 0 /\ r.qnum = 0 /\ r.cbytes = q.cbytes
  /\ r.qbytes = MSGMNB /\ ~r.wwait /\ ~r.rwait

LEMMA NewIs ==
  ASSUME NEW q \in Msqid
  PROVE  NewDone(q, NewQueue(q))
BY SetNew DEF NewQueue, NewDone

MadeFrom(que, s, que2) == s \in Slot /\ ~que[s].alloc /\ Others(que, que2, s) /\ NewDone(que[s], que2[s])

LEMMA MadeIs ==
  ASSUME NEW que, NEW m \in Headers, NEW fp, NEW tx, NEW L, Stored(que, m, fp, tx, L),
         NEW s, NEW que2, MadeFrom(que, s, que2)
  PROVE  Stored(que2, m, fp, tx, L)
<1>1. s \in Slot /\ ~que[s].alloc /\ \A t \in Slot : t # s => que2[t] = que[t]
  BY DEF MadeFrom, Others
<1>2. /\ que2[s].first = 0 /\ que2[s].last = 0 /\ que2[s].qnum = 0
      /\ que2[s].cbytes = que[s].cbytes /\ que2[s].alloc
  BY DEF MadeFrom, NewDone
<1> QED
  BY <1>1, <1>2, StoredNew

LEMMA MsggetIs ==
  ASSUME NEW L, Held(L), Msgget, NEW s, s = Min({t \in Slot : ~msgque[t].alloc})
  PROVE  /\ s \in Slot /\ ~msgque[s].alloc /\ msgque[s] \in Msqid
         /\ NewDone(msgque[s], NewQueue(msgque[s]))
         /\ PutIn(msgque, msgque', s, NewQueue(msgque[s]))
         /\ Stored(msgque', msgh, msgfp, text, L)
<1> DEFINE T == {t \in Slot : ~msgque[t].alloc}
<1>1. T # {} /\ T \in SUBSET Nat
  <2>1. Slot \subseteq Nat
    BY Constants DEF Slot
  <2> QED
    BY <2>1 DEF Msgget
<1>2. Min(T) \in T
  BY <1>1, MinOf
<1>3. s \in Slot /\ ~msgque[s].alloc
  BY <1>2
<1>4. msgque' = Put(msgque, s, NewQueue(msgque[s]))
  BY DEF Msgget, Put, NewQueue
<1>5. msgque \in Msqids /\ msgh \in Headers /\ Stored(msgque, msgh, msgfp, text, L) /\ msgque[s] \in Msqid
  BY <1>3, HeldHas, MsqidsAre
<1> HIDE DEF T
<1>6. NewDone(msgque[s], NewQueue(msgque[s]))
  BY <1>5, NewIs
<1>7. PutIn(msgque, msgque', s, NewQueue(msgque[s]))
  <2>1. NewQueue(msgque[s]) \in Msqid
    BY <1>6 DEF NewDone
  <2> QED
    BY <1>3, <1>4, <1>5, <2>1, QueueSet
<1>8. Stored(msgque', msgh, msgfp, text, L)
  <2>1. Others(msgque, msgque', s) /\ NewDone(msgque[s], msgque'[s])
    BY <1>6, <1>7 DEF PutIn
  <2>2. MadeFrom(msgque, s, msgque')
    BY <1>3, <2>1 DEF MadeFrom
  <2> QED
    BY <1>5, <2>2, MadeIs
<1> QED
  BY <1>3, <1>5, <1>6, <1>7, <1>8

LEMMA MsggetKeeps ==
  ASSUME NEW L, Held(L), Msgget
  PROVE  Held(L)'
<1>1. /\ msgh' = msgh /\ msgfp' = msgfp /\ text' = text /\ want' = want /\ raised' = raised
      /\ UNCHANGED <<pc, asleep, frame>>
  BY DEF Msgget
<1>2. PICK s : s = Min({t \in Slot : ~msgque[t].alloc})
  OBVIOUS
<1>3. PICK r : r = NewQueue(msgque[s])
  OBVIOUS
<1>4. /\ s \in Slot /\ ~msgque[s].alloc /\ PutIn(msgque, msgque', s, r)
      /\ Stored(msgque', msgh, msgfp, text, L)
  BY <1>2, <1>3, MsggetIs
<1>5. msgque' \in Msqids /\ Others(msgque, msgque', s)
  BY <1>4 DEF PutIn
<1>6. /\ Calls' /\ Sleepers(AtRoom, {}, {}) /\ Sleepers(AtHeader, {}, {})
      /\ Sleepers(AtText, {}, {}) /\ Sleepers(AtMessage, {}, {})
  BY <1>1, HeldHas, StillIs
<1>7. RoomOK'
  <2>1. ASSUME NEW d \in Call, RoomIn(msgque[SlotFor(d)], d, SlotFor(d) \in raised)
        PROVE  RoomIn(msgque'[SlotFor(d)], d, SlotFor(d) \in raised')
    <3>1. SlotFor(d) \in Slot /\ SlotFor(d) # s
      BY <1>4, <2>1, SlotForIs DEF RoomIn, Fits
    <3>2. msgque'[SlotFor(d)] = msgque[SlotFor(d)]
      BY <1>5, <3>1 DEF Others
    <3> QED
      BY <1>1, <2>1, <3>2
  <2> QED
    BY <1>6, <2>1, HeldHas, RoomStep
<1>8. HeaderOK'
  BY <1>1, <1>6, HeldHas, HeaderStep
<1>9. TextWaitOK'
  BY <1>1, <1>6, HeldHas, TextStep
<1>10. MessageOK(L)'
  <2>1. ASSUME NEW d \in Call, MessageIn(msgque[SlotFor(d)], d, msgh, L[SlotFor(d)])
        PROVE  MessageIn(msgque'[SlotFor(d)], d, msgh', L[SlotFor(d)])
    <3>1. SlotFor(d) \in Slot /\ SlotFor(d) # s
      BY <1>4, <2>1, SlotForIs DEF MessageIn, Fits
    <3>2. msgque'[SlotFor(d)] = msgque[SlotFor(d)]
      BY <1>5, <3>1 DEF Others
    <3> QED
      BY <1>1, <2>1, <3>2
  <2> QED
    BY <1>6, <2>1, HeldHas, MessageStep
<1> QED
  BY <1>1, <1>4, <1>5, <1>6, <1>7, <1>8, <1>9, <1>10, HeldHas DEF Held

LimitDone(q, n, r) == r \in Msqid /\ SameList(q, r) /\ r.wwait = q.wwait /\ r.rwait = q.rwait /\ r.qbytes = n

LEMMA LimitIs ==
  ASSUME NEW q \in Msqid, NEW n \in Number
  PROVE  LimitDone(q, n, [q EXCEPT !.qbytes = n])
BY SetQbytes DEF LimitDone

LEMMA SetLimitKeeps ==
  ASSUME NEW L, Held(L), NEW id \in LiveIds, NEW n \in Limit, SetLimit(id, n)
  PROVE  Held(L)'
<1>1. PICK s \in Slot : s = SlotOf(id)
  BY LiveIdIs
<1>2. PICK q \in Msqid : q = msgque[s]
  BY <1>1, LiveIdIs
<1>3. PICK r : r = [q EXCEPT !.qbytes = n]
  OBVIOUS
<1>4. /\ msgque' = Put(msgque, s, r)
      /\ raised' = (IF n > q.qbytes THEN raised \cup {s} ELSE raised)
      /\ msgh' = msgh /\ msgfp' = msgfp /\ text' = text /\ want' = want
      /\ UNCHANGED <<pc, asleep, frame>>
  BY <1>1, <1>2, <1>3 DEF SetLimit, Put
<1>5. n \in Number /\ n \in Int /\ q.qbytes \in Int /\ q.cbytes \in Int
  <2>1. n \in Int
    BY MsgAssumption
  <2> QED
    BY <2>1, MsqidHas DEF Number
<1>6. LimitDone(q, n, r)
  BY <1>3, <1>5, LimitIs
<1>7. PutIn(msgque, msgque', s, r)
  <2>1. r \in Msqid
    BY <1>6 DEF LimitDone
  <2> QED
    BY <1>4, <2>1, HeldHas, QueueSet
<1>8. msgque' \in Msqids /\ msgque'[s] = r /\ Others(msgque, msgque', s)
  BY <1>7 DEF PutIn
<1>9. Stored(msgque', msgh', msgfp', text', L)
  <2>1. SameList(msgque[s], msgque'[s])
    BY <1>2, <1>6, <1>8 DEF LimitDone
  <2>2. \A t \in Slot : SameList(msgque[t], msgque'[t])
    BY <1>8, <2>1, SameOthers
  <2> QED
    BY <1>4, <2>2, HeldHas, StoredKeeps
<1>10. /\ Calls' /\ Sleepers(AtRoom, {}, {}) /\ Sleepers(AtHeader, {}, {})
       /\ Sleepers(AtText, {}, {}) /\ Sleepers(AtMessage, {}, {})
  BY <1>4, HeldHas, StillIs
<1>11. RoomOK'
  <2>1. ASSUME NEW d \in Call, Sends(d), RoomIn(msgque[SlotFor(d)], d, SlotFor(d) \in raised)
        PROVE  RoomIn(msgque'[SlotFor(d)], d, SlotFor(d) \in raised')
    <3>1. SlotFor(d) \in Slot /\ d.msg[1] \in Nat
      BY <2>1, SlotForIs, CallHas
    <3>2. CASE SlotFor(d) = s
      <4>1. RoomIn(q, d, s \in raised)
        BY <1>2, <2>1, <3>2
      <4>2. r.alloc = q.alloc /\ r.seq = q.seq /\ r.wwait = q.wwait /\ r.qbytes = n /\ r.cbytes = q.cbytes
        BY <1>6 DEF LimitDone, SameList
      <4>3. s \in raised => s \in raised'
        BY <1>4
      <4>4. d.msg[1] + q.cbytes > q.qbytes => d.msg[1] + r.cbytes > r.qbytes \/ s \in raised'
        <5>1. CASE n > q.qbytes
          BY <1>4, <5>1
        <5>2. CASE ~(n > q.qbytes)
          BY <1>5, <3>1, <4>2, <5>2
        <5> QED
          BY <5>1, <5>2
      <4>5. RoomIn(r, d, s \in raised')
        BY <4>1, <4>2, <4>3, <4>4 DEF RoomIn, Fits
      <4> QED
        BY <1>8, <3>2, <4>5
    <3>3. CASE SlotFor(d) # s
      <4>1. msgque'[SlotFor(d)] = msgque[SlotFor(d)]
        BY <1>8, <3>1, <3>3 DEF Others
      <4>2. SlotFor(d) \in raised' <=> SlotFor(d) \in raised
        BY <1>4, <3>3
      <4> QED
        BY <2>1, <4>1, <4>2
    <3> QED
      BY <3>2, <3>3
  <2> QED
    BY <1>10, <2>1, HeldHas, RoomStep
<1>12. HeaderOK'
  BY <1>4, <1>10, HeldHas, HeaderStep
<1>13. TextWaitOK'
  BY <1>4, <1>10, HeldHas, TextStep
<1>14. MessageOK(L)'
  <2>1. ASSUME NEW d \in Call, MessageIn(msgque[SlotFor(d)], d, msgh, L[SlotFor(d)])
        PROVE  MessageIn(msgque'[SlotFor(d)], d, msgh', L[SlotFor(d)])
    <3>1. SlotFor(d) \in Slot
      BY SlotForIs
    <3>2. CASE SlotFor(d) = s
      <4>1. MessageIn(q, d, msgh, L[s])
        BY <1>2, <2>1, <3>2
      <4>2. r.alloc = q.alloc /\ r.seq = q.seq /\ r.rwait = q.rwait
        BY <1>6 DEF LimitDone, SameList
      <4>3. MessageIn(r, d, msgh', L[s])
        BY <1>4, <4>1, <4>2 DEF MessageIn, Fits
      <4> QED
        BY <1>8, <3>2, <4>3
    <3>3. CASE SlotFor(d) # s
      BY <1>4, <1>8, <2>1, <3>1, <3>3 DEF Others
    <3> QED
      BY <3>2, <3>3
  <2> QED
    BY <1>10, <2>1, HeldHas, MessageStep
<1> QED
  BY <1>4, <1>8, <1>9, <1>10, <1>11, <1>12, <1>13, <1>14, HeldHas DEF Held

WwaitClear(q, r) == r \in Msqid /\ SameList(q, r) /\ ~r.wwait /\ r.rwait = q.rwait /\ r.qbytes = q.qbytes

LEMMA WwaitOff ==
  ASSUME NEW q \in Msqid
  PROVE  WwaitClear(q, [q EXCEPT !.wwait = FALSE])
BY SetWwait DEF WwaitClear

LEMMA InterruptedInRoomKeeps ==
  ASSUME NEW L, Held(L), NEW p \in Proc, InterruptedInRoom(p)
  PROVE  Held(L)'
<1>1. PICK s : s = SlotFor(frame[p])
  OBVIOUS
<1>2. pc[p] = AtRoom
  BY DEF InterruptedInRoom, AtRoom
<1>3. s \in Slot
  <2>1. frame[p] \in Call
    BY <1>2, HeldHas, Places DEF Calls, CallOK
  <2> QED
    BY <1>1, <2>1, SlotForIs
<1>4. PICK q \in Msqid : q = msgque[s]
  BY <1>3, HeldHas, MsqidsAre
<1>5. PICK r : r = [q EXCEPT !.wwait = FALSE]
  OBVIOUS
<1>6. PICK P : P = InQueue(AtRoom, s)
  OBVIOUS
<1>7. /\ msgque' = Put(msgque, s, r) /\ raised' = raised \ {s}
      /\ msgh' = msgh /\ msgfp' = msgfp /\ text' = text /\ want' = want
      /\ Returns(p, P)
  BY <1>1, <1>4, <1>5, <1>6 DEF InterruptedInRoom, Put, SlotFor, AtRoom
<1>8. WwaitClear(q, r)
  BY <1>5, WwaitOff
<1>9. PutIn(msgque, msgque', s, r)
  <2>1. r \in Msqid
    BY <1>8 DEF WwaitClear
  <2> QED
    BY <1>3, <1>7, <2>1, HeldHas, QueueSet
<1>10. msgque' \in Msqids /\ msgque'[s] = r /\ Others(msgque, msgque', s)
  BY <1>9 DEF PutIn
<1>11. Stored(msgque', msgh', msgfp', text', L)
  <2>1. SameList(msgque[s], msgque'[s])
    BY <1>4, <1>8, <1>10 DEF WwaitClear
  <2>2. \A t \in Slot : SameList(msgque[t], msgque'[t])
    BY <1>3, <1>10, <2>1, SameOthers
  <2> QED
    BY <1>7, <2>2, HeldHas, StoredKeeps
<1>12. Calls' /\ \A on \in Place : on # AtUser => Sleepers(on, P, {})
  BY <1>7, HeldHas, ReturnsIs
<1>13. /\ Sleepers(AtRoom, P, {}) /\ Sleepers(AtHeader, P, {})
       /\ Sleepers(AtText, P, {}) /\ Sleepers(AtMessage, P, {})
  BY <1>12, InPlace
<1>14. RoomOK'
  <2>1. ASSUME NEW d \in Call, Sends(d), RoomIn(msgque[SlotFor(d)], d, SlotFor(d) \in raised)
        PROVE  RoomIn(msgque'[SlotFor(d)], d, SlotFor(d) \in raised')
               \/ InQueue(AtRoom, SlotFor(d)) \subseteq P
    <3>1. SlotFor(d) \in Slot
      BY SlotForIs
    <3>2. CASE SlotFor(d) = s
      BY <1>6, <3>2
    <3>3. CASE SlotFor(d) # s
      <4>1. msgque'[SlotFor(d)] = msgque[SlotFor(d)]
        BY <1>10, <3>1, <3>3 DEF Others
      <4>2. SlotFor(d) \in raised' <=> SlotFor(d) \in raised
        BY <1>7, <3>3
      <4> QED
        BY <2>1, <4>1, <4>2
    <3> QED
      BY <3>2, <3>3
  <2> QED
    BY <1>13, <2>1, HeldHas, RoomStep
<1>15. HeaderOK'
  BY <1>7, <1>13, HeldHas, HeaderStep
<1>16. TextWaitOK'
  BY <1>7, <1>13, HeldHas, TextStep
<1>17. MessageOK(L)'
  <2>1. ASSUME NEW d \in Call, MessageIn(msgque[SlotFor(d)], d, msgh, L[SlotFor(d)])
        PROVE  MessageIn(msgque'[SlotFor(d)], d, msgh', L[SlotFor(d)])
    <3>1. SlotFor(d) \in Slot
      BY SlotForIs
    <3>2. CASE SlotFor(d) = s
      <4>1. MessageIn(q, d, msgh, L[s])
        BY <1>4, <2>1, <3>2
      <4>2. r.alloc = q.alloc /\ r.seq = q.seq /\ r.rwait = q.rwait
        BY <1>8 DEF WwaitClear, SameList
      <4>3. MessageIn(r, d, msgh', L[s])
        BY <1>7, <4>1, <4>2 DEF MessageIn, Fits
      <4> QED
        BY <1>10, <3>2, <4>3
    <3>3. CASE SlotFor(d) # s
      BY <1>7, <1>10, <2>1, <3>1, <3>3 DEF Others
    <3> QED
      BY <3>2, <3>3
  <2> QED
    BY <1>13, <2>1, HeldHas, MessageStep
<1> QED
  BY <1>7, <1>10, <1>11, <1>12, <1>14, <1>15, <1>16, <1>17, HeldHas DEF Held
------------------------------------------------------------------------------
(* At first.                                                               *)
FirstFree  == [i \in 1 .. MSGTQL |-> i]
FirstLists == [k \in Lines |-> IF k = MSGMNI THEN FirstFree ELSE <<>>]

LEMMA FirstFreeIs ==
  /\ FirstFree \in Seq(Hdr) /\ Len(FirstFree) = MSGTQL /\ Injective(FirstFree)
  /\ Elems(FirstFree) = Hdr /\ \A i \in 1 .. MSGTQL : FirstFree[i] = i
<1>1. FirstFree \in [1 .. MSGTQL -> Hdr] /\ \A i \in 1 .. MSGTQL : FirstFree[i] = i
  BY DEF FirstFree, Hdr
<1>2. FirstFree \in Seq(Hdr) /\ Len(FirstFree) = MSGTQL
  BY <1>1, Constants, SeqIs
<1>3. Injective(FirstFree)
  BY <1>1, <1>2 DEF Injective
<1>4. Elems(FirstFree) = Hdr
  BY <1>1, <1>2 DEF Elems, Hdr
<1> QED
  BY <1>1, <1>2, <1>3, <1>4

LEMMA FirstPartition == Partition(FirstLists)
<1>1. /\ FirstLists[MSGMNI] = FirstFree /\ MSGMNI \in Lines
      /\ \A k \in Lines : k # MSGMNI => FirstLists[k] = <<>>
  BY LinesAre DEF FirstLists
<1>2. /\ FirstFree \in Seq(Hdr) /\ Injective(FirstFree) /\ Elems(FirstFree) = Hdr
      /\ <<>> \in Seq(Hdr) /\ Injective(<<>>) /\ Elems(<<>>) = {}
  BY FirstFreeIs, Nothing
<1>3. FirstLists \in [Lines -> Seq(Hdr)]
  BY <1>2 DEF FirstLists
<1>4. ASSUME NEW k \in Lines PROVE Injective(FirstLists[k])
  BY <1>1, <1>2
<1>5. ASSUME NEW k \in Lines, NEW l \in Lines, k # l
      PROVE  Elems(FirstLists[k]) \cap Elems(FirstLists[l]) = {}
  <2>1. CASE k # MSGMNI
    BY <1>1, <1>2, <2>1
  <2>2. CASE l # MSGMNI
    BY <1>1, <1>2, <2>2
  <2> QED
    BY <1>5, <2>1, <2>2
<1>6. ASSUME NEW h \in Hdr PROVE \E k \in Lines : h \in Elems(FirstLists[k])
  BY <1>1, <1>2
<1> QED
  BY <1>3, <1>4, <1>5, <1>6 DEF Partition

LEMMA InitStored ==
  ASSUME Init
  PROVE  Stored(msgque, msgh, msgfp, text, FirstLists)
<1>1. /\ FirstLists[MSGMNI] = FirstFree
      /\ \A s \in Slot : FirstLists[s] = <<>>
  BY LinesAre DEF FirstLists
<1>2. ASSUME NEW s \in Slot PROVE QueueOK(msgque[s], msgh, FirstLists[s])
  <2>1. msgque[s].first = 0 /\ msgque[s].last = 0 /\ msgque[s].qnum = 0 /\ msgque[s].cbytes = 0
    BY DEF Init
  <2>2. Chain(msgh, 0, <<>>) /\ Total(SizesOf(msgh, <<>>)) = 0 /\ Len(<<>>) = 0
    BY Nothing
  <2> QED
    BY <1>1, <2>1, <2>2 DEF QueueOK, LastOf
<1>3. Chain(msgh, msgfp, FirstFree)
  <2>1. /\ FirstFree \in Seq(Hdr) /\ Len(FirstFree) = MSGTQL /\ Injective(FirstFree)
        /\ \A i \in 1 .. MSGTQL : FirstFree[i] = i
    BY FirstFreeIs
  <2>2. msgfp = FirstFree[1] /\ MSGTQL # 0
    BY <2>1, Constants DEF Init
  <2>3. ASSUME NEW i \in 1 .. MSGTQL
        PROVE  msgh[FirstFree[i]].next = IF i = MSGTQL THEN 0 ELSE FirstFree[i + 1]
    <3>1. msgh[i].next = IF i < MSGTQL THEN i + 1 ELSE 0
      BY DEF Init, Hdr
    <3>2. i # MSGTQL => i < MSGTQL /\ i + 1 \in 1 .. MSGTQL
      BY Constants
    <3>3. i = MSGTQL => ~(i < MSGTQL)
      BY Constants
    <3> QED
      BY <2>1, <3>1, <3>2, <3>3
  <2> QED
    BY <2>1, <2>2, <2>3 DEF Chain
<1>4. TextOK(text, msgh, Used(FirstLists))
  <2>1. Used(FirstLists) = {}
    BY <1>1, FirstFreeIs DEF Used
  <2>2. text = Unit
    BY DEF Init
  <2> QED
    BY <2>1, <2>2 DEF TextOK
<1> QED
  BY <1>1, <1>2, <1>3, <1>4, FirstPartition DEF Stored

LEMMA InitTypes ==
  ASSUME Init
  PROVE  msgque \in Msqids /\ msgh \in Headers /\ want \in BOOLEAN
<1>z. PICK z \in Link, o \in Number : z = 0 /\ o = 0
  BY Zero
<1>e. PICK e \in Seqno : e = 0
  BY Constants DEF Seqno
<1>o. PICK off : off = FALSE
  OBVIOUS
<1>1. z = 0 /\ o = 0 /\ e = 0 /\ off = FALSE /\ off \in BOOLEAN
  BY <1>z, <1>e, <1>o
<1>2. [alloc |-> off, seq |-> e, first |-> z, last |-> z, qnum |-> o, cbytes |-> o,
       qbytes |-> o, rwait |-> off, wwait |-> off] \in Msqid
  BY <1>1, MsqidIn
<1>3. msgque = [s \in Slot |-> [alloc |-> off, seq |-> e, first |-> z, last |-> z, qnum |-> o, cbytes |-> o,
                                qbytes |-> o, rwait |-> off, wwait |-> off]]
  BY <1>1 DEF Init
<1>4. msgque \in Msqids
  BY <1>2, <1>3 DEF Msqids
<1>5. msgh \in Headers
  <2>1. ASSUME NEW h \in Hdr PROVE msgh[h] \in Header
    <3>1. PICK n : n = IF h < MSGTQL THEN h + 1 ELSE 0
      OBVIOUS
    <3>2. n \in Link
      BY <3>1, Constants DEF Hdr, Link
    <3>3. msgh[h] = [next |-> n, type |-> 0, ts |-> 0, spot |-> 0]
      BY <3>1 DEF Init
    <3> QED
      BY <3>2, <3>3 DEF Header
  <2>2. msgh = [h \in Hdr |-> msgh[h]]
    BY DEF Init
  <2> QED
    BY <2>1, <2>2 DEF Headers
<1>6. want \in BOOLEAN
  BY DEF Init
<1> QED
  BY <1>4, <1>5, <1>6

LEMMA InitCalls ==
  ASSUME Init
  PROVE  Calls /\ \A p \in Proc : ~asleep[p]
<1>1. /\ pc = [p \in Proc |-> AtUser] /\ asleep = [p \in Proc |-> FALSE] /\ frame = [p \in Proc |-> NoCall]
  BY DEF Init, AtUser
<1>2. AtUser \in Place
  BY DEF Place
<1>3. ASSUME NEW p \in Proc PROVE CallOK(p)
  BY <1>1, Places DEF CallOK
<1> QED
  BY <1>1, <1>2, <1>3 DEF Calls

LEMMA InitHolds ==
  ASSUME Init
  PROVE  MsgInv
<1>1. RoomOK /\ HeaderOK /\ TextWaitOK /\ MessageOK(FirstLists)
  BY InitCalls DEF RoomOK, HeaderOK, TextWaitOK, MessageOK, On
<1>2. Held(FirstLists)
  BY <1>1, InitStored, InitTypes, InitCalls DEF Held
<1> QED
  BY <1>2 DEF MsgInv

------------------------------------------------------------------------------
(* Each action.                                                            *)
Tried(p, c) ==
  \/ WaitForRoom(p, c) \/ WaitForHeader(p, c) \/ WaitForText(p, c)
  \/ SendFault(p, c) \/ Send(p, c)
  \/ Receive(p, c) \/ ReceiveFails(p, c) \/ WaitForMessage(p, c)

LEMMA TriedKeeps ==
  ASSUME NEW L, Held(L), NEW p \in Proc, NEW c \in Call, Tried(p, c)
  PROVE  \E M : Held(M)'
<1>1. CASE WaitForRoom(p, c)
  <2>1. Held(L)'
    BY <1>1, WaitForRoomKeeps
  <2> QED
    BY <2>1
<1>2. CASE WaitForHeader(p, c)
  <2>1. Held(L)'
    BY <1>2, WaitForHeaderKeeps
  <2> QED
    BY <2>1
<1>3. CASE WaitForText(p, c)
  <2>1. Held(L)'
    BY <1>3, WaitForTextKeeps
  <2> QED
    BY <2>1
<1>4. CASE SendFault(p, c)
  <2>1. Held(L)'
    BY <1>4, SendFaultKeeps
  <2> QED
    BY <2>1
<1>5. CASE Send(p, c)
  BY <1>5, SendKeeps
<1>6. CASE Receive(p, c)
  BY <1>6, ReceiveKeeps
<1>7. CASE ReceiveFails(p, c)
  <2>1. Returns(p, {}) /\ UNCHANGED <<store, raised>>
    BY <1>7 DEF ReceiveFails
  <2>2. Held(L)'
    BY <2>1, QuietKeeps
  <2> QED
    BY <2>2
<1>8. CASE WaitForMessage(p, c)
  <2>1. Held(L)'
    BY <1>8, WaitForMessageKeeps
  <2> QED
    BY <2>1
<1> QED
  BY <1>1, <1>2, <1>3, <1>4, <1>5, <1>6, <1>7, <1>8 DEF Tried

LEMMA StutterKeeps ==
  ASSUME NEW L, Held(L), UNCHANGED vars
  PROVE  Held(L)'
<1>1. /\ msgque' = msgque /\ msgh' = msgh /\ msgfp' = msgfp /\ text' = text /\ want' = want
      /\ raised' = raised /\ UNCHANGED <<pc, asleep, frame>>
  BY DEF vars, store
<1>2. /\ Calls' /\ Sleepers(AtRoom, {}, {}) /\ Sleepers(AtHeader, {}, {})
      /\ Sleepers(AtText, {}, {}) /\ Sleepers(AtMessage, {}, {})
  BY <1>1, HeldHas, StillIs
<1>3. RoomOK'
  BY <1>1, <1>2, HeldHas, RoomStep
<1>4. HeaderOK'
  BY <1>1, <1>2, HeldHas, HeaderStep
<1>5. TextWaitOK'
  BY <1>1, <1>2, HeldHas, TextStep
<1>6. MessageOK(L)'
  BY <1>1, <1>2, HeldHas, MessageStep
<1> QED
  BY <1>1, <1>2, <1>3, <1>4, <1>5, <1>6, HeldHas DEF Held

LEMMA NextKeeps ==
  ASSUME MsgInv, [Next]_vars
  PROVE  MsgInv'
<1>1. PICK L : Held(L)
  BY DEF MsgInv
<1>2. Calls
  BY <1>1, HeldHas
<1>3. ASSUME NEW p \in Proc, NEW c \in Tries(p), Tried(p, c) PROVE \E M : Held(M)'
  <2>1. c \in Call
    BY <1>2, TriesIs
  <2> QED
    BY <1>1, <1>3, <2>1, TriedKeeps
<1>4. ASSUME NEW p \in Proc, Removed(p) PROVE Held(L)'
  <2>1. Returns(p, {}) /\ UNCHANGED <<store, raised>>
    BY <1>4 DEF Removed
  <2> QED
    BY <1>1, <2>1, QuietKeeps
<1>5. ASSUME NEW p \in Proc, Interrupted(p) PROVE Held(L)'
  <2>1. Returns(p, {}) /\ UNCHANGED <<store, raised>>
    BY <1>5 DEF Interrupted
  <2> QED
    BY <1>1, <2>1, QuietKeeps
<1>6. ASSUME NEW p \in Proc, InterruptedInRoom(p) PROVE Held(L)'
  BY <1>1, <1>6, InterruptedInRoomKeeps
<1>7. ASSUME Msgget PROVE Held(L)'
  BY <1>1, <1>7, MsggetKeeps
<1>8. ASSUME NEW id \in LiveIds, Rmid(id) PROVE \E M : Held(M)'
  BY <1>1, <1>8, RmidKeeps
<1>9. ASSUME NEW id \in LiveIds, NEW n \in Limit, SetLimit(id, n) PROVE Held(L)'
  BY <1>1, <1>9, SetLimitKeeps
<1>10. ASSUME UNCHANGED vars PROVE Held(L)'
  BY <1>1, <1>10, StutterKeeps
<1>11. \/ \E p \in Proc : \E c \in Tries(p) : Tried(p, c)
       \/ \E p \in Proc : Removed(p) \/ Interrupted(p) \/ InterruptedInRoom(p)
       \/ Msgget
       \/ \E id \in LiveIds : Rmid(id) \/ \E n \in Limit : SetLimit(id, n)
       \/ UNCHANGED vars
  BY DEF Next, Tried
<1>12. \E M : Held(M)'
  BY <1>3, <1>4, <1>5, <1>6, <1>7, <1>8, <1>9, <1>10, <1>11
<1> QED
  BY <1>12 DEF MsgInv

(* There are lists that account for every queue, header and unit of text,  *)
(* and whoever sleeps does so for what they do not hold.                   *)
THEOREM MsgInvariance == Spec => []MsgInv
<1>1. Init => MsgInv
  BY InitHolds
<1>2. MsgInv /\ [Next]_vars => MsgInv'
  BY NextKeeps
<1> QED
  BY <1>1, <1>2, PTL DEF Spec
------------------------------------------------------------------------------
(* What the invariant says in the words of the model.                      *)
LEMMA LinesHere ==
  ASSUME NEW L, Held(L)
  PROVE  \A k \in Lines : Line(k) = L[k]
<1>1. Stored(msgque, msgh, msgfp, text, L)
  BY HeldHas
<1> QED
  BY <1>1, QueueHere, LinesAre DEF Line

LEMMA LinesExact ==
  ASSUME NEW L, Partition(L)
  PROVE  /\ \A k \in Lines : IsInjective(L[k]) /\ ToSet(L[k]) = Elems(L[k])
         /\ \A k, l \in Lines : k # l => ToSet(L[k]) \cap ToSet(L[l]) = {}
         /\ UNION {ToSet(L[k]) : k \in Lines} = Hdr
<1>1. ASSUME NEW k \in Lines
      PROVE  IsInjective(L[k]) /\ ToSet(L[k]) = Elems(L[k]) /\ Elems(L[k]) \in SUBSET Hdr
  <2>1. L[k] \in Seq(Hdr) /\ Injective(L[k]) /\ Elems(L[k]) \in SUBSET Hdr
    BY Elsewhere
  <2>2. DOMAIN L[k] = 1 .. Len(L[k])
    BY <2>1, SeqHas
  <2>3. IsInjective(L[k])
    BY <2>1, <2>2 DEF IsInjective, Injective
  <2>4. ToSet(L[k]) = Elems(L[k])
    BY <2>1, EmptyList
  <2> QED
    BY <2>1, <2>3, <2>4
<1>2. \A k, l \in Lines : k # l => ToSet(L[k]) \cap ToSet(L[l]) = {}
  BY <1>1 DEF Partition
<1>3. ASSUME NEW h \in Hdr PROVE \E k \in Lines : h \in ToSet(L[k])
  BY <1>1 DEF Partition
<1>4. UNION {ToSet(L[k]) : k \in Lines} = Hdr
  BY <1>1, <1>3
<1> QED
  BY <1>1, <1>2, <1>4

LEMMA QueueExact ==
  ASSUME NEW q, NEW ms, QueueOK(q, msgh, ms)
  PROVE  /\ q.last = IF ms = <<>> THEN 0 ELSE Last(ms)
         /\ q.qnum = Len(ms) /\ q.cbytes = Sizes(ms)
<1>1. ms \in Seq(Hdr)
  BY DEF QueueOK, Chain
<1>2. q.last = IF ms = <<>> THEN 0 ELSE Last(ms)
  BY <1>1, EmptyList DEF QueueOK, LastOf
<1>3. q.cbytes = Sizes(ms)
  BY DEF QueueOK, Sizes, SizesOf
<1> QED
  BY <1>2, <1>3 DEF QueueOK

LEMMA TextExact ==
  ASSUME NEW U, TextOK(text, msgh, U)
  PROVE  /\ text \cup UNION {Units(h) : h \in U} = Unit
         /\ \A h \in U : Units(h) \cap text = {} /\ \A g \in U \ {h} : Units(g) \cap Units(h) = {}
<1>1. \A h : Units(h) = SpanOf(msgh, h)
  BY DEF Units, SpanOf
<1> HIDE DEF Units
<1>2. /\ text \in SUBSET Unit
      /\ \A h \in U : Units(h) \subseteq Unit /\ Units(h) \cap text = {}
      /\ \A g, h \in U : g # h => Units(g) \cap Units(h) = {}
      /\ \A x \in Unit : x \in text \/ \E h \in U : x \in Units(h)
  BY <1>1 DEF TextOK
<1> QED
  BY <1>2

LEMMA ListsExactHeld == MsgInv => ListsExact
<1>1. SUFFICES ASSUME MsgInv PROVE ListsExact
  OBVIOUS
<1>2. PICK L : Held(L)
  BY <1>1 DEF MsgInv
<1>3. Stored(msgque, msgh, msgfp, text, L) /\ Partition(L)
  BY <1>2, HeldHas DEF Stored
<1>4. ASSUME NEW s \in Slot
      PROVE  /\ msgque[s].last = IF Queue(s) = <<>> THEN 0 ELSE Last(Queue(s))
             /\ msgque[s].qnum = Len(Queue(s)) /\ msgque[s].cbytes = Sizes(Queue(s))
  <2>1. QueueOK(msgque[s], msgh, L[s]) /\ Queue(s) = L[s]
    BY <1>3, QueueHere DEF Stored
  <2> QED
    BY <2>1, QueueExact
<1>5. /\ \A k \in Lines : IsInjective(Line(k))
      /\ \A k, l \in Lines : k # l => ToSet(Line(k)) \cap ToSet(Line(l)) = {}
  BY <1>2, <1>3, LinesHere, LinesExact
<1>6. UNION {ToSet(Line(k)) : k \in Lines} = Hdr
  <2>1. {ToSet(Line(k)) : k \in Lines} = {ToSet(L[k]) : k \in Lines}
    BY <1>2, LinesHere
  <2> QED
    BY <1>3, <2>1, LinesExact
<1>7. LET used == Hdr \ ToSet(List(msgfp)) IN
      /\ text \cup UNION {Units(h) : h \in used} = Unit
      /\ \A h \in used : Units(h) \cap text = {} /\ \A g \in used \ {h} : Units(g) \cap Units(h) = {}
  <2>1. ToSet(List(msgfp)) = Elems(L[MSGMNI])
    BY <1>3, QueueHere, LinesExact, LinesAre
  <2>2. TextOK(text, msgh, Hdr \ ToSet(List(msgfp)))
    BY <1>3, <2>1 DEF Stored, Used
  <2> QED
    BY <2>2, TextExact
<1> QED
  BY <1>4, <1>5, <1>6, <1>7 DEF ListsExact

LEMMA NobodyStrandedHeld == MsgInv => NobodyStranded
<1>1. SUFFICES ASSUME MsgInv, NEW p \in Proc, asleep[p]
      PROVE  LET c == frame[p]
                 q == msgque[SlotOf(c.id)]
             IN /\ pc[p] = AtRoom => Live(c.id) /\ q.wwait /\ (NoRoom(c) \/ SlotOf(c.id) \in raised)
                /\ pc[p] = AtHeader => msgfp = 0
                /\ pc[p] = AtText => want /\ NoText(c)
                /\ pc[p] = AtMessage => Live(c.id) /\ q.rwait /\ Found(c) = 0
  BY DEF NobodyStranded, AtRoom, AtHeader, AtText, AtMessage
<1>2. PICK L : Held(L)
  BY <1>1 DEF MsgInv
<1>3. PICK c : c = frame[p]
  OBVIOUS
<1>4. CallOK(p)
  BY <1>2, HeldHas DEF Calls
<1>5. ASSUME pc[p] = AtRoom
      PROVE  Live(c.id) /\ msgque[SlotOf(c.id)].wwait /\ (NoRoom(c) \/ SlotOf(c.id) \in raised)
  <2>1. RoomIn(msgque[SlotFor(c)], c, SlotFor(c) \in raised)
    BY <1>1, <1>2, <1>3, <1>5, HeldHas DEF RoomOK, On
  <2> QED
    BY <2>1, LiveIs DEF RoomIn, SlotFor, NoRoom
<1>6. ASSUME pc[p] = AtHeader PROVE msgfp = 0
  BY <1>1, <1>2, <1>6, HeldHas DEF HeaderOK, On
<1>7. ASSUME pc[p] = AtText PROVE want /\ NoText(c)
  <2>1. TextFor(want, text, c)
    BY <1>1, <1>2, <1>3, <1>7, HeldHas DEF TextWaitOK, On
  <2> QED
    BY <2>1 DEF TextFor, NoText, Spots
<1>8. ASSUME pc[p] = AtMessage PROVE Live(c.id) /\ msgque[SlotOf(c.id)].rwait /\ Found(c) = 0
  <2>1. MessageIn(msgque[SlotFor(c)], c, msgh, L[SlotFor(c)])
    BY <1>1, <1>2, <1>3, <1>8, HeldHas DEF MessageOK, On
  <2>2. c \in Call /\ Receives(c)
    BY <1>3, <1>4, <1>8, Places DEF CallOK
  <2>3. Found(c) = 0
    BY <1>2, <2>1, <2>2, FoundHere DEF MessageIn
  <2> QED
    BY <2>1, <2>3, LiveIs DEF MessageIn, SlotFor
<1> QED
  BY <1>3, <1>5, <1>6, <1>7, <1>8

(* The lists of the queues and of the free headers share nothing and lose  *)
(* nothing, the last pointers, counts and bytes of the queues are those of *)
(* their lists, and each unit of text is free or of one message: msgsnd(), *)
(* msgrcv() and msgfree() out of the middle of a list, and IPC_RMID.       *)
THEOREM MsgListsExact == Spec => []ListsExact
BY MsgInvariance, ListsExactHeld, PTL

(* Nobody sleeps for room, a header, text or a message that is there, and  *)
(* the flag that will have it woken is set.                                *)
THEOREM MsgNobodyStranded == Spec => []NobodyStranded
BY MsgInvariance, NobodyStrandedHeld, PTL
------------------------------------------------------------------------------
(* The queues as the abstract specification sees them, for any values of   *)
(* the variables.                                                          *)
LiveSet(que)  == {que[s].seq * MSGMNI + s : s \in {t \in Slot : que[t].alloc}}
InLive(que, id) == id \in Nat /\ que[SlotOf(id)].alloc /\ id \div MSGMNI = que[SlotOf(id)].seq

Brief(m, h)   == [type |-> m[h].type, size |-> m[h].ts]
Briefs(m, ms) == [i \in DOMAIN ms |-> Brief(m, ms[i])]
Briefing      == [type : Nat, size : Nat]

QueuesOf(que, m, L) == [id \in LiveSet(que) |-> Briefs(m, L[SlotOf(id)])]
LimitsOf(que)       == [id \in LiveSet(que) |-> que[SlotOf(id)].qbytes]

SeqsOf(que, m) == [id \in LiveSet(que) |-> Briefs(m, ListIn(m, que[SlotOf(id)].first))]

AbsQueue == [id \in LiveIds |-> Messages(SlotOf(id))]
AbsLimit == [id \in LiveIds |-> msgque[SlotOf(id)].qbytes]

LEMMA LiveSetIs ==
  ASSUME NEW que \in Msqids
  PROVE  \A id : id \in LiveSet(que) <=> InLive(que, id)
<1>1. ASSUME NEW s \in Slot PROVE que[s].seq \in Nat
  <2>1. que[s].seq \in Seqno
    BY MsqidsAre, MsqidHas
  <2> QED
    BY <2>1 DEF Seqno
<1>2. ASSUME NEW id, id \in LiveSet(que) PROVE InLive(que, id)
  <2>1. PICK s \in Slot : que[s].alloc /\ id = que[s].seq * MSGMNI + s
    BY <1>2 DEF LiveSet
  <2>2. PICK q \in Nat : q = que[s].seq
    BY <1>1
  <2>3. id = q * MSGMNI + s
    BY <2>1, <2>2
  <2>4. id \in Nat /\ SlotOf(id) = s /\ id \div MSGMNI = q
    BY <2>3, IdIs
  <2> QED
    BY <2>1, <2>2, <2>4 DEF InLive
<1>3. ASSUME NEW id, InLive(que, id) PROVE id \in LiveSet(que)
  <2>1. id \in Nat /\ que[SlotOf(id)].alloc /\ id \div MSGMNI = que[SlotOf(id)].seq
    BY <1>3 DEF InLive
  <2>2. SlotOf(id) \in Slot /\ id = (id \div MSGMNI) * MSGMNI + SlotOf(id)
    BY <2>1, SlotIs
  <2>3. id = que[SlotOf(id)].seq * MSGMNI + SlotOf(id)
    BY <2>1, <2>2
  <2> QED
    BY <2>1, <2>2, <2>3 DEF LiveSet
<1> QED
  BY <1>2, <1>3

LEMMA LiveSlots ==
  ASSUME NEW que \in Msqids, NEW id \in LiveSet(que)
  PROVE  /\ id \in Nat /\ SlotOf(id) \in Slot /\ que[SlotOf(id)].alloc
         /\ \A x \in LiveSet(que) : SlotOf(x) = SlotOf(id) => x = id
<1>1. ASSUME NEW x \in LiveSet(que)
      PROVE  x \in Nat /\ SlotOf(x) \in Slot /\ que[SlotOf(x)].alloc
             /\ x = que[SlotOf(x)].seq * MSGMNI + SlotOf(x)
  <2>1. InLive(que, x)
    BY LiveSetIs
  <2>2. x \in Nat /\ que[SlotOf(x)].alloc /\ x \div MSGMNI = que[SlotOf(x)].seq
    BY <2>1 DEF InLive
  <2>3. SlotOf(x) \in Slot /\ x = (x \div MSGMNI) * MSGMNI + SlotOf(x)
    BY <2>2, SlotIs
  <2> QED
    BY <2>2, <2>3
<1>2. ASSUME NEW x \in LiveSet(que), SlotOf(x) = SlotOf(id) PROVE x = id
  <2>1. x = que[SlotOf(x)].seq * MSGMNI + SlotOf(x) /\ id = que[SlotOf(id)].seq * MSGMNI + SlotOf(id)
    BY <1>1
  <2> QED
    BY <1>2, <2>1
<1> QED
  BY <1>1, <1>2

AbsSays ==
  /\ LiveIds = LiveSet(msgque) /\ AbsLimit = LimitsOf(msgque)
  /\ AbsQueue = SeqsOf(msgque, msgh)

LEMMA AbsIs == AbsSays
<1>1. LiveIds = LiveSet(msgque)
  BY DEF LiveIds, LiveSet, IdOf
<1>2. AbsLimit = LimitsOf(msgque)
  BY <1>1 DEF AbsLimit, LimitsOf
<1>3. ASSUME NEW id PROVE Messages(SlotOf(id)) = Briefs(msgh, ListIn(msgh, msgque[SlotOf(id)].first))
  <2>1. Queue(SlotOf(id)) = ListIn(msgh, msgque[SlotOf(id)].first)
    BY ListHere DEF Queue
  <2> QED
    BY <2>1 DEF Messages, Briefs, Brief
<1>4. AbsQueue = SeqsOf(msgque, msgh)
  BY <1>1, <1>3 DEF AbsQueue, SeqsOf
<1> QED
  BY <1>1, <1>2, <1>4 DEF AbsSays

LEMMA AbsNext ==
  /\ LiveIds' = LiveSet(msgque') /\ AbsLimit' = LimitsOf(msgque')
  /\ AbsQueue' = SeqsOf(msgque', msgh')
<1>1. AbsSays'
  BY AbsIs, PTL
<1> QED
  BY <1>1 DEF AbsSays

LEMMA SeqsAre ==
  ASSUME NEW que \in Msqids, NEW m, NEW fp, NEW tx, NEW L, Stored(que, m, fp, tx, L)
  PROVE  SeqsOf(que, m) = QueuesOf(que, m, L)
<1>1. ASSUME NEW id \in LiveSet(que) PROVE ListIn(m, que[SlotOf(id)].first) = L[SlotOf(id)]
  <2>1. SlotOf(id) \in Slot
    BY LiveSlots
  <2>2. Chain(m, que[SlotOf(id)].first, L[SlotOf(id)])
    BY <2>1 DEF Stored, QueueOK
  <2> QED
    BY <2>2, ListIs
<1> QED
  BY <1>1 DEF SeqsOf, QueuesOf

(* The lists of a state, and of the next one, say what the queues are.     *)
LEMMA AbsHere ==
  ASSUME NEW L, Held(L)
  PROVE  /\ LiveIds = LiveSet(msgque) /\ AbsLimit = LimitsOf(msgque)
         /\ AbsQueue = QueuesOf(msgque, msgh, L)
BY AbsIs, SeqsAre, HeldHas DEF AbsSays

LEMMA AbsThen ==
  ASSUME msgque' \in Msqids, NEW M, Stored(msgque', msgh', msgfp', text', M)
  PROVE  /\ LiveIds' = LiveSet(msgque') /\ AbsLimit' = LimitsOf(msgque')
         /\ AbsQueue' = QueuesOf(msgque', msgh', M)
BY AbsNext, SeqsAre
------------------------------------------------------------------------------
(* What the queues hold, in brief.                                         *)
LEMMA BriefsAre ==
  ASSUME NEW m \in Headers, NEW ms \in Seq(Hdr)
  PROVE  /\ Briefs(m, ms) \in Seq(Briefing) /\ Len(Briefs(m, ms)) = Len(ms)
         /\ DOMAIN Briefs(m, ms) = 1 .. Len(ms)
         /\ \A i \in 1 .. Len(ms) : Briefs(m, ms)[i] = Brief(m, ms[i])
<1> DEFINE n == Len(ms)
           b == Briefs(m, ms)
<1>1. n \in Nat /\ DOMAIN ms = 1 .. n /\ \A i \in 1 .. n : ms[i] \in Hdr
  BY SeqHas
<1>2. ASSUME NEW i \in 1 .. n PROVE Brief(m, ms[i]) \in Briefing
  BY <1>1, HeadersAre DEF Brief, Briefing
<1>3. b = [i \in 1 .. n |-> Brief(m, ms[i])]
  BY <1>1 DEF Briefs
<1> HIDE DEF b, n
<1>4. b \in [1 .. n -> Briefing] /\ \A i \in 1 .. n : b[i] = Brief(m, ms[i])
  BY <1>2, <1>3
<1>5. b \in Seq(Briefing) /\ Len(b) = n
  BY <1>1, <1>4, SeqIs
<1>6. DOMAIN b = 1 .. n
  BY <1>4
<1> QED
  BY <1>4, <1>5, <1>6 DEF b, n

SameBrief(m, m2, h) == m2[h].type = m[h].type /\ m2[h].ts = m[h].ts

LEMMA BriefsKeep ==
  ASSUME NEW m, NEW m2, NEW ms \in Seq(Hdr), \A g \in Elems(ms) : SameBrief(m, m2, g)
  PROVE  Briefs(m2, ms) = Briefs(m, ms)
<1>1. DOMAIN ms = 1 .. Len(ms)
  BY SeqHas
<1>2. ASSUME NEW i \in DOMAIN ms PROVE Brief(m2, ms[i]) = Brief(m, ms[i])
  <2>1. SameBrief(m, m2, ms[i])
    BY <1>1, ElemIs
  <2> QED
    BY <2>1 DEF SameBrief, Brief
<1> QED
  BY <1>2 DEF Briefs

LEMMA AppendIs ==
  ASSUME NEW S, NEW s \in Seq(S), NEW x \in S
  PROVE  Append(s, x) = More(s, x)
<1>1. /\ Append(s, x) \in Seq(S) /\ Len(Append(s, x)) = Len(s) + 1
      /\ \A i \in 1 .. Len(s) : Append(s, x)[i] = s[i]
      /\ Append(s, x)[Len(s) + 1] = x
  BY AppendProperties
<1>2. /\ More(s, x) \in Seq(S) /\ Len(More(s, x)) = Len(s) + 1
      /\ \A j \in 1 .. Len(s) + 1 : More(s, x)[j] = IF j = Len(s) + 1 THEN x ELSE s[j]
  BY MoreIs
<1>3. Len(s) \in Nat
  BY SeqHas
<1>4. ASSUME NEW j \in 1 .. Len(s) + 1 PROVE Append(s, x)[j] = More(s, x)[j]
  BY <1>1, <1>2, <1>3
<1> QED
  BY <1>1, <1>2, <1>4, SeqEqual

LEMMA RemoveAtIs ==
  ASSUME NEW S, NEW s \in Seq(S), NEW i \in 1 .. Len(s)
  PROVE  RemoveAt(s, i) = Less(s, i)
<1> DEFINE n == Len(s)
           a == SubSeq(s, 1, i - 1)
           b == SubSeq(s, i + 1, n)
<1>1. n \in Nat /\ i \in 1 .. n /\ i \in Int /\ \A j \in 1 .. n : s[j] \in S
  BY SeqHas
<1> HIDE DEF n
<1>2. a \in Seq(S) /\ Len(a) = i - 1 /\ \A j \in 1 .. i - 1 : a[j] = s[j]
  <2>1. i - 1 \in Int /\ \A j \in 1 .. i - 1 : s[j] \in S
    BY <1>1
  <2>2. /\ a \in Seq(S) /\ Len(a) = (IF 1 <= i - 1 THEN i - 1 - 1 + 1 ELSE 0)
        /\ \A j \in 1 .. i - 1 - 1 + 1 : a[j] = s[1 + j - 1]
    BY <2>1, SubSeqProperties
  <2> HIDE DEF a
  <2> QED
    BY <1>1, <2>2
<1>3. b \in Seq(S) /\ Len(b) = n - i /\ \A j \in 1 .. n - i : b[j] = s[i + j]
  <2>1. i + 1 \in Int /\ \A j \in i + 1 .. n : s[j] \in S
    BY <1>1
  <2>2. /\ b \in Seq(S) /\ Len(b) = (IF i + 1 <= n THEN n - (i + 1) + 1 ELSE 0)
        /\ \A j \in 1 .. n - (i + 1) + 1 : b[j] = s[(i + 1) + j - 1]
    BY <1>1, <2>1, SubSeqProperties
  <2> HIDE DEF b
  <2>3. n - (i + 1) + 1 = n - i /\ Len(b) = n - i
    BY <1>1, <2>2
  <2>4. \A j \in 1 .. n - i : (i + 1) + j - 1 = i + j
    BY <1>1
  <2> QED
    BY <2>2, <2>3, <2>4
<1>4. RemoveAt(s, i) = a \o b
  BY DEF RemoveAt, n
<1> HIDE DEF a, b
<1>5. /\ a \o b \in Seq(S) /\ Len(a \o b) = Len(a) + Len(b)
      /\ \A j \in 1 .. Len(a) + Len(b) : (a \o b)[j] = IF j <= Len(a) THEN a[j] ELSE b[j - Len(a)]
  BY <1>2, <1>3, ConcatProperties
<1> DEFINE c == a \o b
           e == Less(s, i)
<1>6. c \in Seq(S) /\ Len(c) = n - 1
  BY <1>1, <1>2, <1>3, <1>5
<1>7. \A j \in 1 .. n - 1 : c[j] = IF j <= i - 1 THEN a[j] ELSE b[j - (i - 1)]
  BY SMTT(30), <1>1, <1>2, <1>3, <1>5
<1>8. /\ e \in Seq(S) /\ Len(e) = n - 1
      /\ \A j \in 1 .. n - 1 : e[j] = IF j < i THEN s[j] ELSE s[j + 1]
  BY LessIs DEF n
<1> HIDE DEF c, e
<1>9. ASSUME NEW j \in 1 .. n - 1 PROVE c[j] = e[j]
  <2>1. CASE j <= i - 1
    <3>1. j < i /\ j \in 1 .. i - 1
      BY <1>1, <2>1
    <3> QED
      BY <1>2, <1>7, <1>8, <2>1, <3>1
  <2>2. CASE ~(j <= i - 1)
    <3>1. ~(j < i) /\ j - (i - 1) \in 1 .. n - i /\ i + (j - (i - 1)) = j + 1
      BY <1>1, <2>2
    <3>2. b[j - (i - 1)] = s[j + 1]
      BY <1>3, <3>1
    <3> QED
      BY <1>7, <1>8, <2>2, <3>1, <3>2
  <2> QED
    BY <2>1, <2>2
<1>10. c = e
  BY <1>6, <1>8, <1>9, SeqEqual
<1> QED
  BY <1>4, <1>10 DEF c, e

LEMMA MoreBriefings ==
  ASSUME NEW b \in Seq(Briefing), NEW v \in Briefing
  PROVE  /\ More(b, v) \in Seq(Briefing) /\ Len(More(b, v)) = Len(b) + 1
         /\ More(b, v)[Len(b) + 1] = v /\ \A j \in 1 .. Len(b) : More(b, v)[j] = b[j]
BY MoreAt

LEMMA BriefsMore ==
  ASSUME NEW m \in Headers, NEW m2 \in Headers, NEW ms \in Seq(Hdr), NEW x \in Hdr,
         \A g \in Elems(ms) : SameBrief(m, m2, g)
  PROVE  Briefs(m2, More(ms, x)) = Append(Briefs(m, ms), Brief(m2, x))
<1> DEFINE n == Len(ms)
           t == More(ms, x)
           b == Briefs(m, ms)
           c == Briefs(m2, t)
           v == Brief(m2, x)
<1>1. /\ n \in Nat /\ t \in Seq(Hdr) /\ Len(t) = n + 1
      /\ \A j \in 1 .. n + 1 : t[j] = IF j = n + 1 THEN x ELSE ms[j]
  BY MoreIs, SeqHas
<1>2. b \in Seq(Briefing) /\ Len(b) = n /\ \A i \in 1 .. n : b[i] = Brief(m, ms[i])
  BY BriefsAre
<1>3. c \in Seq(Briefing) /\ Len(c) = n + 1 /\ \A i \in 1 .. n + 1 : c[i] = Brief(m2, t[i])
  <2> HIDE DEF t
  <2> QED
    BY <1>1, BriefsAre
<1>4. v \in Briefing
  BY HeadersAre DEF Brief, Briefing
<1>5. ASSUME NEW i \in 1 .. n PROVE Brief(m2, ms[i]) = Brief(m, ms[i])
  <2>1. SameBrief(m, m2, ms[i])
    BY ElemIs
  <2> QED
    BY <2>1 DEF SameBrief, Brief
<1> HIDE DEF n, b, c, v, t
<1>6. Append(b, v) = More(b, v)
  BY <1>2, <1>4, AppendIs
<1> DEFINE e == More(b, v)
<1>7. e \in Seq(Briefing) /\ Len(e) = n + 1 /\ e[n + 1] = v /\ \A j \in 1 .. n : e[j] = b[j]
  BY <1>2, <1>4, MoreBriefings
<1> HIDE DEF e
<1>8. ASSUME NEW i \in 1 .. n + 1 PROVE c[i] = e[i]
  <2>1. CASE i = n + 1
    BY <1>1, <1>3, <1>7, <2>1 DEF v
  <2>2. CASE i # n + 1
    <3>1. i \in 1 .. n
      BY <1>1, <2>2
    <3>2. c[i] = Brief(m2, ms[i]) /\ e[i] = Brief(m, ms[i])
      BY <1>1, <1>2, <1>3, <1>7, <2>2, <3>1
    <3> QED
      BY <1>5, <3>1, <3>2
  <2> QED
    BY <2>1, <2>2
<1>9. c = e
  BY <1>3, <1>7, <1>8, SeqEqual
<1> QED
  BY <1>6, <1>9 DEF b, c, v, t, e

LEMMA BriefsLess ==
  ASSUME NEW m \in Headers, NEW m2 \in Headers, NEW ms \in Seq(Hdr), NEW i \in 1 .. Len(ms),
         \A g \in Elems(ms) : SameBrief(m, m2, g)
  PROVE  Briefs(m2, Less(ms, i)) = RemoveAt(Briefs(m, ms), i)
<1> DEFINE n == Len(ms)
           t == Less(ms, i)
           b == Briefs(m, ms)
           c == Briefs(m2, t)
<1>1. /\ n \in Nat /\ i \in 1 .. n /\ t \in Seq(Hdr) /\ Len(t) = n - 1
      /\ \A j \in 1 .. n - 1 : t[j] = IF j < i THEN ms[j] ELSE ms[j + 1]
  BY LessIs, SeqHas
<1>2. b \in Seq(Briefing) /\ Len(b) = n /\ \A j \in 1 .. n : b[j] = Brief(m, ms[j])
  BY BriefsAre
<1>3. c \in Seq(Briefing) /\ Len(c) = n - 1 /\ \A j \in 1 .. n - 1 : c[j] = Brief(m2, t[j])
  <2> HIDE DEF t
  <2> QED
    BY <1>1, BriefsAre
<1>4. ASSUME NEW j \in 1 .. n PROVE Brief(m2, ms[j]) = Brief(m, ms[j])
  <2>1. SameBrief(m, m2, ms[j])
    BY ElemIs
  <2> QED
    BY <2>1 DEF SameBrief, Brief
<1> HIDE DEF n, b, c, t
<1>5. RemoveAt(b, i) = Less(b, i)
  BY <1>1, <1>2, RemoveAtIs
<1> DEFINE e == Less(b, i)
<1>6. e \in Seq(Briefing) /\ Len(e) = n - 1 /\ \A j \in 1 .. n - 1 : e[j] = IF j < i THEN b[j] ELSE b[j + 1]
  BY <1>1, <1>2, LessIs
<1> HIDE DEF e
<1>7. ASSUME NEW j \in 1 .. n - 1 PROVE c[j] = e[j]
  <2>0. j \in 1 .. n /\ j + 1 \in 1 .. n
    BY <1>1
  <2>1. CASE j < i
    <3>1. c[j] = Brief(m2, ms[j]) /\ e[j] = Brief(m, ms[j])
      BY <1>1, <1>2, <1>3, <1>6, <2>0, <2>1
    <3> QED
      BY <1>4, <2>0, <3>1
  <2>2. CASE ~(j < i)
    <3>1. c[j] = Brief(m2, ms[j + 1]) /\ e[j] = Brief(m, ms[j + 1])
      BY <1>1, <1>2, <1>3, <1>6, <2>0, <2>2
    <3> QED
      BY <1>4, <2>0, <3>1
  <2> QED
    BY <2>1, <2>2
<1>8. c = e
  BY <1>3, <1>6, <1>7, SeqEqual
<1> QED
  BY <1>5, <1>8 DEF b, c, t, e

LEMMA BriefsNone ==
  ASSUME NEW m, NEW ms \in Seq(Hdr), Len(ms) = 0
  PROVE  Briefs(m, ms) = <<>>
<1>1. DOMAIN ms = {} /\ DOMAIN <<>> = {}
  OBVIOUS
<1>2. Briefs(m, ms) = [i \in {} |-> Brief(m, ms[i])] /\ <<>> = [i \in {} |-> Brief(m, ms[i])]
  BY <1>1 DEF Briefs
<1> QED
  BY <1>2

(* The bytes of a queue, and what is chosen from it.                       *)
LEMMA BytesIs ==
  ASSUME NEW m, NEW ms \in Seq(Hdr)
  PROVE  Queues!Bytes(Briefs(m, ms)) = Total(SizesOf(m, ms))
<1>1. \A f : Queues!Total(f) = Total(f)
  BY DEF Queues!Total, Total
<1>2. DOMAIN Briefs(m, ms) = DOMAIN ms /\ \A i \in DOMAIN ms : Briefs(m, ms)[i].size = m[ms[i]].ts
  BY DEF Briefs, Brief
<1>3. [i \in DOMAIN Briefs(m, ms) |-> Briefs(m, ms)[i].size] = SizesOf(m, ms)
  BY <1>2 DEF SizesOf
<1> QED
  BY <1>1, <1>3 DEF Queues!Bytes

LEMMA WantedIs ==
  ASSUME NEW m \in Headers, NEW h \in Hdr, NEW t \in Int
  PROVE  Queues!Wanted(t, Brief(m, h)) <=> Matches(t, m[h])
<1>1. Brief(m, h).type = m[h].type /\ m[h].type \in Nat
  BY HeadersAre DEF Brief
<1> QED
  BY <1>1 DEF Queues!Wanted, Matches

LEMMA ChosenIs ==
  ASSUME NEW m \in Headers, NEW ms \in Seq(Hdr), NEW t \in Int
  PROVE  /\ \A i : Picked(t, m, ms, i) => Queues!Chosen(Briefs(m, ms), t, i)
         /\ NoMatch(t, m, ms) => \A i \in DOMAIN Briefs(m, ms) : ~Queues!Chosen(Briefs(m, ms), t, i)
<1> DEFINE b == Briefs(m, ms)
           n == Len(ms)
<1>1. DOMAIN b = 1 .. n /\ \A i \in 1 .. n : b[i] = Brief(m, ms[i]) /\ ms[i] \in Hdr
  BY BriefsAre, SeqHas
<1> HIDE DEF b
<1>2. \A i \in 1 .. n : (Queues!Wanted(t, b[i]) <=> Matches(t, m[ms[i]])) /\ b[i].type = m[ms[i]].type
  <2>1. ASSUME NEW i \in 1 .. n
        PROVE  (Queues!Wanted(t, b[i]) <=> Matches(t, m[ms[i]])) /\ b[i].type = m[ms[i]].type
    <3>1. PICK h \in Hdr : h = ms[i]
      BY <1>1
    <3>2. b[i] = Brief(m, h)
      BY <1>1, <3>1
    <3>3. Queues!Wanted(t, Brief(m, h)) <=> Matches(t, m[h])
      BY WantedIs
    <3>4. Brief(m, h).type = m[h].type
      BY DEF Brief
    <3> QED
      BY <3>1, <3>2, <3>3, <3>4
  <2> QED
    BY <2>1
<1>3. ASSUME NEW i, Picked(t, m, ms, i) PROVE Queues!Chosen(b, t, i)
  BY <1>1, <1>2, <1>3 DEF Picked, Queues!Chosen
<1>4. ASSUME NoMatch(t, m, ms), NEW i \in 1 .. n PROVE ~Queues!Chosen(b, t, i)
  BY <1>1, <1>2, <1>4 DEF NoMatch, Queues!Chosen
<1> QED
  BY <1>1, <1>3, <1>4 DEF b
------------------------------------------------------------------------------
(* What a step makes of the queues.                                        *)
SameLive(que, que2) == \A t \in Slot : que2[t].alloc = que[t].alloc /\ que2[t].seq = que[t].seq
SameLimits(que, que2) == \A t \in Slot : que2[t].qbytes = que[t].qbytes
SameBriefs(m, m2, L, M, s) == \A t \in Slot : t # s => Briefs(m2, M[t]) = Briefs(m, L[t])

LEMMA LiveSame ==
  ASSUME NEW que, NEW que2, SameLive(que, que2)
  PROVE  LiveSet(que2) = LiveSet(que)
BY DEF SameLive, LiveSet

LEMMA LimitsSame ==
  ASSUME NEW que \in Msqids, NEW que2, LiveSet(que2) = LiveSet(que), SameLimits(que, que2)
  PROVE  LimitsOf(que2) = LimitsOf(que)
<1>1. ASSUME NEW id \in LiveSet(que) PROVE que2[SlotOf(id)].qbytes = que[SlotOf(id)].qbytes
  <2>1. SlotOf(id) \in Slot
    BY LiveSlots
  <2> QED
    BY <2>1 DEF SameLimits
<1> QED
  BY <1>1 DEF LimitsOf

LEMMA LimitsPut ==
  ASSUME NEW que \in Msqids, NEW que2, LiveSet(que2) = LiveSet(que), NEW id \in LiveSet(que),
         NEW s, s = SlotOf(id), Others(que, que2, s), NEW n, n = que2[s].qbytes
  PROVE  LimitsOf(que2) = [LimitsOf(que) EXCEPT ![id] = n]
<1>1. ASSUME NEW x \in LiveSet(que)
      PROVE  que2[SlotOf(x)].qbytes = IF x = id THEN n ELSE que[SlotOf(x)].qbytes
  <2>1. SlotOf(x) \in Slot /\ (SlotOf(x) = s => x = id)
    BY LiveSlots
  <2> QED
    BY <2>1 DEF Others
<1> QED
  BY <1>1 DEF LimitsOf

LEMMA QueuesPut ==
  ASSUME NEW que \in Msqids, NEW que2, LiveSet(que2) = LiveSet(que), NEW id \in LiveSet(que),
         NEW s, s = SlotOf(id), NEW m, NEW m2, NEW L, NEW M, SameBriefs(m, m2, L, M, s),
         NEW b, b = Briefs(m2, M[s])
  PROVE  QueuesOf(que2, m2, M) = [QueuesOf(que, m, L) EXCEPT ![id] = b]
<1>1. ASSUME NEW x \in LiveSet(que)
      PROVE  Briefs(m2, M[SlotOf(x)]) = IF x = id THEN b ELSE Briefs(m, L[SlotOf(x)])
  <2>1. SlotOf(x) \in Slot /\ (SlotOf(x) = s => x = id)
    BY LiveSlots
  <2> QED
    BY <2>1 DEF SameBriefs
<1> QED
  BY <1>1 DEF QueuesOf

(* What the abstract specification is told of a step that moves nothing.   *)
LEMMA QuietAbs ==
  ASSUME NEW L, Held(L), Held(L)', msgh' = msgh, SameLive(msgque, msgque'), SameLimits(msgque, msgque')
  PROVE  AbsQueue' = AbsQueue /\ AbsLimit' = AbsLimit /\ LiveIds' = LiveIds
<1>1. /\ LiveIds = LiveSet(msgque) /\ AbsLimit = LimitsOf(msgque)
      /\ AbsQueue = QueuesOf(msgque, msgh, L) /\ msgque \in Msqids
  BY AbsHere, HeldHas
<1>2. msgque' \in Msqids /\ Stored(msgque', msgh', msgfp', text', L)
  BY DEF Held
<1>3. /\ LiveIds' = LiveSet(msgque') /\ AbsLimit' = LimitsOf(msgque')
      /\ AbsQueue' = QueuesOf(msgque', msgh', L)
  BY <1>2, AbsThen
<1>4. LiveSet(msgque') = LiveSet(msgque)
  BY LiveSame
<1>5. LimitsOf(msgque') = LimitsOf(msgque)
  BY <1>1, <1>4, LimitsSame
<1>6. QueuesOf(msgque', msgh', L) = QueuesOf(msgque, msgh, L)
  BY <1>4 DEF QueuesOf
<1> QED
  BY <1>1, <1>3, <1>4, <1>5, <1>6

LEMMA LiveHere ==
  ASSUME NEW L, Held(L), NEW c \in Call, Live(c.id)
  PROVE  c.id \in LiveIds
<1>1. c.id \in Nat /\ msgque \in Msqids
  BY CallHas, HeldHas
<1>2. InLive(msgque, c.id)
  BY <1>1 DEF InLive, Live
<1>3. c.id \in LiveSet(msgque) /\ LiveIds = LiveSet(msgque)
  BY <1>1, <1>2, LiveSetIs, AbsHere
<1> QED
  BY <1>3

(* The abstract actions.                                                   *)
Asking(p, c) == frame[p] \in {NoCall, c}

LEMMA AsReturn ==
  ASSUME NEW p, AbsQueue' = AbsQueue, AbsLimit' = AbsLimit, frame' = [frame EXCEPT ![p] = NoCall]
  PROVE  Queues!Return(p)
BY DEF Queues!Return, Queues!Answered, AbsQueue, AbsLimit

LEMMA AsWait ==
  ASSUME NEW p, NEW c, Asking(p, c), c.id \in LiveIds,
         Receives(c) => \A i \in DOMAIN AbsQueue[c.id] : ~Queues!Chosen(AbsQueue[c.id], c.type, i),
         AbsQueue' = AbsQueue, AbsLimit' = AbsLimit, frame' = [frame EXCEPT ![p] = c]
  PROVE  Queues!Wait(p, c)
BY DEF Queues!Wait, Queues!Asks, AbsQueue, AbsLimit, Asking, Receives

LEMMA AsSend ==
  ASSUME NEW p, NEW c, Asking(p, c), c.id \in LiveIds, Sends(c),
         Queues!Bytes(AbsQueue[c.id]) + c.msg[1] <= AbsLimit[c.id],
         AbsQueue' = [AbsQueue EXCEPT ![c.id] = Append(AbsQueue[c.id], [type |-> c.msg[2], size |-> c.msg[1]])],
         AbsLimit' = AbsLimit, frame' = [frame EXCEPT ![p] = NoCall]
  PROVE  Queues!Send(p, c)
BY DEF Queues!Send, Queues!Asks, Queues!Answered, AbsQueue, AbsLimit, Asking, Sends

LEMMA AsReceive ==
  ASSUME NEW p, NEW c, Asking(p, c), c.id \in LiveIds, Receives(c),
         NEW i \in DOMAIN AbsQueue[c.id], Queues!Chosen(AbsQueue[c.id], c.type, i),
         AbsQueue' = [AbsQueue EXCEPT ![c.id] = RemoveAt(AbsQueue[c.id], i)],
         AbsLimit' = AbsLimit, frame' = [frame EXCEPT ![p] = NoCall]
  PROVE  Queues!Receive(p, c)
<1>1. \E j \in DOMAIN AbsQueue[c.id] :
        /\ Queues!Chosen(AbsQueue[c.id], c.type, j)
        /\ AbsQueue' = [AbsQueue EXCEPT ![c.id] = RemoveAt(AbsQueue[c.id], j)]
  OBVIOUS
<1>2. c.op = "receive" /\ frame[p] \in {NoCall, c} /\ c.id \in DOMAIN AbsQueue
  BY DEF Receives, Asking, AbsQueue
<1>3. AbsLimit' = AbsLimit
  OBVIOUS
<1> QED
  BY Zenon, <1>1, <1>2, <1>3 DEF Queues!Receive, Queues!Asks, Queues!Answered, AbsQueue, AbsLimit, Queues!RemoveAt, RemoveAt

LEMMA AsCreate ==
  ASSUME NEW id, NEW n, id \notin LiveIds,
         AbsQueue' = Queues!With(AbsQueue, id, <<>>), AbsLimit' = Queues!With(AbsLimit, id, n), frame' = frame
  PROVE  Queues!Create(id, n)
BY DEF Queues!Create, AbsQueue, AbsLimit

LEMMA AsDiscard ==
  ASSUME NEW id, AbsQueue' = Queues!Without(AbsQueue, id), AbsLimit' = Queues!Without(AbsLimit, id), frame' = frame
  PROVE  Queues!Discard(id)
BY DEF Queues!Discard, AbsQueue, AbsLimit

LEMMA AsSetLimit ==
  ASSUME NEW id, NEW n, AbsQueue' = AbsQueue, AbsLimit' = [AbsLimit EXCEPT ![id] = n], frame' = frame
  PROVE  Queues!SetLimit(id, n)
BY DEF Queues!SetLimit, AbsQueue, AbsLimit
------------------------------------------------------------------------------
(* Each action is one of the abstract ones, or changes nothing there.      *)
LEMMA FlagSteady ==
  ASSUME NEW que \in Msqids, NEW s \in Slot, NEW que2, NEW r, PutIn(que, que2, s, r),
         r.alloc = que[s].alloc, r.seq = que[s].seq, r.qbytes = que[s].qbytes
  PROVE  SameLive(que, que2) /\ SameLimits(que, que2)
BY DEF PutIn, Others, SameLive, SameLimits

LEMMA SteadySame ==
  ASSUME NEW que
  PROVE  SameLive(que, que) /\ SameLimits(que, que)
BY DEF SameLive, SameLimits

LEMMA AbsAt ==
  ASSUME NEW L, Held(L), NEW id \in LiveIds
  PROVE  AbsQueue[id] = Briefs(msgh, L[SlotOf(id)]) /\ AbsLimit[id] = msgque[SlotOf(id)].qbytes
<1>1. /\ LiveIds = LiveSet(msgque) /\ AbsLimit = LimitsOf(msgque)
      /\ AbsQueue = QueuesOf(msgque, msgh, L)
  BY AbsHere
<1> QED
  BY <1>1 DEF QueuesOf, LimitsOf

LEMMA WaitActs ==
  ASSUME NEW L, Held(L), Held(L)', NEW p \in Proc, NEW c \in Call, Asking(p, c), Live(c.id),
         NEW on, Sleeps(p, c, on), msgh' = msgh, SameLive(msgque, msgque'), SameLimits(msgque, msgque'),
         Receives(c) => NoMatch(c.type, msgh, L[SlotFor(c)])
  PROVE  Queues!Wait(p, c)
<1>1. AbsQueue' = AbsQueue /\ AbsLimit' = AbsLimit
  BY QuietAbs
<1>2. c.id \in LiveIds
  BY LiveHere
<1>3. frame' = [frame EXCEPT ![p] = c]
  BY DEF Sleeps
<1>4. ASSUME Receives(c)
      PROVE  \A i \in DOMAIN AbsQueue[c.id] : ~Queues!Chosen(AbsQueue[c.id], c.type, i)
  <2>1. PICK ms : ms = L[SlotFor(c)]
    OBVIOUS
  <2>2. NoMatch(c.type, msgh, ms) /\ c.type \in Int
    BY <1>4, <2>1, CallHas
  <2>3. ms \in Seq(Hdr) /\ msgh \in Headers
    <3>1. Partition(L) /\ SlotFor(c) \in Lines
      BY HeldHas, SlotForIs, LinesAre DEF Stored
    <3> QED
      BY <2>1, <3>1, Elsewhere, HeldHas
  <2>4. AbsQueue[c.id] = Briefs(msgh, ms)
    BY <1>2, <2>1, AbsAt DEF SlotFor
  <2>5. \A i \in DOMAIN Briefs(msgh, ms) : ~Queues!Chosen(Briefs(msgh, ms), c.type, i)
    BY <2>2, <2>3, ChosenIs
  <2> QED
    BY <2>4, <2>5
<1> QED
  BY <1>1, <1>2, <1>3, <1>4, AsWait

LEMMA ReturnActs ==
  ASSUME NEW L, Held(L), Held(L)', NEW p \in Proc, NEW P, Returns(p, P), msgh' = msgh,
         SameLive(msgque, msgque'), SameLimits(msgque, msgque')
  PROVE  Queues!Return(p)
<1>1. AbsQueue' = AbsQueue /\ AbsLimit' = AbsLimit
  BY QuietAbs
<1>2. frame' = [frame EXCEPT ![p] = NoCall]
  BY DEF Returns
<1> QED
  BY <1>1, <1>2, AsReturn

LEMMA WaitForRoomActs ==
  ASSUME NEW L, Held(L), NEW p \in Proc, NEW c \in Call, Asking(p, c), WaitForRoom(p, c)
  PROVE  Queues!Wait(p, c)
<1>1. PICK s \in Slot : s = SlotFor(c)
  BY SlotForIs
<1>2. PICK q \in Msqid : q = msgque[s]
  BY HeldHas, MsqidsAre
<1>3. PICK r : r = [q EXCEPT !.wwait = TRUE]
  OBVIOUS
<1>4. WwaitSet(q, r)
  BY <1>3, WwaitOn
<1>5. msgque' = Put(msgque, s, r) /\ msgh' = msgh /\ Sleeps(p, c, AtRoom) /\ Live(c.id) /\ Sends(c)
  BY <1>1, <1>2, <1>3 DEF WaitForRoom, Put, SlotFor, AtRoom, Sends
<1>6. SameLive(msgque, msgque') /\ SameLimits(msgque, msgque')
  <2>1. r \in Msqid /\ r.alloc = q.alloc /\ r.seq = q.seq /\ r.qbytes = q.qbytes
    BY <1>4 DEF WwaitSet, SameList
  <2>2. PutIn(msgque, msgque', s, r)
    BY <1>5, <2>1, HeldHas, QueueSet
  <2> QED
    BY <1>2, <2>1, <2>2, HeldHas, FlagSteady
<1>7. Held(L)'
  BY WaitForRoomKeeps
<1>8. ~Receives(c)
  BY <1>5 DEF Sends, Receives
<1> QED
  BY <1>5, <1>6, <1>7, <1>8, WaitActs

LEMMA WaitForMessageActs ==
  ASSUME NEW L, Held(L), NEW p \in Proc, NEW c \in Call, Asking(p, c), WaitForMessage(p, c)
  PROVE  Queues!Wait(p, c)
<1>1. PICK s \in Slot : s = SlotFor(c)
  BY SlotForIs
<1>2. PICK q \in Msqid : q = msgque[s]
  BY HeldHas, MsqidsAre
<1>3. PICK r : r = [q EXCEPT !.rwait = TRUE]
  OBVIOUS
<1>4. RwaitSet(q, r)
  BY <1>3, RwaitOn
<1>5. /\ msgque' = Put(msgque, s, r) /\ msgh' = msgh /\ Sleeps(p, c, AtMessage) /\ Live(c.id)
      /\ Receives(c) /\ Found(c) = 0
  BY <1>1, <1>2, <1>3 DEF WaitForMessage, Put, SlotFor, AtMessage, Receives
<1>6. SameLive(msgque, msgque') /\ SameLimits(msgque, msgque')
  <2>1. r \in Msqid /\ r.alloc = q.alloc /\ r.seq = q.seq /\ r.qbytes = q.qbytes
    BY <1>4 DEF RwaitSet, SameList
  <2>2. PutIn(msgque, msgque', s, r)
    BY <1>5, <2>1, HeldHas, QueueSet
  <2> QED
    BY <1>2, <2>1, <2>2, HeldHas, FlagSteady
<1>7. Held(L)'
  BY WaitForMessageKeeps
<1>8. NoMatch(c.type, msgh, L[SlotFor(c)])
  BY <1>5, FoundHere
<1> QED
  BY <1>5, <1>6, <1>7, <1>8, WaitActs

LEMMA WaitForHeaderActs ==
  ASSUME NEW L, Held(L), NEW p \in Proc, NEW c \in Call, Asking(p, c), WaitForHeader(p, c)
  PROVE  Queues!Wait(p, c)
<1>1. msgque' = msgque /\ msgh' = msgh /\ Sleeps(p, c, AtHeader) /\ Live(c.id) /\ Sends(c)
  BY DEF WaitForHeader, store, AtHeader, Sends
<1>2. SameLive(msgque, msgque') /\ SameLimits(msgque, msgque')
  BY <1>1, SteadySame
<1>3. Held(L)'
  BY WaitForHeaderKeeps
<1>4. ~Receives(c)
  BY <1>1 DEF Sends, Receives
<1> QED
  BY <1>1, <1>2, <1>3, <1>4, WaitActs

LEMMA WaitForTextActs ==
  ASSUME NEW L, Held(L), NEW p \in Proc, NEW c \in Call, Asking(p, c), WaitForText(p, c)
  PROVE  Queues!Wait(p, c)
<1>1. msgque' = msgque /\ msgh' = msgh /\ Sleeps(p, c, AtText) /\ Live(c.id) /\ Sends(c)
  BY DEF WaitForText, AtText, Sends
<1>2. SameLive(msgque, msgque') /\ SameLimits(msgque, msgque')
  BY <1>1, SteadySame
<1>3. Held(L)'
  BY WaitForTextKeeps
<1>4. ~Receives(c)
  BY <1>1 DEF Sends, Receives
<1> QED
  BY <1>1, <1>2, <1>3, <1>4, WaitActs

LEMMA SendFaultActs ==
  ASSUME NEW L, Held(L), NEW p \in Proc, NEW c \in Call, SendFault(p, c)
  PROVE  Queues!Return(p)
<1>1. PICK P : P = IF want THEN AllOf("text") ELSE {}
  OBVIOUS
<1>2. msgque' = msgque /\ msgh' = msgh /\ Returns(p, P)
  BY <1>1 DEF SendFault
<1>3. SameLive(msgque, msgque') /\ SameLimits(msgque, msgque')
  BY <1>2, SteadySame
<1>4. Held(L)'
  BY SendFaultKeeps
<1> QED
  BY <1>2, <1>3, <1>4, ReturnActs

LEMMA QuietActs ==
  ASSUME NEW L, Held(L), NEW p \in Proc, Returns(p, {}), UNCHANGED <<store, raised>>
  PROVE  Queues!Return(p)
<1>1. PICK P : P = {}
  OBVIOUS
<1>2. msgque' = msgque /\ msgh' = msgh /\ Returns(p, P)
  BY <1>1 DEF store
<1>3. SameLive(msgque, msgque') /\ SameLimits(msgque, msgque')
  BY <1>2, SteadySame
<1>4. Held(L)'
  BY QuietKeeps
<1> QED
  BY <1>2, <1>3, <1>4, ReturnActs

LEMMA InterruptedInRoomActs ==
  ASSUME NEW L, Held(L), NEW p \in Proc, InterruptedInRoom(p)
  PROVE  Queues!Return(p)
<1>1. PICK s : s = SlotFor(frame[p])
  OBVIOUS
<1>2. s \in Slot
  <2>1. pc[p] = AtRoom
    BY DEF InterruptedInRoom, AtRoom
  <2>2. frame[p] \in Call
    BY <2>1, HeldHas, Places DEF Calls, CallOK
  <2> QED
    BY <1>1, <2>2, SlotForIs
<1>3. PICK q \in Msqid : q = msgque[s]
  BY <1>2, HeldHas, MsqidsAre
<1>4. PICK r : r = [q EXCEPT !.wwait = FALSE]
  OBVIOUS
<1>5. PICK P : P = InQueue("room", s)
  OBVIOUS
<1>6. msgque' = Put(msgque, s, r) /\ msgh' = msgh /\ Returns(p, P)
  BY <1>1, <1>3, <1>4, <1>5 DEF InterruptedInRoom, Put, SlotFor
<1>7. SameLive(msgque, msgque') /\ SameLimits(msgque, msgque')
  <2>1. r \in Msqid /\ r.alloc = q.alloc /\ r.seq = q.seq /\ r.qbytes = q.qbytes
    BY <1>4, WwaitOff DEF WwaitClear, SameList
  <2>2. PutIn(msgque, msgque', s, r)
    BY <1>2, <1>6, <2>1, HeldHas, QueueSet
  <2> QED
    BY <1>2, <1>3, <2>1, <2>2, HeldHas, FlagSteady
<1>8. Held(L)'
  BY InterruptedInRoomKeeps
<1> QED
  BY <1>6, <1>7, <1>8, ReturnActs
LEMMA SendActs ==
  ASSUME NEW L, Held(L), NEW p \in Proc, NEW c \in Call, Asking(p, c), Send(p, c)
  PROVE  Queues!Send(p, c)
<1>1. PICK s : s = SlotFor(c)
  OBVIOUS
<1>2. PICK q : q = msgque[s]
  OBVIOUS
<1>3. PICK M : Moved(L, M, s, More(L[s], msgfp), Less(L[MSGMNI], 1))
  BY MovedExists
<1>4. PICK r : r = SentQueue(q, c.msg[1], msgfp)
  OBVIOUS
<1>5. /\ s \in Slot /\ q \in Msqid /\ Fits(q, c) /\ Sends(c) /\ c.msg[1] \in Nat
      /\ msgfp \in Hdr /\ msgfp # 0
      /\ PutIn(msgque, msgque', s, r)
      /\ SentDone(q, c.msg[1], msgfp, r)
      /\ AsPlaced(msgh, q.last, msgfp, NewMessage(c), msgh')
      /\ Stored(msgque', msgh', msgfp', text', M)
      /\ c.msg[1] + q.cbytes <= q.qbytes
  BY <1>1, <1>2, <1>3, <1>4, SendIs
<1>6. /\ msgque \in Msqids /\ msgh \in Headers /\ Stored(msgque, msgh, msgfp, text, L)
      /\ msgque' \in Msqids /\ msgh' \in Headers
  BY <1>5, HeldHas DEF PutIn, AsPlaced
<1>7. Partition(L) /\ s \in Lines /\ MSGMNI \in Lines /\ s # MSGMNI
  BY <1>5, <1>6, LinesAre DEF Stored
<1>8. c.id \in LiveIds /\ s = SlotOf(c.id)
  <2>1. Live(c.id)
    BY <1>1, <1>2, <1>5, LiveIs
  <2> QED
    BY <1>1, <2>1, LiveHere DEF SlotFor
<1>9. SameLive(msgque, msgque') /\ SameLimits(msgque, msgque')
  <2>1. r.alloc = q.alloc /\ r.seq = q.seq /\ r.qbytes = q.qbytes
    BY <1>5 DEF SentDone
  <2> QED
    BY <1>2, <1>5, <1>6, <2>1, FlagSteady
<1>10. ASSUME NEW t \in Slot, NEW g \in Elems(L[t]) PROVE SameBrief(msgh, msgh', g)
  <2>1. g \in Hdr /\ g \notin Elems(L[MSGMNI])
    BY <1>7, <1>10, LinesAre, Elsewhere
  <2>2. msgfp \in Elems(L[MSGMNI])
    <3>1. Chain(msgh, msgfp, L[MSGMNI])
      BY <1>6 DEF Stored
    <3>2. 1 \in 1 .. Len(L[MSGMNI]) /\ msgfp = L[MSGMNI][1]
      BY <1>5, <3>1, ChainHas
    <3> QED
      BY <3>2, ElemIs
  <2> QED
    BY <1>5, <2>1, <2>2 DEF AsPlaced, SameBrief
<1>11. SameBriefs(msgh, msgh', L, M, s)
  <2>1. ASSUME NEW t \in Slot, t # s PROVE Briefs(msgh', M[t]) = Briefs(msgh, L[t])
    <3>1. M[t] = L[t] /\ L[t] \in Seq(Hdr)
      BY <1>3, <1>5, <1>7, <2>1, MovedOther, LinesAre, Elsewhere
    <3>2. Briefs(msgh', L[t]) = Briefs(msgh, L[t])
      BY <1>10, <3>1, BriefsKeep
    <3> QED
      BY <3>1, <3>2
  <2> QED
    BY <2>1 DEF SameBriefs
<1>12. PICK b : b = Briefs(msgh', M[s])
  OBVIOUS
<1>13. L[s] \in Seq(Hdr)
  BY <1>7, Elsewhere
<1>14. b = Append(Briefs(msgh, L[s]), [type |-> c.msg[2], size |-> c.msg[1]])
  <2>1. M[s] = More(L[s], msgfp)
    BY <1>3, <1>7 DEF Moved, Swapped, Partition
  <2>2. Briefs(msgh', More(L[s], msgfp)) = Append(Briefs(msgh, L[s]), Brief(msgh', msgfp))
    BY <1>5, <1>6, <1>10, <1>13, BriefsMore
  <2>3. msgh'[msgfp] = NewMessage(c)
    BY <1>5 DEF AsPlaced
  <2>4. Brief(msgh', msgfp) = [type |-> c.msg[2], size |-> c.msg[1]]
    BY <2>3 DEF Brief, NewMessage
  <2> QED
    BY <1>12, <2>1, <2>2, <2>4
<1>15. /\ LiveIds = LiveSet(msgque) /\ AbsLimit = LimitsOf(msgque)
       /\ AbsQueue = QueuesOf(msgque, msgh, L)
       /\ AbsLimit' = LimitsOf(msgque') /\ AbsQueue' = QueuesOf(msgque', msgh', M)
  BY <1>5, <1>6, AbsHere, AbsThen
<1>16. LiveSet(msgque') = LiveSet(msgque)
  BY <1>9, LiveSame
<1>17. AbsLimit' = AbsLimit
  BY <1>6, <1>9, <1>15, <1>16, LimitsSame
<1>18. AbsQueue' = [AbsQueue EXCEPT ![c.id] = b]
  BY <1>6, <1>8, <1>11, <1>12, <1>15, <1>16, QueuesPut
<1>19. AbsQueue[c.id] = Briefs(msgh, L[s]) /\ AbsLimit[c.id] = q.qbytes
  BY <1>2, <1>8, AbsAt
<1>20. Queues!Bytes(AbsQueue[c.id]) + c.msg[1] <= AbsLimit[c.id]
  <2>1. Queues!Bytes(Briefs(msgh, L[s])) = Total(SizesOf(msgh, L[s]))
    BY <1>13, BytesIs
  <2>2. q.cbytes = Total(SizesOf(msgh, L[s]))
    BY <1>2, <1>5, <1>6 DEF Stored, QueueOK
  <2>3. q.cbytes \in Int
    BY <1>5, MsqidHas
  <2> QED
    BY <1>5, <1>19, <2>1, <2>2, <2>3
<1>21. frame' = [frame EXCEPT ![p] = NoCall]
  BY DEF Send, Returns
<1>22. AbsQueue' = [AbsQueue EXCEPT ![c.id] = Append(AbsQueue[c.id], [type |-> c.msg[2], size |-> c.msg[1]])]
  BY <1>14, <1>18, <1>19
<1> QED
  BY <1>5, <1>8, <1>17, <1>20, <1>21, <1>22, AsSend

LEMMA ReceiveActs ==
  ASSUME NEW L, Held(L), NEW p \in Proc, NEW c \in Call, Asking(p, c), Receive(p, c)
  PROVE  Queues!Receive(p, c)
<1>1. PICK s : s = SlotFor(c)
  OBVIOUS
<1>2. PICK q : q = msgque[s]
  OBVIOUS
<1>3. PICK i : i = Found(c)
  OBVIOUS
<1>4. PICK mp : mp = L[s][i]
  OBVIOUS
<1>5. PICK pmp : pmp = Behind(L[s], i)
  OBVIOUS
<1>6. PICK M : Moved(L, M, s, Less(L[s], i), Push(mp, L[MSGMNI]))
  BY MovedExists
<1>7. PICK r : r = Received(q, msgh[mp].ts, mp, pmp)
  OBVIOUS
<1>8. ReceivedAll(L, M, p, c, s, q, i, mp, pmp, r)
  BY <1>1, <1>2, <1>3, <1>4, <1>5, <1>6, <1>7, ReceiveIs
<1>9. /\ s \in Slot /\ q \in Msqid /\ Fits(q, c) /\ Receives(c)
      /\ i \in 1 .. Len(L[s]) /\ Picked(c.type, msgh, L[s], i) /\ mp \in Hdr
      /\ PutIn(msgque, msgque', s, r)
      /\ ReceivedDone(msgh, q, msgh[mp].ts, mp, pmp, r)
      /\ AsUnlinked(msgh, mp, pmp, msgfp, msgh')
      /\ Stored(msgque', msgh', msgfp', text', M)
      /\ Returns(p, FreedFor(s, {mp}))
  BY <1>8 DEF ReceivedAll
<1>10. /\ msgque \in Msqids /\ msgh \in Headers /\ Stored(msgque, msgh, msgfp, text, L)
       /\ msgque' \in Msqids /\ msgh' \in Headers
  BY <1>9, HeldHas DEF PutIn, AsUnlinked
<1>11. Partition(L) /\ s \in Lines /\ MSGMNI \in Lines /\ s # MSGMNI
  BY <1>9, <1>10, LinesAre DEF Stored
<1>12. c.id \in LiveIds /\ s = SlotOf(c.id)
  <2>1. Live(c.id)
    BY <1>1, <1>2, <1>9, LiveIs
  <2> QED
    BY <1>1, <2>1, LiveHere DEF SlotFor
<1>13. SameLive(msgque, msgque') /\ SameLimits(msgque, msgque')
  <2>1. r.alloc = q.alloc /\ r.seq = q.seq /\ r.qbytes = q.qbytes
    BY <1>9 DEF ReceivedDone
  <2> QED
    BY <1>2, <1>9, <1>10, <2>1, FlagSteady
<1>14. ASSUME NEW t \in Slot, NEW g \in Elems(L[t]) PROVE SameBrief(msgh, msgh', g)
  <2>1. g \in Hdr
    BY <1>11, <1>14, LinesAre, Elsewhere
  <2> QED
    BY <1>9, <2>1 DEF AsUnlinked, SameBrief
<1>15. SameBriefs(msgh, msgh', L, M, s)
  <2>1. ASSUME NEW t \in Slot, t # s PROVE Briefs(msgh', M[t]) = Briefs(msgh, L[t])
    <3>1. M[t] = L[t] /\ L[t] \in Seq(Hdr)
      BY <1>6, <1>9, <1>11, <2>1, MovedOther, LinesAre, Elsewhere
    <3>2. Briefs(msgh', L[t]) = Briefs(msgh, L[t])
      BY <1>14, <3>1, BriefsKeep
    <3> QED
      BY <3>1, <3>2
  <2> QED
    BY <2>1 DEF SameBriefs
<1>16. PICK b : b = Briefs(msgh', M[s])
  OBVIOUS
<1>17. PICK ms : ms = L[s]
  OBVIOUS
<1>18. ms \in Seq(Hdr) /\ i \in 1 .. Len(ms) /\ c.type \in Int /\ \A g \in Elems(ms) : SameBrief(msgh, msgh', g)
  BY <1>9, <1>11, <1>14, <1>17, Elsewhere, CallHas
<1>19. b = RemoveAt(Briefs(msgh, ms), i)
  <2>1. M[s] = Less(ms, i)
    BY <1>6, <1>11, <1>17 DEF Moved, Swapped, Partition
  <2>2. Briefs(msgh', Less(ms, i)) = RemoveAt(Briefs(msgh, ms), i)
    BY <1>10, <1>18, BriefsLess
  <2> QED
    BY <1>16, <2>1, <2>2
<1>20. /\ LiveIds = LiveSet(msgque) /\ AbsLimit = LimitsOf(msgque)
       /\ AbsQueue = QueuesOf(msgque, msgh, L)
       /\ AbsLimit' = LimitsOf(msgque') /\ AbsQueue' = QueuesOf(msgque', msgh', M)
  BY <1>9, <1>10, AbsHere, AbsThen
<1>21. LiveSet(msgque') = LiveSet(msgque)
  BY <1>13, LiveSame
<1>22. AbsLimit' = AbsLimit
  BY <1>10, <1>13, <1>20, <1>21, LimitsSame
<1>23. AbsQueue' = [AbsQueue EXCEPT ![c.id] = b]
  BY <1>10, <1>12, <1>15, <1>16, <1>20, <1>21, QueuesPut
<1>24. AbsQueue[c.id] = Briefs(msgh, ms)
  BY <1>12, <1>17, AbsAt
<1>25. i \in DOMAIN AbsQueue[c.id] /\ Queues!Chosen(AbsQueue[c.id], c.type, i)
  <2>1. DOMAIN Briefs(msgh, ms) = 1 .. Len(ms)
    BY <1>10, <1>18, BriefsAre
  <2>2. Picked(c.type, msgh, ms, i)
    BY <1>9, <1>17
  <2>3. Queues!Chosen(Briefs(msgh, ms), c.type, i)
    BY <1>10, <1>18, <2>2, ChosenIs
  <2> QED
    BY <1>18, <1>24, <2>1, <2>3
<1>26. frame' = [frame EXCEPT ![p] = NoCall]
  BY <1>9 DEF Returns
<1>27. AbsQueue' = [AbsQueue EXCEPT ![c.id] = RemoveAt(AbsQueue[c.id], i)]
  BY <1>19, <1>23, <1>24
<1> QED
  BY <1>9, <1>12, <1>22, <1>25, <1>26, <1>27, AsReceive

(* An identifier comes or goes.                                            *)
IdAt(que, s) == que[s].seq * MSGMNI + s

LEMMA LiveMore ==
  ASSUME NEW que \in Msqids, NEW que2 \in Msqids, NEW s \in Slot, ~que[s].alloc, que2[s].alloc,
         Others(que, que2, s), NEW id, id = IdAt(que2, s)
  PROVE  /\ LiveSet(que2) = LiveSet(que) \cup {id} /\ id \notin LiveSet(que) /\ SlotOf(id) = s
         /\ \A x \in LiveSet(que) : SlotOf(x) \in Slot /\ SlotOf(x) # s
<1>1. id \in LiveSet(que2)
  BY DEF LiveSet, IdAt
<1>2. SlotOf(id) = s
  <2>1. que2[s].seq \in Seqno
    BY MsqidsAre, MsqidHas
  <2>2. que2[s].seq \in Nat
    BY <2>1 DEF Seqno
  <2> QED
    BY <2>2, IdIs DEF IdAt
<1>3. ASSUME NEW x \in LiveSet(que) PROVE SlotOf(x) \in Slot /\ SlotOf(x) # s
  BY LiveSlots
<1>4. LiveSet(que2) = LiveSet(que) \cup {id}
  BY DEF LiveSet, Others, IdAt
<1> QED
  BY <1>1, <1>2, <1>3, <1>4

LEMMA IdIn ==
  ASSUME NEW s \in Slot, NEW q \in Seqno
  PROVE  q * MSGMNI + s \in Id
<1>1. PICK N \in Nat \ {0} : N = MSGMNI
  BY Constants
<1>2. PICK b \in Int : b = MaxSeq + 1
  BY Constants
<1>3. q \in Int /\ q < b /\ q \in Nat
  BY <1>2, Constants DEF Seqno
<1>4. q * N + N =< b * N
  BY <1>3, Multiples
<1>5. q * N \in Nat /\ b * N \in Int /\ s \in 0 .. N - 1
  BY <1>1, <1>3 DEF Slot
<1>6. q * N + s \in 0 .. b * N - 1
  BY <1>4, <1>5
<1>7. b * N = N * b
  BY <1>1
<1> QED
  BY <1>1, <1>2, <1>6, <1>7 DEF Id

(* What is there more, or less, by one identifier.                         *)
LEMMA LimitsWith ==
  ASSUME NEW que, NEW que2, NEW id, NEW s, SlotOf(id) = s, NEW n, n = que2[s].qbytes,
         LiveSet(que2) = LiveSet(que) \cup {id},
         \A x \in LiveSet(que) : SlotOf(x) \in Slot /\ SlotOf(x) # s, Others(que, que2, s)
  PROVE  LimitsOf(que2) = Queues!With(LimitsOf(que), id, n)
<1>1. ASSUME NEW x \in LiveSet(que2)
      PROVE  que2[SlotOf(x)].qbytes = IF x = id THEN n ELSE LimitsOf(que)[x]
  <2>1. CASE x = id
    BY <2>1
  <2>2. CASE x # id
    <3>1. x \in LiveSet(que) /\ que2[SlotOf(x)] = que[SlotOf(x)]
      BY <2>2 DEF Others
    <3> QED
      BY <2>2, <3>1 DEF LimitsOf
  <2> QED
    BY <2>1, <2>2
<1>2. DOMAIN LimitsOf(que) \cup {id} = LiveSet(que2)
  BY DEF LimitsOf
<1>3. LimitsOf(que2) = [x \in LiveSet(que2) |-> que2[SlotOf(x)].qbytes]
  BY DEF LimitsOf
<1>4. Queues!With(LimitsOf(que), id, n) = [x \in LiveSet(que2) |-> IF x = id THEN n ELSE LimitsOf(que)[x]]
  BY <1>2 DEF Queues!With
<1> QED
  BY <1>1, <1>3, <1>4

LEMMA QueuesWith ==
  ASSUME NEW que, NEW que2, NEW id, NEW s, SlotOf(id) = s, NEW m, NEW m2, NEW L, NEW M,
         NEW b, b = Briefs(m2, M[s]), LiveSet(que2) = LiveSet(que) \cup {id},
         \A x \in LiveSet(que) : SlotOf(x) \in Slot /\ SlotOf(x) # s, SameBriefs(m, m2, L, M, s)
  PROVE  QueuesOf(que2, m2, M) = Queues!With(QueuesOf(que, m, L), id, b)
<1>1. ASSUME NEW x \in LiveSet(que2)
      PROVE  Briefs(m2, M[SlotOf(x)]) = IF x = id THEN b ELSE QueuesOf(que, m, L)[x]
  <2>1. CASE x = id
    BY <2>1
  <2>2. CASE x # id
    <3>1. x \in LiveSet(que) /\ Briefs(m2, M[SlotOf(x)]) = Briefs(m, L[SlotOf(x)])
      BY <2>2 DEF SameBriefs
    <3> QED
      BY <2>2, <3>1 DEF QueuesOf
  <2> QED
    BY <2>1, <2>2
<1>2. DOMAIN QueuesOf(que, m, L) \cup {id} = LiveSet(que2)
  BY DEF QueuesOf
<1>3. QueuesOf(que2, m2, M) = [x \in LiveSet(que2) |-> Briefs(m2, M[SlotOf(x)])]
  BY DEF QueuesOf
<1>4. Queues!With(QueuesOf(que, m, L), id, b)
        = [x \in LiveSet(que2) |-> IF x = id THEN b ELSE QueuesOf(que, m, L)[x]]
  BY <1>2 DEF Queues!With
<1> QED
  BY <1>1, <1>3, <1>4

LEMMA LimitsWithout ==
  ASSUME NEW que, NEW que2, NEW id, id \notin LiveSet(que2), NEW s,
         LiveSet(que) = LiveSet(que2) \cup {id},
         \A x \in LiveSet(que2) : SlotOf(x) \in Slot /\ SlotOf(x) # s, Others(que, que2, s)
  PROVE  LimitsOf(que2) = Queues!Without(LimitsOf(que), id)
<1>1. ASSUME NEW x \in LiveSet(que2) PROVE que2[SlotOf(x)].qbytes = LimitsOf(que)[x]
  BY DEF Others, LimitsOf
<1>2. DOMAIN LimitsOf(que) \ {id} = LiveSet(que2)
  BY DEF LimitsOf
<1>3. LimitsOf(que2) = [x \in LiveSet(que2) |-> que2[SlotOf(x)].qbytes]
  BY DEF LimitsOf
<1>4. Queues!Without(LimitsOf(que), id) = [x \in LiveSet(que2) |-> LimitsOf(que)[x]]
  BY <1>2 DEF Queues!Without
<1> QED
  BY <1>1, <1>3, <1>4

LEMMA QueuesWithout ==
  ASSUME NEW que, NEW que2, NEW id, id \notin LiveSet(que2), NEW s, NEW m, NEW m2, NEW L, NEW M,
         LiveSet(que) = LiveSet(que2) \cup {id},
         \A x \in LiveSet(que2) : SlotOf(x) \in Slot /\ SlotOf(x) # s, SameBriefs(m, m2, L, M, s)
  PROVE  QueuesOf(que2, m2, M) = Queues!Without(QueuesOf(que, m, L), id)
<1>1. ASSUME NEW x \in LiveSet(que2) PROVE Briefs(m2, M[SlotOf(x)]) = QueuesOf(que, m, L)[x]
  BY DEF SameBriefs, QueuesOf
<1>2. DOMAIN QueuesOf(que, m, L) \ {id} = LiveSet(que2)
  BY DEF QueuesOf
<1>3. QueuesOf(que2, m2, M) = [x \in LiveSet(que2) |-> Briefs(m2, M[SlotOf(x)])]
  BY DEF QueuesOf
<1>4. Queues!Without(QueuesOf(que, m, L), id) = [x \in LiveSet(que2) |-> QueuesOf(que, m, L)[x]]
  BY <1>2 DEF Queues!Without
<1> QED
  BY <1>1, <1>3, <1>4

LEMMA MsggetActs ==
  ASSUME NEW L, Held(L), Msgget
  PROVE  \E id \in Id, n \in Limit : Queues!Create(id, n)
<1>1. PICK s : s = Min({t \in Slot : ~msgque[t].alloc})
  OBVIOUS
<1>2. PICK q : q = msgque[s]
  OBVIOUS
<1>3. PICK r : r = NewQueue(q)
  OBVIOUS
<1>4. /\ s \in Slot /\ ~q.alloc /\ q \in Msqid /\ NewDone(q, r)
      /\ PutIn(msgque, msgque', s, r) /\ Stored(msgque', msgh, msgfp, text, L)
  BY <1>1, <1>2, <1>3, MsggetIs
<1>5. /\ msgh' = msgh /\ msgfp' = msgfp /\ text' = text /\ frame' = frame
  BY DEF Msgget
<1>6. /\ msgque \in Msqids /\ msgh \in Headers /\ Stored(msgque, msgh, msgfp, text, L)
      /\ msgque' \in Msqids /\ msgque'[s] = r /\ Others(msgque, msgque', s)
  BY <1>4, HeldHas DEF PutIn
<1>7. PICK id : id = IdAt(msgque', s)
  OBVIOUS
<1>8. /\ LiveSet(msgque') = LiveSet(msgque) \cup {id} /\ id \notin LiveSet(msgque) /\ SlotOf(id) = s
      /\ \A x \in LiveSet(msgque) : SlotOf(x) \in Slot /\ SlotOf(x) # s
  <2>1. ~msgque[s].alloc /\ msgque'[s].alloc
    BY <1>2, <1>4, <1>6 DEF NewDone
  <2> QED
    BY <1>4, <1>6, <1>7, <2>1, LiveMore
<1>9. id \in Id
  <2>1. msgque'[s].seq \in Seqno
    BY <1>4, <1>6, MsqidsAre, MsqidHas
  <2> QED
    BY <1>4, <1>7, <2>1, IdIn DEF IdAt
<1>10. PICK n \in Limit : n = MSGMNB
  BY MsgAssumption
<1>11. n = msgque'[s].qbytes
  BY <1>4, <1>6, <1>10 DEF NewDone
<1>12. PICK b : b = Briefs(msgh, L[s])
  OBVIOUS
<1>13. b = <<>>
  <2>1. Len(L[s]) = 0 /\ L[s] \in Seq(Hdr)
    <3>1. QueueOK(msgque[s], msgh, L[s])
      BY <1>4, <1>6 DEF Stored
    <3> QED
      BY <1>2, <1>4, <3>1 DEF QueueOK, Chain
  <2> QED
    BY <1>12, <2>1, BriefsNone
<1>14. SameBriefs(msgh, msgh, L, L, s)
  BY DEF SameBriefs
<1>15. /\ LiveIds = LiveSet(msgque) /\ AbsLimit = LimitsOf(msgque) /\ AbsQueue = QueuesOf(msgque, msgh, L)
  BY AbsHere
<1>16. AbsLimit' = LimitsOf(msgque') /\ AbsQueue' = QueuesOf(msgque', msgh, L)
  <2>1. Stored(msgque', msgh', msgfp', text', L)
    BY <1>4, <1>5
  <2>2. AbsLimit' = LimitsOf(msgque') /\ AbsQueue' = QueuesOf(msgque', msgh', L)
    BY <1>6, <2>1, AbsThen
  <2> QED
    BY <1>5, <2>2
<1>17. AbsLimit' = Queues!With(AbsLimit, id, n)
  BY <1>6, <1>8, <1>11, <1>15, <1>16, LimitsWith
<1>18. AbsQueue' = Queues!With(AbsQueue, id, b)
  BY <1>8, <1>12, <1>14, <1>15, <1>16, QueuesWith
<1>19. Queues!Create(id, n)
  BY <1>5, <1>8, <1>13, <1>15, <1>17, <1>18, AsCreate
<1> QED
  BY <1>9, <1>19

LEMMA RmidActs ==
  ASSUME NEW L, Held(L), NEW id \in LiveIds, Rmid(id)
  PROVE  Queues!Discard(id)
<1>1. PICK s \in Slot : s = SlotOf(id)
  BY LiveIdIs
<1>2. PICK q \in Msqid : q = msgque[s]
  BY <1>1, LiveIdIs
<1>3. PICK ms : ms = L[s]
  OBVIOUS
<1>4. PICK r : r = Gone(q, Len(ms))
  OBVIOUS
<1>5. PICK M : Moved(L, M, s, <<>>, Back(ms, L[MSGMNI]))
  BY MovedExists
<1>6. RemovedAll(M, s, q, ms, r)
  BY <1>1, <1>2, <1>3, <1>4, <1>5, RmidIs
<1>7. /\ msgque \in Msqids /\ Stored(msgque, msgh, msgfp, text, L)
      /\ msgque' \in Msqids /\ msgque'[s] = r /\ Others(msgque, msgque', s) /\ ~r.alloc
      /\ Stored(msgque', msgh', msgfp', text', M) /\ frame' = frame
      /\ \A h \in Hdr : msgh'[h].ts = msgh[h].ts /\ msgh'[h].type = msgh[h].type
  BY <1>6, HeldHas DEF RemovedAll, PutIn, GoneDone, AsReleased
<1>8. q.alloc /\ id = IdAt(msgque, s)
  BY <1>1, <1>2, LiveIdIs DEF IdAt, IdOf
<1>9. /\ LiveSet(msgque) = LiveSet(msgque') \cup {id} /\ id \notin LiveSet(msgque')
      /\ \A x \in LiveSet(msgque') : SlotOf(x) \in Slot /\ SlotOf(x) # s
  <2>1. Others(msgque', msgque, s)
    BY <1>7 DEF Others
  <2>2. ~msgque'[s].alloc /\ msgque[s].alloc
    BY <1>2, <1>7, <1>8
  <2> QED
    BY <1>7, <1>8, <2>1, <2>2, LiveMore
<1>10. SameBriefs(msgh, msgh', L, M, s)
  <2>1. ASSUME NEW t \in Slot, t # s PROVE Briefs(msgh', M[t]) = Briefs(msgh, L[t])
    <3>1. Partition(L) /\ t \in Lines
      BY <1>7, LinesAre DEF Stored
    <3>2. M[t] = L[t] /\ L[t] \in Seq(Hdr) /\ Elems(L[t]) \in SUBSET Hdr
      BY <1>5, <2>1, <3>1, MovedOther, Elsewhere
    <3>3. \A g \in Elems(L[t]) : SameBrief(msgh, msgh', g)
      BY <1>7, <3>2 DEF SameBrief
    <3>4. Briefs(msgh', L[t]) = Briefs(msgh, L[t])
      BY <3>2, <3>3, BriefsKeep
    <3> QED
      BY <3>2, <3>4
  <2> QED
    BY <2>1 DEF SameBriefs
<1>11. /\ AbsLimit = LimitsOf(msgque) /\ AbsQueue = QueuesOf(msgque, msgh, L)
       /\ AbsLimit' = LimitsOf(msgque') /\ AbsQueue' = QueuesOf(msgque', msgh', M)
  BY <1>7, AbsHere, AbsThen
<1>12. AbsLimit' = Queues!Without(AbsLimit, id)
  BY <1>7, <1>9, <1>11, LimitsWithout
<1>13. AbsQueue' = Queues!Without(AbsQueue, id)
  BY <1>9, <1>10, <1>11, QueuesWithout
<1> QED
  BY <1>7, <1>12, <1>13, AsDiscard

LEMMA SetLimitActs ==
  ASSUME NEW L, Held(L), NEW id \in LiveIds, NEW n \in Limit, SetLimit(id, n)
  PROVE  Queues!SetLimit(id, n)
<1>1. PICK s \in Slot : s = SlotOf(id)
  BY LiveIdIs
<1>2. PICK q \in Msqid : q = msgque[s]
  BY <1>1, LiveIdIs
<1>3. PICK r : r = [q EXCEPT !.qbytes = n]
  OBVIOUS
<1>4. msgque' = Put(msgque, s, r) /\ msgh' = msgh /\ frame' = frame
  BY <1>1, <1>2, <1>3 DEF SetLimit, Put
<1>5. LimitDone(q, n, r)
  <2>1. n \in Int
    BY MsgAssumption
  <2>2. n \in Number
    BY <2>1 DEF Number
  <2> QED
    BY <1>3, <2>2, LimitIs
<1>6. /\ r \in Msqid /\ r.alloc = q.alloc /\ r.seq = q.seq /\ r.qbytes = n
      /\ PutIn(msgque, msgque', s, r)
  <2>1. r \in Msqid /\ r.alloc = q.alloc /\ r.seq = q.seq /\ r.qbytes = n
    BY <1>5 DEF LimitDone, SameList
  <2> QED
    BY <1>4, <2>1, HeldHas, QueueSet
<1>7. /\ msgque \in Msqids /\ msgque' \in Msqids /\ msgque'[s] = r /\ Others(msgque, msgque', s)
  BY <1>6, HeldHas DEF PutIn
<1>8. LiveSet(msgque') = LiveSet(msgque)
  <2>1. SameLive(msgque, msgque')
    BY <1>2, <1>6, <1>7 DEF Others, SameLive
  <2> QED
    BY <2>1, LiveSame
<1>9. /\ LiveIds = LiveSet(msgque) /\ AbsLimit = LimitsOf(msgque) /\ AbsQueue = QueuesOf(msgque, msgh, L)
  BY AbsHere
<1>10. AbsLimit' = LimitsOf(msgque') /\ AbsQueue' = QueuesOf(msgque', msgh', L)
  <2>1. Stored(msgque', msgh', msgfp', text', L) /\ msgque' \in Msqids
    <3>1. Held(L)'
      BY SetLimitKeeps
    <3> QED
      BY <3>1 DEF Held
  <2> QED
    BY <2>1, AbsThen
<1>11. AbsQueue' = AbsQueue
  BY <1>4, <1>8, <1>9, <1>10 DEF QueuesOf
<1>12. n = msgque'[s].qbytes
  BY <1>6, <1>7
<1>13. AbsLimit' = [AbsLimit EXCEPT ![id] = n]
  BY <1>1, <1>7, <1>8, <1>9, <1>10, <1>12, LimitsPut
<1> QED
  BY <1>4, <1>11, <1>13, AsSetLimit

------------------------------------------------------------------------------
(* The refinement.                                                         *)
LEMMA InitActs == Init => Queues!Init
<1>1. SUFFICES ASSUME Init PROVE Queues!Init
  OBVIOUS
<1>2. LiveIds = {}
  BY <1>1 DEF Init, LiveIds
<1>3. AbsQueue = <<>> /\ AbsLimit = <<>>
  <2>1. DOMAIN <<>> = {} /\ DOMAIN AbsQueue = {} /\ DOMAIN AbsLimit = {}
    BY <1>2 DEF AbsQueue, AbsLimit
  <2>2. <<>> = [x \in {} |-> 0]
    BY <2>1
  <2>3. AbsQueue = [x \in {} |-> 0]
    BY <1>2 DEF AbsQueue
  <2>4. AbsLimit = [x \in {} |-> 0]
    BY <1>2 DEF AbsLimit
  <2> QED
    BY <2>2, <2>3, <2>4
<1>4. frame = [p \in Proc |-> NoCall]
  BY <1>1 DEF Init
<1> QED
  BY <1>3, <1>4 DEF Queues!Init, AbsQueue, AbsLimit

LEMMA TriedActs ==
  ASSUME NEW L, Held(L), NEW p \in Proc, NEW c \in Call, Asking(p, c), Tried(p, c)
  PROVE  Queues!Send(p, c) \/ Queues!Receive(p, c) \/ Queues!Wait(p, c) \/ Queues!Return(p)
<1>1. CASE WaitForRoom(p, c)
  BY <1>1, WaitForRoomActs
<1>2. CASE WaitForHeader(p, c)
  BY <1>2, WaitForHeaderActs
<1>3. CASE WaitForText(p, c)
  BY <1>3, WaitForTextActs
<1>4. CASE SendFault(p, c)
  BY <1>4, SendFaultActs
<1>5. CASE Send(p, c)
  BY <1>5, SendActs
<1>6. CASE Receive(p, c)
  BY <1>6, ReceiveActs
<1>7. CASE ReceiveFails(p, c)
  <2>1. Returns(p, {}) /\ UNCHANGED <<store, raised>>
    BY <1>7 DEF ReceiveFails
  <2> QED
    BY <2>1, QuietActs
<1>8. CASE WaitForMessage(p, c)
  BY <1>8, WaitForMessageActs
<1> QED
  BY <1>1, <1>2, <1>3, <1>4, <1>5, <1>6, <1>7, <1>8 DEF Tried

(* What the abstract specification allows, with its calls and processes.   *)
Act ==
  \/ \E p \in Proc : \/ \E c \in Call : Queues!Send(p, c) \/ Queues!Receive(p, c) \/ Queues!Wait(p, c)
                     \/ Queues!Return(p)
  \/ \E id \in Id, n \in Limit : Queues!Create(id, n)
  \/ \E id \in LiveIds : Queues!Discard(id) \/ \E n \in Limit : Queues!SetLimit(id, n)

LEMMA ActIs == Act <=> Queues!Next
BY DEF Act, Queues!Next

LEMMA StutterActs ==
  ASSUME UNCHANGED vars
  PROVE  UNCHANGED Queues!vars
<1>1. msgque' = msgque /\ msgh' = msgh /\ frame' = frame
  BY DEF vars, store
<1>2. AbsQueue' = AbsQueue /\ AbsLimit' = AbsLimit
  <2>1. /\ LiveIds = LiveSet(msgque) /\ AbsLimit = LimitsOf(msgque) /\ AbsQueue = SeqsOf(msgque, msgh)
    BY AbsIs DEF AbsSays
  <2> QED
    BY <1>1, <2>1, AbsNext
<1> QED
  BY <1>1, <1>2 DEF Queues!vars, AbsQueue, AbsLimit

LEMMA NextActs ==
  ASSUME MsgInv, [Next]_vars
  PROVE  Queues!Next \/ UNCHANGED Queues!vars
<1>1. PICK L : Held(L)
  BY DEF MsgInv
<1>2. Calls
  BY <1>1, HeldHas
<1>3. ASSUME NEW p \in Proc, NEW c \in Tries(p), Tried(p, c) PROVE Act
  <2>1. c \in Call /\ Asking(p, c)
    BY <1>2, TriesIs DEF Asking
  <2>2. Queues!Send(p, c) \/ Queues!Receive(p, c) \/ Queues!Wait(p, c) \/ Queues!Return(p)
    BY <1>1, <1>3, <2>1, TriedActs
  <2> QED
    BY <2>1, <2>2 DEF Act
<1>4. ASSUME NEW p \in Proc, Removed(p) \/ Interrupted(p) \/ InterruptedInRoom(p) PROVE Act
  <2>1. ASSUME Removed(p) \/ Interrupted(p) PROVE Returns(p, {}) /\ UNCHANGED <<store, raised>>
    BY <2>1 DEF Removed, Interrupted
  <2>2. Queues!Return(p)
    BY <1>1, <1>4, <2>1, QuietActs, InterruptedInRoomActs
  <2> QED
    BY <2>2 DEF Act
<1>5. ASSUME Msgget PROVE Act
  BY <1>1, <1>5, MsggetActs DEF Act
<1>6. ASSUME NEW id \in LiveIds, Rmid(id) PROVE Act
  <2>1. Queues!Discard(id)
    BY <1>1, <1>6, RmidActs
  <2> QED
    BY <2>1 DEF Act
<1>7. ASSUME NEW id \in LiveIds, NEW n \in Limit, SetLimit(id, n) PROVE Act
  <2>1. Queues!SetLimit(id, n)
    BY <1>1, <1>7, SetLimitActs
  <2> QED
    BY <2>1 DEF Act
<1>8. \/ \E p \in Proc : \E c \in Tries(p) : Tried(p, c)
      \/ \E p \in Proc : Removed(p) \/ Interrupted(p) \/ InterruptedInRoom(p)
      \/ Msgget
      \/ \E id \in LiveIds : Rmid(id) \/ \E n \in Limit : SetLimit(id, n)
      \/ UNCHANGED vars
  BY DEF Next, Tried
<1>9. Act \/ UNCHANGED vars
  BY <1>3, <1>4, <1>5, <1>6, <1>7, <1>8
<1> QED
  BY <1>9, ActIs, StutterActs

(* Whatever the headers and the text do, and whoever sleeps, the queues    *)
(* keep the order they were sent in, and what msgrcv() takes is the first  *)
(* of the type asked for, or the first of the least type.                  *)
THEOREM MsgImplementsQueues == Spec => ImplementsQueues
<1>1. Init => Queues!Init
  BY InitActs
<1>2. MsgInv /\ [Next]_vars => [Queues!Next]_(Queues!vars)
  BY NextActs
<1> QED
  BY <1>1, <1>2, MsgInvariance, PTL DEF Spec, ImplementsQueues, Queues!Spec
=============================================================================
