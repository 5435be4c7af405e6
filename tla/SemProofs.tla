------------------------------ MODULE SemProofs ------------------------------
(***************************************************************************)
(* System V semaphores, for any number of processes, sets and operations:  *)
(* every variable keeps its type, a sleeper stays counted where it sleeps, *)
(* undo entries are only of sets that exist, nobody sleeps on a vector     *)
(* that could be performed, and Sem implements AtomicSem.                  *)
(*                                                                         *)
(* First the undo entries of one process, then a pass of semop() over its  *)
(* vector and what semundo() takes back (both go operation by operation,   *)
(* so what they do is shown from 0 upwards), then the invariant SemInv and *)
(* each call.  The second half relates the pass to the sums of AtomicSem,  *)
(* shows what each call does to values, adjustments and sleepers, and maps *)
(* each call to a step of AtomicSem.                                       *)
(***************************************************************************)
EXTENDS Sem, FiniteSetTheorems, SequenceTheorems, WellFoundedInduction, TLAPS

(* A set of numbers has a least one.                                       *)
LEMMA LeastOf ==
  ASSUME NEW T \in SUBSET Nat, T # {}
  PROVE  \E x \in T : \A y \in T : x =< y
<1> DEFINE Downs == {0 .. x : x \in T}
<1>1. Downs \subseteq FiniteSubsetsOf(Nat) /\ Downs # {}
  <2>1. ASSUME NEW x \in T PROVE (0 .. x) \in FiniteSubsetsOf(Nat)
    BY FS_Interval DEF FiniteSubsetsOf
  <2> QED
    BY <2>1
<1>2. PICK D \in Downs : \A E \in Downs : ~ (<<E, D>> \in StrictSubsetOrdering(Nat))
  BY <1>1, FS_StrictSubsetOrderingWellFounded, WFMin
<1>3. PICK x \in T : D = 0 .. x
  OBVIOUS
<1>4. ASSUME NEW y \in T, y < x PROVE FALSE
  <2>1. (0 .. y) \subseteq (0 .. x) /\ (0 .. y) # (0 .. x)
    BY <1>4
  <2>2. <<0 .. y, D>> \in StrictSubsetOrdering(Nat)
    BY <1>3, <2>1 DEF StrictSubsetOrdering
  <2> QED
    BY <1>2, <2>2
<1> QED
  BY <1>4

(* What holds at 0 and goes on from n to n + 1: a set of numbers.          *)
LEMMA Upwards ==
  ASSUME NEW T \in SUBSET Nat, 0 \in T, \A n \in T : n + 1 \in T
  PROVE  T = Nat
<1>1. SUFFICES ASSUME Nat \ T # {} PROVE FALSE
  OBVIOUS
<1>2. PICK x \in Nat \ T : \A y \in Nat \ T : x =< y
  BY <1>1, LeastOf
<1>3. x # 0 /\ x - 1 \in Nat /\ (x - 1) + 1 = x
  BY <1>2
<1>4. x - 1 \in T
  BY <1>2, <1>3
<1> QED
  BY <1>2, <1>3, <1>4

LEMMA Iteration ==
  ASSUME NEW S, NEW b \in S, NEW F \in [S -> S]
  PROVE  \E f \in [Nat -> S] : f[0] = b /\ \A n \in Nat : f[n + 1] = F[f[n]]
<1> DEFINE Closed(R) == <<0, b>> \in R /\ \A n \in Nat, x \in S : <<n, x>> \in R => <<n + 1, F[x]>> \in R
           All == {R \in SUBSET (Nat \X S) : Closed(R)}
           G == {e \in Nat \X S : \A R \in All : e \in R}
           Is(n) == \E x \in S : <<n, x>> \in G /\ \A y \in S : <<n, y>> \in G => y = x
           T == {n \in Nat : Is(n)}
<1>1. Closed(G)
  <2>1. <<0, b>> \in G
    OBVIOUS
  <2>2. ASSUME NEW n \in Nat, NEW x \in S, <<n, x>> \in G PROVE <<n + 1, F[x]>> \in G
    BY <2>2
  <2> QED
    BY <2>1, <2>2
<1>2. \A e \in G : Closed(G \ {e}) => FALSE
  <2>1. SUFFICES ASSUME NEW e \in G, Closed(G \ {e}) PROVE FALSE
    OBVIOUS
  <2>2. G \ {e} \in All
    BY <2>1
  <2> QED
    BY <2>1, <2>2
<1>3. G \in SUBSET (Nat \X S)
  OBVIOUS
<1> HIDE DEF G
<1>4. 0 \in T
  <2>1. ASSUME NEW y \in S, <<0, y>> \in G, y # b PROVE FALSE
    <3>1. Closed(G \ {<<0, y>>})
      BY <1>1, <2>1
    <3> QED
      BY <1>2, <2>1, <3>1
  <2> QED
    BY <1>1, <2>1
<1>5. ASSUME NEW n \in T PROVE n + 1 \in T
  <2>1. PICK x \in S : <<n, x>> \in G /\ \A y \in S : <<n, y>> \in G => y = x
    OBVIOUS
  <2>2. <<n + 1, F[x]>> \in G /\ F[x] \in S
    BY <1>1, <2>1
  <2>3. ASSUME NEW y \in S, <<n + 1, y>> \in G, y # F[x] PROVE FALSE
    <3> DEFINE e == <<n + 1, y>>
    <3>1. <<0, b>> \in G \ {e}
      BY <1>1
    <3>2. ASSUME NEW m \in Nat, NEW z \in S, <<m, z>> \in G \ {e} PROVE <<m + 1, F[z]>> \in G \ {e}
      <4>1. <<m + 1, F[z]>> \in G
        BY <1>1, <3>2
      <4>2. m + 1 = n + 1 => m = n
        OBVIOUS
      <4>3. m = n => z = x
        BY <2>1, <3>2
      <4> QED
        BY <2>3, <4>1, <4>2, <4>3
    <3> QED
      BY <1>2, <2>3, <3>1, <3>2
  <2> QED
    BY SMTT(30), <2>2, <2>3
<1>6. T = Nat
  BY <1>4, <1>5, Upwards
<1> DEFINE f == [n \in Nat |-> CHOOSE x \in S : <<n, x>> \in G]
<1>7. \A n \in Nat : f[n] \in S /\ <<n, f[n]>> \in G /\ \A y \in S : <<n, y>> \in G => y = f[n]
  BY <1>6
<1>8. f \in [Nat -> S]
  BY <1>7
<1> HIDE DEF f
<1>9. f[0] = b
  BY <1>1, <1>7
<1>10. ASSUME NEW n \in Nat PROVE f[n + 1] = F[f[n]]
  <2>1. <<n + 1, F[f[n]]>> \in G /\ F[f[n]] \in S
    BY <1>1, <1>7
  <2>2. \A m \in Nat, y \in S : <<m, y>> \in G => y = f[m]
    BY <1>7
  <2>3. n + 1 \in Nat
    OBVIOUS
  <2> QED
    BY <2>1, <2>2, <2>3
<1> QED
  BY <1>8, <1>9, <1>10



------------------------------------------------------------------------------
(* Sequences with a piece left out, or an element put in.                  *)

Without(s, a, b) == SubSeq(s, 1, a - 1) \o SubSeq(s, b, Len(s))

Shortened(S, s, a, b, t) ==
  /\ t \in Seq(S) /\ Len(t) = Len(s) - (b - a)
  /\ \A i \in DOMAIN t : t[i] = IF i < a THEN s[i] ELSE s[i + (b - a)]

LEMMA Cut ==
  ASSUME NEW S, NEW s \in Seq(S), NEW a \in 1 .. Len(s) + 1, NEW b \in a .. Len(s) + 1,
         NEW t, t = Without(s, a, b)
  PROVE  Shortened(S, s, a, b, t)
<1> DEFINE x == SubSeq(s, 1, a - 1)
           y == SubSeq(s, b, Len(s))
<1>1. Len(s) \in Nat /\ a \in Int /\ b \in Int /\ \A i \in 1 .. Len(s) : s[i] \in S
  OBVIOUS
<1>2. x \in Seq(S) /\ Len(x) = a - 1 /\ \A i \in 1 .. a - 1 : x[i] = s[i]
  <2>1. \A i \in 1 .. a - 1 : s[i] \in S
    BY <1>1
  <2>2. /\ x \in Seq(S) /\ Len(x) = (IF 1 <= a - 1 THEN (a - 1) - 1 + 1 ELSE 0)
        /\ \A i \in 1 .. (a - 1) - 1 + 1 : x[i] = s[1 + i - 1]
    BY <1>1, <2>1, SubSeqProperties
  <2> QED
    BY <1>1, <2>2
<1>3. y \in Seq(S) /\ Len(y) = Len(s) - b + 1 /\ \A i \in 1 .. Len(s) - b + 1 : y[i] = s[b + i - 1]
  <2>1. \A i \in b .. Len(s) : s[i] \in S
    BY <1>1
  <2>2. /\ y \in Seq(S) /\ Len(y) = (IF b <= Len(s) THEN Len(s) - b + 1 ELSE 0)
        /\ \A i \in 1 .. Len(s) - b + 1 : y[i] = s[b + i - 1]
    BY <1>1, <2>1, SubSeqProperties
  <2> QED
    BY <1>1, <2>2
<1> HIDE DEF x, y
<1>4. /\ x \o y \in Seq(S) /\ Len(x \o y) = Len(x) + Len(y)
      /\ \A i \in 1 .. Len(x) + Len(y) : (x \o y)[i] = IF i <= Len(x) THEN x[i] ELSE y[i - Len(x)]
  BY <1>2, <1>3, ConcatProperties
<1>5. t = x \o y
  BY DEF x, y, Without
<1>6. t \in Seq(S) /\ Len(t) = Len(s) - (b - a) /\ DOMAIN t = 1 .. Len(t)
  <2>1. Len(t) = Len(x) + Len(y) /\ t \in Seq(S) /\ DOMAIN t = 1 .. Len(t)
    BY <1>4, <1>5
  <2>2. Len(x) + Len(y) = Len(s) - (b - a)
    BY <1>1, <1>2, <1>3
  <2> QED
    BY <2>1, <2>2
<1>7. ASSUME NEW i \in DOMAIN t PROVE t[i] = IF i < a THEN s[i] ELSE s[i + (b - a)]
  <2>1. i \in 1 .. Len(x) + Len(y) /\ i \in Nat
    BY <1>4, <1>5
  <2>2. CASE i < a
    BY SMTT(30), <1>1, <1>2, <1>4, <1>5, <2>1, <2>2
  <2>3. CASE ~ (i < a)
    <3> DEFINE j == i - (a - 1)
    <3>1. j \in Int /\ 1 <= j /\ j <= Len(s) - b + 1 /\ b + j - 1 = i + (b - a)
      <4>1. Len(x) = a - 1 /\ Len(y) = Len(s) - b + 1 /\ i \in Nat /\ i <= Len(x) + Len(y)
        BY <1>2, <1>3, <2>1
      <4> QED
        BY SMTT(30), <1>1, <2>3, <4>1
    <3>2. y[j] = s[i + (b - a)]
      <4>1. j \in 1 .. Len(s) - b + 1
        BY <1>1, <3>1
      <4>2. y[j] = s[b + j - 1]
        BY <1>3, <4>1
      <4> QED
        BY <3>1, <4>2
    <3>3. t[i] = y[i - Len(x)]
      BY SMTT(30), <1>1, <1>2, <1>4, <1>5, <2>1, <2>3
    <3> QED
      BY <1>2, <2>3, <3>2, <3>3
  <2> QED
    BY <2>2, <2>3
<1> QED
  BY Zenon, <1>6, <1>7 DEF Shortened

LEMMA PutIn ==
  ASSUME NEW S, NEW s \in Seq(S), NEW a \in 1 .. Len(s) + 1, NEW e \in S,
         NEW t, t = InsertAt(s, a, e)
  PROVE  /\ t \in Seq(S) /\ Len(t) = Len(s) + 1
         /\ \A i \in DOMAIN t : t[i] = IF i < a THEN s[i] ELSE IF i = a THEN e ELSE s[i - 1]
<1> DEFINE x == SubSeq(s, 1, a - 1)
           y == SubSeq(s, a, Len(s))
           z == x \o << e >>
<1>1. Len(s) \in Nat /\ a \in Int /\ \A i \in 1 .. Len(s) : s[i] \in S
  OBVIOUS
<1>2. x \in Seq(S) /\ Len(x) = a - 1 /\ \A i \in 1 .. a - 1 : x[i] = s[i]
  <2>1. \A i \in 1 .. a - 1 : s[i] \in S
    BY <1>1
  <2>2. /\ x \in Seq(S) /\ Len(x) = (IF 1 <= a - 1 THEN (a - 1) - 1 + 1 ELSE 0)
        /\ \A i \in 1 .. (a - 1) - 1 + 1 : x[i] = s[1 + i - 1]
    BY <1>1, <2>1, SubSeqProperties
  <2> QED
    BY <1>1, <2>2
<1>3. y \in Seq(S) /\ Len(y) = Len(s) - a + 1 /\ \A i \in 1 .. Len(s) - a + 1 : y[i] = s[a + i - 1]
  <2>1. \A i \in a .. Len(s) : s[i] \in S
    BY <1>1
  <2>2. /\ y \in Seq(S) /\ Len(y) = (IF a <= Len(s) THEN Len(s) - a + 1 ELSE 0)
        /\ \A i \in 1 .. Len(s) - a + 1 : y[i] = s[a + i - 1]
    BY <1>1, <2>1, SubSeqProperties
  <2> QED
    BY <1>1, <2>2
<1>4. << e >> \in Seq(S) /\ Len(<< e >>) = 1 /\ << e >>[1] = e
  OBVIOUS
<1> HIDE DEF x, y
<1>5. /\ z \in Seq(S) /\ Len(z) = Len(x) + 1
      /\ \A i \in 1 .. Len(x) + 1 : z[i] = IF i <= Len(x) THEN x[i] ELSE << e >>[i - Len(x)]
  BY <1>2, <1>4, ConcatProperties
<1>6. Len(z) = a /\ \A i \in 1 .. a : z[i] = IF i < a THEN s[i] ELSE e
  BY <1>1, <1>2, <1>4, <1>5
<1> HIDE DEF z
<1>7. /\ z \o y \in Seq(S) /\ Len(z \o y) = Len(z) + Len(y)
      /\ \A i \in 1 .. Len(z) + Len(y) : (z \o y)[i] = IF i <= Len(z) THEN z[i] ELSE y[i - Len(z)]
  BY <1>3, <1>5, ConcatProperties
<1>8. t = z \o y
  BY DEF x, y, z, InsertAt
<1>9. t \in Seq(S) /\ Len(t) = Len(s) + 1 /\ DOMAIN t = 1 .. Len(s) + 1
  BY <1>1, <1>3, <1>6, <1>7, <1>8
<1>10. ASSUME NEW i \in DOMAIN t PROVE t[i] = IF i < a THEN s[i] ELSE IF i = a THEN e ELSE s[i - 1]
  <2>1. i \in 1 .. Len(z) + Len(y) /\ i \in Nat
    BY <1>1, <1>3, <1>6, <1>9
  <2>2. CASE i <= a
    <3>1. t[i] = z[i]
      BY <1>6, <1>7, <1>8, <2>1, <2>2
    <3> QED
      BY <1>6, <2>1, <2>2, <3>1
  <2>3. CASE ~ (i <= a)
    <3>1. i - a \in 1 .. Len(s) - a + 1 /\ a + (i - a) - 1 = i - 1
      BY <1>1, <1>3, <1>6, <2>1, <2>3
    <3>2. y[i - a] = s[i - 1]
      BY <1>3, <3>1
    <3> QED
      BY <1>1, <1>6, <1>7, <1>8, <2>1, <2>3, <3>2
  <2> QED
    BY <2>2, <2>3
<1> QED
  BY <1>9, <1>10

------------------------------------------------------------------------------
(* The undo entries of one process: sorted, few, and each for a semaphore  *)
(* of K within its limit.  The undo structures of all: no more than there  *)
(* are.                                                                    *)

UndoEntry == [id : Nat, num : Nat, aoe : Int]
Key == Nat \X Nat

Sorted(ent) == \A i, j \in DOMAIN ent : i < j => Before(ent[i], ent[j].id, ent[j].num)
Due(e, K) == <<e.id, e.num>> \in K /\ e.aoe # 0 /\ Abs(e.aoe) <= SEMAEM
Lists(K) == {ent \in Seq(UndoEntry) : /\ Len(ent) <= SEMUME /\ Sorted(ent)
                                      /\ \A i \in DOMAIN ent : Due(ent[i], K)}
Structure(K) == {s \in [has : BOOLEAN, ent : Lists(K)] : ~s.has => s.ent = <<>>}
Tables(K) == {u \in [Proc -> Structure(K)] : Cardinality({p \in Proc : u[p].has}) <= SEMMNU}

LEMMA Constants ==
  /\ SEMMNI \in Nat \ {0} /\ SEMMNI \in Nat /\ SEMMNS \in Nat /\ SEMMSL \in Nat
  /\ SEMUME \in Nat /\ SEMUME > 0 /\ SEMMNU \in Nat
  /\ SEMVMX \in Nat /\ SEMVMX <= 32767 /\ SEMAEM \in Nat /\ SEMAEM <= 16384
<1>1. SEMMNI \in Nat \ {0} /\ SEMMNS \in Nat \ {0} /\ SEMMSL \in Nat \ {0}
  BY SemAssumption
<1>2. SEMUME \in Nat \ {0} /\ SEMMNU \in Nat \ {0}
  BY SemAssumption
<1>3. /\ SEMVMX \in Nat \ {0} /\ SEMVMX <= MAXSHORT
      /\ SEMAEM \in Nat \ {0} /\ 2 * SEMAEM <= MAXSHORT + 1
  BY SemAssumption
<1>4. SEMMNI \in Nat /\ SEMMNS \in Nat /\ SEMMSL \in Nat
  BY <1>1
<1>5. SEMUME \in Nat /\ SEMUME > 0 /\ SEMMNU \in Nat
  BY <1>2
<1>6. SEMVMX \in Nat /\ SEMVMX <= 32767 /\ SEMAEM \in Nat /\ SEMAEM <= 16384
  BY <1>3 DEF MAXSHORT
<1> QED
  BY <1>1, <1>4, <1>5, <1>6

(* Where an entry is, or belongs.                                          *)
LEMMA PlaceIs ==
  ASSUME NEW ent \in Seq(UndoEntry), NEW id \in Nat, NEW num \in Nat, NEW i, i = Place(ent, id, num)
  PROVE  /\ i \in 1 .. Len(ent) + 1
         /\ \A j \in DOMAIN ent : j < i => Before(ent[j], id, num)
         /\ i \in DOMAIN ent => ~Before(ent[i], id, num)
<1> DEFINE T == {j \in DOMAIN ent : ~Before(ent[j], id, num)} \cup {Len(ent) + 1}
<1>1. Len(ent) \in Nat /\ DOMAIN ent = 1 .. Len(ent)
  OBVIOUS
<1>2. T \in SUBSET Nat /\ T # {}
  BY <1>1
<1>3. \A j \in T : j \in 1 .. Len(ent) + 1
  BY <1>1
<1>4. Len(ent) + 1 \notin DOMAIN ent
  BY <1>1
<1>5. \A j \in DOMAIN ent : j \in T <=> ~Before(ent[j], id, num)
  BY <1>4
<1>6. i = CHOOSE x \in T : \A y \in T : x =< y
  BY DEF Place, Min
<1> HIDE DEF T
<1>7. \E x \in T : \A y \in T : x =< y
  BY <1>2, LeastOf
<1>8. i \in T /\ \A y \in T : i =< y
  BY <1>6, <1>7
<1>9. ASSUME NEW j \in DOMAIN ent, j < i PROVE j \notin T
  BY <1>1, <1>3, <1>8, <1>9
<1> QED
  BY <1>3, <1>5, <1>8, <1>9

(* The order of the entries.                                               *)
LEMMA BeforeTrans ==
  ASSUME NEW e \in UndoEntry, NEW f \in UndoEntry, NEW id \in Nat, NEW num \in Nat,
         Before(e, f.id, f.num), Before(f, id, num)
  PROVE  Before(e, id, num)
BY DEF Before, UndoEntry

LEMMA AfterTrans ==
  ASSUME NEW e \in UndoEntry, NEW f \in UndoEntry, NEW id \in Nat, NEW num \in Nat,
         Before(e, f.id, f.num), ~Before(e, id, num)
  PROVE  ~Before(f, id, num) /\ <<f.id, f.num>> # <<id, num>>
BY DEF Before, UndoEntry

(* An entry that is not the one sought and not before it is past it.       *)
LEMMA NotBefore ==
  ASSUME NEW e \in UndoEntry, NEW id \in Nat, NEW num \in Nat,
         ~Before(e, id, num), ~(e.id = id /\ e.num = num), NEW aoe
  PROVE  Before(Entry(id, num, aoe), e.id, e.num)
BY DEF Before, UndoEntry, Entry

(* What is left when a piece is taken out of a list is a list.             *)
LEMMA CutLists ==
  ASSUME NEW K, NEW ent \in Lists(K), NEW a \in 1 .. Len(ent) + 1, NEW b \in a .. Len(ent) + 1,
         NEW t, t = Without(ent, a, b)
  PROVE  /\ t \in Lists(K) /\ (ent = <<>> => t = <<>>)
         /\ Len(t) = Len(ent) - (b - a) /\ DOMAIN t = 1 .. Len(t)
         /\ \A i \in DOMAIN t : t[i] = IF i < a THEN ent[i] ELSE ent[i + (b - a)]
<1>1. ent \in Seq(UndoEntry) /\ Len(ent) \in Nat /\ DOMAIN ent = 1 .. Len(ent) /\ a \in Int /\ b \in Int
  BY DEF Lists
<1> DEFINE o(i) == IF i < a THEN i ELSE i + (b - a)
<1>2. /\ t \in Seq(UndoEntry) /\ Len(t) = Len(ent) - (b - a)
      /\ \A i \in DOMAIN t : t[i] = IF i < a THEN ent[i] ELSE ent[i + (b - a)]
  <2>1. Shortened(UndoEntry, ent, a, b, t)
    BY <1>1, Cut
  <2> QED
    BY Zenon, <2>1 DEF Shortened
<1>3. DOMAIN t = 1 .. Len(ent) - (b - a)
  BY <1>2
<1>4. \A i \in DOMAIN t : o(i) \in DOMAIN ent /\ t[i] = ent[o(i)]
  BY <1>1, <1>2, <1>3
<1>5. \A i, j \in DOMAIN t : i < j => o(i) < o(j)
  BY <1>1, <1>3
<1> HIDE DEF o
<1>6. Len(t) <= SEMUME
  <2>1. Len(ent) <= SEMUME
    BY DEF Lists
  <2>2. SEMUME \in Nat
    BY Constants
  <2>3. Len(t) <= Len(ent) /\ Len(t) \in Int
    BY <1>1, <1>2
  <2> QED
    BY <1>1, <2>1, <2>2, <2>3
<1>7. Sorted(t)
  BY <1>4, <1>5 DEF Lists, Sorted
<1>8. \A i \in DOMAIN t : Due(t[i], K)
  BY <1>4 DEF Lists
<1>9. ent = <<>> => t = <<>>
  <2>1. SUFFICES ASSUME ent = <<>> PROVE t = <<>>
    OBVIOUS
  <2>2. Len(t) = 0
    BY <1>1, <1>2, <2>1
  <2> QED
    BY <1>2, <2>2
<1>10. t \in Lists(K)
  BY <1>2, <1>6, <1>7, <1>8 DEF Lists
<1> QED
  BY <1>2, <1>9, <1>10

(* An entry put where it belongs.                                          *)
LEMMA PutLists ==
  ASSUME NEW K \in SUBSET Key, NEW ent \in Lists(K), NEW id, NEW num, <<id, num>> \in K,
         NEW aoe \in Int, aoe # 0, Abs(aoe) <= SEMAEM,
         NEW a, a = Place(ent, id, num), ~IsAt(ent, a, id, num), Len(ent) < SEMUME,
         NEW t, t = InsertAt(ent, a, Entry(id, num, aoe))
  PROVE  t \in Lists(K)
<1> DEFINE e == Entry(id, num, aoe)
<1>1. ent \in Seq(UndoEntry) /\ Len(ent) \in Nat /\ DOMAIN ent = 1 .. Len(ent) /\ SEMUME \in Nat
  <2>1. SEMUME \in Nat
    BY Constants
  <2> QED
    BY <2>1 DEF Lists
<1>2. id \in Nat /\ num \in Nat
  BY DEF Key
<1>3. e \in UndoEntry /\ e.id = id /\ e.num = num /\ e.aoe = aoe
  BY <1>2 DEF Entry, UndoEntry
<1>4. /\ a \in 1 .. Len(ent) + 1
      /\ \A j \in DOMAIN ent : j < a => Before(ent[j], id, num)
      /\ a \in DOMAIN ent => ~Before(ent[a], id, num)
  BY <1>1, <1>2, PlaceIs
<1>5. a \in DOMAIN ent => Before(e, ent[a].id, ent[a].num)
  <2>1. SUFFICES ASSUME a \in DOMAIN ent PROVE Before(e, ent[a].id, ent[a].num)
    OBVIOUS
  <2>2. ~(ent[a].id = id /\ ent[a].num = num)
    BY <1>1, <2>1 DEF IsAt
  <2>3. ent[a] \in UndoEntry
    BY <1>1, <2>1
  <2> QED
    BY <1>2, <1>4, <2>1, <2>2, <2>3, NotBefore
<1>6. t = InsertAt(ent, a, e)
  OBVIOUS
<1> HIDE DEF e
<1>7. /\ t \in Seq(UndoEntry) /\ Len(t) = Len(ent) + 1
      /\ \A i \in DOMAIN t : t[i] = IF i < a THEN ent[i] ELSE IF i = a THEN e ELSE ent[i - 1]
  <2>1. ASSUME NEW S, S = UndoEntry
        PROVE  /\ t \in Seq(S) /\ Len(t) = Len(ent) + 1
               /\ \A i \in DOMAIN t : t[i] = IF i < a THEN ent[i] ELSE IF i = a THEN e ELSE ent[i - 1]
    <3>1. ent \in Seq(S) /\ e \in S /\ a \in 1 .. Len(ent) + 1
      BY <1>1, <1>3, <1>4, <2>1
    <3> QED
      BY SMTT(30), <1>6, <3>1, PutIn
  <2> QED
    BY <2>1
<1>8. DOMAIN t = 1 .. Len(ent) + 1
  BY <1>7
<1>9. \A i \in DOMAIN t : i \in Nat /\ (i < a => i \in DOMAIN ent) /\ (i > a => i - 1 \in DOMAIN ent)
  BY <1>1, <1>4, <1>8
<1>10. ASSUME NEW i \in DOMAIN t, NEW j \in DOMAIN t, i < j PROVE Before(t[i], t[j].id, t[j].num)
  <2>1. \A x, y \in DOMAIN ent : x < y => Before(ent[x], ent[y].id, ent[y].num)
    BY DEF Lists, Sorted
  <2>2. a \in Nat /\ i \in Nat /\ j \in Nat
    BY <1>4, <1>9
  <2>3. CASE i < a /\ j < a
    BY <1>7, <1>9, <1>10, <2>1, <2>3
  <2>4. CASE i < a /\ j = a
    BY <1>3, <1>4, <1>7, <1>9, <2>4
  <2>5. CASE i < a /\ j > a
    <3>1. t[i] = ent[i] /\ t[j] = ent[j - 1] /\ i \in DOMAIN ent /\ j - 1 \in DOMAIN ent /\ i < j - 1
      BY <1>7, <1>9, <2>2, <2>5
    <3> QED
      BY <2>1, <3>1
  <2>6. CASE i = a
    <3>1. t[i] = e /\ t[j] = ent[j - 1] /\ j - 1 \in DOMAIN ent /\ a <= j - 1
      BY <1>7, <1>9, <1>10, <2>2, <2>6
    <3>2. a \in DOMAIN ent
      BY <1>1, <1>4, <3>1
    <3>3. CASE a = j - 1
      BY <1>5, <3>1, <3>2, <3>3
    <3>4. CASE a # j - 1
      <4>1. a < j - 1
        BY <2>2, <3>1, <3>4
      <4>2. Before(ent[a], ent[j - 1].id, ent[j - 1].num)
        BY <2>1, <3>1, <3>2, <4>1
      <4>3. ent[a] \in UndoEntry /\ ent[j - 1] \in UndoEntry
        BY <1>1, <3>1, <3>2
      <4>4. ent[j - 1].id \in Nat /\ ent[j - 1].num \in Nat
        BY <4>3 DEF UndoEntry
      <4> QED
        BY <1>3, <1>5, <3>1, <3>2, <4>2, <4>3, <4>4, BeforeTrans
    <3> QED
      BY <3>3, <3>4
  <2>7. CASE i > a
    <3>1. /\ t[i] = ent[i - 1] /\ t[j] = ent[j - 1]
          /\ i - 1 \in DOMAIN ent /\ j - 1 \in DOMAIN ent /\ i - 1 < j - 1
      BY <1>7, <1>9, <1>10, <2>2, <2>7
    <3> QED
      BY <2>1, <3>1
  <2> QED
    BY <1>10, <2>2, <2>3, <2>4, <2>5, <2>6, <2>7
<1>11. ASSUME NEW i \in DOMAIN t PROVE Due(t[i], K)
  <2>1. \A j \in DOMAIN ent : Due(ent[j], K)
    BY DEF Lists
  <2>2. Due(e, K)
    BY <1>3 DEF Due
  <2>3. i \in Nat /\ a \in Nat
    BY <1>4, <1>9
  <2> QED
    BY <1>7, <1>9, <2>1, <2>2, <2>3
<1>12. Len(t) <= SEMUME
  BY <1>1, <1>7
<1> QED
  BY <1>7, <1>10, <1>11, <1>12 DEF Lists, Sorted

(* A changed adjustment.                                                   *)
LEMMA ChangeLists ==
  ASSUME NEW K \in SUBSET Key, NEW ent \in Lists(K), NEW a \in DOMAIN ent,
         NEW aoe \in Int, aoe # 0, Abs(aoe) <= SEMAEM,
         NEW t, t = [ent EXCEPT ![a].aoe = aoe]
  PROVE  t \in Lists(K)
<1>1. ent \in Seq(UndoEntry) /\ Len(ent) \in Nat /\ DOMAIN ent = 1 .. Len(ent)
  BY DEF Lists
<1>2. ent[a] \in UndoEntry
  BY <1>1
<1> DEFINE e == [ent[a] EXCEPT !.aoe = aoe]
<1>3. e \in UndoEntry /\ e.id = ent[a].id /\ e.num = ent[a].num /\ e.aoe = aoe
  BY <1>2 DEF UndoEntry
<1>4. t = [ent EXCEPT ![a] = e]
  OBVIOUS
<1> HIDE DEF e
<1>5. t \in Seq(UndoEntry) /\ Len(t) = Len(ent) /\ DOMAIN t = DOMAIN ent
  BY <1>1, <1>3, <1>4
<1>6. \A i \in DOMAIN t : t[i] = IF i = a THEN e ELSE ent[i]
  BY <1>1, <1>4
<1>7. \A i \in DOMAIN t : t[i].id = ent[i].id /\ t[i].num = ent[i].num
  BY <1>3, <1>6
<1>8. Sorted(t)
  BY <1>5, <1>7 DEF Lists, Sorted, Before
<1>9. \A i \in DOMAIN t : Due(t[i], K)
  BY <1>3, <1>5, <1>6 DEF Lists, Due
<1>10. Len(t) <= SEMUME
  BY <1>5 DEF Lists
<1> QED
  BY <1>5, <1>8, <1>9, <1>10 DEF Lists

(* semaoe(): the structures stay such, when it does not refuse.            *)
LEMMA SemaoeKeeps ==
  ASSUME NEW K \in SUBSET Key, NEW u \in Tables(K), NEW p \in Proc, NEW val \in Int, val # 0,
         NEW id, NEW num, <<id, num>> \in K, ~AoeRefused(u, p, val, id, num),
         IsFiniteSet(Proc)
  PROVE  Semaoe(u, p, val, id, num) \in Tables(K)
<1> DEFINE ent == u[p].ent
           a == Place(ent, id, num)
           x == CASE ~IsAt(ent, a, id, num) -> InsertAt(ent, a, Entry(id, num, -val))
                  [] IsAt(ent, a, id, num) /\ ent[a].aoe = val -> RemoveAt(ent, a)
                  [] OTHER -> [ent EXCEPT ![a].aoe = @ - val]
           new == [u EXCEPT ![p] = [has |-> TRUE, ent |-> x]]
<1>1. u[p] \in Structure(K) /\ u \in [Proc -> Structure(K)]
  BY DEF Tables
<1>2. ent \in Lists(K) /\ u[p].has \in BOOLEAN
  BY <1>1 DEF Structure
<1>3. ent \in Seq(UndoEntry) /\ Len(ent) \in Nat /\ DOMAIN ent = 1 .. Len(ent)
  BY <1>2 DEF Lists
<1>4. id \in Nat /\ num \in Nat
  BY DEF Key
<1>5. /\ Abs(val) <= SEMAEM
      /\ u[p].has \/ Cardinality({q \in Proc : u[q].has}) < SEMMNU
      /\ IsAt(ent, a, id, num) \/ Len(ent) < SEMUME
      /\ IsAt(ent, a, id, num) => Abs(ent[a].aoe - val) <= SEMAEM
  <2>1. /\ ~(Abs(val) > SEMAEM)
        /\ ~(~u[p].has /\ Cardinality({q \in Proc : u[q].has}) >= SEMMNU)
        /\ ~(~IsAt(ent, a, id, num) /\ Len(ent) >= SEMUME)
        /\ ~(IsAt(ent, a, id, num) /\ Abs(ent[a].aoe - val) > SEMAEM)
    BY DEF AoeRefused
  <2>2. SEMAEM \in Int /\ SEMUME \in Int /\ SEMMNU \in Int /\ Abs(val) \in Int
    BY Constants DEF Abs
  <2>3. Cardinality({q \in Proc : u[q].has}) \in Int
    <3>1. IsFiniteSet({q \in Proc : u[q].has})
      BY FS_Subset
    <3> QED
      BY <3>1, FS_CardinalityType
  <2>4. IsAt(ent, a, id, num) => Abs(ent[a].aoe - val) \in Int
    <3>1. a \in 1 .. Len(ent) + 1
      BY <1>3, <1>4, PlaceIs
    <3>2. IsAt(ent, a, id, num) => a \in DOMAIN ent
      BY <1>3, <3>1 DEF IsAt
    <3>3. a \in DOMAIN ent => ent[a].aoe \in Int
      <4> HIDE DEF ent, a
      <4>1. a \in DOMAIN ent => ent[a] \in UndoEntry
        BY <1>3
      <4> QED
        BY <4>1 DEF UndoEntry
    <3> QED
      BY <3>2, <3>3 DEF Abs
  <2> HIDE DEF a, ent
  <2> QED
    BY <1>3, <2>1, <2>2, <2>3, <2>4
<1>6. a \in 1 .. Len(ent) + 1
  BY <1>3, <1>4, PlaceIs
<1>7. Semaoe(u, p, val, id, num) = new
  BY DEF Semaoe
<1>8. x \in Lists(K)
  <2>1. CASE ~IsAt(ent, a, id, num)
    <3>1. x = InsertAt(ent, a, Entry(id, num, -val))
      BY <2>1
    <3>2. -val \in Int /\ -val # 0 /\ Abs(-val) = Abs(val)
      BY DEF Abs
    <3> HIDE DEF x, a, ent
    <3>3. a = Place(ent, id, num)
      BY DEF a
    <3> QED
      BY <1>2, <1>5, <2>1, <3>1, <3>2, <3>3, PutLists
  <2>2. CASE IsAt(ent, a, id, num) /\ ent[a].aoe = val
    <3>1. x = RemoveAt(ent, a)
      BY <2>2
    <3> HIDE DEF x, a, ent
    <3>2. a \in DOMAIN ent
      BY <1>3, <1>6, <2>2 DEF IsAt
    <3>3. x = Without(ent, a, a + 1)
      BY <3>1 DEF RemoveAt, Without
    <3>4. a \in 1 .. Len(ent) + 1 /\ a + 1 \in a .. Len(ent) + 1
      BY <1>3, <3>2
    <3> QED
      BY <1>2, <3>3, <3>4, CutLists
  <2>3. CASE IsAt(ent, a, id, num) /\ ent[a].aoe # val
    <3>1. x = [ent EXCEPT ![a].aoe = @ - val]
      BY <2>3
    <3> HIDE DEF x, a, ent
    <3>2. a \in DOMAIN ent
      BY <1>3, <1>6, <2>3 DEF IsAt
    <3>3. ent[a].aoe \in Int
      <4>1. ent[a] \in UndoEntry
        BY <1>3, <3>2
      <4> QED
        BY <4>1 DEF UndoEntry
    <3>4. ent[a].aoe - val \in Int /\ ent[a].aoe - val # 0 /\ Abs(ent[a].aoe - val) <= SEMAEM
      BY <1>5, <2>3, <3>3
    <3>5. x = [ent EXCEPT ![a].aoe = ent[a].aoe - val]
      BY <3>1
    <3> QED
      BY <1>2, <3>2, <3>4, <3>5, ChangeLists
  <2> QED
    BY <2>1, <2>2, <2>3
<1> HIDE DEF x, a, ent
<1>9. new \in [Proc -> Structure(K)]
  <2>1. [has |-> TRUE, ent |-> x] \in Structure(K)
    BY <1>8 DEF Structure
  <2> QED
    BY <1>1, <2>1
<1>10. Cardinality({q \in Proc : new[q].has}) <= SEMMNU
  <2> DEFINE H == {q \in Proc : u[q].has}
  <2>1. {q \in Proc : new[q].has} = H \cup {p}
    BY <1>1
  <2>2. IsFiniteSet(H)
    BY FS_Subset
  <2>3. Cardinality(H) \in Nat /\ SEMMNU \in Nat
    <3> HIDE DEF H
    <3>1. Cardinality(H) \in Nat
      BY <2>2, FS_CardinalityType
    <3>2. SEMMNU \in Nat
      BY Constants
    <3> QED
      BY <3>1, <3>2
  <2>4. Cardinality(H) <= SEMMNU
    BY DEF Tables
  <2>5. p \in H <=> u[p].has
    OBVIOUS
  <2>6. Cardinality(H \cup {p}) = IF p \in H THEN Cardinality(H) ELSE Cardinality(H) + 1
    BY <2>2, FS_AddElement
  <2>7. u[p].has \/ Cardinality(H) < SEMMNU
    BY <1>5
  <2>8. Cardinality({q \in Proc : new[q].has}) = Cardinality(H \cup {p})
    BY <2>1
  <2> HIDE DEF H
  <2>9. Cardinality(H \cup {p}) <= SEMMNU
    BY <2>3, <2>4, <2>5, <2>6, <2>7
  <2> QED
    BY <2>8, <2>9
<1> QED
  BY <1>7, <1>9, <1>10 DEF Tables

(* semunrm(): the entries of the range are those from one place up to       *)
(* another.                                                                *)
LEMMA UnrmPlaces ==
  ASSUME NEW K \in SUBSET Key, NEW ent \in Lists(K), NEW id \in Nat, NEW low \in Nat, NEW high \in Nat,
         low <= high + 1, NEW a, a = Place(ent, id, low), NEW b, b = Place(ent, id, high + 1)
  PROVE  /\ a \in 1 .. Len(ent) + 1 /\ b \in a .. Len(ent) + 1
         /\ \A j \in DOMAIN ent : j < a => Before(ent[j], id, low)
         /\ a \in DOMAIN ent => ~Before(ent[a], id, low)
         /\ \A j \in DOMAIN ent : j < b => Before(ent[j], id, high + 1)
         /\ b \in DOMAIN ent => ~Before(ent[b], id, high + 1)
<1>1. /\ ent \in Seq(UndoEntry) /\ Len(ent) \in Nat /\ DOMAIN ent = 1 .. Len(ent)
      /\ \A i, j \in DOMAIN ent : i < j => Before(ent[i], ent[j].id, ent[j].num)
  BY DEF Lists, Sorted
<1>2. high + 1 \in Nat
  OBVIOUS
<1>3. /\ a \in 1 .. Len(ent) + 1
      /\ \A j \in DOMAIN ent : j < a => Before(ent[j], id, low)
      /\ a \in DOMAIN ent => ~Before(ent[a], id, low)
  BY <1>1, PlaceIs
<1>4. /\ b \in 1 .. Len(ent) + 1
      /\ \A j \in DOMAIN ent : j < b => Before(ent[j], id, high + 1)
      /\ b \in DOMAIN ent => ~Before(ent[b], id, high + 1)
  <2>1. ASSUME NEW m \in Nat, m = high + 1
        PROVE  /\ b \in 1 .. Len(ent) + 1
               /\ \A j \in DOMAIN ent : j < b => Before(ent[j], id, m)
               /\ b \in DOMAIN ent => ~Before(ent[b], id, m)
    <3>1. b = Place(ent, id, m)
      BY <2>1
    <3> QED
      BY <1>1, <3>1, PlaceIs
  <2> QED
    BY <1>2, <2>1
<1>6. \A e \in UndoEntry : Before(e, id, low) => Before(e, id, high + 1)
  BY DEF Before, UndoEntry
<1>7. a <= b
  <2>1. SUFFICES ASSUME b < a PROVE FALSE
    BY <1>3, <1>4
  <2>2. b \in DOMAIN ent
    BY <1>1, <1>3, <1>4, <2>1
  <2>3. ent[b] \in UndoEntry
    BY <1>1, <2>2
  <2> QED
    BY <1>3, <1>4, <1>6, <2>1, <2>2, <2>3
<1>8. b \in a .. Len(ent) + 1
  BY <1>1, <1>3, <1>4, <1>7
<1> QED
  BY Zenon, <1>3, <1>4, <1>8

(* semunrm(): what is left of a list, and that no entry of the range is.   *)
LEMMA SemunrmKeeps ==
  ASSUME NEW K \in SUBSET Key, NEW ent \in Lists(K), NEW id \in Nat, NEW low \in Nat, NEW high \in Nat,
         low <= high + 1, NEW t, t = Semunrm(ent, id, low, high)
  PROVE  /\ t \in Lists(K) /\ (ent = <<>> => t = <<>>)
         /\ \A i \in DOMAIN t : ~(t[i].id = id /\ low <= t[i].num /\ t[i].num <= high)
<1> DEFINE a == Place(ent, id, low)
           b == Place(ent, id, high + 1)
<1>1. /\ ent \in Seq(UndoEntry) /\ Len(ent) \in Nat /\ DOMAIN ent = 1 .. Len(ent)
      /\ \A i, j \in DOMAIN ent : i < j => Before(ent[i], ent[j].id, ent[j].num)
  BY DEF Lists, Sorted
<1>2. high + 1 \in Nat
  OBVIOUS
<1>5. t = Without(ent, a, b)
  BY DEF Semunrm, Without
<1>6. a = Place(ent, id, low) /\ b = Place(ent, id, high + 1)
  OBVIOUS
<1> HIDE DEF a, b
<1>3. /\ a \in 1 .. Len(ent) + 1 /\ b \in a .. Len(ent) + 1
      /\ \A j \in DOMAIN ent : j < a => Before(ent[j], id, low)
      /\ a \in DOMAIN ent => ~Before(ent[a], id, low)
      /\ \A j \in DOMAIN ent : j < b => Before(ent[j], id, high + 1)
      /\ b \in DOMAIN ent => ~Before(ent[b], id, high + 1)
  BY <1>6, UnrmPlaces
<1>4. /\ b \in 1 .. Len(ent) + 1
      /\ \A j \in DOMAIN ent : j < b => Before(ent[j], id, high + 1)
      /\ b \in DOMAIN ent => ~Before(ent[b], id, high + 1)
  BY <1>1, <1>3
<1>8. b \in a .. Len(ent) + 1
  BY <1>3
<1>9. /\ t \in Lists(K) /\ (ent = <<>> => t = <<>>)
      /\ Len(t) = Len(ent) - (b - a) /\ DOMAIN t = 1 .. Len(t)
      /\ \A i \in DOMAIN t : t[i] = IF i < a THEN ent[i] ELSE ent[i + (b - a)]
  <2>1. ent \in Lists(K) /\ a \in 1 .. Len(ent) + 1 /\ b \in a .. Len(ent) + 1 /\ t = Without(ent, a, b)
    BY Zenon, <1>3, <1>5
  <2> QED
    BY <2>1, CutLists
<1>10. /\ Len(t) = Len(ent) - (b - a) /\ DOMAIN t = 1 .. Len(t)
       /\ \A i \in DOMAIN t : t[i] = IF i < a THEN ent[i] ELSE ent[i + (b - a)]
  BY Zenon, <1>9
<1>11. ASSUME NEW i \in DOMAIN t, t[i].id = id, low <= t[i].num, t[i].num <= high PROVE FALSE
  <2>1. i \in Nat /\ a \in Nat /\ b \in Nat /\ i <= Len(ent) - (b - a)
    BY <1>3, <1>4, <1>10
  <2>2. CASE i < a
    <3>1. i \in DOMAIN ent /\ t[i] = ent[i] /\ ent[i] \in UndoEntry
      BY <1>1, <1>3, <1>10, <2>2
    <3>2. Before(t[i], id, low)
      BY <1>3, <2>2, <3>1
    <3> QED
      BY <1>11, <3>1, <3>2 DEF Before, UndoEntry
  <2>3. CASE ~(i < a)
    <3> DEFINE j == i + (b - a)
    <3>1. j \in DOMAIN ent /\ b <= j
      <4>1. j \in Int /\ b <= j /\ j <= Len(ent) /\ 1 <= j
        <5>1. 1 <= b /\ a <= i /\ Len(ent) \in Nat
          BY <1>1, <1>3, <1>4, <2>1, <2>3
        <5> QED
          BY <2>1, <5>1
      <4> QED
        BY <1>1, <4>1
    <3>2. t[i] = ent[j] /\ ent[j] \in UndoEntry
      BY <1>1, <1>10, <2>3, <3>1
    <3> HIDE DEF j
    <3>3. b \in DOMAIN ent
      BY <1>1, <1>4, <3>1
    <3>4. ent[b] \in UndoEntry
      BY <1>1, <3>3
    <3>5. ~Before(ent[j], id, high + 1)
      <4>1. CASE b = j
        BY <1>4, <3>3, <4>1
      <4>2. CASE b # j
        <5>1. b < j
          BY <1>1, <3>1, <3>3, <4>2
        <5>2. Before(ent[b], ent[j].id, ent[j].num)
          BY <1>1, <3>1, <3>3, <5>1
        <5> QED
          BY <1>2, <1>4, <3>2, <3>3, <3>4, <5>2, AfterTrans
      <4> QED
        BY <4>1, <4>2
    <3> QED
      BY <1>11, <3>2, <3>5 DEF Before, UndoEntry
  <2> QED
    BY <2>2, <2>3
<1> QED
  BY <1>9, <1>11

(* A list whose entries are all of K as well is a list of K.               *)
LEMMA ListsIn ==
  ASSUME NEW K \in SUBSET Key, NEW J \in SUBSET Key, NEW ent \in Lists(K),
         \A i \in DOMAIN ent : <<ent[i].id, ent[i].num>> \in J
  PROVE  ent \in Lists(J)
BY DEF Lists, Due

(* Taking entries away for all processes.                                  *)
LEMMA SemunrmAllKeeps ==
  ASSUME NEW K \in SUBSET Key, NEW J \in SUBSET Key, undo \in Tables(K),
         NEW id \in Nat, NEW low \in Nat, NEW high \in Nat, low <= high + 1,
         \A n \in Nat : <<id, n>> \in K \ J => low <= n /\ n <= high,
         \A k \in K : k[1] # id => k \in J
  PROVE  SemunrmAll(id, low, high) \in Tables(J)
<1> DEFINE new == SemunrmAll(id, low, high)
<1>1. ASSUME NEW p \in Proc
      PROVE  new[p] \in Structure(J) /\ new[p].has = undo[p].has
  <2> DEFINE ent == undo[p].ent
             t == Semunrm(ent, id, low, high)
  <2>1. undo[p] \in Structure(K)
    BY DEF Tables
  <2>2. /\ undo[p] \in [has : BOOLEAN, ent : Lists(K)] /\ ent \in Lists(K)
        /\ ~undo[p].has => ent = <<>>
    BY <2>1 DEF Structure
  <2>3. new[p] = [undo[p] EXCEPT !.ent = t]
    BY DEF SemunrmAll
  <2>4. new[p].has = undo[p].has /\ new[p].ent = t /\ new[p] = [has |-> undo[p].has, ent |-> t]
    BY <2>2, <2>3
  <2>5. t = Semunrm(ent, id, low, high)
    OBVIOUS
  <2> HIDE DEF t, ent
  <2>6. /\ t \in Lists(K) /\ (ent = <<>> => t = <<>>)
        /\ \A i \in DOMAIN t : ~(t[i].id = id /\ low <= t[i].num /\ t[i].num <= high)
    BY SMTT(30), <2>2, <2>5, SemunrmKeeps
  <2>7. ASSUME NEW i \in DOMAIN t PROVE <<t[i].id, t[i].num>> \in J
    <3>1. <<t[i].id, t[i].num>> \in K
      BY <2>6 DEF Lists, Due
    <3>2. t[i].id \in Nat /\ t[i].num \in Nat
      BY <3>1 DEF Key
    <3>3. CASE t[i].id # id
      BY <3>1, <3>3
    <3>4. CASE t[i].id = id
      BY <2>6, <3>1, <3>2, <3>4
    <3> QED
      BY <3>3, <3>4
  <2>8. t \in Lists(J)
    BY <2>6, <2>7, ListsIn
  <2>9. undo[p].has \in BOOLEAN
    BY <2>2
  <2>10. ~undo[p].has => t = <<>>
    BY <2>2, <2>6 DEF ent
  <2> QED
    BY <2>4, <2>8, <2>9, <2>10 DEF Structure
<1>2. new = [p \in Proc |-> new[p]]
  BY DEF SemunrmAll
<1> HIDE DEF new
<1>3. new \in [Proc -> Structure(J)]
  BY <1>1, <1>2
<1>4. {p \in Proc : new[p].has} = {p \in Proc : undo[p].has}
  BY <1>1
<1>5. Cardinality({p \in Proc : undo[p].has}) <= SEMMNU
  BY DEF Tables
<1> QED
  BY <1>3, <1>4, <1>5 DEF Tables, new

------------------------------------------------------------------------------
(* Semaphores: values and the counts of waiting processes.                 *)

Field == {"semval", "semncnt", "semzcnt"}
Mem == [Sema -> [Field -> Int]]
Channel == Sema \X Kind

LEMMA TopIs == Top \in Nat /\ SEMVMX \in Nat /\ SEMVMX <= Top /\ Top <= 65535
BY Constants DEF Top

(* A count or a value fits its field.                                      *)
LEMMA UshortRange ==
  ASSUME NEW v \in Int, 0 <= v, v <= 65535
  PROVE  v \in Ushort
<1>1. PICK n \in Int : n = 2 * MAXSHORT + 1 /\ v <= n
  BY DEF MAXSHORT
<1>2. v \in 0 .. n
  BY <1>1
<1> QED
  BY <1>1, <1>2 DEF Ushort

InRange(m) == \A i \in Sema : m[i].semval \in 0 .. Top
Counting(m) == \A i \in Sema, f \in Kind : m[i][f] \in Nat

(* From the counts of m to those of w: the channels of W are cleared.      *)
Clears(m, w, W) == \A i \in Sema, f \in Kind : w[i][f] = IF <<i, f>> \in W THEN 0 ELSE m[i][f]

LEMMA ZeroedMem ==
  ASSUME NEW m \in Mem, NEW C
  PROVE  Zeroed(m, C) \in Mem
BY DEF Zeroed, Field, Mem

LEMMA ValueMem ==
  ASSUME NEW m \in Mem, NEW i \in Sema, NEW v \in Int, NEW w, w = [m EXCEPT ![i].semval = v]
  PROVE  w \in Mem
BY DEF Mem, Field

LEMMA ValueIs ==
  ASSUME NEW m \in Mem, NEW i \in Sema, NEW v \in Int, NEW w, w = [m EXCEPT ![i].semval = v]
  PROVE  /\ w[i].semval = v
         /\ \A j \in Sema : j # i => w[j].semval = m[j].semval
         /\ \A j \in Sema, f \in Kind : w[j][f] = m[j][f]
<1>1. w[i].semval = v /\ \A j \in Sema, f \in Kind : w[j][f] = m[j][f]
  BY DEF Mem, Field, Kind
<1>2. \A j \in Sema : j # i => w[j] = m[j]
  BY DEF Mem, Field, Kind
<1> QED
  BY <1>1, <1>2

LEMMA CountMem ==
  ASSUME NEW m \in Mem, NEW i \in Sema, NEW k \in Kind, NEW v \in Int, NEW w, w = [m EXCEPT ![i][k] = v]
  PROVE  w \in Mem
BY DEF Mem, Field, Kind

LEMMA CountIs ==
  ASSUME NEW m \in Mem, NEW i \in Sema, NEW k \in Kind, NEW v \in Int, NEW w, w = [m EXCEPT ![i][k] = v]
  PROVE  \A j \in Sema, f \in Field : w[j][f] = IF j = i /\ f = k THEN v ELSE m[j][f]
BY DEF Mem, Field, Kind

LEMMA MemInt ==
  ASSUME NEW m \in Mem, NEW i \in Sema
  PROVE  m[i].semval \in Int /\ \A f \in Kind : m[i][f] \in Int
BY DEF Mem, Field, Kind

(* "if(p->semncnt) { p->semncnt = 0; wakeup(&p->semncnt); }": the channels *)
(* woken are exactly those whose counts are cleared.                       *)
LEMMA ZeroedClears ==
  ASSUME NEW m \in Mem, Counting(m), NEW C \in SUBSET Channel, NEW w, w = Zeroed(m, C)
  PROVE  /\ w \in Mem /\ Waited(m, C) \in SUBSET Channel
         /\ Clears(m, w, Waited(m, C))
         /\ \A i \in Sema : w[i].semval = m[i].semval
<1>1. w \in Mem
  BY ZeroedMem
<1>2. \A i \in Sema, f \in Field : w[i][f] = IF <<i, f>> \in C THEN 0 ELSE m[i][f]
  <2>1. \A i \in Sema, f \in Field : Zeroed(m, C)[i][f] = IF <<i, f>> \in C THEN 0 ELSE m[i][f]
    BY DEF Zeroed, Mem
  <2> QED
    BY <2>1
<1>3. ASSUME NEW i \in Sema, NEW f \in Kind
      PROVE  w[i][f] = IF <<i, f>> \in Waited(m, C) THEN 0 ELSE m[i][f]
  <2>1. w[i][f] = IF <<i, f>> \in C THEN 0 ELSE m[i][f]
    BY <1>2 DEF Field, Kind
  <2>2. <<i, f>> \in Waited(m, C) <=> <<i, f>> \in C /\ m[i][f] > 0
    BY DEF Waited
  <2>3. m[i][f] \in Nat
    BY DEF Counting
  <2> QED
    BY <2>1, <2>2, <2>3
<1>4. ASSUME NEW i \in Sema PROVE w[i].semval = m[i].semval
  <2>1. <<i, "semval">> \notin C
    BY DEF Channel, Kind
  <2> QED
    BY <1>2, <2>1 DEF Field
<1>5. Waited(m, C) \in SUBSET Channel
  BY DEF Waited
<1> QED
  BY <1>1, <1>3, <1>4, <1>5 DEF Clears

LEMMA ClearsTwice ==
  ASSUME NEW m, NEW w, NEW v, NEW W, NEW V, Clears(m, w, W), Clears(w, v, V)
  PROVE  Clears(m, v, W \cup V)
BY DEF Clears

LEMMA ClearsCounting ==
  ASSUME NEW m, NEW w, NEW W, Clears(m, w, W), Counting(m)
  PROVE  Counting(w)
<1>1. ASSUME NEW i \in Sema, NEW f \in Kind PROVE w[i][f] \in Nat
  <2>1. m[i][f] \in Nat /\ (w[i][f] = 0 \/ w[i][f] = m[i][f])
    BY DEF Clears, Counting
  <2> QED
    BY <2>1
<1> QED
  BY <1>1 DEF Counting

LEMMA ClearsNone ==
  ASSUME NEW m, NEW w, \A j \in Sema, f \in Kind : w[j][f] = m[j][f]
  PROVE  Clears(m, w, {})
BY DEF Clears

------------------------------------------------------------------------------
(* A pass of semop() over its vector.                                      *)

Why == {"", "EAGAIN", "wait", "error"}

(* What a pass may carry: with woken cleared from the counts there were,   *)
(* and values in their range while it goes forward.                        *)
Carried(K) == {st \in [m : Mem, u : Tables(K), woken : SUBSET Channel, n : Nat, why : Why] :
                 Clears(sem, st.m, st.woken)}
Forward(K) == {st \in Carried(K) : InRange(st.m)}

(* What an operation adds to the value of semaphore j.                     *)
Added(id, op, j) == IF j = Semp(id, op.num) THEN op.op ELSE 0

LEMMA ShortIs == \A x \in Short : x \in Int
<1>1. MAXSHORT \in Int
  BY DEF MAXSHORT
<1> QED
  BY <1>1 DEF Short

LEMMA SembufIs ==
  ASSUME NEW op \in Sembuf
  PROVE  op.num \in Nat /\ op.op \in Int /\ op.undo \in BOOLEAN
<1>1. op.num \in Nat /\ op.op \in Short /\ op.undo \in BOOLEAN
  BY DEF Sembuf
<1>2. \A x \in Short : x \in Int
  BY ShortIs
<1> QED
  BY <1>1, <1>2

LEMMA DoneKeeps ==
  ASSUME sem \in Mem, Counting(sem), NEW K \in SUBSET Key, NEW st \in Forward(K), NEW p \in Proc, NEW id, NEW op \in Sembuf,
         <<id, op.num>> \in K, Semp(id, op.num) \in Sema, IsFiniteSet(Proc),
         op.op # 0, ~MustWait(st, id, op), ~Refused(st, p, id, op),
         NEW new, new = Done(st, p, id, op)
  PROVE  /\ new \in Forward(K) /\ new.why = st.why /\ new.n = st.n + 1
         /\ \A j \in Sema : new.m[j].semval = st.m[j].semval + Added(id, op, j)
<1> DEFINE i == Semp(id, op.num)
           v == st.m[i].semval + op.op
           C == IF op.op > 0 THEN {<<i, "semncnt">>}
                ELSE IF v = 0 THEN {<<i, "semzcnt">>} ELSE {}
           x == [st.m EXCEPT ![i].semval = v]
           w == Zeroed(x, C)
           d == IF op.undo THEN Semaoe(st.u, p, op.op, id, op.num) ELSE st.u
<1>1. /\ st \in [m : Mem, u : Tables(K), woken : SUBSET Channel, n : Nat, why : Why]
      /\ st.m \in Mem /\ st.u \in Tables(K) /\ st.woken \in SUBSET Channel /\ st.n \in Nat
      /\ st.why \in Why /\ Clears(sem, st.m, st.woken) /\ InRange(st.m)
  BY DEF Forward, Carried
<1>2. new = [st EXCEPT !.m = w, !.u = d, !.woken = st.woken \cup Waited(st.m, C), !.n = st.n + 1]
  BY DEF Done
<1>3. i \in Sema /\ op.op \in Int /\ op.undo \in BOOLEAN /\ v \in Int
  <2>1. op.op \in Int /\ op.undo \in BOOLEAN
    BY SembufIs
  <2>2. i \in Sema
    OBVIOUS
  <2> HIDE DEF i
  <2>3. st.m[i].semval \in Int
    BY <1>1, <2>2, MemInt
  <2> QED
    BY <2>1, <2>2, <2>3
<1>4. C \in SUBSET Channel
  BY <1>3 DEF Channel, Kind
<1>5. d \in Tables(K)
  <2>1. CASE op.undo
    <3>1. ~AoeRefused(st.u, p, op.op, id, op.num)
      BY <2>1 DEF Refused
    <3>2. Semaoe(st.u, p, op.op, id, op.num) \in Tables(K)
      BY <1>1, <1>3, <3>1, SemaoeKeeps
    <3> QED
      BY <2>1, <3>2
  <2>2. CASE ~op.undo
    BY <1>1, <2>2
  <2> QED
    BY <2>1, <2>2
<1>6. v \in 0 .. Top
  <2>1. st.m[i].semval \in 0 .. Top
    BY <1>1, <1>3 DEF InRange
  <2>2. op.op > 0 => v <= SEMVMX
    <3>1. op.op > 0 => ~(v > SEMVMX)
      BY DEF Refused
    <3>2. SEMVMX \in Int
      BY TopIs
    <3> HIDE DEF v
    <3> QED
      BY <1>3, <3>1, <3>2
  <2>3. op.op < 0 => st.m[i].semval >= -op.op
    <3>1. op.op < 0 => ~(st.m[i].semval < -op.op)
      BY <1>3 DEF MustWait
    <3> HIDE DEF i
    <3>2. st.m[i].semval \in Int
      BY <2>1
    <3> QED
      BY <1>3, <3>1, <3>2
  <2> QED
    BY SMTT(30), <1>3, <2>1, <2>2, <2>3, TopIs
<1>7. x = [st.m EXCEPT ![i].semval = v] /\ w = Zeroed(x, C)
  OBVIOUS
<1> HIDE DEF i, v, C, x, w, d
<1>8. /\ x \in Mem /\ x[i].semval = v
      /\ \A j \in Sema : j # i => x[j].semval = st.m[j].semval
      /\ \A j \in Sema, f \in Kind : x[j][f] = st.m[j][f]
  <2>1. PICK m : m = st.m
    OBVIOUS
  <2>2. m \in Mem /\ x = [m EXCEPT ![i].semval = v]
    BY <1>1, <1>7, <2>1
  <2>3. x \in Mem
    BY <1>3, <2>2, ValueMem
  <2>4. /\ x[i].semval = v
        /\ \A j \in Sema : j # i => x[j].semval = m[j].semval
        /\ \A j \in Sema, f \in Kind : x[j][f] = m[j][f]
    BY SMTT(30), <1>3, <2>2, ValueIs
  <2> QED
    BY <2>1, <2>3, <2>4
<1>9. Counting(st.m) /\ Counting(x) /\ Clears(st.m, x, {})
  <2>1. Counting(st.m)
    BY <1>1, ClearsCounting
  <2> QED
    BY <1>8, <2>1 DEF Counting, Clears
<1>10. Waited(x, C) = Waited(st.m, C)
  BY <1>4, <1>8 DEF Waited, Channel
<1>11. /\ w \in Mem /\ Waited(x, C) \in SUBSET Channel /\ Clears(x, w, Waited(x, C))
       /\ \A j \in Sema : w[j].semval = x[j].semval
  <2>1. x \in Mem /\ Counting(x) /\ C \in SUBSET Channel /\ w = Zeroed(x, C)
    BY <1>4, <1>7, <1>8, <1>9
  <2> QED
    BY <2>1, ZeroedClears
<1> DEFINE W == st.woken \cup Waited(st.m, C)
<1>12. W \in SUBSET Channel
  BY <1>1, <1>10, <1>11
<1>13. Clears(sem, w, W)
  <2>1. Clears(sem, x, st.woken)
    BY ZenonT(60), <1>1, <1>8 DEF Clears
  <2> QED
    BY <1>10, <1>11, <2>1, ClearsTwice
<1>14. \A j \in Sema : w[j].semval = IF j = i THEN v ELSE st.m[j].semval
  BY <1>8, <1>11
<1>15. InRange(w)
  BY <1>1, <1>6, <1>14 DEF InRange
<1> HIDE DEF W
<1>16. new = [m |-> w, u |-> d, woken |-> W, n |-> st.n + 1, why |-> st.why]
  BY <1>1, <1>2 DEF W
<1>17. /\ new \in [m : Mem, u : Tables(K), woken : SUBSET Channel, n : Nat, why : Why]
       /\ new.m = w /\ new.woken = W /\ new.n = st.n + 1 /\ new.why = st.why
  BY <1>1, <1>5, <1>11, <1>12, <1>16
<1>18. ASSUME NEW j \in Sema PROVE new.m[j].semval = st.m[j].semval + Added(id, op, j)
  <2>1. st.m[j].semval \in Int
    BY <1>1, MemInt
  <2> QED
    BY <1>3, <1>14, <1>17, <2>1 DEF Added, i, v
<1> QED
  BY <1>13, <1>15, <1>17, <1>18 DEF Forward, Carried

(* A record of these parts is a state of a pass.                           *)
LEMMA StateIs ==
  ASSUME NEW K, NEW m \in Mem, NEW u \in Tables(K), NEW woken \in SUBSET Channel,
         NEW n \in Nat, NEW why \in Why, NEW new,
         new = [m |-> m, u |-> u, woken |-> woken, n |-> n, why |-> why]
  PROVE  /\ new \in [m : Mem, u : Tables(K), woken : SUBSET Channel, n : Nat, why : Why]
         /\ new.m = m /\ new.u = u /\ new.woken = woken /\ new.n = n /\ new.why = why
OBVIOUS

Going(st) == st.why = ""

(* What one operation does, and what taking it back does: old and new are  *)
(* the states around it.                                                   *)
Forth(old, new, id, op) ==
  /\ ~Going(old) => new = old
  /\ Going(old) /\ ~Going(new) => new.n = old.n /\ new.m = old.m
  /\ Going(old) /\ Going(new) =>
       /\ new.n = old.n + 1
       /\ \A j \in Sema : new.m[j].semval = old.m[j].semval + Added(id, op, j)
Back(old, new, id, op) ==
  /\ new.n = old.n /\ new.why = old.why
  /\ \A j \in Sema : new.m[j].semval = old.m[j].semval - Added(id, op, j)

(* One operation of a pass: it stops the pass, or adds to one value.       *)
LEMMA OneOpKeeps ==
  ASSUME sem \in Mem, Counting(sem), NEW K \in SUBSET Key, NEW st \in Forward(K), NEW p \in Proc, NEW id, NEW op \in Sembuf,
         <<id, op.num>> \in K, Semp(id, op.num) \in Sema, IsFiniteSet(Proc),
         NEW new, new = OneOp(st, p, id, op)
  PROVE  new \in Forward(K) /\ Forth(st, new, id, op)
<1>1. /\ st \in [m : Mem, u : Tables(K), woken : SUBSET Channel, n : Nat, why : Why]
      /\ st.m \in Mem /\ st.u \in Tables(K) /\ st.n \in Nat /\ st.woken \in SUBSET Channel
      /\ Clears(sem, st.m, st.woken) /\ InRange(st.m)
  BY DEF Forward, Carried, Forth, Going
<1>2. CASE st.why # ""
  BY <1>2 DEF OneOp, Forth, Going
<1>3. CASE st.why = "" /\ (MustWait(st, id, op) \/ Refused(st, p, id, op))
  <2>1. \E y : y \in Why /\ y # "" /\ new = [st EXCEPT !.why = y]
    <3>1. \A y \in {"EAGAIN", "wait", "error"} : y \in Why /\ y # ""
      BY DEF Why
    <3> QED
      BY <1>3, <3>1 DEF OneOp
  <2>2. PICK y : y \in Why /\ y # "" /\ new = [st EXCEPT !.why = y]
    BY <2>1
  <2>3. new = [m |-> st.m, u |-> st.u, woken |-> st.woken, n |-> st.n, why |-> y]
    BY <1>1, <2>2
  <2>4. /\ new \in [m : Mem, u : Tables(K), woken : SUBSET Channel, n : Nat, why : Why]
        /\ new.m = st.m /\ new.woken = st.woken /\ new.n = st.n /\ new.why # ""
    <3> DEFINE w == st.m
               d == st.u
               W == st.woken
               n == st.n
    <3>1. w \in Mem /\ d \in Tables(K) /\ n \in Nat /\ W \in SUBSET Channel
      BY <1>1
    <3>2. new = [m |-> w, u |-> d, woken |-> W, n |-> n, why |-> y] /\ y \in Why
      BY <2>2, <2>3
    <3> HIDE DEF w, d, W, n
    <3>3. /\ new \in [m : Mem, u : Tables(K), woken : SUBSET Channel, n : Nat, why : Why]
          /\ new.m = w /\ new.woken = W /\ new.n = n /\ new.why = y
      BY <3>1, <3>2, StateIs
    <3> QED
      BY <2>2, <3>3 DEF w, W, n
  <2> QED
    BY <1>1, <1>3, <2>4 DEF Forward, Carried, Forth, Going
<1>4. CASE st.why = "" /\ ~MustWait(st, id, op) /\ ~Refused(st, p, id, op) /\ op.op = 0
  <2>1. new = [st EXCEPT !.n = @ + 1]
    BY <1>4 DEF OneOp
  <2>2. /\ new \in [m : Mem, u : Tables(K), woken : SUBSET Channel, n : Nat, why : Why]
        /\ new.m = st.m /\ new.woken = st.woken /\ new.n = st.n + 1 /\ new.why = ""
    <3>1. new = [m |-> st.m, u |-> st.u, woken |-> st.woken, n |-> st.n + 1, why |-> ""]
      BY <1>1, <1>4, <2>1
    <3>2. "" \in Why
      BY DEF Why
    <3> QED
      <4> DEFINE w == st.m
                 d == st.u
                 W == st.woken
                 n == st.n + 1
                 y == ""
      <4>1. w \in Mem /\ d \in Tables(K) /\ n \in Nat /\ W \in SUBSET Channel
        BY <1>1
      <4>2. new = [m |-> w, u |-> d, woken |-> W, n |-> n, why |-> y] /\ y \in Why
        BY <3>1, <3>2
      <4> HIDE DEF w, d, W, n, y
      <4>3. /\ new \in [m : Mem, u : Tables(K), woken : SUBSET Channel, n : Nat, why : Why]
            /\ new.m = w /\ new.woken = W /\ new.n = n /\ new.why = y
        BY <4>1, <4>2, StateIs
      <4> QED
        BY <4>3 DEF w, W, n, y
  <2>3. ASSUME NEW j \in Sema PROVE new.m[j].semval = st.m[j].semval + Added(id, op, j)
    <3>1. st.m[j].semval \in Int
      BY <1>1, MemInt
    <3>2. Added(id, op, j) = 0
      BY <1>4 DEF Added
    <3>3. new.m[j].semval = st.m[j].semval
      BY <2>2
    <3> QED
      BY <3>1, <3>2, <3>3
  <2> QED
    BY <1>1, <1>4, <2>2, <2>3 DEF Forward, Carried, Forth, Going
<1>5. CASE st.why = "" /\ ~MustWait(st, id, op) /\ ~Refused(st, p, id, op) /\ op.op # 0
  <2>1. new = Done(st, p, id, op)
    BY <1>5 DEF OneOp
  <2>2. /\ new \in Forward(K) /\ new.why = st.why /\ new.n = st.n + 1
        /\ \A j \in Sema : new.m[j].semval = st.m[j].semval + Added(id, op, j)
    <3>1. op.op # 0 /\ ~MustWait(st, id, op) /\ ~Refused(st, p, id, op)
      BY <1>5
    <3> QED
      BY <2>1, <3>1, DoneKeeps
  <2> QED
    BY <1>5, <2>2 DEF Forth, Going
<1> QED
  BY <1>2, <1>3, <1>4, <1>5

(* One operation taken back.                                               *)
LEMMA TakenBackKeeps ==
  ASSUME NEW K \in SUBSET Key, NEW st \in Carried(K), NEW p \in Proc, NEW id, NEW op \in Sembuf,
         <<id, op.num>> \in K, Semp(id, op.num) \in Sema, IsFiniteSet(Proc),
         NEW new, new = TakenBack(st, p, id, op)
  PROVE  new \in Carried(K) /\ Back(st, new, id, op)
<1>1. /\ st \in [m : Mem, u : Tables(K), woken : SUBSET Channel, n : Nat, why : Why]
      /\ st.m \in Mem /\ st.u \in Tables(K) /\ st.n \in Nat /\ st.woken \in SUBSET Channel
      /\ st.why \in Why /\ Clears(sem, st.m, st.woken)
  BY DEF Carried
<1>2. op.op \in Int /\ op.undo \in BOOLEAN
  BY SembufIs
<1>3. CASE op.op = 0
  <2>1. new = st
    BY <1>3 DEF TakenBack
  <2>2. ASSUME NEW j \in Sema PROVE st.m[j].semval = st.m[j].semval - Added(id, op, j)
    <3>1. st.m[j].semval \in Int
      BY <1>1, MemInt
    <3>2. Added(id, op, j) = 0
      BY <1>3 DEF Added
    <3> QED
      BY <3>1, <3>2
  <2> QED
    BY <2>1, <2>2 DEF Back
<1>4. CASE op.op # 0
  <2> DEFINE i == Semp(id, op.num)
             v == st.m[i].semval - op.op
             w == [st.m EXCEPT ![i].semval = v]
             d == IF op.undo /\ ~AoeRefused(st.u, p, -op.op, id, op.num)
                  THEN Semaoe(st.u, p, -op.op, id, op.num) ELSE st.u
  <2>1. new = [st EXCEPT !.m[i].semval = v, !.u = d]
    BY <1>4 DEF TakenBack
  <2>2. d \in Tables(K)
    <3>1. -op.op \in Int /\ -op.op # 0
      BY <1>2, <1>4
    <3>2. CASE op.undo /\ ~AoeRefused(st.u, p, -op.op, id, op.num)
      <4>1. Semaoe(st.u, p, -op.op, id, op.num) \in Tables(K)
        BY <1>1, <3>1, <3>2, SemaoeKeeps
      <4> QED
        BY <3>2, <4>1
    <3>3. CASE ~(op.undo /\ ~AoeRefused(st.u, p, -op.op, id, op.num))
      BY <1>1, <3>3
    <3> QED
      BY <3>2, <3>3
  <2>3. i \in Sema /\ w = [st.m EXCEPT ![i].semval = v]
    OBVIOUS
  <2>4. new = [m |-> w, u |-> d, woken |-> st.woken, n |-> st.n, why |-> st.why]
    BY <1>1, <2>1
  <2> HIDE DEF d, w
  <2>5. v \in Int
    <3> HIDE DEF i
    <3>1. st.m[i].semval \in Int
      BY <1>1, <2>3, MemInt
    <3> QED
      BY <1>2, <3>1
  <2> HIDE DEF v, i
  <2>6. /\ w \in Mem /\ w[i].semval = v
        /\ \A j \in Sema : j # i => w[j].semval = st.m[j].semval
        /\ \A j \in Sema, f \in Kind : w[j][f] = st.m[j][f]
    BY SMTT(30), <1>1, <2>3, <2>5, ValueMem, ValueIs
  <2>7. Clears(sem, w, st.woken)
    BY ZenonT(60), <1>1, <2>6 DEF Clears
  <2>8. /\ new \in [m : Mem, u : Tables(K), woken : SUBSET Channel, n : Nat, why : Why]
        /\ new.m = w /\ new.woken = st.woken /\ new.n = st.n /\ new.why = st.why
    BY <1>1, <2>2, <2>4, <2>6
  <2>9. ASSUME NEW j \in Sema PROVE new.m[j].semval = st.m[j].semval - Added(id, op, j)
    <3>1. st.m[j].semval \in Int
      BY <1>1, MemInt
    <3> QED
      BY <1>2, <2>6, <2>8, <3>1 DEF Added, i, v
  <2> QED
    BY <2>7, <2>8, <2>9 DEF Carried, Back
<1> QED
  BY <1>3, <1>4

Iterates(f, S, b, F) == f \in [Nat -> S] /\ f[0] = b /\ \A n \in Nat : f[n + 1] = F[f[n]]

LEMMA IterationIs ==
  ASSUME NEW S, NEW b \in S, NEW F \in [S -> S]
  PROVE  \E f : Iterates(f, S, b, F)
<1>1. PICK f \in [Nat -> S] : f[0] = b /\ \A n \in Nat : f[n + 1] = F[f[n]]
  BY SMTT(30), Iteration
<1> QED
  BY <1>1 DEF Iterates

(* A function that goes on from one number to the next exists.             *)
Goes(N, S, F) == \A k \in 1 .. N, x \in S : F[<<k, x>>] \in S
Follows(g, N, S, b, F) ==
  g \in [0 .. N -> S] /\ g[0] = b /\ \A k \in 1 .. N : g[k] = F[<<k, g[k - 1]>>]

LEMMA Recursion ==
  ASSUME NEW N \in Nat, NEW S, NEW b \in S, NEW F, Goes(N, S, F)
  PROVE  \E g : Follows(g, N, S, b, F)
<1>0. SUFFICES ASSUME NEW P, P = Nat \X S PROVE \E g : Follows(g, N, S, b, F)
  OBVIOUS
<1> DEFINE Step == [x \in P |-> <<x[1] + 1, IF x[1] + 1 \in 1 .. N THEN F[<<x[1] + 1, x[2]>>] ELSE x[2]>>]
<1>1. Step \in [P -> P]
  <2>1. ASSUME NEW x \in P
        PROVE  <<x[1] + 1, IF x[1] + 1 \in 1 .. N THEN F[<<x[1] + 1, x[2]>>] ELSE x[2]>> \in P
    <3>1. x[1] \in Nat /\ x[2] \in S /\ x[1] + 1 \in Nat
      BY <1>0
    <3>2. x[1] + 1 \in 1 .. N => F[<<x[1] + 1, x[2]>>] \in S
      BY <3>1 DEF Goes
    <3> QED
      BY <1>0, <3>1, <3>2
  <2> QED
    BY <2>1
<1>2. <<0, b>> \in P
  BY <1>0
<1>3. \A x \in P : Step[x] = <<x[1] + 1, IF x[1] + 1 \in 1 .. N THEN F[<<x[1] + 1, x[2]>>] ELSE x[2]>>
  OBVIOUS
<1> HIDE DEF Step
<1>4. PICK f \in [Nat -> P] : f[0] = <<0, b>> /\ \A n \in Nat : f[n + 1] = Step[f[n]]
  <2> HIDE DEF Step
  <2> DEFINE c == <<0, b>>
  <2>1. c \in P
    BY <1>2
  <2> HIDE DEF c
  <2>2. \E f : Iterates(f, P, c, Step)
    BY <1>1, <2>1, IterationIs
  <2> QED
    BY <2>2 DEF Iterates, c
<1>5. \A n \in Nat : f[n] \in P /\ f[n][1] = n
  <2> DEFINE T == {n \in Nat : f[n][1] = n}
  <2>1. 0 \in T
    BY <1>4
  <2>2. ASSUME NEW n \in T PROVE n + 1 \in T
    <3>0. n \in Nat /\ f[n][1] = n
      OBVIOUS
    <3> HIDE DEF T
    <3>1. f[n] \in P /\ f[n][1] = n /\ f[n + 1] = Step[f[n]] /\ n + 1 \in Nat
      BY <1>4, <3>0
    <3>2. Step[f[n]][1] = f[n][1] + 1
      <4> DEFINE x == f[n]
      <4>1. x \in P
        BY <3>1
      <4> HIDE DEF x
      <4>2. Step[x] = <<x[1] + 1, IF x[1] + 1 \in 1 .. N THEN F[<<x[1] + 1, x[2]>>] ELSE x[2]>>
        BY <1>3, <4>1
      <4>3. Step[x][1] = x[1] + 1
        BY <4>2
      <4> QED
        BY <4>3 DEF x
    <3> QED
      BY <3>1, <3>2 DEF T
  <2>3. T \in SUBSET Nat
    OBVIOUS
  <2> HIDE DEF T
  <2>4. T = Nat
    BY <2>1, <2>2, <2>3, Upwards
  <2> QED
    BY <1>4, <2>4 DEF T
<1> DEFINE g == [k \in 0 .. N |-> f[k][2]]
<1>6. ASSUME NEW k \in 0 .. N PROVE f[k][2] \in S
  <2>1. f[k] \in Nat \X S
    BY <1>0, <1>5
  <2> QED
    BY <2>1
<1>7. g \in [0 .. N -> S] /\ g[0] = b
  BY <1>4, <1>6
<1>8. ASSUME NEW k \in 1 .. N PROVE g[k] = F[<<k, g[k - 1]>>]
  <2>1. k - 1 \in Nat /\ k - 1 \in 0 .. N /\ k \in 0 .. N /\ (k - 1) + 1 = k
    OBVIOUS
  <2>2. f[k - 1] \in P /\ f[k - 1][1] = k - 1 /\ f[k] = Step[f[k - 1]]
    BY <1>4, <1>5, <2>1
  <2>3. f[k][2] = F[<<k, f[k - 1][2]>>]
    BY <1>3, <2>1, <2>2
  <2> QED
    BY <2>1, <2>3
<1> HIDE DEF g
<1>9. Follows(g, N, S, b, F)
  BY <1>7, <1>8 DEF Follows
<1> QED
  BY <1>9

(* The states of a pass, one after each operation.                         *)
States(g, p, id, ops) ==
  g = [k \in 0 .. Len(ops) |-> IF k = 0 THEN Begin ELSE OneOp(g[k - 1], p, id, ops[k])]

(* The states of semundo(), one after each operation taken back.           *)
Backs(h, st, p, id, ops) ==
  h = [k \in 0 .. st.n |-> IF k = 0 THEN st ELSE TakenBack(h[k - 1], p, id, ops[st.n - k + 1])]

(* A call of semop() on a set whose semaphores exist.                      *)
Ready(K, p, id, ops) ==
  /\ sem \in Mem /\ Counting(sem) /\ InRange(sem)
  /\ K \in SUBSET Key /\ undo \in Tables(K) /\ p \in Proc /\ IsFiniteSet(Proc)
  /\ ops \in Seq(Sembuf)
  /\ \A i \in DOMAIN ops : <<id, ops[i].num>> \in K /\ Semp(id, ops[i].num) \in Sema

Operation(K, id) == {op \in Sembuf : <<id, op.num>> \in K /\ Semp(id, op.num) \in Sema}

LEMMA ReadyOp ==
  ASSUME NEW K, NEW p, NEW id, NEW ops, Ready(K, p, id, ops)
  PROVE  \A i \in 1 .. Len(ops) : ops[i] \in Operation(K, id)
<1>1. ops \in Seq(Sembuf) /\ DOMAIN ops = 1 .. Len(ops)
  BY DEF Ready
<1> QED
  BY <1>1 DEF Ready, Operation

LEMMA BeginForward ==
  ASSUME NEW K, NEW p, NEW id, NEW ops, Ready(K, p, id, ops)
  PROVE  Begin \in Forward(K) /\ Begin.n = 0 /\ Going(Begin) /\ Begin.m = sem
<1> DEFINE e == ""
           z == 0
           W == {}
<1>1. e \in Why /\ z \in Nat /\ W \in SUBSET Channel
  BY DEF Why
<1>2. Begin = [m |-> sem, u |-> undo, woken |-> W, n |-> z, why |-> e]
  BY DEF Begin
<1>3. sem \in Mem /\ undo \in Tables(K) /\ InRange(sem)
  BY DEF Ready
<1>4. Clears(sem, sem, W)
  BY DEF Clears
<1> HIDE DEF e, z, W
<1>5. /\ Begin \in [m : Mem, u : Tables(K), woken : SUBSET Channel, n : Nat, why : Why]
      /\ Begin.m = sem /\ Begin.woken = W /\ Begin.n = z /\ Begin.why = e
  BY <1>1, <1>2, <1>3, StateIs
<1> QED
  BY <1>3, <1>4, <1>5 DEF Forward, Carried, Going, e, z

LEMMA OneOpOf ==
  ASSUME NEW K, NEW p, NEW id, NEW ops, Ready(K, p, id, ops)
  PROVE  \A op \in Operation(K, id), st \in Forward(K) :
           OneOp(st, p, id, op) \in Forward(K) /\ Forth(st, OneOp(st, p, id, op), id, op)
<1>1. TAKE op \in Operation(K, id), st \in Forward(K)
<1>2. op \in Sembuf /\ <<id, op.num>> \in K /\ Semp(id, op.num) \in Sema
  BY DEF Operation
<1>3. sem \in Mem /\ Counting(sem) /\ K \in SUBSET Key /\ p \in Proc /\ IsFiniteSet(Proc)
  BY DEF Ready
<1> DEFINE new == OneOp(st, p, id, op)
<1>4. new = OneOp(st, p, id, op)
  OBVIOUS
<1> HIDE DEF new
<1>5. new \in Forward(K) /\ Forth(st, new, id, op)
  BY <1>2, <1>3, <1>4, OneOpKeeps
<1> QED
  BY <1>4, <1>5

LEMMA TakenBackOf ==
  ASSUME NEW K, NEW p, NEW id, NEW ops, Ready(K, p, id, ops)
  PROVE  \A op \in Operation(K, id), st \in Carried(K) :
           TakenBack(st, p, id, op) \in Carried(K) /\ Back(st, TakenBack(st, p, id, op), id, op)
<1>1. TAKE op \in Operation(K, id), st \in Carried(K)
<1>2. op \in Sembuf /\ <<id, op.num>> \in K /\ Semp(id, op.num) \in Sema
  BY DEF Operation
<1>3. K \in SUBSET Key /\ p \in Proc /\ IsFiniteSet(Proc)
  BY DEF Ready
<1> DEFINE new == TakenBack(st, p, id, op)
<1>4. new = TakenBack(st, p, id, op)
  OBVIOUS
<1> HIDE DEF new
<1>5. new \in Carried(K) /\ Back(st, new, id, op)
  BY <1>2, <1>3, <1>4, TakenBackKeeps
<1> QED
  BY <1>4, <1>5

(* They exist, and a pass ends in the last, or where semundo() leads.      *)
LEMMA StatesExist ==
  ASSUME NEW K, NEW p, NEW id, NEW ops, Ready(K, p, id, ops)
  PROVE  \E g : States(g, p, id, ops)
<1> DEFINE N == Len(ops)
           S == Forward(K)
           F == [x \in (1 .. N) \X S |-> OneOp(x[2], p, id, ops[x[1]])]
<1>1. N \in Nat
  BY DEF Ready
<1>2. ASSUME NEW k \in 1 .. N, NEW x \in S
      PROVE  F[<<k, x>>] = OneOp(x, p, id, ops[k]) /\ OneOp(x, p, id, ops[k]) \in S
  <2>1. F[<<k, x>>] = OneOp(x, p, id, ops[k])
    OBVIOUS
  <2>2. OneOp(x, p, id, ops[k]) \in Forward(K)
    BY ReadyOp, OneOpOf
  <2> QED
    BY <2>1, <2>2
<1>3. Begin \in S
  BY BeginForward
<1> HIDE DEF F, S, N
<1>4. PICK g \in [0 .. N -> S] : g[0] = Begin /\ \A k \in 1 .. N : g[k] = F[<<k, g[k - 1]>>]
  <2>1. Goes(N, S, F)
    BY <1>2 DEF Goes
  <2>2. \E g : Follows(g, N, S, Begin, F)
    BY <1>1, <1>3, <2>1, Recursion
  <2> QED
    BY <2>2 DEF Follows
<1>5. ASSUME NEW k \in 0 .. N
      PROVE  g[k] = IF k = 0 THEN Begin ELSE OneOp(g[k - 1], p, id, ops[k])
  <2>1. CASE k = 0
    BY <1>4, <2>1
  <2>2. CASE k # 0
    <3>1. k \in 1 .. N /\ k - 1 \in 0 .. N
      BY <1>1, <2>2
    <3>2. g[k - 1] \in S
      BY <3>1
    <3> QED
      BY <1>2, <1>4, <2>2, <3>1, <3>2
  <2> QED
    BY <2>1, <2>2
<1>6. g = [k \in 0 .. N |-> IF k = 0 THEN Begin ELSE OneOp(g[k - 1], p, id, ops[k])]
  BY <1>5
<1> QED
  BY <1>6 DEF States, N

LEMMA BacksExist ==
  ASSUME NEW K, NEW p, NEW id, NEW ops, Ready(K, p, id, ops), NEW st \in Carried(K), st.n <= Len(ops)
  PROVE  \E h : Backs(h, st, p, id, ops)
<1> DEFINE N == st.n
           S == Carried(K)
           F == [x \in (1 .. N) \X S |-> TakenBack(x[2], p, id, ops[N - x[1] + 1])]
<1>1. N \in Nat /\ Len(ops) \in Nat /\ N <= Len(ops)
  BY DEF Ready, Carried
<1>2. ASSUME NEW k \in 1 .. N, NEW x \in S
      PROVE  F[<<k, x>>] = TakenBack(x, p, id, ops[N - k + 1]) /\ TakenBack(x, p, id, ops[N - k + 1]) \in S
  <2>1. F[<<k, x>>] = TakenBack(x, p, id, ops[N - k + 1])
    OBVIOUS
  <2> DEFINE i == N - k + 1
  <2>2. i \in 1 .. Len(ops)
    BY <1>1
  <2> HIDE DEF i
  <2>3. ops[i] \in Operation(K, id)
    BY <2>2, ReadyOp
  <2>5. TakenBack(x, p, id, ops[i]) \in Carried(K)
    BY <2>3, TakenBackOf
  <2> QED
    BY <2>1, <2>5 DEF i
<1>3. st \in S
  OBVIOUS
<1> HIDE DEF F, S, N
<1>4. PICK h \in [0 .. N -> S] : h[0] = st /\ \A k \in 1 .. N : h[k] = F[<<k, h[k - 1]>>]
  <2>1. Goes(N, S, F)
    BY <1>2 DEF Goes
  <2>2. \E h : Follows(h, N, S, st, F)
    BY <1>1, <1>3, <2>1, Recursion
  <2> QED
    BY <2>2 DEF Follows
<1>5. ASSUME NEW k \in 0 .. N
      PROVE  h[k] = IF k = 0 THEN st ELSE TakenBack(h[k - 1], p, id, ops[N - k + 1])
  <2>1. CASE k = 0
    BY <1>4, <2>1
  <2>2. CASE k # 0
    <3>1. k \in 1 .. N /\ k - 1 \in 0 .. N
      BY <1>1, <2>2
    <3>2. h[k - 1] \in S
      BY <3>1
    <3> QED
      BY <1>2, <1>4, <2>2, <3>1, <3>2
  <2> QED
    BY <2>1, <2>2
<1>6. h = [k \in 0 .. N |-> IF k = 0 THEN st ELSE TakenBack(h[k - 1], p, id, ops[N - k + 1])]
  BY <1>5
<1> QED
  BY <1>6 DEF Backs, N

LEMMA PassIs ==
  ASSUME NEW K, NEW p, NEW id, NEW ops, Ready(K, p, id, ops)
  PROVE  \E g : /\ States(g, p, id, ops)
                /\ Pass(p, id, ops) = IF Going(g[Len(ops)]) THEN g[Len(ops)]
                                      ELSE Semundo(g[Len(ops)], p, id, ops)
<1> DEFINE g == CHOOSE a : a = [k \in 0 .. Len(ops) |->
                                  IF k = 0 THEN Begin ELSE OneOp(a[k - 1], p, id, ops[k])]
<1>1. States(g, p, id, ops)
  <2>1. \E a : a = [k \in 0 .. Len(ops) |-> IF k = 0 THEN Begin ELSE OneOp(a[k - 1], p, id, ops[k])]
    BY StatesExist DEF States
  <2>2. g = [k \in 0 .. Len(ops) |-> IF k = 0 THEN Begin ELSE OneOp(g[k - 1], p, id, ops[k])]
    BY <2>1
  <2> QED
    BY <2>2 DEF States
<1>2. Pass(p, id, ops) = IF Going(g[Len(ops)]) THEN g[Len(ops)]
                         ELSE Semundo(g[Len(ops)], p, id, ops)
  BY DEF Pass, Going
<1> QED
  BY <1>1, <1>2

LEMMA SemundoIs ==
  ASSUME NEW K, NEW p, NEW id, NEW ops, Ready(K, p, id, ops), NEW st \in Carried(K), st.n <= Len(ops)
  PROVE  \E h : Backs(h, st, p, id, ops) /\ Semundo(st, p, id, ops) = h[st.n]
<1> DEFINE h == CHOOSE a : a = [k \in 0 .. st.n |->
                                  IF k = 0 THEN st ELSE TakenBack(a[k - 1], p, id, ops[st.n - k + 1])]
<1>1. Backs(h, st, p, id, ops)
  <2>1. \E a : a = [k \in 0 .. st.n |->
                      IF k = 0 THEN st ELSE TakenBack(a[k - 1], p, id, ops[st.n - k + 1])]
    BY BacksExist DEF Backs
  <2>2. h = [k \in 0 .. st.n |->
               IF k = 0 THEN st ELSE TakenBack(h[k - 1], p, id, ops[st.n - k + 1])]
    BY <2>1
  <2> QED
    BY <2>2 DEF Backs
<1>2. Semundo(st, p, id, ops) = h[st.n]
  BY DEF Semundo
<1> QED
  BY <1>1, <1>2

(* After k operations: all k were done, or the pass stopped before one and *)
(* holds what it held then.                                                *)
Reached(g, k) ==
  IF Going(g[k]) THEN g[k].n = k /\ \A i \in 0 .. k : Going(g[i])
  ELSE g[k].n < k /\ g[k].m = g[g[k].n].m /\ \A i \in 0 .. g[k].n : Going(g[i])

LEMMA Forwards ==
  ASSUME NEW K, NEW p, NEW id, NEW ops, Ready(K, p, id, ops), NEW g, States(g, p, id, ops)
  PROVE  /\ g[0] = Begin
         /\ \A k \in 0 .. Len(ops) : g[k] \in Forward(K) /\ Reached(g, k)
         /\ \A k \in 1 .. Len(ops) : Forth(g[k - 1], g[k], id, ops[k])
<1>1. Len(ops) \in Nat
  BY DEF Ready
<1>2. g[0] = Begin /\ \A k \in 1 .. Len(ops) : g[k] = OneOp(g[k - 1], p, id, ops[k])
  <2>1. \A k \in 0 .. Len(ops) : g[k] = IF k = 0 THEN Begin ELSE OneOp(g[k - 1], p, id, ops[k])
    BY DEF States
  <2>2. \A k \in 1 .. Len(ops) : k \in 0 .. Len(ops) /\ k # 0
    OBVIOUS
  <2>3. 0 \in 0 .. Len(ops)
    BY <1>1
  <2> QED
    BY <2>1, <2>2, <2>3
<1>3. \A k \in 1 .. Len(ops) : ops[k] \in Operation(K, id)
  BY ReadyOp
<1>4. \A op \in Operation(K, id), st \in Forward(K) :
        OneOp(st, p, id, op) \in Forward(K) /\ Forth(st, OneOp(st, p, id, op), id, op)
  BY OneOpOf
<1> DEFINE T == {k \in Nat : k <= Len(ops) => g[k] \in Forward(K) /\ Reached(g, k)}
<1>5. 0 \in T
  <2>1. Begin \in Forward(K) /\ Begin.n = 0 /\ Going(Begin)
    BY BeginForward
  <2>2. \A i \in 0 .. 0 : i = 0
    OBVIOUS
  <2>3. Reached(g, 0)
    BY <1>2, <2>1, <2>2 DEF Reached
  <2> QED
    BY <1>2, <2>1, <2>3
<1>6. ASSUME NEW k \in T PROVE k + 1 \in T
  <2>1. SUFFICES ASSUME k + 1 <= Len(ops) PROVE g[k + 1] \in Forward(K) /\ Reached(g, k + 1)
    OBVIOUS
  <2>2. k \in Nat /\ k + 1 \in 1 .. Len(ops) /\ (k + 1) - 1 = k
    BY <1>1, <2>1
  <2>3. g[k] \in Forward(K) /\ Reached(g, k)
    BY <1>1, <2>1, <2>2
  <2> HIDE DEF T
  <2>4. g[k + 1] = OneOp(g[k], p, id, ops[k + 1])
    BY <1>2, <2>2
  <2>5. g[k + 1] \in Forward(K) /\ Forth(g[k], g[k + 1], id, ops[k + 1])
    BY <1>3, <1>4, <2>2, <2>3, <2>4
  <2>6. CASE ~Going(g[k])
    <3>1. g[k + 1] = g[k]
      BY <2>5, <2>6 DEF Forth
    <3>2. g[k].n < k /\ g[k].m = g[g[k].n].m /\ \A i \in 0 .. g[k].n : Going(g[i])
      BY <2>3, <2>6 DEF Reached
    <3>3. g[k].n < k + 1
      <4>1. g[k].n \in Nat
        BY <2>3 DEF Forward, Carried
      <4> QED
        BY <2>2, <3>2, <4>1
    <3>4. Reached(g, k + 1)
      BY <2>6, <3>1, <3>2, <3>3 DEF Reached
    <3> QED
      BY <2>5, <3>4
  <2>7. CASE Going(g[k])
    <3>1. g[k].n = k /\ \A i \in 0 .. k : Going(g[i])
      BY <2>3, <2>7 DEF Reached
    <3>2. CASE ~Going(g[k + 1])
      <4>1. g[k + 1].n = k /\ g[k + 1].m = g[k].m
        BY <2>5, <2>7, <3>1, <3>2 DEF Forth
      <4>2. k < k + 1
        BY <2>2
      <4>3. Reached(g, k + 1)
        BY <3>1, <3>2, <4>1, <4>2 DEF Reached
      <4> QED
        BY <2>5, <4>3
    <3>3. CASE Going(g[k + 1])
      <4>1. g[k + 1].n = k + 1
        BY <2>5, <2>7, <3>1, <3>3 DEF Forth
      <4>2. \A i \in 0 .. k + 1 : i \in 0 .. k \/ i = k + 1
        BY <2>2
      <4>3. \A i \in 0 .. k + 1 : Going(g[i])
        BY <3>1, <3>3, <4>2
      <4>4. Reached(g, k + 1)
        BY <3>3, <4>1, <4>3 DEF Reached
      <4> QED
        BY <2>5, <4>4
    <3> QED
      BY <3>2, <3>3
  <2> QED
    BY <2>6, <2>7
<1>7. T \in SUBSET Nat
  OBVIOUS
<1> HIDE DEF T
<1>8. T = Nat
  BY <1>5, <1>6, <1>7, Upwards
<1>9. \A k \in 0 .. Len(ops) : g[k] \in Forward(K) /\ Reached(g, k)
  <2>1. \A k \in 0 .. Len(ops) : k \in Nat /\ k <= Len(ops)
    BY <1>1
  <2> QED
    BY <1>8, <2>1 DEF T
<1>10. ASSUME NEW k \in 1 .. Len(ops) PROVE Forth(g[k - 1], g[k], id, ops[k])
  <2>1. k - 1 \in 0 .. Len(ops)
    BY <1>1
  <2>2. g[k - 1] \in Forward(K)
    BY <1>9, <2>1
  <2> QED
    BY <1>2, <1>3, <1>4, <2>2
<1> QED
  BY <1>2, <1>9, <1>10

(* semundo() ends with the values the pass began with.                     *)
LEMMA Backwards ==
  ASSUME NEW K, NEW p, NEW id, NEW ops, Ready(K, p, id, ops), NEW g, States(g, p, id, ops),
         NEW st, st = g[Len(ops)], ~Going(st), NEW h, Backs(h, st, p, id, ops)
  PROVE  /\ st.n \in Nat /\ st.n < Len(ops)
         /\ h[st.n] \in Carried(K) /\ h[st.n].n = st.n /\ h[st.n].why = st.why /\ ~Going(h[st.n])
         /\ \A j \in Sema : h[st.n].m[j].semval = sem[j].semval
<1> DEFINE n == st.n
<1>1. Len(ops) \in Nat /\ Len(ops) \in 0 .. Len(ops)
  BY DEF Ready
<1>2. /\ g[0] = Begin
      /\ \A k \in 0 .. Len(ops) : g[k] \in Forward(K) /\ Reached(g, k)
      /\ \A k \in 1 .. Len(ops) : Forth(g[k - 1], g[k], id, ops[k])
  BY Forwards
<1>3. st \in Forward(K) /\ st \in Carried(K) /\ n \in Nat
  BY <1>1, <1>2 DEF Forward, Carried
<1>4. n < Len(ops) /\ st.m = g[n].m /\ \A i \in 0 .. n : Going(g[i])
  BY <1>1, <1>2 DEF Reached
<1>5. h[0] = st /\ \A k \in 1 .. n : h[k] = TakenBack(h[k - 1], p, id, ops[n - k + 1])
  <2>1. \A k \in 0 .. n : h[k] = IF k = 0 THEN st ELSE TakenBack(h[k - 1], p, id, ops[n - k + 1])
    BY DEF Backs
  <2>2. \A k \in 1 .. n : k \in 0 .. n /\ k # 0
    OBVIOUS
  <2>3. 0 \in 0 .. n
    BY <1>3
  <2> HIDE DEF n
  <2> QED
    BY <2>1, <2>2, <2>3
<1> HIDE DEF n
<1>6. ASSUME NEW k \in 1 .. n, NEW j \in Sema
      PROVE  g[k].m[j].semval = g[k - 1].m[j].semval + Added(id, ops[k], j)
  <2>1. k \in 1 .. Len(ops) /\ k \in 0 .. n /\ k - 1 \in 0 .. n
    BY <1>1, <1>3, <1>4
  <2>2. Forth(g[k - 1], g[k], id, ops[k]) /\ Going(g[k - 1]) /\ Going(g[k])
    BY <1>2, <1>4, <2>1
  <2> QED
    BY <2>2 DEF Forth
<1> DEFINE Same(k) == /\ h[k] \in Carried(K) /\ h[k].n = n /\ h[k].why = st.why
                      /\ \A j \in Sema : h[k].m[j].semval = g[n - k].m[j].semval
           T == {k \in Nat : k <= n => Same(k)}
<1>7. 0 \in T
  <2>1. n - 0 = n
    BY <1>3
  <2>2. Same(0)
    BY <1>3, <1>4, <1>5, <2>1 DEF n
  <2> HIDE DEF Same
  <2> QED
    BY <2>2
<1>8. ASSUME NEW k \in T PROVE k + 1 \in T
  <2> HIDE DEF Same
  <2>1. SUFFICES ASSUME k + 1 <= n PROVE Same(k + 1)
    OBVIOUS
  <2>2. k \in Nat /\ k <= n /\ Same(k)
    BY <1>3, <2>1
  <2> HIDE DEF T
  <2> DEFINE i == n - k
  <2>3. /\ i \in Nat /\ i \in 1 .. n /\ i \in 1 .. Len(ops) /\ i - 1 = n - (k + 1)
        /\ k + 1 \in 1 .. n /\ (k + 1) - 1 = k /\ n - (k + 1) + 1 = i
    BY <1>1, <1>3, <1>4, <2>1, <2>2
  <2>4. h[k + 1] = TakenBack(h[k], p, id, ops[i])
    BY <1>5, <2>3
  <2>5. /\ h[k] \in Carried(K) /\ h[k].n = n /\ h[k].why = st.why
        /\ \A j \in Sema : h[k].m[j].semval = g[i].m[j].semval
    BY <2>2 DEF Same
  <2> HIDE DEF i
  <2>6. h[k + 1] \in Carried(K) /\ Back(h[k], h[k + 1], id, ops[i])
    <3>1. ops[i] \in Operation(K, id)
      BY <2>3, ReadyOp
    <3>2. \A op \in Operation(K, id), x \in Carried(K) :
            TakenBack(x, p, id, op) \in Carried(K) /\ Back(x, TakenBack(x, p, id, op), id, op)
      BY TakenBackOf
    <3> QED
      BY <2>4, <2>5, <3>1, <3>2
  <2>7. ASSUME NEW j \in Sema PROVE h[k + 1].m[j].semval = g[i - 1].m[j].semval
    <3> DEFINE a == Added(id, ops[i], j)
               x == g[i - 1].m[j].semval
    <3>1. h[k + 1].m[j].semval = h[k].m[j].semval - a
      BY <2>6 DEF Back
    <3>2. h[k].m[j].semval = x + a
      BY <1>6, <2>3, <2>5
    <3>3. x \in Int
      <4>1. i - 1 \in 0 .. Len(ops)
        BY <1>1, <2>3
      <4>2. g[i - 1].m \in Mem
        BY <1>2, <4>1 DEF Forward, Carried
      <4> QED
        BY <4>2, MemInt
    <3>4. a \in Int
      <4>1. ops[i] \in Sembuf
        BY <2>3, ReadyOp DEF Operation
      <4>2. ops[i].op \in Int
        BY <4>1, SembufIs
      <4> QED
        BY <4>2 DEF Added
    <3> HIDE DEF a, x
    <3>5. h[k + 1].m[j].semval = x
      BY <3>1, <3>2, <3>3, <3>4
    <3> QED
      BY <3>5 DEF x
  <2>8. h[k + 1].n = n /\ h[k + 1].why = st.why
    BY <2>5, <2>6 DEF Back
  <2> QED
    BY <2>3, <2>6, <2>7, <2>8 DEF Same
<1>9. T \in SUBSET Nat
  OBVIOUS
<1> HIDE DEF T
<1>10. T = Nat
  BY <1>7, <1>8, <1>9, Upwards
<1> HIDE DEF Same
<1>11. Same(n)
  <2>1. n <= n
    BY <1>3
  <2> QED
    BY <1>3, <1>10, <2>1 DEF T
<1>12. n - n = 0
  BY <1>3
<1>13. Begin.m = sem
  BY DEF Begin
<1>14. /\ h[n] \in Carried(K) /\ h[n].n = n /\ h[n].why = st.why
       /\ \A j \in Sema : h[n].m[j].semval = sem[j].semval
  BY <1>2, <1>11, <1>12, <1>13 DEF Same
<1>15. ~Going(h[n])
  BY <1>14 DEF Going
<1> QED
  BY <1>3, <1>4, <1>14, <1>15 DEF n

(* What a pass leaves: counts are only cleared where somebody is woken,    *)
(* undo structures stay well formed, values stay in their range, and are   *)
(* what they were if the pass stopped.                                     *)
LEMMA PassKeeps ==
  ASSUME NEW K, NEW p, NEW id, NEW ops, Ready(K, p, id, ops), NEW st, st = Pass(p, id, ops)
  PROVE  /\ st \in Forward(K)
         /\ ~Going(st) => /\ st.n + 1 \in DOMAIN ops
                           /\ \A j \in Sema : st.m[j].semval = sem[j].semval
<1>1. PICK g : /\ States(g, p, id, ops)
               /\ st = IF Going(g[Len(ops)]) THEN g[Len(ops)]
                       ELSE Semundo(g[Len(ops)], p, id, ops)
  BY PassIs
<1> DEFINE end == g[Len(ops)]
<1>2. Len(ops) \in Nat /\ Len(ops) \in 0 .. Len(ops) /\ DOMAIN ops = 1 .. Len(ops)
  BY DEF Ready
<1>3. end \in Forward(K) /\ end \in Carried(K)
  BY <1>1, <1>2, Forwards DEF Forward
<1>4. CASE Going(end)
  BY <1>1, <1>3, <1>4
<1>5. CASE ~Going(end)
  <2>1. st = Semundo(end, p, id, ops)
    BY <1>1, <1>5
  <2>2. end.n \in Nat /\ end.n < Len(ops)
    <3>1. Reached(g, Len(ops))
      BY <1>1, <1>2, Forwards
    <3>2. end.n \in Nat
      BY <1>3 DEF Carried
    <3> QED
      BY <1>5, <3>1, <3>2 DEF Reached
  <2>3. end = g[Len(ops)]
    OBVIOUS
  <2> HIDE DEF end
  <2>4. end.n <= Len(ops)
    BY <1>2, <2>2
  <2>5. PICK h : Backs(h, end, p, id, ops) /\ st = h[end.n]
    BY <1>3, <2>1, <2>4, SemundoIs
  <2>6. /\ h[end.n] \in Carried(K) /\ h[end.n].n = end.n /\ ~Going(h[end.n])
        /\ \A j \in Sema : h[end.n].m[j].semval = sem[j].semval
    BY <1>1, <1>5, <2>3, <2>5, Backwards
  <2>7. InRange(st.m)
    BY <2>5, <2>6 DEF InRange, Ready
  <2>8. st.n + 1 \in DOMAIN ops
    BY <1>2, <2>2, <2>5, <2>6
  <2> QED
    BY <2>5, <2>6, <2>7, <2>8 DEF Forward
<1> QED
  BY <1>4, <1>5

------------------------------------------------------------------------------
(* Processes that wait: m holds the counts, x the places, f the frames.    *)

Where == {"user", "asleep", "ready", "interrupted"}

Idle(x, p)   == x[p] = "user"
Asleep(x, p) == x[p] = "asleep"
Woken(x, p)  == x[p] = "ready"
Leaving(x, p) == x[p] = "interrupted"

ChanOf(f, p) == <<f[p].semp, f[p].kind>>

(* Who may still be counted in channel c.                                  *)
Waiters(x, f, c) == {p \in Proc : (Asleep(x, p) \/ Leaving(x, p)) /\ ChanOf(f, p) = c}

Calls(x, f) ==
  /\ x \in [Proc -> Where] /\ f \in [Proc -> Frame \cup {NoCall}]
  /\ \A p \in Proc : (Idle(x, p) <=> f[p] = NoCall) /\ (f[p] # NoCall => f[p].semp \in Sema)

(* A sleeper is counted, and a count counts nobody twice.                  *)
Counts(m, x, f) ==
  /\ Counting(m)
  /\ \A p \in Proc : Asleep(x, p) => m[f[p].semp][f[p].kind] > 0
  /\ \A i \in Sema, k \in Kind : m[i][k] <= Cardinality(Waiters(x, f, <<i, k>>))

LEMMA ProcFinite == IsFiniteSet(Proc) /\ Cardinality(Proc) <= 65535
BY SemAssumption DEF MAXSHORT

LEMMA WaitersFinite ==
  ASSUME NEW x, NEW f, NEW c
  PROVE  IsFiniteSet(Waiters(x, f, c)) /\ Cardinality(Waiters(x, f, c)) \in Nat
<1>1. Waiters(x, f, c) \in SUBSET Proc
  BY DEF Waiters
<1>2. IsFiniteSet(Waiters(x, f, c))
  BY <1>1, ProcFinite, FS_Subset
<1> QED
  BY <1>2, FS_CardinalityType

(* The places differ.                                                      *)
LEMMA Places ==
  ASSUME NEW x \in [Proc -> Where], NEW p \in Proc
  PROVE  /\ Idle(x, p) \/ Asleep(x, p) \/ Woken(x, p) \/ Leaving(x, p)
         /\ ~(Idle(x, p) /\ Asleep(x, p)) /\ ~(Idle(x, p) /\ Woken(x, p)) /\ ~(Idle(x, p) /\ Leaving(x, p))
         /\ ~(Asleep(x, p) /\ Woken(x, p)) /\ ~(Asleep(x, p) /\ Leaving(x, p)) /\ ~(Woken(x, p) /\ Leaving(x, p))
BY DEF Where, Idle, Asleep, Woken, Leaving

LEMMA FrameIs ==
  ASSUME NEW r \in Frame
  PROVE  r.id \in Nat /\ r.ops \in Vector /\ r.semp \in Int /\ r.kind \in Kind
BY DEF Frame

LEMMA CallIs ==
  ASSUME NEW x, NEW f, Calls(x, f), NEW p \in Proc, ~Idle(x, p)
  PROVE  f[p] \in Frame /\ f[p] # NoCall /\ f[p].semp \in Sema /\ f[p].kind \in Kind
<1>1. f[p] # NoCall /\ f[p] \in Frame /\ f[p].semp \in Sema
  BY DEF Calls
<1> QED
  BY <1>1, FrameIs

(* What wakeup() does to one process.                                      *)
LEMMA WakeupIs ==
  ASSUME NEW C, pc \in [Proc -> Where], NEW x, x = Wakeup(C)
  PROVE  /\ x \in [Proc -> Where]
         /\ \A p \in Proc : IF Asleep(pc, p) /\ ChanOf(frame, p) \in C THEN Woken(x, p) ELSE x[p] = pc[p]
<1>1. \A p \in Proc : x[p] = IF Asleep(pc, p) /\ ChanOf(frame, p) \in C THEN "ready" ELSE pc[p]
  BY DEF Wakeup, Asleep, Chan, ChanOf
<1>2. x \in [Proc -> Where]
  BY DEF Wakeup, Where
<1> QED
  BY <1>1, <1>2 DEF Woken

(* wakeup() with the clearing of the counts.                               *)
LEMMA WakeKeeps ==
  ASSUME Calls(pc, frame), Counts(sem, pc, frame),
         NEW m, NEW W \in SUBSET Channel, Clears(sem, m, W), NEW x, x = Wakeup(W)
  PROVE  Calls(x, frame) /\ Counts(m, x, frame)
<1>1. pc \in [Proc -> Where] /\ frame \in [Proc -> Frame \cup {NoCall}]
  BY DEF Calls
<1>2. /\ x \in [Proc -> Where]
      /\ \A p \in Proc : IF Asleep(pc, p) /\ ChanOf(frame, p) \in W THEN Woken(x, p) ELSE x[p] = pc[p]
  BY <1>1, WakeupIs
<1>3. ASSUME NEW p \in Proc
      PROVE  /\ Idle(x, p) <=> Idle(pc, p)
             /\ Leaving(x, p) <=> Leaving(pc, p)
             /\ Asleep(x, p) <=> Asleep(pc, p) /\ ChanOf(frame, p) \notin W
  <2>1. CASE Asleep(pc, p) /\ ChanOf(frame, p) \in W
    BY <1>1, <1>2, <2>1, Places
  <2>2. CASE ~(Asleep(pc, p) /\ ChanOf(frame, p) \in W)
    <3>1. x[p] = pc[p]
      BY <1>2, <2>2
    <3> QED
      BY <2>2, <3>1 DEF Idle, Leaving, Asleep
  <2> QED
    BY <2>1, <2>2
<1>4. Calls(x, frame)
  BY <1>1, <1>2, <1>3 DEF Calls
<1>5. Counting(m)
  BY ClearsCounting DEF Counts
<1>6. ASSUME NEW p \in Proc, Asleep(x, p) PROVE m[frame[p].semp][frame[p].kind] > 0
  <2>1. Asleep(pc, p) /\ ~Idle(pc, p) /\ ChanOf(frame, p) \notin W
    BY <1>1, <1>3, <1>6, Places
  <2>2. frame[p].semp \in Sema /\ frame[p].kind \in Kind
    BY <2>1, CallIs
  <2>3. m[frame[p].semp][frame[p].kind] = sem[frame[p].semp][frame[p].kind]
    BY <2>1, <2>2 DEF Clears, ChanOf
  <2> QED
    BY <2>1, <2>3 DEF Counts
<1>7. ASSUME NEW i \in Sema, NEW k \in Kind PROVE m[i][k] <= Cardinality(Waiters(x, frame, <<i, k>>))
  <2>1. CASE <<i, k>> \in W
    <3>1. m[i][k] = 0
      BY <2>1 DEF Clears
    <3>2. Cardinality(Waiters(x, frame, <<i, k>>)) \in Nat
      BY WaitersFinite
    <3> QED
      BY <3>1, <3>2
  <2>2. CASE <<i, k>> \notin W
    <3>1. m[i][k] = sem[i][k]
      BY <2>2 DEF Clears
    <3>2. Waiters(x, frame, <<i, k>>) = Waiters(pc, frame, <<i, k>>)
      BY <1>3, <2>2 DEF Waiters
    <3> QED
      BY <3>1, <3>2 DEF Counts
  <2> QED
    BY <2>1, <2>2
<1> QED
  BY <1>4, <1>5, <1>6, <1>7 DEF Counts

(* A process that is not counted leaves semop().                           *)
LEMMA ReturnKeeps ==
  ASSUME NEW m, NEW x, NEW f, Calls(x, f), Counts(m, x, f), NEW p \in Proc, Idle(x, p) \/ Woken(x, p),
         NEW y, y = [x EXCEPT ![p] = "user"], NEW g, g = [f EXCEPT ![p] = NoCall]
  PROVE  Calls(y, g) /\ Counts(m, y, g)
<1>1. x \in [Proc -> Where] /\ f \in [Proc -> Frame \cup {NoCall}]
  BY DEF Calls
<1>2. y \in [Proc -> Where] /\ g \in [Proc -> Frame \cup {NoCall}]
  <2>1. "user" \in Where
    BY DEF Where
  <2> QED
    BY <1>1, <2>1
<1>3. Idle(y, p) /\ g[p] = NoCall /\ \A q \in Proc : q # p => y[q] = x[q] /\ g[q] = f[q]
  BY <1>1 DEF Idle
<1>4. ASSUME NEW q \in Proc, q # p
      PROVE  /\ (Idle(y, q) <=> Idle(x, q)) /\ (Asleep(y, q) <=> Asleep(x, q))
             /\ (Leaving(y, q) <=> Leaving(x, q)) /\ g[q] = f[q] /\ ChanOf(g, q) = ChanOf(f, q)
  BY <1>3, <1>4 DEF Idle, Asleep, Leaving, ChanOf
<1>5. ~Asleep(y, p) /\ ~Leaving(y, p) /\ ~Asleep(x, p) /\ ~Leaving(x, p)
  BY <1>1, <1>2, <1>3, Places
<1>6. Calls(y, g)
  <2>1. ASSUME NEW q \in Proc PROVE (Idle(y, q) <=> g[q] = NoCall) /\ (g[q] # NoCall => g[q].semp \in Sema)
    <3>1. CASE q = p
      BY <1>3, <3>1
    <3>2. CASE q # p
      BY <1>4, <3>2 DEF Calls
    <3> QED
      BY <3>1, <3>2
  <2> QED
    BY <1>2, <2>1 DEF Calls
<1>7. \A c : Waiters(y, g, c) = Waiters(x, f, c)
  BY <1>4, <1>5 DEF Waiters
<1>8. ASSUME NEW q \in Proc, Asleep(y, q) PROVE m[g[q].semp][g[q].kind] > 0
  BY <1>4, <1>5, <1>8 DEF Counts
<1> QED
  BY <1>6, <1>7, <1>8 DEF Counts


(* A process that was not counted falls asleep and is counted.             *)
LEMMA SleepKeeps ==
  ASSUME NEW m \in Mem, NEW x, NEW f, Calls(x, f), Counts(m, x, f), NEW p \in Proc, Idle(x, p) \/ Woken(x, p),
         NEW r \in Frame, r # NoCall, r.semp \in Sema, NEW i, NEW k, i = r.semp, k = r.kind,
         NEW w, w = [m EXCEPT ![i][k] = m[i][k] + 1],
         NEW y, y = [x EXCEPT ![p] = "asleep"], NEW g, g = [f EXCEPT ![p] = r]
  PROVE  Calls(y, g) /\ Counts(w, y, g)
<1>1. x \in [Proc -> Where] /\ f \in [Proc -> Frame \cup {NoCall}]
  BY DEF Calls
<1>2. y \in [Proc -> Where] /\ g \in [Proc -> Frame \cup {NoCall}]
  <2>1. "asleep" \in Where
    BY DEF Where
  <2> QED
    BY <1>1, <2>1
<1>3. Asleep(y, p) /\ g[p] = r /\ \A q \in Proc : q # p => y[q] = x[q] /\ g[q] = f[q]
  BY <1>1 DEF Asleep
<1>4. ASSUME NEW q \in Proc, q # p
      PROVE  /\ (Idle(y, q) <=> Idle(x, q)) /\ (Asleep(y, q) <=> Asleep(x, q))
             /\ (Leaving(y, q) <=> Leaving(x, q)) /\ g[q] = f[q] /\ ChanOf(g, q) = ChanOf(f, q)
  BY <1>3, <1>4 DEF Idle, Asleep, Leaving, ChanOf
<1>5. ~Asleep(x, p) /\ ~Leaving(x, p) /\ ~Idle(y, p)
  BY <1>1, <1>2, <1>3, Places
<1>6. Calls(y, g)
  <2>1. ASSUME NEW q \in Proc PROVE (Idle(y, q) <=> g[q] = NoCall) /\ (g[q] # NoCall => g[q].semp \in Sema)
    <3>1. CASE q = p
      BY <1>3, <1>5, <3>1
    <3>2. CASE q # p
      BY <1>4, <3>2 DEF Calls
    <3> QED
      BY <3>1, <3>2
  <2> QED
    BY <1>2, <2>1 DEF Calls
<1>7. i \in Sema /\ k \in Kind
  BY FrameIs
<1>8. m[i][k] \in Nat
  BY <1>7 DEF Counts, Counting
<1>9. \A j \in Sema, h \in Kind : w[j][h] = IF j = i /\ h = k THEN m[i][k] + 1 ELSE m[j][h]
  <2>1. \A h \in Kind : h \in Field
    BY DEF Field, Kind
  <2> DEFINE v == m[i][k] + 1
  <2>2. w = [m EXCEPT ![i][k] = v] /\ v \in Int
    BY <1>8
  <2> HIDE DEF v
  <2>3. \A j \in Sema, h \in Field : w[j][h] = IF j = i /\ h = k THEN v ELSE m[j][h]
    BY SMTT(30), <1>7, <2>2, CountIs
  <2> QED
    BY <2>1, <2>3 DEF v
<1>10. ChanOf(g, p) = <<i, k>>
  BY <1>3 DEF ChanOf
<1>11. Counting(w)
  <2>1. ASSUME NEW j \in Sema, NEW h \in Kind PROVE w[j][h] \in Nat
    <3>1. m[j][h] \in Nat
      BY DEF Counts, Counting
    <3> QED
      BY <1>8, <1>9, <3>1
  <2> QED
    BY <2>1 DEF Counting
<1>12. ASSUME NEW q \in Proc, Asleep(y, q) PROVE w[g[q].semp][g[q].kind] > 0
  <2>1. CASE q = p
    <3>1. g[q].semp = i /\ g[q].kind = k
      BY <1>3, <2>1
    <3>2. w[i][k] = m[i][k] + 1
      BY <1>7, <1>9
    <3> QED
      BY <1>8, <3>1, <3>2
  <2>2. CASE q # p
    <3>1. Asleep(x, q) /\ g[q] = f[q]
      BY <1>4, <1>12, <2>2
    <3>2. ~Idle(x, q)
      BY <1>1, <3>1, Places
    <3>3. f[q].semp \in Sema /\ f[q].kind \in Kind
      BY <3>2, CallIs
    <3>4. m[f[q].semp][f[q].kind] > 0 /\ m[f[q].semp][f[q].kind] \in Nat
      BY <3>1, <3>3 DEF Counts, Counting
    <3> QED
      BY <1>8, <1>9, <3>1, <3>3, <3>4
  <2> QED
    BY <2>1, <2>2
<1>13. ASSUME NEW j \in Sema, NEW h \in Kind PROVE w[j][h] <= Cardinality(Waiters(y, g, <<j, h>>))
  <2>1. m[j][h] <= Cardinality(Waiters(x, f, <<j, h>>)) /\ m[j][h] \in Nat
    BY DEF Counts, Counting
  <2>2. CASE j = i /\ h = k
    <3>1. Waiters(y, g, <<j, h>>) = Waiters(x, f, <<j, h>>) \cup {p}
      BY <1>3, <1>4, <1>5, <1>10, <2>2 DEF Waiters
    <3>2. p \notin Waiters(x, f, <<j, h>>)
      BY <1>5 DEF Waiters
    <3>3. /\ IsFiniteSet(Waiters(x, f, <<j, h>>)) /\ Cardinality(Waiters(x, f, <<j, h>>)) \in Nat
      BY WaitersFinite
    <3>4. Cardinality(Waiters(y, g, <<j, h>>)) = Cardinality(Waiters(x, f, <<j, h>>)) + 1
      BY <3>1, <3>2, <3>3, FS_AddElement
    <3>5. w[j][h] = m[j][h] + 1
      BY <1>9, <2>2
    <3> QED
      BY <2>1, <3>3, <3>4, <3>5
  <2>3. CASE ~(j = i /\ h = k)
    <3>1. <<j, h>> # <<i, k>>
      BY <2>3
    <3>2. Waiters(y, g, <<j, h>>) = Waiters(x, f, <<j, h>>)
      BY <1>4, <1>5, <1>10, <3>1 DEF Waiters
    <3>3. w[j][h] = m[j][h]
      BY <1>9, <2>3
    <3> QED
      BY <2>1, <3>2, <3>3
  <2> QED
    BY <2>2, <2>3
<1> QED
  BY <1>6, <1>11, <1>12, <1>13 DEF Counts

(* A signal: the process may still be counted.                             *)
LEMMA SignalKeeps ==
  ASSUME NEW m, NEW x, NEW f, Calls(x, f), Counts(m, x, f), NEW p \in Proc, Asleep(x, p) \/ Woken(x, p),
         NEW y, y = [x EXCEPT ![p] = "interrupted"]
  PROVE  Calls(y, f) /\ Counts(m, y, f)
<1>1. x \in [Proc -> Where] /\ f \in [Proc -> Frame \cup {NoCall}]
  BY DEF Calls
<1>2. y \in [Proc -> Where]
  <2>1. "interrupted" \in Where
    BY DEF Where
  <2> QED
    BY <1>1, <2>1
<1>3. Leaving(y, p) /\ \A q \in Proc : q # p => y[q] = x[q]
  BY <1>1 DEF Leaving
<1>4. ASSUME NEW q \in Proc, q # p
      PROVE  (Idle(y, q) <=> Idle(x, q)) /\ (Asleep(y, q) <=> Asleep(x, q)) /\ (Leaving(y, q) <=> Leaving(x, q))
  BY <1>3, <1>4 DEF Idle, Asleep, Leaving
<1>5. ~Idle(x, p) /\ ~Idle(y, p) /\ ~Asleep(y, p)
  BY <1>1, <1>2, <1>3, Places
<1>6. Calls(y, f)
  BY <1>1, <1>2, <1>4, <1>5 DEF Calls
<1>7. ASSUME NEW q \in Proc, Asleep(y, q) PROVE m[f[q].semp][f[q].kind] > 0
  BY <1>4, <1>5, <1>7 DEF Counts
<1>8. ASSUME NEW i \in Sema, NEW k \in Kind PROVE m[i][k] <= Cardinality(Waiters(y, f, <<i, k>>))
  <2>1. m[i][k] <= Cardinality(Waiters(x, f, <<i, k>>)) /\ m[i][k] \in Nat
    BY DEF Counts, Counting
  <2>2. Waiters(x, f, <<i, k>>) \subseteq Waiters(y, f, <<i, k>>)
    BY <1>3, <1>4 DEF Waiters
  <2>3. Cardinality(Waiters(x, f, <<i, k>>)) <= Cardinality(Waiters(y, f, <<i, k>>))
    BY <2>2, WaitersFinite, FS_Subset
  <2> QED
    BY <2>1, <2>3, WaitersFinite
<1> QED
  BY <1>6, <1>7, <1>8 DEF Counts

(* An interrupted process leaves: it takes itself off the count, which may *)
(* not be its own any more, and wakes the others if the count ends.        *)
LEMMA LeaveKeeps ==
  ASSUME sem \in Mem, Calls(pc, frame), Counts(sem, pc, frame), NEW p \in Proc, Leaving(pc, p),
         NEW i, NEW k, i = frame[p].semp, k = frame[p].kind,
         NEW n, n = sem[i][k], NEW v, NEW C,
         n <= 1 => v = 0 /\ C = {<<i, k>>}, n > 1 => v = n - 1 /\ C = {},
         NEW w, w = [sem EXCEPT ![i][k] = v], NEW x, x = Wakeup(C),
         NEW y, y = [x EXCEPT ![p] = "user"], NEW g, g = [frame EXCEPT ![p] = NoCall]
  PROVE  Calls(y, g) /\ Counts(w, y, g)
<1>1. pc \in [Proc -> Where] /\ frame \in [Proc -> Frame \cup {NoCall}]
  BY DEF Calls
<1>2. /\ x \in [Proc -> Where]
      /\ \A q \in Proc : IF Asleep(pc, q) /\ ChanOf(frame, q) \in C THEN Woken(x, q) ELSE x[q] = pc[q]
  BY <1>1, WakeupIs
<1>3. i \in Sema /\ k \in Kind /\ n \in Nat
  <2>1. ~Idle(pc, p)
    BY <1>1, Places
  <2>2. i \in Sema /\ k \in Kind
    BY <2>1, CallIs
  <2> QED
    BY <2>2 DEF Counts, Counting
<1>4. v \in Nat /\ (n > 1 => v > 0 /\ v = n - 1) /\ (n <= 1 => v = 0)
  BY <1>3
<1>5. \A j \in Sema, h \in Kind : w[j][h] = IF j = i /\ h = k THEN v ELSE sem[j][h]
  <2>1. w = [sem EXCEPT ![i][k] = v] /\ v \in Int
    BY <1>4
  <2>2. \A h \in Kind : h \in Field
    BY DEF Field, Kind
  <2>3. \A j \in Sema, h \in Field : w[j][h] = IF j = i /\ h = k THEN v ELSE sem[j][h]
    BY SMTT(30), <1>3, <2>1, CountIs
  <2> QED
    BY <2>2, <2>3
<1>6. ChanOf(frame, p) = <<i, k>> /\ ~Asleep(pc, p)
  BY <1>1, Places DEF ChanOf
<1>7. \A c : c \in C <=> (c = <<i, k>> /\ n <= 1)
  BY <1>3
<1>8. y \in [Proc -> Where] /\ g \in [Proc -> Frame \cup {NoCall}]
  <2>1. "user" \in Where
    BY DEF Where
  <2> QED
    BY <1>1, <1>2, <2>1
<1>9. Idle(y, p) /\ g[p] = NoCall /\ \A q \in Proc : q # p => y[q] = x[q] /\ g[q] = frame[q]
  BY <1>1, <1>2 DEF Idle
<1>10. ~Asleep(y, p) /\ ~Leaving(y, p)
  BY <1>8, <1>9, Places
<1>11. ASSUME NEW q \in Proc, q # p
       PROVE  /\ Idle(y, q) <=> Idle(pc, q)
              /\ Leaving(y, q) <=> Leaving(pc, q)
              /\ Asleep(y, q) <=> Asleep(pc, q) /\ ChanOf(frame, q) \notin C
              /\ g[q] = frame[q] /\ ChanOf(g, q) = ChanOf(frame, q)
  <2>1. y[q] = x[q] /\ g[q] = frame[q]
    BY <1>9, <1>11
  <2>2. CASE Asleep(pc, q) /\ ChanOf(frame, q) \in C
    <3>1. Woken(y, q)
      BY <1>2, <2>1, <2>2 DEF Woken
    <3> QED
      BY <1>1, <1>8, <2>1, <2>2, <3>1, Places DEF ChanOf
  <2>3. CASE ~(Asleep(pc, q) /\ ChanOf(frame, q) \in C)
    <3>1. y[q] = pc[q]
      BY <1>2, <2>1, <2>3
    <3> QED
      BY <2>1, <2>3, <3>1 DEF Idle, Leaving, Asleep, ChanOf
  <2> QED
    BY <2>2, <2>3
<1>12. Calls(y, g)
  <2>1. ASSUME NEW q \in Proc PROVE (Idle(y, q) <=> g[q] = NoCall) /\ (g[q] # NoCall => g[q].semp \in Sema)
    <3>1. CASE q = p
      BY <1>9, <3>1
    <3>2. CASE q # p
      BY <1>11, <3>2 DEF Calls
    <3> QED
      BY <3>1, <3>2
  <2> QED
    BY <1>8, <2>1 DEF Calls
<1>13. Counting(w)
  <2>1. ASSUME NEW j \in Sema, NEW h \in Kind PROVE w[j][h] \in Nat
    <3>1. sem[j][h] \in Nat
      BY DEF Counts, Counting
    <3> QED
      BY <1>4, <1>5, <3>1
  <2> QED
    BY <2>1 DEF Counting
<1>14. ASSUME NEW q \in Proc, Asleep(y, q) PROVE w[g[q].semp][g[q].kind] > 0
  <2>1. q # p
    BY <1>10, <1>14
  <2>2. Asleep(pc, q) /\ ChanOf(frame, q) \notin C /\ g[q] = frame[q]
    BY <1>11, <1>14, <2>1
  <2>3. frame[q].semp \in Sema /\ frame[q].kind \in Kind
    <3>1. ~Idle(pc, q)
      BY <1>1, <2>2, Places
    <3> QED
      BY <3>1, CallIs
  <2>4. sem[frame[q].semp][frame[q].kind] > 0
    BY <2>2 DEF Counts
  <2>5. frame[q].semp = i /\ frame[q].kind = k => v > 0
    <3>1. frame[q].semp = i /\ frame[q].kind = k => ~(n <= 1)
      BY <1>7, <2>2 DEF ChanOf
    <3> QED
      BY <1>3, <1>4, <3>1
  <2> QED
    BY <1>5, <2>2, <2>3, <2>4, <2>5
<1>15. ASSUME NEW j \in Sema, NEW h \in Kind PROVE w[j][h] <= Cardinality(Waiters(y, g, <<j, h>>))
  <2>1. sem[j][h] <= Cardinality(Waiters(pc, frame, <<j, h>>)) /\ sem[j][h] \in Nat
    BY DEF Counts, Counting
  <2>2. Cardinality(Waiters(y, g, <<j, h>>)) \in Nat
    BY WaitersFinite
  <2>3. CASE j = i /\ h = k /\ n <= 1
    BY <1>4, <1>5, <2>2, <2>3
  <2>4. CASE j = i /\ h = k /\ n > 1
    <3>1. \A q \in Proc : ChanOf(frame, q) \notin C
      BY <1>3, <1>7, <2>4
    <3>2. Waiters(y, g, <<j, h>>) = Waiters(pc, frame, <<j, h>>) \ {p}
      BY <1>10, <1>11, <3>1 DEF Waiters
    <3>3. p \in Waiters(pc, frame, <<j, h>>)
      BY <1>6, <2>4 DEF Waiters
    <3>4. IsFiniteSet(Waiters(pc, frame, <<j, h>>)) /\ Cardinality(Waiters(pc, frame, <<j, h>>)) \in Nat
      BY WaitersFinite
    <3>5. Cardinality(Waiters(y, g, <<j, h>>)) = Cardinality(Waiters(pc, frame, <<j, h>>)) - 1
      <4> DEFINE A == Waiters(pc, frame, <<j, h>>)
                 B == Waiters(y, g, <<j, h>>)
      <4>1. B = A \ {p} /\ p \in A /\ IsFiniteSet(A)
        BY <3>2, <3>3, <3>4
      <4> HIDE DEF A, B
      <4>2. Cardinality(A \ {p}) = Cardinality(A) - 1
        BY <4>1, FS_RemoveElement
      <4> QED
        BY <4>1, <4>2 DEF A, B
    <3>6. w[j][h] = sem[j][h] - 1
      BY <1>3, <1>4, <1>5, <2>4
    <3> QED
      BY <2>1, <3>4, <3>5, <3>6
  <2>5. CASE ~(j = i /\ h = k)
    <3>1. <<j, h>> # <<i, k>>
      BY <2>5
    <3>2. Waiters(y, g, <<j, h>>) = Waiters(pc, frame, <<j, h>>)
      BY <1>6, <1>7, <1>10, <1>11, <3>1 DEF Waiters
    <3>3. w[j][h] = sem[j][h]
      BY <1>5, <2>5
    <3> QED
      BY <2>1, <3>2, <3>3
  <2> QED
    BY <1>3, <2>3, <2>4, <2>5
<1> QED
  BY <1>12, <1>13, <1>14, <1>15 DEF Counts

------------------------------------------------------------------------------
(* Identifiers and headers.                                                *)

LEMMA Multiples ==
  ASSUME NEW N \in Nat \ {0}, NEW a \in Int, NEW b \in Int, a < b
  PROVE  a * N + N =< b * N
<1>1. PICK d \in Nat : b = a + 1 + d
  <2>1. b - a - 1 \in Nat
    OBVIOUS
  <2> QED
    BY <2>1
<1>2. b * N = a * N + N + d * N
  BY <1>1
<1>3. d * N \in Nat /\ a * N \in Int
  OBVIOUS
<1> QED
  BY <1>2, <1>3

LEMMA DivMod ==
  ASSUME NEW N \in Nat \ {0}, NEW q \in Nat, NEW s \in 0 .. N - 1
  PROVE  (q * N + s) % N = s /\ (q * N + s) \div N = q
<1> DEFINE x == q * N + s
           r == x % N
           t == x \div N
<1>1. x \in Int /\ r \in 0 .. N - 1 /\ t \in Int /\ x = N * t + r
  OBVIOUS
<1>2. x = q * N + s
  OBVIOUS
<1> HIDE DEF x, r, t
<1>3. t * N = N * t
  BY <1>1
<1>4. ~ (t < q)
  BY <1>1, <1>2, <1>3, Multiples
<1>5. ~ (q < t)
  BY <1>1, <1>2, <1>3, Multiples
<1>6. t = q
  BY <1>1, <1>4, <1>5
<1>7. r = s
  BY <1>1, <1>2, <1>3, <1>6
<1> QED
  BY <1>6, <1>7 DEF x, r, t

Header == [alloc : BOOLEAN, seq : Nat, base : Nat, nsems : Nat]

(* No two sets share a semaphore.                                          *)
HeadersOK ==
  /\ sema \in [Slot -> Header]
  /\ \A id \in Nat : Live(id) => Members(id) \subseteq Sema
  /\ \A id1, id2 \in Nat : Live(id1) /\ Live(id2) /\ id1 # id2 => Members(id1) \cap Members(id2) = {}

(* The identifiers and numbers an undo entry may be for.                   *)
Keys == {k \in Key : Live(k[1]) /\ k[2] \in Nums(k[1])}

LEMMA Divided ==
  ASSUME NEW N \in Nat \ {0}, NEW x \in Nat
  PROVE  x % N \in 0 .. N - 1 /\ x \div N \in Nat /\ x = (x \div N) * N + (x % N)
<1> DEFINE r == x % N
           t == x \div N
<1>1. x \in Int /\ r \in 0 .. N - 1 /\ t \in Int /\ x = N * t + r
  OBVIOUS
<1>2. t \in Nat
  OBVIOUS
<1> HIDE DEF r, t
<1>3. t * N = N * t
  BY <1>1
<1>4. r \in 0 .. N - 1 /\ t \in Nat /\ x = t * N + r
  BY <1>1, <1>2, <1>3
<1> QED
  BY Zenon, <1>4 DEF r, t

LEMMA SlotIs ==
  ASSUME NEW id \in Nat
  PROVE  SlotOf(id) \in Slot /\ id \div SEMMNI \in Nat /\ id = (id \div SEMMNI) * SEMMNI + SlotOf(id)
<1>1. SEMMNI \in Nat \ {0}
  BY Constants
<1>2. id % SEMMNI \in 0 .. SEMMNI - 1 /\ id \div SEMMNI \in Nat /\ id = (id \div SEMMNI) * SEMMNI + (id % SEMMNI)
  BY Zenon, <1>1, Divided
<1> QED
  BY Zenon, <1>2 DEF SlotOf, Slot

LEMMA IdIs ==
  ASSUME NEW s \in Slot, NEW q \in Nat
  PROVE  /\ q * SEMMNI + s \in Nat
         /\ SlotOf(q * SEMMNI + s) = s /\ (q * SEMMNI + s) \div SEMMNI = q
<1>1. SEMMNI \in Nat \ {0} /\ s \in 0 .. SEMMNI - 1
  BY Constants DEF Slot
<1>2. q * SEMMNI + s \in Nat
  <2>1. q * SEMMNI \in Nat /\ s \in Nat
    BY <1>1
  <2> QED
    BY <2>1
<1> QED
  BY <1>1, <1>2, DivMod DEF SlotOf

(* A slot names one set at a time.                                         *)
LEMMA SameSlot ==
  ASSUME NEW id \in Nat, NEW other \in Nat, Live(id), Live(other), SlotOf(id) = SlotOf(other)
  PROVE  id = other
BY SlotIs DEF Live

LEMMA HeaderIs ==
  ASSUME sema \in [Slot -> Header], NEW s \in Slot
  PROVE  /\ sema[s].alloc \in BOOLEAN /\ sema[s].seq \in Nat
         /\ sema[s].base \in Nat /\ sema[s].nsems \in Nat
BY DEF Header

LEMMA LiveIs ==
  ASSUME sema \in [Slot -> Header], NEW id
  PROVE  id \in LiveIds <=> id \in Nat /\ Live(id)
<1>1. ASSUME id \in LiveIds PROVE id \in Nat /\ Live(id)
  <2>1. PICK s \in Slot : sema[s].alloc /\ id = sema[s].seq * SEMMNI + s
    BY <1>1 DEF LiveIds, IdOf
  <2>2. sema[s].seq \in Nat
    BY HeaderIs
  <2>3. id \in Nat /\ SlotOf(id) = s /\ id \div SEMMNI = sema[s].seq
    BY <2>1, <2>2, IdIs
  <2> QED
    BY <2>1, <2>3 DEF Live
<1>2. ASSUME id \in Nat, Live(id) PROVE id \in LiveIds
  <2>1. SlotOf(id) \in Slot /\ id = (id \div SEMMNI) * SEMMNI + SlotOf(id)
    BY <1>2, SlotIs
  <2>2. sema[SlotOf(id)].alloc /\ id = IdOf(SlotOf(id))
    BY <1>2, <2>1 DEF Live, IdOf
  <2> QED
    BY <2>1, <2>2 DEF LiveIds
<1> QED
  BY <1>1, <1>2

(* The semaphores of a set that exists.                                    *)
LEMMA MemberIs ==
  ASSUME HeadersOK, NEW id \in Nat, Live(id)
  PROVE  /\ \A n \in Nums(id) : n \in Nat /\ Semp(id, n) \in Sema /\ Semp(id, n) \in Members(id)
                                /\ <<id, n>> \in Keys
         /\ Members(id) \in SUBSET Sema
         /\ sema[SlotOf(id)].base \in Nat /\ sema[SlotOf(id)].nsems \in Nat
<1>1. SlotOf(id) \in Slot /\ sema \in [Slot -> Header]
  BY SlotIs DEF HeadersOK
<1>2. sema[SlotOf(id)].base \in Nat /\ sema[SlotOf(id)].nsems \in Nat
  BY <1>1, HeaderIs
<1>3. Members(id) \in SUBSET Sema
  BY DEF HeadersOK
<1>4. ASSUME NEW n \in Nums(id)
      PROVE  n \in Nat /\ Semp(id, n) \in Sema /\ Semp(id, n) \in Members(id) /\ <<id, n>> \in Keys
  <2>1. n \in Nat
    BY <1>2 DEF Nums
  <2>2. Semp(id, n) \in Members(id)
    BY DEF Members
  <2>3. <<id, n>> \in Keys
    BY <2>1 DEF Keys, Key
  <2> QED
    BY <1>3, <2>1, <2>2, <2>3
<1> QED
  BY <1>2, <1>3, <1>4

LEMMA KeysIs == Keys \in SUBSET Key
BY DEF Keys

(* More keys may be used.                                                  *)
LEMMA TablesIn ==
  ASSUME NEW K \in SUBSET Key, NEW J \in SUBSET Key, K \subseteq J, NEW u \in Tables(K)
  PROVE  u \in Tables(J)
<1>1. Lists(K) \subseteq Lists(J)
  BY DEF Lists, Due
<1>2. Structure(K) \subseteq Structure(J)
  BY <1>1 DEF Structure
<1> QED
  BY <1>2 DEF Tables

------------------------------------------------------------------------------
(* The invariant.  A process in semop() was called for a set that exists,  *)
(* or that is removed by now; one that is asleep, only the former, for     *)
(* whoever removes a set wakes those that are counted in its semaphores.   *)

Gone(id) == id \div SEMMNI < sema[SlotOf(id)].seq
Valid(id, ops) == Live(id) /\ \A i \in DOMAIN ops : ops[i].num \in Nums(id)

Frames(x, f) == \A p \in Proc : ~Idle(x, p) => Gone(f[p].id) \/ Valid(f[p].id, f[p].ops)
Sleepers(x, f) == \A p \in Proc : Asleep(x, p) => Live(f[p].id) /\ f[p].semp \in Members(f[p].id)

SemInv ==
  /\ HeadersOK
  /\ sem \in Mem /\ InRange(sem)
  /\ undo \in Tables(Keys)
  /\ Calls(pc, frame)
  /\ Counts(sem, pc, frame)
  /\ Frames(pc, frame)
  /\ Sleepers(pc, frame)

(* A step that leaves the headers alone.                                   *)
LEMMA SameHeaders ==
  ASSUME SemInv, sema' = sema, sem' \in Mem, InRange(sem'), undo' \in Tables(Keys),
         Calls(pc', frame'), Counts(sem', pc', frame'), Frames(pc', frame'), Sleepers(pc', frame')
  PROVE  SemInv'
<1>1. /\ \A id : SlotOf(id)' = SlotOf(id) /\ Live(id)' = Live(id) /\ Nums(id)' = Nums(id)
      /\ \A id, n : Semp(id, n)' = Semp(id, n)
  BY DEF SlotOf, Live, Nums, Semp
<1>2. \A id : Members(id)' = Members(id)
  BY DEF Members, Semp, Nums, SlotOf
<1>3. HeadersOK'
  BY <1>1, <1>2 DEF SemInv, HeadersOK
<1>4. Keys' = Keys
  BY <1>1 DEF Keys
<1>5. (undo \in Tables(Keys))'
  BY <1>4 DEF Tables, Structure, Lists, Due, Sorted, Before, Abs
<1>6. (sem \in Mem /\ InRange(sem) /\ Calls(pc, frame))'
  BY DEF Mem, InRange, Top, Calls, Idle
<1>7. Counts(sem, pc, frame)'
  BY DEF Counts, Counting, Asleep, Waiters, Leaving, ChanOf
<1>8. Frames(pc, frame)'
  BY <1>1 DEF Frames, Idle, Gone, Valid
<1>9. Sleepers(pc, frame)'
  BY <1>1, <1>2 DEF Sleepers, Asleep
<1> QED
  BY <1>3, <1>5, <1>6, <1>7, <1>8, <1>9 DEF SemInv

(* What wakeup() leaves of a process.                                      *)
LEMMA WakeupOne ==
  ASSUME pc \in [Proc -> Where], NEW C, NEW x, x = Wakeup(C), NEW p \in Proc
  PROVE  /\ Idle(x, p) <=> Idle(pc, p)
         /\ Leaving(x, p) <=> Leaving(pc, p)
         /\ Asleep(x, p) <=> Asleep(pc, p) /\ ChanOf(frame, p) \notin C
         /\ Woken(pc, p) => Woken(x, p)
<1>1. /\ x \in [Proc -> Where]
      /\ IF Asleep(pc, p) /\ ChanOf(frame, p) \in C THEN Woken(x, p) ELSE x[p] = pc[p]
  BY WakeupIs
<1>2. CASE Asleep(pc, p) /\ ChanOf(frame, p) \in C
  BY <1>1, <1>2, Places
<1>3. CASE ~(Asleep(pc, p) /\ ChanOf(frame, p) \in C)
  <2>1. x[p] = pc[p]
    BY <1>1, <1>3
  <2> QED
    BY <1>3, <2>1 DEF Idle, Leaving, Asleep, Woken
<1> QED
  BY <1>2, <1>3

(* The frames of processes that were in semop() before.                    *)
LEMMA FramesKept ==
  ASSUME SemInv, NEW y, NEW g,
         \A q \in Proc : /\ ~Idle(y, q) => ~Idle(pc, q) /\ g[q] = frame[q]
                         /\ Asleep(y, q) => Asleep(pc, q) /\ g[q] = frame[q]
  PROVE  Frames(y, g) /\ Sleepers(y, g)
BY DEF SemInv, Frames, Sleepers

(* semop() may be performed by a process that was called, or woken, for a  *)
(* set that exists.                                                        *)
LEMMA ReadyHere ==
  ASSUME SemInv, NEW p \in Proc, NEW id \in Nat, NEW ops \in Vector, Valid(id, ops)
  PROVE  Ready(Keys, p, id, ops)
<1>1. ops \in Seq(Sembuf)
  BY SemAssumption
<1>2. \A i \in DOMAIN ops : <<id, ops[i].num>> \in Keys /\ Semp(id, ops[i].num) \in Sema
  BY MemberIs DEF SemInv, Valid
<1> QED
  BY <1>1, <1>2, KeysIs, ProcFinite DEF Ready, SemInv, Counts

LEMMA AttemptKeeps ==
  ASSUME SemInv, NEW p \in Proc, Idle(pc, p) \/ Woken(pc, p), NEW id \in Nat, NEW ops \in Vector,
         Valid(id, ops), Attempt(p, id, ops)
  PROVE  SemInv'
<1> DEFINE st == Pass(p, id, ops)
           x == Wakeup(st.woken)
<1>1. Ready(Keys, p, id, ops)
  BY ReadyHere
<1>2. /\ st \in Forward(Keys)
      /\ ~Going(st) => st.n + 1 \in DOMAIN ops
  BY <1>1, PassKeeps
<1> DEFINE stopped == ops[st.n + 1]
           k == IF stopped.op = 0 THEN "semzcnt" ELSE "semncnt"
           i == Semp(id, stopped.num)
<1>3. /\ undo' = st.u /\ sema' = sema
      /\ \/ sem' = st.m /\ Return(p, x)
         \/ /\ ~Going(st)
            /\ sem' = [st.m EXCEPT ![i][k] = @ + 1]
            /\ pc' = [x EXCEPT ![p] = "asleep"]
            /\ frame' = [frame EXCEPT ![p] = [id |-> id, ops |-> ops, semp |-> i, kind |-> k]]
  <2>1. /\ undo' = st.u /\ sema' = sema
        /\ \/ sem' = st.m /\ Return(p, x)
           \/ /\ st.why = "wait"
              /\ sem' = [st.m EXCEPT ![i][k] = @ + 1]
              /\ pc' = [x EXCEPT ![p] = "asleep"]
              /\ frame' = [frame EXCEPT ![p] = [id |-> id, ops |-> ops, semp |-> i, kind |-> k]]
    BY Zenon DEF Attempt
  <2>2. st.why = "wait" => ~Going(st)
    BY Zenon DEF Going
  <2> QED
    BY Zenon, <2>1, <2>2
<1>3a. k \in Kind
  BY DEF Kind
<1> HIDE DEF k, i
<1> HIDE DEF st
<1>4. /\ st.m \in Mem /\ st.u \in Tables(Keys) /\ st.woken \in SUBSET Channel
      /\ Clears(sem, st.m, st.woken) /\ InRange(st.m)
  BY <1>2 DEF Forward, Carried
<1>5. Calls(pc, frame) /\ Counts(sem, pc, frame) /\ pc \in [Proc -> Where] /\ frame \in [Proc -> Frame \cup {NoCall}]
  BY DEF SemInv, Calls
<1>6. Calls(x, frame) /\ Counts(st.m, x, frame)
  BY <1>4, <1>5, WakeKeeps
<1>7. \A q \in Proc : /\ Idle(x, q) <=> Idle(pc, q)
                      /\ Asleep(x, q) => Asleep(pc, q)
                      /\ Woken(pc, q) => Woken(x, q)
  BY <1>5, WakeupOne
<1>8. x \in [Proc -> Where] /\ (Idle(x, p) \/ Woken(x, p))
  BY <1>6, <1>7 DEF Calls
<1> HIDE DEF x
<1>9. CASE sem' = st.m /\ Return(p, x)
  <2>1. pc' = [x EXCEPT ![p] = "user"] /\ frame' = [frame EXCEPT ![p] = NoCall]
    BY <1>9 DEF Return
  <2>2. Calls(pc', frame') /\ Counts(st.m, pc', frame')
    BY <1>6, <1>8, <2>1, ReturnKeeps
  <2>3. Idle(pc', p) /\ \A q \in Proc : q # p => pc'[q] = x[q] /\ frame'[q] = frame[q]
    BY <1>5, <1>8, <2>1 DEF Idle
  <2>4. ~Asleep(pc', p)
    BY <2>2, <2>3, Places DEF Calls
  <2>5. \A q \in Proc : /\ ~Idle(pc', q) => ~Idle(pc, q) /\ frame'[q] = frame[q]
                        /\ Asleep(pc', q) => Asleep(pc, q) /\ frame'[q] = frame[q]
    BY <1>7, <2>3, <2>4 DEF Idle, Asleep
  <2>6. Frames(pc', frame') /\ Sleepers(pc', frame')
    BY <2>5, FramesKept
  <2> QED
    BY <1>3, <1>4, <1>9, <2>2, <2>6, SameHeaders
<1>10. CASE ~(sem' = st.m /\ Return(p, x))
  <2>1. /\ ~Going(st)
        /\ sem' = [st.m EXCEPT ![i][k] = @ + 1]
        /\ pc' = [x EXCEPT ![p] = "asleep"]
        /\ frame' = [frame EXCEPT ![p] = [id |-> id, ops |-> ops, semp |-> i, kind |-> k]]
    BY <1>3, <1>10
  <2> DEFINE r == [id |-> id, ops |-> ops, semp |-> i, kind |-> k]
  <2>2. stopped.num \in Nums(id) /\ i \in Sema /\ i \in Members(id)
    BY <1>2, <2>1, MemberIs DEF Valid, SemInv, i
  <2>3. r \in Frame /\ r # NoCall /\ r.id = id /\ r.ops = ops /\ r.semp = i /\ r.kind = k
    <3>1. i \in Int
      BY <2>2 DEF Sema
    <3>2. r \in Frame
      BY <1>3a, <3>1 DEF Frame
    <3> QED
      BY <3>2, SemAssumption
  <2>4. frame' = [frame EXCEPT ![p] = r]
    BY <2>1
  <2> HIDE DEF r
  <2>5. sem' = [st.m EXCEPT ![i][k] = st.m[i][k] + 1]
    BY <2>1
  <2>6. Calls(pc', frame') /\ Counts(sem', pc', frame')
    <3> DEFINE m == st.m
               w == sem'
               y == pc'
               g == frame'
    <3>1. m \in Mem /\ Calls(x, frame) /\ Counts(m, x, frame) /\ w = [m EXCEPT ![i][k] = m[i][k] + 1]
      BY <1>4, <1>6, <2>5
    <3>2. /\ r \in Frame /\ r # NoCall /\ r.semp \in Sema /\ i = r.semp /\ k = r.kind
          /\ y = [x EXCEPT ![p] = "asleep"] /\ g = [frame EXCEPT ![p] = r]
      BY <2>1, <2>2, <2>3, <2>4
    <3> HIDE DEF m, w, y, g
    <3>3. Calls(y, g) /\ Counts(w, y, g)
      BY <1>8, <3>1, <3>2, SleepKeeps
    <3> QED
      BY <3>3 DEF y, g, w
  <2>7. sem' \in Mem /\ InRange(sem')
    <3> DEFINE m == st.m
               w == sem'
               v == m[i][k] + 1
    <3>1. m \in Mem /\ InRange(m) /\ w = [m EXCEPT ![i][k] = v] /\ i \in Sema /\ k \in Kind
      BY <1>4, <1>3a, <2>2, <2>5
    <3>2. m[i][k] \in Int
      BY <3>1, MemInt
    <3>3. v \in Int
      BY <3>2
    <3>4. k # "semval" /\ "semval" \in Field
      BY <1>3a DEF Kind, Field
    <3> HIDE DEF m, v, w
    <3>5. w \in Mem /\ \A j \in Sema, f \in Field : w[j][f] = IF j = i /\ f = k THEN v ELSE m[j][f]
      <4>1. w \in Mem
        BY <3>1, <3>3, CountMem
      <4>2. \A j \in Sema, f \in Field : w[j][f] = IF j = i /\ f = k THEN v ELSE m[j][f]
        BY <3>1, <3>3, CountIs
      <4> QED
        BY <4>1, <4>2
    <3>6. \A j \in Sema : w[j].semval = m[j].semval
      BY <3>4, <3>5
    <3> QED
      BY <3>1, <3>5, <3>6 DEF InRange, w
  <2>8. \A q \in Proc : q # p => pc'[q] = x[q] /\ frame'[q] = frame[q]
    BY <1>5, <1>8, <2>1, <2>4
  <2>9. frame'[p] = r
    BY <1>5, <2>4
  <2>10. Frames(pc', frame')
    <3>1. ASSUME NEW q \in Proc, ~Idle(pc', q) PROVE Gone(frame'[q].id) \/ Valid(frame'[q].id, frame'[q].ops)
      <4>1. CASE q = p
        BY <2>3, <2>9, <4>1
      <4>2. CASE q # p
        <5>1. ~Idle(pc, q) /\ frame'[q] = frame[q]
          BY <1>7, <2>8, <3>1, <4>2 DEF Idle
        <5> QED
          BY <5>1 DEF SemInv, Frames
      <4> QED
        BY <4>1, <4>2
    <3> QED
      BY <3>1 DEF Frames
  <2>11. Sleepers(pc', frame')
    <3>1. ASSUME NEW q \in Proc, Asleep(pc', q) PROVE Live(frame'[q].id) /\ frame'[q].semp \in Members(frame'[q].id)
      <4>1. CASE q = p
        BY <2>2, <2>3, <2>9, <4>1 DEF Valid
      <4>2. CASE q # p
        <5>1. Asleep(pc, q) /\ frame'[q] = frame[q]
          BY <1>7, <2>8, <3>1, <4>2 DEF Asleep
        <5> QED
          BY <5>1 DEF SemInv, Sleepers
      <4> QED
        BY <4>1, <4>2
    <3> QED
      BY <3>1 DEF Sleepers
  <2> QED
    BY <1>3, <1>4, <2>6, <2>7, <2>10, <2>11, SameHeaders
<1> QED
  BY <1>9, <1>10

LEMMA RetryFailsKeeps ==
  ASSUME SemInv, NEW p \in Proc, RetryFails(p)
  PROVE  SemInv'
<1>1. /\ Woken(pc, p) /\ UNCHANGED <<sema, sem, undo>>
      /\ pc' = [pc EXCEPT ![p] = "user"] /\ frame' = [frame EXCEPT ![p] = NoCall]
  BY DEF RetryFails, Return, Woken
<1>2. Calls(pc, frame) /\ Counts(sem, pc, frame) /\ pc \in [Proc -> Where] /\ frame \in [Proc -> Frame \cup {NoCall}]
  BY DEF SemInv, Calls
<1>3. Calls(pc', frame') /\ Counts(sem, pc', frame')
  BY <1>1, <1>2, ReturnKeeps
<1>4. Idle(pc', p) /\ \A q \in Proc : q # p => pc'[q] = pc[q] /\ frame'[q] = frame[q]
  BY <1>1, <1>2 DEF Idle
<1>5. ~Asleep(pc', p)
  BY <1>3, <1>4, Places DEF Calls
<1>6. \A q \in Proc : /\ ~Idle(pc', q) => ~Idle(pc, q) /\ frame'[q] = frame[q]
                      /\ Asleep(pc', q) => Asleep(pc, q) /\ frame'[q] = frame[q]
  BY <1>4, <1>5 DEF Idle, Asleep
<1>7. Frames(pc', frame') /\ Sleepers(pc', frame')
  BY <1>6, FramesKept
<1>8. sema' = sema /\ sem' = sem /\ undo' = undo
  BY <1>1
<1>9. sem' \in Mem /\ InRange(sem') /\ undo' \in Tables(Keys) /\ Counts(sem', pc', frame')
  BY <1>3, <1>8 DEF SemInv
<1> QED
  BY <1>3, <1>7, <1>8, <1>9, SameHeaders

LEMMA SignalStep ==
  ASSUME SemInv, NEW p \in Proc, Signal(p)
  PROVE  SemInv'
<1>1. /\ Asleep(pc, p) \/ Woken(pc, p)
      /\ sema' = sema /\ sem' = sem /\ undo' = undo /\ frame' = frame
      /\ pc' = [pc EXCEPT ![p] = "interrupted"]
  BY DEF Signal, Woken, Asleep
<1>2. Calls(pc, frame) /\ Counts(sem, pc, frame) /\ pc \in [Proc -> Where]
  BY DEF SemInv, Calls
<1>3. Calls(pc', frame) /\ Counts(sem, pc', frame)
  BY <1>1, <1>2, SignalKeeps
<1>4. Leaving(pc', p) /\ \A q \in Proc : q # p => pc'[q] = pc[q]
  BY <1>1, <1>2 DEF Leaving
<1>5. ~Asleep(pc', p) /\ ~Idle(pc, p)
  BY <1>1, <1>2, <1>3, <1>4, Places DEF Calls
<1>6. \A q \in Proc : /\ ~Idle(pc', q) => ~Idle(pc, q) /\ frame'[q] = frame[q]
                      /\ Asleep(pc', q) => Asleep(pc, q) /\ frame'[q] = frame[q]
  BY <1>1, <1>4, <1>5 DEF Idle, Asleep
<1>7. Frames(pc', frame') /\ Sleepers(pc', frame')
  BY <1>6, FramesKept
<1>8. sem' \in Mem /\ InRange(sem') /\ undo' \in Tables(Keys) /\ Counts(sem', pc', frame') /\ Calls(pc', frame')
  BY <1>1, <1>3 DEF SemInv
<1> QED
  BY <1>1, <1>7, <1>8, SameHeaders

LEMMA InterruptedKeeps ==
  ASSUME SemInv, NEW p \in Proc, Interrupted(p)
  PROVE  SemInv'
<1> DEFINE i == frame[p].semp
           k == frame[p].kind
           n == sem[i][k]
           v == IF n <= 1 THEN 0 ELSE n - 1
           x == Wakeup(IF n <= 1 THEN {<<i, k>>} ELSE {})
<1>1. /\ Leaving(pc, p) /\ sema' = sema /\ undo' = undo
      /\ sem' = [sem EXCEPT ![i][k] = v]
      /\ pc' = [x EXCEPT ![p] = "user"] /\ frame' = [frame EXCEPT ![p] = NoCall]
  BY DEF Interrupted, Return, Leaving, Chan
<1>2. /\ Calls(pc, frame) /\ Counts(sem, pc, frame) /\ pc \in [Proc -> Where] /\ frame \in [Proc -> Frame \cup {NoCall}]
      /\ sem \in Mem
  BY DEF SemInv, Calls
<1>3. Calls(pc', frame') /\ Counts(sem', pc', frame')
  <2> DEFINE w == sem'
             y == pc'
             g == frame'
             C == IF n <= 1 THEN {<<i, k>>} ELSE {}
  <2>1. w = [sem EXCEPT ![i][k] = v] /\ x = Wakeup(C) /\ n = sem[i][k]
    BY <1>1
  <2>2. /\ y = [x EXCEPT ![p] = "user"] /\ g = [frame EXCEPT ![p] = NoCall]
        /\ i = frame[p].semp /\ k = frame[p].kind
    BY <1>1
  <2>c. n \in Nat
    <3>1. ~Idle(pc, p)
      BY <1>1, <1>2, Places
    <3>2. i \in Sema /\ k \in Kind
      BY <1>2, <3>1, CallIs
    <3> QED
      BY <1>2, <3>2 DEF Counts, Counting
  <2> HIDE DEF n
  <2>d. (n <= 1 => v = 0 /\ C = {<<i, k>>}) /\ (n > 1 => v = n - 1 /\ C = {})
    BY <2>c
  <2> HIDE DEF w, y, g, i, k, x, v, C
  <2>e. sem \in Mem /\ Calls(pc, frame) /\ Counts(sem, pc, frame) /\ Leaving(pc, p)
    BY <1>1, <1>2
  <2>3. Calls(y, g) /\ Counts(w, y, g)
    BY <2>1, <2>2, <2>d, <2>e, LeaveKeeps
  <2> QED
    BY <2>3 DEF w, y, g
<1>4. i \in Sema /\ k \in Kind /\ n \in Int
  <2>1. ~Idle(pc, p)
    BY <1>1, <1>2, Places
  <2>2. i \in Sema /\ k \in Kind
    BY <1>2, <2>1, CallIs
  <2> QED
    BY <1>2, <2>2, MemInt
<1>5. sem' \in Mem /\ InRange(sem')
  <2>1. v \in Int
    BY <1>4
  <2>2. k # "semval" /\ "semval" \in Field
    BY <1>4 DEF Kind, Field
  <2> DEFINE w == sem'
  <2>3. w = [sem EXCEPT ![i][k] = v]
    BY <1>1
  <2> HIDE DEF w, v, k, i
  <2>4. w \in Mem
    BY <1>2, <1>4, <2>1, <2>3, CountMem
  <2>5. \A j \in Sema, f \in Field : w[j][f] = IF j = i /\ f = k THEN v ELSE sem[j][f]
    BY SMTT(30), <1>2, <1>4, <2>1, <2>3, CountIs
  <2>6. \A j \in Sema : w[j].semval = sem[j].semval
    BY <2>2, <2>5
  <2> QED
    BY <2>4, <2>6 DEF InRange, SemInv, w
<1>6. /\ x \in [Proc -> Where]
      /\ \A q \in Proc : (Idle(x, q) <=> Idle(pc, q)) /\ (Asleep(x, q) => Asleep(pc, q))
  BY <1>2, WakeupIs, WakeupOne
<1> HIDE DEF x, i, k
<1>7. Idle(pc', p) /\ \A q \in Proc : q # p => pc'[q] = x[q] /\ frame'[q] = frame[q]
  BY <1>1, <1>2, <1>6 DEF Idle
<1>8. ~Asleep(pc', p)
  BY <1>3, <1>7, Places DEF Calls
<1>9. \A q \in Proc : /\ ~Idle(pc', q) => ~Idle(pc, q) /\ frame'[q] = frame[q]
                      /\ Asleep(pc', q) => Asleep(pc, q) /\ frame'[q] = frame[q]
  BY <1>6, <1>7, <1>8 DEF Idle, Asleep
<1>10. Frames(pc', frame') /\ Sleepers(pc', frame')
  BY <1>9, FramesKept
<1>11. undo' \in Tables(Keys)
  BY <1>1 DEF SemInv
<1> QED
  BY <1>1, <1>3, <1>5, <1>10, <1>11, SameHeaders

(* Values are stored, counts cleared and their waiters woken: m has the    *)
(* counts there were.                                                      *)
LEMMA StoredKeeps ==
  ASSUME SemInv, NEW m \in Mem, InRange(m), \A j \in Sema, f \in Kind : m[j][f] = sem[j][f],
         NEW C \in SUBSET Channel, NEW w, w = Zeroed(m, C), NEW x, x = Wakeup(Waited(sem, C))
  PROVE  /\ w \in Mem /\ InRange(w) /\ Calls(x, frame) /\ Counts(w, x, frame)
         /\ Frames(x, frame) /\ Sleepers(x, frame)
         /\ Clears(sem, w, Waited(sem, C)) /\ Waited(sem, C) \in SUBSET Channel
<1>1. Waited(m, C) = Waited(sem, C)
  BY DEF Waited, Channel
<1>2. Counting(m)
  BY DEF SemInv, Counts, Counting
<1>3. /\ w \in Mem /\ Waited(sem, C) \in SUBSET Channel
      /\ Clears(m, w, Waited(sem, C))
      /\ \A i \in Sema : w[i].semval = m[i].semval
  BY <1>1, <1>2, ZeroedClears
<1>4. Clears(sem, w, Waited(sem, C))
  BY <1>3 DEF Clears
<1>5. Calls(x, frame) /\ Counts(w, x, frame)
  BY <1>3, <1>4, WakeKeeps DEF SemInv
<1>6. \A q \in Proc : (Idle(x, q) <=> Idle(pc, q)) /\ (Asleep(x, q) => Asleep(pc, q))
  BY WakeupOne DEF SemInv, Calls
<1>7. Frames(x, frame) /\ Sleepers(x, frame)
  BY <1>6, FramesKept
<1> QED
  BY <1>3, <1>4, <1>5, <1>7 DEF InRange

(* Values F that are set on a set T of semaphores.                         *)
Stored(T, F) == [i \in Sema |-> IF i \in T THEN [sem[i] EXCEPT !.semval = F[i]] ELSE sem[i]]
Storable(T, F) == \A i \in Sema : i \in T => F[i] \in 0 .. Top

LEMMA SetValues ==
  ASSUME SemInv, NEW T, NEW F, Storable(T, F), NEW m, m = Stored(T, F)
  PROVE  m \in Mem /\ InRange(m) /\ \A j \in Sema, f \in Kind : m[j][f] = sem[j][f]
<1>1. sem \in [Sema -> [Field -> Int]]
  BY DEF SemInv, Mem
<1>2. ASSUME NEW i \in Sema
      PROVE  /\ m[i] \in [Field -> Int]
             /\ m[i].semval = IF i \in T THEN F[i] ELSE sem[i].semval
             /\ \A f \in Kind : m[i][f] = sem[i][f]
  <2>1. sem[i] \in [Field -> Int]
    BY <1>1
  <2>2. CASE i \in T
    <3>1. m[i] = [sem[i] EXCEPT !.semval = F[i]]
      BY <2>2 DEF Stored
    <3>2. F[i] \in 0 .. Top
      BY <2>2 DEF Storable
    <3>3. m[i] \in [Field -> Int] /\ m[i].semval = F[i]
      BY <2>1, <3>1, <3>2, TopIs DEF Field
    <3>4. \A f \in Kind : m[i][f] = sem[i][f]
      BY <2>1, <3>1 DEF Field, Kind
    <3> QED
      BY <2>2, <3>3, <3>4
  <2>3. CASE i \notin T
    <3>1. m[i] = sem[i]
      BY <2>3 DEF Stored
    <3> QED
      BY <2>1, <2>3, <3>1
  <2> QED
    BY <2>2, <2>3
<1>3. m \in Mem
  BY <1>2 DEF Mem, Stored
<1>4. InRange(m)
  BY <1>2 DEF InRange, SemInv, Storable
<1> QED
  BY <1>2, <1>3, <1>4

LEMMA StoreKeeps ==
  ASSUME SemInv, NEW id \in Nat, Live(id), NEW vals, DOMAIN vals \subseteq Nums(id),
         \A n \in DOMAIN vals : vals[n] \in 0 .. Top, Store(id, vals), undo' \in Tables(Keys)
  PROVE  SemInv'
<1> DEFINE C == {Concern(Semp(id, n), vals[n]) : n \in DOMAIN vals}
           T == {i \in Sema : \E n \in DOMAIN vals : i = Semp(id, n)}
           F == [i \in Sema |-> vals[i - Semp(id, 0)]]
           stored == [i \in Sema |-> IF \E n \in DOMAIN vals : i = Semp(id, n)
                        THEN [sem[i] EXCEPT !.semval = vals[i - Semp(id, 0)]] ELSE sem[i]]
           m == Stored(T, F)
<1>1. sem' = Zeroed(stored, C) /\ pc' = Wakeup(Waited(sem, C)) /\ sema' = sema /\ frame' = frame
  BY DEF Store
<1>2. stored = m
  BY DEF Stored
<1>3. HeadersOK
  BY DEF SemInv
<1>4. \A n \in DOMAIN vals : n \in Nat /\ Semp(id, n) \in Sema
  BY <1>3, MemberIs
<1>5. ASSUME NEW i \in Sema, i \in T PROVE F[i] \in 0 .. Top
  <2>1. PICK n \in DOMAIN vals : i = Semp(id, n)
    BY <1>5
  <2>2. sema[SlotOf(id)].base \in Nat /\ n \in Nat
    BY <1>3, <1>4, MemberIs
  <2>3. i - Semp(id, 0) = n
    BY <2>1, <2>2 DEF Semp
  <2> QED
    BY <2>3
<1>6. C \in SUBSET Channel
  <2>1. ASSUME NEW n \in DOMAIN vals PROVE Concern(Semp(id, n), vals[n]) \in Channel
    BY <1>4 DEF Concern, Channel, Kind
  <2> QED
    BY <2>1
<1> HIDE DEF C, T, F, stored
<1>7. m \in Mem /\ InRange(m) /\ \A j \in Sema, f \in Kind : m[j][f] = sem[j][f]
  <2>1. Storable(T, F)
    BY <1>5 DEF Storable
  <2> QED
    BY <2>1, SetValues
<1> HIDE DEF m
<1>8. sem' = Zeroed(m, C)
  BY <1>1, <1>2
<1>9. /\ sem' \in Mem /\ InRange(sem') /\ Calls(pc', frame) /\ Counts(sem', pc', frame)
      /\ Frames(pc', frame) /\ Sleepers(pc', frame)
  BY <1>1, <1>6, <1>7, <1>8, StoredKeeps
<1> QED
  BY <1>1, <1>9, SameHeaders

LEMMA SetvalKeeps ==
  ASSUME SemInv, NEW id \in Nat, NEW num \in Nums(id), NEW arg, Setval(id, num, arg)
  PROVE  SemInv'
<1> DEFINE vals == [n \in {num} |-> arg]
<1>1. Live(id) /\ arg \in 0 .. SEMVMX /\ Store(id, vals) /\ undo' = SemunrmAll(id, num, num)
  BY DEF Setval
<1>2. num \in Nat
  BY <1>1, MemberIs DEF SemInv
<1>3. arg \in 0 .. Top
  BY <1>1, TopIs
<1>4. SemunrmAll(id, num, num) \in Tables(Keys)
  <2>1. undo \in Tables(Keys) /\ num <= num + 1
    BY <1>2 DEF SemInv
  <2> QED
    BY <1>2, <2>1, KeysIs, SemunrmAllKeeps
<1>5. DOMAIN vals \subseteq Nums(id) /\ \A n \in DOMAIN vals : vals[n] \in 0 .. Top
  BY <1>3
<1> HIDE DEF vals
<1> QED
  BY <1>1, <1>4, <1>5, StoreKeeps

(* What SETALL stores of an argument it does not refuse.                   *)
Stores(x) == x % 65536

(* The remainder of a division.                                            *)
LEMMA Remainder ==
  ASSUME NEW x \in Int, NEW n \in Nat, n > 0
  PROVE  /\ x % n \in Int /\ 0 <= x % n /\ x % n <= n - 1
         /\ 0 <= x /\ x < n => x % n = x
OBVIOUS

LEMMA StoresIs ==
  ASSUME NEW x \in SetArg, x <= SEMVMX
  PROVE  Stores(x) \in 0 .. Top
<1>1. x \in Int
  <2>1. x \in Short
    BY SemAssumption
  <2> QED
    BY <2>1, ShortIs
<1>2. PICK n \in Nat : n = 65536
  OBVIOUS
<1>3. Stores(x) = x % n
  BY <1>2 DEF Stores
<1>4. n > 32767 /\ 65535 = n - 1
  BY <1>2
<1> DEFINE v == x % n
<1>5. v \in Int /\ 0 <= v /\ v <= n - 1 /\ (0 <= x /\ x < n => v = x)
  BY <1>1, <1>4, Remainder
<1> HIDE DEF v
<1>6. v <= Top
  <2>1. CASE SetArg \subseteq Nat
    <3>1. x \in Nat /\ x < n /\ Top = SEMVMX
      BY <1>1, <1>4, <2>1, Constants DEF Top
    <3> QED
      BY <1>5, <3>1
  <2>2. CASE ~(SetArg \subseteq Nat)
    <3>1. Top = n - 1
      BY <1>4, <2>2 DEF Top
    <3> QED
      BY <1>5, <3>1
  <2> QED
    BY <2>1, <2>2
<1>7. v \in 0 .. Top
  BY <1>5, <1>6, TopIs
<1> QED
  BY <1>3, <1>7 DEF v

LEMMA SetallKeeps ==
  ASSUME SemInv, NEW id \in Nat, NEW args \in [Nums(id) -> SetArg], Setall(id, args)
  PROVE  SemInv'
<1> DEFINE vals == [n \in Nums(id) |-> args[n] % 65536]
<1>1. /\ Live(id) /\ \A n \in Nums(id) : args[n] <= SEMVMX
      /\ Store(id, vals) /\ undo' = SemunrmAll(id, 0, sema[SlotOf(id)].nsems)
  BY DEF Setall
<1>2. ASSUME NEW n \in Nums(id) PROVE vals[n] \in 0 .. Top
  <2>1. args[n] \in SetArg /\ args[n] <= SEMVMX
    BY <1>1
  <2>2. vals[n] = Stores(args[n])
    BY DEF Stores
  <2> QED
    BY <2>1, <2>2, StoresIs
<1>3. SemunrmAll(id, 0, sema[SlotOf(id)].nsems) \in Tables(Keys)
  <2>1. undo \in Tables(Keys) /\ sema[SlotOf(id)].nsems \in Nat
    BY <1>1, MemberIs DEF SemInv
  <2> DEFINE high == sema[SlotOf(id)].nsems
  <2>2. high \in Nat /\ 0 <= high + 1
    BY <2>1
  <2> HIDE DEF high
  <2>3. SemunrmAll(id, 0, high) \in Tables(Keys)
    BY <2>1, <2>2, KeysIs, SemunrmAllKeeps
  <2> QED
    BY <2>3 DEF high
<1>4. DOMAIN vals \subseteq Nums(id) /\ \A n \in DOMAIN vals : vals[n] \in 0 .. Top
  BY <1>2
<1> HIDE DEF vals
<1> QED
  BY <1>1, <1>3, <1>4, StoreKeeps

(* The undo structure of a process is given back.                          *)
LEMMA GivenBack ==
  ASSUME NEW K \in SUBSET Key, NEW u \in Tables(K), NEW p \in Proc,
         NEW v, v = [u EXCEPT ![p] = [has |-> FALSE, ent |-> <<>>]]
  PROVE  v \in Tables(K)
<1>1. u \in [Proc -> Structure(K)] /\ Cardinality({q \in Proc : u[q].has}) <= SEMMNU
  BY DEF Tables
<1>2. <<>> \in Lists(K)
  BY Constants DEF Lists, Sorted
<1>3. [has |-> FALSE, ent |-> <<>>] \in Structure(K)
  BY <1>2 DEF Structure
<1>4. v \in [Proc -> Structure(K)]
  BY <1>1, <1>3
<1> DEFINE A == {q \in Proc : u[q].has}
           B == {q \in Proc : v[q].has}
<1>5. B \subseteq A
  <2>1. ASSUME NEW q \in Proc, v[q].has PROVE u[q].has
    BY <1>1, <2>1
  <2> QED
    BY <2>1
<1>6. IsFiniteSet(A)
  <2>1. A \in SUBSET Proc
    OBVIOUS
  <2> QED
    BY <2>1, ProcFinite, FS_Subset
<1>7. Cardinality(A) <= SEMMNU
  BY <1>1
<1> HIDE DEF A, B
<1>8. Cardinality(B) <= Cardinality(A) /\ Cardinality(A) \in Nat /\ Cardinality(B) \in Nat
  BY <1>5, <1>6, FS_Subset, FS_CardinalityType
<1>9. Cardinality(B) <= SEMMNU
  BY <1>7, <1>8, Constants
<1> QED
  BY <1>4, <1>9 DEF Tables, B

(* The entries of a process are for semaphores that exist.                 *)
LEMMA EntryIs ==
  ASSUME SemInv, NEW p \in Proc, NEW e \in Range(undo[p].ent)
  PROVE  /\ e \in UndoEntry /\ Live(e.id) /\ e.num \in Nums(e.id)
         /\ Semp(e.id, e.num) \in Sema /\ e.aoe # 0 /\ Abs(e.aoe) <= SEMAEM
<1>1. undo[p] \in Structure(Keys)
  BY DEF SemInv, Tables
<1>2. undo[p].ent \in Lists(Keys)
  BY <1>1 DEF Structure
<1>3. PICK i \in DOMAIN undo[p].ent : e = undo[p].ent[i]
  BY DEF Range
<1>4. e \in UndoEntry /\ Due(e, Keys)
  BY <1>2, <1>3 DEF Lists
<1>5. <<e.id, e.num>> \in Keys /\ e.id \in Nat
  BY <1>4 DEF Due, UndoEntry
<1>6. Live(e.id) /\ e.num \in Nums(e.id)
  BY <1>5 DEF Keys
<1>7. Semp(e.id, e.num) \in Sema
  BY <1>5, <1>6, MemberIs DEF SemInv
<1> QED
  BY <1>4, <1>6, <1>7 DEF Due

LEMMA SemexitKeeps ==
  ASSUME SemInv, NEW p \in Proc, Semexit(p)
  PROVE  SemInv'
<1> DEFINE ent == {e \in Range(undo[p].ent) : Live(e.id)}
           at(e) == Semp(e.id, e.num)
           v(e) == sem[at(e)].semval + e.aoe
           good == {e \in ent : v(e) \in 0 .. SEMVMX}
           C == {<<at(e), "semzcnt">> : e \in {f \in good : v(f) = 0}}
                \cup {<<at(e), "semncnt">> : e \in {f \in good : f.aoe > 0}}
           adjusted == [i \in Sema |-> IF \E e \in good : at(e) = i
                          THEN [sem[i] EXCEPT !.semval = v(CHOOSE e \in good : at(e) = i)] ELSE sem[i]]
           T == {i \in Sema : \E e \in good : at(e) = i}
           F == [i \in Sema |-> v(CHOOSE e \in good : at(e) = i)]
           m == Stored(T, F)
<1>1. /\ sem' = Zeroed(adjusted, C) /\ pc' = Wakeup(Waited(sem, C))
      /\ undo' = [undo EXCEPT ![p] = [has |-> FALSE, ent |-> <<>>]]
      /\ sema' = sema /\ frame' = frame
  BY Zenon DEF Semexit
<1>2. adjusted = m
  BY Zenon DEF Stored
<1>3. \A e \in good : at(e) \in Sema /\ v(e) \in 0 .. SEMVMX
  BY EntryIs
<1>4. C \in SUBSET Channel
  BY <1>3 DEF Channel, Kind
<1>5. ASSUME NEW i \in Sema, i \in T PROVE F[i] \in 0 .. Top
  <2> DEFINE e == CHOOSE e \in good : at(e) = i
  <2>1. e \in good
    BY Zenon, <1>5
  <2>2. F[i] = v(e)
    BY Zenon
  <2>3. F[i] \in 0 .. SEMVMX
    BY Zenon, <1>3, <2>1, <2>2
  <2> HIDE DEF e, v, F, T, good
  <2> QED
    BY <2>3, TopIs
<1> HIDE DEF C, T, F, adjusted, good, v, at, ent
<1>6. m \in Mem /\ InRange(m) /\ \A j \in Sema, f \in Kind : m[j][f] = sem[j][f]
  <2>1. Storable(T, F)
    BY <1>5 DEF Storable
  <2> QED
    BY <2>1, SetValues
<1> HIDE DEF m
<1>7. sem' = Zeroed(m, C)
  BY <1>1, <1>2
<1>8. /\ sem' \in Mem /\ InRange(sem') /\ Calls(pc', frame) /\ Counts(sem', pc', frame)
      /\ Frames(pc', frame) /\ Sleepers(pc', frame)
  BY <1>1, <1>4, <1>6, <1>7, StoredKeeps
<1>9. undo' \in Tables(Keys)
  BY <1>1, KeysIs, GivenBack DEF SemInv
<1> QED
  BY <1>1, <1>8, <1>9, SameHeaders

(* semctl(IPC_RMID): the sleepers of the set are woken, its undo entries   *)
(* removed, and its identifier is not used again.                          *)
LEMMA RmidKeeps ==
  ASSUME SemInv, NEW id \in Nat, Rmid(id)
  PROVE  SemInv'
<1> DEFINE C == Members(id) \X Kind
           W == Waited(sem, C)
           s == SlotOf(id)
<1>1. /\ Live(id) /\ undo' = SemunrmAll(id, 0, sema[s].nsems)
      /\ sem' = [i \in Sema |-> IF i \in Members(id) THEN [Zeroed(sem, C)[i] EXCEPT !.semval = 0] ELSE sem[i]]
      /\ pc' = Wakeup(W) /\ frame' = frame
      /\ sema' = [sema EXCEPT ![s].seq = @ + 1, ![s].alloc = FALSE]
  BY DEF Rmid
<1>2. HeadersOK /\ sema \in [Slot -> Header] /\ s \in Slot /\ Members(id) \in SUBSET Sema
  BY <1>1, SlotIs, MemberIs DEF SemInv, HeadersOK
<1>3. /\ sem \in Mem /\ InRange(sem) /\ Calls(pc, frame) /\ Counts(sem, pc, frame) /\ Counting(sem)
      /\ pc \in [Proc -> Where] /\ frame \in [Proc -> Frame \cup {NoCall}]
  BY DEF SemInv, Counts, Calls
<1>4. C \in SUBSET Channel
  BY <1>2 DEF Channel
<1>5. /\ Zeroed(sem, C) \in Mem /\ W \in SUBSET Channel
      /\ Clears(sem, Zeroed(sem, C), W)
      /\ \A i \in Sema : Zeroed(sem, C)[i].semval = sem[i].semval
  BY <1>3, <1>4, ZeroedClears
<1>6. ASSUME NEW i \in Sema
      PROVE  /\ sem'[i] \in [Field -> Int] /\ sem'[i].semval \in 0 .. Top
             /\ \A f \in Kind : sem'[i][f] = IF <<i, f>> \in W THEN 0 ELSE sem[i][f]
  <2>1. Zeroed(sem, C)[i] \in [Field -> Int] /\ sem[i] \in [Field -> Int]
    BY <1>3, <1>5 DEF Mem
  <2>2. CASE i \in Members(id)
    <3> DEFINE z == Zeroed(sem, C)[i]
    <3>1. sem'[i] = [z EXCEPT !.semval = 0] /\ z \in [Field -> Int]
      BY <1>1, <2>1, <2>2
    <3>2. \A f \in Kind : z[f] = IF <<i, f>> \in W THEN 0 ELSE sem[i][f]
      BY <1>5 DEF Clears
    <3> HIDE DEF z
    <3>3. sem'[i] \in [Field -> Int] /\ sem'[i].semval = 0 /\ \A f \in Kind : sem'[i][f] = z[f]
      BY <3>1 DEF Field, Kind
    <3>4. 0 \in 0 .. Top
      BY TopIs
    <3>5. \A f \in Kind : sem'[i][f] = IF <<i, f>> \in W THEN 0 ELSE sem[i][f]
      BY <3>2, <3>3
    <3> QED
      BY <3>3, <3>4, <3>5
  <2>3. CASE i \notin Members(id)
    <3>1. sem'[i] = sem[i]
      BY <1>1, <2>3
    <3>2. \A f \in Kind : <<i, f>> \notin W
      BY <2>3 DEF Waited
    <3>3. sem[i].semval \in 0 .. Top
      BY <1>3 DEF InRange
    <3> QED
      BY <2>1, <3>1, <3>2, <3>3
  <2> QED
    BY <2>2, <2>3
<1>7. sem' \in Mem /\ InRange(sem') /\ Clears(sem, sem', W)
  <2>1. \E m : m = sem' /\ m = [i \in Sema |-> sem'[i]]
    BY <1>1
  <2>2. sem' \in Mem
    BY <1>6, <2>1 DEF Mem
  <2> QED
    BY <1>6, <2>2 DEF InRange, Clears
<1>8. Calls(pc', frame') /\ Counts(sem', pc', frame')
  BY <1>1, <1>3, <1>5, <1>7, WakeKeeps
<1>9. \A q \in Proc : /\ Idle(pc', q) <=> Idle(pc, q)
                      /\ Asleep(pc', q) => Asleep(pc, q) /\ ChanOf(frame, q) \notin W
  BY <1>1, <1>3, WakeupOne
<1> HIDE DEF s, W, C
(* The headers. *)
<1>10. /\ sema' \in [Slot -> Header] /\ ~sema'[s].alloc /\ sema'[s].seq = sema[s].seq + 1
       /\ \A t \in Slot : t # s => sema'[t] = sema[t]
  <2> DEFINE old == sema[s]
             new == [[old EXCEPT !.seq = old.seq + 1] EXCEPT !.alloc = FALSE]
  <2>1. old \in Header
    BY <1>2
  <2>2. sema' = [sema EXCEPT ![s] = new]
    BY <1>1, <1>2
  <2> HIDE DEF old
  <2>3. new \in Header /\ ~new.alloc /\ new.seq = old.seq + 1
    <3>1. old.base \in Nat /\ old.nsems \in Nat /\ old.seq \in Nat
      BY <2>1 DEF Header
    <3>2. new = [alloc |-> FALSE, seq |-> old.seq + 1, base |-> old.base, nsems |-> old.nsems]
      <4> DEFINE mid == [old EXCEPT !.seq = old.seq + 1]
      <4>1. mid = [alloc |-> old.alloc, seq |-> old.seq + 1, base |-> old.base, nsems |-> old.nsems]
        BY <2>1 DEF Header
      <4>2. new = [mid EXCEPT !.alloc = FALSE]
        OBVIOUS
      <4> HIDE DEF mid, new
      <4> QED
        BY <4>1, <4>2
    <3> HIDE DEF new
    <3>3. new \in Header
      BY <3>1, <3>2 DEF Header
    <3>4. new.alloc = FALSE /\ new.seq = old.seq + 1
      BY <3>2
    <3> QED
      BY <3>3, <3>4
  <2> HIDE DEF new
  <2>4. sema' \in [Slot -> Header] /\ sema'[s] = new /\ \A t \in Slot : t # s => sema'[t] = sema[t]
    BY <1>2, <2>2, <2>3
  <2> QED
    BY <2>3, <2>4 DEF old
<1>11. ASSUME NEW x \in Nat
       PROVE  /\ SlotOf(x) \in Slot /\ SlotOf(x)' = SlotOf(x)
              /\ SlotOf(x) = s => ~Live(x)'
              /\ SlotOf(x) # s => /\ Live(x)' <=> Live(x)
                                  /\ Members(x)' = Members(x) /\ Nums(x)' = Nums(x)
  <2>1. SlotOf(x) \in Slot
    BY SlotIs
  <2>2. SlotOf(x)' = SlotOf(x)
    BY DEF SlotOf
  <2>3. ASSUME SlotOf(x) # s
        PROVE  /\ Live(x)' <=> Live(x)
               /\ Members(x)' = Members(x) /\ Nums(x)' = Nums(x)
    <3>1. sema'[SlotOf(x)] = sema[SlotOf(x)]
      BY <1>10, <2>1, <2>3
    <3>2. Live(x)' <=> Live(x)
      BY <2>2, <3>1 DEF Live
    <3>3. Nums(x)' = Nums(x) /\ \A n : Semp(x, n)' = Semp(x, n)
      BY <2>2, <3>1 DEF Nums, Semp
    <3> QED
      BY <3>2, <3>3 DEF Members
  <2>4. SlotOf(x) = s => ~Live(x)'
    BY <1>10, <2>2 DEF Live
  <2> QED
    BY <2>1, <2>2, <2>3, <2>4
<1>12. HeadersOK'
  BY <1>2, <1>10, <1>11 DEF HeadersOK
<1>13. \A x \in Nat : Live(x) /\ SlotOf(x) = s => x = id
  BY <1>1, SameSlot DEF s
(* The undo entries. *)
<1>14. Keys' = {k \in Keys : k[1] # id}
  <2>1. ASSUME NEW k \in Key PROVE k \in Keys' <=> k \in Keys /\ k[1] # id
    <3>1. k[1] \in Nat
      BY DEF Key
    <3>2. Live(k[1])' <=> Live(k[1]) /\ SlotOf(k[1]) # s
      BY <1>11, <3>1
    <3>3. Live(k[1]) /\ k[1] # id => SlotOf(k[1]) # s
      BY <1>13, <3>1
    <3>4. SlotOf(id) = s
      BY DEF s
    <3>5. Live(k[1])' => Nums(k[1])' = Nums(k[1])
      BY <1>11, <3>1, <3>2
    <3> QED
      BY <3>2, <3>3, <3>4, <3>5 DEF Keys
  <2> QED
    BY <2>1 DEF Keys
<1>15. undo' \in Tables(Keys')
  <2> DEFINE J == Keys'
             high == sema[s].nsems
  <2>1. undo \in Tables(Keys) /\ high \in Nat
    BY <1>2, HeaderIs DEF SemInv
  <2>2. \A n \in Nat : <<id, n>> \in Keys => 0 <= n /\ n <= high
    BY <2>1 DEF Keys, Nums, s
  <2>3. /\ \A n \in Nat : <<id, n>> \in Keys \ J => 0 <= n /\ n <= high
        /\ \A k \in Keys : k[1] # id => k \in J
        /\ J \in SUBSET Key
    BY <1>14, <2>2, KeysIs
  <2>4. 0 <= high + 1
    BY <2>1
  <2> HIDE DEF J, high
  <2>5. SemunrmAll(id, 0, high) \in Tables(J)
    BY <2>1, <2>3, <2>4, KeysIs, SemunrmAllKeeps
  <2> QED
    BY <1>1, <2>5 DEF J, high
(* The processes in semop(). *)
<1>16. ASSUME NEW q \in Proc, ~Idle(pc, q)
       PROVE  /\ frame[q].id \in Nat /\ frame[q].semp \in Sema /\ frame[q].kind \in Kind
              /\ Gone(frame[q].id) \/ Valid(frame[q].id, frame[q].ops)
  <2>1. frame[q] \in Frame /\ frame[q].semp \in Sema /\ frame[q].kind \in Kind
    BY <1>3, <1>16, CallIs
  <2>2. frame[q].id \in Nat
    BY <2>1, FrameIs
  <2> QED
    BY <1>16, <2>1, <2>2 DEF SemInv, Frames
<1>17. ASSUME NEW q \in Proc, ~Idle(pc', q)
       PROVE  (Gone(frame[q].id) \/ Valid(frame[q].id, frame[q].ops))'
  <2>0. PICK x, ops : x = frame[q].id /\ ops = frame[q].ops
    OBVIOUS
  <2>1. ~Idle(pc, q)
    BY <1>9, <1>17
  <2>2. x \in Nat /\ (Gone(x) \/ Valid(x, ops))
    BY <1>16, <2>0, <2>1
  <2>3. frame'[q] = frame[q]
    BY <1>1
  <2>4. SlotOf(x) \in Slot /\ x \div SEMMNI \in Nat /\ sema[s].seq \in Nat
    BY <1>2, <2>2, SlotIs, HeaderIs
  <2>5. CASE SlotOf(x) = s
    <3>1. x \div SEMMNI <= sema[s].seq
      BY <2>2, <2>4, <2>5 DEF Gone, Valid, Live
    <3>2. x \div SEMMNI < sema'[s].seq
      BY SMTT(30), <1>10, <2>4, <3>1
    <3> QED
      BY <1>11, <2>0, <2>2, <2>3, <2>5, <3>2 DEF Gone
  <2>6. CASE SlotOf(x) # s
    <3>1. sema'[SlotOf(x)] = sema[SlotOf(x)]
      BY <1>10, <2>4, <2>6
    <3>2. Gone(x) => (x \div SEMMNI < sema'[SlotOf(x)].seq)
      BY <3>1 DEF Gone
    <3>3. Valid(x, ops) => Live(x)' /\ \A i \in DOMAIN ops : ops[i].num \in Nums(x)'
      BY <1>11, <2>2, <2>6 DEF Valid
    <3> QED
      BY <1>11, <2>0, <2>2, <2>3, <3>2, <3>3 DEF Gone, Valid, Live, Nums
  <2> QED
    BY <2>5, <2>6
<1>18. Frames(pc, frame)'
  BY <1>17 DEF Frames, Idle
<1>19. ASSUME NEW q \in Proc, Asleep(pc', q)
       PROVE  (Live(frame[q].id) /\ frame[q].semp \in Members(frame[q].id))'
  <2>0. PICK x, i : x = frame[q].id /\ i = frame[q].semp
    OBVIOUS
  <2>1. Asleep(pc, q) /\ ChanOf(frame, q) \notin W
    BY <1>9, <1>19
  <2>2. ~Idle(pc, q)
    BY <1>3, <2>1, Places
  <2>3. x \in Nat /\ i \in Sema /\ frame[q].kind \in Kind
    BY <1>16, <2>0, <2>2
  <2>4. Live(x) /\ i \in Members(x)
    BY <2>0, <2>1 DEF SemInv, Sleepers
  <2>5. sem[i][frame[q].kind] > 0
    BY <1>3, <2>0, <2>1 DEF Counts
  <2>6. SlotOf(x) # s
    <3>1. SUFFICES ASSUME SlotOf(x) = s PROVE FALSE
      OBVIOUS
    <3>2. x = id
      BY <1>13, <2>3, <2>4, <3>1
    <3>3. ChanOf(frame, q) \in W
      BY <2>0, <2>3, <2>4, <2>5, <3>2 DEF W, C, Waited, ChanOf
    <3> QED
      BY <2>1, <3>3
  <2>7. Live(x)' /\ i \in Members(x)'
    BY <1>11, <2>3, <2>4, <2>6
  <2>8. frame'[q] = frame[q]
    BY <1>1
  <2> QED
    BY <2>0, <2>7, <2>8 DEF Live, Members, Semp, Nums, SlotOf
<1>20. Sleepers(pc, frame)'
  BY <1>19 DEF Sleepers, Asleep
<1>21. (undo \in Tables(Keys))'
  BY <1>15 DEF Tables, Structure, Lists, Due, Sorted, Before, Abs
<1>22. (sem \in Mem /\ InRange(sem) /\ Calls(pc, frame))'
  BY <1>7, <1>8 DEF Mem, InRange, Top, Calls, Idle
<1>23. Counts(sem, pc, frame)'
  BY <1>8 DEF Counts, Counting, Asleep, Waiters, Leaving, ChanOf
<1> QED
  BY <1>12, <1>18, <1>20, <1>21, <1>22, <1>23 DEF SemInv

(* semget(): a free header gets a hole of the map.                         *)
LEMMA SemgetKeeps ==
  ASSUME SemInv, NEW n \in 1 .. SEMMSL, Semget(n)
  PROVE  SemInv'
<1> DEFINE free == {t \in Slot : ~sema[t].alloc}
           holes == {c \in Sema : Fits(c, n)}
           s == Min(free)
           b == Min(holes)
<1>1. /\ free # {} /\ holes # {}
      /\ sema' = [sema EXCEPT ![s] = [alloc |-> TRUE, seq |-> @.seq, base |-> b, nsems |-> n]]
      /\ sem' = sem /\ undo' = undo /\ pc' = pc /\ frame' = frame
  BY DEF Semget
<1>2. s \in free
  <2>1. free \in SUBSET Nat
    BY DEF Slot
  <2>2. \E x \in free : \A y \in free : x =< y
    BY <1>1, <2>1, LeastOf
  <2> QED
    BY <2>2 DEF Min
<1>3. b \in holes
  <2>1. holes \in SUBSET Nat
    BY DEF Sema
  <2>2. \E x \in holes : \A y \in holes : x =< y
    BY <1>1, <2>1, LeastOf
  <2> QED
    BY <2>2 DEF Min
<1>4. /\ s \in Slot /\ ~sema[s].alloc
      /\ b \in Nat /\ n \in Nat /\ \A j \in b .. b + n - 1 : j \in Sema /\ j \notin Taken
  <2> HIDE DEF s, b
  <2>1. s \in Slot /\ ~sema[s].alloc
    BY <1>2
  <2>2. b \in Sema /\ Fits(b, n)
    BY <1>3
  <2>3. b \in Nat /\ n \in Nat
    BY <2>2 DEF Sema
  <2>4. \A j \in b .. b + n - 1 : j \in Sema /\ j \notin Taken
    BY <2>2 DEF Fits
  <2> QED
    BY <2>1, <2>3, <2>4
<1>5. HeadersOK /\ sema \in [Slot -> Header]
  BY DEF SemInv, HeadersOK
<1> HIDE DEF free, holes, s, b
<1>6. /\ sema' \in [Slot -> Header]
      /\ sema'[s].seq = sema[s].seq /\ sema'[s].base = b /\ sema'[s].nsems = n
      /\ \A t \in Slot : t # s => sema'[t] = sema[t]
  <2> DEFINE old == sema[s]
             new == [alloc |-> TRUE, seq |-> old.seq, base |-> b, nsems |-> n]
  <2>1. old \in Header /\ sema' = [sema EXCEPT ![s] = new]
    BY <1>1, <1>4, <1>5
  <2> HIDE DEF old
  <2>2. new = [alloc |-> TRUE, seq |-> old.seq, base |-> b, nsems |-> n] /\ old.seq \in Nat
    BY <2>1 DEF Header
  <2> HIDE DEF new
  <2>3. new \in Header /\ new.seq = old.seq /\ new.base = b /\ new.nsems = n
    BY <1>4, <2>2 DEF Header
  <2>4. sema' \in [Slot -> Header] /\ sema'[s] = new /\ \A t \in Slot : t # s => sema'[t] = sema[t]
    BY <1>4, <1>5, <2>1, <2>3
  <2> QED
    BY <2>3, <2>4 DEF old
<1>7. ASSUME NEW x \in Nat
      PROVE  /\ SlotOf(x) \in Slot /\ SlotOf(x)' = SlotOf(x)
             /\ SlotOf(x) = s => /\ ~Live(x) /\ (Live(x)' => x \div SEMMNI = sema[s].seq)
                                 /\ Members(x)' = b .. b + n - 1
             /\ SlotOf(x) # s => /\ Live(x)' <=> Live(x)
                                 /\ Members(x)' = Members(x) /\ Nums(x)' = Nums(x)
  <2>1. SlotOf(x) \in Slot /\ SlotOf(x)' = SlotOf(x)
    BY SlotIs DEF SlotOf
  <2>2. ASSUME SlotOf(x) # s
        PROVE  /\ Live(x)' <=> Live(x)
               /\ Members(x)' = Members(x) /\ Nums(x)' = Nums(x)
    <3>1. sema'[SlotOf(x)] = sema[SlotOf(x)]
      BY <1>6, <2>1, <2>2
    <3>2. Live(x)' <=> Live(x)
      BY <2>1, <3>1 DEF Live
    <3>3. Nums(x)' = Nums(x) /\ \A k : Semp(x, k)' = Semp(x, k)
      BY <2>1, <3>1 DEF Nums, Semp
    <3> QED
      BY <3>2, <3>3 DEF Members
  <2>3. ASSUME SlotOf(x) = s
        PROVE  /\ ~Live(x) /\ (Live(x)' => x \div SEMMNI = sema[s].seq)
               /\ Members(x)' = b .. b + n - 1
    <3>1. ~Live(x) /\ (Live(x)' => x \div SEMMNI = sema[s].seq)
      BY <1>4, <1>6, <2>1, <2>3 DEF Live
    <3>2. Nums(x)' = 0 .. n - 1 /\ \A k : Semp(x, k)' = b + k
      BY <1>6, <2>1, <2>3 DEF Nums, Semp
    <3>3. Members(x)' = {b + k : k \in 0 .. n - 1}
      BY <3>2 DEF Members
    <3>4. {b + k : k \in 0 .. n - 1} = b .. b + n - 1
      <4>1. ASSUME NEW j \in b .. b + n - 1 PROVE j \in {b + k : k \in 0 .. n - 1}
        <5>1. j - b \in 0 .. n - 1 /\ j = b + (j - b)
          BY <1>4
        <5> QED
          BY <5>1
      <4>2. \A k \in 0 .. n - 1 : b + k \in b .. b + n - 1
        BY <1>4
      <4> QED
        BY <4>1, <4>2
    <3> QED
      BY <3>1, <3>3, <3>4
  <2> QED
    BY <2>1, <2>2, <2>3
<1>8. ASSUME NEW x \in Nat, NEW y \in Nat, Live(x)', Live(y)', x # y
      PROVE  (Members(x) \cap Members(y) = {})'
  <2>1. \A z \in Nat : Live(z) => Members(z) \subseteq Taken
    BY <1>5, LiveIs DEF Taken
  <2>2. \A j \in b .. b + n - 1 : j \notin Taken
    BY <1>4
  <2>3. CASE SlotOf(x) = s /\ SlotOf(y) = s
    <3>1. x \div SEMMNI = y \div SEMMNI /\ SlotOf(x) = SlotOf(y)
      BY <1>7, <1>8, <2>3
    <3>2. x = y
      BY <3>1, SlotIs
    <3> QED
      BY <1>8, <3>2
  <2>4. CASE SlotOf(x) = s /\ SlotOf(y) # s
    <3>1. Members(x)' = b .. b + n - 1 /\ Members(y)' = Members(y) /\ Live(y)
      BY <1>7, <1>8, <2>4
    <3> QED
      BY <2>1, <2>2, <3>1
  <2>5. CASE SlotOf(x) # s /\ SlotOf(y) = s
    <3>1. Members(y)' = b .. b + n - 1 /\ Members(x)' = Members(x) /\ Live(x)
      BY <1>7, <1>8, <2>5
    <3> QED
      BY <2>1, <2>2, <3>1
  <2>6. CASE SlotOf(x) # s /\ SlotOf(y) # s
    <3>1. Members(x)' = Members(x) /\ Members(y)' = Members(y) /\ Live(x) /\ Live(y)
      BY <1>7, <1>8, <2>6
    <3> QED
      BY <1>5, <1>8, <3>1 DEF HeadersOK
  <2> QED
    BY <2>3, <2>4, <2>5, <2>6
<1>9. HeadersOK'
  <2>1. ASSUME NEW x \in Nat, Live(x)' PROVE Members(x)' \subseteq Sema
    BY <1>4, <1>5, <1>7, <2>1 DEF HeadersOK
  <2> QED
    BY <1>6, <1>8, <2>1 DEF HeadersOK
<1>10. \A x \in Nat : Live(x) => Live(x)' /\ Members(x)' = Members(x) /\ Nums(x)' = Nums(x)
  BY <1>7
<1>11. undo' \in Tables(Keys')
  <2> DEFINE J == Keys'
  <2>1. Keys \subseteq J /\ J \in SUBSET Key
    <3>1. \A k \in Key : k[1] \in Nat
      BY DEF Key
    <3> QED
      BY <1>10, <3>1 DEF Keys
  <2> HIDE DEF J
  <2>2. undo \in Tables(J)
    BY SMTT(30), <2>1, KeysIs, TablesIn DEF SemInv
  <2> QED
    BY <1>1, <2>2 DEF J
<1>12. ASSUME NEW q \in Proc, ~Idle(pc', q)
       PROVE  (Gone(frame[q].id) \/ Valid(frame[q].id, frame[q].ops))'
  <2>1. PICK x, ops : x = frame[q].id /\ ops = frame[q].ops
    OBVIOUS
  <2>2. ~Idle(pc, q)
    BY <1>1, <1>12
  <2>3. x \in Nat
    <3>1. frame[q] \in Frame
      BY <2>2, CallIs DEF SemInv
    <3> QED
      BY <2>1, <3>1, FrameIs
  <2>4. Gone(x) \/ Valid(x, ops)
    BY <2>1, <2>2 DEF SemInv, Frames
  <2>5. frame'[q] = frame[q]
    BY <1>1
  <2>6. sema'[SlotOf(x)].seq = sema[SlotOf(x)].seq
    BY <1>6, <1>7, <2>3
  <2>7. Gone(x) => x \div SEMMNI < sema'[SlotOf(x)].seq
    BY <2>6 DEF Gone
  <2>8. Valid(x, ops) => Live(x)' /\ \A i \in DOMAIN ops : ops[i].num \in Nums(x)'
    BY <1>10, <2>3 DEF Valid
  <2> QED
    BY <1>7, <2>1, <2>3, <2>4, <2>5, <2>7, <2>8 DEF Gone, Valid, Live, Nums
<1>13. Frames(pc, frame)'
  BY SMTT(30), <1>12 DEF Frames, Idle
<1>14. ASSUME NEW q \in Proc, Asleep(pc', q)
       PROVE  (Live(frame[q].id) /\ frame[q].semp \in Members(frame[q].id))'
  <2>1. PICK x, i : x = frame[q].id /\ i = frame[q].semp
    OBVIOUS
  <2>2. Asleep(pc, q)
    BY <1>1, <1>14
  <2>3. x \in Nat
    <3>1. ~Idle(pc, q)
      BY <2>2, Places DEF SemInv, Calls
    <3>2. frame[q] \in Frame
      BY <3>1, CallIs DEF SemInv
    <3> QED
      BY <2>1, <3>2, FrameIs
  <2>4. Live(x) /\ i \in Members(x)
    BY <2>1, <2>2 DEF SemInv, Sleepers
  <2>5. Live(x)' /\ i \in Members(x)'
    BY <1>10, <2>3, <2>4
  <2>6. frame'[q] = frame[q]
    BY <1>1
  <2> QED
    BY <2>1, <2>5, <2>6 DEF Live, Members, Semp, Nums, SlotOf
<1>15. Sleepers(pc, frame)'
  BY <1>14 DEF Sleepers, Asleep
<1>16. (undo \in Tables(Keys))'
  BY <1>11 DEF Tables, Structure, Lists, Due, Sorted, Before, Abs
<1>17. (sem \in Mem /\ InRange(sem) /\ Calls(pc, frame))'
  BY <1>1 DEF SemInv, Mem, InRange, Top, Calls, Idle
<1>18. Counts(sem, pc, frame)'
  BY <1>1 DEF SemInv, Counts, Counting, Asleep, Waiters, Leaving, ChanOf
<1> QED
  BY <1>9, <1>13, <1>15, <1>16, <1>17, <1>18 DEF SemInv

------------------------------------------------------------------------------
(* The theorems.                                                           *)

LEMMA InitHolds == Init => SemInv
<1> SUFFICES ASSUME Init PROVE SemInv
  OBVIOUS
<1>1. \A s \in Slot : sema[s] = [alloc |-> FALSE, seq |-> 0, base |-> 1, nsems |-> 0]
  BY DEF Init
<1>2. \A id \in Nat : ~Live(id)
  <2>1. ASSUME NEW id \in Nat PROVE ~sema[SlotOf(id)].alloc
    BY <1>1, SlotIs
  <2> QED
    BY <2>1 DEF Live
<1>3. HeadersOK
  <2>1. [alloc |-> FALSE, seq |-> 0, base |-> 1, nsems |-> 0] \in Header
    BY DEF Header
  <2>2. sema \in [Slot -> Header]
    BY <2>1 DEF Init
  <2> QED
    BY <1>2, <2>2 DEF HeadersOK
<1>4. sem \in Mem /\ \A i \in Sema : sem[i].semval = 0 /\ \A f \in Kind : sem[i][f] = 0
  <2> DEFINE z == [semval |-> 0, semncnt |-> 0, semzcnt |-> 0]
  <2>1. sem = [i \in Sema |-> z]
    BY DEF Init
  <2>2. z.semval = 0 /\ \A f \in Kind : z[f] = 0
    BY DEF Kind
  <2>3. z \in [Field -> Int]
    BY DEF Field
  <2> HIDE DEF z
  <2> QED
    BY <2>1, <2>2, <2>3 DEF Mem
<1>5. InRange(sem) /\ Counting(sem)
  <2>1. 0 \in 0 .. Top
    BY TopIs
  <2> QED
    BY <1>4, <2>1 DEF InRange, Counting
<1>6. undo \in Tables(Keys)
  <2>1. <<>> \in Lists(Keys)
    BY Constants DEF Lists, Sorted
  <2>2. [has |-> FALSE, ent |-> <<>>] \in Structure(Keys)
    BY <2>1 DEF Structure
  <2>3. undo = [p \in Proc |-> [has |-> FALSE, ent |-> <<>>]]
    BY DEF Init
  <2>4. undo \in [Proc -> Structure(Keys)] /\ \A p \in Proc : undo[p].has = FALSE
    BY <2>2, <2>3
  <2>5. {p \in Proc : undo[p].has} = {}
    BY <2>4
  <2>6. Cardinality({p \in Proc : undo[p].has}) = 0
    BY <2>5, FS_EmptySet
  <2> QED
    BY <2>4, <2>6, Constants DEF Tables
<1>7. pc \in [Proc -> Where] /\ frame \in [Proc -> Frame \cup {NoCall}]
  BY DEF Init, Where
<1>8. \A p \in Proc : Idle(pc, p) /\ frame[p] = NoCall
  BY DEF Init, Idle
<1>9. \A p \in Proc : ~Asleep(pc, p)
  BY <1>7, <1>8, Places
<1>10. Calls(pc, frame)
  BY <1>7, <1>8 DEF Calls
<1>11. Counts(sem, pc, frame)
  <2>1. ASSUME NEW i \in Sema, NEW k \in Kind PROVE sem[i][k] <= Cardinality(Waiters(pc, frame, <<i, k>>))
    <3>1. Cardinality(Waiters(pc, frame, <<i, k>>)) \in Nat
      BY WaitersFinite
    <3> QED
      BY <1>4, <3>1
  <2> QED
    BY <1>5, <1>9, <2>1 DEF Counts
<1>12. Frames(pc, frame) /\ Sleepers(pc, frame)
  BY <1>8, <1>9 DEF Frames, Sleepers
<1> QED
  BY <1>3, <1>4, <1>5, <1>6, <1>10, <1>11, <1>12 DEF SemInv

LEMMA NextKeeps ==
  ASSUME SemInv, [Next]_vars
  PROVE  SemInv'
<1>1. \A id \in LiveIds : id \in Nat /\ Live(id)
  BY LiveIs DEF SemInv, HeadersOK
<1>2. CASE \E p \in Proc : \E id \in LiveIds, ops \in Vector : Semop(p, id, ops)
  <2>1. PICK p \in Proc, id \in LiveIds, ops \in Vector : Semop(p, id, ops)
    BY <1>2
  <2>2. Idle(pc, p) /\ Valid(id, ops) /\ Attempt(p, id, ops)
    BY <2>1 DEF Semop, Idle, Valid
  <2> QED
    BY <1>1, <2>2, AttemptKeeps
<1>3. CASE \E p \in Proc : RetryFails(p)
  BY <1>3, RetryFailsKeeps
<1>4. CASE \E p \in Proc : Retry(p)
  <2>1. PICK p \in Proc : Retry(p)
    BY <1>4
  <2> DEFINE id == frame[p].id
             ops == frame[p].ops
  <2>2. Woken(pc, p) /\ Live(id) /\ Attempt(p, id, ops)
    BY <2>1 DEF Retry, Woken
  <2>3. ~Idle(pc, p)
    BY <2>2, Places DEF SemInv, Calls
  <2>4. id \in Nat /\ ops \in Vector
    BY <2>3, CallIs, FrameIs DEF SemInv
  <2>5. Gone(id) \/ Valid(id, ops)
    BY <2>3 DEF SemInv, Frames
  <2>6. ~Gone(id)
    <3>1. sema[SlotOf(id)].seq \in Nat /\ id \div SEMMNI = sema[SlotOf(id)].seq
      BY <2>2, <2>4, SlotIs, HeaderIs DEF SemInv, HeadersOK, Live
    <3> QED
      BY <3>1 DEF Gone
  <2> HIDE DEF id, ops
  <2> QED
    BY <2>2, <2>4, <2>5, <2>6, AttemptKeeps
<1>5. CASE \E p \in Proc : Signal(p)
  BY <1>5, SignalStep
<1>6. CASE \E p \in Proc : Interrupted(p)
  BY <1>6, InterruptedKeeps
<1>7. CASE \E p \in Proc : Semexit(p)
  BY <1>7, SemexitKeeps
<1>8. CASE \E n \in 1 .. SEMMSL : Semget(n)
  BY <1>8, SemgetKeeps
<1>9. CASE \E id \in LiveIds : Rmid(id)
  BY <1>1, <1>9, RmidKeeps
<1>10. CASE \E id \in LiveIds : \E num \in Nums(id), arg \in 0 .. SEMVMX : Setval(id, num, arg)
  BY <1>1, <1>10, SetvalKeeps
<1>11. CASE \E id \in LiveIds : \E args \in [Nums(id) -> SetArg] : Setall(id, args)
  BY <1>1, <1>11, SetallKeeps
<1>12. CASE UNCHANGED vars
  <2>1. sema' = sema /\ sem' = sem /\ undo' = undo /\ pc' = pc /\ frame' = frame
    BY <1>12 DEF vars
  <2>2. \A q \in Proc : /\ ~Idle(pc', q) => ~Idle(pc, q) /\ frame'[q] = frame[q]
                        /\ Asleep(pc', q) => Asleep(pc, q) /\ frame'[q] = frame[q]
    BY <2>1
  <2>3. Frames(pc', frame') /\ Sleepers(pc', frame')
    BY <2>2, FramesKept
  <2>4. sem' \in Mem /\ InRange(sem') /\ undo' \in Tables(Keys) /\ Counts(sem', pc', frame') /\ Calls(pc', frame')
    BY <2>1 DEF SemInv
  <2> QED
    BY <2>1, <2>3, <2>4, SameHeaders
<1> QED
  BY <1>2, <1>3, <1>4, <1>5, <1>6, <1>7, <1>8, <1>9, <1>10, <1>11, <1>12 DEF Next

(* SemInv holds in every state of the semaphores: the counts of a channel  *)
(* count the processes that are asleep or leaving there and nobody twice,  *)
(* every count with a sleeper is positive, and a process asleep in semop() *)
(* was called for a set that exists (sem.c).                               *)
THEOREM SemInvariant == Spec => []SemInv
<1>1. Init => SemInv
  BY InitHolds
<1>2. SemInv /\ [Next]_vars => SemInv'
  BY NextKeeps
<1> QED
  BY <1>1, <1>2, PTL DEF Spec

(* A process asleep in semop() is counted where it sleeps, and its set     *)
(* exists, also after a process that was woken left by a signal and        *)
(* decremented a count that was not its own any more (semop()).            *)
THEOREM SleepersCounted == Spec => []SleeperCounted
<1>1. SemInv => SleeperCounted
  BY DEF SemInv, Counts, Sleepers, Asleep, SleeperCounted
<1> QED
  BY <1>1, SemInvariant, PTL

(* An undo entry is of a semaphore of a set that exists, and within        *)
(* SEMAEM (semaoe(), semunrm()).                                           *)
THEOREM UndoLive == Spec => []UndoOfLiveSets
<1>1. ASSUME SemInv PROVE UndoOfLiveSets
  <2>1. ASSUME NEW p \in Proc, NEW i \in DOMAIN undo[p].ent
        PROVE  LET e == undo[p].ent[i] IN
               Live(e.id) /\ e.num \in Nums(e.id) /\ e.aoe # 0 /\ Abs(e.aoe) <= SEMAEM
    <3>1. undo[p].ent[i] \in Range(undo[p].ent)
      BY DEF Range
    <3> QED
      BY <1>1, <3>1, EntryIs
  <2> QED
    BY <2>1 DEF UndoOfLiveSets
<1> QED
  BY <1>1, SemInvariant, PTL

(* Every variable keeps its type, whatever SETALL is given: what it is     *)
(* given that is negative would be stored as a value past SEMVMX           *)
(* (semctl()), and only then is there one.                                 *)
THEOREM SemTypes == Spec => []TypeOK
<1>1. ASSUME SemInv PROVE TypeOK
  <2>1. HeadersOK /\ sema \in [Slot -> Header] /\ sem \in Mem /\ InRange(sem) /\ Calls(pc, frame) /\ Counts(sem, pc, frame)
    BY <1>1 DEF SemInv, HeadersOK
  <2>3. ASSUME NEW s \in Slot
        PROVE  /\ sema[s].alloc \in BOOLEAN /\ sema[s].seq \in Nat
               /\ sema[s].alloc => Members(IdOf(s)) \subseteq Sema
    <3>1. sema[s].alloc \in BOOLEAN /\ sema[s].seq \in Nat
      BY <2>1, HeaderIs
    <3>2. ASSUME sema[s].alloc PROVE Members(IdOf(s)) \subseteq Sema
      <4>1. IdOf(s) \in LiveIds
        BY <3>2 DEF LiveIds
      <4>2. IdOf(s) \in Nat /\ Live(IdOf(s))
        BY <2>1, <4>1, LiveIs
      <4> QED
        BY <2>1, <4>2 DEF HeadersOK
    <3> QED
      BY <3>1, <3>2
  <2>4. \A id1, id2 \in LiveIds : id1 # id2 => Members(id1) \cap Members(id2) = {}
    <3>1. \A id \in LiveIds : id \in Nat /\ Live(id)
      BY <2>1, LiveIs
    <3> QED
      BY <2>1, <3>1 DEF HeadersOK
  <2>5. ASSUME NEW i \in Sema, NEW f \in DOMAIN sem[i] PROVE sem[i][f] \in Ushort
    <3>1. PICK v : v = sem[i][f]
      OBVIOUS
    <3>2. f \in Field
      BY <2>1 DEF Mem
    <3>3. CASE f = "semval"
      <4>1. v \in 0 .. Top
        BY <2>1, <3>1, <3>3 DEF InRange
      <4>2. v \in Int /\ 0 <= v /\ v <= 65535
        BY <4>1, TopIs
      <4> QED
        BY <3>1, <4>2, UshortRange
    <3>4. CASE f # "semval"
      <4>1. f \in Kind
        BY <3>2, <3>4 DEF Field, Kind
      <4> DEFINE A == Waiters(pc, frame, <<i, f>>)
      <4>2. v \in Nat /\ v <= Cardinality(A)
        BY <2>1, <3>1, <4>1 DEF Counts, Counting
      <4>3. A \in SUBSET Proc
        BY DEF Waiters
      <4> HIDE DEF A
      <4>4. Cardinality(A) <= Cardinality(Proc) /\ Cardinality(A) \in Nat /\ Cardinality(Proc) \in Nat
        BY <4>3, ProcFinite, FS_Subset, FS_CardinalityType
      <4>5. v \in Int /\ 0 <= v /\ v <= 65535
        BY <4>2, <4>4, ProcFinite
      <4> QED
        BY <3>1, <4>5, UshortRange
    <3> QED
      BY Zenon, <3>3, <3>4
  <2>6. \A i \in Sema : sem[i].semval <= Top
    <3>1. ASSUME NEW i \in Sema PROVE sem[i].semval <= Top
      <4>1. sem[i].semval \in 0 .. Top
        BY <2>1 DEF InRange
      <4> QED
        BY <4>1, TopIs
    <3> QED
      BY <3>1
  <2>7. undo \in [Proc -> Structure(Keys)] /\ Cardinality({p \in Proc : undo[p].has}) <= SEMMNU
    BY <1>1 DEF SemInv, Tables
  <2>8. ASSUME NEW p \in Proc
        PROVE  /\ pc[p] \in {"user", "asleep", "ready", "interrupted"}
               /\ pc[p] = "user" <=> frame[p] = NoCall
               /\ ~undo[p].has => undo[p].ent = <<>>
               /\ Len(undo[p].ent) <= SEMUME
               /\ \A i, j \in DOMAIN undo[p].ent :
                    i < j => Before(undo[p].ent[i], undo[p].ent[j].id, undo[p].ent[j].num)
    <3>1. undo[p] \in Structure(Keys)
      BY <2>7
    <3>2. undo[p].ent \in Lists(Keys) /\ (~undo[p].has => undo[p].ent = <<>>)
      BY <3>1 DEF Structure
    <3>3. Len(undo[p].ent) <= SEMUME /\ Sorted(undo[p].ent)
      BY <3>2 DEF Lists
    <3>4. pc[p] \in Where /\ (Idle(pc, p) <=> frame[p] = NoCall)
      BY <2>1 DEF Calls
    <3> QED
      BY <3>2, <3>3, <3>4 DEF Sorted, Where, Idle
  <2> QED
    BY Zenon, <2>3, <2>4, <2>5, <2>6, <2>7, <2>8 DEF TypeOK
<1> QED
  BY <1>1, SemInvariant, PTL


(* Sums of a sequence of numbers.                                          *)
SumOf(s, f) == s = [k \in 0 .. Len(f) |-> IF k = 0 THEN 0 ELSE s[k - 1] + f[k]]

LEMMA SumsExist ==
  ASSUME NEW f \in Seq(Int)
  PROVE  \E s : SumOf(s, f) /\ s \in [0 .. Len(f) -> Int]
<1> DEFINE N == Len(f)
           F == [x \in (1 .. N) \X Int |-> x[2] + f[x[1]]]
<1>1. N \in Nat /\ \A k \in 1 .. N : f[k] \in Int
  OBVIOUS
<1>2. \A k \in 1 .. N, x \in Int : F[<<k, x>>] = x + f[k] /\ F[<<k, x>>] \in Int
  BY <1>1
<1> HIDE DEF F, N
<1>3. PICK s : Follows(s, N, Int, 0, F)
  <2>1. Goes(N, Int, F)
    BY <1>2 DEF Goes
  <2>2. N \in Nat /\ 0 \in Int
    BY <1>1
  <2> QED
    BY Zenon, <2>1, <2>2, Recursion
<1>4. s \in [0 .. N -> Int] /\ s[0] = 0 /\ \A k \in 1 .. N : s[k] = F[<<k, s[k - 1]>>]
  BY <1>3 DEF Follows
<1>5. ASSUME NEW k \in 0 .. N PROVE s[k] = IF k = 0 THEN 0 ELSE s[k - 1] + f[k]
  <2>1. CASE k = 0
    BY Zenon, <1>4, <2>1
  <2>2. CASE k # 0
    <3>1. k \in 1 .. N /\ k - 1 \in 0 .. N
      BY <1>1, <2>2
    <3>2. s[k - 1] \in Int
      BY <1>4, <3>1
    <3> QED
      BY <1>2, <1>4, <2>2, <3>1, <3>2
  <2> QED
    BY <2>1, <2>2
<1>6. s = [k \in 0 .. N |-> IF k = 0 THEN 0 ELSE s[k - 1] + f[k]]
  BY <1>4, <1>5
<1> QED
  BY <1>4, <1>6 DEF SumOf, N

LEMMA SumsUp ==
  ASSUME NEW f, NEW s, SumOf(s, f), Len(f) \in Nat
  PROVE  s[0] = 0 /\ \A k \in 1 .. Len(f) : s[k] = s[k - 1] + f[k]
<1>1. \A k \in 0 .. Len(f) : s[k] = IF k = 0 THEN 0 ELSE s[k - 1] + f[k]
  BY DEF SumOf
<1>2. \A k \in 1 .. Len(f) : k \in 0 .. Len(f) /\ k # 0
  OBVIOUS
<1>3. 0 \in 0 .. Len(f)
  OBVIOUS
<1> QED
  BY <1>1, <1>2, <1>3

(* The sums are integers, by going upwards.                                *)
LEMMA SumsInt ==
  ASSUME NEW f \in Seq(Int), NEW s, SumOf(s, f)
  PROVE  \A k \in 0 .. Len(f) : s[k] \in Int
<1>1. Len(f) \in Nat /\ s[0] = 0 /\ \A k \in 1 .. Len(f) : s[k] = s[k - 1] + f[k] /\ f[k] \in Int
  BY SumsUp
<1> DEFINE T == {k \in Nat : k <= Len(f) => s[k] \in Int}
<1>2. 0 \in T
  BY <1>1
<1>3. ASSUME NEW k \in T PROVE k + 1 \in T
  <2>1. SUFFICES ASSUME k + 1 <= Len(f) PROVE s[k + 1] \in Int
    OBVIOUS
  <2>2. k + 1 \in 1 .. Len(f) /\ (k + 1) - 1 = k /\ s[k] \in Int
    BY <1>1, <2>1
  <2> QED
    BY SMTT(30), <1>1, <2>2
<1> HIDE DEF T
<1>4. T = Nat
  BY <1>2, <1>3, Upwards DEF T
<1> QED
  BY SMTT(30), <1>1, <1>4 DEF T

LEMMA SumsIs ==
  ASSUME NEW f \in Seq(Int)
  PROVE  /\ Atomic!Sums(f)[0] = 0
         /\ \A k \in 1 .. Len(f) : Atomic!Sums(f)[k] = Atomic!Sums(f)[k - 1] + f[k]
         /\ \A k \in 0 .. Len(f) : Atomic!Sums(f)[k] \in Int
<1> DEFINE s == CHOOSE a : a = [k \in 0 .. Len(f) |-> IF k = 0 THEN 0 ELSE a[k - 1] + f[k]]
<1>1. SumOf(s, f)
  <2>1. \E a : a = [k \in 0 .. Len(f) |-> IF k = 0 THEN 0 ELSE a[k - 1] + f[k]]
    BY SumsExist DEF SumOf
  <2>2. s = [k \in 0 .. Len(f) |-> IF k = 0 THEN 0 ELSE s[k - 1] + f[k]]
    BY <2>1
  <2> QED
    BY <2>2 DEF SumOf
<1>2. Atomic!Sums(f) = s
  BY DEF Atomic!Sums
<1> HIDE DEF s
<1>3. Len(f) \in Nat
  OBVIOUS
<1> QED
  BY <1>1, <1>2, <1>3, SumsUp, SumsInt

(* What an operation adds to semaphore n, and what is to be undone of it.  *)
Puts(op, n) == IF op.num = n THEN op.op ELSE 0
Owed(op, n) == IF op.num = n /\ op.undo THEN op.op ELSE 0

Sum(ops, n) == Atomic!Sums(Atomic!Adds(ops, n))
Owe(ops, n) == Atomic!Sums(Atomic!Undos(ops, n))

LEMMA SumIs ==
  ASSUME NEW ops \in Seq(Sembuf), NEW n
  PROVE  /\ Sum(ops, n)[0] = 0
         /\ \A k \in 1 .. Len(ops) : Sum(ops, n)[k] = Sum(ops, n)[k - 1] + Puts(ops[k], n)
         /\ \A k \in 0 .. Len(ops) : Sum(ops, n)[k] \in Int
<1> DEFINE f == Atomic!Adds(ops, n)
<1>1. DOMAIN ops = 1 .. Len(ops) /\ Len(ops) \in Nat /\ \A i \in 1 .. Len(ops) : ops[i] \in Sembuf
  OBVIOUS
<1>2. f = [i \in 1 .. Len(ops) |-> Puts(ops[i], n)]
  BY <1>1 DEF Atomic!Adds, Puts
<1>3. \A i \in 1 .. Len(ops) : Puts(ops[i], n) \in Int
  BY <1>1, SembufIs DEF Puts
<1>4. f \in Seq(Int) /\ Len(f) = Len(ops) /\ \A i \in 1 .. Len(ops) : f[i] = Puts(ops[i], n)
  <2> HIDE DEF f
  <2>1. f \in [1 .. Len(ops) -> Int]
    BY <1>2, <1>3
  <2> QED
    BY <1>1, <1>2, <2>1
<1> HIDE DEF f
<1> QED
  BY <1>4, SumsIs DEF Sum, f

LEMMA OweIs ==
  ASSUME NEW ops \in Seq(Sembuf), NEW n
  PROVE  /\ Owe(ops, n)[0] = 0
         /\ \A k \in 1 .. Len(ops) : Owe(ops, n)[k] = Owe(ops, n)[k - 1] + Owed(ops[k], n)
         /\ \A k \in 0 .. Len(ops) : Owe(ops, n)[k] \in Int
<1> DEFINE f == Atomic!Undos(ops, n)
<1>1. DOMAIN ops = 1 .. Len(ops) /\ Len(ops) \in Nat /\ \A i \in 1 .. Len(ops) : ops[i] \in Sembuf
  OBVIOUS
<1>2. f = [i \in 1 .. Len(ops) |-> Owed(ops[i], n)]
  BY <1>1 DEF Atomic!Undos, Owed
<1>3. \A i \in 1 .. Len(ops) : Owed(ops[i], n) \in Int
  BY <1>1, SembufIs DEF Owed
<1>4. f \in Seq(Int) /\ Len(f) = Len(ops) /\ \A i \in 1 .. Len(ops) : f[i] = Owed(ops[i], n)
  <2> HIDE DEF f
  <2>1. f \in [1 .. Len(ops) -> Int]
    BY <1>2, <1>3
  <2> QED
    BY <1>1, <1>2, <2>1
<1> HIDE DEF f
<1> QED
  BY <1>4, SumsIs DEF Owe, f

------------------------------------------------------------------------------
(* The adjustments of a list of undo entries.                              *)

KeyOf(e) == <<e.id, e.num>>
Owes(ent, k) == Atomic!Amount(AdjOf(ent), k)

(* The entries of a list have different keys.                              *)
LEMMA OneKey ==
  ASSUME NEW K \in SUBSET Key, NEW ent \in Lists(K), NEW i \in DOMAIN ent, NEW j \in DOMAIN ent,
         KeyOf(ent[i]) = KeyOf(ent[j])
  PROVE  i = j
<1>1. ent \in Seq(UndoEntry) /\ Sorted(ent)
  BY DEF Lists
<1>2. ent[i].id = ent[j].id /\ ent[i].num = ent[j].num
  BY DEF KeyOf
<1>3. \A e \in UndoEntry : ~Before(e, e.id, e.num)
  BY DEF Before, UndoEntry
<1>4. ent[i] \in UndoEntry /\ ent[j] \in UndoEntry /\ i \in Nat /\ j \in Nat
  BY <1>1
<1>5. ~(i < j)
  <2>1. i < j => Before(ent[i], ent[j].id, ent[j].num)
    BY Zenon, <1>1 DEF Sorted
  <2>2. ~Before(ent[i], ent[j].id, ent[j].num)
    BY Zenon, <1>2, <1>3, <1>4
  <2> QED
    BY Zenon, <2>1, <2>2
<1>6. ~(j < i)
  <2>1. j < i => Before(ent[j], ent[i].id, ent[i].num)
    BY Zenon, <1>1 DEF Sorted
  <2>2. ~Before(ent[j], ent[i].id, ent[i].num)
    BY Zenon, <1>2, <1>3, <1>4
  <2> QED
    BY Zenon, <2>1, <2>2
<1> QED
  BY <1>4, <1>5, <1>6

(* The adjustments as a function.                                          *)
LEMMA AdjIs ==
  ASSUME NEW K \in SUBSET Key, NEW ent \in Lists(K)
  PROVE  /\ AdjOf(ent) = [k \in DOMAIN AdjOf(ent) |-> AdjOf(ent)[k]]
         /\ DOMAIN AdjOf(ent) = {KeyOf(e) : e \in Range(ent)}
         /\ \A e \in Range(ent) : KeyOf(e) \in DOMAIN AdjOf(ent) /\ AdjOf(ent)[KeyOf(e)] = e.aoe
<1> DEFINE D == {KeyOf(e) : e \in Range(ent)}
           V(k) == (CHOOSE e \in Range(ent) : KeyOf(e) = k).aoe
<1>1. AdjOf(ent) = [k \in D |-> V(k)]
  BY Zenon DEF AdjOf, KeyOf
<1>2. ASSUME NEW e \in Range(ent) PROVE KeyOf(e) \in D /\ V(KeyOf(e)) = e.aoe
  <2> DEFINE f == CHOOSE f \in Range(ent) : KeyOf(f) = KeyOf(e)
  <2>1. f \in Range(ent) /\ KeyOf(f) = KeyOf(e)
    BY Zenon
  <2> HIDE DEF f
  <2>2. PICK i \in DOMAIN ent : ent[i] = e
    BY Zenon DEF Range
  <2>3. PICK j \in DOMAIN ent : ent[j] = f
    BY Zenon, <2>1 DEF Range
  <2>4. i = j
    BY <2>1, <2>2, <2>3, OneKey
  <2>5. f = e
    BY Zenon, <2>2, <2>3, <2>4
  <2>6. V(KeyOf(e)) = f.aoe
    BY Zenon DEF f
  <2> QED
    BY Zenon, <2>5, <2>6
<1> QED
  BY Zenon, <1>1, <1>2

LEMMA OwesIs ==
  ASSUME NEW K \in SUBSET Key, NEW ent \in Lists(K)
  PROVE  /\ \A e \in Range(ent) : Owes(ent, KeyOf(e)) = e.aoe
         /\ \A k : (\A e \in Range(ent) : KeyOf(e) # k) => Owes(ent, k) = 0
<1>1. \A e \in Range(ent) : Owes(ent, KeyOf(e)) = e.aoe
  BY Zenon, AdjIs DEF Owes, Atomic!Amount
<1>2. ASSUME NEW k, \A e \in Range(ent) : KeyOf(e) # k PROVE Owes(ent, k) = 0
  <2>1. k \notin DOMAIN AdjOf(ent)
    <3>1. DOMAIN AdjOf(ent) = {KeyOf(e) : e \in Range(ent)}
      BY AdjIs
    <3>2. k \notin {KeyOf(e) : e \in Range(ent)}
      BY <1>2
    <3> QED
      BY Zenon, <3>1, <3>2
  <2> QED
    BY Zenon, <2>1 DEF Owes, Atomic!Amount
<1> QED
  BY Zenon, <1>1, <1>2

LEMMA EntriesIn ==
  ASSUME NEW K \in SUBSET Key, NEW ent \in Lists(K), NEW e \in Range(ent)
  PROVE  /\ e \in UndoEntry /\ KeyOf(e) \in K /\ e.aoe # 0 /\ Abs(e.aoe) <= SEMAEM
         /\ e.id \in Nat /\ e.num \in Nat /\ e.aoe \in Int
<1>1. PICK i \in DOMAIN ent : e = ent[i]
  BY Zenon DEF Range
<1>2. ent \in Seq(UndoEntry) /\ Due(ent[i], K)
  BY DEF Lists
<1>3. e \in UndoEntry
  BY <1>1, <1>2
<1> QED
  BY <1>1, <1>2, <1>3 DEF Due, KeyOf, UndoEntry

(* What is owed: for a semaphore of K, within the limit.                   *)
LEMMA OwesIn ==
  ASSUME NEW K \in SUBSET Key, NEW ent \in Lists(K), NEW k
  PROVE  /\ Owes(ent, k) \in Int /\ Abs(Owes(ent, k)) <= SEMAEM
         /\ k \in DOMAIN AdjOf(ent) <=> Owes(ent, k) # 0
         /\ k \notin K => Owes(ent, k) = 0
<1>1. CASE \E e \in Range(ent) : KeyOf(e) = k
  <2>1. PICK e \in Range(ent) : KeyOf(e) = k
    BY <1>1
  <2>2. Owes(ent, k) = e.aoe
    BY Zenon, <2>1, OwesIs
  <2>3. k \in DOMAIN AdjOf(ent)
    BY Zenon, <2>1, AdjIs
  <2> QED
    BY <2>1, <2>2, <2>3, EntriesIn
<1>2. CASE ~(\E e \in Range(ent) : KeyOf(e) = k)
  <2>1. Owes(ent, k) = 0
    BY Zenon, <1>2, OwesIs
  <2>2. k \notin DOMAIN AdjOf(ent)
    <3>1. DOMAIN AdjOf(ent) = {KeyOf(e) : e \in Range(ent)}
      BY AdjIs
    <3>2. k \notin {KeyOf(e) : e \in Range(ent)}
      BY <1>2
    <3> QED
      BY Zenon, <3>1, <3>2
  <2>3. Abs(0) <= SEMAEM
    BY Constants DEF Abs
  <2> QED
    BY <2>1, <2>2, <2>3
<1> QED
  BY <1>1, <1>2

(* Adjustments that are not zero are what they amount to.                  *)
Function(f) == f = [k \in DOMAIN f |-> f[k]]
LEMMA SameAmounts ==
  ASSUME NEW a, NEW b, Function(a), Function(b),
         \A k \in DOMAIN a : a[k] # 0, \A k \in DOMAIN b : b[k] # 0,
         \A k : Atomic!Amount(a, k) = Atomic!Amount(b, k)
  PROVE  a = b
<1>1. ASSUME NEW k PROVE k \in DOMAIN a <=> k \in DOMAIN b
  <2>1. Atomic!Amount(a, k) = Atomic!Amount(b, k)
    OBVIOUS
  <2> QED
    BY Zenon, <2>1 DEF Atomic!Amount
<1>2. ASSUME NEW k \in DOMAIN a PROVE a[k] = b[k]
  <2>1. Atomic!Amount(a, k) = Atomic!Amount(b, k)
    OBVIOUS
  <2> QED
    BY Zenon, <1>1, <2>1 DEF Atomic!Amount
<1>3. DOMAIN a = DOMAIN b
  BY <1>1
<1> QED
  BY <1>2, <1>3 DEF Function

(* As many entries as there are adjustments.                               *)
LEMMA AsMany ==
  ASSUME NEW K \in SUBSET Key, NEW ent \in Lists(K)
  PROVE  IsFiniteSet(DOMAIN AdjOf(ent)) /\ Cardinality(DOMAIN AdjOf(ent)) = Len(ent)
<1> DEFINE D == DOMAIN AdjOf(ent)
           N == Len(ent)
           f == [i \in 1 .. N |-> KeyOf(ent[i])]
<1>1. DOMAIN ent = 1 .. N /\ N \in Nat
  BY DEF Lists
<1>2. D = {KeyOf(e) : e \in Range(ent)}
  BY AdjIs
<1>3. \A i \in 1 .. N : f[i] = KeyOf(ent[i]) /\ ent[i] \in Range(ent)
  BY <1>1 DEF Range
<1>4. \A k \in D : \E i \in 1 .. N : f[i] = k
  BY Zenon, <1>1, <1>2, <1>3 DEF Range
<1>5. \A i, j \in 1 .. N : f[i] = f[j] => i = j
  BY Zenon, <1>1, <1>3, OneKey
<1>6. f \in [1 .. N -> D]
  BY <1>2, <1>3
<1> HIDE DEF f, D, N
<1>7. f \in Bijection(1 .. N, D)
  BY <1>4, <1>5, <1>6 DEF Bijection, Injection, Surjection, IsInjective
<1>8. ExistsBijection(1 .. N, D)
  BY Zenon, <1>7 DEF ExistsBijection
<1>9. IsFiniteSet(1 .. N) /\ Cardinality(1 .. N) = N
  BY <1>1, FS_Interval
<1> QED
  BY Zenon, <1>8, <1>9, FS_Bijection DEF D, N

------------------------------------------------------------------------------
(* What semaoe() and semunrm() do to what is owed.                         *)

LEMMA ListIs ==
  ASSUME NEW K, NEW ent \in Lists(K)
  PROVE  /\ ent \in Seq(UndoEntry) /\ Len(ent) \in Nat /\ DOMAIN ent = 1 .. Len(ent)
         /\ \A i \in 1 .. Len(ent) : ent[i] \in UndoEntry /\ ent[i] \in Range(ent)
         /\ \A i, j \in 1 .. Len(ent) : i < j => Before(ent[i], ent[j].id, ent[j].num)
<1>1. ent \in Seq(UndoEntry) /\ Sorted(ent)
  BY DEF Lists
<1>2. Len(ent) \in Nat /\ DOMAIN ent = 1 .. Len(ent) /\ \A i \in 1 .. Len(ent) : ent[i] \in UndoEntry
  BY <1>1
<1> QED
  BY Zenon, <1>1, <1>2 DEF Range, Sorted

(* An entry is where its place is, or nowhere.                             *)
LEMMA NotThere ==
  ASSUME NEW K \in SUBSET Key, NEW ent \in Lists(K), NEW id \in Nat, NEW num \in Nat,
         NEW a, a = Place(ent, id, num), ~IsAt(ent, a, id, num), NEW e \in Range(ent)
  PROVE  KeyOf(e) # <<id, num>>
<1>1. /\ ent \in Seq(UndoEntry) /\ Len(ent) \in Nat /\ DOMAIN ent = 1 .. Len(ent)
      /\ \A i \in 1 .. Len(ent) : ent[i] \in UndoEntry
      /\ \A i, j \in 1 .. Len(ent) : i < j => Before(ent[i], ent[j].id, ent[j].num)
  BY ListIs
<1>2. /\ a \in 1 .. Len(ent) + 1
      /\ \A j \in DOMAIN ent : j < a => Before(ent[j], id, num)
      /\ a \in DOMAIN ent => ~Before(ent[a], id, num)
  BY <1>1, PlaceIs
<1>3. PICK j \in 1 .. Len(ent) : ent[j] = e
  BY <1>1 DEF Range
<1>4. CASE j < a
  <2>1. Before(e, id, num)
    BY <1>1, <1>2, <1>3, <1>4
  <2> QED
    BY SMTT(30), <1>1, <1>3, <2>1 DEF Before, KeyOf, UndoEntry
<1>5. CASE j = a
  <2>1. ~(e.id = id /\ e.num = num)
    BY <1>3, <1>5 DEF IsAt
  <2> QED
    BY <2>1 DEF KeyOf
<1>6. CASE a < j
  <2>1. a \in 1 .. Len(ent)
    BY <1>1, <1>2, <1>3, <1>6
  <2>2. Before(ent[a], e.id, e.num) /\ ~Before(ent[a], id, num) /\ ent[a] \in UndoEntry /\ e \in UndoEntry
    BY <1>1, <1>2, <1>3, <1>6, <2>1
  <2>3. <<e.id, e.num>> # <<id, num>>
    BY Zenon, <2>2, AfterTrans
  <2> QED
    BY Zenon, <2>3 DEF KeyOf
<1> QED
  BY <1>1, <1>2, <1>3, <1>4, <1>5, <1>6

LEMMA RangePut ==
  ASSUME NEW S, NEW s \in Seq(S), NEW a \in 1 .. Len(s) + 1, NEW e \in S, NEW t, t = InsertAt(s, a, e)
  PROVE  Range(t) = Range(s) \cup {e}
<1>1. /\ t \in Seq(S) /\ Len(t) = Len(s) + 1
      /\ \A i \in DOMAIN t : t[i] = IF i < a THEN s[i] ELSE IF i = a THEN e ELSE s[i - 1]
  BY PutIn
<1>2. Len(s) \in Nat /\ DOMAIN s = 1 .. Len(s) /\ DOMAIN t = 1 .. Len(s) + 1
  BY <1>1
<1>3. ASSUME NEW i \in DOMAIN t PROVE t[i] \in Range(s) \cup {e}
  <2>1. CASE i < a
    <3>1. i \in DOMAIN s /\ t[i] = s[i]
      BY <1>1, <1>2, <2>1
    <3> QED
      BY Zenon, <3>1 DEF Range
  <2>2. CASE i = a
    BY <1>1, <2>2
  <2>3. CASE ~(i < a) /\ i # a
    <3>1. i - 1 \in DOMAIN s /\ t[i] = s[i - 1]
      BY <1>1, <1>2, <2>3
    <3> QED
      BY Zenon, <3>1 DEF Range
  <2> QED
    BY <2>1, <2>2, <2>3
<1>4. ASSUME NEW j \in DOMAIN s PROVE s[j] \in Range(t)
  <2>1. CASE j < a
    <3>1. j \in DOMAIN t /\ t[j] = s[j]
      BY <1>1, <1>2, <2>1
    <3> QED
      BY Zenon, <3>1 DEF Range
  <2>2. CASE ~(j < a)
    <3>1. j + 1 \in DOMAIN t /\ t[j + 1] = s[j]
      <4>1. j + 1 \in DOMAIN t /\ ~(j + 1 < a) /\ j + 1 # a /\ (j + 1) - 1 = j
        BY <1>2, <2>2
      <4> QED
        BY <1>1, <4>1
    <3> QED
      BY Zenon, <3>1 DEF Range
  <2> QED
    BY <2>1, <2>2
<1>5. e \in Range(t)
  <2>1. a \in DOMAIN t /\ t[a] = e
    BY <1>1, <1>2
  <2> QED
    BY Zenon, <2>1 DEF Range
<1> QED
  BY <1>3, <1>4, <1>5 DEF Range

LEMMA RangeCut ==
  ASSUME NEW K, NEW ent \in Lists(K), NEW a \in 1 .. Len(ent) + 1, NEW b \in a .. Len(ent) + 1,
         NEW t, t = Without(ent, a, b)
  PROVE  Range(t) = {ent[i] : i \in {j \in DOMAIN ent : j < a \/ b <= j}}
<1>1. /\ t \in Lists(K) /\ Len(t) = Len(ent) - (b - a) /\ DOMAIN t = 1 .. Len(t)
      /\ \A i \in DOMAIN t : t[i] = IF i < a THEN ent[i] ELSE ent[i + (b - a)]
  BY CutLists
<1>2. Len(ent) \in Nat /\ DOMAIN ent = 1 .. Len(ent) /\ DOMAIN t = 1 .. Len(ent) - (b - a)
  BY <1>1, ListIs
<1> DEFINE D == {j \in DOMAIN ent : j < a \/ b <= j}
<1>3. ASSUME NEW i \in DOMAIN t PROVE \E j \in D : t[i] = ent[j]
  <2>1. CASE i < a
    <3>1. i \in D /\ t[i] = ent[i]
      BY <1>1, <1>2, <2>1
    <3> QED
      BY Zenon, <3>1
  <2>2. CASE ~(i < a)
    <3>1. i + (b - a) \in D /\ t[i] = ent[i + (b - a)]
      BY <1>1, <1>2, <2>2
    <3> QED
      BY Zenon, <3>1
  <2> QED
    BY <2>1, <2>2
<1>4. ASSUME NEW j \in D PROVE \E i \in DOMAIN t : t[i] = ent[j]
  <2>1. CASE j < a
    <3>1. j \in DOMAIN t /\ t[j] = ent[j]
      BY <1>1, <1>2, <2>1
    <3> QED
      BY Zenon, <3>1
  <2>2. CASE ~(j < a)
    <3> DEFINE i == j - (b - a)
    <3>1. i \in 1 .. Len(ent) - (b - a) /\ ~(i < a) /\ i + (b - a) = j
      BY <1>2, <2>2
    <3> HIDE DEF i
    <3>2. i \in DOMAIN t /\ t[i] = ent[j]
      BY <1>1, <1>2, <3>1
    <3> QED
      BY Zenon, <3>2
  <2> QED
    BY <2>1, <2>2
<1> HIDE DEF D
<1>5. Range(t) = {ent[i] : i \in D}
  BY <1>3, <1>4 DEF Range
<1> QED
  BY Zenon, <1>5 DEF D

(* semaoe().                                                               *)
Less(k, id, num, val) == IF k = <<id, num>> THEN val ELSE 0
LEMMA SemaoeOwes ==
  ASSUME NEW K \in SUBSET Key, NEW u \in Tables(K), NEW p \in Proc, NEW val \in Int, val # 0,
         NEW id, NEW num, <<id, num>> \in K, ~AoeRefused(u, p, val, id, num), IsFiniteSet(Proc),
         NEW v, v = Semaoe(u, p, val, id, num)
  PROVE  /\ v \in Tables(K) /\ v[p].has /\ \A q \in Proc : q # p => v[q] = u[q]
         /\ \A k : Owes(v[p].ent, k) = Owes(u[p].ent, k) - Less(k, id, num, val)
<1> DEFINE ent == u[p].ent
           a == Place(ent, id, num)
           x == CASE ~IsAt(ent, a, id, num) -> InsertAt(ent, a, Entry(id, num, -val))
                  [] IsAt(ent, a, id, num) /\ ent[a].aoe = val -> RemoveAt(ent, a)
                  [] OTHER -> [ent EXCEPT ![a].aoe = @ - val]
           s == [has |-> TRUE, ent |-> x]
<1>1. v = [u EXCEPT ![p] = s]
  BY Zenon DEF Semaoe
<1>2. v \in Tables(K)
  BY SemaoeKeeps
<1>3. u[p] \in Structure(K) /\ u \in [Proc -> Structure(K)] /\ v[p] \in Structure(K)
  BY <1>2 DEF Tables
<1>4. v[p] = s /\ \A q \in Proc : q # p => v[q] = u[q]
  BY Zenon, <1>1, <1>3
<1>5. v[p].has /\ v[p].ent = x
  BY <1>4
<1>6. ent \in Lists(K) /\ x \in Lists(K)
  BY <1>3, <1>5 DEF Structure
<1>7. id \in Nat /\ num \in Nat
  BY DEF Key
<1> HIDE DEF x
<1>8. /\ ent \in Seq(UndoEntry) /\ Len(ent) \in Nat /\ DOMAIN ent = 1 .. Len(ent)
      /\ \A i \in 1 .. Len(ent) : ent[i] \in UndoEntry /\ ent[i] \in Range(ent)
  BY <1>6, ListIs
<1>9. a \in 1 .. Len(ent) + 1
  BY <1>7, <1>8, PlaceIs
<1>10. /\ \A e \in Range(ent) : Owes(ent, KeyOf(e)) = e.aoe
       /\ \A k : (\A e \in Range(ent) : KeyOf(e) # k) => Owes(ent, k) = 0
       /\ \A k : Owes(ent, k) \in Int
  <2> HIDE DEF ent
  <2> QED
    BY <1>6, OwesIs, OwesIn
<1>11. /\ \A e \in Range(x) : Owes(x, KeyOf(e)) = e.aoe
       /\ \A k : (\A e \in Range(x) : KeyOf(e) # k) => Owes(x, k) = 0
  BY <1>6, OwesIs
<1>12. a = Place(ent, id, num)
  OBVIOUS
<1> SUFFICES \A k : Owes(x, k) = Owes(ent, k) - Less(k, id, num, val)
  BY Zenon, <1>2, <1>4, <1>5
<1>13. CASE ~IsAt(ent, a, id, num)
  <2> DEFINE e == Entry(id, num, -val)
  <2>1. x = InsertAt(ent, a, e)
    BY Zenon, <1>13 DEF x
  <2>2. e \in UndoEntry /\ KeyOf(e) = <<id, num>> /\ e.aoe = -val
    BY <1>7 DEF Entry, UndoEntry, KeyOf
  <2> HIDE DEF e, ent, a
  <2>3. Range(x) = Range(ent) \cup {e}
    <3>1. ent \in Seq(UndoEntry) /\ a \in 1 .. Len(ent) + 1 /\ e \in UndoEntry /\ x = InsertAt(ent, a, e)
      BY Zenon, <1>8, <1>9, <2>1, <2>2
    <3>2. ASSUME NEW S, S = UndoEntry PROVE Range(x) = Range(ent) \cup {e}
      <4>1. ent \in Seq(S) /\ e \in S
        BY <3>1, <3>2
      <4> QED
        BY <3>1, <4>1, RangePut
    <3> QED
      BY <3>2
  <2>4. \A f \in Range(ent) : KeyOf(f) # <<id, num>>
    BY Zenon, <1>6, <1>7, <1>12, <1>13, NotThere
  <2>5. Owes(x, <<id, num>>) = -val /\ Owes(ent, <<id, num>>) = 0
    BY Zenon, <1>10, <1>11, <2>2, <2>3, <2>4
  <2>6. ASSUME NEW k, k # <<id, num>> PROVE Owes(x, k) = Owes(ent, k)
    <3>1. CASE \E f \in Range(ent) : KeyOf(f) = k
      BY Zenon, <1>10, <1>11, <2>3, <3>1
    <3>2. CASE ~ \E f \in Range(ent) : KeyOf(f) = k
      BY Zenon, <1>10, <1>11, <2>2, <2>3, <2>6, <3>2
    <3> QED
      BY Zenon, <3>1, <3>2
  <2>7. 0 - val = -val /\ \A n \in Int : n - 0 = n
    OBVIOUS
  <2> QED
    BY Zenon, <1>10, <2>5, <2>6, <2>7 DEF Less
<1>14. CASE IsAt(ent, a, id, num)
  <2> DEFINE e == ent[a]
  <2>1. a \in 1 .. Len(ent) /\ e \in Range(ent) /\ KeyOf(e) = <<id, num>> /\ e \in UndoEntry
    <3> HIDE DEF ent, a
    <3>1. a \in 1 .. Len(ent) /\ e.id = id /\ e.num = num
      BY <1>8, <1>9, <1>14 DEF IsAt
    <3> QED
      BY Zenon, <1>8, <3>1 DEF KeyOf
  <2>2. \A i \in 1 .. Len(ent) : i # a => KeyOf(ent[i]) # <<id, num>>
    <3> HIDE DEF ent, a
    <3> QED
      BY Zenon, <1>6, <1>8, <2>1, OneKey
  <2>3. Owes(ent, <<id, num>>) = e.aoe /\ e.aoe \in Int
    <3> HIDE DEF e, ent, a
    <3> QED
      BY <1>10, <2>1 DEF UndoEntry
  <2>4. CASE e.aoe = val
    <3>1. x = RemoveAt(ent, a)
      BY Zenon, <1>14, <2>4 DEF x
    <3> HIDE DEF ent, a
    <3>2. x = Without(ent, a, a + 1) /\ a + 1 \in a .. Len(ent) + 1
      BY <1>8, <2>1, <3>1 DEF RemoveAt, Without
    <3>3. Range(x) = {ent[i] : i \in {j \in DOMAIN ent : j < a \/ a + 1 <= j}}
      BY Zenon, <1>6, <1>9, <3>2, RangeCut
    <3>4. Range(x) = {ent[i] : i \in {j \in 1 .. Len(ent) : j # a}}
      <4>1. {j \in DOMAIN ent : j < a \/ a + 1 <= j} = {j \in 1 .. Len(ent) : j # a}
        BY <1>8, <2>1
      <4> QED
        BY Zenon, <3>3, <4>1
    <3>5. \A f \in Range(x) : KeyOf(f) # <<id, num>> /\ f \in Range(ent)
      BY <1>8, <2>2, <3>4
    <3>6. \A f \in Range(ent) : f \in Range(x) \/ f = ent[a]
      BY <1>8, <3>4 DEF Range
    <3>7. Owes(x, <<id, num>>) = 0
      BY Zenon, <1>11, <3>5
    <3>8. ASSUME NEW k, k # <<id, num>> PROVE Owes(x, k) = Owes(ent, k)
      <4>1. CASE \E f \in Range(ent) : KeyOf(f) = k
        BY Zenon, <1>10, <1>11, <2>1, <3>6, <3>8, <4>1 DEF e
      <4>2. CASE ~ \E f \in Range(ent) : KeyOf(f) = k
        BY Zenon, <1>10, <1>11, <3>5, <4>2
      <4> QED
        BY Zenon, <4>1, <4>2
    <3>9. val - val = 0 /\ \A n \in Int : n - 0 = n
      OBVIOUS
    <3> HIDE DEF e
    <3> QED
      BY Zenon, <1>10, <2>3, <2>4, <3>7, <3>8, <3>9 DEF Less
  <2>5. CASE e.aoe # val
    <3>1. x = [ent EXCEPT ![a].aoe = e.aoe - val]
      BY <1>14, <2>5 DEF x
    <3> HIDE DEF ent, a
    <3> DEFINE f == [e EXCEPT !.aoe = e.aoe - val]
    <3>2. x = [ent EXCEPT ![a] = f]
      BY <3>1
    <3>3. f \in UndoEntry /\ KeyOf(f) = <<id, num>> /\ f.aoe = e.aoe - val
      <4> HIDE DEF e
      <4> QED
        BY <2>1, <2>3 DEF UndoEntry, KeyOf
    <3> HIDE DEF f, e
    <3>4. DOMAIN x = 1 .. Len(ent) /\ \A i \in 1 .. Len(ent) : x[i] = IF i = a THEN f ELSE ent[i]
      BY <1>8, <3>2
    <3>5. f \in Range(x)
      BY Zenon, <2>1, <3>4 DEF Range
    <3>6. \A g \in Range(x) : g = f \/ g \in Range(ent)
      BY Zenon, <1>8, <3>4 DEF Range
    <3>7. \A g \in Range(ent) : g = e \/ g \in Range(x)
      BY Zenon, <1>8, <3>4 DEF Range, e
    <3>8. \A i \in 1 .. Len(ent) : i = a \/ (ent[i] \in Range(x) /\ KeyOf(ent[i]) # <<id, num>>)
      BY Zenon, <2>2, <3>4 DEF Range
    <3>9. Owes(x, <<id, num>>) = e.aoe - val
      BY Zenon, <1>11, <3>3, <3>5
    <3>10. ASSUME NEW k, k # <<id, num>> PROVE Owes(x, k) = Owes(ent, k)
      <4>1. CASE \E g \in Range(ent) : KeyOf(g) = k
        BY Zenon, <1>10, <1>11, <2>1, <3>7, <3>10, <4>1
      <4>2. CASE ~ \E g \in Range(ent) : KeyOf(g) = k
        BY Zenon, <1>10, <1>11, <3>3, <3>6, <3>10, <4>2
      <4> QED
        BY Zenon, <4>1, <4>2
    <3>11. \A n \in Int : n - 0 = n
      OBVIOUS
    <3> QED
      BY Zenon, <1>10, <2>3, <3>9, <3>10, <3>11 DEF Less
  <2> QED
    BY <2>4, <2>5
<1> QED
  BY <1>13, <1>14

(* semunrm(): nothing is owed of the range any more.                       *)
Within(k, id, low, high) == k[1] = id /\ low <= k[2] /\ k[2] <= high
LEMMA SemunrmOwes ==
  ASSUME NEW K \in SUBSET Key, NEW ent \in Lists(K), NEW id \in Nat, NEW low \in Nat, NEW high \in Nat,
         low <= high + 1, NEW t, t = Semunrm(ent, id, low, high)
  PROVE  \A k \in Key : Owes(t, k) = IF Within(k, id, low, high) THEN 0 ELSE Owes(ent, k)
<1> DEFINE a == Place(ent, id, low)
           b == Place(ent, id, high + 1)
<1>1. t = Without(ent, a, b)
  BY DEF Semunrm, Without
<1>2. a = Place(ent, id, low) /\ b = Place(ent, id, high + 1)
  OBVIOUS
<1> HIDE DEF a, b
<1>3. /\ a \in 1 .. Len(ent) + 1 /\ b \in a .. Len(ent) + 1
      /\ \A j \in DOMAIN ent : j < a => Before(ent[j], id, low)
      /\ a \in DOMAIN ent => ~Before(ent[a], id, low)
      /\ \A j \in DOMAIN ent : j < b => Before(ent[j], id, high + 1)
      /\ b \in DOMAIN ent => ~Before(ent[b], id, high + 1)
  BY <1>2, UnrmPlaces
<1>4. t \in Lists(K) /\ \A i \in DOMAIN t : ~(t[i].id = id /\ low <= t[i].num /\ t[i].num <= high)
  BY SemunrmKeeps
<1>5. Range(t) = {ent[i] : i \in {j \in DOMAIN ent : j < a \/ b <= j}}
  <2>1. ent \in Lists(K) /\ a \in 1 .. Len(ent) + 1 /\ b \in a .. Len(ent) + 1 /\ t = Without(ent, a, b)
    BY Zenon, <1>1, <1>3
  <2> QED
    BY <2>1, RangeCut
<1>6. /\ Len(ent) \in Nat /\ DOMAIN ent = 1 .. Len(ent)
      /\ \A i \in 1 .. Len(ent) : ent[i] \in UndoEntry /\ ent[i] \in Range(ent)
      /\ \A i, j \in 1 .. Len(ent) : i < j => Before(ent[i], ent[j].id, ent[j].num)
  BY ListIs
<1>7. \A e \in Range(t) : e \in Range(ent) /\ ~Within(KeyOf(e), id, low, high)
  <2>1. ASSUME NEW e \in Range(t) PROVE ~Within(KeyOf(e), id, low, high)
    <3>1. PICK i \in DOMAIN t : t[i] = e
      BY Zenon DEF Range
    <3>2. ~(e.id = id /\ low <= e.num /\ e.num <= high)
      BY Zenon, <1>4, <3>1
    <3>3. KeyOf(e)[1] = e.id /\ KeyOf(e)[2] = e.num
      BY DEF KeyOf
    <3> QED
      BY Zenon, <3>2, <3>3 DEF Within
  <2>2. \A e \in Range(t) : e \in Range(ent)
    BY <1>5, <1>6
  <2> QED
    BY Zenon, <2>1, <2>2
<1>8. ASSUME NEW e \in Range(ent), ~Within(KeyOf(e), id, low, high) PROVE e \in Range(t)
  <2>1. PICK j \in 1 .. Len(ent) : ent[j] = e
    BY <1>6 DEF Range
  <2>2. e \in UndoEntry /\ ~(e.id = id /\ low <= e.num /\ e.num <= high)
    BY <1>6, <1>8, <2>1 DEF Within, KeyOf
  <2>3. j < a \/ b <= j
    <3>1. SUFFICES ASSUME ~(j < a), ~(b <= j) PROVE FALSE
      OBVIOUS
    <3>2. a \in DOMAIN ent /\ a <= j /\ j < b /\ j \in DOMAIN ent
      BY <1>3, <1>6, <3>1
    <3>3. Before(e, id, high + 1)
      BY Zenon, <1>3, <2>1, <3>2
    <3>4. ~Before(e, id, low)
      <4>1. CASE a = j
        BY Zenon, <1>3, <2>1, <3>2, <4>1
      <4>2. CASE a # j
        <5>1. a < j /\ a \in 1 .. Len(ent)
          BY <1>3, <1>6, <3>2, <4>2
        <5>2. Before(ent[a], e.id, e.num) /\ ~Before(ent[a], id, low) /\ ent[a] \in UndoEntry
          BY Zenon, <1>3, <1>6, <2>1, <3>2, <5>1
        <5> QED
          BY Zenon, <2>2, <5>2, AfterTrans
      <4> QED
        BY <4>1, <4>2
    <3> QED
      BY <2>2, <3>3, <3>4 DEF Before, UndoEntry
  <2> QED
    BY <1>5, <1>6, <2>1, <2>3
<1>9. /\ \A e \in Range(ent) : Owes(ent, KeyOf(e)) = e.aoe
      /\ \A k : (\A e \in Range(ent) : KeyOf(e) # k) => Owes(ent, k) = 0
  BY OwesIs
<1>10. /\ \A e \in Range(t) : Owes(t, KeyOf(e)) = e.aoe
       /\ \A k : (\A e \in Range(t) : KeyOf(e) # k) => Owes(t, k) = 0
  BY <1>4, OwesIs
<1>11. ASSUME NEW k \in Key, Within(k, id, low, high) PROVE Owes(t, k) = 0
  <2>1. \A e \in Range(t) : KeyOf(e) # k
    BY Zenon, <1>7, <1>11
  <2> QED
    BY Zenon, <1>10, <2>1
<1>12. ASSUME NEW k \in Key, ~Within(k, id, low, high) PROVE Owes(t, k) = Owes(ent, k)
  <2>1. CASE \E e \in Range(ent) : KeyOf(e) = k
    <3>1. PICK e \in Range(ent) : KeyOf(e) = k
      BY Zenon, <2>1
    <3>2. e \in Range(t)
      BY Zenon, <1>8, <1>12, <3>1
    <3> QED
      BY Zenon, <1>9, <1>10, <3>1, <3>2
  <2>2. CASE ~\E e \in Range(ent) : KeyOf(e) = k
    <3>1. Owes(ent, k) = 0
      BY Zenon, <1>9, <2>2
    <3>2. Owes(t, k) = 0
      BY Zenon, <1>7, <1>10, <2>2
    <3> QED
      BY Zenon, <3>1, <3>2
  <2> QED
    BY Zenon, <2>1, <2>2
<1> QED
  BY Zenon, <1>11, <1>12

------------------------------------------------------------------------------
(* What a pass does to the values, to what is owed and to who waits.       *)

(* A waiting process is told of the values it waits for: a greater one, or *)
(* zero.                                                                   *)
Concerns(f, old, new) == IF f = "semncnt" THEN new > old ELSE new = 0 /\ old # 0
Heard(a, b) == \A j \in Sema, f \in Kind : Concerns(f, a[j].semval, b[j].semval) => b[j][f] = 0

LEMMA ZeroedIs ==
  ASSUME NEW m \in Mem, NEW C, NEW w, w = Zeroed(m, C)
  PROVE  Clears(m, w, C)
<1>1. \A i \in Sema, f \in Field : Zeroed(m, C)[i][f] = IF <<i, f>> \in C THEN 0 ELSE m[i][f]
  BY DEF Zeroed, Mem
<1> QED
  BY <1>1 DEF Field, Kind, Clears

(* An operation that changes a value clears the counts it concerns.        *)
Channels(i, op, v) == IF op > 0 THEN {<<i, "semncnt">>} ELSE IF v = 0 THEN {<<i, "semzcnt">>} ELSE {}
LEMMA ChannelsIs ==
  ASSUME NEW i \in Sema, NEW op \in Int, NEW a \in Nat, NEW v \in Nat, v = a + op, op # 0, NEW f \in Kind
  PROVE  /\ Channels(i, op, v) \in SUBSET Channel
         /\ \A j \in Sema, g \in Kind : <<j, g>> \in Channels(i, op, v) => j = i
         /\ \A o \in Int : Concerns(f, o, v) => <<i, f>> \in Channels(i, op, v) \/ Concerns(f, o, a)
<1>1. CASE op > 0
  <2>1. Channels(i, op, v) = {<<i, "semncnt">>} /\ v > 0 /\ v # 0
    BY <1>1 DEF Channels
  <2>2. f = "semncnt" => <<i, f>> \in Channels(i, op, v)
    BY Zenon, <2>1
  <2>3. f # "semncnt" => \A o \in Int : ~Concerns(f, o, v)
    BY Zenon, <2>1 DEF Concerns
  <2> QED
    BY <2>1, <2>2, <2>3 DEF Channel, Kind
<1>2. CASE ~(op > 0)
  <2>1. v < a
    BY <1>2
  <2>2. f = "semncnt" => \A o \in Int : Concerns(f, o, v) => Concerns(f, o, a)
    BY <2>1 DEF Concerns
  <2>3. f # "semncnt" => \A o \in Int : Concerns(f, o, v) => <<i, f>> \in Channels(i, op, v)
    BY <1>2 DEF Concerns, Channels, Kind
  <2>4. /\ Channels(i, op, v) \in SUBSET Channel
        /\ \A j \in Sema, g \in Kind : <<j, g>> \in Channels(i, op, v) => j = i
    BY <1>2 DEF Channel, Kind, Channels
  <2> QED
    BY Zenon, <2>2, <2>3, <2>4
<1> QED
  BY <1>1, <1>2

LEMMA ChangeHeard ==
  ASSUME NEW s, NEW m \in Mem, NEW i \in Sema, NEW op \in Int, op # 0, NEW v \in Nat, m[i].semval \in Nat,
         v = m[i].semval + op, \A j \in Sema : s[j].semval \in Int,
         NEW x, x = [m EXCEPT ![i].semval = v], NEW C, C = Channels(i, op, v),
         NEW w, w = Zeroed(x, C), Heard(s, m)
  PROVE  Heard(s, w)
<1>0. v \in Int /\ m \in Mem /\ x = [m EXCEPT ![i].semval = v]
  OBVIOUS
<1>1. x \in Mem
  BY <1>0, ValueMem
<1>2. /\ x \in Mem /\ x[i].semval = v
      /\ \A j \in Sema : j # i => x[j].semval = m[j].semval
      /\ \A j \in Sema, f \in Kind : x[j][f] = m[j][f]
  <2>1. /\ x[i].semval = v
        /\ \A j \in Sema : j # i => x[j].semval = m[j].semval
        /\ \A j \in Sema, f \in Kind : x[j][f] = m[j][f]
    BY <1>0, ValueIs
  <2> QED
    BY Zenon, <1>1, <2>1
<1>3. C \in SUBSET Channel
  <2>1. "semncnt" \in Kind
    BY DEF Kind
  <2> QED
    BY <2>1, ChannelsIs
<1>4. \A j \in Sema, f \in Kind : w[j][f] = IF <<j, f>> \in C THEN 0 ELSE x[j][f]
  <2>1. Clears(x, w, C)
    BY <1>1, ZeroedIs
  <2> QED
    BY Zenon, <2>1 DEF Clears
<1>5. \A j \in Sema : w[j].semval = x[j].semval
  <2>1. ASSUME NEW j \in Sema PROVE Zeroed(x, C)[j].semval = x[j].semval
    <3>1. <<j, "semval">> \notin C
      BY <1>3 DEF Channel, Kind
    <3>2. \A f \in Field : Zeroed(x, C)[j][f] = IF <<j, f>> \in C THEN 0 ELSE x[j][f]
      BY <1>2 DEF Zeroed, Mem
    <3> QED
      BY <3>1, <3>2 DEF Field
  <2> QED
    BY <1>1, <2>1
<1>6. SUFFICES ASSUME NEW j \in Sema, NEW f \in Kind, Concerns(f, s[j].semval, w[j].semval)
               PROVE  w[j][f] = 0
  BY Zenon DEF Heard
<1>7. m[j][f] = 0 => w[j][f] = 0
  BY ZenonT(60), <1>2, <1>4
<1>8. CASE j # i
  <2>1. Concerns(f, s[j].semval, m[j].semval)
    BY Zenon, <1>2, <1>5, <1>6, <1>8
  <2> QED
    BY Zenon, <1>7, <2>1 DEF Heard
<1>9. CASE j = i
  <2>1. Concerns(f, s[i].semval, v)
    BY Zenon, <1>2, <1>5, <1>6, <1>9
  <2>2. <<i, f>> \in C \/ Concerns(f, s[i].semval, m[i].semval)
    <3>1. \A o \in Int : Concerns(f, o, v) => <<i, f>> \in Channels(i, op, v) \/ Concerns(f, o, m[i].semval)
      BY ChannelsIs
    <3> QED
      BY Zenon, <2>1, <3>1
  <2>3. CASE <<i, f>> \in C
    BY Zenon, <1>4, <1>9, <2>3
  <2>4. CASE Concerns(f, s[i].semval, m[i].semval)
    BY Zenon, <1>7, <1>9, <2>4 DEF Heard
  <2> QED
    BY Zenon, <2>2, <2>3, <2>4
<1> QED
  BY <1>8, <1>9

(* What an operation takes from what its process owes.                     *)
Charge(id, op, k) == IF k = <<id, op.num>> /\ op.undo THEN op.op ELSE 0

(* An operation that is done, beside what DoneKeeps says of it.            *)
Changed(old, new, p, id, op) ==
  /\ \A q \in Proc : q # p => new.u[q] = old.u[q]
  /\ \A k \in Key : Owes(new.u[p].ent, k) = Owes(old.u[p].ent, k) - Charge(id, op, k)
  /\ old.u[p].has \/ (op.undo /\ op.op # 0) => new.u[p].has

LEMMA DoneMore ==
  ASSUME sem \in Mem, Counting(sem), NEW K \in SUBSET Key, NEW st \in Forward(K), NEW p \in Proc, NEW id, NEW op \in Sembuf,
         <<id, op.num>> \in K, Semp(id, op.num) \in Sema, IsFiniteSet(Proc),
         op.op # 0, ~MustWait(st, id, op), ~Refused(st, p, id, op), Heard(sem, st.m),
         NEW new, new = Done(st, p, id, op)
  PROVE  Changed(st, new, p, id, op) /\ Heard(sem, new.m)
<1> DEFINE i == Semp(id, op.num)
           v == st.m[i].semval + op.op
           C == Channels(i, op.op, v)
           x == [st.m EXCEPT ![i].semval = v]
           w == Zeroed(x, C)
           d == IF op.undo THEN Semaoe(st.u, p, op.op, id, op.num) ELSE st.u
<1>1. /\ st \in [m : Mem, u : Tables(K), woken : SUBSET Channel, n : Nat, why : Why]
      /\ st.m \in Mem /\ st.u \in Tables(K) /\ InRange(st.m)
  BY DEF Forward, Carried
<1>2. new.m = w /\ new.u = d
  <2>1. new = [st EXCEPT !.m = w, !.u = d, !.woken = st.woken \cup Waited(st.m, C), !.n = st.n + 1]
    BY DEF Done, Channels
  <2> HIDE DEF w, d, C
  <2> QED
    BY <1>1, <2>1
<1>3. i \in Sema /\ op.op \in Int /\ op.undo \in BOOLEAN
  BY SembufIs
<1> HIDE DEF d, x, w, C
<1>4. Changed(st, new, p, id, op)
  <2>1. st.u \in [Proc -> Structure(K)]
    BY <1>1 DEF Tables
  <2>2. CASE op.undo
    <3>1. ~AoeRefused(st.u, p, op.op, id, op.num) /\ op.op \in Int /\ op.op # 0
      BY <1>3, <2>2 DEF Refused
    <3>2. d = Semaoe(st.u, p, op.op, id, op.num)
      BY <2>2 DEF d
    <3>3. /\ d[p].has /\ \A q \in Proc : q # p => d[q] = st.u[q]
          /\ \A k : Owes(d[p].ent, k) = Owes(st.u[p].ent, k) - Less(k, id, op.num, op.op)
      BY <1>1, <3>1, <3>2, SemaoeOwes
    <3>4. \A k : Less(k, id, op.num, op.op) = Charge(id, op, k)
      BY <2>2 DEF Less, Charge
    <3> QED
      BY Zenon, <1>2, <3>3, <3>4 DEF Changed
  <2>3. CASE ~op.undo
    <3>1. d = st.u
      BY <2>3 DEF d
    <3>2. \A k \in Key : Owes(st.u[p].ent, k) \in Int
      <4>1. st.u[p].ent \in Lists(K)
        BY <2>1 DEF Structure
      <4> QED
        BY <4>1, OwesIn
    <3>3. \A k : Charge(id, op, k) = 0
      BY <2>3 DEF Charge
    <3>4. \A n \in Int : n - 0 = n
      OBVIOUS
    <3> QED
      BY Zenon, <1>2, <2>3, <3>1, <3>2, <3>3, <3>4 DEF Changed
  <2> QED
    BY <2>2, <2>3
<1>5. Heard(sem, new.m)
  <2>1. st.m[i].semval \in Nat
    BY <1>1, <1>3, TopIs DEF InRange
  <2>2. v \in Nat
    <3>1. /\ new \in Forward(K)
          /\ \A j \in Sema : new.m[j].semval = st.m[j].semval + Added(id, op, j)
      BY DoneKeeps
    <3>2. new.m[i].semval = v
      BY <1>3, <3>1 DEF Added
    <3>3. new.m[i].semval \in Nat
      BY <1>3, <3>1, TopIs DEF InRange, Forward
    <3> QED
      BY <3>2, <3>3
  <2>3. \A j \in Sema : sem[j].semval \in Int
    BY MemInt
  <2>4. x = [st.m EXCEPT ![i].semval = v] /\ C = Channels(i, op.op, v) /\ w = Zeroed(x, C)
    BY DEF x, C, w
  <2> HIDE DEF i
  <2>5. v = st.m[i].semval + op.op
    OBVIOUS
  <2> HIDE DEF v
  <2>6. Heard(sem, w)
    <3>1. PICK m : m = st.m
      OBVIOUS
    <3>2. m \in Mem /\ x = [m EXCEPT ![i].semval = v] /\ m[i].semval \in Nat /\ v = m[i].semval + op.op
      BY <1>1, <2>1, <2>4, <2>5, <3>1
    <3>3. Heard(sem, m)
      BY <3>1
    <3> QED
      BY <1>3, <2>2, <2>3, <2>4, <3>2, <3>3, ChangeHeard
  <2> QED
    BY <1>2, <2>6
<1> QED
  BY <1>4, <1>5

Stopped(st) == st.why = "wait"

(* An operation that stops the pass changes nothing, and one that must     *)
(* wait finds a value that it must wait for.                               *)
Makes(old, new, p, id, op) ==
  /\ Going(old) /\ ~Going(new) => new.u = old.u /\ (Stopped(new) => MustWait(old, id, op))
  /\ Going(old) /\ Going(new) =>
       ~MustWait(old, id, op) /\ ~Refused(old, p, id, op) /\ Changed(old, new, p, id, op)

LEMMA WhyIs ==
  /\ "EAGAIN" # "" /\ "wait" # "" /\ "error" # "" /\ "error" # "wait"
OBVIOUS

LEMMA OneOpMore ==
  ASSUME sem \in Mem, Counting(sem), NEW K \in SUBSET Key, NEW st \in Forward(K), NEW p \in Proc, NEW id, NEW op \in Sembuf,
         <<id, op.num>> \in K, Semp(id, op.num) \in Sema, IsFiniteSet(Proc), Heard(sem, st.m),
         NEW new, new = OneOp(st, p, id, op)
  PROVE  Makes(st, new, p, id, op) /\ Heard(sem, new.m)
<1>1. /\ st \in [m : Mem, u : Tables(K), woken : SUBSET Channel, n : Nat, why : Why]
      /\ st.u \in Tables(K)
  BY DEF Forward, Carried
<1>2. CASE ~Going(st)
  <2>1. new = st
    BY <1>2 DEF OneOp, Going
  <2> QED
    BY Zenon, <1>2, <2>1 DEF Makes
<1>3. CASE Going(st) /\ MustWait(st, id, op)
  <2>1. \E y : y # "" /\ new = [st EXCEPT !.why = y]
    BY <1>3, WhyIs DEF OneOp, Going
  <2>2. new.u = st.u /\ new.m = st.m /\ ~Going(new)
    BY <1>1, <2>1 DEF Going
  <2> QED
    BY Zenon, <1>3, <2>2 DEF Makes
<1>4. CASE Going(st) /\ ~MustWait(st, id, op) /\ Refused(st, p, id, op)
  <2>1. new = [st EXCEPT !.why = "error"]
    BY <1>4 DEF OneOp, Going
  <2>2. new.u = st.u /\ new.m = st.m /\ new.why = "error"
    BY <1>1, <2>1
  <2>3. ~Going(new) /\ ~Stopped(new)
    BY <2>2, WhyIs DEF Going, Stopped
  <2> QED
    BY Zenon, <2>2, <2>3 DEF Makes
<1>5. CASE Going(st) /\ ~MustWait(st, id, op) /\ ~Refused(st, p, id, op) /\ op.op = 0
  <2>1. new = [st EXCEPT !.n = @ + 1]
    BY <1>5 DEF OneOp, Going
  <2>2. new.u = st.u /\ new.m = st.m /\ Going(new)
    BY <1>1, <1>5, <2>1 DEF Going
  <2>3. Changed(st, new, p, id, op)
    <3>1. \A k : Charge(id, op, k) = 0
      BY <1>5 DEF Charge
    <3>2. \A k \in Key : Owes(st.u[p].ent, k) \in Int
      <4>1. st.u[p] \in Structure(K)
        BY <1>1 DEF Tables
      <4>2. st.u[p].ent \in Lists(K)
        BY <4>1 DEF Structure
      <4> QED
        BY <4>2, OwesIn
    <3>3. \A n \in Int : n - 0 = n
      OBVIOUS
    <3> QED
      BY Zenon, <1>5, <2>2, <3>1, <3>2, <3>3 DEF Changed
  <2> QED
    BY Zenon, <1>5, <2>2, <2>3 DEF Makes
<1>6. CASE Going(st) /\ ~MustWait(st, id, op) /\ ~Refused(st, p, id, op) /\ op.op # 0
  <2>1. new = Done(st, p, id, op)
    BY <1>6 DEF OneOp, Going
  <2>2. Changed(st, new, p, id, op) /\ Heard(sem, new.m)
    <3>1. op.op # 0 /\ ~MustWait(st, id, op) /\ ~Refused(st, p, id, op)
      BY <1>6
    <3> QED
      BY <2>1, <3>1, DoneMore
  <2>3. Going(new) \/ ~Going(new)
    OBVIOUS
  <2>4. Going(new)
    <3>1. op.op # 0 /\ ~MustWait(st, id, op) /\ ~Refused(st, p, id, op)
      BY <1>6
    <3>2. new.why = st.why
      BY <2>1, <3>1, DoneKeeps
    <3> QED
      BY <1>6, <3>2 DEF Going
  <2> QED
    BY Zenon, <1>6, <2>2, <2>4 DEF Makes
<1> QED
  BY <1>2, <1>3, <1>4, <1>5, <1>6

(* Taking an operation back is never refused: what it leaves is what there *)
(* was before, b.                                                          *)
LEMMA MayTakeBack ==
  ASSUME NEW K \in SUBSET Key, NEW u \in Tables(K), NEW p \in Proc, NEW val \in Int, val # 0,
         NEW id, NEW num, <<id, num>> \in K, u[p].has, Abs(val) <= SEMAEM,
         NEW b \in Lists(K), \A k \in Key : Owes(u[p].ent, k) = Owes(b, k) - Less(k, id, num, val)
  PROVE  ~AoeRefused(u, p, -val, id, num)
<1> DEFINE ent == u[p].ent
           i == Place(ent, id, num)
<1>1. ent \in Lists(K) /\ id \in Nat /\ num \in Nat /\ <<id, num>> \in Key
  <2>1. u[p] \in Structure(K)
    BY DEF Tables
  <2> QED
    BY <2>1 DEF Structure, Key
<1>2. i = Place(ent, id, num)
  OBVIOUS
<1>3. ~(Abs(-val) > SEMAEM)
  BY Constants DEF Abs
<1>4. Owes(b, <<id, num>>) \in Int /\ Abs(Owes(b, <<id, num>>)) <= SEMAEM
  BY OwesIn
<1>5. Owes(ent, <<id, num>>) = Owes(b, <<id, num>>) - val
  BY <1>1 DEF Less
<1> HIDE DEF ent, i
<1>6. ASSUME IsAt(ent, i, id, num) PROVE ~(Abs(ent[i].aoe - (-val)) > SEMAEM)
  <2>1. /\ Len(ent) \in Nat /\ DOMAIN ent = 1 .. Len(ent) /\ ent \in Seq(UndoEntry)
        /\ \A j \in 1 .. Len(ent) : ent[j] \in UndoEntry /\ ent[j] \in Range(ent)
    BY <1>1, ListIs
  <2>2. i \in 1 .. Len(ent) + 1
    BY <1>1, <1>2, <2>1, PlaceIs
  <2>3. i \in 1 .. Len(ent) /\ KeyOf(ent[i]) = <<id, num>>
    BY <1>6, <2>1, <2>2 DEF IsAt, KeyOf
  <2>4. Owes(ent, <<id, num>>) = ent[i].aoe
    BY Zenon, <1>1, <2>1, <2>3, OwesIs
  <2>5. ent[i].aoe - (-val) = Owes(b, <<id, num>>)
    BY <1>4, <1>5, <2>4
  <2>6. Abs(Owes(b, <<id, num>>)) \in Int /\ SEMAEM \in Int
    BY <1>4, Constants DEF Abs
  <2> QED
    BY <1>4, <2>5, <2>6
<1>7. ASSUME ~IsAt(ent, i, id, num) PROVE ~(Len(ent) >= SEMUME)
  <2>1. \A e \in Range(ent) : KeyOf(e) # <<id, num>>
    BY <1>1, <1>2, <1>7, NotThere
  <2>2. Owes(ent, <<id, num>>) = 0
    BY Zenon, <1>1, <2>1, OwesIs
  <2>3. Owes(b, <<id, num>>) # 0
    BY <1>4, <1>5, <2>2
  <2> DEFINE A == DOMAIN AdjOf(ent)
             B == DOMAIN AdjOf(b)
  <2>4. IsFiniteSet(A) /\ Cardinality(A) = Len(ent) /\ IsFiniteSet(B) /\ Cardinality(B) = Len(b)
    BY <1>1, AsMany
  <2>5. \A k \in A : k \in Key /\ Owes(ent, k) # 0
    <3>1. ASSUME NEW k \in A PROVE k \in Key /\ Owes(ent, k) # 0
      <4>1. Owes(ent, k) # 0 /\ (k \notin K => Owes(ent, k) = 0)
        BY <1>1, OwesIn
      <4> QED
        BY <4>1
    <3> QED
      BY Zenon, <3>1
  <2>6. <<id, num>> \notin A /\ <<id, num>> \in B
    BY Zenon, <1>1, <2>2, <2>3, OwesIn
  <2>7. ASSUME NEW k \in A PROVE k \in B
    <3>1. k # <<id, num>> /\ k \in Key
      BY <2>5, <2>6
    <3>2. Owes(ent, k) = Owes(b, k) - 0
      BY <3>1 DEF Less, ent
    <3>3. Owes(b, k) \in Int
      BY OwesIn
    <3>4. Owes(b, k) # 0
      BY <2>5, <3>2, <3>3
    <3> QED
      BY Zenon, <3>4, OwesIn
  <2> HIDE DEF A, B
  <2>8. Cardinality(A \cup {<<id, num>>}) = Cardinality(A) + 1
    BY <2>4, <2>6, FS_AddElement
  <2>9. A \cup {<<id, num>>} \subseteq B
    BY <2>6, <2>7
  <2>10. Cardinality(A \cup {<<id, num>>}) <= Cardinality(B)
    BY <2>4, <2>9, FS_Subset
  <2>11. Len(b) <= SEMUME /\ Len(b) \in Nat /\ Len(ent) \in Nat /\ SEMUME \in Nat
    <3>1. b \in Seq(UndoEntry) /\ ent \in Seq(UndoEntry) /\ Len(b) <= SEMUME
      BY <1>1 DEF Lists
    <3> QED
      BY <3>1, Constants
  <2> QED
    BY <2>4, <2>8, <2>10, <2>11
<1> QED
  BY Zenon, <1>3, <1>6, <1>7 DEF AoeRefused, ent, i

(* One operation taken back: what is owed is what it was before, b.        *)
LEMMA TakenBackMore ==
  ASSUME NEW K \in SUBSET Key, NEW st \in Carried(K), NEW p \in Proc, NEW id, NEW op \in Sembuf,
         <<id, op.num>> \in K, IsFiniteSet(Proc),
         NEW b \in Lists(K), \A k \in Key : Owes(st.u[p].ent, k) = Owes(b, k) - Charge(id, op, k),
         op.undo /\ op.op # 0 => st.u[p].has /\ Abs(op.op) <= SEMAEM,
         NEW new, new = TakenBack(st, p, id, op)
  PROVE  /\ \A k \in Key : Owes(new.u[p].ent, k) = Owes(b, k)
         /\ \A q \in Proc : q # p => new.u[q] = st.u[q]
         /\ st.u[p].has => new.u[p].has
<1>1. /\ st \in [m : Mem, u : Tables(K), woken : SUBSET Channel, n : Nat, why : Why]
      /\ st.u \in Tables(K)
  BY DEF Carried
<1>2. op.op \in Int /\ op.undo \in BOOLEAN
  BY SembufIs
<1>3. \A k \in Key : Owes(b, k) \in Int
  BY OwesIn
<1>4. CASE ~(op.undo /\ op.op # 0)
  <2>1. new.u = st.u
    <3>1. CASE op.op = 0
      BY <3>1 DEF TakenBack
    <3>2. CASE op.op # 0
      <4>1. ~op.undo
        BY <1>4, <3>2
      <4> QED
        BY <1>1, <3>2, <4>1 DEF TakenBack
    <3> QED
      BY <3>1, <3>2
  <2>2. \A k : Charge(id, op, k) = 0
    BY <1>4 DEF Charge
  <2>3. ASSUME NEW k \in Key PROVE Owes(new.u[p].ent, k) = Owes(b, k)
    <3>1. Owes(st.u[p].ent, k) = Owes(b, k) - Charge(id, op, k)
      BY Zenon
    <3>2. Charge(id, op, k) = 0
      BY Zenon, <2>2
    <3>3. Owes(new.u[p].ent, k) = Owes(st.u[p].ent, k)
      BY Zenon, <2>1
    <3> QED
      BY <1>3, <3>1, <3>2, <3>3
  <2> QED
    BY Zenon, <2>1, <2>3
<1>5. CASE op.undo /\ op.op # 0
  <2>1. -op.op \in Int /\ -op.op # 0
    BY <1>2, <1>5
  <2>2. \A k : Charge(id, op, k) = Less(k, id, op.num, op.op)
    BY <1>5 DEF Less, Charge
  <2>3. ~AoeRefused(st.u, p, -op.op, id, op.num)
    <3>1. \A k \in Key : Owes(st.u[p].ent, k) = Owes(b, k) - Less(k, id, op.num, op.op)
      BY Zenon, <2>2
    <3> QED
      BY <1>1, <1>2, <1>5, <3>1, MayTakeBack
  <2>4. new.u = Semaoe(st.u, p, -op.op, id, op.num)
    <3> DEFINE i == Semp(id, op.num)
               y == Semaoe(st.u, p, -op.op, id, op.num)
    <3>1. new = [st EXCEPT !.m[i].semval = @ - op.op,
                           !.u = IF op.undo /\ ~AoeRefused(@, p, -op.op, id, op.num)
                                 THEN Semaoe(@, p, -op.op, id, op.num) ELSE @]
      BY <1>5 DEF TakenBack
    <3>2. new = [st EXCEPT !.m[i].semval = @ - op.op, !.u = y]
      BY <1>5, <2>3, <3>1
    <3> HIDE DEF y, i
    <3>3. new.u = y
      BY <1>1, <3>2
    <3> QED
      BY <3>3 DEF y
  <2>5. /\ new.u[p].has /\ \A q \in Proc : q # p => new.u[q] = st.u[q]
        /\ \A k : Owes(new.u[p].ent, k) = Owes(st.u[p].ent, k) - Less(k, id, op.num, -op.op)
    <3> DEFINE v == new.u
               val == -op.op
    <3>1. v = Semaoe(st.u, p, val, id, op.num) /\ val \in Int /\ val # 0
          /\ ~AoeRefused(st.u, p, val, id, op.num)
      BY <2>1, <2>3, <2>4
    <3> HIDE DEF v, val
    <3>2. /\ v[p].has /\ \A q \in Proc : q # p => v[q] = st.u[q]
          /\ \A k : Owes(v[p].ent, k) = Owes(st.u[p].ent, k) - Less(k, id, op.num, val)
      BY <1>1, <3>1, SemaoeOwes
    <3> QED
      BY <3>2 DEF v, val
  <2>6. ASSUME NEW k \in Key PROVE Owes(new.u[p].ent, k) = Owes(b, k)
    <3>1. Owes(new.u[p].ent, k) = (Owes(b, k) - Less(k, id, op.num, op.op)) - Less(k, id, op.num, -op.op)
      BY Zenon, <2>2, <2>5
    <3>2. Less(k, id, op.num, op.op) \in Int /\ Less(k, id, op.num, -op.op) = -Less(k, id, op.num, op.op)
      BY <1>2 DEF Less
    <3>3. Owes(b, k) \in Int
      BY <1>3
    <3> QED
      BY <3>1, <3>2, <3>3
  <2> QED
    BY Zenon, <2>5, <2>6
<1> QED
  BY <1>4, <1>5

(* What a vector takes from what is owed, up to its operation n.           *)
Took(id, ops, k, n) == IF k[1] = id THEN Owe(ops, k[2])[n] ELSE 0
LEMMA TookIs ==
  ASSUME NEW ops \in Seq(Sembuf), NEW id, NEW k \in Key
  PROVE  /\ Took(id, ops, k, 0) = 0
         /\ \A n \in 1 .. Len(ops) : Took(id, ops, k, n) = Took(id, ops, k, n - 1) + Charge(id, ops[n], k)
         /\ \A n \in 0 .. Len(ops) : Took(id, ops, k, n) \in Int
<1>1. /\ Owe(ops, k[2])[0] = 0
      /\ \A n \in 1 .. Len(ops) : Owe(ops, k[2])[n] = Owe(ops, k[2])[n - 1] + Owed(ops[n], k[2])
      /\ \A n \in 0 .. Len(ops) : Owe(ops, k[2])[n] \in Int
  BY OweIs
<1>2. CASE k[1] = id
  <2>1. \A n \in 1 .. Len(ops) : Charge(id, ops[n], k) = Owed(ops[n], k[2])
    <3>1. ASSUME NEW n \in 1 .. Len(ops) PROVE k = <<id, ops[n].num>> <=> ops[n].num = k[2]
      BY <1>2 DEF Key
    <3> QED
      BY Zenon, <3>1 DEF Charge, Owed
  <2> QED
    BY <1>1, <1>2, <2>1 DEF Took
<1>3. CASE k[1] # id
  <2>1. \A n : Charge(id, ops[n], k) = 0
    <3>1. ASSUME NEW n PROVE k # <<id, ops[n].num>>
      BY <1>3
    <3> QED
      BY Zenon, <3>1 DEF Charge
  <2> QED
    BY <1>3, <2>1 DEF Took
<1> QED
  BY <1>2, <1>3

(* The values and the undo structures after n operations.                  *)
Values(m, id, ops, n) ==
  /\ \A num \in Nat : Semp(id, num) \in Sema =>
       m[Semp(id, num)].semval = sem[Semp(id, num)].semval + Sum(ops, num)[n]
  /\ \A j \in Sema : (\A i \in DOMAIN ops : j # Semp(id, ops[i].num)) => m[j].semval = sem[j].semval
Accounts(u, p, id, ops, n) ==
  /\ \A q \in Proc : q # p => u[q] = undo[q]
  /\ \A k \in Key : Owes(u[p].ent, k) = Owes(undo[p].ent, k) - Took(id, ops, k, n)
  /\ \A i \in 1 .. n : ops[i].undo /\ ops[i].op # 0 => u[p].has

LEMMA NoValues ==
  ASSUME NEW id, NEW ops \in Seq(Sembuf), sem \in Mem
  PROVE  Values(sem, id, ops, 0)
<1>1. \A j \in Sema : sem[j].semval \in Int
  BY MemInt
<1>2. \A num : Sum(ops, num)[0] = 0
  BY SumIs
<1>3. ASSUME NEW num \in Nat, Semp(id, num) \in Sema
      PROVE  sem[Semp(id, num)].semval = sem[Semp(id, num)].semval + Sum(ops, num)[0]
  <2>1. PICK j \in Sema : j = Semp(id, num)
    BY <1>3
  <2> QED
    BY <1>1, <1>2, <2>1
<1> QED
  BY Zenon, <1>3 DEF Values

LEMMA ValuesStep ==
  ASSUME NEW id, sema[SlotOf(id)].base \in Int, NEW ops \in Seq(Sembuf), NEW n \in 1 .. Len(ops),
         sem \in Mem, NEW a, Values(a, id, ops, n - 1),
         NEW b, \A j \in Sema : b[j].semval = a[j].semval + Added(id, ops[n], j)
  PROVE  Values(b, id, ops, n)
<1>1. \A j \in Sema : sem[j].semval \in Int
  BY MemInt
<1>2. ops[n] \in Sembuf /\ ops[n].num \in Nat /\ ops[n].op \in Int /\ n \in DOMAIN ops
  <2>1. ops[n] \in Sembuf /\ n \in DOMAIN ops
    OBVIOUS
  <2> QED
    BY <2>1, SembufIs
<1>3. ASSUME NEW num \in Nat, Semp(id, num) \in Sema
      PROVE  b[Semp(id, num)].semval = sem[Semp(id, num)].semval + Sum(ops, num)[n]
  <2>1. PICK j \in Sema : j = Semp(id, num)
    BY <1>3
  <2>2. Added(id, ops[n], j) = Puts(ops[n], num) /\ Puts(ops[n], num) \in Int
    <3>1. j = Semp(id, ops[n].num) <=> ops[n].num = num
      BY <1>2, <2>1 DEF Semp
    <3> QED
      BY <1>2, <3>1 DEF Added, Puts
  <2>3. a[j].semval = sem[j].semval + Sum(ops, num)[n - 1]
    BY Zenon, <1>3, <2>1 DEF Values
  <2>4. Sum(ops, num)[n] = Sum(ops, num)[n - 1] + Puts(ops[n], num) /\ Sum(ops, num)[n - 1] \in Int
    <3>1. n - 1 \in 0 .. Len(ops)
      OBVIOUS
    <3> QED
      BY <3>1, SumIs
  <2>5. b[j].semval = sem[j].semval + Sum(ops, num)[n]
    <3>1. b[j].semval = a[j].semval + Added(id, ops[n], j) /\ sem[j].semval \in Int
      BY <1>1
    <3> QED
      BY <2>2, <2>3, <2>4, <3>1
  <2> QED
    BY Zenon, <2>1, <2>5
<1>4. ASSUME NEW j \in Sema, \A i \in DOMAIN ops : j # Semp(id, ops[i].num)
      PROVE  b[j].semval = sem[j].semval
  <2>1. a[j].semval = sem[j].semval
    BY Zenon, <1>4 DEF Values
  <2>2. Added(id, ops[n], j) = 0
    BY Zenon, <1>2, <1>4 DEF Added
  <2>3. b[j].semval = a[j].semval + Added(id, ops[n], j) /\ sem[j].semval \in Int
    BY <1>1
  <2> QED
    BY <2>1, <2>2, <2>3
<1> QED
  BY Zenon, <1>3, <1>4 DEF Values

LEMMA AccountsStep ==
  ASSUME NEW K \in SUBSET Key, undo \in Tables(K), NEW p \in Proc, NEW id, NEW ops \in Seq(Sembuf), NEW n \in 1 .. Len(ops),
         NEW old, Accounts(old.u, p, id, ops, n - 1), NEW new, Changed(old, new, p, id, ops[n])
  PROVE  Accounts(new.u, p, id, ops, n)
<1>1. \A q \in Proc : q # p => new.u[q] = undo[q]
  BY Zenon DEF Accounts, Changed
<1>2. ASSUME NEW k \in Key
      PROVE  Owes(new.u[p].ent, k) = Owes(undo[p].ent, k) - Took(id, ops, k, n)
  <2>1. Owes(new.u[p].ent, k) = Owes(old.u[p].ent, k) - Charge(id, ops[n], k)
    BY Zenon DEF Changed
  <2>2. Owes(old.u[p].ent, k) = Owes(undo[p].ent, k) - Took(id, ops, k, n - 1)
    BY Zenon DEF Accounts
  <2>3. /\ Took(id, ops, k, n) = Took(id, ops, k, n - 1) + Charge(id, ops[n], k)
        /\ Took(id, ops, k, n - 1) \in Int
    <3>1. n - 1 \in 0 .. Len(ops)
      OBVIOUS
    <3> QED
      BY <3>1, TookIs
  <2>4. Owes(undo[p].ent, k) \in Int
    <3>1. undo[p] \in Structure(K)
      BY DEF Tables
    <3>2. undo[p].ent \in Lists(K)
      BY <3>1 DEF Structure
    <3> QED
      BY <3>2, OwesIn
  <2>5. Charge(id, ops[n], k) \in Int
    <3>1. ops[n] \in Sembuf
      OBVIOUS
    <3>2. ops[n].op \in Int
      BY <3>1, SembufIs
    <3> QED
      BY <3>2 DEF Charge
  <2> QED
    BY <2>1, <2>2, <2>3, <2>4, <2>5
<1>3. ASSUME NEW i \in 1 .. n, ops[i].undo /\ ops[i].op # 0 PROVE new.u[p].has
  <2>1. CASE i = n
    BY Zenon, <1>3, <2>1 DEF Changed
  <2>2. CASE i # n
    <3>1. i \in 1 .. n - 1
      BY <2>2
    <3> QED
      BY Zenon, <1>3, <3>1 DEF Accounts, Changed
  <2> QED
    BY <2>1, <2>2
<1> QED
  BY Zenon, <1>1, <1>2, <1>3 DEF Accounts

LEMMA NoAccounts ==
  ASSUME NEW K \in SUBSET Key, undo \in Tables(K), NEW p \in Proc, NEW id, NEW ops \in Seq(Sembuf)
  PROVE  Accounts(undo, p, id, ops, 0)
<1>1. \A k \in Key : Took(id, ops, k, 0) = 0
  BY TookIs
<1>2. \A k \in Key : Owes(undo[p].ent, k) \in Int
  <2>1. undo[p] \in Structure(K)
    BY DEF Tables
  <2>2. undo[p].ent \in Lists(K)
    BY <2>1 DEF Structure
  <2> QED
    BY <2>2, OwesIn
<1>3. ASSUME NEW k \in Key PROVE Owes(undo[p].ent, k) = Owes(undo[p].ent, k) - Took(id, ops, k, 0)
  BY <1>1, <1>2
<1>4. \A i \in 1 .. 0 : FALSE
  OBVIOUS
<1> QED
  BY Zenon, <1>3, <1>4 DEF Accounts

(* The pass after n operations.                                            *)
Kept(g, p, id, ops, n) ==
  /\ Heard(sem, g[n].m)
  /\ Going(g[n]) => Values(g[n].m, id, ops, n) /\ Accounts(g[n].u, p, id, ops, n)

LEMMA PassMore ==
  ASSUME NEW K, NEW p, NEW id, NEW ops, Ready(K, p, id, ops), sema[SlotOf(id)].base \in Int,
         NEW g, States(g, p, id, ops)
  PROVE  /\ \A n \in 0 .. Len(ops) : Kept(g, p, id, ops, n)
         /\ \A n \in 1 .. Len(ops) : Makes(g[n - 1], g[n], p, id, ops[n])
<1>1. /\ sem \in Mem /\ Counting(sem) /\ K \in SUBSET Key /\ undo \in Tables(K) /\ p \in Proc
      /\ IsFiniteSet(Proc) /\ ops \in Seq(Sembuf) /\ Len(ops) \in Nat
  BY DEF Ready
<1>2. /\ g[0] = Begin
      /\ \A k \in 0 .. Len(ops) : g[k] \in Forward(K) /\ Reached(g, k)
      /\ \A k \in 1 .. Len(ops) : Forth(g[k - 1], g[k], id, ops[k])
  BY Forwards
<1>3. \A k \in 1 .. Len(ops) : g[k] = OneOp(g[k - 1], p, id, ops[k])
  <2>1. \A k \in 0 .. Len(ops) : g[k] = IF k = 0 THEN Begin ELSE OneOp(g[k - 1], p, id, ops[k])
    BY DEF States
  <2>2. \A k \in 1 .. Len(ops) : k \in 0 .. Len(ops) /\ k # 0
    OBVIOUS
  <2> QED
    BY <2>1, <2>2
<1>4. ASSUME NEW n \in 1 .. Len(ops), Heard(sem, g[n - 1].m)
      PROVE  Makes(g[n - 1], g[n], p, id, ops[n]) /\ Heard(sem, g[n].m)
  <2>1. n - 1 \in 0 .. Len(ops)
    BY <1>1
  <2>2. g[n - 1] \in Forward(K) /\ g[n] = OneOp(g[n - 1], p, id, ops[n])
    BY <1>2, <1>3, <2>1
  <2>3. ops[n] \in Sembuf /\ <<id, ops[n].num>> \in K /\ Semp(id, ops[n].num) \in Sema
    BY ReadyOp DEF Operation
  <2> QED
    BY <1>1, <1>4, <2>2, <2>3, OneOpMore
<1> DEFINE T == {n \in Nat : n <= Len(ops) => Kept(g, p, id, ops, n)}
<1>5. 0 \in T
  <2>1. Begin.m = sem /\ Begin.u = undo
    BY DEF Begin
  <2>2. Heard(sem, sem)
    <3>1. \A j \in Sema : sem[j].semval \in Int
      BY <1>1, MemInt
    <3>2. \A v \in Int : ~(v > v)
      OBVIOUS
    <3> QED
      BY Zenon, <3>1, <3>2 DEF Heard, Concerns
  <2>3. Values(sem, id, ops, 0) /\ Accounts(undo, p, id, ops, 0)
    BY <1>1, NoValues, NoAccounts
  <2>4. Kept(g, p, id, ops, 0)
    BY Zenon, <1>2, <2>1, <2>2, <2>3 DEF Kept
  <2> QED
    BY <2>4
<1>6. ASSUME NEW n \in T PROVE n + 1 \in T
  <2>1. SUFFICES ASSUME n + 1 <= Len(ops) PROVE Kept(g, p, id, ops, n + 1)
    OBVIOUS
  <2>2. n \in Nat /\ n + 1 \in 1 .. Len(ops) /\ (n + 1) - 1 = n
    BY <1>1, <2>1
  <2>3. Kept(g, p, id, ops, n)
    BY <1>1, <2>1, <2>2
  <2> HIDE DEF T
  <2> DEFINE k == n + 1
  <2>4. k \in 1 .. Len(ops) /\ k - 1 = n
    BY <2>2
  <2> HIDE DEF k
  <2>5. Heard(sem, g[k - 1].m) /\ Heard(sem, g[n].m)
    BY Zenon, <2>3, <2>4 DEF Kept
  <2>6. Makes(g[k - 1], g[k], p, id, ops[k]) /\ Heard(sem, g[k].m)
    BY <1>4, <2>4, <2>5
  <2>7. ASSUME Going(g[k]) PROVE Values(g[k].m, id, ops, k) /\ Accounts(g[k].u, p, id, ops, k)
    <3>1. Forth(g[k - 1], g[k], id, ops[k])
      BY <1>2, <2>4
    <3>2. Going(g[k - 1])
      BY Zenon, <2>7, <3>1 DEF Forth
    <3>3. Values(g[k - 1].m, id, ops, k - 1) /\ Accounts(g[k - 1].u, p, id, ops, k - 1)
      BY Zenon, <2>3, <2>4, <3>2 DEF Kept
    <3>4. /\ Changed(g[k - 1], g[k], p, id, ops[k])
          /\ \A j \in Sema : g[k].m[j].semval = g[k - 1].m[j].semval + Added(id, ops[k], j)
      BY Zenon, <2>6, <2>7, <3>1, <3>2 DEF Forth, Makes
    <3> DEFINE a == g[k - 1].m
               b == g[k].m
               old == g[k - 1]
               new == g[k]
    <3>5. /\ Values(a, id, ops, k - 1) /\ Accounts(old.u, p, id, ops, k - 1)
          /\ Changed(old, new, p, id, ops[k])
          /\ \A j \in Sema : b[j].semval = a[j].semval + Added(id, ops[k], j)
      BY Zenon, <3>3, <3>4
    <3> HIDE DEF a, b, old, new
    <3>6. Values(b, id, ops, k)
      BY <1>1, <2>4, <3>5, ValuesStep
    <3>7. Accounts(new.u, p, id, ops, k)
      BY <1>1, <2>4, <3>5, AccountsStep
    <3> QED
      BY Zenon, <3>6, <3>7 DEF b, new
  <2>8. Kept(g, p, id, ops, k)
    BY Zenon, <2>6, <2>7 DEF Kept
  <2> QED
    BY <2>8 DEF k
<1>7. T \in SUBSET Nat
  OBVIOUS
<1> HIDE DEF T
<1>8. T = Nat
  BY <1>5, <1>6, <1>7, Upwards
<1>9. \A n \in 0 .. Len(ops) : Kept(g, p, id, ops, n)
  <2>1. \A k \in 0 .. Len(ops) : k \in Nat /\ k <= Len(ops)
    BY <1>1
  <2> QED
    BY <1>8, <2>1 DEF T
<1>10. ASSUME NEW n \in 1 .. Len(ops) PROVE Makes(g[n - 1], g[n], p, id, ops[n])
  <2>1. n - 1 \in 0 .. Len(ops)
    BY <1>1
  <2>2. Heard(sem, g[n - 1].m)
    BY Zenon, <1>9, <2>1 DEF Kept
  <2> QED
    BY <1>4, <2>2
<1> QED
  BY <1>9, <1>10

(* A pass that stopped holds what it held before the operation it stopped  *)
(* at; if it is to sleep, it must wait there.                              *)
StoppedAt(g, id, ops, k) ==
  ~Going(g[k]) => /\ g[k].u = g[g[k].n].u
                  /\ Stopped(g[k]) => MustWait(g[g[k].n], id, ops[g[k].n + 1])

LEMMA StopIs ==
  ASSUME NEW K, NEW p, NEW id, NEW ops, Ready(K, p, id, ops), sema[SlotOf(id)].base \in Int,
         NEW g, States(g, p, id, ops)
  PROVE  \A k \in 0 .. Len(ops) : StoppedAt(g, id, ops, k)
<1>1. /\ g[0] = Begin
      /\ \A k \in 0 .. Len(ops) : g[k] \in Forward(K) /\ Reached(g, k)
      /\ \A k \in 1 .. Len(ops) : Forth(g[k - 1], g[k], id, ops[k])
  BY Forwards
<1>2. \A n \in 1 .. Len(ops) : Makes(g[n - 1], g[n], p, id, ops[n])
  BY PassMore
<1>3. Len(ops) \in Nat /\ Going(Begin)
  <2>1. Len(ops) \in Nat
    BY DEF Ready
  <2>2. Going(Begin)
    BY BeginForward
  <2> QED
    BY <2>1, <2>2
<1> DEFINE T == {k \in Nat : k <= Len(ops) => StoppedAt(g, id, ops, k)}
<1>4. 0 \in T
  BY <1>1, <1>3 DEF StoppedAt
<1>5. ASSUME NEW n \in T PROVE n + 1 \in T
  <2>1. SUFFICES ASSUME n + 1 <= Len(ops) PROVE StoppedAt(g, id, ops, n + 1)
    OBVIOUS
  <2>2. n \in Nat /\ n + 1 \in 1 .. Len(ops) /\ (n + 1) - 1 = n /\ n \in 0 .. Len(ops)
    BY <1>3, <2>1
  <2>3. StoppedAt(g, id, ops, n)
    BY <1>3, <2>1, <2>2
  <2> HIDE DEF T
  <2> DEFINE k == n + 1
  <2>4. k \in 1 .. Len(ops) /\ k - 1 = n
    BY <2>2
  <2>5. Forth(g[n], g[k], id, ops[k]) /\ Makes(g[n], g[k], p, id, ops[k]) /\ Reached(g, n)
    BY <1>1, <1>2, <2>2, <2>4
  <2>6. CASE ~Going(g[n])
    <3>1. g[k] = g[n]
      BY Zenon, <2>5, <2>6 DEF Forth
    <3> HIDE DEF k
    <3> QED
      BY Zenon, <2>3, <3>1 DEF StoppedAt, k
  <2>7. CASE Going(g[n])
    <3>1. g[n].n = n
      BY Zenon, <2>5, <2>7 DEF Reached
    <3>2. ~Going(g[k]) => g[k].n = n /\ g[k].u = g[n].u /\ (Stopped(g[k]) => MustWait(g[n], id, ops[k]))
      BY Zenon, <2>5, <2>7, <3>1 DEF Forth, Makes
    <3> QED
      BY Zenon, <3>2 DEF StoppedAt
  <2> QED
    BY <2>6, <2>7
<1>6. T \in SUBSET Nat
  OBVIOUS
<1> HIDE DEF T
<1>7. T = Nat
  BY <1>4, <1>5, <1>6, Upwards
<1>8. \A k \in 0 .. Len(ops) : k \in Nat /\ k <= Len(ops)
  BY <1>3
<1> QED
  BY <1>7, <1>8 DEF T

(* semundo() leaves what is owed as the pass found it.                     *)
Owing(u, v, p) ==
  /\ \A q \in Proc : q # p => u[q] = v[q]
  /\ \A k \in Key : Owes(u[p].ent, k) = Owes(v[p].ent, k)

LEMMA BackMore ==
  ASSUME NEW K, NEW p, NEW id, NEW ops, Ready(K, p, id, ops), sema[SlotOf(id)].base \in Int,
         NEW g, States(g, p, id, ops), NEW st, st = g[Len(ops)], ~Going(st),
         NEW h, Backs(h, st, p, id, ops)
  PROVE  Owing(h[st.n].u, undo, p)
<1> DEFINE n == st.n
<1>1. /\ Len(ops) \in Nat /\ Len(ops) \in 0 .. Len(ops) /\ K \in SUBSET Key /\ undo \in Tables(K)
      /\ p \in Proc /\ IsFiniteSet(Proc) /\ ops \in Seq(Sembuf)
  BY DEF Ready
<1>2. /\ \A k \in 0 .. Len(ops) : g[k] \in Forward(K) /\ Reached(g, k)
      /\ \A k \in 1 .. Len(ops) : Forth(g[k - 1], g[k], id, ops[k])
  BY Forwards
<1>3. n \in Nat /\ n < Len(ops) /\ st \in Carried(K)
  BY <1>1, <1>2, Backwards DEF Forward
<1>4. /\ \A k \in 0 .. Len(ops) : Kept(g, p, id, ops, k)
      /\ \A k \in 1 .. Len(ops) : Makes(g[k - 1], g[k], p, id, ops[k])
  BY PassMore
<1>5. st.u = g[n].u /\ \A i \in 0 .. n : Going(g[i])
  <2>1. StoppedAt(g, id, ops, Len(ops)) /\ Reached(g, Len(ops))
    BY <1>1, <1>2, StopIs
  <2> QED
    BY Zenon, <2>1 DEF StoppedAt, Reached
<1>6. h[0] = st /\ \A k \in 1 .. n : h[k] = TakenBack(h[k - 1], p, id, ops[n - k + 1])
  <2>1. \A k \in 0 .. n : h[k] = IF k = 0 THEN st ELSE TakenBack(h[k - 1], p, id, ops[n - k + 1])
    BY DEF Backs
  <2>2. \A k \in 1 .. n : k \in 0 .. n /\ k # 0
    OBVIOUS
  <2>3. 0 \in 0 .. n
    BY <1>3
  <2> HIDE DEF n
  <2> QED
    BY <2>1, <2>2, <2>3
<1> HIDE DEF n
<1>7. \A i \in 0 .. n : Accounts(g[i].u, p, id, ops, i) /\ g[i].u \in Tables(K)
  <2>1. ASSUME NEW i \in 0 .. n PROVE Accounts(g[i].u, p, id, ops, i) /\ g[i].u \in Tables(K)
    <3>1. i \in 0 .. Len(ops)
      BY <1>1, <1>3
    <3>2. Kept(g, p, id, ops, i) /\ Going(g[i]) /\ g[i] \in Forward(K)
      BY Zenon, <1>2, <1>4, <1>5, <3>1
    <3> QED
      BY <3>2 DEF Kept, Forward, Carried
  <2> QED
    BY <2>1
<1>8. ASSUME NEW i \in 1 .. n
      PROVE  /\ Changed(g[i - 1], g[i], p, id, ops[i])
             /\ ops[i].undo /\ ops[i].op # 0 => Abs(ops[i].op) <= SEMAEM
  <2>1. i \in 1 .. Len(ops) /\ i \in 0 .. n /\ i - 1 \in 0 .. n
    BY <1>1, <1>3
  <2>2. Makes(g[i - 1], g[i], p, id, ops[i]) /\ Going(g[i - 1]) /\ Going(g[i])
    BY <1>4, <1>5, <2>1
  <2>3. Changed(g[i - 1], g[i], p, id, ops[i]) /\ ~Refused(g[i - 1], p, id, ops[i])
    BY Zenon, <2>2 DEF Makes
  <2>4. ops[i].undo /\ ops[i].op # 0 => ~(Abs(ops[i].op) > SEMAEM)
    BY Zenon, <2>3 DEF Refused, AoeRefused
  <2>5. ops[i].op \in Int /\ SEMAEM \in Int
    <3>1. ops[i] \in Sembuf
      BY <1>1, <2>1
    <3> QED
      BY <3>1, SembufIs, Constants
  <2> QED
    BY <2>3, <2>4, <2>5 DEF Abs
<1> DEFINE Same(k) == /\ h[k] \in Carried(K) /\ Owing(h[k].u, g[n - k].u, p)
                      /\ \A i \in 1 .. n : ops[i].undo /\ ops[i].op # 0 => h[k].u[p].has
           T == {k \in Nat : k <= n => Same(k)}
<1>9. 0 \in T
  <2>1. n - 0 = n /\ n \in 0 .. n
    BY <1>3
  <2>2. \A i \in 1 .. n : ops[i].undo /\ ops[i].op # 0 => g[n].u[p].has
    BY Zenon, <1>7, <2>1 DEF Accounts
  <2>3. Same(0)
    BY Zenon, <1>3, <1>5, <1>6, <2>1, <2>2 DEF Owing
  <2> HIDE DEF Same
  <2> QED
    BY <2>3
<1>10. ASSUME NEW k \in T PROVE k + 1 \in T
  <2> HIDE DEF Same
  <2>1. SUFFICES ASSUME k + 1 <= n PROVE Same(k + 1)
    OBVIOUS
  <2>2. k \in Nat /\ k <= n /\ Same(k)
    BY <1>3, <2>1
  <2> HIDE DEF T
  <2> DEFINE i == n - k
             b == g[i - 1].u[p].ent
             new == h[k + 1]
             s == h[k]
             op == ops[i]
  <2>3. /\ i \in Nat /\ i \in 1 .. n /\ i \in 1 .. Len(ops) /\ i - 1 = n - (k + 1)
        /\ k + 1 \in 1 .. n /\ (k + 1) - 1 = k /\ n - (k + 1) + 1 = i /\ i - 1 \in 0 .. n /\ i \in 0 .. n
    BY <1>1, <1>3, <2>1, <2>2
  <2>4. new = TakenBack(s, p, id, op)
    BY <1>6, <2>3
  <2>5. /\ s \in Carried(K) /\ Owing(s.u, g[i].u, p)
        /\ \A j \in 1 .. n : ops[j].undo /\ ops[j].op # 0 => s.u[p].has
    BY Zenon, <2>2 DEF Same
  <2> HIDE DEF i
  <2>6. op \in Sembuf /\ op \in Operation(K, id) /\ <<id, op.num>> \in K
    <3>1. op \in Operation(K, id)
      BY <2>3, ReadyOp
    <3> QED
      BY <3>1 DEF Operation
  <2>7. b \in Lists(K)
    <3>1. g[i - 1].u \in Tables(K)
      BY Zenon, <1>7, <2>3
    <3>2. g[i - 1].u[p] \in Structure(K)
      BY <1>1, <3>1 DEF Tables
    <3> QED
      BY <3>2 DEF Structure
  <2>8. \A x \in Key : Owes(s.u[p].ent, x) = Owes(b, x) - Charge(id, op, x)
    BY Zenon, <1>8, <2>3, <2>5 DEF Owing, Changed
  <2>9. op.undo /\ op.op # 0 => s.u[p].has /\ Abs(op.op) <= SEMAEM
    BY Zenon, <1>8, <2>3, <2>5
  <2> HIDE DEF new, s, b, op
  <2>10. /\ \A x \in Key : Owes(new.u[p].ent, x) = Owes(b, x)
         /\ \A q \in Proc : q # p => new.u[q] = s.u[q]
         /\ s.u[p].has => new.u[p].has
    BY <1>1, <2>4, <2>5, <2>6, <2>7, <2>8, <2>9, TakenBackMore
  <2>11. new \in Carried(K)
    <3>1. \A o \in Operation(K, id), x \in Carried(K) : TakenBack(x, p, id, o) \in Carried(K)
      BY TakenBackOf
    <3> QED
      BY Zenon, <2>4, <2>5, <2>6, <3>1
  <2>12. Owing(new.u, g[i - 1].u, p)
    <3>1. \A q \in Proc : q # p => g[i - 1].u[q] = g[i].u[q]
      BY Zenon, <1>8, <2>3 DEF Changed
    <3> QED
      BY Zenon, <2>5, <2>10, <3>1 DEF Owing, b
  <2>13. \A j \in 1 .. n : ops[j].undo /\ ops[j].op # 0 => new.u[p].has
    BY Zenon, <2>5, <2>10
  <2> QED
    BY Zenon, <2>3, <2>11, <2>12, <2>13 DEF Same, new
<1>11. T \in SUBSET Nat
  OBVIOUS
<1> HIDE DEF T
<1>12. T = Nat
  BY <1>9, <1>10, <1>11, Upwards
<1> HIDE DEF Same
<1>13. Same(n)
  <2>1. n <= n
    BY <1>3
  <2> QED
    BY <1>3, <1>12, <2>1 DEF T
<1>14. Owing(h[n].u, g[0].u, p)
  <2>1. n - n = 0
    BY <1>3
  <2> QED
    BY Zenon, <1>13, <2>1 DEF Same
<1>15. g[0].u = undo
  <2>1. g[0] = Begin
    BY Forwards
  <2>2. Begin.u = undo
    BY DEF Begin
  <2> QED
    BY <2>1, <2>2
<1> QED
  BY Zenon, <1>14, <1>15 DEF n

(* What operation k of a vector finds, and when it must wait.              *)
Meets(id, ops, k) == sem[Semp(id, ops[k].num)].semval + Sum(ops, ops[k].num)[k - 1]
Served(id, ops, k) ==
  /\ ops[k].op = 0 => Meets(id, ops, k) = 0
  /\ ops[k].op < 0 => Meets(id, ops, k) + ops[k].op >= 0
  /\ ops[k].op > 0 => Meets(id, ops, k) + ops[k].op <= SEMVMX
Blocks(id, ops, k) ==
  IF ops[k].op = 0 THEN Meets(id, ops, k) # 0 ELSE ops[k].op < 0 /\ Meets(id, ops, k) + ops[k].op < 0

LEMMA MeetsIs ==
  ASSUME NEW K, NEW p, NEW id, NEW ops, Ready(K, p, id, ops), NEW k \in 1 .. Len(ops)
  PROVE  /\ ops[k].op \in Int /\ ops[k].num \in Nat /\ Semp(id, ops[k].num) \in Sema
         /\ Meets(id, ops, k) \in Int
         /\ \A m : Values(m, id, ops, k - 1) => m[Semp(id, ops[k].num)].semval = Meets(id, ops, k)
<1>1. ops[k] \in Operation(K, id) /\ sem \in Mem /\ ops \in Seq(Sembuf) /\ Len(ops) \in Nat
  BY ReadyOp DEF Ready
<1>2. ops[k] \in Sembuf /\ Semp(id, ops[k].num) \in Sema
  BY <1>1 DEF Operation
<1>3. ops[k].op \in Int /\ ops[k].num \in Nat
  BY <1>2, SembufIs
<1>4. k - 1 \in 0 .. Len(ops)
  BY <1>1
<1>5. Sum(ops, ops[k].num)[k - 1] \in Int /\ sem[Semp(id, ops[k].num)].semval \in Int
  BY <1>1, <1>2, <1>4, SumIs, MemInt
<1>6. Meets(id, ops, k) \in Int
  BY <1>5 DEF Meets
<1>7. \A m : Values(m, id, ops, k - 1) => m[Semp(id, ops[k].num)].semval = Meets(id, ops, k)
  BY Zenon, <1>2, <1>3 DEF Values, Meets
<1> QED
  BY <1>2, <1>3, <1>6, <1>7

(* What a pass does: all of its vector, or nothing.                        *)
LEMMA PassDoes ==
  ASSUME NEW K, NEW p, NEW id, NEW ops, Ready(K, p, id, ops), sema[SlotOf(id)].base \in Int,
         NEW st, st = Pass(p, id, ops)
  PROVE  /\ Heard(sem, st.m)
         /\ Going(st) => /\ Values(st.m, id, ops, Len(ops)) /\ Accounts(st.u, p, id, ops, Len(ops))
                         /\ \A k \in 1 .. Len(ops) : Served(id, ops, k)
         /\ ~Going(st) => Owing(st.u, undo, p)
         /\ Stopped(st) => st.n + 1 \in 1 .. Len(ops) /\ Blocks(id, ops, st.n + 1)
<1>1. PICK g : /\ States(g, p, id, ops)
               /\ st = IF Going(g[Len(ops)]) THEN g[Len(ops)]
                       ELSE Semundo(g[Len(ops)], p, id, ops)
  BY PassIs
<1> DEFINE end == g[Len(ops)]
<1>2. Len(ops) \in Nat /\ Len(ops) \in 0 .. Len(ops) /\ sem \in Mem
  BY DEF Ready
<1>3. /\ \A k \in 0 .. Len(ops) : g[k] \in Forward(K) /\ Reached(g, k)
      /\ \A k \in 1 .. Len(ops) : Forth(g[k - 1], g[k], id, ops[k])
  BY <1>1, Forwards
<1>4. /\ \A k \in 0 .. Len(ops) : Kept(g, p, id, ops, k)
      /\ \A k \in 1 .. Len(ops) : Makes(g[k - 1], g[k], p, id, ops[k])
  BY <1>1, PassMore
<1>5. Kept(g, p, id, ops, Len(ops)) /\ Reached(g, Len(ops)) /\ end \in Forward(K) /\ end \in Carried(K)
  BY <1>2, <1>3, <1>4 DEF Forward
<1>6. CASE Going(end)
  <2>1. st = end
    BY <1>1, <1>6
  <2>2. \A i \in 0 .. Len(ops) : Going(g[i])
    BY Zenon, <1>5, <1>6 DEF Reached
  <2>3. ASSUME NEW k \in 1 .. Len(ops) PROVE Served(id, ops, k)
    <3>1. k \in 0 .. Len(ops) /\ k - 1 \in 0 .. Len(ops)
      BY <1>2
    <3>2. /\ Going(g[k - 1]) /\ Going(g[k]) /\ Makes(g[k - 1], g[k], p, id, ops[k])
          /\ Kept(g, p, id, ops, k - 1)
      BY <1>4, <2>2, <3>1
    <3>3. /\ Values(g[k - 1].m, id, ops, k - 1)
          /\ ~MustWait(g[k - 1], id, ops[k]) /\ ~Refused(g[k - 1], p, id, ops[k])
      BY Zenon, <3>2 DEF Kept, Makes
    <3> DEFINE v == g[k - 1].m[Semp(id, ops[k].num)].semval
    <3>4. /\ v = Meets(id, ops, k) /\ Meets(id, ops, k) \in Int /\ ops[k].op \in Int
      <4>1. /\ Meets(id, ops, k) \in Int /\ ops[k].op \in Int
            /\ \A m : Values(m, id, ops, k - 1) => m[Semp(id, ops[k].num)].semval = Meets(id, ops, k)
        BY MeetsIs
      <4> QED
        BY Zenon, <3>3, <4>1
    <3>5. /\ ops[k].op = 0 => v = 0
          /\ ops[k].op < 0 => ~(v < -ops[k].op)
          /\ ops[k].op > 0 => ~(v + ops[k].op > SEMVMX)
      BY <3>3, <3>4 DEF MustWait, Refused
    <3>6. SEMVMX \in Int
      BY Constants
    <3> HIDE DEF v
    <3> QED
      BY <3>4, <3>5, <3>6 DEF Served
  <2>4. /\ Heard(sem, end.m) /\ Values(end.m, id, ops, Len(ops)) /\ Accounts(end.u, p, id, ops, Len(ops))
    BY Zenon, <1>5, <1>6 DEF Kept
  <2>5. ~Stopped(end)
    BY Zenon, <1>6, WhyIs DEF Going, Stopped
  <2> QED
    BY Zenon, <1>6, <2>1, <2>3, <2>4, <2>5
<1>7. CASE ~Going(end)
  <2>1. st = Semundo(end, p, id, ops)
    BY <1>1, <1>7
  <2>2. end.n \in Nat /\ end.n < Len(ops)
    <3>1. end.n \in Nat
      BY <1>5 DEF Carried
    <3> QED
      BY <1>5, <1>7, <3>1 DEF Reached
  <2>3. end = g[Len(ops)] /\ StoppedAt(g, id, ops, Len(ops))
    BY <1>1, <1>2, StopIs
  <2> HIDE DEF end
  <2>4. end.n <= Len(ops)
    BY <1>2, <2>2
  <2>5. PICK h : Backs(h, end, p, id, ops) /\ st = h[end.n]
    BY <1>5, <2>1, <2>4, SemundoIs
  <2>6. /\ st.n = end.n /\ st.why = end.why /\ ~Going(st)
        /\ \A j \in Sema : st.m[j].semval = sem[j].semval
    BY <1>1, <1>7, <2>3, <2>5, Backwards
  <2>7. Owing(st.u, undo, p)
    BY <1>1, <1>7, <2>3, <2>5, BackMore
  <2>8. Heard(sem, st.m)
    <3>1. \A j \in Sema : sem[j].semval \in Int
      BY <1>2, MemInt
    <3>2. \A v \in Int : ~(v > v)
      OBVIOUS
    <3> QED
      BY Zenon, <2>6, <3>1, <3>2 DEF Heard, Concerns
  <2>9. ASSUME Stopped(st) PROVE st.n + 1 \in 1 .. Len(ops) /\ Blocks(id, ops, st.n + 1)
    <3> DEFINE n == end.n
               k == n + 1
    <3>1. n \in 0 .. Len(ops) /\ k \in 1 .. Len(ops) /\ k - 1 = n /\ n \in 0 .. n
      BY <1>2, <2>2
    <3>2. Going(g[n])
      BY <1>5, <1>7, <2>3, <3>1 DEF Reached
    <3>3. MustWait(g[n], id, ops[k])
      BY Zenon, <1>7, <2>3, <2>6, <2>9 DEF StoppedAt, Stopped
    <3> HIDE DEF k, n
    <3>4. Values(g[k - 1].m, id, ops, k - 1) /\ MustWait(g[k - 1], id, ops[k])
      BY <1>4, <3>1, <3>2, <3>3 DEF Kept
    <3> DEFINE v == g[k - 1].m[Semp(id, ops[k].num)].semval
    <3>5. /\ v = Meets(id, ops, k) /\ Meets(id, ops, k) \in Int /\ ops[k].op \in Int
      <4>1. /\ Meets(id, ops, k) \in Int /\ ops[k].op \in Int
            /\ \A m : Values(m, id, ops, k - 1) => m[Semp(id, ops[k].num)].semval = Meets(id, ops, k)
        BY <3>1, MeetsIs
      <4> QED
        BY Zenon, <3>4, <4>1
    <3>6. IF ops[k].op = 0 THEN v # 0 ELSE ops[k].op < 0 /\ v < -ops[k].op
      BY <3>4 DEF MustWait
    <3> HIDE DEF v
    <3>7. Blocks(id, ops, k)
      BY <3>5, <3>6 DEF Blocks
    <3> QED
      BY <2>6, <3>1, <3>7 DEF k, n
  <2> QED
    BY Zenon, <2>6, <2>7, <2>8, <2>9
<1> QED
  BY <1>6, <1>7

(* A pass that ends is a vector performed, or given up, or waited for at   *)
(* an operation that must wait.                                            *)
KindOf(op) == IF op.op = 0 THEN "semzcnt" ELSE "semncnt"
CallOf(id, ops, k) == [id |-> id, ops |-> ops, semp |-> Semp(id, ops[k].num), kind |-> KindOf(ops[k])]

Performed(p, id, ops) ==
  /\ Values(sem', id, ops, Len(ops)) /\ Accounts(undo', p, id, ops, Len(ops))
  /\ \A k \in 1 .. Len(ops) : Served(id, ops, k)
  /\ frame' = [frame EXCEPT ![p] = NoCall]
Waits(p, id, ops, k) == frame' = [frame EXCEPT ![p] = CallOf(id, ops, k)] /\ Blocks(id, ops, k)
Declined(p, id, ops) ==
  /\ \A j \in Sema : sem'[j].semval = sem[j].semval
  /\ Owing(undo', undo, p)
  /\ \/ frame' = [frame EXCEPT ![p] = NoCall]
     \/ \E k \in 1 .. Len(ops) : Waits(p, id, ops, k)

LEMMA HeardSame ==
  ASSUME NEW a \in Mem, NEW b, \A j \in Sema : b[j].semval = a[j].semval
  PROVE  Heard(a, b)
<1>1. \A j \in Sema : a[j].semval \in Int
  BY MemInt
<1>2. \A v \in Int : ~(v > v)
  OBVIOUS
<1> QED
  BY Zenon, <1>1, <1>2 DEF Heard, Concerns

LEMMA AttemptDoes ==
  ASSUME SemInv, NEW p \in Proc, NEW id \in Nat, NEW ops \in Vector, Valid(id, ops), Attempt(p, id, ops)
  PROVE  /\ sema' = sema /\ Heard(sem, sem')
         /\ Performed(p, id, ops) \/ Declined(p, id, ops)
         /\ \A q \in Proc : q # p => frame'[q] = frame[q] /\ (Asleep(pc', q) => Asleep(pc, q))
<1> DEFINE st == Pass(p, id, ops)
           x == Wakeup(st.woken)
           stopped == ops[st.n + 1]
           k == IF stopped.op = 0 THEN "semzcnt" ELSE "semncnt"
           i == Semp(id, stopped.num)
<1>1. Ready(Keys, p, id, ops)
  BY ReadyHere
<1>2. /\ undo' = st.u /\ sema' = sema
      /\ \/ sem' = st.m /\ Return(p, x)
         \/ /\ Stopped(st)
            /\ sem' = [st.m EXCEPT ![i][k] = @ + 1]
            /\ pc' = [x EXCEPT ![p] = "asleep"]
            /\ frame' = [frame EXCEPT ![p] = [id |-> id, ops |-> ops, semp |-> i, kind |-> k]]
  BY Zenon DEF Attempt, Stopped
<1>3. k = KindOf(stopped) /\ k \in Kind
  BY DEF KindOf, Kind
<1> HIDE DEF k
<1>4. /\ st \in Forward(Keys)
      /\ ~Going(st) => /\ st.n + 1 \in DOMAIN ops
                        /\ \A j \in Sema : st.m[j].semval = sem[j].semval
  BY <1>1, PassKeeps
<1>5. sema[SlotOf(id)].base \in Int
  <2>1. sema[SlotOf(id)].base \in Nat
    BY MemberIs DEF Valid, SemInv
  <2> QED
    BY <2>1
<1>6. /\ Heard(sem, st.m)
      /\ Going(st) => /\ Values(st.m, id, ops, Len(ops)) /\ Accounts(st.u, p, id, ops, Len(ops))
                      /\ \A j \in 1 .. Len(ops) : Served(id, ops, j)
      /\ ~Going(st) => Owing(st.u, undo, p)
      /\ Stopped(st) => st.n + 1 \in 1 .. Len(ops) /\ Blocks(id, ops, st.n + 1)
  BY <1>1, <1>5, PassDoes
<1> HIDE DEF st
<1>7. st.m \in Mem /\ sem \in Mem /\ pc \in [Proc -> Where] /\ frame \in [Proc -> Frame \cup {NoCall}]
  BY <1>4 DEF Forward, Carried, SemInv, Calls
<1>8. \A q \in Proc : /\ Idle(x, q) <=> Idle(pc, q)
                      /\ Asleep(x, q) => Asleep(pc, q)
  BY <1>7, WakeupOne
<1>9. x \in [Proc -> Where]
  BY <1>7, WakeupIs
<1> HIDE DEF x
<1>10. CASE sem' = st.m /\ Return(p, x)
  <2>1. pc' = [x EXCEPT ![p] = "user"] /\ frame' = [frame EXCEPT ![p] = NoCall]
    BY Zenon, <1>10 DEF Return
  <2>2. \A q \in Proc : q # p => pc'[q] = x[q] /\ frame'[q] = frame[q]
    BY <1>7, <1>9, <2>1
  <2>3. \A q \in Proc : q # p => frame'[q] = frame[q] /\ (Asleep(pc', q) => Asleep(pc, q))
    BY Zenon, <1>8, <2>2 DEF Asleep
  <2>4. ASSUME Going(st) PROVE Performed(p, id, ops)
    BY Zenon, <1>2, <1>6, <1>10, <2>1, <2>4 DEF Performed
  <2>5. ASSUME ~Going(st) PROVE Declined(p, id, ops)
    BY Zenon, <1>2, <1>4, <1>6, <1>10, <2>1, <2>5 DEF Declined
  <2> QED
    BY Zenon, <1>2, <1>6, <1>10, <2>3, <2>4, <2>5
<1>11. CASE ~(sem' = st.m /\ Return(p, x))
  <2>1. /\ Stopped(st) /\ sem' = [st.m EXCEPT ![i][k] = @ + 1]
        /\ pc' = [x EXCEPT ![p] = "asleep"]
        /\ frame' = [frame EXCEPT ![p] = [id |-> id, ops |-> ops, semp |-> i, kind |-> k]]
    BY Zenon, <1>2, <1>11
  <2>2. \A q \in Proc : q # p => pc'[q] = x[q] /\ frame'[q] = frame[q]
    BY <1>7, <1>9, <2>1
  <2>3. \A q \in Proc : q # p => frame'[q] = frame[q] /\ (Asleep(pc', q) => Asleep(pc, q))
    BY Zenon, <1>8, <2>2 DEF Asleep
  <2>4. ~Going(st)
    BY Zenon, <2>1, WhyIs DEF Going, Stopped
  <2>5. st.n + 1 \in 1 .. Len(ops) /\ Blocks(id, ops, st.n + 1) /\ Owing(undo', undo, p)
    BY Zenon, <1>2, <1>6, <2>1, <2>4
  <2>6. frame' = [frame EXCEPT ![p] = CallOf(id, ops, st.n + 1)]
    BY Zenon, <1>3, <2>1 DEF CallOf
  <2>7. i \in Sema
    <3>1. ops[st.n + 1] \in Operation(Keys, id)
      BY <1>1, <2>5, ReadyOp
    <3> QED
      BY <3>1 DEF Operation
  <2> HIDE DEF i
  <2>8. \A j \in Sema : sem'[j].semval = sem[j].semval
    <3>1. sem' = [st.m EXCEPT ![i][k] = st.m[i][k] + 1]
      BY <2>1
    <3>2. st.m[i][k] + 1 \in Int
      BY <1>3, <1>7, <2>7, MemInt
    <3>3. \A j \in Sema, f \in Field : sem'[j][f] = IF j = i /\ f = k THEN st.m[i][k] + 1 ELSE st.m[j][f]
      BY SMTT(30), <1>3, <1>7, <2>7, <3>1, <3>2, CountIs
    <3>4. "semval" \in Field /\ k # "semval"
      BY <1>3 DEF Field, Kind
    <3>5. \A j \in Sema : sem'[j].semval = st.m[j].semval
      BY Zenon, <3>3, <3>4
    <3> QED
      BY Zenon, <1>4, <2>4, <3>5
  <2>9. Declined(p, id, ops)
    BY Zenon, <2>5, <2>6, <2>8 DEF Declined, Waits
  <2>10. Heard(sem, sem')
    BY <1>7, <2>8, HeardSame
  <2> QED
    BY Zenon, <1>2, <2>3, <2>9, <2>10
<1> QED
  BY <1>10, <1>11

------------------------------------------------------------------------------
(* A sleeper could not perform its vector: an operation of it must wait on *)
(* the semaphore where the process sleeps.  Who changes its value wakes it *)
(* if it waits for such a change; that is enough for a vector that does    *)
(* not lower a semaphore before it waits for zero there: the value that    *)
(* operation waits for is then zero.                                       *)
NoDips == \A ops \in Vector : \A k \in DOMAIN ops : ops[k].op = 0 => Sum(ops, ops[k].num)[k - 1] >= 0

Finds(v, ops, k) == v + Sum(ops, ops[k].num)[k - 1]
Holds(f, v, ops, k) ==
  IF f = "semncnt" THEN ops[k].op < 0 /\ Finds(v, ops, k) + ops[k].op < 0
                   ELSE ops[k].op = 0 /\ Finds(v, ops, k) # 0
Stuck(r, v) ==
  \E k \in 1 .. Len(r.ops) : r.semp = Semp(r.id, r.ops[k].num) /\ Holds(r.kind, v, r.ops, k)
Blocked(m, x, f) == \A p \in Proc : Asleep(x, p) => Stuck(f[p], m[f[p].semp].semval)

LEMMA VectorIs ==
  ASSUME NEW ops \in Vector
  PROVE  ops \in Seq(Sembuf) /\ Len(ops) \in Nat /\ DOMAIN ops = 1 .. Len(ops)
<1>1. ops \in Seq(Sembuf)
  BY SemAssumption
<1> QED
  BY <1>1

LEMMA HoldsKept ==
  ASSUME NEW ops \in Vector, NEW k \in 1 .. Len(ops), NEW f, NEW a \in Nat, NEW b \in Nat,
         Holds(f, a, ops, k), ~Concerns(f, a, b), NoDips
  PROVE  Holds(f, b, ops, k)
<1> DEFINE s == Sum(ops, ops[k].num)[k - 1]
           o == ops[k].op
<1>1. ops \in Seq(Sembuf) /\ Len(ops) \in Nat /\ DOMAIN ops = 1 .. Len(ops)
  BY VectorIs
<1>2. s \in Int
  <2>1. k - 1 \in 0 .. Len(ops)
    BY <1>1
  <2> QED
    BY <1>1, <2>1, SumIs
<1>3. o \in Int
  <2>1. ops[k] \in Sembuf
    BY <1>1
  <2> QED
    BY <2>1, SembufIs
<1>4. o = 0 => s >= 0
  BY <1>1 DEF NoDips
<1>5. /\ f = "semncnt" => o < 0 /\ a + s + o < 0 /\ ~(b > a)
      /\ f # "semncnt" => o = 0 /\ a + s # 0 /\ ~(b = 0 /\ a # 0)
  BY DEF Holds, Finds, Concerns
<1> HIDE DEF s, o
<1>6. /\ f = "semncnt" => o < 0 /\ b + s + o < 0
      /\ f # "semncnt" => o = 0 /\ b + s # 0
  BY <1>2, <1>3, <1>4, <1>5
<1> QED
  BY <1>6 DEF Holds, Finds, s, o

(* Sleepers that were asleep before a step that leaves the headers alone.  *)
LEMMA BlockedKept ==
  ASSUME SemInv, NoDips, Blocked(sem, pc, frame), NEW m \in Mem, InRange(m), Heard(sem, m),
         NEW x, NEW f, Calls(x, f), Counts(m, x, f), NEW q \in Proc, Asleep(x, q),
         Asleep(pc, q), f[q] = frame[q]
  PROVE  Stuck(f[q], m[f[q].semp].semval)
<1> DEFINE r == frame[q]
           i == r.semp
           a == sem[i].semval
           b == m[i].semval
<1>1. pc \in [Proc -> Where] /\ ~Idle(pc, q) /\ Calls(pc, frame)
  <2>1. Calls(pc, frame)
    BY DEF SemInv
  <2> QED
    BY <2>1, Places DEF Calls
<1>2. r \in Frame /\ r.semp \in Sema /\ r.kind \in Kind
  BY <1>1, CallIs
<1>3. r.ops \in Vector
  BY <1>2, FrameIs
<1>4. a \in Nat /\ b \in Nat
  <2>1. i \in Sema
    BY <1>2
  <2>2. a \in 0 .. Top /\ b \in 0 .. Top
    BY Zenon, <2>1 DEF SemInv, InRange
  <2> QED
    BY <2>2, TopIs
<1>5. ~Concerns(r.kind, a, b)
  <2>1. m[i][r.kind] > 0
    BY Zenon DEF Counts
  <2>2. Concerns(r.kind, a, b) => m[i][r.kind] = 0
    BY Zenon, <1>2 DEF Heard
  <2> QED
    BY <2>1, <2>2
<1>6. PICK k \in 1 .. Len(r.ops) : r.semp = Semp(r.id, r.ops[k].num) /\ Holds(r.kind, a, r.ops, k)
  BY Zenon DEF Blocked, Stuck
<1> HIDE DEF a, b
<1>7. Holds(r.kind, b, r.ops, k)
  BY <1>3, <1>4, <1>5, <1>6, HoldsKept
<1>8. Stuck(r, b)
  BY Zenon, <1>6, <1>7 DEF Stuck
<1> QED
  BY Zenon, <1>8 DEF b

LEMMA SameBlocked ==
  ASSUME sema' = sema, Blocked(sem', pc', frame')
  PROVE  Blocked(sem, pc, frame)'
<1>1. \A id, n : Semp(id, n)' = Semp(id, n)
  BY DEF Semp, SlotOf
<1> QED
  BY Zenon, <1>1 DEF Blocked, Stuck

(* What SemInv says of the state after a step.                             *)
LEMMA AfterInv ==
  ASSUME SemInv'
  PROVE  /\ sem' \in Mem /\ InRange(sem') /\ Calls(pc', frame') /\ Counts(sem', pc', frame')
         /\ pc' \in [Proc -> Where]
<1>1. /\ sem' \in Mem /\ InRange(sem') /\ Calls(pc', frame') /\ Counts(sem', pc', frame')
  BY Zenon DEF SemInv
<1> QED
  BY <1>1 DEF Calls

(* One that just fell asleep.                                              *)
LEMMA FallsAsleep ==
  ASSUME NEW K, NEW p, NEW id, NEW ops, Ready(K, p, id, ops), NEW k \in 1 .. Len(ops), Blocks(id, ops, k),
         NEW r, r = CallOf(id, ops, k), NEW m, \A j \in Sema : m[j].semval = sem[j].semval
  PROVE  Stuck(r, m[r.semp].semval)
<1> DEFINE i == Semp(id, ops[k].num)
           v == sem[i].semval
<1>1. /\ r.id = id /\ r.ops = ops /\ r.semp = i /\ r.kind = KindOf(ops[k])
  BY Zenon DEF CallOf
<1>2. /\ ops[k].op \in Int /\ i \in Sema /\ Meets(id, ops, k) \in Int
  BY MeetsIs
<1>3. Meets(id, ops, k) = Finds(v, ops, k)
  BY Zenon DEF Meets, Finds
<1>4. m[r.semp].semval = v
  BY <1>1, <1>2
<1> HIDE DEF i, v
<1>5. /\ KindOf(ops[k]) = "semncnt" <=> ops[k].op # 0
      /\ IF ops[k].op = 0 THEN Finds(v, ops, k) # 0 ELSE ops[k].op < 0 /\ Finds(v, ops, k) + ops[k].op < 0
  BY <1>3 DEF KindOf, Blocks
<1>6. Holds(KindOf(ops[k]), v, ops, k)
  BY <1>2, <1>5 DEF Holds
<1> QED
  BY Zenon, <1>1, <1>4, <1>6 DEF Stuck, i

LEMMA AttemptBlocked ==
  ASSUME SemInv, NoDips, Blocked(sem, pc, frame), NEW p \in Proc, Idle(pc, p) \/ Woken(pc, p),
         NEW id \in Nat, NEW ops \in Vector, Valid(id, ops), Attempt(p, id, ops)
  PROVE  Blocked(sem, pc, frame)'
<1>1. /\ sema' = sema /\ Heard(sem, sem')
      /\ Performed(p, id, ops) \/ Declined(p, id, ops)
      /\ \A q \in Proc : q # p => frame'[q] = frame[q] /\ (Asleep(pc', q) => Asleep(pc, q))
  BY AttemptDoes
<1>2. /\ sem' \in Mem /\ InRange(sem') /\ Calls(pc', frame') /\ Counts(sem', pc', frame')
      /\ pc' \in [Proc -> Where]
  BY AttemptKeeps, AfterInv
<1>3. ASSUME NEW q \in Proc, Asleep(pc', q) PROVE Stuck(frame'[q], sem'[frame'[q].semp].semval)
  <2>1. CASE q # p
    BY <1>1, <1>2, <1>3, <2>1, BlockedKept
  <2>2. CASE q = p
    <3>1. frame'[p] # NoCall
      <4>1. ~Idle(pc', p)
        BY <1>2, <1>3, <2>2, Places
      <4> QED
        BY Zenon, <1>2, <4>1 DEF Calls
    <3>2. frame \in [Proc -> Frame \cup {NoCall}]
      BY DEF SemInv, Calls
    <3>3. Declined(p, id, ops)
      <4>1. SUFFICES ASSUME Performed(p, id, ops) PROVE FALSE
        BY <1>1
      <4>2. frame' = [frame EXCEPT ![p] = NoCall]
        BY Zenon, <4>1 DEF Performed
      <4> QED
        BY <3>1, <3>2, <4>2
    <3>4. PICK k \in 1 .. Len(ops) : Waits(p, id, ops, k)
      <4>1. frame' # [frame EXCEPT ![p] = NoCall]
        BY <3>1, <3>2
      <4> QED
        BY Zenon, <3>3, <4>1 DEF Declined
    <3>5. frame'[p] = CallOf(id, ops, k) /\ Blocks(id, ops, k) /\ \A j \in Sema : sem'[j].semval = sem[j].semval
      BY <3>2, <3>3, <3>4 DEF Waits, Declined
    <3> DEFINE r == frame'[p]
               m == sem'
    <3>6. r = CallOf(id, ops, k) /\ \A j \in Sema : m[j].semval = sem[j].semval
      BY <3>5
    <3>7. Ready(Keys, p, id, ops)
      BY ReadyHere
    <3> HIDE DEF r, m
    <3>8. Stuck(r, m[r.semp].semval)
      BY <3>5, <3>6, <3>7, FallsAsleep
    <3> QED
      BY <2>2, <3>8 DEF r, m
  <2> QED
    BY <2>1, <2>2
<1>4. Blocked(sem', pc', frame')
  BY Zenon, <1>3 DEF Blocked
<1> QED
  BY <1>1, <1>4, SameBlocked

------------------------------------------------------------------------------
(* What the other calls do to the values, and whom they wake.              *)

(* Who is asleep after a step was asleep before it.                        *)
NobodySleeps ==
  \A q \in Proc : Asleep(pc', q) => Asleep(pc, q) /\ frame'[q] = frame[q]

LEMMA ZeroedValue ==
  ASSUME NEW m \in Mem, NEW C \in SUBSET Channel, NEW w, w = Zeroed(m, C)
  PROVE  \A i \in Sema : w[i].semval = m[i].semval
<1>1. \A i \in Sema : <<i, "semval">> \notin C
  BY DEF Channel, Kind
<1>2. "semval" \in Field
  BY DEF Field
<1> QED
  BY <1>1, <1>2 DEF Zeroed, Mem

LEMMA ZeroedHeard ==
  ASSUME NEW m \in Mem, NEW C \in SUBSET Channel, NEW w, w = Zeroed(m, C),
         \A j \in Sema, f \in Kind : Concerns(f, sem[j].semval, m[j].semval) => <<j, f>> \in C
  PROVE  Heard(sem, w)
<1>1. \A j \in Sema, f \in Kind : w[j][f] = IF <<j, f>> \in C THEN 0 ELSE m[j][f]
  <2>1. Clears(m, w, C)
    BY ZeroedIs
  <2> QED
    BY Zenon, <2>1 DEF Clears
<1>2. \A j \in Sema : w[j].semval = m[j].semval
  BY ZeroedValue
<1>3. ASSUME NEW j \in Sema, NEW f \in Kind, Concerns(f, sem[j].semval, w[j].semval) PROVE w[j][f] = 0
  <2>1. <<j, f>> \in C
    BY Zenon, <1>2, <1>3
  <2> QED
    BY <1>1, <2>1
<1> QED
  BY Zenon, <1>3 DEF Heard

LEMMA StoredIs ==
  ASSUME sem \in Mem, NEW T, NEW F, NEW m, m = Stored(T, F)
  PROVE  \A i \in Sema : m[i].semval = IF i \in T THEN F[i] ELSE sem[i].semval
<1>1. ASSUME NEW i \in Sema PROVE m[i].semval = IF i \in T THEN F[i] ELSE sem[i].semval
  <2>1. sem[i] \in [Field -> Int] /\ "semval" \in Field
    BY DEF Mem, Field
  <2>2. m[i] = IF i \in T THEN [sem[i] EXCEPT !.semval = F[i]] ELSE sem[i]
    BY DEF Stored
  <2> QED
    BY <2>1, <2>2
<1> QED
  BY <1>1

(* A semaphore is of one set, and has one number there.                    *)
LEMMA OneSemp ==
  ASSUME HeadersOK, NEW id1 \in Nat, NEW id2 \in Nat, Live(id1), Live(id2), NEW n1 \in Nums(id1), NEW n2 \in Nums(id2),
         Semp(id1, n1) = Semp(id2, n2)
  PROVE  id1 = id2 /\ n1 = n2
<1>1. Semp(id1, n1) \in Members(id1) /\ Semp(id2, n2) \in Members(id2) /\ n1 \in Nat /\ n2 \in Nat
  BY MemberIs
<1>2. id1 = id2
  BY Zenon, <1>1 DEF HeadersOK
<1>3. sema[SlotOf(id1)].base \in Nat
  BY MemberIs
<1> QED
  BY <1>1, <1>2, <1>3 DEF Semp

LEMMA StoreDoes ==
  ASSUME SemInv, NEW id \in Nat, Live(id), NEW vals, DOMAIN vals \subseteq Nums(id),
         \A n \in DOMAIN vals : vals[n] \in 0 .. Top, Store(id, vals)
  PROVE  /\ sema' = sema /\ frame' = frame /\ NobodySleeps /\ Heard(sem, sem')
         /\ \A n \in Nums(id) :
              sem'[Semp(id, n)].semval = IF n \in DOMAIN vals THEN vals[n] ELSE sem[Semp(id, n)].semval
         /\ \A j \in Sema : j \notin Members(id) => sem'[j].semval = sem[j].semval
<1> DEFINE C == {Concern(Semp(id, n), vals[n]) : n \in DOMAIN vals}
           T == {i \in Sema : \E n \in DOMAIN vals : i = Semp(id, n)}
           F == [i \in Sema |-> vals[i - Semp(id, 0)]]
           stored == [i \in Sema |-> IF \E n \in DOMAIN vals : i = Semp(id, n)
                        THEN [sem[i] EXCEPT !.semval = vals[i - Semp(id, 0)]] ELSE sem[i]]
           m == Stored(T, F)
<1>1. sem' = Zeroed(stored, C) /\ pc' = Wakeup(Waited(sem, C)) /\ sema' = sema /\ frame' = frame
  BY DEF Store
<1>2. stored = m
  BY DEF Stored
<1>3. HeadersOK /\ sem \in Mem /\ pc \in [Proc -> Where]
  BY DEF SemInv, Calls
<1>4. \A n \in Nums(id) : n \in Nat /\ Semp(id, n) \in Sema /\ Semp(id, n) \in Members(id)
  BY <1>3, MemberIs
<1>5. \A n \in DOMAIN vals : F[Semp(id, n)] = vals[n]
  <2>1. ASSUME NEW n \in DOMAIN vals PROVE F[Semp(id, n)] = vals[n]
    <3>1. sema[SlotOf(id)].base \in Nat /\ n \in Nat /\ Semp(id, n) \in Sema
      BY <1>3, <1>4, MemberIs
    <3>2. Semp(id, n) - Semp(id, 0) = n
      BY <3>1 DEF Semp
    <3> QED
      BY <3>1, <3>2
  <2> QED
    BY <2>1
<1>6. \A i \in Sema : i \in T => \E n \in DOMAIN vals : i = Semp(id, n)
  OBVIOUS
<1>7. \A n \in Nums(id) : Semp(id, n) \in T <=> n \in DOMAIN vals
  <2>1. ASSUME NEW n \in Nums(id), Semp(id, n) \in T PROVE n \in DOMAIN vals
    <3>1. PICK k \in DOMAIN vals : Semp(id, n) = Semp(id, k)
      BY <2>1
    <3> HIDE DEF T
    <3> QED
      BY <1>3, <3>1, OneSemp
  <2>2. ASSUME NEW n \in DOMAIN vals PROVE Semp(id, n) \in T
    BY <1>4
  <2> HIDE DEF T
  <2> QED
    BY <2>1, <2>2
<1>8. \A n \in DOMAIN vals : <<Semp(id, n), IF vals[n] = 0 THEN "semzcnt" ELSE "semncnt">> \in C
  BY DEF Concern
<1> HIDE DEF C, T, F, stored
<1>9. m \in Mem
  <2>1. Storable(T, F)
    BY <1>5, <1>6 DEF Storable
  <2> QED
    BY <2>1, SetValues
<1>10. \A i \in Sema : m[i].semval = IF i \in T THEN F[i] ELSE sem[i].semval
  BY <1>3, StoredIs
<1> HIDE DEF m
<1>11. sem' = Zeroed(m, C)
  BY <1>1, <1>2
<1>12. C \in SUBSET Channel
  <2>1. ASSUME NEW n \in DOMAIN vals PROVE Concern(Semp(id, n), vals[n]) \in Channel
    BY <1>4 DEF Concern, Channel, Kind
  <2> QED
    BY <2>1 DEF C
<1>13. \A i \in Sema : sem'[i].semval = IF i \in T THEN F[i] ELSE sem[i].semval
  <2>1. \A i \in Sema : sem'[i].semval = m[i].semval
    BY <1>9, <1>11, <1>12, ZeroedValue
  <2> QED
    BY <1>10, <2>1
<1>14. Heard(sem, sem')
  <2>1. ASSUME NEW j \in Sema, NEW f \in Kind, Concerns(f, sem[j].semval, m[j].semval) PROVE <<j, f>> \in C
    <3>1. sem[j].semval \in Nat
      <4>1. sem[j].semval \in 0 .. Top
        BY DEF SemInv, InRange
      <4> QED
        BY <4>1, TopIs
    <3>2. j \in T
      <4>1. SUFFICES ASSUME j \notin T PROVE FALSE
        OBVIOUS
      <4>2. m[j].semval = sem[j].semval
        BY <1>10, <4>1
      <4> QED
        BY <2>1, <3>1, <4>2 DEF Concerns
    <3>3. PICK n \in DOMAIN vals : j = Semp(id, n)
      BY <1>6, <3>2
    <3>4. m[j].semval = vals[n] /\ vals[n] \in Nat
      <4>1. vals[n] \in 0 .. Top
        OBVIOUS
      <4> QED
        BY <1>5, <1>10, <3>2, <3>3, <4>1, TopIs
    <3>5. vals[n] = 0 <=> f = "semzcnt"
      BY <2>1, <3>1, <3>4 DEF Concerns, Kind
    <3>6. f = IF vals[n] = 0 THEN "semzcnt" ELSE "semncnt"
      BY <3>5 DEF Kind
    <3> QED
      BY Zenon, <1>8, <3>3, <3>6
  <2> QED
    BY <1>9, <1>11, <1>12, <2>1, ZeroedHeard
<1>15. NobodySleeps
  BY <1>1, <1>3, WakeupOne DEF NobodySleeps
<1>16. ASSUME NEW n \in Nums(id)
       PROVE  sem'[Semp(id, n)].semval = IF n \in DOMAIN vals THEN vals[n] ELSE sem[Semp(id, n)].semval
  BY <1>4, <1>5, <1>7, <1>13
<1>17. ASSUME NEW j \in Sema, j \notin Members(id) PROVE sem'[j].semval = sem[j].semval
  <2>1. j \notin T
    BY <1>4, <1>6, <1>17
  <2> QED
    BY <1>13, <2>1
<1> QED
  BY Zenon, <1>1, <1>14, <1>15, <1>16, <1>17

(* exit(): what its process owes is added to each semaphore of a set that  *)
(* exists, unless that leaves the range.                                   *)
Settled(v, a) == IF v + a \in 0 .. SEMVMX THEN v + a ELSE v

LEMMA SemexitDoes ==
  ASSUME SemInv, NEW p \in Proc, Semexit(p)
  PROVE  /\ sema' = sema /\ frame' = frame /\ NobodySleeps /\ Heard(sem, sem')
         /\ undo' = [undo EXCEPT ![p] = [has |-> FALSE, ent |-> <<>>]] /\ Idle(pc, p)
         /\ \A id \in Nat : Live(id) => \A n \in Nums(id) :
              sem'[Semp(id, n)].semval = Settled(sem[Semp(id, n)].semval, Owes(undo[p].ent, <<id, n>>))
         /\ \A j \in Sema : (\A id \in Nat : Live(id) => j \notin Members(id)) => sem'[j].semval = sem[j].semval
<1> DEFINE ent == {e \in Range(undo[p].ent) : Live(e.id)}
           at(e) == Semp(e.id, e.num)
           v(e) == sem[at(e)].semval + e.aoe
           good == {e \in ent : v(e) \in 0 .. SEMVMX}
           C == {<<at(e), "semzcnt">> : e \in {f \in good : v(f) = 0}}
                \cup {<<at(e), "semncnt">> : e \in {f \in good : f.aoe > 0}}
           adjusted == [i \in Sema |-> IF \E e \in good : at(e) = i
                          THEN [sem[i] EXCEPT !.semval = v(CHOOSE e \in good : at(e) = i)] ELSE sem[i]]
           T == {i \in Sema : \E e \in good : at(e) = i}
           F == [i \in Sema |-> v(CHOOSE e \in good : at(e) = i)]
           m == Stored(T, F)
<1>1. /\ sem' = Zeroed(adjusted, C) /\ pc' = Wakeup(Waited(sem, C))
      /\ undo' = [undo EXCEPT ![p] = [has |-> FALSE, ent |-> <<>>]] /\ Idle(pc, p)
      /\ sema' = sema /\ frame' = frame
  BY Zenon DEF Semexit, Idle
<1>2. adjusted = m
  BY Zenon DEF Stored
<1>3. \A e \in good : at(e) \in Sema /\ v(e) \in 0 .. SEMVMX
  BY EntryIs
<1>4. C \in SUBSET Channel
  BY <1>3 DEF Channel, Kind
<1>5. HeadersOK /\ sem \in Mem /\ pc \in [Proc -> Where] /\ undo[p].ent \in Lists(Keys)
  BY DEF SemInv, Calls, Tables, Structure
<1>6. ASSUME NEW e \in good, NEW f \in Range(undo[p].ent), at(e) = at(f) PROVE e = f
  <2>1. e \in Range(undo[p].ent)
    OBVIOUS
  <2>2. /\ e.id \in Nat /\ Live(e.id) /\ e.num \in Nums(e.id)
        /\ f.id \in Nat /\ Live(f.id) /\ f.num \in Nums(f.id)
    BY <2>1, EntryIs DEF UndoEntry
  <2>3. KeyOf(e) = KeyOf(f)
    BY <1>5, <1>6, <2>2, OneSemp DEF KeyOf
  <2>4. PICK i \in DOMAIN undo[p].ent, j \in DOMAIN undo[p].ent : e = undo[p].ent[i] /\ f = undo[p].ent[j]
    BY <2>1 DEF Range
  <2> HIDE DEF good, at
  <2> QED
    BY <1>5, <2>3, <2>4, KeysIs, OneKey
<1>7. \A e \in good : at(e) \in T /\ F[at(e)] = v(e)
  <2>1. ASSUME NEW e \in good PROVE at(e) \in T /\ F[at(e)] = v(e)
    <3> DEFINE f == CHOOSE f \in good : at(f) = at(e)
    <3>1. f \in good /\ at(f) = at(e)
      BY Zenon
    <3>2. at(e) \in Sema /\ f \in Range(undo[p].ent)
      BY Zenon, <1>3, <3>1
    <3>3. F[at(e)] = v(f)
      BY Zenon, <3>2
    <3>4. f = e
      BY Zenon, <1>6, <3>1, <3>2
    <3> QED
      BY Zenon, <3>2, <3>3, <3>4
  <2> QED
    BY Zenon, <2>1
<1>8. \A i \in T : \E e \in good : at(e) = i
  OBVIOUS
<1>9. /\ \A e \in good : v(e) = 0 => <<at(e), "semzcnt">> \in C
      /\ \A e \in good : e.aoe > 0 => <<at(e), "semncnt">> \in C
  OBVIOUS
<1>10. /\ \A e \in good : e \in Range(undo[p].ent) /\ v(e) \in 0 .. SEMVMX
       /\ \A e \in Range(undo[p].ent) : v(e) \in 0 .. SEMVMX => e \in good
  BY EntryIs
<1> HIDE DEF C, T, F, adjusted, good
<1>11. m \in Mem
  <2>1. Storable(T, F)
    <3>1. \A i \in T : F[i] \in 0 .. SEMVMX
      BY <1>7, <1>8, <1>10
    <3>2. 0 .. SEMVMX \subseteq 0 .. Top
      BY TopIs
    <3> QED
      BY <3>1, <3>2 DEF Storable
  <2> QED
    BY <2>1, SetValues
<1>12. \A i \in Sema : m[i].semval = IF i \in T THEN F[i] ELSE sem[i].semval
  BY <1>5, StoredIs
<1> HIDE DEF m
<1>13. sem' = Zeroed(m, C)
  BY <1>1, <1>2
<1>14. \A i \in Sema : sem'[i].semval = IF i \in T THEN F[i] ELSE sem[i].semval
  <2>1. \A i \in Sema : sem'[i].semval = m[i].semval
    BY <1>4, <1>11, <1>13, ZeroedValue
  <2> QED
    BY <1>12, <2>1
<1>15. \A e \in Range(undo[p].ent) : /\ e.aoe \in Int /\ at(e) \in Sema /\ sem[at(e)].semval \in Nat
  <2>1. ASSUME NEW e \in Range(undo[p].ent) PROVE e.aoe \in Int /\ at(e) \in Sema /\ sem[at(e)].semval \in Nat
    <3>1. e.aoe \in Int /\ at(e) \in Sema
      BY EntryIs DEF UndoEntry
    <3>2. sem[at(e)].semval \in 0 .. Top
      BY <3>1 DEF SemInv, InRange
    <3> QED
      BY <3>1, <3>2, TopIs
  <2> QED
    BY <2>1
<1>16. Heard(sem, sem')
  <2>1. ASSUME NEW j \in Sema, NEW f \in Kind, Concerns(f, sem[j].semval, m[j].semval) PROVE <<j, f>> \in C
    <3>1. sem[j].semval \in Int
      BY <1>5, MemInt
    <3>2. j \in T
      <4>1. SUFFICES ASSUME j \notin T PROVE FALSE
        OBVIOUS
      <4>2. m[j].semval = sem[j].semval
        BY <1>12, <4>1
      <4> QED
        BY <2>1, <3>1, <4>2 DEF Concerns
    <3>3. PICK e \in good : at(e) = j
      BY <1>8, <3>2
    <3>4. m[j].semval = v(e)
      BY <1>7, <1>12, <3>2, <3>3
    <3>5. e.aoe \in Int /\ v(e) = sem[j].semval + e.aoe
      BY <1>10, <1>15, <3>3
    <3>6. /\ f = "semncnt" => e.aoe > 0
          /\ f # "semncnt" => v(e) = 0
      BY <2>1, <3>1, <3>4, <3>5 DEF Concerns
    <3>7. f = "semncnt" \/ f = "semzcnt"
      BY DEF Kind
    <3> QED
      BY <1>9, <3>3, <3>6, <3>7
  <2> QED
    BY <1>4, <1>11, <1>13, <2>1, ZeroedHeard
<1>17. NobodySleeps
  BY <1>1, <1>5, WakeupOne DEF NobodySleeps
<1>18. ASSUME NEW id \in Nat, Live(id), NEW n \in Nums(id)
       PROVE  sem'[Semp(id, n)].semval = Settled(sem[Semp(id, n)].semval, Owes(undo[p].ent, <<id, n>>))
  <2> DEFINE i == Semp(id, n)
  <2>1. i \in Sema
    BY <1>5, <1>18, MemberIs
  <2>2. \A e \in Range(undo[p].ent) : at(e) = i => KeyOf(e) = <<id, n>>
    <3>1. ASSUME NEW e \in Range(undo[p].ent), at(e) = i PROVE KeyOf(e) = <<id, n>>
      <4>1. e.id \in Nat /\ Live(e.id) /\ e.num \in Nums(e.id)
        BY EntryIs DEF UndoEntry
      <4> QED
        BY <1>5, <1>18, <3>1, <4>1, OneSemp DEF KeyOf
    <3> QED
      BY <3>1
  <2>3. /\ \A e \in Range(undo[p].ent) : Owes(undo[p].ent, KeyOf(e)) = e.aoe
        /\ \A k : (\A e \in Range(undo[p].ent) : KeyOf(e) # k) => Owes(undo[p].ent, k) = 0
    BY <1>5, KeysIs, OwesIs
  <2>4. CASE \E e \in Range(undo[p].ent) : KeyOf(e) = <<id, n>>
    <3>1. PICK e \in Range(undo[p].ent) : KeyOf(e) = <<id, n>>
      BY <2>4
    <3>2. at(e) = i /\ Owes(undo[p].ent, <<id, n>>) = e.aoe
      BY <2>3, <3>1 DEF KeyOf
    <3>3. v(e) = sem[i].semval + e.aoe
      BY <3>2
    <3>4. CASE v(e) \in 0 .. SEMVMX
      <4>1. e \in good
        BY <1>10, <3>4
      <4>2. sem'[i].semval = v(e)
        BY <1>7, <1>14, <2>1, <3>2, <4>1
      <4> QED
        BY <3>2, <3>3, <3>4, <4>2 DEF Settled
    <3>5. CASE v(e) \notin 0 .. SEMVMX
      <4>1. i \notin T
        <5>1. SUFFICES ASSUME i \in T PROVE FALSE
          OBVIOUS
        <5>2. PICK g \in good : at(g) = i
          BY <1>8, <5>1
        <5>3. g = e
          BY <1>6, <3>2, <5>2
        <5> QED
          BY <1>10, <3>5, <5>3
      <4>2. sem'[i].semval = sem[i].semval
        BY <1>14, <2>1, <4>1
      <4> QED
        BY <3>2, <3>3, <3>5, <4>2 DEF Settled
    <3> QED
      BY <3>4, <3>5
  <2>5. CASE ~(\E e \in Range(undo[p].ent) : KeyOf(e) = <<id, n>>)
    <3>1. Owes(undo[p].ent, <<id, n>>) = 0
      BY <2>3, <2>5
    <3>2. i \notin T
      BY <1>8, <1>10, <2>2, <2>5
    <3>3. sem'[i].semval = sem[i].semval
      BY <1>14, <2>1, <3>2
    <3>4. sem[i].semval \in Int
      BY <1>5, <2>1, MemInt
    <3> QED
      BY <3>1, <3>3, <3>4 DEF Settled
  <2> QED
    BY <2>4, <2>5
<1>19. ASSUME NEW j \in Sema, \A id \in Nat : Live(id) => j \notin Members(id)
       PROVE  sem'[j].semval = sem[j].semval
  <2>1. j \notin T
    <3>1. SUFFICES ASSUME j \in T PROVE FALSE
      OBVIOUS
    <3>2. PICK e \in good : at(e) = j
      BY <1>8, <3>1
    <3>3. e.id \in Nat /\ Live(e.id) /\ e.num \in Nums(e.id)
      BY <1>10, <3>2, EntryIs DEF UndoEntry
    <3>4. at(e) \in Members(e.id)
      BY <1>5, <3>3, MemberIs
    <3> QED
      BY <1>19, <3>2, <3>3, <3>4
  <2> QED
    BY <1>14, <2>1
<1> QED
  BY Zenon, <1>1, <1>16, <1>17, <1>18, <1>19

LEMMA RmidDoes ==
  ASSUME SemInv, NEW id \in Nat, Rmid(id), NEW s, s = SlotOf(id)
  PROVE  /\ s \in Slot /\ Live(id) /\ frame' = frame /\ NobodySleeps /\ Heard(sem, sem')
         /\ undo' = SemunrmAll(id, 0, sema[s].nsems)
         /\ sema[s].seq < MaxSeq /\ ~sema'[s].alloc /\ sema'[s].seq = sema[s].seq + 1
         /\ \A t \in Slot : sema'[t].base = sema[t].base /\ (t # s => sema'[t] = sema[t])
         /\ \A i \in Sema : sem'[i].semval = IF i \in Members(id) THEN 0 ELSE sem[i].semval
<1> DEFINE C == Members(id) \X Kind
           z == Zeroed(sem, C)
<1>1. /\ Live(id) /\ undo' = SemunrmAll(id, 0, sema[s].nsems)
      /\ sem' = [i \in Sema |-> IF i \in Members(id) THEN [z[i] EXCEPT !.semval = 0] ELSE sem[i]]
      /\ pc' = Wakeup(Waited(sem, C)) /\ frame' = frame
      /\ sema' = [sema EXCEPT ![s].seq = @ + 1, ![s].alloc = FALSE] /\ sema[s].seq < MaxSeq
  BY DEF Rmid
<1>2. HeadersOK /\ sema \in [Slot -> Header] /\ s \in Slot /\ Members(id) \in SUBSET Sema
  BY <1>1, SlotIs, MemberIs DEF SemInv, HeadersOK
<1>3. sem \in Mem /\ pc \in [Proc -> Where] /\ C \in SUBSET Channel
  BY <1>2 DEF SemInv, Calls, Channel
<1>4. z \in Mem /\ Clears(sem, z, C)
  BY <1>3, ZeroedMem, ZeroedIs
<1>5. \A i \in Sema, f \in Kind : i \in Members(id) => <<i, f>> \in C
  OBVIOUS
<1> HIDE DEF z, C
<1>6. ASSUME NEW i \in Sema
      PROVE  /\ sem'[i].semval = IF i \in Members(id) THEN 0 ELSE sem[i].semval
             /\ i \in Members(id) => \A f \in Kind : sem'[i][f] = 0
  <2>1. z[i] \in [Field -> Int] /\ "semval" \in Field /\ "semval" \notin Kind /\ Kind \subseteq Field
    BY <1>4 DEF Mem, Field, Kind
  <2>2. sem'[i] = IF i \in Members(id) THEN [z[i] EXCEPT !.semval = 0] ELSE sem[i]
    BY <1>1
  <2>3. i \in Members(id) => \A f \in Kind : z[i][f] = 0
    BY Zenon, <1>4, <1>5 DEF Clears
  <2>4. i \in Members(id) => sem'[i].semval = 0 /\ \A f \in Kind : sem'[i][f] = z[i][f]
    BY <2>1, <2>2
  <2>5. i \notin Members(id) => sem'[i] = sem[i]
    BY <2>2
  <2> QED
    BY Zenon, <2>3, <2>4, <2>5
<1>7. ASSUME NEW j \in Sema, NEW f \in Kind, Concerns(f, sem[j].semval, sem'[j].semval) PROVE sem'[j][f] = 0
  <2>1. sem[j].semval \in Int
    BY <1>3, MemInt
  <2>2. sem'[j].semval # sem[j].semval
    BY <1>7, <2>1 DEF Concerns
  <2> QED
    BY <1>6, <2>2
<1>8. Heard(sem, sem')
  BY Zenon, <1>7 DEF Heard
<1>9. NobodySleeps
  BY <1>1, <1>3, WakeupOne DEF NobodySleeps
<1>10. /\ ~sema'[s].alloc /\ sema'[s].seq = sema[s].seq + 1
       /\ \A t \in Slot : sema'[t].base = sema[t].base /\ (t # s => sema'[t] = sema[t])
  <2> DEFINE old == sema[s]
             mid == [old EXCEPT !.seq = old.seq + 1]
             new == [mid EXCEPT !.alloc = FALSE]
  <2>1. old \in Header
    BY <1>2
  <2>2. sema' = [sema EXCEPT ![s] = new]
    BY <1>1, <1>2
  <2>3. \A t \in Slot : IF t = s THEN sema'[t] = new ELSE sema'[t] = sema[t]
    BY <1>2, <2>2
  <2>4. old = sema[s]
    OBVIOUS
  <2> HIDE DEF old
  <2>5. mid = [alloc |-> old.alloc, seq |-> old.seq + 1, base |-> old.base, nsems |-> old.nsems]
    BY <2>1 DEF Header
  <2>6. new = [mid EXCEPT !.alloc = FALSE]
    OBVIOUS
  <2> HIDE DEF mid, new
  <2>7. new.alloc = FALSE /\ new.seq = old.seq + 1 /\ new.base = old.base
    BY <2>5, <2>6
  <2>8. sema'[s] = new
    BY <1>2, <2>3
  <2> QED
    BY <2>3, <2>4, <2>7, <2>8
<1> QED
  BY Zenon, <1>1, <1>2, <1>6, <1>8, <1>9, <1>10

LEMMA SemgetDoes ==
  ASSUME SemInv, NEW n \in 1 .. SEMMSL, Semget(n)
  PROVE  /\ sem' = sem /\ undo' = undo /\ pc' = pc /\ frame' = frame
         /\ \E s \in Slot, b \in Nat :
              /\ ~sema[s].alloc /\ \A j \in b .. b + n - 1 : j \in Sema /\ j \notin Taken
              /\ sema'[s] = [alloc |-> TRUE, seq |-> sema[s].seq, base |-> b, nsems |-> n]
              /\ \A t \in Slot : t # s => sema'[t] = sema[t]
<1> DEFINE free == {t \in Slot : ~sema[t].alloc}
           holes == {c \in Sema : Fits(c, n)}
           s == Min(free)
           b == Min(holes)
<1>1. /\ free # {} /\ holes # {}
      /\ sema' = [sema EXCEPT ![s] = [alloc |-> TRUE, seq |-> sema[s].seq, base |-> b, nsems |-> n]]
      /\ sem' = sem /\ undo' = undo /\ pc' = pc /\ frame' = frame
  BY DEF Semget
<1>2. s \in free
  <2>1. free \in SUBSET Nat
    BY DEF Slot
  <2>2. \E x \in free : \A y \in free : x =< y
    BY <1>1, <2>1, LeastOf
  <2> QED
    BY <2>2 DEF Min
<1>3. b \in holes
  <2>1. holes \in SUBSET Nat
    BY DEF Sema
  <2>2. \E x \in holes : \A y \in holes : x =< y
    BY <1>1, <2>1, LeastOf
  <2> QED
    BY <2>2 DEF Min
<1> HIDE DEF s, b
<1>4. s \in Slot /\ ~sema[s].alloc
  BY <1>2
<1>5. b \in Sema /\ Fits(b, n)
  BY <1>3
<1>6. b \in Nat /\ \A j \in b .. b + n - 1 : j \in Sema /\ j \notin Taken
  BY <1>5 DEF Sema, Fits
<1>7. sema \in [Slot -> Header]
  BY DEF SemInv, HeadersOK
<1>8. /\ sema'[s] = [alloc |-> TRUE, seq |-> sema[s].seq, base |-> b, nsems |-> n]
      /\ \A t \in Slot : t # s => sema'[t] = sema[t]
  BY <1>1, <1>4, <1>7
<1> QED
  BY Zenon, <1>1, <1>4, <1>6, <1>8

------------------------------------------------------------------------------
(* Sleepers stay stuck in every step.                                      *)

LEMMA StepBlocked ==
  ASSUME SemInv, SemInv', NoDips, Blocked(sem, pc, frame), Heard(sem, sem'), NobodySleeps,
         \A q \in Proc : Asleep(pc, q) =>
           sema'[SlotOf(frame[q].id)].base = sema[SlotOf(frame[q].id)].base
  PROVE  Blocked(sem, pc, frame)'
<1>1. /\ sem' \in Mem /\ InRange(sem') /\ Calls(pc', frame') /\ Counts(sem', pc', frame')
  BY AfterInv
<1>2. ASSUME NEW q \in Proc, Asleep(pc', q) PROVE Stuck(frame[q], sem[frame[q].semp].semval)'
  <2>1. Asleep(pc, q) /\ frame'[q] = frame[q]
    BY <1>2 DEF NobodySleeps
  <2>2. Stuck(frame'[q], sem'[frame'[q].semp].semval)
    BY <1>1, <1>2, <2>1, BlockedKept
  <2>3. PICK r, v : r = frame'[q] /\ v = sem'[frame'[q].semp].semval
    OBVIOUS
  <2>4. Stuck(r, v) /\ sema'[SlotOf(r.id)].base = sema[SlotOf(r.id)].base
    BY Zenon, <2>1, <2>2, <2>3
  <2>5. \A k : Semp(r.id, k)' = Semp(r.id, k)
    BY <2>4 DEF Semp, SlotOf
  <2>6. Stuck(r, v)'
    BY Zenon, <2>4, <2>5 DEF Stuck
  <2> QED
    BY Zenon, <2>3, <2>6 DEF Stuck, Semp, SlotOf
<1> QED
  BY Zenon, <1>2 DEF Blocked

LEMMA QuietBlocked ==
  ASSUME SemInv, SemInv', NoDips, Blocked(sem, pc, frame), sema' = sema,
         \A j \in Sema : sem'[j].semval = sem[j].semval, NobodySleeps
  PROVE  Blocked(sem, pc, frame)'
<1>1. Heard(sem, sem')
  BY HeardSame DEF SemInv
<1> QED
  BY <1>1, StepBlocked

(* A process that leaves semop().                                          *)
LEMMA LeavesOnly ==
  ASSUME pc \in [Proc -> Where], NEW x \in [Proc -> Where], NEW p \in Proc,
         \A q \in Proc : Asleep(x, q) => Asleep(pc, q), pc' = [x EXCEPT ![p] = "user"],
         \A q \in Proc : q # p => frame'[q] = frame[q]
  PROVE  NobodySleeps
<1>1. "user" # "asleep"
  OBVIOUS
<1>2. ASSUME NEW q \in Proc, Asleep(pc', q) PROVE Asleep(pc, q) /\ frame'[q] = frame[q]
  <2>1. q # p /\ pc'[q] = x[q]
    BY <1>1, <1>2 DEF Asleep
  <2> QED
    BY Zenon, <1>2, <2>1 DEF Asleep
<1> QED
  BY Zenon, <1>2 DEF NobodySleeps

LEMMA InterruptedDoes ==
  ASSUME SemInv, NEW p \in Proc, Interrupted(p)
  PROVE  /\ sema' = sema /\ undo' = undo /\ NobodySleeps /\ Leaving(pc, p)
         /\ frame' = [frame EXCEPT ![p] = NoCall]
         /\ \A j \in Sema : sem'[j].semval = sem[j].semval
<1> DEFINE i == frame[p].semp
           k == frame[p].kind
           n == sem[i][k]
           v == IF n <= 1 THEN 0 ELSE n - 1
           x == Wakeup(IF n <= 1 THEN {<<i, k>>} ELSE {})
<1>1. /\ Leaving(pc, p) /\ sema' = sema /\ undo' = undo
      /\ sem' = [sem EXCEPT ![i][k] = v]
      /\ pc' = [x EXCEPT ![p] = "user"] /\ frame' = [frame EXCEPT ![p] = NoCall]
  BY DEF Interrupted, Return, Chan, Leaving
<1>2. Calls(pc, frame) /\ pc \in [Proc -> Where] /\ sem \in Mem /\ frame \in [Proc -> Frame \cup {NoCall}]
  BY DEF SemInv, Calls
<1>3. i \in Sema /\ k \in Kind
  <2>1. ~Idle(pc, p)
    BY <1>1, <1>2, Places
  <2> QED
    BY <1>2, <2>1, CallIs
<1>4. n \in Int
  BY <1>2, <1>3, MemInt
<1> HIDE DEF i, k, n
<1>5. v \in Int
  BY <1>4
<1>6. x \in [Proc -> Where] /\ \A q \in Proc : Asleep(x, q) => Asleep(pc, q)
  <2>1. x \in [Proc -> Where]
    BY <1>2, WakeupIs
  <2>2. PICK C : x = Wakeup(C)
    OBVIOUS
  <2> HIDE DEF x
  <2>3. ASSUME NEW q \in Proc, Asleep(x, q) PROVE Asleep(pc, q)
    BY <1>2, <2>2, <2>3, WakeupOne
  <2> QED
    BY <2>1, <2>3
<1> HIDE DEF x, v
<1>7. \A j \in Sema : sem'[j].semval = sem[j].semval
  <2>1. \A j \in Sema, f \in Field : sem'[j][f] = IF j = i /\ f = k THEN v ELSE sem[j][f]
    BY SMTT(30), <1>1, <1>2, <1>3, <1>5, CountIs
  <2>2. "semval" \in Field /\ k # "semval"
    BY <1>3 DEF Field, Kind
  <2> QED
    BY Zenon, <2>1, <2>2
<1>8. \A q \in Proc : q # p => frame'[q] = frame[q]
  BY <1>1, <1>2
<1>9. NobodySleeps
  BY <1>1, <1>2, <1>6, <1>8, LeavesOnly
<1> QED
  BY Zenon, <1>1, <1>7, <1>9

LEMMA SignalDoes ==
  ASSUME SemInv, NEW p \in Proc, Signal(p)
  PROVE  sema' = sema /\ sem' = sem /\ undo' = undo /\ frame' = frame /\ NobodySleeps
<1>1. /\ sema' = sema /\ sem' = sem /\ undo' = undo /\ frame' = frame
      /\ pc' = [pc EXCEPT ![p] = "interrupted"]
  BY DEF Signal
<1>2. pc \in [Proc -> Where]
  BY DEF SemInv, Calls
<1>3. "interrupted" # "asleep"
  OBVIOUS
<1>4. ASSUME NEW q \in Proc, Asleep(pc', q) PROVE Asleep(pc, q)
  BY <1>1, <1>2, <1>3, <1>4 DEF Asleep
<1> QED
  BY <1>1, <1>4 DEF NobodySleeps

LEMMA RetryFailsDoes ==
  ASSUME SemInv, NEW p \in Proc, RetryFails(p)
  PROVE  /\ sema' = sema /\ sem' = sem /\ undo' = undo /\ NobodySleeps /\ Woken(pc, p)
         /\ frame' = [frame EXCEPT ![p] = NoCall]
<1>1. /\ sema' = sema /\ sem' = sem /\ undo' = undo /\ Woken(pc, p)
      /\ pc' = [pc EXCEPT ![p] = "user"] /\ frame' = [frame EXCEPT ![p] = NoCall]
  BY DEF RetryFails, Return, Woken
<1>2. pc \in [Proc -> Where] /\ frame \in [Proc -> Frame \cup {NoCall}]
  BY DEF SemInv, Calls
<1>3. \A q \in Proc : q # p => frame'[q] = frame[q]
  BY <1>1, <1>2
<1>4. NobodySleeps
  BY <1>1, <1>2, <1>3, LeavesOnly
<1> QED
  BY Zenon, <1>1, <1>4

------------------------------------------------------------------------------
(* The steps: semop() is tried by a process that was called or woken for a *)
(* set that exists, SETVAL and SETALL store values of some semaphores and  *)
(* forget what is owed of them.                                            *)

Tries(p, id, ops) ==
  /\ Valid(id, ops) /\ Attempt(p, id, ops)
  /\ Idle(pc, p) \/ (Woken(pc, p) /\ frame[p].id = id /\ frame[p].ops = ops)
Assigns(id, vals, low, high) ==
  /\ Live(id) /\ DOMAIN vals \subseteq Nums(id) /\ Function(vals)
  /\ \A n \in DOMAIN vals : vals[n] \in 0 .. Top
  /\ Store(id, vals)
  /\ low <= high + 1 /\ \A n \in Nums(id) : n \in DOMAIN vals <=> low <= n /\ n <= high
  /\ undo' = SemunrmAll(id, low, high)

LEMMA SetvalAssigns ==
  ASSUME SemInv, NEW id \in Nat, NEW num \in Nums(id), NEW arg, Setval(id, num, arg)
  PROVE  \E vals : \E low \in Nat, high \in Nat : Assigns(id, vals, low, high)
<1> DEFINE vals == [n \in {num} |-> arg]
<1>1. Live(id) /\ arg \in 0 .. SEMVMX /\ Store(id, vals) /\ undo' = SemunrmAll(id, num, num)
  BY DEF Setval
<1>2. \A n \in Nums(id) : n \in Nat
  BY <1>1, MemberIs DEF SemInv
<1>3. arg \in 0 .. Top
  BY <1>1, TopIs
<1>4. DOMAIN vals = {num} /\ Function(vals) /\ \A n \in DOMAIN vals : vals[n] \in 0 .. Top
  BY <1>3 DEF Function
<1> HIDE DEF vals
<1>5. num <= num + 1 /\ \A n \in Nums(id) : n \in DOMAIN vals <=> num <= n /\ n <= num
  BY <1>2, <1>4
<1>6. DOMAIN vals \subseteq Nums(id) /\ num \in Nat
  BY <1>2, <1>4
<1>7. Assigns(id, vals, num, num)
  BY Zenon, <1>1, <1>4, <1>5, <1>6 DEF Assigns
<1> QED
  BY <1>6, <1>7

LEMMA SetallAssigns ==
  ASSUME SemInv, NEW id \in Nat, NEW args \in [Nums(id) -> SetArg], Setall(id, args)
  PROVE  \E vals : \E low \in Nat, high \in Nat : Assigns(id, vals, low, high)
<1> DEFINE vals == [n \in Nums(id) |-> args[n] % 65536]
           high == sema[SlotOf(id)].nsems
<1>1. /\ Live(id) /\ \A n \in Nums(id) : args[n] <= SEMVMX
      /\ Store(id, vals) /\ undo' = SemunrmAll(id, 0, high)
  BY DEF Setall
<1>2. ASSUME NEW n \in Nums(id) PROVE vals[n] \in 0 .. Top
  <2>1. args[n] \in SetArg /\ args[n] <= SEMVMX
    BY <1>1
  <2>2. vals[n] = Stores(args[n])
    BY DEF Stores
  <2> QED
    BY <2>1, <2>2, StoresIs
<1>3. high \in Nat /\ 0 <= high + 1 /\ \A n \in Nums(id) : 0 <= n /\ n <= high
  BY <1>1, MemberIs DEF SemInv, Nums
<1>4. DOMAIN vals = Nums(id) /\ Function(vals)
  BY DEF Function
<1> HIDE DEF vals, high
<1>5. Assigns(id, vals, 0, high)
  BY <1>1, <1>2, <1>3, <1>4 DEF Assigns
<1>6. 0 \in Nat
  OBVIOUS
<1> QED
  BY <1>3, <1>5, <1>6

LEMMA RetryTries ==
  ASSUME SemInv, NEW p \in Proc, Retry(p)
  PROVE  \E id \in Nat, ops \in Vector : Tries(p, id, ops)
<1> DEFINE id == frame[p].id
           ops == frame[p].ops
<1>1. Woken(pc, p) /\ Live(id) /\ Attempt(p, id, ops)
  BY DEF Retry, Woken
<1>2. ~Idle(pc, p)
  BY <1>1, Places DEF SemInv, Calls
<1>3. id \in Nat /\ ops \in Vector
  BY <1>2, CallIs, FrameIs DEF SemInv
<1>4. Gone(id) \/ Valid(id, ops)
  BY <1>2 DEF SemInv, Frames
<1>5. ~Gone(id)
  <2>1. sema[SlotOf(id)].seq \in Nat /\ id \div SEMMNI = sema[SlotOf(id)].seq
    BY <1>1, <1>3, SlotIs, HeaderIs DEF SemInv, HeadersOK, Live
  <2> QED
    BY <2>1 DEF Gone
<1>6. id = frame[p].id /\ ops = frame[p].ops
  OBVIOUS
<1> HIDE DEF id, ops
<1>7. Tries(p, id, ops)
  BY <1>1, <1>4, <1>5, <1>6 DEF Tries
<1> QED
  BY <1>3, <1>7

LEMMA Steps ==
  ASSUME SemInv, Next
  PROVE  \/ \E p \in Proc, id \in Nat, ops \in Vector : Tries(p, id, ops)
         \/ \E p \in Proc : RetryFails(p)
         \/ \E p \in Proc : Signal(p)
         \/ \E p \in Proc : Interrupted(p)
         \/ \E p \in Proc : Semexit(p)
         \/ \E n \in 1 .. SEMMSL : Semget(n)
         \/ \E id \in Nat : Rmid(id)
         \/ \E id \in Nat : \E vals : \E low \in Nat, high \in Nat : Assigns(id, vals, low, high)
<1>1. \A id \in LiveIds : id \in Nat /\ Live(id)
  BY LiveIs DEF SemInv, HeadersOK
<1>2. ASSUME NEW p \in Proc, NEW id \in LiveIds, NEW ops \in Vector, Semop(p, id, ops)
      PROVE  id \in Nat /\ Tries(p, id, ops)
  <2>1. Idle(pc, p) /\ Valid(id, ops) /\ Attempt(p, id, ops)
    BY <1>2 DEF Semop, Idle, Valid
  <2> QED
    BY <1>1, <2>1 DEF Tries
<1>3. ASSUME NEW id \in LiveIds, NEW num \in Nums(id), NEW arg, Setval(id, num, arg)
      PROVE  id \in Nat /\ \E vals : \E low \in Nat, high \in Nat : Assigns(id, vals, low, high)
  BY <1>1, <1>3, SetvalAssigns
<1>4. ASSUME NEW id \in LiveIds, NEW args \in [Nums(id) -> SetArg], Setall(id, args)
      PROVE  id \in Nat /\ \E vals : \E low \in Nat, high \in Nat : Assigns(id, vals, low, high)
  BY <1>1, <1>4, SetallAssigns
<1>5. ASSUME NEW p \in Proc, Retry(p) PROVE \E id \in Nat, ops \in Vector : Tries(p, id, ops)
  BY <1>5, RetryTries
<1> QED
  BY Zenon, <1>1, <1>2, <1>3, <1>4, <1>5 DEF Next

LEMMA AssignsDoes ==
  ASSUME SemInv, NEW id \in Nat, NEW vals, NEW low \in Nat, NEW high \in Nat, Assigns(id, vals, low, high)
  PROVE  /\ sema' = sema /\ frame' = frame /\ NobodySleeps /\ Heard(sem, sem')
         /\ \A n \in Nums(id) :
              sem'[Semp(id, n)].semval = IF n \in DOMAIN vals THEN vals[n] ELSE sem[Semp(id, n)].semval
         /\ \A j \in Sema : j \notin Members(id) => sem'[j].semval = sem[j].semval
<1>1. /\ Live(id) /\ DOMAIN vals \subseteq Nums(id)
      /\ \A n \in DOMAIN vals : vals[n] \in 0 .. Top
      /\ Store(id, vals)
  BY Zenon DEF Assigns
<1> QED
  BY <1>1, StoreDoes

LEMMA NextBlocked ==
  ASSUME SemInv, NoDips, Blocked(sem, pc, frame), [Next]_vars
  PROVE  Blocked(sem, pc, frame)'
<1>1. SemInv'
  BY NextKeeps
<1>2. CASE \E p \in Proc, id \in Nat, ops \in Vector : Tries(p, id, ops)
  BY <1>2, AttemptBlocked DEF Tries
<1>3. CASE \E p \in Proc : RetryFails(p)
  BY <1>1, <1>3, RetryFailsDoes, QuietBlocked
<1>4. CASE \E p \in Proc : Signal(p)
  BY <1>1, <1>4, SignalDoes, QuietBlocked
<1>5. CASE \E p \in Proc : Interrupted(p)
  BY <1>1, <1>5, InterruptedDoes, QuietBlocked
<1>6. CASE \E p \in Proc : Semexit(p)
  <2>1. sema' = sema /\ NobodySleeps /\ Heard(sem, sem')
    BY <1>6, SemexitDoes
  <2> QED
    BY <1>1, <2>1, StepBlocked
<1>7. CASE \E n \in 1 .. SEMMSL : Semget(n)
  <2>1. PICK n \in 1 .. SEMMSL : Semget(n)
    BY <1>7
  <2>2. /\ sem' = sem /\ pc' = pc /\ frame' = frame
        /\ \E s \in Slot : ~sema[s].alloc /\ \A t \in Slot : t # s => sema'[t] = sema[t]
    BY Zenon, <2>1, SemgetDoes
  <2>3. PICK s \in Slot : ~sema[s].alloc /\ \A t \in Slot : t # s => sema'[t] = sema[t]
    BY <2>2
  <2>4. ASSUME NEW q \in Proc, Asleep(pc, q)
        PROVE  sema'[SlotOf(frame[q].id)].base = sema[SlotOf(frame[q].id)].base
    <3>1. Live(frame[q].id) /\ Calls(pc, frame) /\ pc \in [Proc -> Where]
      BY <2>4 DEF SemInv, Sleepers, Calls
    <3>2. ~Idle(pc, q)
      BY <2>4, <3>1, Places
    <3>3. SlotOf(frame[q].id) \in Slot
      BY <3>1, <3>2, CallIs, FrameIs, SlotIs
    <3> QED
      BY <2>3, <3>1, <3>3 DEF Live
  <2>5. Heard(sem, sem') /\ NobodySleeps
    BY <2>2, HeardSame DEF SemInv, NobodySleeps
  <2> QED
    BY <1>1, <2>4, <2>5, StepBlocked
<1>8. CASE \E id \in Nat : Rmid(id)
  <2>1. PICK id \in Nat : Rmid(id)
    BY <1>8
  <2>2. NobodySleeps /\ Heard(sem, sem') /\ \A t \in Slot : sema'[t].base = sema[t].base
    BY <2>1, RmidDoes
  <2>3. ASSUME NEW q \in Proc, Asleep(pc, q) PROVE SlotOf(frame[q].id) \in Slot
    <3>1. Calls(pc, frame) /\ ~Idle(pc, q)
      BY <2>3, Places DEF SemInv, Calls
    <3> QED
      BY <3>1, CallIs, FrameIs, SlotIs
  <2> QED
    BY <1>1, <2>2, <2>3, StepBlocked
<1>9. CASE \E id \in Nat : \E vals : \E low \in Nat, high \in Nat : Assigns(id, vals, low, high)
  <2>1. sema' = sema /\ NobodySleeps /\ Heard(sem, sem')
    BY <1>9, AssignsDoes
  <2> QED
    BY <1>1, <2>1, StepBlocked
<1>10. CASE UNCHANGED vars
  <2>1. sema' = sema /\ sem' = sem /\ pc' = pc /\ frame' = frame
    BY <1>10 DEF vars
  <2>2. NobodySleeps
    BY <2>1 DEF NobodySleeps
  <2> QED
    BY <1>1, <2>1, <2>2, QuietBlocked
<1> QED
  BY Zenon, <1>2, <1>3, <1>4, <1>5, <1>6, <1>7, <1>8, <1>9, <1>10, Steps

LEMMA InitBlocked == Init => Blocked(sem, pc, frame)
<1> SUFFICES ASSUME Init PROVE Blocked(sem, pc, frame)
  OBVIOUS
<1>1. \A p \in Proc : Idle(pc, p)
  BY DEF Init, Idle
<1>2. \A p \in Proc : ~Asleep(pc, p)
  BY <1>1, InitHolds, Places DEF SemInv, Calls
<1> QED
  BY Zenon, <1>2 DEF Blocked

(* A vector with an operation that must wait cannot be performed.          *)
LEMMA StuckNot ==
  ASSUME NEW r, NEW i, i = r.semp, Stuck(r, sem[i].semval), r.ops \in Vector,
         NEW v, v = SetVal(r.id), sem \in Mem, i \in Sema
  PROVE  ~Atomic!Executable(v, r.ops)
<1> DEFINE ops == r.ops
<1>1. PICK k \in 1 .. Len(ops) : i = Semp(r.id, ops[k].num) /\ Holds(r.kind, sem[i].semval, ops, k)
  BY Zenon DEF Stuck
<1>2. ops \in Seq(Sembuf) /\ Len(ops) \in Nat /\ DOMAIN ops = 1 .. Len(ops)
  BY VectorIs
<1>3. Sum(ops, ops[k].num)[k - 1] \in Int /\ ops[k].op \in Int /\ sem[i].semval \in Int
  <2>1. k - 1 \in 0 .. Len(ops)
    BY <1>2
  <2>2. ops[k] \in Sembuf
    BY <1>2
  <2> QED
    BY <1>2, <2>1, <2>2, SumIs, SembufIs, MemInt
<1>4. SUFFICES ASSUME Atomic!Executable(v, ops) PROVE FALSE
  OBVIOUS
<1>5. /\ ops[k].num \in DOMAIN v
      /\ ops[k].op < 0 => Atomic!Found(v, ops, k) + ops[k].op >= 0
      /\ ops[k].op = 0 => Atomic!Found(v, ops, k) = 0
  BY Zenon, <1>2, <1>4 DEF Atomic!Executable
<1>6. v[ops[k].num] = sem[i].semval
  <2>1. DOMAIN v = Nums(r.id)
    BY DEF SetVal
  <2> QED
    BY <1>1, <1>5, <2>1 DEF SetVal
<1>7. Atomic!Found(v, ops, k) = Finds(sem[i].semval, ops, k)
  BY Zenon, <1>6 DEF Atomic!Found, Finds, Sum
<1>8. Finds(sem[i].semval, ops, k) \in Int
  BY <1>3 DEF Finds
<1> QED
  BY <1>1, <1>3, <1>5, <1>7, <1>8 DEF Holds

(* A process asleep in semop() could not perform its vector, if no vector  *)
(* lowers a semaphore before it waits for zero there.  One that does, as   *)
(* (-1, 0), may sleep on: at the value 2 it waits, and nobody who makes it *)
(* 1 wakes those who wait for zero (semop()).                              *)
THEOREM SemNoMissedGrant ==
  ASSUME NoDips
  PROVE  Spec => []NoMissedGrant
<1>1. Init => SemInv /\ Blocked(sem, pc, frame)
  BY InitHolds, InitBlocked
<1>2. SemInv /\ Blocked(sem, pc, frame) /\ [Next]_vars => SemInv' /\ Blocked(sem, pc, frame)'
  BY NextKeeps, NextBlocked
<1>3. SemInv /\ Blocked(sem, pc, frame) => NoMissedGrant
  <2>1. SUFFICES ASSUME SemInv, Blocked(sem, pc, frame), NEW p \in Proc, pc[p] = "asleep"
                 PROVE  ~Atomic!Executable(SetVal(frame[p].id), frame[p].ops)
    BY DEF NoMissedGrant
  <2>2. Asleep(pc, p) /\ Calls(pc, frame) /\ pc \in [Proc -> Where] /\ sem \in Mem
    BY <2>1 DEF Asleep, SemInv, Calls
  <2>3. ~Idle(pc, p)
    BY <2>2, Places
  <2>4. frame[p].semp \in Sema /\ frame[p].ops \in Vector
    BY <2>2, <2>3, CallIs, FrameIs
  <2>5. Stuck(frame[p], sem[frame[p].semp].semval)
    BY Zenon, <2>1, <2>2 DEF Blocked
  <2>6. PICK r, i, v : r = frame[p] /\ i = r.semp /\ v = SetVal(r.id)
    OBVIOUS
  <2>7. ~Atomic!Executable(v, r.ops)
    BY <2>2, <2>4, <2>5, <2>6, StuckNot
  <2> QED
    BY Zenon, <2>6, <2>7
<1> QED
  BY <1>1, <1>2, <1>3, PTL DEF Spec

------------------------------------------------------------------------------
(* A semaphore of no set has the value zero: a set that is created finds   *)
(* it so.  No header is reused more often than the bound.                  *)
Unused == \A i \in Sema : i \notin Taken => sem[i].semval = 0
Seqs   == \A s \in Slot : sema[s].seq <= MaxSeq

Registered ==
  /\ \A id : id \in LiveIds <=> id \in Nat /\ Live(id)
  /\ \A i : i \in Taken <=> \E id \in Nat : Live(id) /\ i \in Members(id)

LEMMA TakenIs == HeadersOK => Registered
<1> SUFFICES ASSUME HeadersOK PROVE Registered
  OBVIOUS
<1>1. \A id : id \in LiveIds <=> id \in Nat /\ Live(id)
  BY LiveIs DEF HeadersOK
<1>2. \A i : i \in Taken <=> \E id \in Nat : Live(id) /\ i \in Members(id)
  BY <1>1 DEF Taken
<1> QED
  BY Zenon, <1>1, <1>2 DEF Registered

LEMMA TakenThen == HeadersOK' => Registered'
BY TakenIs, PTL

(* The set of a header that stays as it is.                                *)
LEMMA SameHeader ==
  ASSUME NEW id, sema'[SlotOf(id)] = sema[SlotOf(id)]
  PROVE  /\ Live(id)' <=> Live(id)
         /\ Nums(id)' = Nums(id) /\ Members(id)' = Members(id)
         /\ \A n : Semp(id, n)' = Semp(id, n)
<1>1. SlotOf(id)' = SlotOf(id)
  BY DEF SlotOf
<1>2. Live(id)' <=> Live(id)
  BY <1>1 DEF Live
<1>3. Nums(id)' = Nums(id) /\ \A n : Semp(id, n)' = Semp(id, n)
  BY <1>1 DEF Nums, Semp
<1>4. Members(id)' = Members(id)
  BY <1>3 DEF Members
<1> QED
  BY <1>2, <1>3, <1>4

LEMMA UnusedKept ==
  ASSUME HeadersOK, Unused, sema' = sema, Seqs,
         \A j \in Sema : j \notin Taken => sem'[j].semval = sem[j].semval
  PROVE  Unused' /\ Seqs'
<1>1. Taken' = Taken
  <2>1. LiveIds' = LiveIds
    BY DEF LiveIds, IdOf
  <2>2. \A id : Members(id)' = Members(id)
    BY SameHeader
  <2> QED
    BY Zenon, <2>1, <2>2 DEF Taken
<1>2. Unused'
  BY Zenon, <1>1 DEF Unused
<1>3. Seqs'
  BY DEF Seqs
<1> QED
  BY <1>2, <1>3

LEMMA AttemptElsewhere ==
  ASSUME SemInv, NEW p \in Proc, NEW id \in Nat, NEW ops \in Vector, Tries(p, id, ops)
  PROVE  \A j \in Sema : j \notin Members(id) => sem'[j].semval = sem[j].semval
<1>1. Valid(id, ops) /\ Attempt(p, id, ops) /\ HeadersOK
  BY DEF Tries, SemInv
<1>2. Performed(p, id, ops) \/ Declined(p, id, ops)
  BY <1>1, AttemptDoes
<1>3. \A i \in DOMAIN ops : Semp(id, ops[i].num) \in Members(id)
  BY <1>1, MemberIs DEF Valid
<1>4. CASE Performed(p, id, ops)
  <2>1. Values(sem', id, ops, Len(ops))
    BY Zenon, <1>4 DEF Performed
  <2>2. \A j \in Sema : (\A i \in DOMAIN ops : j # Semp(id, ops[i].num)) => sem'[j].semval = sem[j].semval
    BY Zenon, <2>1 DEF Values
  <2> QED
    BY Zenon, <1>3, <2>2
<1>5. CASE Declined(p, id, ops)
  BY Zenon, <1>5 DEF Declined
<1> QED
  BY <1>2, <1>4, <1>5

LEMMA NextUnused ==
  ASSUME SemInv, Unused, Seqs, [Next]_vars
  PROVE  Unused' /\ Seqs'
<1>1. HeadersOK /\ sema \in [Slot -> Header] /\ sem \in Mem
  BY DEF SemInv, HeadersOK
<1>2. \A i : i \in Taken <=> \E id \in Nat : Live(id) /\ i \in Members(id)
  BY Zenon, <1>1, TakenIs DEF Registered
<1>3. CASE \E p \in Proc, id \in Nat, ops \in Vector : Tries(p, id, ops)
  <2>1. PICK p \in Proc, id \in Nat, ops \in Vector : Tries(p, id, ops)
    BY <1>3
  <2>2. Live(id) /\ sema' = sema
    BY <2>1, AttemptDoes DEF Tries, Valid
  <2>3. \A j \in Sema : j \notin Members(id) => sem'[j].semval = sem[j].semval
    BY <2>1, AttemptElsewhere
  <2>4. \A j \in Sema : j \notin Taken => sem'[j].semval = sem[j].semval
    BY Zenon, <1>2, <2>2, <2>3
  <2> QED
    BY <1>1, <2>2, <2>4, UnusedKept
<1>4. CASE \E p \in Proc : RetryFails(p)
  <2>1. sema' = sema /\ sem' = sem
    BY <1>4, RetryFailsDoes
  <2> QED
    BY <1>1, <2>1, UnusedKept
<1>5. CASE \E p \in Proc : Signal(p)
  <2>1. sema' = sema /\ sem' = sem
    BY <1>5, SignalDoes
  <2> QED
    BY <1>1, <2>1, UnusedKept
<1>6. CASE \E p \in Proc : Interrupted(p)
  <2>1. sema' = sema /\ \A j \in Sema : sem'[j].semval = sem[j].semval
    BY <1>6, InterruptedDoes
  <2> QED
    BY <1>1, <2>1, UnusedKept
<1>7. CASE \E p \in Proc : Semexit(p)
  <2>1. /\ sema' = sema
        /\ \A j \in Sema : (\A id \in Nat : Live(id) => j \notin Members(id)) => sem'[j].semval = sem[j].semval
    BY <1>7, SemexitDoes
  <2>2. \A j \in Sema : j \notin Taken => sem'[j].semval = sem[j].semval
    BY Zenon, <1>2, <2>1
  <2> QED
    BY <1>1, <2>1, <2>2, UnusedKept
<1>8. CASE \E n \in 1 .. SEMMSL : Semget(n)
  <2>1. PICK n \in 1 .. SEMMSL : Semget(n)
    BY <1>8
  <2>2. /\ sem' = sem
        /\ \E s \in Slot, b \in Nat :
             /\ ~sema[s].alloc /\ \A j \in b .. b + n - 1 : j \in Sema /\ j \notin Taken
             /\ sema'[s] = [alloc |-> TRUE, seq |-> sema[s].seq, base |-> b, nsems |-> n]
             /\ \A t \in Slot : t # s => sema'[t] = sema[t]
    BY Zenon, <2>1, SemgetDoes
  <2>3. PICK s \in Slot : /\ ~sema[s].alloc /\ sema'[s].seq = sema[s].seq
                          /\ \A t \in Slot : t # s => sema'[t] = sema[t]
    BY <2>2
  <2>4. Seqs'
    BY <2>3 DEF Seqs
  <2>5. ASSUME NEW id \in Nat, Live(id) PROVE Live(id)' /\ Members(id)' = Members(id)
    <3>1. SlotOf(id) # s /\ SlotOf(id) \in Slot
      BY <2>3, <2>5, SlotIs DEF Live
    <3>2. sema'[SlotOf(id)] = sema[SlotOf(id)]
      BY Zenon, <2>3, <3>1
    <3> QED
      BY <2>5, <3>2, SameHeader
  <2>6. HeadersOK'
    BY NextKeeps DEF SemInv
  <2>7. \A i : i \in Taken' <=> \E id \in Nat : Live(id)' /\ i \in Members(id)'
    BY Zenon, <2>6, TakenThen DEF Registered
  <2>8. Unused'
    <3>1. \A i : i \in Taken => i \in Taken'
      BY Zenon, <1>2, <2>5, <2>7
    <3>2. \A i \in Sema : i \notin Taken' => sem[i].semval = 0
      BY Zenon, <3>1 DEF Unused
    <3> QED
      BY Zenon, <2>2, <3>2 DEF Unused
  <2> QED
    BY <2>4, <2>8
<1>9. CASE \E id \in Nat : Rmid(id)
  <2>1. PICK id \in Nat : Rmid(id)
    BY <1>9
  <2>2. PICK s : s = SlotOf(id)
    OBVIOUS
  <2>3. /\ s \in Slot /\ Live(id) /\ sema[s].seq < MaxSeq /\ sema'[s].seq = sema[s].seq + 1
        /\ \A t \in Slot : t # s => sema'[t] = sema[t]
        /\ \A i \in Sema : sem'[i].semval = IF i \in Members(id) THEN 0 ELSE sem[i].semval
    BY <2>1, <2>2, RmidDoes
  <2>4. Seqs'
    <3>1. sema'[s].seq <= MaxSeq
      BY <1>1, <2>3, HeaderIs, SemAssumption
    <3> QED
      BY <2>3, <3>1 DEF Seqs
  <2>5. ASSUME NEW other \in Nat, Live(other), other # id PROVE Live(other)' /\ Members(other)' = Members(other)
    <3>1. SlotOf(other) # s /\ SlotOf(other) \in Slot
      BY <2>2, <2>3, <2>5, SameSlot, SlotIs
    <3>2. sema'[SlotOf(other)] = sema[SlotOf(other)]
      BY Zenon, <2>3, <3>1
    <3> QED
      BY <2>5, <3>2, SameHeader
  <2>6. HeadersOK'
    BY NextKeeps DEF SemInv
  <2>7. \A i : i \in Taken' <=> \E x \in Nat : Live(x)' /\ i \in Members(x)'
    BY Zenon, <2>6, TakenThen DEF Registered
  <2>8. Unused'
    <3>1. ASSUME NEW i \in Sema, i \notin Taken' PROVE sem'[i].semval = 0
      <4>1. CASE i \in Members(id)
        BY <2>3, <4>1
      <4>2. CASE i \notin Members(id)
        <5>1. i \notin Taken
          BY Zenon, <1>2, <2>5, <2>7, <3>1, <4>2
        <5>2. sem[i].semval = 0
          BY Zenon, <5>1 DEF Unused
        <5> QED
          BY <2>3, <4>2, <5>2
      <4> QED
        BY <4>1, <4>2
    <3> QED
      BY Zenon, <3>1 DEF Unused
  <2> QED
    BY <2>4, <2>8
<1>10. CASE \E id \in Nat : \E vals : \E low \in Nat, high \in Nat : Assigns(id, vals, low, high)
  <2>1. PICK id \in Nat : \E vals : \E low \in Nat, high \in Nat : Assigns(id, vals, low, high)
    BY <1>10
  <2>2. sema' = sema /\ Live(id) /\ \A j \in Sema : j \notin Members(id) => sem'[j].semval = sem[j].semval
    BY <2>1, AssignsDoes DEF Assigns
  <2>3. \A j \in Sema : j \notin Taken => sem'[j].semval = sem[j].semval
    BY Zenon, <1>2, <2>2
  <2> QED
    BY <1>1, <2>2, <2>3, UnusedKept
<1>11. CASE UNCHANGED vars
  <2>1. sema' = sema /\ sem' = sem
    BY <1>11 DEF vars
  <2> QED
    BY <1>1, <2>1, UnusedKept
<1> QED
  BY Zenon, <1>3, <1>4, <1>5, <1>6, <1>7, <1>8, <1>9, <1>10, <1>11, Steps

LEMMA InitUnused == Init => Unused /\ Seqs
<1> SUFFICES ASSUME Init PROVE Unused /\ Seqs
  OBVIOUS
<1>1. \A s \in Slot : sema[s].seq = 0
  BY DEF Init
<1>2. \A i \in Sema : sem[i].semval = 0
  BY DEF Init
<1>3. 0 <= MaxSeq
  BY SemAssumption
<1> QED
  BY <1>1, <1>2, <1>3 DEF Unused, Seqs

------------------------------------------------------------------------------
(* The adjustments of AtomicSem.                                           *)

LEMMA RestrictIs ==
  ASSUME NEW f, NEW S, NEW g, g = Restrict(f, S)
  PROVE  DOMAIN g = S /\ Function(g) /\ \A k \in S : g[k] = f[k]
BY DEF Restrict, Function

Forgets(a, D, b) ==
  /\ DOMAIN b = DOMAIN a \ D /\ Function(b) /\ \A k \in DOMAIN b : b[k] = a[k]
  /\ \A k : Atomic!Amount(b, k) = IF k \in D THEN 0 ELSE Atomic!Amount(a, k)

LEMMA DroppedIs ==
  ASSUME NEW a, NEW D, NEW b, b = Atomic!Dropped(a, D)
  PROVE  Forgets(a, D, b)
<1>1. b = Restrict(a, DOMAIN a \ D)
  BY DEF Atomic!Dropped, Atomic!Restrict, Restrict
<1>2. DOMAIN b = DOMAIN a \ D /\ Function(b) /\ \A k \in DOMAIN b : b[k] = a[k]
  BY <1>1, RestrictIs
<1>3. ASSUME NEW k PROVE Atomic!Amount(b, k) = IF k \in D THEN 0 ELSE Atomic!Amount(a, k)
  BY Zenon, <1>2 DEF Atomic!Amount
<1> QED
  BY Zenon, <1>2, <1>3 DEF Forgets

LEMMA NonzeroIs ==
  ASSUME NEW f, NEW b, b = Atomic!Nonzero(f)
  PROVE  /\ DOMAIN b \subseteq DOMAIN f /\ Function(b) /\ \A k \in DOMAIN b : b[k] # 0
         /\ \A k : Atomic!Amount(b, k) = IF k \in DOMAIN f THEN f[k] ELSE 0
<1> DEFINE S == {k \in DOMAIN f : f[k] # 0}
<1>1. b = Restrict(f, S)
  BY DEF Atomic!Nonzero, Atomic!Restrict, Restrict
<1>2. DOMAIN b = S /\ Function(b) /\ \A k \in S : b[k] = f[k]
  BY <1>1, RestrictIs
<1>3. \A k : k \in S <=> k \in DOMAIN f /\ f[k] # 0
  OBVIOUS
<1> HIDE DEF S
<1>4. ASSUME NEW k PROVE Atomic!Amount(b, k) = IF k \in DOMAIN f THEN f[k] ELSE 0
  BY Zenon, <1>2, <1>3 DEF Atomic!Amount
<1> QED
  BY <1>2, <1>3, <1>4

LEMMA AdjIn ==
  ASSUME NEW K \in SUBSET Key, NEW ent \in Lists(K)
  PROVE  /\ Function(AdjOf(ent)) /\ DOMAIN AdjOf(ent) \subseteq Key
         /\ \A k \in DOMAIN AdjOf(ent) : AdjOf(ent)[k] # 0
<1>1. AdjOf(ent) = [k \in DOMAIN AdjOf(ent) |-> AdjOf(ent)[k]]
  BY Zenon, AdjIs
<1>2. Function(AdjOf(ent))
  BY Zenon, <1>1 DEF Function
<1>3. ASSUME NEW k \in DOMAIN AdjOf(ent) PROVE k \in Key /\ Owes(ent, k) # 0
  BY OwesIn
<1>4. \A k \in DOMAIN AdjOf(ent) : AdjOf(ent)[k] # 0
  BY Zenon, <1>3 DEF Owes, Atomic!Amount
<1> QED
  BY <1>2, <1>3, <1>4

(* What is owed of a semaphore that no operation names does not change.    *)
LEMMA OweNone ==
  ASSUME NEW ops \in Seq(Sembuf), NEW n, \A i \in DOMAIN ops : ops[i].num # n
  PROVE  \A k \in 0 .. Len(ops) : Owe(ops, n)[k] = 0
<1> DEFINE T == {k \in Nat : k <= Len(ops) => Owe(ops, n)[k] = 0}
<1>1. /\ Owe(ops, n)[0] = 0
      /\ \A k \in 1 .. Len(ops) : Owe(ops, n)[k] = Owe(ops, n)[k - 1] + Owed(ops[k], n)
  BY OweIs
<1>2. Len(ops) \in Nat /\ DOMAIN ops = 1 .. Len(ops)
  OBVIOUS
<1>3. \A k \in 1 .. Len(ops) : Owed(ops[k], n) = 0
  BY Zenon, <1>2 DEF Owed
<1>4. 0 \in T
  BY <1>1
<1>5. ASSUME NEW k \in T PROVE k + 1 \in T
  <2>1. SUFFICES ASSUME k + 1 <= Len(ops) PROVE Owe(ops, n)[k + 1] = 0
    OBVIOUS
  <2>2. k \in Nat /\ k + 1 \in 1 .. Len(ops) /\ (k + 1) - 1 = k /\ Owe(ops, n)[k] = 0
    BY <1>2, <2>1
  <2> QED
    BY <1>1, <1>3, <2>2
<1>6. T \in SUBSET Nat
  OBVIOUS
<1> HIDE DEF T
<1>7. T = Nat
  BY <1>4, <1>5, <1>6, Upwards
<1>8. \A k \in 0 .. Len(ops) : k \in Nat /\ k <= Len(ops)
  BY <1>2
<1> QED
  BY <1>7, <1>8 DEF T

(* The adjustments b are those of the list ent after the vector ops on the *)
(* set id, none of them zero.                                              *)
RecordsOps(b, ent, id, ops) ==
  /\ Function(b) /\ DOMAIN b \subseteq Key /\ \A k \in DOMAIN b : b[k] # 0
  /\ \A k \in Key : Atomic!Amount(b, k) = Owes(ent, k) - Took(id, ops, k, Len(ops))

LEMMA AdjustedIs ==
  ASSUME NEW K \in SUBSET Key, NEW ent \in Lists(K), NEW id \in Nat, NEW ops \in Seq(Sembuf),
         NEW b, b = Atomic!Adjusted(AdjOf(ent), id, ops)
  PROVE  RecordsOps(b, ent, id, ops)
<1> DEFINE a == AdjOf(ent)
           D == DOMAIN a \cup {<<id, ops[i].num>> : i \in DOMAIN ops}
           f == [k \in D |-> Atomic!Amount(a, k) - (IF k[1] = id THEN Atomic!Undone(ops, k[2]) ELSE 0)]
<1>1. b = Atomic!Nonzero(f)
  BY DEF Atomic!Adjusted
<1>2. DOMAIN f = D
  OBVIOUS
<1>3. \A k \in D : f[k] = Owes(ent, k) - Took(id, ops, k, Len(ops))
  BY DEF Owes, Took, Owe, Atomic!Undone
<1>4. D \subseteq Key
  <2>1. DOMAIN a \subseteq Key
    BY AdjIn
  <2>2. \A i \in DOMAIN ops : <<id, ops[i].num>> \in Key
    BY SembufIs DEF Key
  <2> QED
    BY <2>1, <2>2
<1>5. /\ \A k : k \notin D => k \notin DOMAIN a /\ \A i \in DOMAIN ops : k # <<id, ops[i].num>>
  OBVIOUS
<1> HIDE DEF D, f
<1>6. /\ DOMAIN b \subseteq D /\ Function(b) /\ \A k \in DOMAIN b : b[k] # 0
      /\ \A k : Atomic!Amount(b, k) = IF k \in D THEN f[k] ELSE 0
  BY <1>1, <1>2, NonzeroIs
<1>7. ASSUME NEW k \in Key PROVE Atomic!Amount(b, k) = Owes(ent, k) - Took(id, ops, k, Len(ops))
  <2>1. CASE k \in D
    BY Zenon, <1>3, <1>6, <2>1
  <2>2. CASE k \notin D
    <3>1. Owes(ent, k) = 0
      BY <1>5, <2>2, OwesIn
    <3>2. Took(id, ops, k, Len(ops)) = 0
      <4>1. CASE k[1] = id
        <5>1. \A i \in DOMAIN ops : ops[i].num # k[2]
          BY <1>5, <2>2, <4>1 DEF Key
        <5>2. Len(ops) \in 0 .. Len(ops)
          OBVIOUS
        <5>3. Owe(ops, k[2])[Len(ops)] = 0
          BY <5>1, <5>2, OweNone
        <5> QED
          BY <4>1, <5>3 DEF Took
      <4>2. CASE k[1] # id
        BY <4>2 DEF Took
      <4> QED
        BY <4>1, <4>2
    <3>3. Atomic!Amount(b, k) = 0
      BY Zenon, <1>6, <2>2
    <3> QED
      BY <3>1, <3>2, <3>3
  <2> QED
    BY <2>1, <2>2
<1> QED
  BY Zenon, <1>4, <1>6, <1>7 DEF RecordsOps

(* A list with the same amounts has the same adjustments.                  *)
LEMMA SameAdj ==
  ASSUME NEW K \in SUBSET Key, NEW ent \in Lists(K), NEW b, Function(b), DOMAIN b \subseteq Key,
         \A k \in DOMAIN b : b[k] # 0,
         \A k \in Key : Owes(ent, k) = Atomic!Amount(b, k)
  PROVE  AdjOf(ent) = b
<1> DEFINE a == AdjOf(ent)
<1>1. Function(a) /\ \A k \in DOMAIN a : a[k] # 0
  BY AdjIn
<1>2. \A k : Atomic!Amount(a, k) = Atomic!Amount(b, k)
  <2>1. ASSUME NEW k, k \notin Key PROVE Owes(ent, k) = 0 /\ Atomic!Amount(b, k) = 0
    <3>1. k \notin K /\ k \notin DOMAIN b
      BY <2>1
    <3> QED
      BY <3>1, OwesIn DEF Atomic!Amount
  <2> QED
    BY Zenon, <2>1 DEF Owes
<1> HIDE DEF a
<1>3. a = b
  BY <1>1, <1>2, SameAmounts
<1> QED
  BY <1>3 DEF a

LEMMA SameOwes ==
  ASSUME NEW K \in SUBSET Key, NEW J \in SUBSET Key, NEW ent \in Lists(K), NEW new \in Lists(J),
         \A k \in Key : Owes(new, k) = Owes(ent, k)
  PROVE  AdjOf(new) = AdjOf(ent)
<1> DEFINE b == AdjOf(ent)
<1>1. Function(b) /\ DOMAIN b \subseteq Key /\ \A k \in DOMAIN b : b[k] # 0
  BY AdjIn
<1>2. \A k \in Key : Owes(new, k) = Atomic!Amount(b, k)
  BY Zenon DEF Owes
<1> HIDE DEF b
<1>3. AdjOf(new) = b
  BY <1>1, <1>2, SameAdj
<1> QED
  BY <1>3 DEF b

------------------------------------------------------------------------------
(* What AtomicSem sees: the values, the adjustments and the requests.      *)

AVal  == [id \in LiveIds |-> SetVal(id)]
AAdj  == [p \in Proc |-> Adj(p)]
AWant == [p \in Proc |-> Wanted(p)]

Request(r)  == IF r = NoCall THEN NoCall ELSE <<r.id, r.ops>>
WantOf(f)   == [p \in Proc |-> Request(f[p])]
AdjsOf(u)   == [p \in Proc |-> AdjOf(u[p].ent)]

LEMMA Seen == AAdj = AdjsOf(undo) /\ AWant = WantOf(frame)
BY DEF AAdj, Adj, AdjsOf, AWant, Wanted, WantOf, Request

LEMMA SeenThen == AAdj' = AdjsOf(undo') /\ AWant' = WantOf(frame')
BY DEF AAdj, Adj, AdjsOf, AWant, Wanted, WantOf, Request

LEMMA Requested ==
  ASSUME NEW f \in [Proc -> Frame \cup {NoCall}], NEW p \in Proc, NEW r, NEW g, g = [f EXCEPT ![p] = r]
  PROVE  WantOf(g) = [WantOf(f) EXCEPT ![p] = Request(r)]
<1>1. \A q \in Proc : g[q] = IF q = p THEN r ELSE f[q]
  OBVIOUS
<1> QED
  BY Zenon, <1>1 DEF WantOf

LEMMA Asked ==
  ASSUME NEW f, NEW p \in Proc
  PROVE  WantOf(f)[p] = Request(f[p])
BY DEF WantOf

LEMMA AskedIs ==
  ASSUME NEW r \in Frame
  PROVE  r # NoCall /\ Request(r) = <<r.id, r.ops>> /\ Request(r) # NoCall
<1>1. NoCall \notin Frame /\ NoCall \notin Nat \X Vector
  BY SemAssumption
<1>2. r # NoCall /\ <<r.id, r.ops>> \in Nat \X Vector
  BY <1>1, FrameIs
<1> QED
  BY <1>1, <1>2 DEF Request

LEMMA NoneAsked == Request(NoCall) = NoCall
BY DEF Request

(* The adjustments of one process change, or those of none.                *)
LEMMA AdjsPut ==
  ASSUME NEW u, NEW v, NEW p \in Proc, \A q \in Proc : q # p => v[q] = u[q],
         NEW a, AdjOf(v[p].ent) = a
  PROVE  AdjsOf(v) = [AdjsOf(u) EXCEPT ![p] = a]
BY Zenon DEF AdjsOf

LEMMA AdjsSame ==
  ASSUME NEW u, NEW v, NEW p \in Proc, \A q \in Proc : q # p => v[q] = u[q],
         AdjOf(v[p].ent) = AdjOf(u[p].ent)
  PROVE  AdjsOf(v) = AdjsOf(u)
<1>1. \A q \in Proc : AdjOf(v[q].ent) = AdjOf(u[q].ent)
  OBVIOUS
<1> QED
  BY Zenon, <1>1 DEF AdjsOf

(* The values of a set whose header stays as it is.                        *)
LEMMA ValueThen ==
  ASSUME NEW id, sema'[SlotOf(id)] = sema[SlotOf(id)], NEW v, Function(v), DOMAIN v = Nums(id),
         \A n \in Nums(id) : sem'[Semp(id, n)].semval = v[n]
  PROVE  SetVal(id)' = v
<1>1. Nums(id)' = Nums(id) /\ \A n : Semp(id, n)' = Semp(id, n)
  BY SameHeader
<1>2. SetVal(id)' = [n \in Nums(id) |-> sem'[Semp(id, n)].semval]
  BY Zenon, <1>1 DEF SetVal
<1>3. SetVal(id)' = [n \in Nums(id) |-> v[n]]
  BY Zenon, <1>2
<1> QED
  BY Zenon, <1>3 DEF Function

LEMMA SetValIs ==
  ASSUME NEW id
  PROVE  /\ DOMAIN SetVal(id) = Nums(id) /\ Function(SetVal(id))
         /\ \A n \in Nums(id) : SetVal(id)[n] = sem[Semp(id, n)].semval
BY DEF SetVal, Function

LEMMA AValIs ==
  DOMAIN AVal = LiveIds /\ Function(AVal) /\ \A id \in LiveIds : AVal[id] = SetVal(id)
BY DEF AVal, Function

LEMMA AValThen ==
  ASSUME NEW v, Function(v), DOMAIN v = LiveIds', \A id \in LiveIds' : v[id] = SetVal(id)'
  PROVE  AVal' = v
<1>1. AVal' = [id \in LiveIds' |-> SetVal(id)']
  BY DEF AVal
<1>2. AVal' = [id \in DOMAIN v |-> v[id]]
  BY Zenon, <1>1
<1> QED
  BY Zenon, <1>2 DEF Function

LEMMA LiveIdsSame ==
  ASSUME sema' = sema
  PROVE  LiveIds' = LiveIds
BY DEF LiveIds, IdOf

(* Nothing changes the values.                                             *)
LEMMA AValSame ==
  ASSUME sema' = sema, HeadersOK, \A j \in Sema : sem'[j].semval = sem[j].semval
  PROVE  AVal' = AVal
<1>1. ASSUME NEW id \in LiveIds PROVE AVal[id] = SetVal(id)'
  <2>1. \A n \in Nums(id) : Semp(id, n) \in Sema
    BY LiveIs, MemberIs DEF HeadersOK
  <2>2. \A n \in Nums(id) : sem'[Semp(id, n)].semval = SetVal(id)[n]
    BY Zenon, <2>1, SetValIs
  <2>3. SetVal(id)' = SetVal(id)
    BY <2>2, SetValIs, ValueThen
  <2> QED
    BY Zenon, <2>3, AValIs
<1>2. LiveIds' = LiveIds
  BY LiveIdsSame
<1>3. Function(AVal) /\ DOMAIN AVal = LiveIds' /\ \A id \in LiveIds' : AVal[id] = SetVal(id)'
  BY Zenon, <1>1, <1>2, AValIs
<1> QED
  BY <1>3, AValThen

------------------------------------------------------------------------------
(* The steps of AtomicSem, of what it sees.                                *)

LEMMA AsPerform ==
  ASSUME NEW p \in Proc, NEW id, NEW ops, AWant[p] \in {NoCall, <<id, ops>>},
         Atomic!Executable(AVal[id], ops),
         AVal' = [AVal EXCEPT ![id] = Atomic!After(AVal[id], ops)],
         AAdj' = [AAdj EXCEPT ![p] = Atomic!Adjusted(AAdj[p], id, ops)],
         \A k \in DOMAIN AAdj'[p] : AAdj'[p][k] \in -SEMAEM .. SEMAEM,
         AWant' = [AWant EXCEPT ![p] = NoCall]
  PROVE  Atomic!Perform(p, id, ops)
BY DEF Atomic!Perform, AVal, AAdj, AWant

LEMMA AsWait ==
  ASSUME NEW p \in Proc, NEW id, NEW ops, AWant[p] = NoCall, ~Atomic!Executable(AVal[id], ops),
         AVal' = AVal, AAdj' = AAdj, AWant' = [AWant EXCEPT ![p] = <<id, ops>>]
  PROVE  Atomic!Wait(p, id, ops)
BY DEF Atomic!Wait, AVal, AAdj, AWant

LEMMA AsGiveUp ==
  ASSUME NEW p \in Proc, AWant[p] # NoCall,
         AVal' = AVal, AAdj' = AAdj, AWant' = [AWant EXCEPT ![p] = NoCall]
  PROVE  Atomic!GiveUp(p)
BY DEF Atomic!GiveUp, AVal, AAdj, AWant

LEMMA AsCreate ==
  ASSUME NEW id, NEW n, id \notin LiveIds, NEW v, v = [num \in 0 .. n - 1 |-> 0],
         AVal' = [i \in LiveIds \cup {id} |-> IF i = id THEN v ELSE AVal[i]],
         AAdj' = AAdj, AWant' = AWant
  PROVE  Atomic!Create(id, n)
<1>1. DOMAIN AVal = LiveIds
  BY AValIs
<1> QED
  BY <1>1 DEF Atomic!Create, AVal, AAdj, AWant

LEMMA AsDestroy ==
  ASSUME NEW id, AVal' = Atomic!Restrict(AVal, LiveIds \ {id}),
         AAdj' = [p \in Proc |-> Atomic!Dropped(AAdj[p], {k \in DOMAIN AAdj[p] : k[1] = id})],
         AWant' = AWant
  PROVE  Atomic!Destroy(id)
<1>1. DOMAIN AVal = LiveIds
  BY AValIs
<1> QED
  BY <1>1 DEF Atomic!Destroy, AVal, AAdj, AWant

LEMMA AsSet ==
  ASSUME NEW id, NEW new, NEW v, v = [n \in DOMAIN AVal[id] |-> IF n \in DOMAIN new THEN new[n] ELSE AVal[id][n]],
         AVal' = [AVal EXCEPT ![id] = v],
         AAdj' = [p \in Proc |-> Atomic!Dropped(AAdj[p], {<<id, n>> : n \in DOMAIN new})],
         AWant' = AWant
  PROVE  Atomic!Set(id, new)
BY DEF Atomic!Set, AVal, AAdj, AWant

LEMMA AsExit ==
  ASSUME NEW p \in Proc, AWant[p] = NoCall,
         AVal' = [id \in LiveIds |-> [n \in DOMAIN AVal[id] |->
                    Settled(AVal[id][n], Atomic!Amount(AAdj[p], <<id, n>>))]],
         AAdj' = [AAdj EXCEPT ![p] = [k \in {} |-> 0]],
         AWant' = AWant
  PROVE  Atomic!Exit(p)
<1>1. DOMAIN AVal = LiveIds
  BY AValIs
<1> QED
  BY <1>1 DEF Atomic!Exit, AVal, AAdj, AWant, Settled

------------------------------------------------------------------------------
(* semop(), tried.                                                         *)

(* The undo entries of every process are a list, before and after a step.  *)
Listed == \A p \in Proc : \E K \in SUBSET Key : undo[p].ent \in Lists(K)

LEMMA ListedIs == SemInv => Listed
<1> SUFFICES ASSUME SemInv, NEW p \in Proc PROVE \E K \in SUBSET Key : undo[p].ent \in Lists(K)
  BY DEF Listed
<1>1. undo \in Tables(Keys)
  BY DEF SemInv
<1>2. undo[p].ent \in Lists(Keys)
  BY <1>1 DEF Tables, Structure
<1> QED
  BY <1>2, KeysIs

LEMMA ListedThen == SemInv' => Listed'
BY ListedIs, PTL

LEMMA KindCalls ==
  ASSUME SemInv
  PROVE  Calls(pc, frame) /\ HeadersOK /\ sem \in Mem /\ frame \in [Proc -> Frame \cup {NoCall}]
BY DEF SemInv, Calls

(* The values of one set change.                                           *)
LEMMA AValPut ==
  ASSUME sema' = sema, HeadersOK, NEW id \in LiveIds, NEW v, Function(v), DOMAIN v = Nums(id),
         \A n \in Nums(id) : sem'[Semp(id, n)].semval = v[n],
         \A j \in Sema : j \notin Members(id) => sem'[j].semval = sem[j].semval
  PROVE  AVal' = [AVal EXCEPT ![id] = v]
<1> DEFINE w == [AVal EXCEPT ![id] = v]
<1>1. Function(w) /\ DOMAIN w = LiveIds /\ \A i \in LiveIds : w[i] = IF i = id THEN v ELSE AVal[i]
  BY AValIs DEF Function
<1> HIDE DEF w
<1>2. ASSUME NEW i \in LiveIds PROVE w[i] = SetVal(i)'
  <2>1. CASE i = id
    <3>1. SetVal(id)' = v
      BY ValueThen
    <3> QED
      BY <1>1, <2>1, <3>1
  <2>2. CASE i # id
    <3>1. i \in Nat /\ Live(i) /\ id \in Nat /\ Live(id)
      BY LiveIs DEF HeadersOK
    <3>2. \A n \in Nums(i) : Semp(i, n) \in Sema /\ Semp(i, n) \notin Members(id)
      <4>1. Members(i) \cap Members(id) = {}
        BY <2>2, <3>1 DEF HeadersOK
      <4>2. \A n \in Nums(i) : Semp(i, n) \in Sema /\ Semp(i, n) \in Members(i)
        BY <3>1, MemberIs
      <4> QED
        BY <4>1, <4>2
    <3>3. \A n \in Nums(i) : sem'[Semp(i, n)].semval = SetVal(i)[n]
      BY Zenon, <3>2, SetValIs
    <3>4. SetVal(i)' = SetVal(i)
      BY <3>3, SetValIs, ValueThen
    <3>5. w[i] = AVal[i] /\ AVal[i] = SetVal(i)
      BY Zenon, <1>1, <2>2, AValIs
    <3> QED
      BY <3>4, <3>5
  <2> QED
    BY <2>1, <2>2
<1>3. LiveIds' = LiveIds
  BY LiveIdsSame
<1>4. DOMAIN w = LiveIds' /\ \A i \in LiveIds' : w[i] = SetVal(i)'
  BY Zenon, <1>1, <1>2, <1>3
<1>5. AVal' = w
  BY <1>1, <1>4, AValThen
<1> QED
  BY <1>5 DEF w

(* A vector that is executable finds what each operation asks for.         *)
LEMMA ExecutableIs ==
  ASSUME NEW id, NEW ops \in Vector, Valid(id, ops), NEW v, v = SetVal(id)
  PROVE  Atomic!Executable(v, ops) <=> \A k \in 1 .. Len(ops) : Served(id, ops, k)
<1>1. DOMAIN ops = 1 .. Len(ops)
  BY VectorIs
<1>2. \A k \in 1 .. Len(ops) : ops[k].num \in DOMAIN v /\ Atomic!Found(v, ops, k) = Meets(id, ops, k)
  <2>1. \A k \in 1 .. Len(ops) : ops[k].num \in Nums(id)
    BY Zenon, <1>1 DEF Valid
  <2>2. DOMAIN v = Nums(id) /\ \A n \in Nums(id) : v[n] = sem[Semp(id, n)].semval
    BY SetValIs
  <2> QED
    BY Zenon, <2>1, <2>2 DEF Atomic!Found, Meets, Sum
<1> QED
  BY Zenon, <1>1, <1>2 DEF Atomic!Executable, Served

LEMMA BlocksNot ==
  ASSUME NEW K, NEW p, NEW id, NEW ops, Ready(K, p, id, ops), NEW k \in 1 .. Len(ops), Blocks(id, ops, k)
  PROVE  ~Served(id, ops, k)
<1>1. ops[k].op \in Int /\ Meets(id, ops, k) \in Int
  BY MeetsIs
<1> QED
  BY <1>1 DEF Blocks, Served

(* The requests.                                                           *)
LEMMA WantPut ==
  ASSUME SemInv, NEW p \in Proc, NEW r, frame' = [frame EXCEPT ![p] = r]
  PROVE  AWant' = [AWant EXCEPT ![p] = Request(r)]
<1>1. frame \in [Proc -> Frame \cup {NoCall}]
  BY KindCalls
<1>2. PICK f, g : f = frame /\ g = frame'
  OBVIOUS
<1>3. f \in [Proc -> Frame \cup {NoCall}] /\ g = [f EXCEPT ![p] = r]
  BY Zenon, <1>1, <1>2
<1>4. WantOf(g) = [WantOf(f) EXCEPT ![p] = Request(r)]
  BY <1>3, Requested
<1> QED
  BY Zenon, <1>2, <1>4, Seen, SeenThen

LEMMA WantNone ==
  ASSUME SemInv, NEW p \in Proc, frame' = [frame EXCEPT ![p] = NoCall]
  PROVE  AWant' = [AWant EXCEPT ![p] = NoCall]
<1>1. AWant' = [AWant EXCEPT ![p] = Request(NoCall)]
  BY WantPut
<1> QED
  BY Zenon, <1>1, NoneAsked

LEMMA WantHere ==
  ASSUME SemInv, NEW p \in Proc
  PROVE  /\ Idle(pc, p) => AWant[p] = NoCall
         /\ ~Idle(pc, p) => AWant[p] = <<frame[p].id, frame[p].ops>> /\ AWant[p] # NoCall
<1>1. AWant[p] = Request(frame[p])
  BY Seen, Asked
<1>2. Calls(pc, frame)
  BY KindCalls
<1>3. CASE Idle(pc, p)
  BY Zenon, <1>1, <1>2, <1>3, NoneAsked DEF Calls
<1>4. CASE ~Idle(pc, p)
  <2>1. frame[p] \in Frame
    BY <1>2, <1>4, CallIs
  <2> QED
    BY <1>1, <1>4, <2>1, AskedIs
<1> QED
  BY <1>3, <1>4

LEMMA ReadyBase ==
  ASSUME SemInv, NEW p \in Proc, NEW id \in Nat, NEW ops \in Vector, Valid(id, ops)
  PROVE  /\ Ready(Keys, p, id, ops) /\ id \in LiveIds /\ AVal[id] = SetVal(id) /\ ops \in Seq(Sembuf)
         /\ \A n \in Nums(id) : n \in Nat /\ Semp(id, n) \in Sema
<1>1. HeadersOK /\ Live(id)
  BY KindCalls DEF Valid
<1>2. id \in LiveIds
  BY <1>1, LiveIs DEF HeadersOK
<1> QED
  BY <1>1, <1>2, ReadyHere, AValIs, VectorIs, MemberIs

(* The adjustments after a vector is performed.                            *)
LEMMA AccountsAdj ==
  ASSUME SemInv, SemInv', NEW p \in Proc, NEW id \in Nat, NEW ops \in Seq(Sembuf),
         Accounts(undo', p, id, ops, Len(ops))
  PROVE  /\ AAdj' = [AAdj EXCEPT ![p] = Atomic!Adjusted(AAdj[p], id, ops)]
         /\ \A k \in DOMAIN AAdj'[p] : AAdj'[p][k] \in -SEMAEM .. SEMAEM
<1>1. PICK K, J : /\ K \in SUBSET Key /\ undo[p].ent \in Lists(K)
                  /\ J \in SUBSET Key /\ undo'[p].ent \in Lists(J)
  BY ListedIs, ListedThen DEF Listed
<1>2. PICK a, b, e : a = AdjOf(undo[p].ent) /\ b = Atomic!Adjusted(a, id, ops) /\ e = undo'[p].ent
  OBVIOUS
<1>3. /\ Function(b) /\ DOMAIN b \subseteq Key /\ \A k \in DOMAIN b : b[k] # 0
      /\ \A k \in Key : Atomic!Amount(b, k) = Owes(undo[p].ent, k) - Took(id, ops, k, Len(ops))
  <2>1. PICK c \in Lists(K) : c = undo[p].ent /\ b = Atomic!Adjusted(AdjOf(c), id, ops)
    BY Zenon, <1>1, <1>2
  <2>2. RecordsOps(b, c, id, ops)
    BY <1>1, <2>1, AdjustedIs
  <2> QED
    BY Zenon, <2>1, <2>2 DEF RecordsOps
<1>4. /\ \A q \in Proc : q # p => undo'[q] = undo[q]
      /\ \A k \in Key : Owes(undo'[p].ent, k) = Owes(undo[p].ent, k) - Took(id, ops, k, Len(ops))
  BY Zenon DEF Accounts
<1>5. \A k \in Key : Owes(e, k) = Atomic!Amount(b, k)
  BY Zenon, <1>2, <1>3, <1>4
<1>6. e \in Lists(J)
  BY <1>1, <1>2
<1>7. AdjOf(e) = b
  BY <1>1, <1>3, <1>5, <1>6, SameAdj
<1>8. AdjsOf(undo') = [AdjsOf(undo) EXCEPT ![p] = b]
  <2>1. PICK u, v : u = undo /\ v = undo'
    OBVIOUS
  <2>2. (\A q \in Proc : q # p => v[q] = u[q]) /\ AdjOf(v[p].ent) = b
    BY Zenon, <1>2, <1>4, <1>7, <2>1
  <2>3. AdjsOf(v) = [AdjsOf(u) EXCEPT ![p] = b]
    BY Zenon, <2>2 DEF AdjsOf
  <2> QED
    BY Zenon, <2>1, <2>3
<1>9. AAdj[p] = a /\ AAdj'[p] = b
  BY Zenon, <1>2, <1>7, Seen, SeenThen DEF AdjsOf
<1>10. AAdj' = [AAdj EXCEPT ![p] = Atomic!Adjusted(AAdj[p], id, ops)]
  BY Zenon, <1>2, <1>8, <1>9, Seen, SeenThen
<1>11. ASSUME NEW k \in DOMAIN b PROVE b[k] \in -SEMAEM .. SEMAEM
  <2>1. Owes(e, k) \in Int /\ Abs(Owes(e, k)) <= SEMAEM
    BY <1>1, <1>6, OwesIn
  <2>2. Owes(e, k) = b[k]
    BY Zenon, <1>7, <1>11 DEF Owes, Atomic!Amount
  <2> QED
    BY <2>1, <2>2, Constants DEF Abs
<1> QED
  BY Zenon, <1>9, <1>10, <1>11

LEMMA PerformActs ==
  ASSUME SemInv, SemInv', NEW p \in Proc, NEW id \in Nat, NEW ops \in Vector,
         Tries(p, id, ops), Performed(p, id, ops)
  PROVE  Atomic!Perform(p, id, ops)
<1>1. Valid(id, ops) /\ sema' = sema /\ HeadersOK
  BY AttemptDoes, KindCalls DEF Tries
<1>2. /\ Ready(Keys, p, id, ops) /\ id \in LiveIds /\ AVal[id] = SetVal(id) /\ ops \in Seq(Sembuf)
      /\ \A n \in Nums(id) : n \in Nat /\ Semp(id, n) \in Sema
  BY <1>1, ReadyBase
<1>3. /\ Values(sem', id, ops, Len(ops)) /\ Accounts(undo', p, id, ops, Len(ops))
      /\ \A k \in 1 .. Len(ops) : Served(id, ops, k)
      /\ frame' = [frame EXCEPT ![p] = NoCall]
  BY Zenon DEF Performed
<1>4. PICK v : v = SetVal(id)
  OBVIOUS
<1>5. Atomic!Executable(v, ops)
  BY <1>1, <1>3, <1>4, ExecutableIs
<1>6. PICK w : w = Atomic!After(v, ops)
  OBVIOUS
<1>7. Function(w) /\ DOMAIN w = Nums(id) /\ \A n \in Nums(id) : w[n] = sem[Semp(id, n)].semval + Sum(ops, n)[Len(ops)]
  <2>1. w = [n \in Nums(id) |-> v[n] + Sum(ops, n)[Len(ops)]]
    BY Zenon, <1>4, <1>6, SetValIs DEF Atomic!After, Sum
  <2>2. \A n \in Nums(id) : v[n] = sem[Semp(id, n)].semval
    BY <1>4, SetValIs
  <2> QED
    BY <2>1, <2>2 DEF Function
<1>8. \A n \in Nums(id) : sem'[Semp(id, n)].semval = w[n]
  BY Zenon, <1>2, <1>3, <1>7 DEF Values
<1>9. \A j \in Sema : j \notin Members(id) => sem'[j].semval = sem[j].semval
  BY AttemptElsewhere
<1>10. AVal' = [AVal EXCEPT ![id] = w]
  BY <1>1, <1>2, <1>7, <1>8, <1>9, AValPut
<1>11. /\ AAdj' = [AAdj EXCEPT ![p] = Atomic!Adjusted(AAdj[p], id, ops)]
       /\ \A k \in DOMAIN AAdj'[p] : AAdj'[p][k] \in -SEMAEM .. SEMAEM
  BY <1>2, <1>3, AccountsAdj
<1>12. AWant' = [AWant EXCEPT ![p] = NoCall]
  BY <1>3, WantNone
<1>13. AWant[p] \in {NoCall, <<id, ops>>}
  <2>1. Idle(pc, p) \/ (frame[p].id = id /\ frame[p].ops = ops)
    BY DEF Tries
  <2> QED
    BY <2>1, WantHere
<1>14. Atomic!Executable(AVal[id], ops) /\ AVal' = [AVal EXCEPT ![id] = Atomic!After(AVal[id], ops)]
  BY Zenon, <1>2, <1>4, <1>5, <1>6, <1>10
<1> QED
  BY <1>11, <1>12, <1>13, <1>14 DEF Atomic!Perform, AVal, AAdj, AWant

(* One that stops leaves the values and the adjustments as they were.      *)
LEMMA OwingAdj ==
  ASSUME SemInv, SemInv', NEW p \in Proc, Owing(undo', undo, p)
  PROVE  AAdj' = AAdj
<1>1. PICK K, J : /\ K \in SUBSET Key /\ undo[p].ent \in Lists(K)
                  /\ J \in SUBSET Key /\ undo'[p].ent \in Lists(J)
  BY ListedIs, ListedThen DEF Listed
<1>2. /\ \A q \in Proc : q # p => undo'[q] = undo[q]
      /\ \A k \in Key : Owes(undo'[p].ent, k) = Owes(undo[p].ent, k)
  BY Zenon DEF Owing
<1>3. PICK a, b, u, v : a = undo[p].ent /\ b = undo'[p].ent /\ u = undo /\ v = undo'
  OBVIOUS
<1>4. a \in Lists(K) /\ b \in Lists(J) /\ \A k \in Key : Owes(b, k) = Owes(a, k)
  BY Zenon, <1>1, <1>2, <1>3
<1>5. AdjOf(b) = AdjOf(a)
  BY <1>1, <1>4, SameOwes
<1>6. AdjOf(v[p].ent) = AdjOf(u[p].ent) /\ \A q \in Proc : q # p => v[q] = u[q]
  BY Zenon, <1>2, <1>3, <1>5
<1>7. AdjsOf(v) = AdjsOf(u)
  BY <1>6, AdjsSame
<1> QED
  BY Zenon, <1>3, <1>7, Seen, SeenThen

LEMMA AsStutter ==
  ASSUME AVal' = AVal, AAdj' = AAdj, AWant' = AWant
  PROVE  UNCHANGED Atomic!vars
BY DEF Atomic!vars, AVal, AAdj, AWant

LEMMA SameWant ==
  ASSUME NEW p \in Proc, NEW r, r = AWant[p]
  PROVE  [AWant EXCEPT ![p] = r] = AWant
BY DEF AWant

LEMMA CallOfIs ==
  ASSUME NEW K, NEW p, NEW id \in Nat, NEW ops \in Vector, Ready(K, p, id, ops), NEW k \in 1 .. Len(ops)
  PROVE  Request(CallOf(id, ops, k)) = <<id, ops>>
<1>1. Semp(id, ops[k].num) \in Sema
  BY MeetsIs
<1>2. Semp(id, ops[k].num) \in Int
  BY <1>1 DEF Sema
<1>3. KindOf(ops[k]) \in Kind
  BY Zenon DEF KindOf, Kind
<1>4. CallOf(id, ops, k) \in Frame /\ CallOf(id, ops, k).id = id /\ CallOf(id, ops, k).ops = ops
  BY <1>2, <1>3 DEF CallOf, Frame
<1> QED
  BY <1>4, AskedIs

LEMMA DeclineActs ==
  ASSUME SemInv, SemInv', NEW p \in Proc, NEW id \in Nat, NEW ops \in Vector,
         Tries(p, id, ops), Declined(p, id, ops)
  PROVE  Atomic!Wait(p, id, ops) \/ Atomic!GiveUp(p) \/ UNCHANGED Atomic!vars
<1>1. Valid(id, ops) /\ sema' = sema /\ HeadersOK
  BY AttemptDoes, KindCalls DEF Tries
<1>2. Ready(Keys, p, id, ops) /\ AVal[id] = SetVal(id)
  BY <1>1, ReadyBase
<1>3. /\ \A j \in Sema : sem'[j].semval = sem[j].semval
      /\ Owing(undo', undo, p)
      /\ frame' = [frame EXCEPT ![p] = NoCall] \/ \E k \in 1 .. Len(ops) : Waits(p, id, ops, k)
  BY Zenon DEF Declined
<1>4. AVal' = AVal /\ AAdj' = AAdj
  BY <1>1, <1>3, AValSame, OwingAdj
<1>5. /\ Idle(pc, p) => AWant[p] = NoCall
      /\ ~Idle(pc, p) => AWant[p] = <<frame[p].id, frame[p].ops>> /\ AWant[p] # NoCall
  BY WantHere
<1>6. CASE frame' = [frame EXCEPT ![p] = NoCall]
  <2>1. AWant' = [AWant EXCEPT ![p] = NoCall]
    BY <1>6, WantNone
  <2>2. CASE Idle(pc, p)
    <3>1. AWant' = AWant
      BY <1>5, <2>1, <2>2, SameWant
    <3> QED
      BY <1>4, <3>1, AsStutter
  <2>3. CASE ~Idle(pc, p)
    BY <1>4, <1>5, <2>1, <2>3, AsGiveUp
  <2> QED
    BY <2>2, <2>3
<1>7. CASE \E k \in 1 .. Len(ops) : Waits(p, id, ops, k)
  <2>1. PICK k \in 1 .. Len(ops) : Waits(p, id, ops, k)
    BY <1>7
  <2>2. frame' = [frame EXCEPT ![p] = CallOf(id, ops, k)] /\ Blocks(id, ops, k)
    BY Zenon, <2>1 DEF Waits
  <2>3. AWant' = [AWant EXCEPT ![p] = Request(CallOf(id, ops, k))]
    BY <2>2, WantPut
  <2>4. AWant' = [AWant EXCEPT ![p] = <<id, ops>>]
    <3>1. Request(CallOf(id, ops, k)) = <<id, ops>>
      BY <1>2, CallOfIs
    <3> QED
      BY <2>3, <3>1
  <2>5. CASE Idle(pc, p)
    <3>1. ~Served(id, ops, k)
      BY <1>2, <2>2, BlocksNot
    <3>2. PICK v : v = SetVal(id)
      OBVIOUS
    <3>3. ~Atomic!Executable(v, ops)
      BY <1>1, <3>1, <3>2, ExecutableIs
    <3>4. ~Atomic!Executable(AVal[id], ops)
      BY Zenon, <1>2, <3>2, <3>3
    <3> QED
      BY <1>4, <1>5, <2>4, <2>5, <3>4, AsWait
  <2>6. CASE ~Idle(pc, p)
    <3>1. frame[p].id = id /\ frame[p].ops = ops
      BY <2>6 DEF Tries
    <3>2. AWant' = AWant
      BY <1>5, <2>4, <2>6, <3>1, SameWant
    <3> QED
      BY <1>4, <3>2, AsStutter
  <2> QED
    BY <2>5, <2>6
<1> QED
  BY <1>3, <1>6, <1>7

(* A process that leaves semop(): it gives up.                             *)
LEMMA LeaveActs ==
  ASSUME SemInv, NEW p \in Proc, ~Idle(pc, p), sema' = sema, undo' = undo,
         \A j \in Sema : sem'[j].semval = sem[j].semval, frame' = [frame EXCEPT ![p] = NoCall]
  PROVE  Atomic!GiveUp(p)
<1>1. AVal' = AVal
  BY KindCalls, AValSame
<1>2. AAdj' = AAdj
  BY Zenon, Seen, SeenThen
<1>3. AWant' = [AWant EXCEPT ![p] = NoCall] /\ AWant[p] # NoCall
  BY WantNone, WantHere
<1> QED
  BY <1>1, <1>2, <1>3, AsGiveUp

LEMMA QuietActs ==
  ASSUME SemInv, sema' = sema, undo' = undo, frame' = frame,
         \A j \in Sema : sem'[j].semval = sem[j].semval
  PROVE  UNCHANGED Atomic!vars
<1>1. AVal' = AVal
  BY KindCalls, AValSame
<1>2. AAdj' = AAdj /\ AWant' = AWant
  BY Zenon, Seen, SeenThen
<1> QED
  BY <1>1, <1>2, AsStutter

------------------------------------------------------------------------------
(* semctl(): the adjustments of a range of semaphores are forgotten.       *)

LEMMA DropAdj ==
  ASSUME NEW K \in SUBSET Key, NEW ent \in Lists(K), NEW id \in Nat, NEW low \in Nat, NEW high \in Nat,
         low <= high + 1, NEW D, \A k \in DOMAIN AdjOf(ent) : k \in D <=> Within(k, id, low, high),
         NEW t, t = Semunrm(ent, id, low, high)
  PROVE  AdjOf(t) = Atomic!Dropped(AdjOf(ent), D)
<1>1. PICK a, b : a = AdjOf(ent) /\ b = Atomic!Dropped(a, D)
  OBVIOUS
<1>2. /\ DOMAIN b = DOMAIN a \ D /\ Function(b) /\ \A k \in DOMAIN b : b[k] = a[k]
      /\ \A k : Atomic!Amount(b, k) = IF k \in D THEN 0 ELSE Atomic!Amount(a, k)
  <2>1. Forgets(a, D, b)
    BY <1>1, DroppedIs
  <2> QED
    BY Zenon, <2>1 DEF Forgets
<1>3. Function(a) /\ DOMAIN a \subseteq Key /\ \A k \in DOMAIN a : a[k] # 0
  BY <1>1, AdjIn
<1>4. DOMAIN b \subseteq Key /\ \A k \in DOMAIN b : b[k] # 0
  BY <1>2, <1>3
<1>5. t \in Lists(K)
  BY SemunrmKeeps
<1>6. \A k \in Key : Owes(t, k) = IF Within(k, id, low, high) THEN 0 ELSE Owes(ent, k)
  BY SemunrmOwes
<1>7. \A k : Owes(ent, k) = Atomic!Amount(a, k)
  BY Zenon, <1>1 DEF Owes
<1>8. \A k : k \notin DOMAIN a => Atomic!Amount(a, k) = 0
  BY Zenon DEF Atomic!Amount
<1>9. ASSUME NEW k \in Key PROVE Owes(t, k) = Atomic!Amount(b, k)
  <2>1. CASE k \in DOMAIN a
    <3>1. k \in D <=> Within(k, id, low, high)
      BY <1>1, <2>1
    <3> QED
      BY Zenon, <1>2, <1>6, <1>7, <3>1
  <2>2. CASE k \notin DOMAIN a
    BY Zenon, <1>2, <1>6, <1>7, <1>8, <2>2
  <2> QED
    BY <2>1, <2>2
<1>10. AdjOf(t) = b
  BY <1>2, <1>4, <1>5, <1>9, SameAdj
<1> QED
  BY <1>1, <1>10

LEMMA UndoIs ==
  ASSUME SemInv, NEW p \in Proc
  PROVE  /\ undo[p] \in [has : BOOLEAN, ent : Lists(Keys)] /\ undo[p].ent \in Lists(Keys)
         /\ AAdj[p] = AdjOf(undo[p].ent) /\ DOMAIN AAdj[p] \subseteq Keys
<1>1. undo \in Tables(Keys) /\ Keys \in SUBSET Key
  BY KeysIs DEF SemInv
<1>2. undo[p] \in [has : BOOLEAN, ent : Lists(Keys)]
  BY <1>1 DEF Tables, Structure
<1>3. undo[p].ent \in Lists(Keys)
  BY <1>2
<1>4. AAdj[p] = AdjOf(undo[p].ent)
  BY Seen DEF AdjsOf
<1>5. \A k \in DOMAIN AdjOf(undo[p].ent) : k \in Keys
  BY <1>1, <1>3, OwesIn
<1> QED
  BY <1>2, <1>3, <1>4, <1>5

LEMMA DropAll ==
  ASSUME SemInv, NEW id \in Nat, NEW low \in Nat, NEW high \in Nat, low <= high + 1,
         undo' = SemunrmAll(id, low, high),
         NEW D, \A p \in Proc : \A k \in DOMAIN AAdj[p] : k \in D[p] <=> Within(k, id, low, high)
  PROVE  AAdj' = [p \in Proc |-> Atomic!Dropped(AAdj[p], D[p])]
<1>1. ASSUME NEW p \in Proc PROVE AdjOf(undo'[p].ent) = Atomic!Dropped(AAdj[p], D[p])
  <2>1. /\ undo[p] \in [has : BOOLEAN, ent : Lists(Keys)] /\ undo[p].ent \in Lists(Keys)
        /\ AAdj[p] = AdjOf(undo[p].ent) /\ Keys \in SUBSET Key
    BY UndoIs, KeysIs
  <2>2. PICK ent, t, d : ent = undo[p].ent /\ t = Semunrm(ent, id, low, high) /\ d = D[p]
    OBVIOUS
  <2>3. undo'[p].ent = t
    <3>1. undo'[p] = [undo[p] EXCEPT !.ent = t]
      BY Zenon, <2>2 DEF SemunrmAll
    <3> QED
      BY <2>1, <3>1
  <2>4. ent \in Lists(Keys) /\ \A k \in DOMAIN AdjOf(ent) : k \in d <=> Within(k, id, low, high)
    BY Zenon, <2>1, <2>2
  <2>5. AdjOf(t) = Atomic!Dropped(AdjOf(ent), d)
    BY <2>1, <2>2, <2>4, DropAdj
  <2> QED
    BY Zenon, <2>1, <2>2, <2>3, <2>5
<1>2. AAdj' = [p \in Proc |-> AdjOf(undo'[p].ent)]
  BY Zenon, SeenThen DEF AdjsOf
<1> QED
  BY Zenon, <1>1, <1>2

LEMMA AssignActs ==
  ASSUME SemInv, NEW id \in Nat, NEW vals, NEW low \in Nat, NEW high \in Nat, Assigns(id, vals, low, high)
  PROVE  id \in LiveIds /\ Atomic!Set(id, vals) /\ DOMAIN vals \subseteq DOMAIN AVal[id]
<1>1. /\ Live(id) /\ DOMAIN vals \subseteq Nums(id) /\ Function(vals) /\ low <= high + 1
      /\ \A n \in Nums(id) : n \in DOMAIN vals <=> low <= n /\ n <= high
      /\ undo' = SemunrmAll(id, low, high) /\ HeadersOK
  BY KindCalls DEF Assigns
<1>2. id \in LiveIds /\ AVal[id] = SetVal(id)
  BY <1>1, LiveIs, AValIs DEF HeadersOK
<1>3. PICK a, v : a = SetVal(id) /\ v = [n \in Nums(id) |-> IF n \in DOMAIN vals THEN vals[n] ELSE a[n]]
  OBVIOUS
<1>4. DOMAIN a = Nums(id) /\ \A n \in Nums(id) : a[n] = sem[Semp(id, n)].semval
  BY <1>3, SetValIs
<1>5. Function(v) /\ DOMAIN v = Nums(id) /\ \A n \in Nums(id) : v[n] = IF n \in DOMAIN vals THEN vals[n] ELSE a[n]
  BY <1>3 DEF Function
<1>6. /\ sema' = sema /\ frame' = frame
      /\ \A n \in Nums(id) : sem'[Semp(id, n)].semval = IF n \in DOMAIN vals THEN vals[n] ELSE sem[Semp(id, n)].semval
      /\ \A j \in Sema : j \notin Members(id) => sem'[j].semval = sem[j].semval
  BY AssignsDoes
<1>7. \A n \in Nums(id) : sem'[Semp(id, n)].semval = v[n]
  BY Zenon, <1>4, <1>5, <1>6
<1>8. AVal' = [AVal EXCEPT ![id] = v]
  BY <1>1, <1>2, <1>5, <1>6, <1>7, AValPut
<1>9. PICK D : D = [p \in Proc |-> {<<id, n>> : n \in DOMAIN vals}]
  OBVIOUS
<1>10. \A p \in Proc : \A k \in DOMAIN AAdj[p] : k \in D[p] <=> Within(k, id, low, high)
  <2>1. SUFFICES ASSUME NEW p \in Proc, NEW k \in DOMAIN AAdj[p] PROVE k \in D[p] <=> Within(k, id, low, high)
    OBVIOUS
  <2>2. k \in Keys
    BY <2>1, UndoIs
  <2>3. k = <<k[1], k[2]>> /\ k[2] \in Nums(k[1])
    BY <2>2 DEF Keys, Key
  <2>4. k \in D[p] <=> k[1] = id /\ k[2] \in DOMAIN vals
    BY <1>9, <2>3
  <2> QED
    BY <1>1, <2>3, <2>4 DEF Within
<1>11. AAdj' = [p \in Proc |-> Atomic!Dropped(AAdj[p], {<<id, n>> : n \in DOMAIN vals})]
  <2>1. AAdj' = [p \in Proc |-> Atomic!Dropped(AAdj[p], D[p])]
    BY <1>1, <1>10, DropAll
  <2> QED
    BY Zenon, <1>9, <2>1
<1>12. AWant' = AWant
  BY Zenon, <1>6, Seen, SeenThen
<1>13. v = [n \in DOMAIN AVal[id] |-> IF n \in DOMAIN vals THEN vals[n] ELSE AVal[id][n]]
  BY Zenon, <1>2, <1>3, <1>4
<1>14. Atomic!Set(id, vals)
  BY Zenon, <1>8, <1>11, <1>12, <1>13, AsSet
<1> QED
  BY <1>1, <1>2, <1>3, <1>4, <1>14

(* semctl(IPC_RMID).                                                       *)
LEMMA RmidLive ==
  ASSUME SemInv, SemInv', NEW id \in Nat, Rmid(id)
  PROVE  /\ id \in LiveIds /\ LiveIds' = LiveIds \ {id}
         /\ \A i \in LiveIds' : sema'[SlotOf(i)] = sema[SlotOf(i)]
<1>1. PICK s : s = SlotOf(id)
  OBVIOUS
<1>2. s \in Slot /\ Live(id) /\ ~sema'[s].alloc /\ \A t \in Slot : t # s => sema'[t] = sema[t]
  BY <1>1, RmidDoes
<1>3. HeadersOK /\ HeadersOK'
  BY DEF SemInv
<1>4. (\A i : i \in LiveIds <=> i \in Nat /\ Live(i)) /\ (\A i : i \in LiveIds' <=> i \in Nat /\ Live(i)')
  BY <1>3, TakenIs, TakenThen DEF Registered
<1>5. ASSUME NEW i \in Nat, SlotOf(i) = s PROVE ~Live(i)' /\ (Live(i) => i = id)
  <2>1. ~Live(i)'
    BY <1>2, <1>5 DEF Live, SlotOf
  <2>2. Live(i) => i = id
    BY <1>1, <1>2, <1>5, SameSlot
  <2> QED
    BY <2>1, <2>2
<1>6. ASSUME NEW i \in Nat, SlotOf(i) # s PROVE sema'[SlotOf(i)] = sema[SlotOf(i)] /\ (Live(i)' <=> Live(i)) /\ i # id
  <2>1. sema'[SlotOf(i)] = sema[SlotOf(i)]
    BY <1>2, <1>6, SlotIs
  <2> QED
    BY <1>1, <1>6, <2>1, SameHeader
<1>7. \A i : i \in LiveIds' <=> i \in LiveIds /\ i # id
  BY <1>1, <1>4, <1>5, <1>6
<1>8. \A i \in LiveIds' : sema'[SlotOf(i)] = sema[SlotOf(i)]
  BY Zenon, <1>4, <1>5, <1>6
<1> QED
  BY <1>2, <1>4, <1>7, <1>8

LEMMA RmidActs ==
  ASSUME SemInv, SemInv', NEW id \in Nat, Rmid(id)
  PROVE  id \in LiveIds /\ Atomic!Destroy(id)
<1>1. /\ id \in LiveIds /\ LiveIds' = LiveIds \ {id}
      /\ \A i \in LiveIds' : sema'[SlotOf(i)] = sema[SlotOf(i)]
  BY RmidLive
<1>2. PICK s : s = SlotOf(id)
  OBVIOUS
<1>3. /\ s \in Slot /\ Live(id) /\ frame' = frame
      /\ undo' = SemunrmAll(id, 0, sema[s].nsems)
      /\ \A i \in Sema : sem'[i].semval = IF i \in Members(id) THEN 0 ELSE sem[i].semval
  BY <1>2, RmidDoes
<1>4. HeadersOK
  BY KindCalls
<1>5. PICK v : v = Restrict(AVal, LiveIds \ {id})
  OBVIOUS
<1>6. DOMAIN v = LiveIds \ {id} /\ Function(v) /\ \A i \in LiveIds \ {id} : v[i] = AVal[i]
  BY <1>5, RestrictIs
<1>7. ASSUME NEW i \in LiveIds, i # id PROVE v[i] = SetVal(i)'
  <2>1. i \in Nat /\ Live(i) /\ sema'[SlotOf(i)] = sema[SlotOf(i)]
    BY <1>1, <1>4, <1>7, LiveIs DEF HeadersOK
  <2>2. \A n \in Nums(i) : Semp(i, n) \in Sema /\ Semp(i, n) \notin Members(id)
    <3>1. Members(i) \cap Members(id) = {}
      BY <1>3, <1>4, <1>7, <2>1 DEF HeadersOK
    <3>2. \A n \in Nums(i) : Semp(i, n) \in Sema /\ Semp(i, n) \in Members(i)
      BY <1>4, <2>1, MemberIs
    <3> QED
      BY <3>1, <3>2
  <2>3. \A n \in Nums(i) : sem'[Semp(i, n)].semval = SetVal(i)[n]
    BY Zenon, <1>3, <2>2, SetValIs
  <2>4. SetVal(i)' = SetVal(i)
    BY <2>1, <2>3, SetValIs, ValueThen
  <2> QED
    BY <1>6, <1>7, <2>4, AValIs
<1>8. DOMAIN v = LiveIds' /\ \A i \in LiveIds' : v[i] = SetVal(i)'
  BY <1>1, <1>6, <1>7
<1>9. AVal' = v
  BY <1>6, <1>8, AValThen
<1>10. AVal' = Atomic!Restrict(AVal, LiveIds \ {id})
  BY <1>5, <1>9 DEF Atomic!Restrict, Restrict
<1>11. PICK D : D = [p \in Proc |-> {k \in DOMAIN AAdj[p] : k[1] = id}]
  OBVIOUS
<1>12. PICK high \in Nat : high = sema[s].nsems
  BY <1>2, <1>3, <1>4, MemberIs
<1>13. \A p \in Proc : \A k \in DOMAIN AAdj[p] : k \in D[p] <=> Within(k, id, 0, high)
  <2>1. SUFFICES ASSUME NEW p \in Proc, NEW k \in DOMAIN AAdj[p] PROVE k \in D[p] <=> Within(k, id, 0, high)
    OBVIOUS
  <2>2. k \in Keys
    BY <2>1, UndoIs
  <2>3. k[2] \in Nums(k[1])
    BY <2>2 DEF Keys
  <2>4. k \in D[p] <=> k[1] = id
    BY <1>11, <2>1
  <2>5. k[1] = id => 0 <= k[2] /\ k[2] <= high
    BY <1>2, <1>12, <2>3 DEF Nums
  <2> QED
    BY <2>4, <2>5 DEF Within
<1>14. AAdj' = [p \in Proc |-> Atomic!Dropped(AAdj[p], {k \in DOMAIN AAdj[p] : k[1] = id})]
  <2>1. undo' = SemunrmAll(id, 0, high) /\ 0 \in Nat /\ 0 <= high + 1
    BY <1>3, <1>12
  <2>2. AAdj' = [p \in Proc |-> Atomic!Dropped(AAdj[p], D[p])]
    BY <1>12, <1>13, <2>1, DropAll
  <2> QED
    BY Zenon, <1>11, <2>2
<1>15. AWant' = AWant
  BY Zenon, <1>3, Seen, SeenThen
<1>16. Atomic!Destroy(id)
  BY Zenon, <1>10, <1>14, <1>15, AsDestroy
<1> QED
  BY <1>1, <1>16

(* semget(): the semaphores of a new set were in none, so their values are *)
(* zero.                                                                   *)
LEMMA IdRange ==
  ASSUME NEW s \in Slot, NEW q \in Nat, q <= MaxSeq
  PROVE  q * SEMMNI + s \in Id
<1>1. SEMMNI \in Nat \ {0} /\ MaxSeq \in Nat
  BY SemAssumption
<1>2. PICK N, M : N = SEMMNI /\ M = MaxSeq
  OBVIOUS
<1>3. N \in Nat \ {0} /\ M \in Nat /\ s \in 0 .. N - 1 /\ q <= M
  BY <1>1, <1>2 DEF Slot
<1>4. q * N + N <= (M + 1) * N
  <2>1. q \in Int /\ M + 1 \in Int /\ q < M + 1
    BY <1>3
  <2> QED
    BY <1>3, <2>1, Multiples
<1>5. (M + 1) * N = N * (M + 1) /\ q * N \in Nat /\ (M + 1) * N \in Nat
  BY <1>3
<1>6. 0 <= q * N + s /\ q * N + s <= N * (M + 1) - 1 /\ q * N + s \in Int
  BY <1>3, <1>4, <1>5
<1> QED
  BY <1>2, <1>6 DEF Id

LEMMA SemgetActs ==
  ASSUME SemInv, SemInv', Unused, Seqs, NEW n \in 1 .. SEMMSL, Semget(n)
  PROVE  \E id \in Id : Atomic!Create(id, n)
<1>1. /\ sem' = sem /\ undo' = undo /\ frame' = frame
      /\ \E s \in Slot, b \in Nat :
           /\ ~sema[s].alloc /\ \A j \in b .. b + n - 1 : j \in Sema /\ j \notin Taken
           /\ sema'[s] = [alloc |-> TRUE, seq |-> sema[s].seq, base |-> b, nsems |-> n]
           /\ \A t \in Slot : t # s => sema'[t] = sema[t]
  BY SemgetDoes
<1>2. PICK s \in Slot, b \in Nat :
        /\ ~sema[s].alloc /\ \A j \in b .. b + n - 1 : j \in Sema /\ j \notin Taken
        /\ sema'[s] = [alloc |-> TRUE, seq |-> sema[s].seq, base |-> b, nsems |-> n]
        /\ \A t \in Slot : t # s => sema'[t] = sema[t]
  BY <1>1
<1>3. HeadersOK /\ HeadersOK'
  BY DEF SemInv
<1>4. PICK q \in Nat : q = sema[s].seq
  BY <1>3, HeaderIs DEF HeadersOK
<1>5. PICK id \in Nat : id = q * SEMMNI + s
  BY IdIs
<1>6. SlotOf(id) = s /\ id \div SEMMNI = q
  BY <1>5, IdIs
<1>7. id \in Id
  BY <1>4, <1>5, IdRange DEF Seqs
<1>8. (\A i : i \in LiveIds <=> i \in Nat /\ Live(i)) /\ (\A i : i \in LiveIds' <=> i \in Nat /\ Live(i)')
  BY <1>3, TakenIs, TakenThen DEF Registered
<1>9. sema'[s].alloc /\ sema'[s].seq = q /\ sema'[s].base = b /\ sema'[s].nsems = n
  BY <1>2, <1>4
<1>10. SlotOf(id)' = s
  BY <1>6 DEF SlotOf
<1>11. Live(id)' /\ ~Live(id)
  BY <1>2, <1>6, <1>9, <1>10 DEF Live
<1>12. ASSUME NEW i \in Nat, SlotOf(i) = s PROVE ~Live(i) /\ (Live(i)' => i = id)
  <2>1. ~Live(i)
    BY <1>2, <1>12 DEF Live
  <2>2. ASSUME Live(i)' PROVE i = id
    <3>1. SlotOf(i)' = s
      BY <1>12 DEF SlotOf
    <3>2. i \div SEMMNI = q
      BY <1>9, <2>2, <3>1 DEF Live
    <3>3. i = (i \div SEMMNI) * SEMMNI + SlotOf(i)
      BY SlotIs
    <3> QED
      BY Zenon, <1>5, <1>12, <3>2, <3>3
  <2> QED
    BY <2>1, <2>2
<1>13. ASSUME NEW i \in Nat, SlotOf(i) # s
       PROVE  sema'[SlotOf(i)] = sema[SlotOf(i)] /\ (Live(i)' <=> Live(i)) /\ i # id
  <2>1. sema'[SlotOf(i)] = sema[SlotOf(i)]
    BY <1>2, <1>13, SlotIs
  <2> QED
    BY <1>6, <1>13, <2>1, SameHeader
<1>14. LiveIds' = LiveIds \cup {id} /\ id \notin LiveIds
  BY <1>8, <1>11, <1>12, <1>13
<1>15. PICK z, v : z = [num \in 0 .. n - 1 |-> 0] /\ v = [i \in LiveIds \cup {id} |-> IF i = id THEN z ELSE AVal[i]]
  OBVIOUS
<1>16. Function(v) /\ DOMAIN v = LiveIds' /\ v[id] = z /\ \A i \in LiveIds : v[i] = AVal[i]
  <2>1. DOMAIN v = LiveIds'
    BY <1>14, <1>15
  <2>2. Function(v)
    BY <1>15 DEF Function
  <2>3. v[id] = z /\ \A i \in LiveIds : v[i] = AVal[i]
    BY <1>14, <1>15
  <2> QED
    BY <2>1, <2>2, <2>3
<1>17. SetVal(id)' = z
  <2>1. Nums(id)' = 0 .. n - 1 /\ \A k : Semp(id, k)' = b + k
    BY <1>9, <1>10 DEF Nums, Semp
  <2>2. SetVal(id)' = [k \in 0 .. n - 1 |-> sem'[b + k].semval]
    BY Zenon, <2>1 DEF SetVal
  <2>3. ASSUME NEW k \in 0 .. n - 1 PROVE sem'[b + k].semval = 0
    <3>1. b + k \in b .. b + n - 1
      OBVIOUS
    <3>2. b + k \in Sema /\ b + k \notin Taken
      BY <1>2, <3>1
    <3> QED
      BY <1>1, <3>2 DEF Unused
  <2> QED
    BY Zenon, <1>15, <2>2, <2>3
<1>18. ASSUME NEW i \in LiveIds PROVE v[i] = SetVal(i)'
  <2>1. sema'[SlotOf(i)] = sema[SlotOf(i)]
    BY Zenon, <1>8, <1>12, <1>13
  <2>2. \A k \in Nums(i) : sem'[Semp(i, k)].semval = SetVal(i)[k]
    BY Zenon, <1>1, SetValIs
  <2>3. SetVal(i)' = SetVal(i)
    BY <2>1, <2>2, SetValIs, ValueThen
  <2> QED
    BY <1>16, <2>3, AValIs
<1>19. \A i \in LiveIds' : v[i] = SetVal(i)'
  BY <1>14, <1>16, <1>17, <1>18
<1>20. AVal' = v
  BY <1>16, <1>19, AValThen
<1>21. AAdj' = AAdj /\ AWant' = AWant
  BY Zenon, <1>1, Seen, SeenThen
<1>22. AVal' = [i \in LiveIds \cup {id} |-> IF i = id THEN z ELSE AVal[i]]
  BY Zenon, <1>15, <1>20
<1>23. Atomic!Create(id, n)
  BY Zenon, <1>14, <1>15, <1>21, <1>22, AsCreate
<1> QED
  BY <1>7, <1>23

(* exit().                                                                 *)
LEMMA NoEntries == AdjOf(<<>>) = [k \in {} |-> 0]
<1>1. Range(<<>>) = {}
  BY DEF Range
<1>2. {<<e.id, e.num>> : e \in Range(<<>>)} = {}
  BY <1>1
<1> DEFINE V(k) == (CHOOSE e \in Range(<<>>) : <<e.id, e.num>> = k).aoe
<1>3. AdjOf(<<>>) = [k \in {} |-> V(k)]
  BY Zenon, <1>2 DEF AdjOf
<1> HIDE DEF V
<1>4. [k \in {} |-> V(k)] = [k \in {} |-> 0]
  OBVIOUS
<1> QED
  BY <1>3, <1>4

LEMMA SemexitActs ==
  ASSUME SemInv, NEW p \in Proc, Semexit(p)
  PROVE  Atomic!Exit(p)
<1>1. /\ sema' = sema /\ frame' = frame
      /\ undo' = [undo EXCEPT ![p] = [has |-> FALSE, ent |-> <<>>]] /\ Idle(pc, p)
      /\ \A id \in Nat : Live(id) => \A n \in Nums(id) :
           sem'[Semp(id, n)].semval = Settled(sem[Semp(id, n)].semval, Owes(undo[p].ent, <<id, n>>))
  BY SemexitDoes
<1>2. HeadersOK /\ \A id \in LiveIds : id \in Nat /\ Live(id)
  BY KindCalls, LiveIs DEF HeadersOK
<1>3. PICK a : a = AAdj[p]
  OBVIOUS
<1>4. \A k : Owes(undo[p].ent, k) = Atomic!Amount(a, k)
  BY Zenon, <1>3, UndoIs DEF Owes
<1> DEFINE W(id) == [n \in DOMAIN AVal[id] |-> Settled(AVal[id][n], Atomic!Amount(a, <<id, n>>))]
<1>5. PICK w : w = [id \in LiveIds |-> W(id)]
  OBVIOUS
<1>6. ASSUME NEW id \in LiveIds PROVE w[id] = SetVal(id)'
  <2>1. AVal[id] = SetVal(id)
    BY AValIs
  <2>2. PICK v : v = [n \in Nums(id) |-> Settled(SetVal(id)[n], Atomic!Amount(a, <<id, n>>))]
    OBVIOUS
  <2>3. Function(v) /\ DOMAIN v = Nums(id) /\ \A n \in Nums(id) : v[n] = Settled(SetVal(id)[n], Atomic!Amount(a, <<id, n>>))
    BY <2>2 DEF Function
  <2>4. \A n \in Nums(id) : sem'[Semp(id, n)].semval = v[n]
    BY Zenon, <1>1, <1>2, <1>4, <2>3, SetValIs
  <2>5. SetVal(id)' = v
    BY <1>1, <2>3, <2>4, ValueThen
  <2>6. W(id) = v
    BY Zenon, <2>1, <2>2, SetValIs
  <2> QED
    BY Zenon, <1>5, <2>5, <2>6
<1>7. LiveIds' = LiveIds
  BY <1>1, LiveIdsSame
<1>8. Function(w) /\ DOMAIN w = LiveIds' /\ \A id \in LiveIds' : w[id] = SetVal(id)'
  <2>1. Function(w) /\ DOMAIN w = LiveIds
    BY <1>5 DEF Function
  <2> QED
    BY Zenon, <1>6, <1>7, <2>1
<1>9. AVal' = w
  BY <1>8, AValThen
<1>10. AAdj' = [AAdj EXCEPT ![p] = [k \in {} |-> 0]]
  <2>1. PICK u, v, e : u = undo /\ v = undo' /\ e = [has |-> FALSE, ent |-> <<>>]
    OBVIOUS
  <2>2. e.ent = <<>>
    BY <2>1
  <2>3. u \in [Proc -> [has : BOOLEAN, ent : Lists(Keys)]]
    BY <2>1 DEF SemInv, Tables, Structure
  <2>4. v = [u EXCEPT ![p] = e]
    BY Zenon, <1>1, <2>1
  <2>5. v[p] = e /\ \A q \in Proc : q # p => v[q] = u[q]
    BY <2>3, <2>4
  <2>6. AdjOf(v[p].ent) = [k \in {} |-> 0] /\ \A q \in Proc : q # p => v[q] = u[q]
    BY Zenon, <2>2, <2>5, NoEntries
  <2>7. AdjsOf(v) = [AdjsOf(u) EXCEPT ![p] = [k \in {} |-> 0]]
    BY Zenon, <2>6 DEF AdjsOf
  <2> QED
    BY Zenon, <2>1, <2>7, Seen, SeenThen
<1>11. AWant' = AWant
  BY Zenon, <1>1, Seen, SeenThen
<1>12. AWant[p] = NoCall
  BY <1>1, WantHere
<1>13. AVal' = [id \in LiveIds |-> [n \in DOMAIN AVal[id] |->
                  Settled(AVal[id][n], Atomic!Amount(AAdj[p], <<id, n>>))]]
  BY Zenon, <1>3, <1>5, <1>9
<1> QED
  BY Zenon, <1>10, <1>11, <1>12, <1>13, AsExit

------------------------------------------------------------------------------
(* The refinement.                                                         *)
LEMMA InitActs == Init => Atomic!Init
<1>1. SUFFICES ASSUME Init PROVE Atomic!Init
  OBVIOUS
<1>2. LiveIds = {}
  BY <1>1 DEF Init, LiveIds
<1>3. AVal = [id \in {} |-> <<>>]
  BY <1>2 DEF AVal
<1>4. \A p \in Proc : AdjOf(undo[p].ent) = [k \in {} |-> 0]
  <2>1. \A p \in Proc : undo[p].ent = <<>>
    BY <1>1 DEF Init
  <2> QED
    BY Zenon, <2>1, NoEntries
<1>5. AAdj = [p \in Proc |-> [k \in {} |-> 0]]
  BY Zenon, <1>4, Seen DEF AdjsOf
<1>6. \A p \in Proc : frame[p] = NoCall
  BY <1>1 DEF Init
<1>7. AWant = [p \in Proc |-> NoCall]
  BY Zenon, <1>6, NoneAsked, Seen DEF WantOf
<1> QED
  BY <1>3, <1>5, <1>7 DEF Atomic!Init, AVal, AAdj, AWant

(* What AtomicSem allows, of what it sees.                                 *)
Act ==
  \/ \E id \in Id : \E n \in 1 .. SEMMSL : Atomic!Create(id, n)
  \/ \E id \in LiveIds :
       \/ Atomic!Destroy(id)
       \/ \E N \in SUBSET DOMAIN AVal[id] : \E new \in [N -> 0 .. SEMVMX] : Atomic!Set(id, new)
       \/ \E p \in Proc, ops \in Vector : Atomic!Perform(p, id, ops) \/ Atomic!Wait(p, id, ops)
  \/ \E p \in Proc : Atomic!GiveUp(p) \/ Atomic!Exit(p)

LEMMA ActIs == Act => Atomic!Next
<1>1. DOMAIN [id \in LiveIds |-> SetVal(id)] = LiveIds
  OBVIOUS
<1> QED
  BY <1>1 DEF Act, Atomic!Next, AVal

LEMMA AssignsAct ==
  ASSUME SetArg \subseteq Nat, SemInv, NEW id \in Nat, NEW vals, NEW low \in Nat, NEW high \in Nat,
         Assigns(id, vals, low, high)
  PROVE  Act
<1>1. id \in LiveIds /\ Atomic!Set(id, vals) /\ DOMAIN vals \subseteq DOMAIN AVal[id]
  BY AssignActs
<1>2. Function(vals) /\ \A n \in DOMAIN vals : vals[n] \in 0 .. Top
  BY DEF Assigns
<1>3. Top = SEMVMX
  BY DEF Top
<1>4. PICK N : N = DOMAIN vals
  OBVIOUS
<1>5. vals \in [N -> 0 .. SEMVMX]
  BY <1>2, <1>3, <1>4 DEF Function
<1>6. N \in SUBSET DOMAIN AVal[id]
  BY <1>1, <1>4
<1> QED
  BY Zenon, <1>1, <1>5, <1>6 DEF Act

LEMMA NextActs ==
  ASSUME SetArg \subseteq Nat, SemInv, SemInv', Unused, Seqs, [Next]_vars
  PROVE  Atomic!Next \/ UNCHANGED Atomic!vars
<1>1. ASSUME NEW p \in Proc, NEW id \in Nat, NEW ops \in Vector, Tries(p, id, ops)
      PROVE  Act \/ UNCHANGED Atomic!vars
  <2>1. Valid(id, ops) /\ Attempt(p, id, ops)
    BY <1>1 DEF Tries
  <2>2. id \in LiveIds
    BY <2>1, ReadyBase
  <2>3. Performed(p, id, ops) \/ Declined(p, id, ops)
    BY <2>1, AttemptDoes
  <2>4. \/ Atomic!Perform(p, id, ops) \/ Atomic!Wait(p, id, ops) \/ Atomic!GiveUp(p)
        \/ UNCHANGED Atomic!vars
    BY Zenon, <1>1, <2>3, PerformActs, DeclineActs
  <2> QED
    BY Zenon, <2>2, <2>4 DEF Act
<1>2. ASSUME NEW p \in Proc, RetryFails(p) \/ Interrupted(p) PROVE Act
  <2>1. pc \in [Proc -> Where]
    BY DEF SemInv, Calls
  <2>2. /\ sema' = sema /\ undo' = undo /\ frame' = [frame EXCEPT ![p] = NoCall] /\ ~Idle(pc, p)
        /\ \A j \in Sema : sem'[j].semval = sem[j].semval
    <3>1. CASE RetryFails(p)
      BY <2>1, <3>1, RetryFailsDoes, Places
    <3>2. CASE Interrupted(p)
      BY <2>1, <3>2, InterruptedDoes, Places
    <3> QED
      BY <1>2, <3>1, <3>2
  <2>3. Atomic!GiveUp(p)
    BY <2>2, LeaveActs
  <2> QED
    BY Zenon, <2>3 DEF Act
<1>3. ASSUME NEW p \in Proc, Signal(p) PROVE UNCHANGED Atomic!vars
  BY <1>3, SignalDoes, QuietActs
<1>4. ASSUME NEW p \in Proc, Semexit(p) PROVE Act
  BY Zenon, <1>4, SemexitActs DEF Act
<1>5. ASSUME NEW n \in 1 .. SEMMSL, Semget(n) PROVE Act
  BY Zenon, <1>5, SemgetActs DEF Act
<1>6. ASSUME NEW id \in Nat, Rmid(id) PROVE Act
  BY Zenon, <1>6, RmidActs DEF Act
<1>7. ASSUME NEW id \in Nat, NEW vals, NEW low \in Nat, NEW high \in Nat, Assigns(id, vals, low, high) PROVE Act
  BY Zenon, <1>7, AssignsAct
<1>8. ASSUME UNCHANGED vars PROVE UNCHANGED Atomic!vars
  <2>1. sema' = sema /\ undo' = undo /\ frame' = frame /\ sem' = sem
    BY <1>8 DEF vars
  <2> QED
    BY <2>1, QuietActs
<1>9. Act \/ UNCHANGED Atomic!vars
  <2>1. CASE Next
    BY Zenon, <1>1, <1>2, <1>3, <1>4, <1>5, <1>6, <1>7, <2>1, Steps
  <2>2. CASE UNCHANGED vars
    BY Zenon, <1>8, <2>2
  <2> QED
    BY Zenon, <2>1, <2>2
<1> QED
  BY Zenon, <1>9, ActIs

(* semop() does its vector in one step or not at all, whatever it takes    *)
(* back, and a retry performs the vector its own process asked for; exit() *)
(* adds what is left in the undo entries (semop, semundo, semexit).        *)
THEOREM SemImplementsAtomic ==
  ASSUME SetArg \subseteq Nat
  PROVE  Spec => ImplementsAtomic
<1>1. Init => Atomic!Init
  BY InitActs
<1>2. Init => Unused /\ Seqs
  BY InitUnused
<1>3. SemInv /\ Unused /\ Seqs /\ [Next]_vars => Unused' /\ Seqs'
  BY NextUnused
<1>4. SemInv /\ SemInv' /\ Unused /\ Seqs /\ [Next]_vars => [Atomic!Next]_(Atomic!vars)
  BY NextActs
<1> QED
  BY <1>1, <1>2, <1>3, <1>4, SemInvariant, PTL DEF Spec, ImplementsAtomic, Atomic!Spec

=============================================================================
