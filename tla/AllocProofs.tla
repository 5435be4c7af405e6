----------------------------- MODULE AllocProofs -----------------------------
(***************************************************************************)
(* The free blocks, for any number of processes and blocks: s_flock is     *)
(* what alloc() and free() say it is, whatever the list holds; each block  *)
(* is once in the list or in one hand; a list that update() has written    *)
(* is sound; and all of it is allocation from a set of free blocks.        *)
(*                                                                         *)
(* First the lock, then the parts of the list (they are a function of the  *)
(* numbers, so what they do is shown from 0 upwards), then the invariant   *)
(* AllocInv and each step.                                                 *)
(***************************************************************************)
EXTENDS Alloc, FiniteSetTheorems, SequenceTheorems, WellFoundedInduction, TLAPS

Place == {"user", "alloc", "bread", "getblk", "delay",
          "free", "spill", "bwrite", "sync", "synced"}

LockTypes ==
  /\ pc \in [Proc -> Place]
  /\ chan \in [Proc -> BOOLEAN]
  /\ flock \in BOOLEAN

(* ListLocked is inductive once the places and sleeps have their types.    *)
LockInv == LockTypes /\ ListLocked

LEMMA InitLock == Init => LockInv
BY DEF Init, LockInv, LockTypes, ListLocked, Locker, Place

------------------------------------------------------------------------------
(* The four kinds of step, as the lock sees them: they are what the        *)
(* actions of alloc(), free() and update() come down to.                   *)

(* Process p goes on, neither the locker before nor after. *)
LEMMA Passing ==
  ASSUME LockInv, NEW p \in Proc, NEW l \in Place \ {"bread", "spill", "bwrite"},
         ~chan[p], ~Locker(p), Goes(p, l), UNCHANGED <<flock, chan>>
  PROVE  LockInv'
<1>1. LockTypes'
  BY DEF LockInv, LockTypes, Goes
<1>2. \A q \in Proc : Locker(q)' <=> Locker(q)
  BY DEF LockInv, LockTypes, Goes, Locker
<1>3. \A q \in Proc : chan'[q] => flock' /\ pc'[q] \in {"alloc", "free"}
  BY DEF LockInv, LockTypes, ListLocked, Goes
<1> QED BY <1>1, <1>2, <1>3 DEF LockInv, ListLocked

(* Process p finds the list unlocked and locks it. *)
LEMMA Locking ==
  ASSUME LockInv, NEW p \in Proc, NEW l \in {"bread", "spill"},
         ~flock, flock', Goes(p, l), UNCHANGED chan
  PROVE  LockInv'
<1>1. LockTypes'
  BY DEF LockInv, LockTypes, Goes, Place
<1>2. \A q \in Proc : ~chan[q] /\ ~Locker(q)
  BY DEF LockInv, LockTypes, ListLocked
<1>3. \A q \in Proc : Locker(q)' <=> q = p
  BY <1>2 DEF LockInv, LockTypes, Goes, Locker
<1> QED BY <1>1, <1>2, <1>3 DEF LockInv, ListLocked

(* Process p finds the list locked and sleeps for it. *)
LEMMA Sleeping ==
  ASSUME LockInv, NEW p \in Proc, NEW l \in {"alloc", "free"},
         flock, ~Locker(p), Goes(p, l), Sleeps(p), UNCHANGED flock
  PROVE  LockInv'
<1>1. LockTypes'
  BY DEF LockInv, LockTypes, Goes, Sleeps, Place
<1>2. \A q \in Proc : Locker(q)' <=> Locker(q)
  BY DEF LockInv, LockTypes, Goes, Locker
<1>3. \A q \in Proc : chan'[q] => flock' /\ pc'[q] \in {"alloc", "free"}
  BY DEF LockInv, LockTypes, ListLocked, Goes, Sleeps
<1> QED BY <1>1, <1>2, <1>3 DEF LockInv, ListLocked

(* The locker is done and wakes everybody. *)
LEMMA Unlocking ==
  ASSUME LockInv, NEW p \in Proc, NEW l \in Place \ {"bread", "spill", "bwrite"},
         Locker(p), Goes(p, l), Unlock
  PROVE  LockInv'
<1>1. LockTypes'
  BY DEF LockInv, LockTypes, Goes, Unlock
<1>2. \A q \in Proc : ~Locker(q)'
  BY DEF LockInv, LockTypes, ListLocked, Goes, Locker
<1>3. \A q \in Proc : ~chan'[q]
  BY DEF Unlock
<1>4. ~flock'
  BY DEF Unlock
<1> QED BY <1>1, <1>2, <1>3, <1>4 DEF LockInv, ListLocked

------------------------------------------------------------------------------
LEMMA AllocStep ==
  ASSUME LockInv, NEW p \in Proc,
         \/ AllocWaits(p) \/ AllocNone(p) \/ AllocPop(p) \/ AllocRead(p)
         \/ AllocReadError(p) \/ AllocGet(p) \/ Enospc(p)
  PROVE  LockInv'
<1>1. CASE AllocWaits(p)
  <2>1. ~Locker(p)
    BY <1>1 DEF AllocWaits, InAlloc, At, Locker
  <2> QED BY <1>1, <2>1, Sleeping DEF AllocWaits, super
<1>2. CASE AllocNone(p)
  <2>1. ~chan[p] /\ ~Locker(p)
    BY <1>2 DEF AllocNone, InAlloc, At, Locker
  <2> QED BY <1>2, <2>1, Passing DEF AllocNone, Nospace, Place
<1>3. CASE AllocPop(p)
  <2>1. ~chan[p] /\ ~Locker(p)
    BY <1>3 DEF AllocPop, InAlloc, At, Locker
  <2>2. CASE Len(sfree) = 1
    BY <1>3, <2>2, Locking DEF AllocPop
  <2>3. CASE Len(sfree) # 1
    <3>1. ~flock /\ ~flock'
      BY <1>3, <2>3 DEF AllocPop
    <3>2. flock' = flock
      BY <1>3, <2>3, <3>1 DEF AllocPop, LockInv, LockTypes
    <3> QED BY <1>3, <2>1, <2>3, <3>2, Passing DEF AllocPop, Place
  <2> QED BY <2>2, <2>3
<1>4. CASE AllocRead(p)
  <2>1. Locker(p)
    BY <1>4 DEF AllocRead, At, Locker
  <2> QED BY <1>4, <2>1, Unlocking DEF AllocRead, Place
<1>5. CASE AllocReadError(p)
  <2>1. Locker(p)
    BY <1>5 DEF AllocReadError, At, Locker
  <2> QED BY <1>5, <2>1, Unlocking DEF AllocReadError, Nospace, Place
<1>6. CASE AllocGet(p) \/ Enospc(p)
  <2>1. ~chan[p] /\ ~Locker(p)
    BY <1>6 DEF AllocGet, Enospc, At, Locker
  <2> QED BY <1>6, <2>1, Passing DEF AllocGet, Enospc, super, Place
<1> QED BY <1>1, <1>2, <1>3, <1>4, <1>5, <1>6

(* One look of free() at the list, from wherever it comes. *)
LEMMA FreeLook ==
  ASSUME LockInv, NEW p \in Proc, NEW b, ~chan[p], ~Locker(p), FreeIt(p, b)
  PROVE  LockInv'
<1>1. CASE flock
  BY <1>1, Sleeping DEF FreeIt
<1>2. CASE ~flock
  <2>1. \/ Push(p, IF sfree = None THEN << 0 >> ELSE sfree, b) /\ UNCHANGED <<flock, chan>>
        \/ flock' /\ Goes(p, "spill") /\ UNCHANGED chan
    BY <1>2 DEF FreeIt
  <2>2. CASE Push(p, IF sfree = None THEN << 0 >> ELSE sfree, b) /\ UNCHANGED <<flock, chan>>
    BY <2>2, Passing DEF Push, Place
  <2>3. CASE flock' /\ Goes(p, "spill") /\ UNCHANGED chan
    BY <1>2, <2>3, Locking
  <2> QED BY <2>1, <2>2, <2>3
<1> QED BY <1>1, <1>2 DEF LockInv, LockTypes

LEMMA FreeStep ==
  ASSUME LockInv, NEW p \in Proc,
         Free(p) \/ FreeAgain(p) \/ FreeCopy(p) \/ FreeWritten(p)
  PROVE  LockInv'
<1>1. CASE Free(p)
  <2>1. ~chan[p] /\ ~Locker(p)
    BY <1>1 DEF Free, At, Locker
  <2> QED BY <1>1, <2>1, FreeLook DEF Free
<1>2. CASE FreeAgain(p)
  <2>1. ~chan[p] /\ ~Locker(p)
    BY <1>2 DEF FreeAgain, At, Locker
  <2> QED BY <1>2, <2>1, FreeLook DEF FreeAgain
<1>3. CASE FreeCopy(p)
  (* The locker stays the locker. *)
  <2>1. /\ LockTypes'
        /\ \A q \in Proc : Locker(q)' <=> Locker(q)
    BY <1>3 DEF FreeCopy, At, Goes, Locker, LockInv, LockTypes, Place
  <2>2. \A q \in Proc : chan'[q] => flock' /\ pc'[q] \in {"alloc", "free"}
    BY <1>3 DEF FreeCopy, At, Goes, LockInv, LockTypes, ListLocked
  <2>3. flock' = flock
    BY <1>3 DEF FreeCopy
  <2> QED BY <2>1, <2>2, <2>3 DEF LockInv, ListLocked
<1>4. CASE FreeWritten(p)
  <2>1. Locker(p)
    BY <1>4 DEF FreeWritten, At, Locker
  <2> QED BY <1>4, <2>1, Unlocking DEF FreeWritten, Push, Place
<1> QED BY <1>1, <1>2, <1>3, <1>4

LEMMA UpdateStep ==
  ASSUME LockInv, NEW p \in Proc, Update(p) \/ UpdateCopy(p) \/ UpdateWritten(p)
  PROVE  LockInv'
<1>1. ~chan[p] /\ ~Locker(p)
  BY DEF Update, UpdateCopy, UpdateWritten, At, Locker
<1>2. UNCHANGED <<flock, chan>>
  BY DEF Update, UpdateCopy, UpdateWritten, super
<1>3. Goes(p, "sync") \/ Goes(p, "synced") \/ Goes(p, "user")
  BY DEF Update, UpdateCopy, UpdateWritten
<1> QED BY <1>1, <1>2, <1>3, Passing DEF Place

LEMMA NextLock == LockInv /\ [Next]_vars => LockInv'
<1> SUFFICES ASSUME LockInv, [Next]_vars PROVE LockInv'
  OBVIOUS
<1>1. CASE Next
  BY <1>1, AllocStep, FreeStep, UpdateStep DEF Next
<1>2. CASE UNCHANGED vars
  BY <1>2 DEF vars, super, proc, LockInv, LockTypes, ListLocked, Locker
<1> QED BY <1>1, <1>2

(* Of alloc(), free() and update(): at most one process is past the look   *)
(* at s_flock with the lock set, nobody sleeps for the lock but while that *)
(* one has it, and every way out of it, the read error too, unlocks and    *)
(* wakes.                                                                  *)
THEOREM ListLocking == Spec => []ListLocked
<1>1. Init => LockInv
  BY InitLock
<1>2. LockInv /\ [Next]_vars => LockInv'
  BY NextLock
<1>3. LockInv => ListLocked
  BY DEF LockInv
<1> QED BY <1>1, <1>2, <1>3, PTL DEF Spec

------------------------------------------------------------------------------
(* Numbers, and functions by iteration.                                    *)

LEMMA LeastOf ==
  ASSUME NEW T \in SUBSET Nat, T # {}
  PROVE  \E x \in T : \A y \in T : x =< y
<1> DEFINE Downs == {0 .. x : x \in T}
<1>1. Downs \subseteq FiniteSubsetsOf(Nat) /\ Downs # {}
  <2>1. ASSUME NEW x \in T PROVE (0 .. x) \in FiniteSubsetsOf(Nat)
    BY FS_Interval DEF FiniteSubsetsOf
  <2> QED
    BY <2>1
<1>2. PICK D \in Downs : \A E \in Downs : ~ (<<E, D>> \in StrictSubsetOrdering(Nat))
  BY <1>1, FS_StrictSubsetOrderingWellFounded, WFMin
<1>3. PICK x \in T : D = 0 .. x
  OBVIOUS
<1>4. ASSUME NEW y \in T, y < x PROVE FALSE
  <2>1. (0 .. y) \subseteq (0 .. x) /\ (0 .. y) # (0 .. x)
    BY <1>4
  <2>2. <<0 .. y, D>> \in StrictSubsetOrdering(Nat)
    BY <1>3, <2>1 DEF StrictSubsetOrdering
  <2> QED
    BY <1>2, <2>2
<1> QED
  BY <1>4

(* What holds at 0 and goes on from n to n + 1: a set of numbers.          *)
LEMMA Upwards ==
  ASSUME NEW T \in SUBSET Nat, 0 \in T, \A n \in T : n + 1 \in T
  PROVE  T = Nat
<1>1. SUFFICES ASSUME Nat \ T # {} PROVE FALSE
  OBVIOUS
<1>2. PICK x \in Nat \ T : \A y \in Nat \ T : x =< y
  BY <1>1, LeastOf
<1>3. x # 0 /\ x - 1 \in Nat /\ (x - 1) + 1 = x
  BY <1>2
<1>4. x - 1 \in T
  BY <1>2, <1>3
<1> QED
  BY <1>2, <1>3, <1>4

LEMMA Iteration ==
  ASSUME NEW S, NEW b \in S, NEW F \in [S -> S]
  PROVE  \E f \in [Nat -> S] : f[0] = b /\ \A n \in Nat : f[n + 1] = F[f[n]]
<1> DEFINE Closed(R) == <<0, b>> \in R /\ \A n \in Nat, x \in S : <<n, x>> \in R => <<n + 1, F[x]>> \in R
           All == {R \in SUBSET (Nat \X S) : Closed(R)}
           G == {e \in Nat \X S : \A R \in All : e \in R}
           Is(n) == \E x \in S : <<n, x>> \in G /\ \A y \in S : <<n, y>> \in G => y = x
           T == {n \in Nat : Is(n)}
<1>1. Closed(G)
  <2>1. <<0, b>> \in G
    OBVIOUS
  <2>2. ASSUME NEW n \in Nat, NEW x \in S, <<n, x>> \in G PROVE <<n + 1, F[x]>> \in G
    BY <2>2
  <2> QED
    BY <2>1, <2>2
<1>2. \A e \in G : Closed(G \ {e}) => FALSE
  <2>1. SUFFICES ASSUME NEW e \in G, Closed(G \ {e}) PROVE FALSE
    OBVIOUS
  <2>2. G \ {e} \in All
    BY <2>1
  <2> QED
    BY <2>1, <2>2
<1>3. G \in SUBSET (Nat \X S)
  OBVIOUS
<1> HIDE DEF G
<1>4. 0 \in T
  <2>1. ASSUME NEW y \in S, <<0, y>> \in G, y # b PROVE FALSE
    <3>1. Closed(G \ {<<0, y>>})
      BY <1>1, <2>1
    <3> QED
      BY <1>2, <2>1, <3>1
  <2> QED
    BY <1>1, <2>1
<1>5. ASSUME NEW n \in T PROVE n + 1 \in T
  <2>1. PICK x \in S : <<n, x>> \in G /\ \A y \in S : <<n, y>> \in G => y = x
    OBVIOUS
  <2>2. <<n + 1, F[x]>> \in G /\ F[x] \in S
    BY <1>1, <2>1
  <2>3. ASSUME NEW y \in S, <<n + 1, y>> \in G, y # F[x] PROVE FALSE
    <3> DEFINE e == <<n + 1, y>>
    <3>1. <<0, b>> \in G \ {e}
      BY <1>1
    <3>2. ASSUME NEW m \in Nat, NEW z \in S, <<m, z>> \in G \ {e} PROVE <<m + 1, F[z]>> \in G \ {e}
      <4>1. <<m + 1, F[z]>> \in G
        BY <1>1, <3>2
      <4>2. m + 1 = n + 1 => m = n
        OBVIOUS
      <4>3. m = n => z = x
        BY <2>1, <3>2
      <4> QED
        BY <2>3, <4>1, <4>2, <4>3
    <3> QED
      BY <1>2, <2>3, <3>1, <3>2
  <2> QED
    BY SMTT(30), <2>2, <2>3
<1>6. T = Nat
  BY <1>4, <1>5, Upwards
<1> DEFINE f == [n \in Nat |-> CHOOSE x \in S : <<n, x>> \in G]
<1>7. \A n \in Nat : f[n] \in S /\ <<n, f[n]>> \in G /\ \A y \in S : <<n, y>> \in G => y = f[n]
  BY <1>6
<1>8. f \in [Nat -> S]
  BY <1>7
<1> HIDE DEF f
<1>9. f[0] = b
  BY <1>1, <1>7
<1>10. ASSUME NEW n \in Nat PROVE f[n + 1] = F[f[n]]
  <2>1. <<n + 1, F[f[n]]>> \in G /\ F[f[n]] \in S
    BY <1>1, <1>7
  <2>2. \A m \in Nat, y \in S : <<m, y>> \in G => y = f[m]
    BY <1>7
  <2>3. n + 1 \in Nat
    OBVIOUS
  <2> QED
    BY <2>1, <2>2, <2>3
<1> QED
  BY <1>8, <1>9, <1>10

------------------------------------------------------------------------------
(* The parts of a list, whatever is in the blocks.                         *)

Part == Seq(Block \cup {0})
Contents == [Block -> Part]

LEMMA BeforePart ==
  ASSUME NEW k \in Contents, NEW l \in Part
  PROVE  Before(k, l) \in Part /\ None \in Part
<1>1. None \in Part
  BY DEF None, Part
<1>2. CASE l # None
  <2>1. l[1] \in Block \cup {0}
    BY <1>2 DEF None, Part
  <2> QED
    BY <1>1, <2>1 DEF Before, Contents
<1> QED
  BY <1>1, <1>2 DEF Before

LEMMA PartsRec ==
  ASSUME NEW k \in Contents, NEW l \in Part
  PROVE  /\ Parts(k, l) \in [Nat -> Part]
         /\ Parts(k, l)[0] = l
         /\ \A n \in Nat : Parts(k, l)[n + 1] = Before(k, Parts(k, l)[n])
<1> DEFINE Prev == [x \in Part |-> Before(k, x)]
           P == Parts(k, l)
<1>1. Prev \in [Part -> Part]
  BY BeforePart
<1>2. PICK f \in [Nat -> Part] : f[0] = l /\ \A n \in Nat : f[n + 1] = Prev[f[n]]
  <2> HIDE DEF Prev
  <2>1. ASSUME NEW S, S = Part, NEW F \in [S -> S] PROVE \E f \in [Nat -> S] : f[0] = l /\ \A n \in Nat : f[n + 1] = F[f[n]]
    <3>1. l \in S
      BY <2>1
    <3> QED
      BY SMTT(30), <3>1, Iteration
  <2> QED
    BY <1>1, <2>1
<1>3. f = [n \in Nat |-> IF n = 0 THEN l ELSE Before(k, f[n - 1])]
  <2>1. ASSUME NEW n \in Nat PROVE f[n] = IF n = 0 THEN l ELSE Before(k, f[n - 1])
    <3>1. CASE n = 0
      BY <1>2, <3>1
    <3>2. CASE n # 0
      <4>1. n - 1 \in Nat /\ (n - 1) + 1 = n
        BY <3>2
      <4>2. f[n] = Prev[f[n - 1]] /\ f[n - 1] \in Part
        BY <1>2, <4>1
      <4> QED
        BY <3>2, <4>2
    <3> QED
      BY <3>1, <3>2
  <2> QED
    BY <2>1
<1>4. P = [n \in Nat |-> IF n = 0 THEN l ELSE Before(k, P[n - 1])]
  BY <1>3 DEF Parts
<1> HIDE DEF P
<1>5. P[0] = l
  BY <1>4
<1>6. ASSUME NEW n \in Nat PROVE P[n + 1] = Before(k, P[n])
  <2>1. n + 1 \in Nat /\ n + 1 # 0 /\ (n + 1) - 1 = n
    OBVIOUS
  <2> QED
    BY <1>4, <2>1
<1>7. \A n \in Nat : P[n] \in Part
  <2> DEFINE T == {n \in Nat : P[n] \in Part}
  <2>1. 0 \in T
    BY <1>5
  <2>2. \A n \in T : n + 1 \in T
    BY <1>6, BeforePart
  <2> HIDE DEF T
  <2>3. T = Nat
    BY <2>1, <2>2, Upwards DEF T
  <2> QED
    BY <2>3 DEF T
<1>8. P \in [Nat -> Part]
  <2>1. DOMAIN P = Nat /\ P = [n \in DOMAIN P |-> P[n]]
    BY <1>4
  <2> QED
    BY <1>7, <2>1
<1> QED
  BY <1>5, <1>6, <1>8 DEF P

(* The list without its last part.                                         *)
LEMMA PartsShift ==
  ASSUME NEW k \in Contents, NEW l \in Part
  PROVE  \A n \in Nat : Parts(k, l)[n + 1] = Parts(k, Before(k, l))[n]
<1> DEFINE P == Parts(k, l)
           Q == Parts(k, Before(k, l))
           T == {n \in Nat : P[n + 1] = Q[n]}
<1>1. P[0] = l /\ \A n \in Nat : P[n + 1] = Before(k, P[n])
  BY PartsRec
<1>2. Q[0] = Before(k, l) /\ \A n \in Nat : Q[n + 1] = Before(k, Q[n])
  BY PartsRec, BeforePart
<1> HIDE DEF P, Q
<1>3. 0 \in T
  BY <1>1, <1>2
<1>4. ASSUME NEW n \in T PROVE n + 1 \in T
  <2>1. P[n + 1] = Q[n] /\ n + 1 \in Nat
    OBVIOUS
  <2>2. P[(n + 1) + 1] = Before(k, P[n + 1]) /\ Q[n + 1] = Before(k, Q[n])
    BY <1>1, <1>2, <2>1
  <2> QED
    BY <2>1, <2>2
<1>5. T = Nat
  BY <1>3, <1>4, Upwards
<1> QED
  BY <1>5 DEF P, Q

(* Other contents, of blocks that are not the first of a part.             *)
LEMMA PartsFrame ==
  ASSUME NEW k \in Contents, NEW j \in Contents, NEW l \in Part, NEW d \in Nat \cup {-1},
         \A n \in Nat : n =< d /\ Parts(k, l)[n] # None /\ Parts(k, l)[n][1] \in Block
                          => j[Parts(k, l)[n][1]] = k[Parts(k, l)[n][1]]
  PROVE  \A n \in Nat : n =< d + 1 => Parts(j, l)[n] = Parts(k, l)[n]
<1> DEFINE P == Parts(k, l)
           Q == Parts(j, l)
           T == {n \in Nat : n =< d + 1 => Q[n] = P[n]}
<1>1. P[0] = l /\ \A n \in Nat : P[n + 1] = Before(k, P[n]) /\ P[n] \in Part
  <2>1. P \in [Nat -> Part] /\ P[0] = l /\ \A n \in Nat : P[n + 1] = Before(k, P[n])
    BY PartsRec
  <2> HIDE DEF P
  <2> QED
    BY <2>1
<1>2. Q[0] = l /\ \A n \in Nat : Q[n + 1] = Before(j, Q[n])
  BY PartsRec
<1>3. \A n \in Nat : n =< d /\ P[n] # None /\ P[n][1] \in Block => j[P[n][1]] = k[P[n][1]]
  OBVIOUS
<1> HIDE DEF P, Q
<1>4. 0 \in T
  BY <1>1, <1>2
<1>5. ASSUME NEW n \in T PROVE n + 1 \in T
  <2>1. SUFFICES ASSUME n + 1 =< d + 1 PROVE Q[n + 1] = P[n + 1]
    OBVIOUS
  <2>2. Q[n] = P[n] /\ n =< d
    BY <2>1
  <2>3. Before(j, P[n]) = Before(k, P[n])
    <3>1. CASE P[n] # None
      <4>1. P[n][1] \in Block \cup {0}
        BY <1>1, <3>1 DEF Part, None
      <4> QED
        BY <1>3, <2>2, <3>1, <4>1 DEF Before
    <3> QED
      BY <3>1 DEF Before
  <2> QED
    BY <1>1, <1>2, <2>2, <2>3
<1>6. T = Nat
  BY <1>4, <1>5, Upwards
<1> QED
  BY <1>6 DEF P, Q

(* Every block of a list is in it once, and 0 is only where a part begins. *)
Once(c) == \A m, n \in Nat : \A i \in DOMAIN c[m], j \in DOMAIN c[n] :
             c[m][i] = c[n][j] /\ c[m][i] # 0 => m = n /\ i = j

ZeroFirst(c) == \A n \in Nat : \A i \in DOMAIN c[n] : c[n][i] = 0 => i = 1

Good(c) == Once(c) /\ ZeroFirst(c)

In(c) == {b \in Block : \E n \in Nat : \E i \in DOMAIN c[n] : c[n][i] = b}

LEMMA PartElements ==
  ASSUME NEW c \in [Nat -> Part], NEW n \in Nat
  PROVE  /\ DOMAIN c[n] = 1 .. Len(c[n]) /\ Len(c[n]) \in Nat
         /\ \A i \in DOMAIN c[n] : c[n][i] \in Block \cup {0}
         /\ c[n] # None => 1 \in DOMAIN c[n]
<1>1. c[n] \in Seq(Block \cup {0})
  BY DEF Part
<1>2. c[n] # None => Len(c[n]) # 0
  BY <1>1 DEF None
<1> QED
  BY <1>1, <1>2

(* free() puts a block at the end of the last part.                        *)
LEMMA Pushed ==
  ASSUME NEW c \in [Nat -> Part], NEW d \in [Nat -> Part], Good(c), NEW b \in Block, b \notin In(c),
         d[0] = Append(IF c[0] = None THEN << 0 >> ELSE c[0], b),
         \A n \in Nat : d[n + 1] = c[n + 1]
  PROVE  Good(d) /\ In(d) = In(c) \cup {b}
<1> DEFINE l == IF c[0] = None THEN << 0 >> ELSE c[0]
           pos == Len(l) + 1
<1>1. l \in Seq(Block \cup {0}) /\ Len(l) \in Nat /\ d[0] = Append(l, b)
  <2>1. c[0] \in Seq(Block \cup {0}) /\ << 0 >> \in Seq(Block \cup {0})
    BY DEF Part
  <2>2. (l = c[0] \/ l = << 0 >>) /\ d[0] = Append(l, b)
    OBVIOUS
  <2> HIDE DEF l
  <2> QED
    BY <2>1, <2>2, LenProperties
<1>2. \A i \in DOMAIN l : (l[i] = 0 /\ i = 1) \/ (i \in DOMAIN c[0] /\ l[i] = c[0][i])
  <2>1. l = << 0 >> \/ l = c[0]
    OBVIOUS
  <2>2. \A i \in DOMAIN << 0 >> : i = 1 /\ << 0 >>[i] = 0
    OBVIOUS
  <2> HIDE DEF l
  <2> QED
    BY <2>1, <2>2
<1>3. \A i \in DOMAIN c[0] : i \in DOMAIN l /\ l[i] = c[0][i]
  BY DEF None
<1> HIDE DEF l
<1>4. /\ DOMAIN d[0] = 1 .. Len(l) + 1 /\ DOMAIN l = 1 .. Len(l)
      /\ d[0][pos] = b /\ \A i \in 1 .. Len(l) : d[0][i] = l[i]
  <2>1. b \in Block \cup {0}
    OBVIOUS
  <2>2. /\ Len(d[0]) = Len(l) + 1 /\ d[0] \in Seq(Block \cup {0})
        /\ d[0][pos] = b /\ \A i \in 1 .. Len(l) : d[0][i] = l[i]
    <3> DEFINE S == Block \cup {0}
    <3>1. l \in Seq(S) /\ b \in S
      BY <1>1, <2>1
    <3> HIDE DEF S
    <3>2. /\ Append(l, b) \in Seq(S) /\ Len(Append(l, b)) = Len(l) + 1 /\ Append(l, b)[Len(l) + 1] = b
          /\ \A i \in 1 .. Len(l) : Append(l, b)[i] = l[i]
      BY <3>1, AppendProperties
    <3> QED
      BY <1>1, <3>2 DEF S
  <2> QED
    BY <1>1, <2>2, LenProperties
<1>5. \A n \in Nat : n # 0 => d[n] = c[n]
  <2>1. ASSUME NEW n \in Nat, n # 0 PROVE d[n] = c[n]
    <3>1. n - 1 \in Nat /\ (n - 1) + 1 = n
      BY <2>1
    <3> QED
      BY <3>1
  <2> QED
    BY <2>1
<1>6. \A n \in Nat : \A i \in DOMAIN d[n] : \/ d[n][i] = b /\ n = 0 /\ i = pos
                                            \/ d[n][i] = 0 /\ i = 1
                                            \/ i \in DOMAIN c[n] /\ d[n][i] = c[n][i]
  <2>1. ASSUME NEW i \in DOMAIN d[0], i # pos PROVE i \in DOMAIN l /\ d[0][i] = l[i]
    BY <1>1, <1>4, <2>1
  <2> QED
    BY <1>2, <1>4, <1>5, <2>1
<1>7. \A n \in Nat : \A i \in DOMAIN c[n] : i \in DOMAIN d[n] /\ d[n][i] = c[n][i]
  <2>1. \A i \in DOMAIN c[0] : i \in DOMAIN d[0] /\ d[0][i] = c[0][i]
    BY <1>1, <1>3, <1>4
  <2> QED
    BY <1>5, <2>1
<1>8. pos \in DOMAIN d[0] /\ d[0][pos] = b /\ b # 0
  BY <1>1, <1>4, AllocAssumption
<1>9. Once(d)
  <2>1. SUFFICES ASSUME NEW m \in Nat, NEW n \in Nat, NEW i \in DOMAIN d[m], NEW j \in DOMAIN d[n],
                        d[m][i] = d[n][j], d[m][i] # 0
                 PROVE  m = n /\ i = j
    BY DEF Once
  <2>2. CASE d[m][i] = b
    <3>1. \A h \in Nat : \A o \in DOMAIN c[h] : c[h][o] # b
      BY DEF In
    <3>2. \A h \in Nat : \A o \in DOMAIN d[h] : d[h][o] = b => h = 0 /\ o = pos
      BY <1>6, <1>8, <3>1
    <3>3. m = 0 /\ i = pos
      BY <2>2, <3>2
    <3>4. n = 0 /\ j = pos
      BY <2>1, <2>2, <3>2
    <3> QED
      BY <3>3, <3>4
  <2>3. CASE d[m][i] # b
    BY <1>6, <2>1, <2>3 DEF Good, Once
  <2> QED
    BY <2>2, <2>3
<1>10. ZeroFirst(d)
  BY <1>6, <1>8 DEF Good, ZeroFirst
<1>11. In(d) = In(c) \cup {b}
  <2>1. ASSUME NEW x \in Block PROVE x \in In(d) <=> x \in In(c) \/ x = b
    BY <1>6, <1>7, <1>8, AllocAssumption DEF In
  <2> QED
    BY <2>1 DEF In
<1> QED
  BY <1>9, <1>10, <1>11 DEF Good

(* alloc() takes one from there. *)
LEMMA Popped ==
  ASSUME NEW c \in [Nat -> Part], NEW d \in [Nat -> Part], Good(c), c[0] # None,
         d[0] = Front(c[0]), Last(c[0]) # 0,
         \A n \in Nat : d[n + 1] = c[n + 1]
  PROVE  Good(d) /\ In(d) = In(c) \ {Last(c[0])} /\ Last(c[0]) \in In(c)
<1> DEFINE l == c[0]
           pos == Len(l)
           b == Last(l)
<1>1. l \in Seq(Block \cup {0}) /\ pos \in Nat \ {0} /\ DOMAIN l = 1 .. pos /\ b = l[pos] /\ b \in Block
  <2>1. l \in Seq(Block \cup {0}) /\ DOMAIN l = 1 .. pos /\ pos \in Nat /\ 1 \in DOMAIN l
    BY PartElements DEF Part
  <2>2. b = l[pos] /\ pos \in DOMAIN l
    BY <2>1 DEF Last
  <2>3. l[pos] \in Block \cup {0} /\ b # 0
    BY <2>2, PartElements
  <2> QED
    BY <2>1, <2>2, <2>3
<1>2. DOMAIN d[0] = 1 .. pos - 1 /\ \A i \in 1 .. pos - 1 : d[0][i] = l[i]
  BY <1>1 DEF Front
<1>3. \A n \in Nat : n # 0 => d[n] = c[n]
  <2>1. ASSUME NEW n \in Nat, n # 0 PROVE d[n] = c[n]
    <3>1. n - 1 \in Nat /\ (n - 1) + 1 = n
      BY <2>1
    <3> QED
      BY <3>1
  <2> QED
    BY <2>1
<1>4. \A n \in Nat : \A i \in DOMAIN d[n] : i \in DOMAIN c[n] /\ d[n][i] = c[n][i] /\ ~ (n = 0 /\ i = pos)
  <2>1. \A i \in DOMAIN d[0] : i \in DOMAIN c[0] /\ d[0][i] = c[0][i] /\ i # pos
    BY <1>1, <1>2
  <2> QED
    BY <1>3, <2>1
<1>5. \A n \in Nat : \A i \in DOMAIN c[n] : (n = 0 /\ i = pos) \/ (i \in DOMAIN d[n] /\ d[n][i] = c[n][i])
  <2>1. ASSUME NEW i \in DOMAIN c[0], i # pos PROVE i \in DOMAIN d[0] /\ d[0][i] = c[0][i]
    <3>1. i \in 1 .. pos - 1
      BY <1>1, <2>1
    <3> QED
      BY <1>2, <3>1
  <2>2. ASSUME NEW n \in Nat, NEW i \in DOMAIN c[n], n # 0 PROVE i \in DOMAIN d[n] /\ d[n][i] = c[n][i]
    BY <1>3, <2>2
  <2>3. SUFFICES ASSUME NEW n \in Nat, NEW i \in DOMAIN c[n]
                 PROVE  (n = 0 /\ i = pos) \/ (i \in DOMAIN d[n] /\ d[n][i] = c[n][i])
    OBVIOUS
  <2> HIDE DEF pos
  <2>4. CASE n = 0
    BY <2>1, <2>4
  <2> QED
    BY <2>2, <2>4
<1>6. pos \in DOMAIN c[0] /\ c[0][pos] = b /\ b # 0
  BY <1>1, AllocAssumption
<1> HIDE DEF b, pos
<1>7. Good(d)
  BY <1>4 DEF Good, Once, ZeroFirst
<1>8. In(d) = In(c) \ {b} /\ b \in In(c)
  <2>1. b \in In(c)
    BY <1>1, <1>6 DEF In
  <2>2. ASSUME NEW x \in Block PROVE x \in In(d) <=> x \in In(c) /\ x # b
    <3>1. ASSUME NEW n \in Nat, NEW i \in DOMAIN c[n], c[n][i] = b PROVE n = 0 /\ i = pos
      BY <1>6, <3>1 DEF Good, Once
    <3> QED
      BY <1>4, <1>5, <1>6, <3>1 DEF In
  <2> QED
    BY <2>1, <2>2 DEF In
<1> QED
  BY <1>7, <1>8 DEF b

(* A block that holds a list begins a new one, and the other way round.    *)
LEMMA Stacked ==
  ASSUME NEW c \in [Nat -> Part], NEW d \in [Nat -> Part], NEW b \in Block,
         d[0] = <<b>>, \A n \in Nat : d[n + 1] = c[n]
  PROVE  /\ Good(c) /\ b \notin In(c) => Good(d) /\ In(d) = In(c) \cup {b}
         /\ Good(d) => Good(c) /\ b \notin In(c) /\ In(d) = In(c) \cup {b}
<1>1. \A n \in Nat : n # 0 => n - 1 \in Nat /\ d[n] = c[n - 1]
  <2>1. ASSUME NEW n \in Nat, n # 0 PROVE n - 1 \in Nat /\ d[n] = c[n - 1]
    <3>1. n - 1 \in Nat /\ (n - 1) + 1 = n
      BY <2>1
    <3> QED
      BY <3>1
  <2> QED
    BY <2>1
<1>2. DOMAIN d[0] = {1} /\ d[0][1] = b /\ b # 0
  BY AllocAssumption
<1>3. In(d) = In(c) \cup {b}
  <2>1. ASSUME NEW x \in Block PROVE x \in In(d) <=> x \in In(c) \/ x = b
    <3>1. x \in In(d) => x \in In(c) \/ x = b
      BY <1>1, <1>2 DEF In
    <3>2. x \in In(c) => x \in In(d)
      <4>1. \A n \in Nat : n + 1 \in Nat
        OBVIOUS
      <4> QED
        BY <4>1 DEF In
    <3>3. b \in In(d)
      BY <1>2 DEF In
    <3> QED
      BY <3>1, <3>2, <3>3
  <2> QED
    BY <2>1 DEF In
<1>4. ASSUME Good(c), b \notin In(c) PROVE Good(d)
  <2>1. Once(d)
    <3>1. SUFFICES ASSUME NEW m \in Nat, NEW n \in Nat, NEW i \in DOMAIN d[m], NEW j \in DOMAIN d[n],
                          d[m][i] = d[n][j], d[m][i] # 0
                   PROVE  m = n /\ i = j
      BY DEF Once
    <3>2. \A h \in Nat : \A o \in DOMAIN c[h] : c[h][o] # b
      BY <1>4 DEF In
    <3>3. CASE m = 0 \/ n = 0
      BY <1>1, <1>2, <3>1, <3>2, <3>3
    <3>4. CASE m # 0 /\ n # 0
      <4>1. m - 1 = n - 1 /\ i = j
        BY <1>1, <1>4, <3>1, <3>4 DEF Good, Once
      <4> QED
        BY <4>1
    <3> QED
      BY <3>3, <3>4
  <2>2. ZeroFirst(d)
    BY <1>1, <1>2, <1>4 DEF Good, ZeroFirst
  <2> QED
    BY <2>1, <2>2 DEF Good
<1>5. ASSUME Good(d) PROVE Good(c) /\ b \notin In(c)
  <2>1. \A n \in Nat : n + 1 \in Nat /\ n + 1 # 0
    OBVIOUS
  <2>2. Once(c)
    <3>1. SUFFICES ASSUME NEW m \in Nat, NEW n \in Nat, NEW i \in DOMAIN c[m], NEW j \in DOMAIN c[n],
                          c[m][i] = c[n][j], c[m][i] # 0
                   PROVE  m = n /\ i = j
      BY DEF Once
    <3>2. m + 1 = n + 1 /\ i = j
      BY <1>5, <2>1, <3>1 DEF Good, Once
    <3> QED
      BY <3>2
  <2>3. ZeroFirst(c)
    BY <1>5, <2>1 DEF Good, ZeroFirst
  <2>4. b \notin In(c)
    BY <1>2, <1>5, <2>1 DEF Good, Once, In
  <2> QED
    BY <2>2, <2>3, <2>4 DEF Good
<1> QED
  BY <1>3, <1>4, <1>5

(* The list is not longer than there are blocks.                           *)
LEMMA PartsEnd ==
  ASSUME NEW k \in Contents, NEW l \in Part, Once(Parts(k, l)), NEW n \in Nat, n > Cardinality(Block)
  PROVE  Parts(k, l)[n] = None
<1> DEFINE P == Parts(k, l)
           N == Cardinality(Block)
<1>1. P \in [Nat -> Part] /\ \A m \in Nat : P[m + 1] = Before(k, P[m])
  BY PartsRec
<1>2. Once(P) /\ N \in Nat /\ IsFiniteSet(Block)
  BY FS_CardinalityType, AllocAssumption
<1> HIDE DEF P, N
<1>3. SUFFICES ASSUME P[n] # None PROVE FALSE
  BY DEF P
<1>4. \A m \in Nat : m < n => P[m] # None /\ P[m][1] # 0
  <2> DEFINE Bad == {m \in Nat : m < n /\ (P[m] = None \/ P[m][1] = 0)}
  <2>1. \A m \in Bad : P[m + 1] = None
    BY <1>1 DEF Before
  <2>2. SUFFICES ASSUME NEW m \in Bad PROVE FALSE
    OBVIOUS
  <2> DEFINE U == {j \in Nat : P[m + 1 + j] = None}
  <2>3. 0 \in U
    BY <2>1
  <2>4. ASSUME NEW j \in U PROVE j + 1 \in U
    <3>1. m + 1 + j \in Nat /\ (m + 1 + j) + 1 = m + 1 + (j + 1) /\ j + 1 \in Nat
      OBVIOUS
    <3>2. P[(m + 1 + j) + 1] = Before(k, P[m + 1 + j])
      BY <1>1, <3>1
    <3> QED
      BY <3>1, <3>2 DEF Before
  <2> HIDE DEF U
  <2>5. U = Nat
    BY <2>3, <2>4, Upwards DEF U
  <2>6. n - m - 1 \in Nat /\ m + 1 + (n - m - 1) = n
    OBVIOUS
  <2> QED
    BY <1>3, <2>5, <2>6 DEF U
<1>5. \A m \in 0 .. N : m \in Nat /\ 1 \in DOMAIN P[m] /\ P[m][1] \in Block
  <2>1. ASSUME NEW m \in 0 .. N PROVE m \in Nat /\ m < n
    BY <1>2 DEF N
  <2> QED
    BY <1>1, <1>4, <2>1, PartElements
<1> DEFINE f == [m \in 0 .. N |-> P[m][1]]
<1>6. f \in [0 .. N -> Block]
  BY <1>5
<1>7. IsFiniteSet(0 .. N) /\ Cardinality(0 .. N) = N + 1
  BY <1>2, FS_Interval
<1>8. PICK x \in 0 .. N, y \in 0 .. N : x # y /\ f[x] = f[y]
  <2>1. Cardinality(Block) < Cardinality(0 .. N)
    BY <1>2, <1>7 DEF N
  <2> HIDE DEF f
  <2> QED
    BY <1>2, <1>6, <1>7, <2>1, FS_PigeonHole
<1>9. P[x][1] = P[y][1] /\ P[x][1] # 0
  BY <1>5, <1>8, AllocAssumption
<1> QED
  BY <1>2, <1>5, <1>8, <1>9 DEF Once

------------------------------------------------------------------------------
(* The inductive invariant.                                                *)

AllocTypes ==
  /\ sfree \in Part /\ disk \in Part /\ buf \in Part /\ link \in Contents
  /\ tfree \in Nat /\ fmod \in BOOLEAN /\ uinode \in BOOLEAN
  /\ held \in [Proc -> SUBSET Block] /\ bno \in [Proc -> Block \cup {0}] /\ lost \in SUBSET Block

InTransit == {"bread", "getblk", "free", "spill", "bwrite"}

(* What a process at a label has in bno; and s_nfree is 0 while a part of  *)
(* the list is read or written.                                            *)
Places ==
  \A p \in Proc : /\ pc[p] \in InTransit => bno[p] \in Block
                  /\ pc[p] \in {"bread", "bwrite"} => sfree = None

(* The blocks that the list leads to, with the block a part of it is being *)
(* written to, which is not free yet.                                      *)
Listed == In(Parts(link, Head1))

Apart ==
  /\ \A p \in Proc : Has(p) \cap FreeSet = {}
  /\ \A p, q \in Proc : p # q => Has(p) \cap Has(q) = {}
  /\ FreeSet \cup UNION {Has(p) : p \in Proc} = Block \ lost
  /\ \A p \in Proc : /\ pc[p] \in InTransit => bno[p] \notin held[p]
                     /\ pc[p] \in {"getblk", "free", "spill"} => bno[p] \notin Listed

(* The blocks that s_tfree counts. *)
Counted == FreeSet \cup UNION {Taking(p) : p \in Proc}

ListInv == Good(Parts(link, Head1)) /\ Apart /\ tfree =< Cardinality(Counted)

(* One update() at a time. *)
OneUpdate ==
  /\ uinode <=> \E p \in Proc : pc[p] \in {"sync", "synced"}
  /\ \A p, q \in Proc : pc[p] \in {"sync", "synced"} /\ pc[q] \in {"sync", "synced"} => p = q

(* The list that is on the disk when the update() that is going on, if     *)
(* there is one, is done.                                                  *)
Saved == IF \E p \in Proc : pc[p] = "synced" THEN buf ELSE disk

(* As long as s_fmod does not say that the list has changed since it was   *)
(* copied, no block of a file is in the copy, and it has all free blocks,  *)
(* unless somebody has the list in hand, who will set s_fmod.              *)
DiskInv ==
  ~ fmod /\ (\A p \in Proc : pc[p] # "sync") =>
    /\ \A p \in Proc : (held[p] \cup Giving(p)) \cap Blocks(Saved) = {}
    /\ (\E p \in Proc : pc[p] \in InTransit) \/ FreeSet \subseteq Blocks(Saved)

AllocInv == LockInv /\ AllocTypes /\ Places /\ ListInv /\ OneUpdate /\ DiskInv

------------------------------------------------------------------------------
LEMMA BlocksAre ==
  ASSUME NEW k \in Contents, NEW l \in Part, Once(Parts(k, l))
  PROVE  {b \in Block : \E n \in Depth : b \in ToSet(Parts(k, l)[n])} = In(Parts(k, l))
<1>1. Cardinality(Block) \in Nat
  BY FS_CardinalityType, AllocAssumption
<1>2. \A n \in Nat : n \notin Depth => Parts(k, l)[n] = None
  <2>1. ASSUME NEW n \in Nat, n \notin Depth PROVE n > Cardinality(Block)
    BY <1>1, <2>1 DEF Depth
  <2> QED
    BY <2>1, PartsEnd
<1>3. \A n \in Depth : n \in Nat
  BY <1>1 DEF Depth
<1>4. DOMAIN None = {}
  BY DEF None
<1> QED
  BY <1>2, <1>3, <1>4 DEF In, ToSet

(* Where the list begins, before a step and after it.                      *)
LEMMA HeadNow ==
  ASSUME LockInv
  PROVE  /\ \A p \in Proc : pc[p] \in {"bread", "bwrite"} => Head1 = <<bno[p]>>
         /\ (\A p \in Proc : pc[p] \notin {"bread", "bwrite"}) => Head1 = sfree
<1> DEFINE R == Reading \cup Writing
<1>1. \A p \in Proc : p \in R <=> pc[p] \in {"bread", "bwrite"}
  BY DEF Reading, Writing
<1>2. \A p, q \in R : p = q
  BY <1>1 DEF LockInv, ListLocked, Locker, Reading, Writing
<1>3. \A p \in R : (CHOOSE q \in R : TRUE) = p
  BY <1>2
<1> QED
  BY <1>1, <1>3 DEF Head1, Reading, Writing

LEMMA HeadNext ==
  ASSUME LockInv'
  PROVE  /\ \A p \in Proc : pc'[p] \in {"bread", "bwrite"} => Head1' = <<bno'[p]>>
         /\ (\A p \in Proc : pc'[p] \notin {"bread", "bwrite"}) => Head1' = sfree'
<1> DEFINE R == Reading' \cup Writing'
<1>1. \A p \in Proc : p \in R <=> pc'[p] \in {"bread", "bwrite"}
  BY DEF Reading, Writing
<1>2. \A p, q \in R : p = q
  BY <1>1 DEF LockInv, ListLocked, Locker, Reading, Writing
<1>3. \A p \in R : (CHOOSE q \in R : TRUE) = p
  BY <1>2
<1> QED
  BY <1>1, <1>3 DEF Head1, Reading, Writing

LEMMA HeadPart ==
  ASSUME LockInv, AllocTypes, Places
  PROVE  Head1 \in Part
<1>1. \A p \in Proc : pc[p] \in {"bread", "bwrite"} => bno[p] \in Block
  BY DEF Places, InTransit
<1>2. \A b \in Block : <<b>> \in Part
  BY DEF Part
<1> QED
  BY <1>1, <1>2, HeadNow DEF AllocTypes

LEMMA HeadPartNext ==
  ASSUME LockInv', AllocTypes', Places'
  PROVE  Head1' \in Part
<1>1. \A p \in Proc : pc'[p] \in {"bread", "bwrite"} => bno'[p] \in Block
  BY DEF Places, InTransit
<1>2. \A b \in Block : <<b>> \in Part
  BY DEF Part
<1> QED
  BY <1>1, <1>2, HeadNext DEF AllocTypes

LEMMA FreeNow ==
  ASSUME AllocInv
  PROVE  /\ Blocks(Head1) = Listed /\ Listed \subseteq Block
         /\ \A b : b \in FreeSet <=> b \in Listed /\ \A q \in Proc : b \notin Giving(q)
<1>1. Blocks(Head1) = Listed /\ Listed \subseteq Block
  BY BlocksAre, HeadPart DEF AllocInv, AllocTypes, ListInv, Good, Blocks, Listed, In
<1> QED
  BY <1>1 DEF FreeSet

LEMMA FreeNext ==
  ASSUME LockInv', AllocTypes', Places', Good(Parts(link, Head1))'
  PROVE  /\ Blocks(Head1)' = Listed' /\ Listed' \subseteq Block
         /\ \A b : b \in FreeSet' <=> b \in Listed' /\ \A q \in Proc : b \notin Giving(q)'
<1>1. Blocks(Head1)' = Listed' /\ Listed' \subseteq Block
  BY BlocksAre, HeadPartNext DEF AllocTypes, Good, Blocks, Listed, In
<1> QED
  BY <1>1 DEF FreeSet

------------------------------------------------------------------------------
(* What a step of a process does to the free blocks, to those it has and   *)
(* to the count: nothing, alloc() takes one, free() gives one, alloc() has *)
(* got it, or the rest of the list is lost.                                *)

Others(p) == \A q \in Proc \ {p} : pc'[q] = pc[q] /\ bno'[q] = bno[q] /\ held'[q] = held[q]

Keeps(p) ==
  /\ FreeSet' = FreeSet /\ Has(p)' = Has(p) /\ Taking(p)' = Taking(p)
  /\ tfree' =< tfree /\ lost' = lost

Takes(p) == \E b \in FreeSet :
  /\ FreeSet' = FreeSet \ {b} /\ Has(p)' = Has(p) \cup {b}
  /\ Taking(p) = {} /\ Taking(p)' = {b}
  /\ tfree' = tfree /\ lost' = lost

Gives(p) == \E b \in Has(p) :
  /\ FreeSet' = FreeSet \cup {b} /\ Has(p)' = Has(p) \ {b}
  /\ Taking(p) = {} /\ Taking(p)' = {}
  /\ tfree' = tfree + 1 /\ lost' = lost

Gets(p) ==
  /\ FreeSet' = FreeSet /\ Has(p)' = Has(p)
  /\ Taking(p) = {bno[p]} /\ Taking(p)' = {}
  /\ tfree' = (IF tfree > 0 THEN tfree - 1 ELSE 0) /\ lost' = lost

Loses(p) ==
  /\ FreeSet' = {} /\ Has(p)' = Has(p)
  /\ tfree' = 0 /\ lost' = lost \cup FreeSet

(* The list after the step is one again. *)
GoodNext(p) ==
  /\ AllocTypes' /\ Places' /\ Good(Parts(link, Head1))'
  /\ Listed' \subseteq Listed \cup Has(p)
  /\ pc'[p] \in InTransit => bno'[p] \notin held'[p]
  /\ pc'[p] \in {"getblk", "free", "spill"} => bno'[p] \notin Listed'

LEMMA CountedFinite ==
  ASSUME AllocInv
  PROVE  IsFiniteSet(Counted) /\ Counted \subseteq Block
<1>1. Counted \subseteq Block
  <2>1. FreeSet \subseteq Block
    BY FreeNow
  <2>2. \A q \in Proc : Taking(q) \subseteq Block
    BY DEF AllocInv, Places, Taking, InTransit
  <2> QED
    BY <2>1, <2>2 DEF Counted
<1> QED
  BY <1>1, AllocAssumption, FS_Subset

(* The blocks counted change by the one that moves.                        *)
LEMMA CountKept ==
  ASSUME AllocInv, NEW p \in Proc, Others(p),
         Keeps(p) \/ Takes(p) \/ Gives(p) \/ Gets(p) \/ Loses(p),
         tfree' \in Nat, Counted' \subseteq Block
  PROVE  (tfree =< Cardinality(Counted))'
<1>1. /\ IsFiniteSet(Counted) /\ IsFiniteSet(Counted') /\ tfree \in Nat
      /\ Cardinality(Counted) \in Nat /\ Cardinality(Counted') \in Nat
      /\ tfree =< Cardinality(Counted)
  BY CountedFinite, AllocAssumption, FS_Subset, FS_CardinalityType DEF AllocInv, AllocTypes, ListInv
<1>2. \A q \in Proc \ {p} : Taking(q)' = Taking(q)
  BY DEF Others, Taking
<1>3. \A q \in Proc : Taking(q) \subseteq Has(q)
  BY DEF Has
<1>4. CASE Keeps(p)
  <2>1. Counted' = Counted
    BY <1>2, <1>4 DEF Keeps, Counted
  <2> QED
    BY <1>1, <1>4, <2>1 DEF Keeps
<1>5. CASE Takes(p)
  <2>1. PICK b \in FreeSet : /\ FreeSet' = FreeSet \ {b} /\ Taking(p) = {} /\ Taking(p)' = {b}
                             /\ tfree' = tfree
    BY <1>5 DEF Takes
  <2>2. Counted' = Counted
    BY <1>2, <2>1 DEF Counted
  <2> QED
    BY <1>1, <2>1, <2>2
<1>6. CASE Gives(p)
  <2>1. PICK b \in Has(p) : /\ FreeSet' = FreeSet \cup {b} /\ Taking(p) = {} /\ Taking(p)' = {}
                            /\ tfree' = tfree + 1
    BY <1>6 DEF Gives
  <2>2. Counted' = Counted \cup {b}
    BY <1>2, <2>1 DEF Counted
  <2>3. b \notin Counted
    <3>1. b \notin FreeSet /\ \A q \in Proc \ {p} : b \notin Taking(q)
      BY <1>3 DEF AllocInv, ListInv, Apart
    <3> QED
      BY <2>1, <3>1 DEF Counted
  <2>4. Cardinality(Counted') = Cardinality(Counted) + 1
    BY <1>1, <2>2, <2>3, FS_AddElement
  <2> QED
    BY <1>1, <2>1, <2>4
<1>7. CASE Gets(p)
  <2>1. Counted' = Counted \ {bno[p]} /\ bno[p] \in Counted
    <3>1. bno[p] \in Has(p)
      BY <1>3, <1>7 DEF Gets
    <3>2. bno[p] \notin FreeSet /\ \A q \in Proc \ {p} : bno[p] \notin Taking(q)
      BY <1>3, <3>1 DEF AllocInv, ListInv, Apart
    <3> QED
      BY <1>2, <1>7, <3>2 DEF Gets, Counted
  <2>2. Cardinality(Counted') = Cardinality(Counted) - 1
    BY <1>1, <2>1, FS_RemoveElement
  <2>3. tfree' = IF tfree > 0 THEN tfree - 1 ELSE 0
    BY <1>7 DEF Gets
  <2> QED
    BY <1>1, <2>2, <2>3
<1>8. CASE Loses(p)
  BY <1>1, <1>8 DEF Loses
<1> QED
  BY <1>4, <1>5, <1>6, <1>7, <1>8

LEMMA ApartKept ==
  ASSUME AllocInv, LockInv', NEW p \in Proc, Others(p), GoodNext(p),
         Keeps(p) \/ Takes(p) \/ Gives(p) \/ Gets(p) \/ Loses(p)
  PROVE  ListInv'
<1>1. \A q \in Proc \ {p} : /\ Has(q)' = Has(q) /\ pc'[q] = pc[q] /\ bno'[q] = bno[q]
                            /\ held'[q] = held[q]
  BY DEF Others, Has, Taking, Giving
<1>2. /\ \A q \in Proc : Has(q) \cap FreeSet = {}
      /\ \A q, r \in Proc : q # r => Has(q) \cap Has(r) = {}
      /\ FreeSet \cup UNION {Has(q) : q \in Proc} = Block \ lost
  BY DEF AllocInv, ListInv, Apart
<1>3. /\ \A q \in Proc : Has(q)' \cap FreeSet' = {}
      /\ \A q, r \in Proc : q # r => Has(q)' \cap Has(r)' = {}
      /\ FreeSet' \cup UNION {Has(q)' : q \in Proc} = Block \ lost'
  <2>1. CASE Keeps(p) \/ Gets(p)
    <3>1. FreeSet' = FreeSet /\ lost' = lost /\ \A q \in Proc : Has(q)' = Has(q)
      BY <1>1, <2>1 DEF Keeps, Gets
    <3> QED
      BY <1>2, <3>1
  <2>2. CASE Takes(p)
    <3>1. PICK b \in FreeSet : FreeSet' = FreeSet \ {b} /\ Has(p)' = Has(p) \cup {b} /\ lost' = lost
      BY <2>2 DEF Takes
    <3> QED
      BY <1>1, <1>2, <3>1
  <2>3. CASE Gives(p)
    <3>1. PICK b \in Has(p) : FreeSet' = FreeSet \cup {b} /\ Has(p)' = Has(p) \ {b} /\ lost' = lost
      BY <2>3 DEF Gives
    <3> QED
      BY <1>1, <1>2, <3>1
  <2>4. CASE Loses(p)
    <3>1. /\ FreeSet' = {} /\ \A q \in Proc : Has(q)' = Has(q)
          /\ lost' = lost \cup FreeSet
      BY <1>1, <2>4 DEF Loses
    <3> QED
      BY <1>2, <3>1
  <2> QED
    BY <2>1, <2>2, <2>3, <2>4
<1>4. \A q \in Proc : /\ pc'[q] \in InTransit => bno'[q] \notin held'[q]
                      /\ pc'[q] \in {"getblk", "free", "spill"} => bno'[q] \notin Listed'
  <2>1. SUFFICES ASSUME NEW q \in Proc, q # p
                 PROVE  /\ pc[q] \in InTransit => bno[q] \notin held[q]
                        /\ pc[q] \in {"getblk", "free", "spill"} => bno[q] \notin Listed'
    BY <1>1 DEF GoodNext
  <2>2. ASSUME pc[q] \in {"getblk", "free", "spill"} PROVE bno[q] \notin Listed'
    <3>1. bno[q] \in Has(q) /\ bno[q] \notin Listed
      BY <2>2 DEF Has, Taking, Giving, AllocInv, ListInv, Apart
    <3> QED
      BY <1>2, <2>1, <3>1 DEF GoodNext
  <2> QED
    BY <2>2 DEF AllocInv, ListInv, Apart
<1>5. Apart'
  BY <1>3, <1>4 DEF Apart
<1>6. Counted' \subseteq Block
  <2>1. FreeSet' \subseteq Block
    BY FreeNext DEF GoodNext
  <2>2. \A q \in Proc : Taking(q)' \subseteq Block
    BY DEF GoodNext, Places, Taking, InTransit
  <2> QED
    BY <2>1, <2>2 DEF Counted
<1>7. (tfree =< Cardinality(Counted))'
  BY <1>6, CountKept DEF GoodNext, AllocTypes
<1> QED
  BY <1>5, <1>7 DEF ListInv, GoodNext

(* A step of who does not run update(). *)
LEMMA UpdateKept ==
  ASSUME AllocInv, NEW p \in Proc, Others(p),
         pc[p] \notin {"sync", "synced"}, pc'[p] \notin {"sync", "synced"}, uinode' = uinode
  PROVE  OneUpdate'
<1>1. \A q \in Proc : pc'[q] \in {"sync", "synced"} <=> pc[q] \in {"sync", "synced"}
  BY DEF Others
<1> QED
  BY <1>1 DEF AllocInv, OneUpdate

(* The copy of the list stays as good as it is when s_fmod is set, or when *)
(* the process has the list in hand, or gets no block from it.             *)
LEMMA DiskKept ==
  ASSUME AllocInv, NEW p \in Proc, Others(p), UNCHANGED <<disk, buf, link, fmod>>,
         pc[p] \notin {"sync", "synced"}, pc'[p] \notin {"sync", "synced"},
         held'[p] \cup Giving(p)' \subseteq held[p] \cup Giving(p),
         \/ pc'[p] \in InTransit
         \/ pc[p] \notin InTransit /\ FreeSet' = FreeSet
         \/ FreeSet' = {}
  PROVE  DiskInv'
<1>1. /\ \A q \in Proc : pc'[q] = "synced" <=> pc[q] = "synced"
      /\ \A q \in Proc : pc'[q] = "sync" <=> pc[q] = "sync"
  BY DEF Others
<1>2. Blocks(Saved)' = Blocks(Saved)
  BY <1>1 DEF Blocks, Saved
<1>3. \A q \in Proc : held'[q] \cup Giving(q)' \subseteq held[q] \cup Giving(q)
  BY DEF Others, Giving
<1>4. SUFFICES ASSUME ~fmod, \A q \in Proc : pc[q] # "sync"
               PROVE  /\ \A q \in Proc : (held'[q] \cup Giving(q)') \cap Blocks(Saved)' = {}
                      /\ (\E q \in Proc : pc'[q] \in InTransit) \/ FreeSet' \subseteq Blocks(Saved)'
  BY <1>1 DEF DiskInv
<1>5. /\ \A q \in Proc : (held[q] \cup Giving(q)) \cap Blocks(Saved) = {}
      /\ (\E q \in Proc : pc[q] \in InTransit) \/ FreeSet \subseteq Blocks(Saved)
  BY <1>4 DEF AllocInv, DiskInv
<1>6. \A q \in Proc : (held'[q] \cup Giving(q)') \cap Blocks(Saved)' = {}
  BY <1>2, <1>3, <1>5
<1>7. (\E q \in Proc : pc'[q] \in InTransit) \/ FreeSet' \subseteq Blocks(Saved)'
  <2>1. CASE pc'[p] \in InTransit \/ FreeSet' = {}
    BY <2>1
  <2>2. CASE pc[p] \notin InTransit /\ FreeSet' = FreeSet
    <3>1. \A q \in Proc : pc[q] \in InTransit => pc'[q] \in InTransit
      BY <2>2 DEF Others
    <3> QED
      BY <1>2, <1>5, <2>2, <3>1
  <2> QED
    BY <2>1, <2>2
<1> QED
  BY <1>6, <1>7

LEMMA DiskMarked ==
  ASSUME fmod'
  PROVE  DiskInv'
BY DEF DiskInv

LEMMA StepKept ==
  ASSUME AllocInv, LockInv', NEW p \in Proc, Others(p), GoodNext(p),
         Keeps(p) \/ Takes(p) \/ Gives(p) \/ Gets(p) \/ Loses(p),
         OneUpdate', DiskInv'
  PROVE  AllocInv'
BY ApartKept DEF AllocInv, GoodNext

(* No block of a file is in the list. *)
LEMMA HeldUnlisted ==
  ASSUME AllocInv
  PROVE  \A q \in Proc : held[q] \cap Listed = {}
<1>1. SUFFICES ASSUME NEW q \in Proc, NEW b \in held[q], b \in Listed PROVE FALSE
  OBVIOUS
<1>2. b \in Has(q) /\ b \notin FreeSet
  BY <1>1 DEF Has, AllocInv, ListInv, Apart
<1>3. PICK r \in Proc : b \in Giving(r)
  BY <1>1, <1>2, FreeNow
<1>4. b \in Has(r) /\ pc[r] \in InTransit /\ b = bno[r]
  BY <1>3 DEF Has, Giving, InTransit
<1>5. r = q
  BY <1>2, <1>4 DEF AllocInv, ListInv, Apart
<1> QED
  BY <1>1, <1>4, <1>5 DEF AllocInv, ListInv, Apart

LEMMA HeadSame ==
  ASSUME LockInv, LockInv', NEW p \in Proc, Others(p), sfree' = sfree,
         pc[p] \notin {"bread", "bwrite"}, pc'[p] \notin {"bread", "bwrite"}
  PROVE  Head1' = Head1
<1>1. \A q \in Proc : /\ pc'[q] \in {"bread", "bwrite"} <=> pc[q] \in {"bread", "bwrite"}
                      /\ pc[q] \in {"bread", "bwrite"} => bno'[q] = bno[q]
  BY DEF Others
<1>2. CASE \E q \in Proc : pc[q] \in {"bread", "bwrite"}
  <2>1. PICK q \in Proc : pc[q] \in {"bread", "bwrite"}
    BY <1>2
  <2>2. Head1 = <<bno[q]>> /\ Head1' = <<bno'[q]>> /\ bno'[q] = bno[q]
    BY <1>1, <2>1, HeadNow, HeadNext
  <2> QED
    BY <2>2
<1>3. CASE \A q \in Proc : pc[q] \notin {"bread", "bwrite"}
  <2>1. Head1 = sfree /\ Head1' = sfree'
    BY <1>1, <1>3, HeadNow, HeadNext
  <2> QED
    BY <2>1
<1> QED
  BY <1>2, <1>3

(* The blocks that are free, as far as the step of one process can change  *)
(* them.                                                                   *)
LEMMA FreeStill ==
  ASSUME AllocInv, LockInv', NEW p \in Proc, Others(p),
         AllocTypes', Places', Good(Parts(link, Head1))'
  PROVE  /\ \A b : b \in FreeSet <=> b \in Listed /\ b \notin Giving(p)
                                     /\ \A q \in Proc \ {p} : b \notin Giving(q)
         /\ \A b : b \in FreeSet' <=> b \in Listed' /\ b \notin Giving(p)'
                                      /\ \A q \in Proc \ {p} : b \notin Giving(q)
<1>1. \A q \in Proc \ {p} : Giving(q)' = Giving(q)
  BY DEF Others, Giving
<1> QED
  BY <1>1, FreeNow, FreeNext

(* A step that does not touch the list. *)
LEMMA Standing ==
  ASSUME AllocInv, LockInv', NEW p \in Proc, Others(p), AllocTypes', Places',
         UNCHANGED <<sfree, link, lost>>, tfree' =< tfree,
         pc[p] \notin {"bread", "bwrite"}, pc'[p] \notin {"bread", "bwrite"},
         Has(p)' = Has(p), Taking(p)' = Taking(p),
         pc'[p] \in InTransit => bno'[p] \notin held'[p] /\ bno'[p] \notin Listed,
         \A b \in Listed : b \in Giving(p)' <=> b \in Giving(p)
  PROVE  GoodNext(p) /\ Keeps(p) /\ Listed' = Listed
<1>1. Head1' = Head1 /\ link' = link
  BY HeadSame DEF AllocInv
<1>2. Parts(link, Head1)' = Parts(link, Head1)
  BY <1>1
<1>3. Listed' = Listed /\ Good(Parts(link, Head1))'
  BY <1>2 DEF Listed, AllocInv, ListInv
<1>4. GoodNext(p)
  BY <1>3 DEF GoodNext, InTransit
<1>5. \A b : b \in FreeSet' <=> b \in FreeSet
  BY <1>3, FreeStill
<1>6. FreeSet' = FreeSet
  BY <1>5
<1> QED
  BY <1>3, <1>4, <1>6 DEF Keeps

(* Nobody reads or writes a part of the list while it is not locked. *)
LEMMA Unlocked ==
  ASSUME AllocInv, ~flock
  PROVE  Head1 = sfree /\ \A q \in Proc : pc[q] \notin {"bread", "bwrite"}
<1>1. \A q \in Proc : pc[q] \notin {"bread", "bwrite"}
  BY DEF AllocInv, LockInv, ListLocked, Locker
<1> QED
  BY <1>1, HeadNow DEF AllocInv

(* A step of p, seen from the free blocks; who is told that there is no    *)
(* space is at "delay".                                                    *)
Effect(p) ==
  /\ Others(p)
  /\ \/ /\ Keeps(p) \/ Takes(p) \/ Gives(p) \/ Gets(p)
        /\ pc[p] # "delay" /\ pc'[p] # "delay"
     \/ Keeps(p) /\ pc[p] = "delay" /\ pc'[p] # "delay"
     \/ Keeps(p) /\ FreeSet = {} /\ pc'[p] = "delay"
     \/ Loses(p) /\ Lossy /\ pc'[p] = "delay"

(* All of the list is free, unless free() writes it to a block. *)
LEMMA FreeListed ==
  ASSUME AllocInv, \A q \in Proc : pc[q] # "bwrite"
  PROVE  FreeSet = Listed
<1>1. \A q \in Proc : Giving(q) \cap Listed = {}
  BY DEF Giving, AllocInv, ListInv, Apart
<1>2. \A b : b \in FreeSet <=> b \in Listed
  BY <1>1, FreeNow
<1> QED
  BY <1>2

LEMMA PartsNone ==
  ASSUME NEW k \in Contents, NEW l \in Part, l = None \/ l[1] = 0
  PROVE  \A n \in Nat : Parts(k, l)[n + 1] = None
<1> DEFINE P == Parts(k, l)
           T == {n \in Nat : P[n + 1] = None}
<1>1. P[0] = l /\ \A n \in Nat : P[n + 1] = Before(k, P[n])
  BY PartsRec
<1> HIDE DEF P
<1>2. 0 \in T
  BY <1>1 DEF Before
<1>3. ASSUME NEW n \in T PROVE n + 1 \in T
  <2>1. n + 1 \in Nat /\ P[n + 1] = None
    OBVIOUS
  <2>2. P[(n + 1) + 1] = Before(k, P[n + 1])
    BY <1>1, <2>1
  <2> QED
    BY <2>1, <2>2 DEF Before
<1>4. T = Nat
  BY <1>2, <1>3, Upwards
<1> QED
  BY <1>4 DEF P

(* A last part without blocks is all of the list. *)
LEMMA PartsEmpty ==
  ASSUME NEW k \in Contents, NEW l \in Part, l = None \/ l = << 0 >>
  PROVE  Good(Parts(k, l)) /\ In(Parts(k, l)) = {}
<1> DEFINE P == Parts(k, l)
<1>1. P[0] = l /\ \A n \in Nat : P[n + 1] = None
  <2>1. l = None \/ l[1] = 0
    OBVIOUS
  <2> QED
    BY <2>1, PartsRec, PartsNone
<1> HIDE DEF P
<1>2. \A n \in Nat : \A i \in DOMAIN P[n] : i = 1 /\ P[n][i] = 0
  <2>1. ASSUME NEW n \in Nat, n # 0 PROVE P[n] = None
    <3>1. n - 1 \in Nat /\ (n - 1) + 1 = n
      BY <2>1
    <3> QED
      BY <1>1, <3>1
  <2>2. DOMAIN None = {} /\ DOMAIN << 0 >> = {1} /\ << 0 >>[1] = 0
    BY DEF None
  <2>3. ASSUME NEW n \in Nat PROVE P[n] = None \/ P[n] = << 0 >>
    <3>1. CASE n = 0
      BY <1>1, <3>1
    <3> QED
      BY <2>1, <3>1
  <2> QED
    BY <2>2, <2>3
<1>3. Good(P)
  BY <1>2 DEF Good, Once, ZeroFirst
<1>4. In(P) = {}
  BY <1>2, AllocAssumption DEF In
<1> QED
  BY <1>3, <1>4 DEF P

(* Lists whose last parts begin alike have the same parts before. *)
LEMMA PartsTail ==
  ASSUME NEW k \in Contents, NEW l \in Part, NEW m \in Part, Before(k, l) = Before(k, m)
  PROVE  \A n \in Nat : Parts(k, l)[n + 1] = Parts(k, m)[n + 1]
BY PartsShift

(* A block that a list does not reach may hold anything. *)
LEMMA PartsElsewhere ==
  ASSUME NEW k \in Contents, NEW l \in Part, NEW b \in Block, NEW N \in Nat,
         NEW j \in Contents, \A c \in Block : c # b => j[c] = k[c],
         \A n \in 0 .. N : b \notin ToSet(Parts(k, l)[n])
  PROVE  \A n \in 0 .. N : Parts(j, l)[n] = Parts(k, l)[n]
<1> DEFINE P == Parts(k, l)
<1>1. P \in [Nat -> Part]
  BY PartsRec
<1> HIDE DEF P
<1>2. \A n \in Nat : n =< N - 1 /\ P[n] # None /\ P[n][1] \in Block => j[P[n][1]] = k[P[n][1]]
  <2>1. SUFFICES ASSUME NEW n \in Nat, n =< N - 1, P[n] # None, P[n][1] \in Block
                 PROVE  P[n][1] # b
    OBVIOUS
  <2>2. 1 \in DOMAIN P[n] /\ n \in 0 .. N
    BY <1>1, <2>1, PartElements
  <2> QED
    BY <2>2 DEF ToSet, P
<1>3. N - 1 \in Nat \cup {-1}
  OBVIOUS
<1>4. \A n \in Nat : n =< (N - 1) + 1 => Parts(j, l)[n] = P[n]
  BY <1>2, <1>3, PartsFrame DEF P
<1>5. \A n \in 0 .. N : n \in Nat /\ n =< (N - 1) + 1
  OBVIOUS
<1> QED
  BY <1>4, <1>5 DEF P

LEMMA PartsApart ==
  ASSUME NEW k \in Contents, NEW l \in Part, NEW b \in Block, b \notin In(Parts(k, l)),
         NEW j \in Contents, \A c \in Block : c # b => j[c] = k[c]
  PROVE  Parts(j, l) = Parts(k, l)
<1>1. \A n \in Nat : b \notin ToSet(Parts(k, l)[n])
  BY DEF In, ToSet
<1>2. ASSUME NEW n \in Nat PROVE Parts(j, l)[n] = Parts(k, l)[n]
  <2>1. (\A m \in 0 .. n : b \notin ToSet(Parts(k, l)[m])) /\ n \in 0 .. n
    BY <1>1
  <2> QED
    BY <2>1, PartsElsewhere
<1>3. Parts(j, l) \in [Nat -> Part] /\ Parts(k, l) \in [Nat -> Part]
  BY PartsRec
<1> QED
  BY <1>2, <1>3

------------------------------------------------------------------------------
(* alloc().                                                                *)

LEMMA AllocWaitsKeeps ==
  ASSUME AllocInv, LockInv', NEW p \in Proc, AllocWaits(p)
  PROVE  AllocInv' /\ Effect(p)
<1>1. /\ pc[p] \in {"user", "alloc"} /\ pc'[p] = "alloc" /\ Others(p)
      /\ UNCHANGED <<sfree, tfree, fmod, link, disk, buf, uinode, held, bno, lost>>
  BY DEF AllocWaits, InAlloc, At, Goes, Others, AllocInv, LockInv, LockTypes, super, sync
<1>2. AllocTypes' /\ Places'
  BY <1>1 DEF AllocInv, AllocTypes, Places, Others, InTransit
<1>3. Has(p)' = Has(p) /\ Taking(p)' = Taking(p) /\ Giving(p)' = Giving(p)
  BY <1>1 DEF Has, Taking, Giving
<1>4. GoodNext(p) /\ Keeps(p)
  BY <1>1, <1>2, <1>3, Standing DEF InTransit, AllocInv, AllocTypes
<1>5. OneUpdate' /\ DiskInv'
  BY <1>1, <1>3, <1>4, UpdateKept, DiskKept DEF InTransit, Keeps
<1> QED
  BY <1>1, <1>4, <1>5, StepKept DEF Effect

LEMMA LastOf ==
  ASSUME NEW l \in Part
  PROVE  /\ l = None => Last(<< 0 >> \o l) = 0
         /\ l # None => Last(<< 0 >> \o l) = Last(l) /\ Last(l) = l[Len(l)] /\ Len(l) \in DOMAIN l
                        /\ l[1] \in Block \cup {0} /\ l[Len(l)] \in Block \cup {0}
<1>1. l \in Seq(Block \cup {0}) /\ << 0 >> \in Seq(Block \cup {0})
  BY DEF Part
<1> HIDE DEF Part
<1>2. ASSUME l = None PROVE Last(<< 0 >> \o l) = 0
  BY <1>2 DEF None, Last
<1>3. ASSUME l # None
      PROVE  Last(<< 0 >> \o l) = Last(l) /\ Last(l) = l[Len(l)] /\ Len(l) \in DOMAIN l
             /\ l[1] \in Block \cup {0} /\ l[Len(l)] \in Block \cup {0}
  <2>1. Len(l) \in Nat \ {0} /\ DOMAIN l = 1 .. Len(l)
    BY <1>1, <1>3 DEF None
  <2>2. Len(<< 0 >> \o l) = 1 + Len(l) /\ (<< 0 >> \o l)[1 + Len(l)] = l[Len(l)]
    BY <1>1, <2>1
  <2>3. l[1] \in Block \cup {0} /\ l[Len(l)] \in Block \cup {0}
    BY <1>1, <2>1
  <2> QED
    BY <2>1, <2>2, <2>3 DEF Last
<1> QED
  BY <1>2, <1>3

LEMMA AllocNoneKeeps ==
  ASSUME AllocInv, LockInv', NEW p \in Proc, AllocNone(p)
  PROVE  AllocInv' /\ Effect(p)
<1>1. /\ pc[p] \in {"user", "alloc"} /\ pc'[p] = "delay" /\ Others(p) /\ ~flock
      /\ sfree' = None /\ tfree' = 0 /\ lost' = lost /\ bno' = [bno EXCEPT ![p] = 0]
      /\ UNCHANGED <<fmod, link, disk, buf, uinode, held>>
  BY DEF AllocNone, InAlloc, At, Nospace, Goes, Others, AllocInv, LockInv, LockTypes, AllocTypes, sync
<1>2. AllocTypes' /\ Places'
  <2>1. AllocTypes'
    BY <1>1, BeforePart DEF AllocInv, AllocTypes
  <2>2. \A q \in Proc : pc'[q] \in InTransit => q # p
    BY <1>1 DEF InTransit
  <2> QED
    BY <1>1, <2>1, <2>2 DEF AllocInv, Places, Others
<1>3. Head1 = sfree /\ Head1' = None
  <2>1. \A q \in Proc : pc'[q] \notin {"bread", "bwrite"}
    BY <1>1, Unlocked DEF Others
  <2> QED
    BY <1>1, <2>1, Unlocked, HeadNext
<1>4. sfree \in Part /\ link \in Contents
  BY DEF AllocInv, AllocTypes
<1>5. sfree = None \/ sfree = << 0 >>
  <2>1. SUFFICES ASSUME sfree # None PROVE sfree = << 0 >>
    OBVIOUS
  <2>2. sfree[Len(sfree)] = 0 /\ Len(sfree) \in DOMAIN sfree
    BY <1>4, <2>1, LastOf DEF AllocNone
  <2>3. Parts(link, sfree)[0] = sfree /\ ZeroFirst(Parts(link, sfree))
    BY <1>3, <1>4, PartsRec DEF AllocInv, ListInv, Good
  <2>4. Len(sfree) = 1
    <3>1. \A i \in DOMAIN sfree : sfree[i] = 0 => i = 1
      BY <2>3 DEF ZeroFirst
    <3> QED
      BY <2>2, <3>1
  <2> QED
    BY <1>4, <2>2, <2>4 DEF Part
<1>6. Listed = {} /\ Listed' = {} /\ Good(Parts(link, Head1))'
  BY <1>1, <1>3, <1>4, <1>5, PartsEmpty, BeforePart DEF Listed
<1>7. Has(p)' = Has(p) /\ Taking(p)' = {} /\ Taking(p) = {} /\ Giving(p)' = {} /\ Giving(p) = {}
  BY <1>1 DEF Has, Taking, Giving
<1>8. GoodNext(p)
  BY <1>1, <1>2, <1>6 DEF GoodNext, InTransit
<1>9. FreeSet = {} /\ FreeSet' = {}
  <2>1. \A b : b \notin FreeSet /\ b \notin FreeSet'
    BY <1>1, <1>2, <1>6, FreeStill
  <2> QED
    BY <2>1
<1>10. Keeps(p)
  BY <1>1, <1>7, <1>9 DEF Keeps, AllocInv, AllocTypes
<1>11. OneUpdate' /\ DiskInv'
  BY <1>1, <1>7, <1>9, UpdateKept, DiskKept
<1> QED
  BY <1>1, <1>8, <1>9, <1>10, <1>11, StepKept DEF Effect

(* The last part has more: the last of it is taken. *)
LEMMA AllocPopTakes ==
  ASSUME AllocInv, LockInv', NEW p \in Proc, AllocPop(p), Len(sfree) # 1
  PROVE  AllocInv' /\ Effect(p)
<1> DEFINE b == Last(sfree)
<1>1. /\ pc[p] \in {"user", "alloc"} /\ pc'[p] = "getblk" /\ Others(p) /\ ~flock
      /\ sfree' = Front(sfree) /\ bno'[p] = b /\ bno' = [bno EXCEPT ![p] = b]
      /\ UNCHANGED <<tfree, fmod, link, disk, buf, uinode, held, lost>>
  BY DEF AllocPop, InAlloc, At, Goes, Others, AllocInv, LockInv, LockTypes, AllocTypes, sync
<1>2. sfree \in Part /\ link \in Contents
  BY DEF AllocInv, AllocTypes
<1>3. /\ sfree # None /\ b # 0 /\ b \in Block /\ b = sfree[Len(sfree)] /\ Len(sfree) \in DOMAIN sfree
      /\ sfree[1] \in Block \cup {0}
  BY <1>2, LastOf DEF AllocPop
<1>4. Front(sfree) \in Part /\ Before(link, Front(sfree)) = Before(link, sfree)
  <2> DEFINE S == Block \cup {0}
  <2>1. sfree \in Seq(S) /\ Len(sfree) \in Nat \ {0, 1} /\ DOMAIN sfree = 1 .. Len(sfree)
    BY <1>2, <1>3 DEF Part
  <2> HIDE DEF S
  <2>2. /\ Front(sfree) \in Seq(S) /\ Len(Front(sfree)) = Len(sfree) - 1
        /\ Front(sfree)[1] = sfree[1]
    BY <2>1, SubSeqProperties DEF Front
  <2>3. Front(sfree) # None
    BY <2>1, <2>2 DEF None
  <2> QED
    BY <1>3, <2>2, <2>3 DEF Before, Part, S
<1> HIDE DEF b
<1>5. AllocTypes' /\ Places'
  <2>1. AllocTypes'
    BY <1>1, <1>3, <1>4 DEF AllocInv, AllocTypes
  <2>2. \A q \in Proc : pc[q] \notin {"bread", "bwrite"}
    BY <1>1, Unlocked
  <2>3. \A q \in Proc : pc'[q] \notin {"bread", "bwrite"}
    BY <1>1, <2>2 DEF Others
  <2> QED
    BY <1>1, <1>3, <2>1, <2>3 DEF AllocInv, Places, Others
<1>6. Head1 = sfree /\ Head1' = Front(sfree) /\ \A q \in Proc : pc[q] \notin {"bread", "bwrite"}
  <2>1. \A q \in Proc : pc'[q] \notin {"bread", "bwrite"}
    BY <1>1, Unlocked DEF Others
  <2> QED
    BY <1>1, <2>1, Unlocked, HeadNext
<1>7. Good(Parts(link, Head1))' /\ Listed' = Listed \ {b} /\ b \in Listed
  <2> DEFINE c == Parts(link, sfree)
             d == Parts(link, Front(sfree))
  <2>1. /\ c \in [Nat -> Part] /\ d \in [Nat -> Part] /\ c[0] = sfree /\ d[0] = Front(sfree)
        /\ \A n \in Nat : d[n + 1] = c[n + 1]
    BY <1>2, <1>4, PartsRec, PartsTail
  <2>2. Good(c)
    BY <1>6 DEF AllocInv, ListInv
  <2> HIDE DEF c, d
  <2>3. Good(d) /\ In(d) = In(c) \ {b} /\ b \in In(c)
    BY <1>3, <2>1, <2>2, Popped DEF b
  <2> QED
    BY <1>1, <1>6, <2>3 DEF Listed, c, d
<1>8. FreeSet = Listed /\ FreeSet' = FreeSet \ {b}
  <2>1. FreeSet = Listed
    BY <1>6, FreeListed
  <2>2. Giving(p)' = {} /\ Giving(p) = {}
    BY <1>1 DEF Giving
  <2>3. \A x : x \in FreeSet' <=> x \in FreeSet /\ x # b
    BY <1>1, <1>5, <1>7, <2>2, FreeStill
  <2> QED
    BY <2>1, <2>3
<1>9. Takes(p)
  <2>1. /\ Has(p)' = Has(p) \cup {b} /\ Taking(p)' = {b} /\ Taking(p) = {}
        /\ Giving(p)' = {} /\ Giving(p) = {}
    BY <1>1 DEF Has, Taking, Giving
  <2> QED
    BY <1>1, <1>7, <1>8, <2>1 DEF Takes
<1>10. GoodNext(p)
  BY <1>1, <1>5, <1>7, HeldUnlisted DEF GoodNext
<1>11. OneUpdate' /\ DiskInv'
  <2>1. held'[p] \cup Giving(p)' = held[p] \cup Giving(p)
    BY <1>1 DEF Giving
  <2> QED
    BY <1>1, <2>1, UpdateKept, DiskKept DEF InTransit
<1> QED
  BY <1>1, <1>9, <1>10, <1>11, StepKept DEF Effect

(* It was the first: the block holds the part before, and the list begins  *)
(* there.                                                                  *)
LEMMA AllocPopKeeps ==
  ASSUME AllocInv, LockInv', NEW p \in Proc, AllocPop(p), Len(sfree) = 1
  PROVE  AllocInv' /\ Effect(p)
<1> DEFINE b == Last(sfree)
<1>1. /\ pc[p] \in {"user", "alloc"} /\ pc'[p] = "bread" /\ Others(p) /\ ~flock
      /\ sfree' = Front(sfree) /\ bno'[p] = b /\ bno' = [bno EXCEPT ![p] = b]
      /\ UNCHANGED <<tfree, fmod, link, disk, buf, uinode, held, lost>>
  BY DEF AllocPop, InAlloc, At, Goes, Others, AllocInv, LockInv, LockTypes, AllocTypes, sync
<1>2. sfree \in Part /\ link \in Contents
  BY DEF AllocInv, AllocTypes
<1>3. sfree # None /\ b \in Block /\ b = sfree[1] /\ 1 \in DOMAIN sfree
  BY <1>2, LastOf DEF AllocPop
<1>4. sfree = <<b>> /\ Front(sfree) = None
  BY <1>2, <1>3 DEF Part, Front, None
<1> HIDE DEF b
<1>5. AllocTypes' /\ Places'
  <2>1. AllocTypes'
    BY <1>1, <1>3, <1>4, BeforePart DEF AllocInv, AllocTypes
  <2>2. \A q \in Proc : pc'[q] \in {"bread", "bwrite"} => sfree' = None
    BY <1>1, <1>4
  <2> QED
    BY <1>1, <1>3, <2>1, <2>2 DEF AllocInv, Places, Others
<1>6. Head1 = sfree /\ Head1' = sfree /\ \A q \in Proc : pc[q] \notin {"bread", "bwrite"}
  BY <1>1, <1>4, Unlocked, HeadNext
<1>7. Good(Parts(link, Head1))' /\ Listed' = Listed /\ b \in Listed
  <2>1. Good(Parts(link, Head1))' /\ Listed' = Listed
    BY <1>1, <1>6 DEF Listed, AllocInv, ListInv
  <2>2. Parts(link, sfree)[0] = sfree
    BY <1>2, PartsRec
  <2> QED
    BY <1>3, <1>6, <2>1, <2>2 DEF Listed, In
<1>8. /\ Has(p)' = Has(p) /\ Taking(p)' = {} /\ Taking(p) = {}
      /\ Giving(p)' = {} /\ Giving(p) = {}
  BY <1>1 DEF Has, Taking, Giving
<1>9. FreeSet' = FreeSet
  <2>1. \A x : x \in FreeSet' <=> x \in FreeSet
    BY <1>1, <1>5, <1>7, <1>8, FreeStill
  <2> QED
    BY <2>1
<1>10. Keeps(p)
  BY <1>1, <1>8, <1>9 DEF Keeps, AllocInv, AllocTypes
<1>11. GoodNext(p)
  BY <1>1, <1>5, <1>7, HeldUnlisted DEF GoodNext
<1>12. OneUpdate' /\ DiskInv'
  BY <1>1, <1>8, UpdateKept, DiskKept DEF InTransit
<1> QED
  BY <1>1, <1>10, <1>11, <1>12, StepKept DEF Effect

(* Who reads or writes a part of the list is alone with it, and the list   *)
(* begins at the block of that part.                                       *)
LEMMA Holding ==
  ASSUME AllocInv, NEW p \in Proc, Locker(p)
  PROVE  /\ bno[p] \in Block /\ \A q \in Proc \ {p} : ~Locker(q)
         /\ pc[p] \in {"bread", "bwrite"} => Head1 = <<bno[p]>> /\ sfree = None
         /\ pc[p] = "spill" => Head1 = sfree
<1>1. bno[p] \in Block /\ \A q \in Proc \ {p} : ~Locker(q)
  BY DEF AllocInv, Places, InTransit, Locker, LockInv, ListLocked
<1>2. pc[p] \in {"bread", "bwrite"} => Head1 = <<bno[p]>> /\ sfree = None
  BY HeadNow DEF AllocInv, Places
<1>3. pc[p] = "spill" => \A q \in Proc : pc[q] \notin {"bread", "bwrite"}
  BY <1>1 DEF Locker
<1> QED
  BY <1>1, <1>2, <1>3, HeadNow DEF AllocInv

(* The list, and the one without the block it begins at. *)
LEMMA PartsBelow ==
  ASSUME NEW k \in Contents, NEW b \in Block, Good(Parts(k, <<b>>))
  PROVE  /\ Good(Parts(k, k[b])) /\ b \notin In(Parts(k, k[b]))
         /\ In(Parts(k, <<b>>)) = In(Parts(k, k[b])) \cup {b}
<1> DEFINE l == <<b>>
           m == k[b]
           c == Parts(k, m)
           d == Parts(k, l)
<1>1. m \in Part /\ l \in Part
  BY DEF Contents, Part
<1>2. Before(k, l) = m /\ l = <<b>>
  BY AllocAssumption DEF Before, None
<1> HIDE DEF l, m
<1>3. /\ c \in [Nat -> Part] /\ d \in [Nat -> Part] /\ d[0] = <<b>>
      /\ \A n \in Nat : d[n + 1] = c[n]
  BY <1>1, <1>2, PartsRec, PartsShift
<1> HIDE DEF c, d
<1>4. Good(d)
  BY DEF d, l
<1> QED
  BY <1>3, <1>4, Stacked DEF c, d, l, m

(* The list, written to a block that it does not have. *)
LEMMA PartsAbove ==
  ASSUME NEW k \in Contents, NEW j \in Contents, NEW b \in Block, NEW m \in Part, j[b] = m,
         \A c \in Block : c # b => j[c] = k[c], Good(Parts(k, m)), b \notin In(Parts(k, m))
  PROVE  Good(Parts(j, <<b>>)) /\ In(Parts(j, <<b>>)) = In(Parts(k, m)) \cup {b}
<1> DEFINE l == <<b>>
           c == Parts(k, m)
           d == Parts(j, l)
<1>1. l \in Part /\ Before(j, l) = m /\ l = <<b>>
  BY AllocAssumption DEF Before, None, Part
<1>2. Parts(j, m) = c
  BY PartsApart
<1> HIDE DEF l
<1>3. /\ c \in [Nat -> Part] /\ d \in [Nat -> Part] /\ d[0] = l
      /\ \A n \in Nat : d[n + 1] = Parts(j, Before(j, l))[n]
  BY <1>1, PartsRec, PartsShift
<1>4. \A n \in Nat : d[n + 1] = c[n]
  BY <1>1, <1>2, <1>3
<1>5. Good(c) /\ b \notin In(c)
  OBVIOUS
<1> HIDE DEF c, d
<1> QED
  BY <1>1, <1>3, <1>4, <1>5, Stacked DEF c, d, l

LEMMA AllocReadTakes ==
  ASSUME AllocInv, LockInv', NEW p \in Proc, AllocRead(p)
  PROVE  AllocInv' /\ Effect(p)
<1> DEFINE b == bno[p]
<1>1. /\ pc[p] = "bread" /\ pc'[p] = "getblk" /\ Others(p) /\ sfree' = link[b]
      /\ UNCHANGED <<tfree, fmod, link, disk, buf, uinode, held, bno, lost>>
  BY DEF AllocRead, At, Goes, Others, AllocInv, LockInv, LockTypes, sync
<1>2. /\ b \in Block /\ Head1 = <<b>> /\ sfree = None
      /\ \A q \in Proc \ {p} : pc[q] \notin {"bread", "spill", "bwrite"}
  BY <1>1, Holding DEF Locker
<1>3. AllocTypes' /\ Places'
  <2>1. AllocTypes'
    BY <1>1, <1>2 DEF AllocInv, AllocTypes, Contents
  <2>2. \A q \in Proc : pc'[q] \notin {"bread", "bwrite"}
    BY <1>1, <1>2 DEF Others
  <2> QED
    BY <1>1, <1>2, <2>1, <2>2 DEF AllocInv, Places, Others
<1>4. Head1' = link[b]
  <2>1. \A q \in Proc : pc'[q] \notin {"bread", "bwrite"}
    BY <1>1, <1>2 DEF Others
  <2> QED
    BY <1>1, <2>1, HeadNext
<1>5. Good(Parts(link, Head1))' /\ Listed' = Listed \ {b} /\ b \in Listed
  <2>1. link \in Contents /\ Good(Parts(link, <<b>>))
    BY <1>2 DEF AllocInv, AllocTypes, ListInv
  <2>2. Good(Parts(link, link[b])) /\ b \notin In(Parts(link, link[b]))
        /\ In(Parts(link, <<b>>)) = In(Parts(link, link[b])) \cup {b}
    BY <1>2, <2>1, PartsBelow
  <2>3. Good(Parts(link, Head1))' /\ Listed' = In(Parts(link, link[b]))
        /\ Listed = In(Parts(link, <<b>>))
    BY <1>1, <1>2, <1>4, <2>2 DEF Listed
  <2> QED
    BY <2>2, <2>3
<1> HIDE DEF b
<1>6. FreeSet = Listed /\ FreeSet' = FreeSet \ {b}
  <2>1. FreeSet = Listed
    BY <1>1, <1>2, FreeListed
  <2>2. Giving(p)' = {} /\ Giving(p) = {}
    BY <1>1 DEF Giving
  <2>3. \A x : x \in FreeSet' <=> x \in FreeSet /\ x # b
    BY <1>1, <1>3, <1>5, <2>2, FreeStill
  <2> QED
    BY <2>1, <2>3
<1>7. Takes(p)
  <2>1. /\ Has(p)' = Has(p) \cup {b} /\ Taking(p)' = {b} /\ Taking(p) = {}
        /\ Giving(p)' = {} /\ Giving(p) = {}
    BY <1>1 DEF Has, Taking, Giving, b
  <2> QED
    BY <1>1, <1>5, <1>6, <2>1 DEF Takes
<1>8. GoodNext(p)
  BY <1>1, <1>3, <1>5, HeldUnlisted DEF GoodNext, b
<1>9. OneUpdate' /\ DiskInv'
  <2>1. held'[p] \cup Giving(p)' = held[p] \cup Giving(p)
    BY <1>1 DEF Giving
  <2> QED
    BY <1>1, <2>1, UpdateKept, DiskKept DEF InTransit
<1> QED
  BY <1>1, <1>7, <1>8, <1>9, StepKept DEF Effect

LEMMA AllocReadErrorLoses ==
  ASSUME AllocInv, LockInv', NEW p \in Proc, AllocReadError(p)
  PROVE  AllocInv' /\ Effect(p)
<1>1. /\ pc[p] = "bread" /\ pc'[p] = "delay" /\ Others(p) /\ Lossy
      /\ sfree' = None /\ tfree' = 0 /\ lost' = lost \cup Blocks(<<bno[p]>>)
      /\ bno' = [bno EXCEPT ![p] = 0]
      /\ UNCHANGED <<fmod, link, disk, buf, uinode, held>>
  BY DEF AllocReadError, At, Nospace, Goes, Others, AllocInv, LockInv, LockTypes, AllocTypes, sync
<1>2. /\ Head1 = <<bno[p]>> /\ \A q \in Proc \ {p} : pc[q] \notin {"bread", "spill", "bwrite"}
  BY <1>1, Holding DEF Locker
<1>3. FreeSet = Listed /\ Blocks(<<bno[p]>>) = FreeSet /\ FreeSet \subseteq Block
  <2>1. FreeSet = Listed
    BY <1>1, <1>2, FreeListed
  <2> QED
    BY <1>2, <2>1, FreeNow
<1>4. AllocTypes' /\ Places'
  <2>1. AllocTypes'
    BY <1>1, <1>3, BeforePart DEF AllocInv, AllocTypes
  <2>2. \A q \in Proc : pc'[q] \in InTransit => q # p
    BY <1>1 DEF InTransit
  <2> QED
    BY <1>1, <2>1, <2>2 DEF AllocInv, Places, Others
<1>5. Head1' = None
  <2>1. \A q \in Proc : pc'[q] \notin {"bread", "bwrite"}
    BY <1>1, <1>2 DEF Others
  <2> QED
    BY <1>1, <2>1, HeadNext
<1>6. Listed' = {} /\ Good(Parts(link, Head1))'
  <2>1. link \in Contents /\ None \in Part
    BY BeforePart DEF AllocInv, AllocTypes
  <2> QED
    BY <1>1, <1>5, <2>1, PartsEmpty DEF Listed
<1>7. Has(p)' = Has(p) /\ Giving(p)' = {} /\ Giving(p) = {}
  BY <1>1 DEF Has, Taking, Giving
<1>8. FreeSet' = {}
  <2>1. \A b : b \notin FreeSet'
    BY <1>1, <1>4, <1>6, FreeStill
  <2> QED
    BY <2>1
<1>9. Loses(p)
  BY <1>1, <1>3, <1>7, <1>8 DEF Loses
<1>10. GoodNext(p)
  BY <1>1, <1>4, <1>6 DEF GoodNext, InTransit
<1>11. OneUpdate' /\ DiskInv'
  BY <1>1, <1>7, <1>8, UpdateKept, DiskKept
<1> QED
  BY <1>1, <1>9, <1>10, <1>11, StepKept DEF Effect

LEMMA AllocGetGets ==
  ASSUME AllocInv, LockInv', NEW p \in Proc, AllocGet(p)
  PROVE  AllocInv' /\ Effect(p)
<1> DEFINE b == bno[p]
<1>1. /\ pc[p] = "getblk" /\ pc'[p] = "user" /\ Others(p)
      /\ held' = [held EXCEPT ![p] = @ \cup {b}] /\ held'[p] = held[p] \cup {b}
      /\ link' = [link EXCEPT ![b] = None] /\ fmod' = TRUE
      /\ bno' = [bno EXCEPT ![p] = 0] /\ tfree' = (IF tfree > 0 THEN tfree - 1 ELSE 0)
      /\ UNCHANGED <<sfree, disk, buf, uinode, lost>>
  BY DEF AllocGet, At, Goes, Others, AllocInv, LockInv, LockTypes, AllocTypes, sync
<1>2. b \in Block /\ b \notin Listed
  BY <1>1 DEF AllocInv, Places, InTransit, ListInv, Apart
<1>3. link \in Contents /\ link' \in Contents /\ \A c \in Block : c # b => link'[c] = link[c]
  <2>1. link \in Contents /\ None \in Part
    BY BeforePart DEF AllocInv, AllocTypes
  <2> QED
    BY <1>1, <1>2, <2>1 DEF Contents
<1>4. AllocTypes' /\ Places'
  <2>1. tfree' \in Nat
    BY <1>1 DEF AllocInv, AllocTypes
  <2>2. AllocTypes'
    BY <1>1, <1>2, <1>3, <2>1 DEF AllocInv, AllocTypes
  <2>3. \A q \in Proc : pc'[q] \in InTransit => q # p
    BY <1>1 DEF InTransit
  <2> QED
    BY <1>1, <2>2, <2>3 DEF AllocInv, Places, Others
<1>5. Head1' = Head1 /\ Head1 \in Part
  BY <1>1, HeadSame, HeadPart DEF AllocInv
<1>6. Listed' = Listed /\ Good(Parts(link, Head1))'
  <2>1. b \notin In(Parts(link, Head1))
    BY <1>2 DEF Listed
  <2> HIDE DEF b
  <2>2. Parts(link', Head1) = Parts(link, Head1)
    BY <1>2, <1>3, <1>5, <2>1, PartsApart
  <2> QED
    BY <1>5, <2>2 DEF Listed, AllocInv, ListInv
<1>7. /\ Taking(p) = {b} /\ Taking(p)' = {} /\ Giving(p) = {} /\ Giving(p)' = {}
      /\ Has(p)' = Has(p)
  BY <1>1 DEF Has, Taking, Giving
<1>8. FreeSet' = FreeSet
  <2>1. \A x : x \in FreeSet' <=> x \in FreeSet
    BY <1>1, <1>4, <1>6, <1>7, FreeStill
  <2> QED
    BY <2>1
<1>9. Gets(p)
  BY <1>1, <1>7, <1>8 DEF Gets
<1>10. GoodNext(p)
  BY <1>1, <1>4, <1>6 DEF GoodNext, InTransit
<1>11. OneUpdate' /\ DiskInv'
  BY <1>1, UpdateKept, DiskMarked
<1> QED
  BY <1>1, <1>9, <1>10, <1>11, StepKept DEF Effect

LEMMA EnospcKeeps ==
  ASSUME AllocInv, LockInv', NEW p \in Proc, Enospc(p)
  PROVE  AllocInv' /\ Effect(p)
<1>1. /\ pc[p] = "delay" /\ pc'[p] = "user" /\ Others(p)
      /\ UNCHANGED <<sfree, tfree, fmod, link, disk, buf, uinode, held, bno, lost>>
  BY DEF Enospc, At, Goes, Others, AllocInv, LockInv, LockTypes, super, sync
<1>2. AllocTypes' /\ Places'
  BY <1>1 DEF AllocInv, AllocTypes, Places, Others, InTransit
<1>3. Has(p)' = Has(p) /\ Taking(p)' = Taking(p) /\ Giving(p)' = Giving(p)
  BY <1>1 DEF Has, Taking, Giving
<1>4. GoodNext(p) /\ Keeps(p)
  BY <1>1, <1>2, <1>3, Standing DEF InTransit, AllocInv, AllocTypes
<1>5. OneUpdate' /\ DiskInv'
  BY <1>1, <1>3, <1>4, UpdateKept, DiskKept DEF InTransit, Keeps
<1> QED
  BY <1>1, <1>4, <1>5, StepKept DEF Effect

------------------------------------------------------------------------------
(* free().                                                                 *)

(* Block b of p's file, as free() looks at the list. *)
Freed(p, b) == (pc[p] = "user" /\ b \in held[p]) \/ (pc[p] = "free" /\ b = bno[p])

LEMMA FreedBlock ==
  ASSUME AllocInv, NEW p \in Proc, NEW b, Freed(p, b)
  PROVE  /\ b \in Block /\ b \notin Listed /\ b \in Has(p)
         /\ Has(p) = held[p] \cup {b} /\ Taking(p) = {} /\ Giving(p) \subseteq {b}
         /\ held[p] \cup Giving(p) = held[p] \cup {b}
<1>1. CASE pc[p] = "user" /\ b \in held[p]
  <2>1. b \in Block
    BY <1>1 DEF AllocInv, AllocTypes
  <2> QED
    BY <1>1, <2>1, HeldUnlisted DEF Has, Taking, Giving
<1>2. CASE pc[p] = "free" /\ b = bno[p]
  BY <1>2 DEF AllocInv, Places, InTransit, ListInv, Apart, Has, Taking, Giving
<1> QED
  BY <1>1, <1>2 DEF Freed

(* free() waits for the list, or locks it to write it. *)
LEMMA FreeItKeeps ==
  ASSUME AllocInv, LockInv', NEW p \in Proc, NEW b, Freed(p, b), FreeIt(p, b), pc'[p] # "user"
  PROVE  AllocInv' /\ Effect(p)
<1>1. /\ pc[p] \in {"user", "free"} /\ pc'[p] \in {"free", "spill"} /\ Others(p)
      /\ held' = [held EXCEPT ![p] = @ \ {b}] /\ held'[p] = held[p] \ {b}
      /\ bno' = [bno EXCEPT ![p] = b] /\ bno'[p] = b
      /\ fmod' = (fmod \/ pc[p] = "user")
      /\ UNCHANGED <<sfree, tfree, link, disk, buf, uinode, lost>>
  BY DEF FreeIt, Push, Goes, Freed, Others, AllocInv, LockInv, LockTypes, AllocTypes, sync
<1>2. /\ b \in Block /\ b \notin Listed /\ Has(p) = held[p] \cup {b} /\ Taking(p) = {}
      /\ Giving(p) \subseteq {b} /\ held[p] \cup Giving(p) = held[p] \cup {b}
  BY FreedBlock
<1>3. AllocTypes' /\ Places'
  <2>1. AllocTypes'
    BY <1>1, <1>2 DEF AllocInv, AllocTypes
  <2> QED
    BY <1>1, <1>2, <2>1 DEF AllocInv, Places, Others
<1>4. Taking(p)' = {} /\ Giving(p)' = {b} /\ Has(p)' = Has(p)
  BY <1>1, <1>2 DEF Has, Taking, Giving
<1>5. GoodNext(p) /\ Keeps(p)
  <2>1. \A x \in Listed : x \in Giving(p)' <=> x \in Giving(p)
    BY <1>2, <1>4
  <2>2. bno'[p] \notin held'[p] /\ bno'[p] \notin Listed /\ tfree' =< tfree
    BY <1>1, <1>2 DEF AllocInv, AllocTypes
  <2> QED
    BY <1>1, <1>2, <1>3, <1>4, <2>1, <2>2, Standing
<1>6. DiskInv'
  <2>1. CASE pc[p] = "user"
    BY <1>1, <2>1, DiskMarked
  <2>2. CASE pc[p] # "user"
    <3>1. fmod' = fmod
      BY <1>1, <2>2 DEF AllocInv, AllocTypes
    <3>2. held'[p] \cup Giving(p)' \subseteq held[p] \cup Giving(p)
      BY <1>1, <1>2, <1>4
    <3> QED
      BY <1>1, <3>1, <3>2, DiskKept DEF InTransit
  <2> QED
    BY <2>1, <2>2
<1>7. OneUpdate'
  BY <1>1, UpdateKept
<1> QED
  BY <1>1, <1>5, <1>6, <1>7, StepKept DEF Effect

(* There is room in the last part. *)
LEMMA FreeItGives ==
  ASSUME AllocInv, LockInv', NEW p \in Proc, NEW b, Freed(p, b), FreeIt(p, b), pc'[p] = "user"
  PROVE  AllocInv' /\ Effect(p)
<1> DEFINE l == IF sfree = None THEN << 0 >> ELSE sfree
<1>1. /\ pc[p] \in {"user", "free"} /\ Others(p) /\ ~flock
      /\ held' = [held EXCEPT ![p] = @ \ {b}] /\ held'[p] = held[p] \ {b}
      /\ bno' = [bno EXCEPT ![p] = 0] /\ sfree' = Append(l, b)
      /\ tfree' = tfree + 1 /\ fmod' = TRUE
      /\ UNCHANGED <<link, disk, buf, uinode, lost>>
  BY DEF FreeIt, Push, Goes, Freed, Others, AllocInv, LockInv, LockTypes, AllocTypes, sync
<1>2. /\ b \in Block /\ b \notin Listed /\ b \in Has(p) /\ Has(p) = held[p] \cup {b} /\ Taking(p) = {}
      /\ Giving(p) \subseteq {b}
  BY FreedBlock
<1>3. sfree \in Part /\ link \in Contents
  BY DEF AllocInv, AllocTypes
<1>4. sfree' \in Part /\ Before(link, sfree') = Before(link, sfree)
  <2> DEFINE S == Block \cup {0}
  <2>1. /\ l \in Seq(S) /\ l # <<>> /\ b \in S
        /\ sfree = None => l[1] = 0
        /\ sfree # None => l = sfree
    <3>1. sfree \in Seq(S) /\ << 0 >> \in Seq(S) /\ << 0 >> # <<>> /\ << 0 >>[1] = 0
      BY <1>3 DEF Part
    <3>2. (sfree = None => l = << 0 >>) /\ (sfree # None => l = sfree) /\ b \in S
      BY <1>2
    <3> HIDE DEF S, l
    <3> QED
      BY <3>1, <3>2 DEF None
  <2>2. sfree' = Append(l, b)
    BY <1>1
  <2> HIDE DEF S, l
  <2>3. sfree' \in Seq(S) /\ sfree'[1] = l[1] /\ sfree' # None
    <3>1. Len(l) \in Nat \ {0} /\ Append(l, b) \in Seq(S) /\ Len(Append(l, b)) = Len(l) + 1
      BY <2>1, AppendProperties
    <3>2. Append(l, b)[1] = l[1]
      BY <2>1, <3>1, AppendProperties
    <3> QED
      BY <2>2, <3>1, <3>2 DEF None
  <2> QED
    BY <2>1, <2>3 DEF Before, Part, S
<1>5. Head1 = sfree /\ Head1' = sfree' /\ \A q \in Proc : pc[q] \notin {"bread", "bwrite"}
  <2>1. \A q \in Proc : pc'[q] \notin {"bread", "bwrite"}
    BY <1>1, Unlocked DEF Others
  <2> QED
    BY <1>1, <2>1, Unlocked, HeadNext
<1>6. Good(Parts(link, Head1))' /\ Listed' = Listed \cup {b}
  <2> DEFINE c == Parts(link, sfree)
             d == Parts(link, sfree')
  <2>1. /\ c \in [Nat -> Part] /\ d \in [Nat -> Part] /\ c[0] = sfree /\ d[0] = sfree'
        /\ \A n \in Nat : d[n + 1] = c[n + 1]
    BY <1>3, <1>4, PartsRec, PartsTail
  <2>2. Good(c) /\ b \notin In(c)
    BY <1>2, <1>5 DEF AllocInv, ListInv, Listed
  <2>3. d[0] = Append(IF c[0] = None THEN << 0 >> ELSE c[0], b)
    BY <1>1, <2>1
  <2> HIDE DEF c, d
  <2>4. Good(d) /\ In(d) = In(c) \cup {b}
    <3>1. ASSUME NEW x, x = c, NEW y, y = d PROVE Good(y) /\ In(y) = In(x) \cup {b}
      <4>1. /\ x \in [Nat -> Part] /\ y \in [Nat -> Part] /\ Good(x) /\ b \in Block /\ b \notin In(x)
            /\ \A n \in Nat : y[n + 1] = x[n + 1]
        BY <1>2, <2>1, <2>2, <3>1
      <4>2. y[0] = Append(IF x[0] = None THEN << 0 >> ELSE x[0], b)
        BY <2>3, <3>1
      <4> QED
        BY <4>1, <4>2, Pushed
    <3> QED
      BY <3>1
  <2> QED
    BY <1>1, <1>5, <2>4 DEF Listed, c, d
<1> HIDE DEF l
<1>7. AllocTypes' /\ Places'
  <2>1. AllocTypes'
    BY <1>1, <1>4 DEF AllocInv, AllocTypes
  <2>2. \A q \in Proc : pc'[q] \in InTransit => q # p
    BY DEF InTransit
  <2>3. \A q \in Proc : pc'[q] \notin {"bread", "bwrite"}
    BY <1>1, <1>5 DEF Others
  <2> QED
    BY <1>1, <2>1, <2>2, <2>3 DEF AllocInv, Places, Others
<1>8. Taking(p)' = {} /\ Giving(p)' = {} /\ Has(p)' = Has(p) \ {b}
  BY <1>1, <1>2 DEF Has, Taking, Giving
<1>9. FreeSet' = FreeSet \cup {b}
  <2>1. FreeSet = Listed
    BY <1>5, FreeListed
  <2>2. \A q \in Proc \ {p} : b \notin Giving(q)
    BY <1>2 DEF AllocInv, ListInv, Apart, Has
  <2>3. \A x : x \in FreeSet' <=> x \in FreeSet \/ x = b
    BY <1>1, <1>2, <1>6, <1>7, <1>8, <2>1, <2>2, FreeStill
  <2> QED
    BY <2>3
<1>10. Gives(p)
  BY <1>1, <1>2, <1>8, <1>9 DEF Gives
<1>11. GoodNext(p)
  BY <1>1, <1>2, <1>6, <1>7 DEF GoodNext, InTransit
<1>12. OneUpdate' /\ DiskInv'
  BY <1>1, UpdateKept, DiskMarked
<1> QED
  BY <1>1, <1>10, <1>11, <1>12, StepKept DEF Effect

(* The list goes into the block, and begins there. *)
LEMMA FreeCopyKeeps ==
  ASSUME AllocInv, LockInv', NEW p \in Proc, FreeCopy(p)
  PROVE  AllocInv' /\ Effect(p)
<1> DEFINE b == bno[p]
<1>1. /\ pc[p] = "spill" /\ pc'[p] = "bwrite" /\ Others(p)
      /\ link' = [link EXCEPT ![b] = sfree] /\ sfree' = None
      /\ UNCHANGED <<tfree, fmod, disk, buf, uinode, held, bno, lost>>
  BY DEF FreeCopy, At, Goes, Others, AllocInv, LockInv, LockTypes, sync
<1>2. /\ b \in Block /\ b \notin Listed /\ Head1 = sfree
      /\ \A q \in Proc \ {p} : pc[q] \notin {"bread", "spill", "bwrite"}
  BY <1>1, Holding DEF Locker, AllocInv, ListInv, Apart
<1>3. /\ sfree \in Part /\ link \in Contents /\ link' \in Contents /\ link'[b] = sfree
      /\ \A c \in Block : c # b => link'[c] = link[c]
  <2>1. sfree \in Part /\ link \in Contents
    BY DEF AllocInv, AllocTypes
  <2> QED
    BY <1>1, <1>2, <2>1 DEF Contents
<1>4. AllocTypes' /\ Places'
  <2>1. AllocTypes'
    BY <1>1, <1>3, BeforePart DEF AllocInv, AllocTypes
  <2> QED
    BY <1>1, <1>2, <2>1 DEF AllocInv, Places, Others
<1>5. Head1' = <<b>>
  BY <1>1, HeadNext
<1> HIDE DEF b
<1>6. Good(Parts(link, Head1))' /\ Listed' = Listed \cup {b}
  <2>1. Good(Parts(link, sfree)) /\ b \notin In(Parts(link, sfree))
    BY <1>2 DEF AllocInv, ListInv, Listed
  <2>2. Good(Parts(link', <<b>>)) /\ In(Parts(link', <<b>>)) = In(Parts(link, sfree)) \cup {b}
    BY <1>2, <1>3, <2>1, PartsAbove
  <2> QED
    BY <1>2, <1>5, <2>2 DEF Listed
<1>7. /\ Has(p)' = Has(p) /\ Taking(p)' = {} /\ Taking(p) = {}
      /\ Giving(p)' = {b} /\ Giving(p) = {b} /\ b \in Has(p)
  BY <1>1 DEF Has, Taking, Giving, b
<1>8. FreeSet' = FreeSet
  <2>1. \A x : x \in FreeSet' <=> x \in FreeSet
    BY <1>1, <1>4, <1>6, <1>7, FreeStill
  <2> QED
    BY <2>1
<1>9. Keeps(p)
  BY <1>1, <1>7, <1>8 DEF Keeps, AllocInv, AllocTypes
<1>10. GoodNext(p)
  BY <1>1, <1>4, <1>6, <1>7 DEF GoodNext, InTransit, AllocInv, ListInv, Apart
<1>11. OneUpdate'
  BY <1>1, UpdateKept
<1>12. DiskInv'
  <2>1. SUFFICES ASSUME ~fmod, \A q \in Proc : pc'[q] # "sync"
                 PROVE  \A q \in Proc : (held'[q] \cup Giving(q)') \cap Blocks(Saved)' = {}
    BY <1>1 DEF DiskInv, InTransit
  <2>2. \A q \in Proc : pc[q] # "sync"
    BY <1>1, <2>1 DEF Others
  <2>3. \A q \in Proc : (held[q] \cup Giving(q)) \cap Blocks(Saved) = {}
    BY <2>1, <2>2 DEF AllocInv, DiskInv
  <2>4. Saved' = Saved /\ Saved \in Part
    <3>1. \A q \in Proc : pc'[q] = "synced" <=> pc[q] = "synced"
      BY <1>1 DEF Others
    <3> QED
      BY <1>1, <3>1 DEF Saved, AllocInv, AllocTypes
  <2>5. \A n \in Depth : b \notin ToSet(Parts(link, Saved)[n])
    BY <1>2, <1>7, <2>3 DEF Blocks
  <2>6. \A n \in Depth : Parts(link', Saved)[n] = Parts(link, Saved)[n]
    <3>1. Cardinality(Block) \in Nat
      BY FS_CardinalityType, AllocAssumption
    <3> QED
      BY <1>2, <1>3, <2>4, <2>5, <3>1, PartsElsewhere DEF Depth
  <2>7. Blocks(Saved)' = Blocks(Saved)
    BY <2>4, <2>6 DEF Blocks
  <2>8. \A q \in Proc : held'[q] \cup Giving(q)' = held[q] \cup Giving(q)
    BY <1>1, <1>7 DEF Others, Giving
  <2> QED
    BY <2>3, <2>7, <2>8
<1> QED
  BY <1>1, <1>9, <1>10, <1>11, <1>12, StepKept DEF Effect

(* It is on the disk, and the block is the one of the new last part. *)
LEMMA FreeWrittenGives ==
  ASSUME AllocInv, LockInv', NEW p \in Proc, FreeWritten(p)
  PROVE  AllocInv' /\ Effect(p)
<1> DEFINE b == bno[p]
<1>1. /\ pc[p] = "bwrite" /\ pc'[p] = "user" /\ Others(p)
      /\ sfree' = Append(sfree, b) /\ bno' = [bno EXCEPT ![p] = 0]
      /\ tfree' = tfree + 1 /\ fmod' = TRUE
      /\ UNCHANGED <<link, disk, buf, uinode, held, lost>>
  BY DEF FreeWritten, Push, At, Goes, Others, AllocInv, LockInv, LockTypes, AllocTypes, sync
<1>2. /\ b \in Block /\ Head1 = <<b>> /\ sfree = None
      /\ \A q \in Proc \ {p} : pc[q] \notin {"bread", "spill", "bwrite"}
  BY <1>1, Holding DEF Locker
<1>3. sfree' = <<b>> /\ <<b>> \in Part
  BY <1>1, <1>2 DEF None, Part
<1>4. AllocTypes' /\ Places'
  <2>1. AllocTypes'
    BY <1>1, <1>3 DEF AllocInv, AllocTypes
  <2>2. \A q \in Proc : pc'[q] \notin {"bread", "bwrite"}
    BY <1>1, <1>2 DEF Others
  <2>3. \A q \in Proc : pc'[q] \in InTransit => q # p
    BY <1>1 DEF InTransit
  <2> QED
    BY <1>1, <2>1, <2>2, <2>3 DEF AllocInv, Places, Others
<1>5. Head1' = Head1
  <2>1. \A q \in Proc : pc'[q] \notin {"bread", "bwrite"}
    BY <1>1, <1>2 DEF Others
  <2> QED
    BY <1>2, <1>3, <2>1, HeadNext
<1>6. Good(Parts(link, Head1))' /\ Listed' = Listed /\ b \in Listed
  <2>1. Good(Parts(link, Head1))' /\ Listed' = Listed
    BY <1>1, <1>5 DEF Listed, AllocInv, ListInv
  <2>2. link \in Contents /\ Good(Parts(link, <<b>>))
    BY <1>2 DEF AllocInv, AllocTypes, ListInv
  <2>3. b \in In(Parts(link, <<b>>))
    BY <1>2, <2>2, PartsBelow
  <2> QED
    BY <1>2, <2>1, <2>3 DEF Listed
<1>7. /\ Has(p) = held[p] \cup {b} /\ b \notin held[p] /\ Has(p)' = held[p]
      /\ Taking(p)' = {} /\ Taking(p) = {} /\ Giving(p)' = {} /\ Giving(p) = {b}
  BY <1>1 DEF Has, Taking, Giving, AllocInv, ListInv, Apart, InTransit
<1> HIDE DEF b
<1>8. FreeSet' = FreeSet \cup {b}
  <2>1. \A q \in Proc \ {p} : b \notin Giving(q)
    BY <1>7 DEF AllocInv, ListInv, Apart, Has
  <2>2. \A x : x \in FreeSet' <=> x \in FreeSet \/ x = b
    BY <1>1, <1>4, <1>6, <1>7, <2>1, FreeStill
  <2> QED
    BY <2>2
<1>9. Gives(p)
  BY <1>1, <1>7, <1>8 DEF Gives
<1>10. GoodNext(p)
  BY <1>1, <1>4, <1>6 DEF GoodNext, InTransit
<1>11. OneUpdate' /\ DiskInv'
  BY <1>1, UpdateKept, DiskMarked
<1> QED
  BY <1>1, <1>9, <1>10, <1>11, StepKept DEF Effect

------------------------------------------------------------------------------
(* update().                                                               *)

LEMMA UpdateKeeps ==
  ASSUME AllocInv, LockInv', NEW p \in Proc, Update(p)
  PROVE  AllocInv' /\ Effect(p)
<1>1. /\ pc[p] = "user" /\ pc'[p] = "sync" /\ Others(p) /\ ~uinode /\ uinode'
      /\ fmod' = FALSE /\ uinode' = TRUE
      /\ UNCHANGED <<sfree, tfree, link, disk, buf, held, bno, lost>>
  BY DEF Update, At, Goes, Others, AllocInv, LockInv, LockTypes
<1>2. AllocTypes' /\ Places'
  BY <1>1 DEF AllocInv, AllocTypes, Places, Others, InTransit
<1>3. Has(p)' = Has(p) /\ Taking(p)' = Taking(p) /\ Giving(p)' = Giving(p)
  BY <1>1 DEF Has, Taking, Giving
<1>4. GoodNext(p) /\ Keeps(p)
  BY <1>1, <1>2, <1>3, Standing DEF InTransit, AllocInv, AllocTypes
<1>5. OneUpdate'
  <2>1. \A q \in Proc : pc'[q] \in {"sync", "synced"} <=> q = p
    BY <1>1 DEF AllocInv, OneUpdate, Others
  <2> QED
    BY <1>1, <2>1 DEF OneUpdate
<1>6. DiskInv'
  BY <1>1 DEF DiskInv
<1> QED
  BY <1>1, <1>4, <1>5, <1>6, StepKept DEF Effect

(* The list as it is now goes into the copy. *)
LEMMA UpdateCopyKeeps ==
  ASSUME AllocInv, LockInv', NEW p \in Proc, UpdateCopy(p)
  PROVE  AllocInv' /\ Effect(p)
<1>1. /\ pc[p] = "sync" /\ pc'[p] = "synced" /\ Others(p) /\ buf' = sfree
      /\ UNCHANGED <<sfree, tfree, fmod, link, disk, uinode, held, bno, lost>>
  BY DEF UpdateCopy, At, Goes, Others, AllocInv, LockInv, LockTypes, super
<1>2. AllocTypes' /\ Places'
  BY <1>1 DEF AllocInv, AllocTypes, Places, Others, InTransit
<1>3. Has(p)' = Has(p) /\ Taking(p)' = Taking(p) /\ Giving(p)' = Giving(p)
  BY <1>1 DEF Has, Taking, Giving
<1>4. GoodNext(p) /\ Keeps(p) /\ Listed' = Listed
  BY <1>1, <1>2, <1>3, Standing DEF InTransit, AllocInv, AllocTypes
<1>5. OneUpdate'
  <2>1. \A q \in Proc : pc'[q] \in {"sync", "synced"} <=> pc[q] \in {"sync", "synced"}
    BY <1>1 DEF Others
  <2> QED
    BY <1>1, <2>1 DEF AllocInv, OneUpdate
<1>6. DiskInv'
  <2>1. Saved' = sfree /\ Blocks(Saved)' = Blocks(sfree)
    <3>1. Saved' = sfree
      BY <1>1 DEF Saved
    <3> QED
      BY <1>1, <3>1 DEF Blocks
  <2>2. /\ \A q \in Proc : held'[q] = held[q] /\ Giving(q)' = Giving(q)
        /\ \A q \in Proc : pc'[q] \in InTransit <=> pc[q] \in InTransit
        /\ FreeSet' = FreeSet
    BY <1>1, <1>3, <1>4 DEF Others, Giving, Keeps, InTransit
  <2>3. CASE \E q \in Proc : pc[q] \in {"bread", "bwrite"}
    <3>1. sfree = None /\ link \in Contents /\ None \in Part
      BY <2>3, BeforePart DEF AllocInv, Places, AllocTypes
    <3>2. Blocks(sfree) = {}
      BY <3>1, PartsEmpty, BlocksAre DEF Blocks, Good
    <3>3. \E q \in Proc : pc'[q] \in InTransit
      BY <2>2, <2>3 DEF InTransit
    <3> QED
      BY <2>1, <3>2, <3>3 DEF DiskInv
  <2>4. CASE \A q \in Proc : pc[q] \notin {"bread", "bwrite"}
    <3>1. Blocks(sfree) = Listed /\ FreeSet \subseteq Listed
      BY <2>4, HeadNow, FreeNow DEF AllocInv
    <3>2. \A q \in Proc : (held[q] \cup Giving(q)) \cap Listed = {}
      BY <2>4, HeldUnlisted DEF Giving, AllocInv, ListInv, Apart
    <3> QED
      BY <2>1, <2>2, <3>1, <3>2 DEF DiskInv
  <2> QED
    BY <2>3, <2>4
<1> QED
  BY <1>1, <1>4, <1>5, <1>6, StepKept DEF Effect

LEMMA UpdateWrittenKeeps ==
  ASSUME AllocInv, LockInv', NEW p \in Proc, UpdateWritten(p)
  PROVE  AllocInv' /\ Effect(p)
<1>1. /\ pc[p] = "synced" /\ pc'[p] = "user" /\ Others(p)
      /\ disk' = buf /\ buf' = None /\ uinode' = FALSE
      /\ UNCHANGED <<sfree, tfree, fmod, link, held, bno, lost>>
  BY DEF UpdateWritten, At, Goes, Others, AllocInv, LockInv, LockTypes, super
<1>2. AllocTypes' /\ Places'
  BY <1>1, BeforePart DEF AllocInv, AllocTypes, Places, Others, InTransit
<1>3. Has(p)' = Has(p) /\ Taking(p)' = Taking(p) /\ Giving(p)' = Giving(p)
  BY <1>1 DEF Has, Taking, Giving
<1>4. GoodNext(p) /\ Keeps(p)
  BY <1>1, <1>2, <1>3, Standing DEF InTransit, AllocInv, AllocTypes
<1>5. \A q \in Proc : pc'[q] \notin {"sync", "synced"}
  BY <1>1 DEF AllocInv, OneUpdate, Others
<1>6. OneUpdate'
  BY <1>1, <1>5 DEF OneUpdate
<1>7. DiskInv'
  <2>1. Saved' = Saved
    BY <1>1, <1>5 DEF Saved
  <2>2. Blocks(Saved)' = Blocks(Saved)
    BY <1>1, <2>1 DEF Blocks
  <2>3. \A q \in Proc : pc[q] # "sync"
    BY <1>1 DEF AllocInv, OneUpdate
  <2>4. /\ \A q \in Proc : held'[q] = held[q] /\ Giving(q)' = Giving(q)
        /\ \A q \in Proc : pc'[q] \in InTransit <=> pc[q] \in InTransit
        /\ FreeSet' = FreeSet
    BY <1>1, <1>3, <1>4 DEF Others, Giving, Keeps, InTransit
  <2> QED
    BY <1>1, <2>2, <2>3, <2>4 DEF AllocInv, DiskInv
<1> QED
  BY <1>1, <1>4, <1>6, <1>7, StepKept DEF Effect

------------------------------------------------------------------------------
LEMMA InitAlloc == Init => AllocInv
<1> SUFFICES ASSUME Init PROVE AllocInv
  OBVIOUS
<1>1. LockInv
  BY InitLock
<1>2. /\ sfree = << 0 >> /\ disk = << 0 >> /\ buf = None /\ tfree = 0 /\ fmod = FALSE /\ uinode = FALSE
      /\ lost = {} /\ \A p \in Proc : pc[p] = "user"
  BY DEF Init
<1>3. sfree \in Part /\ None \in Part /\ link \in Contents
  BY DEF Init, Part, Contents, None
<1>4. AllocTypes /\ Places
  <2>1. held \in [Proc -> SUBSET Block] /\ bno \in [Proc -> Block \cup {0}]
    BY DEF Init
  <2>2. disk \in Part /\ buf \in Part
    BY <1>2, <1>3
  <2>3. AllocTypes
    BY <1>2, <1>3, <2>1, <2>2 DEF AllocTypes
  <2> QED
    BY <1>2, <2>3 DEF Places, InTransit
<1>5. Head1 = sfree
  BY <1>1, <1>2, HeadNow
<1>6. Good(Parts(link, sfree)) /\ Listed = {}
  BY <1>2, <1>3, <1>5, PartsEmpty DEF Listed
<1>7. Blocks(sfree) = {} /\ FreeSet = {}
  <2>1. Blocks(sfree) = {}
    BY <1>3, <1>5, <1>6, BlocksAre DEF Good, Blocks, Listed
  <2> QED
    BY <1>5, <2>1 DEF FreeSet
<1>8. \A p \in Proc : Has(p) = held[p] /\ Taking(p) = {} /\ Giving(p) = {}
  BY <1>2 DEF Has, Taking, Giving
<1>9. Apart
  BY <1>2, <1>6, <1>7, <1>8 DEF Init, Apart, InTransit
<1>10. tfree =< Cardinality(Counted)
  <2>1. Counted = {}
    BY <1>7, <1>8 DEF Counted
  <2> QED
    BY <1>2, <2>1, FS_EmptySet
<1>11. OneUpdate
  BY <1>2 DEF OneUpdate
<1>12. DiskInv
  BY <1>2, <1>7 DEF DiskInv, Saved
<1> QED
  BY <1>1, <1>4, <1>5, <1>6, <1>9, <1>10, <1>11, <1>12 DEF AllocInv, ListInv

(* Every step keeps the invariant, and is one of those of free blocks. *)
LEMMA NextAlloc ==
  ASSUME AllocInv, Next
  PROVE  AllocInv' /\ \E p \in Proc : Effect(p)
<1>1. LockInv'
  BY NextLock DEF AllocInv
<1>2. PICK p \in Proc :
        \/ AllocWaits(p) \/ AllocNone(p) \/ AllocPop(p)
        \/ AllocRead(p) \/ AllocReadError(p) \/ AllocGet(p) \/ Enospc(p)
        \/ Free(p) \/ FreeAgain(p) \/ FreeCopy(p) \/ FreeWritten(p)
        \/ Update(p) \/ UpdateCopy(p) \/ UpdateWritten(p)
  BY DEF Next
<1>3. CASE AllocPop(p)
  BY <1>1, <1>3, AllocPopTakes, AllocPopKeeps
<1>4. CASE Free(p) \/ FreeAgain(p)
  <2>1. PICK b : Freed(p, b) /\ FreeIt(p, b)
    BY <1>4 DEF Free, FreeAgain, At, Freed
  <2> QED
    BY <1>1, <2>1, FreeItKeeps, FreeItGives
<1>5. CASE AllocWaits(p) \/ AllocNone(p) \/ AllocRead(p) \/ AllocReadError(p)
  BY <1>1, <1>5, AllocWaitsKeeps, AllocNoneKeeps, AllocReadTakes, AllocReadErrorLoses
<1>6. CASE AllocGet(p) \/ Enospc(p) \/ FreeCopy(p) \/ FreeWritten(p)
  BY <1>1, <1>6, AllocGetGets, EnospcKeeps, FreeCopyKeeps, FreeWrittenGives
<1>7. CASE Update(p) \/ UpdateCopy(p) \/ UpdateWritten(p)
  BY <1>1, <1>7, UpdateKeeps, UpdateCopyKeeps, UpdateWrittenKeeps
<1> QED
  BY <1>2, <1>3, <1>4, <1>5, <1>6, <1>7

LEMMA StutterAlloc == AllocInv /\ UNCHANGED vars => AllocInv'
<1> SUFFICES ASSUME AllocInv, UNCHANGED vars PROVE AllocInv'
  OBVIOUS
<1>1. UNCHANGED <<sfree, tfree, flock, fmod, link, disk, buf, uinode, held, pc, chan, bno, lost>>
  BY DEF vars, super, sync, proc
<1>2. Head1' = Head1 /\ FreeSet' = FreeSet /\ Listed' = Listed
  BY <1>1 DEF Head1, FreeSet, Listed, Reading, Writing, Blocks, Giving
<1>3. \A p \in Proc : Has(p)' = Has(p) /\ Taking(p)' = Taking(p) /\ Giving(p)' = Giving(p)
  BY <1>1 DEF Has, Taking, Giving
<1>4. LockInv' /\ AllocTypes' /\ Places' /\ OneUpdate'
  BY <1>1 DEF AllocInv, LockInv, LockTypes, ListLocked, Locker, AllocTypes, Places, OneUpdate
<1>5. ListInv'
  <2>1. Counted' = Counted
    BY <1>2, <1>3 DEF Counted
  <2>2. Apart'
    BY <1>1, <1>2, <1>3 DEF AllocInv, ListInv, Apart
  <2> QED
    BY <1>1, <1>2, <2>1, <2>2 DEF AllocInv, ListInv
<1>6. DiskInv'
  <2>1. Blocks(Saved)' = Blocks(Saved)
    BY <1>1 DEF Saved, Blocks
  <2> QED
    BY <1>1, <1>2, <1>3, <2>1 DEF AllocInv, DiskInv
<1> QED
  BY <1>4, <1>5, <1>6 DEF AllocInv

(* What alloc(), free() and update() keep between any two of their steps,  *)
(* for any number of processes and blocks, any NICFREE, and with or        *)
(* without unreadable blocks.                                              *)
THEOREM AllocInvariance == Spec => []AllocInv
<1>1. Init => AllocInv
  BY InitAlloc
<1>2. AllocInv /\ [Next]_vars => AllocInv'
  BY NextAlloc, StutterAlloc
<1> QED BY <1>1, <1>2, PTL DEF Spec

LEMMA EachOnceHolds == AllocInv => EachOnce
<1> SUFFICES ASSUME AllocInv PROVE EachOnce
  OBVIOUS
<1>1. Depth \subseteq Nat
  BY DEF Depth
<1>2. \A m, n \in Depth : \A i \in DOMAIN Parts(link, Head1)[m], j \in DOMAIN Parts(link, Head1)[n] :
        Parts(link, Head1)[m][i] = Parts(link, Head1)[n][j] /\ Parts(link, Head1)[m][i] # 0
          => m = n /\ i = j
  BY <1>1 DEF AllocInv, ListInv, Good, Once
<1>3. tfree =< Cardinality(FreeSet) + Cardinality(UNION {Taking(p) : p \in Proc})
  <2> DEFINE T == UNION {Taking(p) : p \in Proc}
             F == FreeSet
  <2>1. IsFiniteSet(Counted) /\ Counted = F \cup T
    BY CountedFinite DEF Counted
  <2>2. F \in SUBSET Counted /\ T \in SUBSET Counted
    BY <2>1
  <2>3. tfree \in Nat /\ tfree =< Cardinality(Counted)
    BY DEF AllocInv, AllocTypes, ListInv
  <2> HIDE DEF T, F
  <2>4. IsFiniteSet(F) /\ IsFiniteSet(T)
    BY <2>1, <2>2, FS_Subset
  <2>5. Cardinality(F \cup T) = Cardinality(F) + Cardinality(T) - Cardinality(F \cap T)
    BY <2>4, FS_Union
  <2>6. /\ Cardinality(F) \in Nat /\ Cardinality(T) \in Nat /\ Cardinality(F \cap T) \in Nat
    BY <2>4, FS_Intersection, FS_CardinalityType
  <2>7. tfree =< Cardinality(F) + Cardinality(T)
    BY <2>1, <2>3, <2>5, <2>6
  <2> QED
    BY <2>7 DEF F, T
<1> QED
  BY <1>2, <1>3 DEF EachOnce, AllocInv, ListInv, Apart

(* Of alloc() and free(): no block is twice in the free list or in two     *)
(* hands, none gets lost but with the part of the list that cannot be      *)
(* read, and s_tfree promises no more than there is.                       *)
THEOREM BlocksOnce == Spec => []EachOnce
BY AllocInvariance, EachOnceHolds, PTL

LEMMA SyncedSoundHolds == AllocInv => SyncedSound
<1> SUFFICES ASSUME AllocInv, ~fmod, ~uinode, \A p \in Proc : pc[p] \in {"user", "alloc", "delay"}
             PROVE  /\ FreeSet \subseteq Blocks(disk)
                    /\ \A p \in Proc : held[p] \cap Blocks(disk) = {}
  BY DEF SyncedSound
<1>1. Saved = disk
  BY DEF Saved
<1>2. \A p \in Proc : pc[p] # "sync" /\ pc[p] \notin InTransit
  BY DEF InTransit
<1> QED
  BY <1>1, <1>2 DEF AllocInv, DiskInv

(* Of update(): the order in which it clears s_fmod, copies and writes, with *)
(* alloc() and free() going on, leaves a list on the disk that is sound     *)
(* whenever s_fmod says so.                                                 *)
THEOREM SyncIsSound == Spec => []SyncedSound
BY AllocInvariance, SyncedSoundHolds, PTL

------------------------------------------------------------------------------
(* Allocation is that of a set of free blocks.                             *)

Hands == [p \in Proc |-> Has(p)]
Told  == [p \in Proc |-> pc[p] = "delay"]

LEMMA InitFree == Init => FB!Init
<1> SUFFICES ASSUME Init PROVE FB!Init
  OBVIOUS
<1>1. AllocInv
  BY InitAlloc
<1>2. \A p \in Proc : Has(p) = held[p] /\ pc[p] = "user"
  BY DEF Init, Has, Taking, Giving
<1>3. FreeSet = {}
  <2>1. FreeSet \cap UNION {Has(p) : p \in Proc} = {} /\ FreeSet \subseteq Block
    BY <1>1, FreeNow DEF AllocInv, ListInv, Apart
  <2>2. UNION {Has(p) : p \in Proc} = Block
    BY <1>2 DEF Init
  <2> QED
    BY <2>1, <2>2
<1>4. Hands \in [Proc -> SUBSET Block] /\ \A p \in Proc : Hands[p] = held[p]
  BY <1>2 DEF Hands, Init
<1>5. Told = [p \in Proc |-> FALSE]
  BY <1>2 DEF Told
<1>6. /\ \A p, q \in Proc : p # q => Hands[p] \cap Hands[q] = {}
      /\ FreeSet = Block \ UNION {Hands[p] : p \in Proc}
  BY <1>3, <1>4 DEF Init
<1> QED
  BY <1>4, <1>5, <1>6 DEF FB!Init, Hands, Told

LEMMA StepFree ==
  ASSUME AllocInv, AllocInv', NEW p \in Proc, Effect(p)
  PROVE  [FB!Next]_(FB!vars)
<1>1. \A q \in Proc \ {p} : Has(q)' = Has(q) /\ pc'[q] = pc[q]
  BY DEF Effect, Others, Has, Taking, Giving
<1>2. /\ \A q \in Proc : Hands[q] = Has(q) /\ Hands'[q] = Has(q)'
      /\ \A q \in Proc : Told[q] = (pc[q] = "delay") /\ Told'[q] = (pc'[q] = "delay")
  BY DEF Hands, Told
<1>3. ASSUME pc[p] = "delay" <=> pc'[p] = "delay" PROVE Told' = Told
  BY <1>1, <1>3 DEF Told
<1>4. ASSUME Has(p)' = Has(p) PROVE Hands' = Hands
  BY <1>1, <1>4 DEF Hands
<1>5. ASSUME NEW b \in Block, Has(p)' = Has(p) \cup {b} PROVE Hands' = [Hands EXCEPT ![p] = @ \cup {b}]
  BY <1>1, <1>5 DEF Hands
<1>6. ASSUME NEW b \in Block, Has(p)' = Has(p) \ {b} PROVE Hands' = [Hands EXCEPT ![p] = @ \ {b}]
  BY <1>1, <1>6 DEF Hands
<1>7. ASSUME pc'[p] = "delay" PROVE Told' = [Told EXCEPT ![p] = TRUE]
  BY <1>1, <1>7 DEF Told
<1>8. ASSUME pc'[p] # "delay" PROVE Told' = [Told EXCEPT ![p] = FALSE]
  BY <1>1, <1>8 DEF Told
<1>9. FreeSet \subseteq Block
  BY FreeNow
<1>10. CASE (Keeps(p) \/ Gets(p)) /\ pc[p] # "delay" /\ pc'[p] # "delay"
  <2>1. FreeSet' = FreeSet /\ Hands' = Hands /\ Told' = Told
    BY <1>3, <1>4, <1>10 DEF Keeps, Gets
  <2> QED
    BY <2>1 DEF FB!vars, Hands, Told
<1>11. CASE Takes(p) /\ pc[p] # "delay" /\ pc'[p] # "delay"
  <2>1. PICK b \in FreeSet : FreeSet' = FreeSet \ {b} /\ Has(p)' = Has(p) \cup {b}
    BY <1>11 DEF Takes
  <2>2. b \in Block \ Hands[p]
    BY <1>2, <1>9, <2>1 DEF AllocInv, ListInv, Apart
  <2>3. Hands' = [Hands EXCEPT ![p] = @ \cup {b}] /\ Told' = Told
    BY <1>3, <1>5, <1>11, <2>1, <2>2
  <2>4. FB!Take(p)
    BY <2>1, <2>2, <2>3 DEF FB!Take, Hands, Told
  <2> QED
    BY <2>4 DEF FB!Next
<1>12. CASE Gives(p) /\ pc[p] # "delay" /\ pc'[p] # "delay"
  <2>1. PICK b \in Has(p) : FreeSet' = FreeSet \cup {b} /\ Has(p)' = Has(p) \ {b}
    BY <1>12 DEF Gives
  <2>2. b \in Hands[p] /\ b \in Block
    BY <1>2 DEF AllocInv, ListInv, Apart
  <2>3. Hands' = [Hands EXCEPT ![p] = @ \ {b}] /\ Told' = Told
    BY <1>3, <1>6, <1>12, <2>1, <2>2
  <2>4. FB!Give(p)
    BY <2>1, <2>2, <2>3 DEF FB!Give, Hands, Told
  <2> QED
    BY <2>4 DEF FB!Next
<1>13. CASE Keeps(p) /\ pc[p] = "delay" /\ pc'[p] # "delay"
  <2>1. FreeSet' = FreeSet /\ Hands' = Hands /\ Told' = [Told EXCEPT ![p] = FALSE]
    BY <1>4, <1>8, <1>13 DEF Keeps
  <2>2. FB!Back(p)
    BY <2>1 DEF FB!Back, Hands, Told
  <2> QED
    BY <2>2 DEF FB!Next
<1>14. CASE Keeps(p) /\ FreeSet = {} /\ pc'[p] = "delay"
  <2>1. FreeSet = {} /\ FreeSet' = FreeSet /\ Hands' = Hands /\ Told' = [Told EXCEPT ![p] = TRUE]
    BY <1>4, <1>7, <1>14 DEF Keeps
  <2>2. FB!Refuse(p)
    BY <2>1 DEF FB!Refuse, Hands, Told
  <2> QED
    BY <2>2 DEF FB!Next
<1>15. CASE Loses(p) /\ Lossy /\ pc'[p] = "delay"
  <2>1. FreeSet' = {} /\ Hands' = Hands /\ Told' = [Told EXCEPT ![p] = TRUE]
    BY <1>4, <1>7, <1>15 DEF Loses
  <2>2. FB!Lose(p)
    BY <1>15, <2>1 DEF FB!Lose, Hands, Told
  <2> QED
    BY <2>2 DEF FB!Next
<1> QED
  BY <1>10, <1>11, <1>12, <1>13, <1>14, <1>15 DEF Effect

LEMMA NextFree == AllocInv /\ AllocInv' /\ [Next]_vars => [FB!Next]_(FB!vars)
<1> SUFFICES ASSUME AllocInv, AllocInv', [Next]_vars PROVE [FB!Next]_(FB!vars)
  OBVIOUS
<1>1. CASE Next
  BY <1>1, NextAlloc, StepFree
<1>2. CASE UNCHANGED vars
  <2>1. UNCHANGED <<sfree, link, held, pc, bno>>
    BY <1>2 DEF vars, super, proc
  <2>2. FreeSet' = FreeSet /\ Hands' = Hands /\ Told' = Told
    BY <2>1 DEF FreeSet, Head1, Reading, Writing, Blocks, Giving, Taking, Has, Hands, Told
  <2> QED
    BY <2>2 DEF FB!vars, Hands, Told
<1> QED
  BY <1>1, <1>2

(* Of alloc() and free(): whatever the steps they take with the list, its  *)
(* parts and its lock, and whoever they meet, what is taken was free, what *)
(* is given is free, and "no space" means that there is none, but for a    *)
(* part of the list that cannot be read.                                   *)
THEOREM FreeBlocksRefinement == Spec => ImplementsFreeBlocks
<1>1. Init => FB!Init
  BY InitFree
<1>2. AllocInv /\ AllocInv' /\ [Next]_vars => [FB!Next]_(FB!vars)
  BY NextFree
<1>3. Spec => []AllocInv
  BY AllocInvariance
<1> QED
  BY <1>1, <1>2, <1>3, PTL DEF Spec, ImplementsFreeBlocks, FB!Spec
==============================================================================
