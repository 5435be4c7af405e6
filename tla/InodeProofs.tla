------------------------------ MODULE InodeProofs ------------------------------
(***************************************************************************)
(* The inode table for any number of processes, names, entries, inodes and *)
(* files: i_count is exact, an inode has one entry, and every lock has one *)
(* holder, who wakes those that sleep for it.                              *)
(***************************************************************************)
EXTENDS Inode, FiniteSetTheorems, FunctionTheorems, SequenceTheorems,
        WellFoundedInduction, TLAPS

Entry == [ino : 0 .. NINO, lock : BOOLEAN, want : BOOLEAN, count : Nat,
          upd : BOOLEAN, syn : BOOLEAN, mode : {0, 1}, nlink : Int]

Record == [mode : {0, 1}, nlink : Int]

ByName == {"open", "creat", "unlink", "link", "link2"}
Ops == ByName \cup {"none", "new", "no new", "pipe", "no pipe", "close", "sync", "out", "undo"}

Frame == [op : Ops, name : {0} \cup Name, to : {0} \cup Name, ino : Nat,
          ip : 0 .. NINODE, xp : 0 .. NINODE, next : Nat, err : BOOLEAN]

Labels == {"user", "namei", "dir", "dput", "wdir", "out", "closef", "sync", "ialloc", "search",
           "iget", "iread", "got", "iput", "itrunc", "iput2", "iupdat", "isync"}

DiskOK ==
  /\ dino \in [Ino -> Record] /\ disk \in [Ino -> Record]
  /\ dent \in [Name -> 0 .. NINO] /\ ddent \in [Name -> 0 .. NINO]

ListOK ==
  /\ sninode \in 0 .. NICINOD /\ sinode \in [0 .. NICINOD - 1 -> 0 .. NINO]
  /\ silock \in BOOLEAN /\ dlock \in BOOLEAN /\ uinode \in BOOLEAN

ProcsOK ==
  /\ pc \in [Proc -> Labels] /\ u \in [Proc -> Frame] /\ chan \in [Proc -> 0 .. NINODE + 2]
  /\ files \in [Proc -> [Slot -> 0 .. NFILE]]
  /\ may \in [Proc -> SUBSET (Calls \X ({0} \cup Name))]

TypeOK == DiskOK /\ ListOK /\ ProcsOK /\ inode \in [Slot -> Entry]

(* The entry of a call, of its record alone. *)
CurOf(r) == IF r.op = "link2" THEN r.xp ELSE r.ip

(* What a call does at a label, and which entries it has there.            *)
Fits(l, r) ==
  /\ l = "user" => r.op = "none"
  /\ l \in {"namei", "dir"} => r.op \in ByName
  /\ l \in {"iget", "iread", "got"} => r.op \in ByName \cup {"new", "pipe"}
  /\ l \in {"iput", "itrunc", "iput2"} => r.op # "none"
  /\ l = "iupdat" => r.op \in {"sync", "new", "pipe"}
  /\ l = "isync" => r.op \in {"link", "new", "pipe"}
  /\ l \in {"ialloc", "search"} => r.op \in {"new", "pipe"}
  /\ l = "dput" => r.op \in {"unlink", "no new"}
  /\ l = "wdir" => r.op \in {"new", "link2"}
  /\ l = "out" => r.op = "out"
  /\ l = "closef" => r.op = "close"
  /\ l = "sync" => r.op = "sync"
  /\ l \in {"user", "namei", "dir", "iget", "ialloc", "search", "dput", "sync"} => CurOf(r) = 0
  /\ l \in {"iread", "got", "iput", "itrunc", "iput2", "iupdat", "isync", "out", "closef"} => CurOf(r) \in Slot
  /\ r.op = "link2" => r.ip \in Slot /\ l \in {"namei", "dir", "iget", "iread", "got", "iput", "itrunc", "iput2", "wdir"}
  /\ r.xp # 0 => r.op = "link2"
  /\ l = "wdir" => r.ip \in Slot /\ r.xp = 0
  /\ r.op = "link2" /\ r.err => l \in {"namei", "dir", "iput", "itrunc", "iput2"}
  /\ l = "dir" /\ r.err => r.op = "link2"
  /\ l = "namei" /\ r.err => r.op = "link2"
  /\ r.op = "link" /\ r.err => l \in {"iput", "itrunc", "iput2"}
  /\ r.op \in ByName \cup {"new"} => r.name \in Name
  /\ r.op = "link" => r.to \in Name
  /\ l \in {"iget", "iread"} => r.ino \in Ino

Last(p) == pc[p] \in {"itrunc", "iput2"} => inode[Cur(p)].count = 1

CallOK(p) == Fits(pc[p], u[p]) /\ Last(p)

(* A lock is set when a call holds it, and there is only one. *)
EntryLocks ==
  /\ \A s \in Slot : inode[s].lock <=> \E p \in Proc : HoldsInode(p, s)
  /\ \A s \in Slot, p, q \in Proc : HoldsInode(p, s) /\ HoldsInode(q, s) => p = q

DirLock ==
  /\ dlock <=> \E p \in Proc : HoldsDir(p)
  /\ \A p, q \in Proc : HoldsDir(p) /\ HoldsDir(q) => p = q

ListLock ==
  /\ silock <=> \E p \in Proc : pc[p] = "search"
  /\ \A p, q \in Proc : pc[p] = "search" /\ pc[q] = "search" => p = q

Sleepers ==
  \A p \in Proc : /\ chan[p] \in Slot => inode[chan[p]].lock /\ inode[chan[p]].want
                  /\ chan[p] = DIR => dlock
                  /\ chan[p] = ILIST => silock

Counts == \A s \in Slot : inode[s].count = RefsOf(s)

OneEntry ==
  /\ \A s, t \in Slot : s # t /\ inode[s].ino = inode[t].ino => inode[s].ino = 0
  /\ \A s \in Slot : inode[s].ino = 0 <=> inode[s].count = 0

(* The list has the entries without a reference, each once. *)
FreeList ==
  /\ ifreelist \in Seq(Slot)
  /\ \A i, j \in 1 .. Len(ifreelist) : ifreelist[i] = ifreelist[j] => i = j
  /\ \A s \in Slot : inode[s].count = 0 <=> \E k \in 1 .. Len(ifreelist) : ifreelist[k] = s

Locks == EntryLocks /\ DirLock /\ ListLock /\ Sleepers

InodeInv ==
  /\ TypeOK
  /\ \A p \in Proc : CallOK(p)
  /\ Locks
  /\ Counts /\ OneEntry /\ FreeList

------------------------------------------------------------------------------
LEMMA Numbers ==
  /\ NINODE \in Nat /\ NINO \in Nat /\ NFILE \in Nat /\ NICINOD \in Nat
  /\ 0 \in 0 .. NINODE /\ 0 \in 0 .. NINO
  /\ \A s \in Slot : s \in Nat /\ s # 0 /\ s \in 0 .. NINODE /\ s # DIR /\ s # ILIST
  /\ \A i \in Ino : i \in Nat /\ i # 0 /\ i \in 0 .. NINO
BY InodeAssumption DEF Slot, Ino, DIR, ILIST

(* What the invariant says of a lock that is set: its holder has a         *)
(* reference, and nobody sleeps for a lock that is not set.                *)
LEMMA RefsNat ==
  ASSUME TypeOK, NEW p \in Proc, NEW s \in Slot
  PROVE  /\ Refs(p, s) \in 0 .. NFILE + 2
         /\ (u[p].ip = s \/ u[p].xp = s \/ files[p][s] > 0) => Refs(p, s) > 0
         /\ (u[p].ip # s /\ u[p].xp # s) => Refs(p, s) = files[p][s]
<1>1. files[p][s] \in 0 .. NFILE
  BY DEF TypeOK, ProcsOK
<1>2. NFILE \in Nat
  BY InodeAssumption
<1> QED
  BY <1>1, <1>2 DEF Refs

LEMMA RefsFinite ==
  ASSUME NEW S \in SUBSET (Proc \X (1 .. NFILE + 2))
  PROVE  IsFiniteSet(S) /\ Cardinality(S) \in Nat
<1>1. IsFiniteSet(1 .. NFILE + 2)
  BY FS_Interval, InodeAssumption
<1>2. IsFiniteSet(Proc \X (1 .. NFILE + 2))
  BY <1>1, FS_Product, InodeAssumption
<1> QED
  BY <1>2, FS_Subset, FS_CardinalityType

RefSet(s) == {x \in Proc \X (1 .. NFILE + 2) : x[2] <= Refs(x[1], s)}

LEMMA RefsPositive ==
  ASSUME TypeOK, NEW p \in Proc, NEW s \in Slot, Refs(p, s) > 0
  PROVE  RefsOf(s) > 0 /\ RefsOf(s) \in Nat
<1>1. <<p, 1>> \in RefSet(s)
  BY RefsNat, InodeAssumption DEF RefSet
<1>2. RefsOf(s) = Cardinality(RefSet(s))
  BY DEF RefsOf, RefSet
<1>3. IsFiniteSet(RefSet(s)) /\ Cardinality(RefSet(s)) \in Nat
  BY RefsFinite DEF RefSet
<1>4. Cardinality(RefSet(s)) # 0
  BY <1>1, <1>3, FS_EmptySet
<1> QED
  BY <1>2, <1>3, <1>4

(* The references of one process are one more, one less or the same.       *)
LEMMA RefsOneMore ==
  ASSUME TypeOK, TypeOK', NEW p \in Proc, NEW s \in Slot,
         \A q \in Proc : q # p => Refs(q, s)' = Refs(q, s),
         Refs(p, s)' = Refs(p, s) + 1
  PROVE  RefsOf(s)' = RefsOf(s) + 1
<1> DEFINE new == <<p, Refs(p, s) + 1>>
<1>1. Refs(p, s) \in Nat /\ Refs(p, s)' \in 0 .. NFILE + 2
  <2>1. Refs(p, s)' \in 0 .. NFILE + 2
    <3>1. files'[p][s] \in 0 .. NFILE /\ NFILE \in Nat
      BY InodeAssumption DEF TypeOK, ProcsOK
    <3> QED
      BY <3>1 DEF Refs
  <2> QED
    BY <2>1, RefsNat, InodeAssumption
<1>2. new \in Proc \X (1 .. NFILE + 2)
  BY <1>1
<1>3. RefSet(s)' = RefSet(s) \cup {new}
  <2>1. ASSUME NEW x \in Proc \X (1 .. NFILE + 2) PROVE x \in RefSet(s)' <=> x \in RefSet(s) \/ x = new
    <3>1. PICK q \in Proc, k \in 1 .. NFILE + 2 : x = <<q, k>>
      OBVIOUS
    <3>2. CASE q # p
      BY <3>1, <3>2 DEF RefSet
    <3>3. CASE q = p
      <4>1. k <= Refs(p, s)' <=> k <= Refs(p, s) \/ k = Refs(p, s) + 1
        BY <1>1, InodeAssumption
      <4> QED
        BY <3>1, <3>3, <4>1 DEF RefSet
    <3> QED
      BY <3>2, <3>3
  <2> QED
    BY <1>2, <2>1 DEF RefSet
<1>4. new \notin RefSet(s)
  BY <1>1 DEF RefSet
<1>5. IsFiniteSet(RefSet(s))
  BY RefsFinite DEF RefSet
<1>6. Cardinality(RefSet(s) \cup {new}) = Cardinality(RefSet(s)) + 1
  BY <1>4, <1>5, FS_AddElement
<1>7. RefsOf(s) = Cardinality(RefSet(s)) /\ RefsOf(s)' = Cardinality(RefSet(s)')
  BY DEF RefsOf, RefSet
<1> QED
  BY <1>3, <1>6, <1>7

LEMMA RefsOneLess ==
  ASSUME TypeOK, TypeOK', NEW p \in Proc, NEW s \in Slot,
         \A q \in Proc : q # p => Refs(q, s)' = Refs(q, s),
         Refs(p, s)' = Refs(p, s) - 1
  PROVE  RefsOf(s)' = RefsOf(s) - 1
<1> DEFINE old == <<p, Refs(p, s)>>
<1>1. Refs(p, s) \in 0 .. NFILE + 2 /\ Refs(p, s)' \in Nat
  <2>1. Refs(p, s)' \in 0 .. NFILE + 2
    <3>1. files'[p][s] \in 0 .. NFILE /\ NFILE \in Nat
      BY InodeAssumption DEF TypeOK, ProcsOK
    <3> QED
      BY <3>1 DEF Refs
  <2> QED
    BY <2>1, RefsNat, InodeAssumption
<1>2. old \in Proc \X (1 .. NFILE + 2)
  BY <1>1, InodeAssumption
<1>3. RefSet(s)' = RefSet(s) \ {old}
  <2>1. ASSUME NEW x \in Proc \X (1 .. NFILE + 2) PROVE x \in RefSet(s)' <=> x \in RefSet(s) /\ x # old
    <3>1. PICK q \in Proc, k \in 1 .. NFILE + 2 : x = <<q, k>>
      OBVIOUS
    <3>2. CASE q # p
      BY <3>1, <3>2 DEF RefSet
    <3>3. CASE q = p
      <4>1. k <= Refs(p, s)' <=> k <= Refs(p, s) /\ k # Refs(p, s)
        BY <1>1, InodeAssumption
      <4> QED
        BY <3>1, <3>3, <4>1 DEF RefSet
    <3> QED
      BY <3>2, <3>3
  <2> QED
    BY <2>1 DEF RefSet
<1>4. old \in RefSet(s)
  BY <1>1, <1>2 DEF RefSet
<1>5. IsFiniteSet(RefSet(s)) /\ Cardinality(RefSet(s)) \in Nat
  BY RefsFinite DEF RefSet
<1>6. Cardinality(RefSet(s) \ {old}) = Cardinality(RefSet(s)) - 1
  BY <1>4, <1>5, FS_RemoveElement
<1>7. RefsOf(s) = Cardinality(RefSet(s)) /\ RefsOf(s)' = Cardinality(RefSet(s)')
  BY DEF RefsOf, RefSet
<1> QED
  BY <1>3, <1>6, <1>7

LEMMA RefsSame ==
  ASSUME NEW s \in Slot, \A q \in Proc : Refs(q, s)' = Refs(q, s)
  PROVE  RefsOf(s)' = RefsOf(s)
<1>1. RefSet(s)' = RefSet(s)
  BY DEF RefSet
<1>2. RefsOf(s) = Cardinality(RefSet(s)) /\ RefsOf(s)' = Cardinality(RefSet(s)')
  BY DEF RefsOf, RefSet
<1> QED
  BY <1>1, <1>2


(* A set of numbers has a least one, and, if it is finite, a k-th one.     *)
LEMMA LeastOf ==
  ASSUME NEW T \in SUBSET Nat, T # {}
  PROVE  \E x \in T : \A y \in T : x =< y
<1> DEFINE Downs == {0 .. x : x \in T}
<1>1. Downs \subseteq FiniteSubsetsOf(Nat) /\ Downs # {}
  <2>1. ASSUME NEW x \in T PROVE (0 .. x) \in FiniteSubsetsOf(Nat)
    BY FS_Interval DEF FiniteSubsetsOf
  <2> QED
    BY <2>1
<1>2. PICK D \in Downs : \A E \in Downs : ~ (<<E, D>> \in StrictSubsetOrdering(Nat))
  BY <1>1, FS_StrictSubsetOrderingWellFounded, WFMin
<1>3. PICK x \in T : D = 0 .. x
  OBVIOUS
<1>4. ASSUME NEW y \in T, y < x PROVE FALSE
  <2>1. (0 .. y) \subseteq (0 .. x) /\ (0 .. y) # (0 .. x)
    BY <1>4
  <2>2. <<0 .. y, D>> \in StrictSubsetOrdering(Nat)
    BY <1>3, <2>1 DEF StrictSubsetOrdering
  <2> QED
    BY <1>2, <2>2
<1> QED
  BY <1>4

Below(S, i) == {j \in S : j < i}

LEMMA NthIn ==
  ASSUME NEW S \in SUBSET Nat, IsFiniteSet(S), NEW k \in 1 .. Cardinality(S)
  PROVE  Nth(S, k) \in S
<1> DEFINE Is(m) == \E i \in S : Cardinality(Below(S, i)) = m - 1
<1> DEFINE Bad == {m \in 1 .. Cardinality(S) : ~ Is(m)}
<1>1. Cardinality(S) \in Nat /\ \A j \in S : j \in Nat
  BY FS_CardinalityType
<1>2. ASSUME NEW m \in 1 .. Cardinality(S), m \in Bad, \A l \in Bad : m =< l
      PROVE  FALSE
  <2>1. CASE m = 1
    <3>1. PICK i \in S : \A j \in S : i =< j
      BY <1>1, FS_EmptySet, LeastOf
    <3>2. Below(S, i) = {}
      <4>1. ASSUME NEW j \in S PROVE ~ (j < i)
        BY <1>1, <3>1
      <4> QED
        BY <4>1 DEF Below
    <3> QED
      BY <1>2, <2>1, <3>2, FS_EmptySet
  <2>2. CASE m > 1
    <3>1. m - 1 \in 1 .. Cardinality(S) /\ m - 1 \notin Bad
      BY <1>1, <1>2, <2>2
    <3>2. PICK i \in S : Cardinality(Below(S, i)) = m - 2
      BY <3>1
    <3>3. IsFiniteSet(Below(S, i)) /\ i \notin Below(S, i)
      BY FS_Subset DEF Below
    <3>4. Cardinality(Below(S, i) \cup {i}) = m - 1
      <4>1. Cardinality(Below(S, i) \cup {i}) = Cardinality(Below(S, i)) + 1
        BY <3>3, FS_AddElement
      <4> QED
        BY <2>2, <3>2, <4>1
    <3>5. {j \in S : j > i} # {}
      <4>1. SUFFICES ASSUME {j \in S : j > i} = {} PROVE FALSE
        OBVIOUS
      <4>2. ASSUME NEW j \in S PROVE j < i \/ j = i
        BY <1>1, <4>1
      <4>3. S = Below(S, i) \cup {i}
        BY <4>2 DEF Below
      <4> QED
        BY <1>1, <3>4, <4>3
    <3>6. PICK h \in S : h > i /\ \A j \in S : j > i => h =< j
      <4>1. PICK h \in {j \in S : j > i} : \A j \in {l \in S : l > i} : h =< j
        BY <3>5, LeastOf
      <4> QED
        BY <4>1
    <3>7. Below(S, h) = Below(S, i) \cup {i}
      <4>1. ASSUME NEW x \in S PROVE x < h <=> x < i \/ x = i
        BY <1>1, <3>6
      <4> QED
        BY <4>1 DEF Below
    <3> QED
      BY <1>2, <3>4, <3>7
  <2> QED
    BY <2>1, <2>2
<1>3. Bad = {}
  <2>1. SUFFICES ASSUME Bad # {} PROVE FALSE
    OBVIOUS
  <2>2. Bad \in SUBSET Nat
    BY <1>1
  <2> HIDE DEF Bad
  <2>3. PICK m \in Bad : \A l \in Bad : m =< l
    BY <2>1, <2>2, LeastOf
  <2>4. m \in 1 .. Cardinality(S)
    BY <2>3 DEF Bad
  <2> QED
    BY <1>2, <2>3, <2>4
<1>4. \E i \in S : Cardinality({j \in S : j < i}) = k - 1
  BY <1>3 DEF Below
<1> QED
  BY <1>4 DEF Nth

(* falloc() stops at NFILE.                                                *)
LEMMA OpenBound ==
  ASSUME TypeOK, NEW p \in Proc, NEW s \in Slot
  PROVE  NOpen \in Nat /\ files[p][s] =< NOpen
<1> DEFINE all  == (Proc \X Slot) \X (1 .. NFILE)
           open == {x \in all : x[2] <= files[x[1][1]][x[1][2]]}
           mine == [k \in 1 .. files[p][s] |-> <<<<p, s>>, k>>]
<1>1. files[p][s] \in 0 .. NFILE /\ NFILE \in Nat /\ NINODE \in Nat
  BY InodeAssumption DEF TypeOK, ProcsOK
<1>2. IsFiniteSet(open) /\ Cardinality(open) \in Nat
  <2>1. IsFiniteSet(Slot) /\ IsFiniteSet(1 .. NFILE)
    BY <1>1, FS_Interval DEF Slot
  <2>2. IsFiniteSet(Proc \X Slot)
    BY <2>1, FS_Product, InodeAssumption
  <2>3. IsFiniteSet(all)
    BY <2>1, <2>2, FS_Product
  <2>4. open \in SUBSET all
    OBVIOUS
  <2> QED
    BY <2>3, <2>4, FS_Subset, FS_CardinalityType
<1>3. mine \in Injection(1 .. files[p][s], open)
  <2>1. \A k \in 1 .. files[p][s] : <<<<p, s>>, k>> \in open
    BY <1>1
  <2> HIDE DEF open
  <2> QED
    BY <2>1 DEF Injection, IsInjective
<1> HIDE DEF mine, open
<1>4. Cardinality(1 .. files[p][s]) =< Cardinality(open)
  BY <1>2, <1>3, FS_Injection
<1>5. Cardinality(1 .. files[p][s]) = files[p][s]
  BY <1>1, FS_Interval
<1>6. NOpen = Cardinality(open)
  BY DEF NOpen, open
<1> QED
  BY <1>2, <1>4, <1>5, <1>6


------------------------------------------------------------------------------
(* What every step of a process p does: the other calls stay where they    *)
(* are, p touches no entry that another has locked, its locks change as it *)
(* does, and i_count changes as its references do.                         *)
Others(p) == \A q \in Proc : q # p => pc'[q] = pc[q] /\ u'[q] = u[q] /\ files'[q] = files[q]

EntryStep(p) == \A t \in Slot :
  IF inode[t].lock /\ ~ HoldsInode(p, t)
  THEN /\ inode'[t].lock /\ ~ HoldsInode(p, t)' /\ inode'[t].count = inode[t].count
  ELSE inode'[t].lock <=> HoldsInode(p, t)'

DirStep(p) ==
  IF dlock /\ ~ HoldsDir(p) THEN dlock' /\ ~ HoldsDir(p)' ELSE dlock' <=> HoldsDir(p)'

ListStep(p) ==
  IF silock /\ pc[p] # "search" THEN silock' /\ pc'[p] # "search" ELSE silock' <=> pc'[p] = "search"

CountStep(p) == \A t \in Slot :
  /\ Refs(p, t)' - Refs(p, t) \in {-1, 0, 1}
  /\ inode'[t].count = inode[t].count + (Refs(p, t)' - Refs(p, t))

LEMMA OthersHold ==
  ASSUME NEW p \in Proc, Others(p), NEW q \in Proc, q # p
  PROVE  /\ \A s \in Slot : HoldsInode(q, s)' <=> HoldsInode(q, s)
         /\ \A s \in Slot : Refs(q, s)' = Refs(q, s)
         /\ HoldsDir(q)' <=> HoldsDir(q)
         /\ Cur(q)' = Cur(q)
<1>1. pc'[q] = pc[q] /\ u'[q] = u[q] /\ files'[q] = files[q]
  BY DEF Others
<1> QED
  BY <1>1 DEF HoldsInode, HoldsDir, Cur, Refs

LEMMA StepEntryLocks ==
  ASSUME NEW p \in Proc, Others(p), EntryLocks, EntryStep(p)
  PROVE  EntryLocks'
<1>1. ASSUME NEW s \in Slot PROVE inode'[s].lock <=> \E q \in Proc : HoldsInode(q, s)'
  BY OthersHold DEF EntryLocks, EntryStep
<1>2. ASSUME NEW s \in Slot, NEW q \in Proc, NEW r \in Proc, HoldsInode(q, s)', HoldsInode(r, s)'
      PROVE  q = r
  <2>1. CASE q # p /\ r # p
    BY <1>2, <2>1, OthersHold DEF EntryLocks
  <2>2. ASSUME NEW o \in Proc, o # p, HoldsInode(o, s)' PROVE ~ HoldsInode(p, s)'
    <3>1. HoldsInode(o, s)
      BY <2>2, OthersHold
    <3> QED
      BY <2>2, <3>1 DEF EntryLocks, EntryStep
  <2> QED
    BY <1>2, <2>1, <2>2
<1> QED
  BY <1>1, <1>2 DEF EntryLocks

LEMMA StepDirLock ==
  ASSUME NEW p \in Proc, Others(p), DirLock, DirStep(p)
  PROVE  DirLock'
<1>1. \A q \in Proc : q # p => (HoldsDir(q)' <=> HoldsDir(q))
  BY OthersHold
<1>2. dlock' <=> \E q \in Proc : HoldsDir(q)'
  BY <1>1 DEF DirLock, DirStep
<1>3. ASSUME NEW q \in Proc, NEW r \in Proc, HoldsDir(q)', HoldsDir(r)' PROVE q = r
  BY <1>1, <1>3 DEF DirLock, DirStep
<1> QED
  BY <1>2, <1>3 DEF DirLock

LEMMA StepListLock ==
  ASSUME NEW p \in Proc, Others(p), ListLock, ListStep(p)
  PROVE  ListLock'
<1>1. \A q \in Proc : q # p => pc'[q] = pc[q]
  BY DEF Others
<1>2. silock' <=> \E q \in Proc : pc'[q] = "search"
  BY <1>1 DEF ListLock, ListStep
<1>3. ASSUME NEW q \in Proc, NEW r \in Proc, pc'[q] = "search", pc'[r] = "search" PROVE q = r
  BY <1>1, <1>3 DEF ListLock, ListStep
<1> QED
  BY <1>2, <1>3 DEF ListLock

LEMMA StepCounts ==
  ASSUME NEW p \in Proc, Others(p), TypeOK, TypeOK', Counts, CountStep(p)
  PROVE  Counts'
<1>1. ASSUME NEW s \in Slot PROVE inode'[s].count = RefsOf(s)'
  <2>1. \A q \in Proc : q # p => Refs(q, s)' = Refs(q, s)
    BY OthersHold
  <2>2. inode[s].count = RefsOf(s) /\ inode[s].count \in Nat
    BY DEF Counts, TypeOK, Entry
  <2>3. Refs(p, s) \in Int /\ Refs(p, s)' \in Int
    <3>1. files[p][s] \in Int /\ files'[p][s] \in Int
      BY DEF TypeOK, ProcsOK
    <3> QED
      BY <3>1 DEF Refs
  <2>4. CASE Refs(p, s)' = Refs(p, s)
    <3>1. RefsOf(s)' = RefsOf(s)
      BY <2>1, <2>4, RefsSame
    <3> QED
      BY <2>2, <2>3, <2>4, <3>1 DEF CountStep
  <2>5. CASE Refs(p, s)' = Refs(p, s) + 1
    <3>1. RefsOf(s)' = RefsOf(s) + 1
      BY <2>1, <2>5, RefsOneMore
    <3> QED
      BY <2>2, <2>3, <2>5, <3>1 DEF CountStep
  <2>6. CASE Refs(p, s)' = Refs(p, s) - 1
    <3>1. RefsOf(s)' = RefsOf(s) - 1
      BY <2>1, <2>6, RefsOneLess
    <3> QED
      BY <2>2, <2>3, <2>6, <3>1 DEF CountStep
  <2> QED
    BY <2>3, <2>4, <2>5, <2>6 DEF CountStep
<1> QED
  BY <1>1 DEF Counts

LEMMA StepCalls ==
  ASSUME NEW p \in Proc, Others(p), EntryLocks, EntryStep(p),
         \A q \in Proc : CallOK(q), CallOK(p)'
  PROVE  \A q \in Proc : CallOK(q)'
<1>1. SUFFICES ASSUME NEW q \in Proc, q # p PROVE CallOK(q)'
  OBVIOUS
<1>2. pc'[q] = pc[q] /\ u'[q] = u[q] /\ Cur(q)' = Cur(q) /\ CallOK(q)
  BY <1>1, OthersHold DEF Others
<1>3. Fits(pc[q], u[q])'
  BY <1>2 DEF CallOK
<1>4. ASSUME pc[q] \in {"itrunc", "iput2"} PROVE inode'[Cur(q)].count = inode[Cur(q)].count
  <2>1. Cur(q) \in Slot /\ HoldsInode(q, Cur(q))
    BY <1>2, <1>4 DEF CallOK, Fits, HoldsInode, Cur, CurOf
  <2>2. ~ HoldsInode(p, Cur(q)) /\ inode[Cur(q)].lock
    BY <1>1, <2>1 DEF EntryLocks
  <2> QED
    BY <2>1, <2>2 DEF EntryStep
<1>5. Last(q)'
  BY <1>2, <1>4 DEF CallOK, Last
<1> QED
  BY <1>3, <1>5 DEF CallOK

(* A step that takes no entry off the free list, and gives none back. *)
SameEntries == /\ ifreelist' = ifreelist
               /\ \A t \in Slot : /\ inode'[t].ino = inode[t].ino
                                  /\ inode'[t].count = 0 <=> inode[t].count = 0

LEMMA StepEntries ==
  ASSUME SameEntries, OneEntry, FreeList
  PROVE  OneEntry' /\ FreeList'
<1>1. OneEntry'
  BY DEF SameEntries, OneEntry
<1>2. FreeList'
  BY DEF SameEntries, FreeList
<1> QED
  BY <1>1, <1>2

StepOK(p) ==
  /\ TypeOK' /\ Others(p) /\ CallOK(p)'
  /\ EntryStep(p) /\ DirStep(p) /\ ListStep(p) /\ CountStep(p)
  /\ OneEntry' /\ FreeList' /\ Sleepers'

LEMMA StepKeeps ==
  ASSUME InodeInv, NEW p \in Proc, StepOK(p)
  PROVE  InodeInv'
<1>1. EntryLocks' /\ DirLock' /\ ListLock'
  BY StepEntryLocks, StepDirLock, StepListLock DEF InodeInv, Locks, StepOK
<1>2. Counts' /\ \A q \in Proc : CallOK(q)'
  BY StepCounts, StepCalls DEF InodeInv, Locks, StepOK
<1> QED
  BY <1>1, <1>2 DEF InodeInv, Locks, StepOK

(* An entry that a call works on has a reference, and one that is locked.  *)
LEMMA Referenced ==
  ASSUME InodeInv, NEW s \in Slot,
         inode[s].lock \/ \E p \in Proc : u[p].ip = s \/ u[p].xp = s \/ files[p][s] > 0
  PROVE  inode[s].count > 0 /\ inode[s].ino # 0
<1>1. PICK p \in Proc : u[p].ip = s \/ u[p].xp = s \/ files[p][s] > 0
  BY DEF InodeInv, Locks, EntryLocks, HoldsInode, Cur
<1>2. RefsOf(s) > 0
  BY <1>1, RefsNat, RefsPositive DEF InodeInv
<1> QED
  BY <1>2 DEF InodeInv, Counts, OneEntry


------------------------------------------------------------------------------
(* A call goes on at a label, with a record.                               *)
Moves(p, l, r) == pc' = [pc EXCEPT ![p] = l] /\ u' = [u EXCEPT ![p] = r]

Working(l, r) == l \in {"iread", "got", "iput", "itrunc", "iput2", "iupdat", "isync"} \/ (l = "wdir" /\ r.op = "new")
InDir(l, r)   == l \in {"dir", "dput", "wdir"} \/ (r.op \in {"unlink", "new", "no new"} /\ l # "namei")

LEMMA MovesTo ==
  ASSUME TypeOK, NEW p \in Proc, NEW l \in Labels, NEW r \in Frame, Moves(p, l, r)
  PROVE  /\ pc'[p] = l /\ u'[p] = r
         /\ pc' \in [Proc -> Labels] /\ u' \in [Proc -> Frame]
         /\ \A q \in Proc : q # p => pc'[q] = pc[q] /\ u'[q] = u[q]
BY DEF TypeOK, ProcsOK, Moves

LEMMA Holds ==
  ASSUME NEW p \in Proc
  PROVE  /\ Cur(p) = CurOf(u[p]) /\ Cur(p)' = CurOf(u'[p])
         /\ \A s \in Slot : HoldsInode(p, s) <=> Working(pc[p], u[p]) /\ CurOf(u[p]) = s
         /\ \A s \in Slot : HoldsInode(p, s)' <=> Working(pc'[p], u'[p]) /\ CurOf(u'[p]) = s
         /\ HoldsDir(p) <=> InDir(pc[p], u[p])
         /\ HoldsDir(p)' <=> InDir(pc'[p], u'[p])
<1>1. Cur(p) = CurOf(u[p]) /\ Cur(p)' = CurOf(u'[p])
  BY DEF Cur, CurOf
<1>2. HoldsDir(p) <=> InDir(pc[p], u[p])
  BY DEF HoldsDir, InDir
<1>3. HoldsDir(p)' <=> InDir(pc'[p], u'[p])
  BY DEF HoldsDir, InDir
<1> QED
  BY <1>1, <1>2, <1>3 DEF HoldsInode, Working

LEMMA Here ==
  ASSUME InodeInv, NEW p \in Proc
  PROVE  /\ pc[p] \in Labels /\ u[p] \in Frame /\ Fits(pc[p], u[p]) /\ Last(p)
         /\ inode \in [Slot -> Entry] /\ files[p] \in [Slot -> 0 .. NFILE]
         /\ chan \in [Proc -> 0 .. NINODE + 2]
BY DEF InodeInv, TypeOK, ProcsOK, CallOK

(* What the steps do to the entries: nothing that matters, a lock is taken,*)
(* or one is given back.                                                   *)
LEMMA EntriesQuiet ==
  ASSUME InodeInv, NEW p \in Proc,
         \A t \in Slot : /\ inode'[t].lock = inode[t].lock /\ inode'[t].count = inode[t].count
                         /\ inode'[t].ino = inode[t].ino,
         ifreelist' = ifreelist,
         \A t \in Slot : HoldsInode(p, t)' <=> HoldsInode(p, t),
         \A t \in Slot : Refs(p, t)' = Refs(p, t)
  PROVE  EntryStep(p) /\ CountStep(p) /\ OneEntry' /\ FreeList'
<1>1. EntryStep(p)
  BY DEF EntryStep, InodeInv, Locks, EntryLocks
<1>2. CountStep(p)
  <2>1. ASSUME NEW t \in Slot PROVE Refs(p, t) \in Int /\ inode[t].count \in Int
    BY <2>1, RefsNat, InodeAssumption DEF InodeInv, TypeOK, Entry
  <2> QED
    BY <2>1 DEF CountStep
<1>3. SameEntries
  BY DEF SameEntries
<1> QED
  BY <1>1, <1>2, <1>3, StepEntries DEF InodeInv

LEMMA DirQuiet ==
  ASSUME InodeInv, NEW p \in Proc, dlock' = dlock, HoldsDir(p)' <=> HoldsDir(p)
  PROVE  DirStep(p)
BY DEF InodeInv, Locks, DirLock, DirStep

LEMMA ListQuiet ==
  ASSUME InodeInv, NEW p \in Proc, silock' = silock, pc'[p] = "search" <=> pc[p] = "search"
  PROVE  ListStep(p)
BY DEF InodeInv, Locks, ListLock, ListStep

(* p takes the lock of s, and with it a reference, or has one already.     *)
LEMMA EntryTaken ==
  ASSUME InodeInv, NEW p \in Proc, NEW s \in Slot,
         ~ inode[s].lock, inode'[s].lock,
         \A t \in Slot : t # s => inode'[t] = inode[t],
         ~ Working(pc[p], u[p]), Working(pc'[p], u'[p]), CurOf(u'[p]) = s
  PROVE  EntryStep(p)
BY Holds DEF EntryStep, InodeInv, Locks, EntryLocks, TypeOK, Entry

(* p holds s, and gives it back, or not. *)
LEMMA EntryKept ==
  ASSUME InodeInv, NEW p \in Proc, NEW s \in Slot, HoldsInode(p, s),
         \A t \in Slot : t # s => inode'[t] = inode[t],
         inode'[s].lock <=> HoldsInode(p, s)',
         \A t \in Slot : t # s => ~ HoldsInode(p, t)'
  PROVE  EntryStep(p)
<1>1. \A t \in Slot : t # s => ~ HoldsInode(p, t)
  BY DEF HoldsInode
<1> QED
  BY <1>1 DEF EntryStep, InodeInv, Locks, EntryLocks

(* p uses an entry more, or one less, for its call.                        *)
Gains(p, s) ==
  \/ u[p].ip = 0 /\ u'[p].ip = s /\ u'[p].xp = u[p].xp
  \/ u[p].xp = 0 /\ u'[p].xp = s /\ u'[p].ip = u[p].ip
Loses(p, s) ==
  \/ u[p].ip = s /\ u'[p].ip = 0 /\ u'[p].xp = u[p].xp
  \/ u[p].xp = s /\ u'[p].xp = 0 /\ u'[p].ip = u[p].ip

LEMMA CountGains ==
  ASSUME InodeInv, NEW p \in Proc, NEW s \in Slot, Gains(p, s), files'[p] = files[p],
         inode'[s].count = inode[s].count + 1,
         \A t \in Slot : t # s => inode'[t].count = inode[t].count
  PROVE  CountStep(p)
<1>1. ASSUME NEW t \in Slot
      PROVE  files[p][t] \in Int /\ inode[t].count \in Int /\ t # 0
  <2>1. files[p][t] \in 0 .. NFILE /\ inode[t].count \in Nat
    BY DEF InodeInv, TypeOK, ProcsOK, Entry
  <2> QED
    BY <2>1, Numbers
<1>2. ASSUME NEW t \in Slot PROVE Refs(p, t)' - Refs(p, t) = IF t = s THEN 1 ELSE 0
  BY <1>1 DEF Gains, Refs
<1> QED
  BY <1>1, <1>2 DEF CountStep

LEMMA CountLoses ==
  ASSUME InodeInv, NEW p \in Proc, NEW s \in Slot, Loses(p, s), files'[p] = files[p],
         inode'[s].count = inode[s].count - 1,
         \A t \in Slot : t # s => inode'[t].count = inode[t].count
  PROVE  CountStep(p)
<1>1. ASSUME NEW t \in Slot
      PROVE  files[p][t] \in Int /\ inode[t].count \in Int /\ t # 0
  <2>1. files[p][t] \in 0 .. NFILE /\ inode[t].count \in Nat
    BY DEF InodeInv, TypeOK, ProcsOK, Entry
  <2> QED
    BY <2>1, Numbers
<1>2. ASSUME NEW t \in Slot PROVE Refs(p, t)' - Refs(p, t) = IF t = s THEN -1 ELSE 0
  BY <1>1 DEF Loses, Refs
<1> QED
  BY <1>1, <1>2 DEF CountStep

LEMMA CountSame ==
  ASSUME InodeInv, NEW p \in Proc, u'[p].ip = u[p].ip, u'[p].xp = u[p].xp, files'[p] = files[p]
  PROVE  \A t \in Slot : Refs(p, t)' = Refs(p, t)
BY DEF Refs

LEMMA IdleFrame == Idle \in Frame /\ Idle.op = "none" /\ Idle.ip = 0 /\ Idle.xp = 0
<1>1. "none" \in Ops /\ 1 \in Nat
  BY DEF Ops
<1> QED
  BY <1>1, Numbers DEF Idle, Frame

(* Where Leaves leads: without an entry, but for the first of link().      *)
LEMMA LeavesTo ==
  ASSUME NEW p \in Proc, NEW r \in Frame, Leaves(p, r),
         r.op = "link2" => r.ip \in Slot, r.xp # 0 => r.op = "link2",
         r.op \in ByName \cup {"new"} => r.name \in Name
  PROVE  \E l \in Labels, x \in Frame :
           /\ Moves(p, l, x) /\ Fits(l, x) /\ ~ Working(l, x) /\ l \notin {"search", "itrunc", "iput2"}
           /\ x.ip = IF r.op = "link2" THEN r.ip ELSE 0
           /\ x.xp = 0
           /\ InDir(l, x) <=> r.op \in {"unlink", "new", "no new"}
<1> DEFINE P(l, x) == /\ Moves(p, l, x) /\ Fits(l, x) /\ ~ Working(l, x) /\ l \notin {"search", "itrunc", "iput2"}
                      /\ x.ip = IF r.op = "link2" THEN r.ip ELSE 0
                      /\ x.xp = 0
                      /\ InDir(l, x) <=> r.op \in {"unlink", "new", "no new"}
<1> SUFFICES \E l \in Labels, x \in Frame : P(l, x)
  OBVIOUS
<1>1. CASE r.op = "link2"
  <2> DEFINE x == [r EXCEPT !.op = "out", !.xp = 0, !.err = TRUE]
  <2>0. "out" \in Ops
    BY DEF Ops
  <2>1. x \in Frame /\ x.op = "out" /\ x.ip = r.ip /\ x.xp = 0
    BY <2>0, Numbers DEF Frame
  <2>2. Moves(p, "out", x)
    BY <1>1 DEF Leaves, Moves, Goes
  <2> HIDE DEF x
  <2>3. P("out", x)
    BY <1>1, <2>1, <2>2 DEF Fits, CurOf, Working, InDir, ByName
  <2> QED
    BY <2>1, <2>3 DEF Labels
<1>2. CASE r.op \in {"unlink", "no new", "new", "pipe", "sync"}
  <2> DEFINE x == [r EXCEPT !.ip = 0]
             l == CASE r.op \in {"unlink", "no new"} -> "dput"
                    [] r.op \in {"new", "pipe"}      -> "ialloc"
                    [] OTHER                         -> "sync"
  <2>1. x \in Frame /\ x.op = r.op /\ x.ip = 0 /\ x.xp = 0 /\ x.name = r.name
    BY <1>2, InodeAssumption DEF Frame
  <2>2. Moves(p, l, x)
    BY <1>2 DEF Leaves, Moves, Goes, WithCur
  <2> HIDE DEF x
  <2>3. P(l, x)
    BY <1>2, <2>1, <2>2 DEF Fits, CurOf, Working, InDir, ByName
  <2> QED
    BY <2>1, <2>3 DEF Labels
<1>3. CASE r.op \notin {"link2", "unlink", "no new", "new", "pipe", "sync"}
  <2>1. Idle \in Frame /\ Idle.op = "none" /\ Idle.ip = 0 /\ Idle.xp = 0
    BY IdleFrame
  <2>2. Moves(p, "user", Idle)
    BY <1>3 DEF Leaves, Moves, Goes, Returns
  <2>3. P("user", Idle)
    BY <1>3, <2>1, <2>2 DEF Fits, CurOf, Working, InDir, ByName
  <2> QED
    BY <2>1, <2>3 DEF Labels
<1> QED
  BY <1>1, <1>2, <1>3


(* Sleepers sleep on while their lock is held, and a call may join them. *)
LEMMA SleepersKept ==
  ASSUME InodeInv,
         \A q \in Proc : chan'[q] \in {0, chan[q]},
         \A t \in Slot : \/ inode[t].lock /\ inode[t].want => inode'[t].lock /\ inode'[t].want
                         \/ \A q \in Proc : chan'[q] # t,
         (dlock => dlock') \/ \A q \in Proc : chan'[q] # DIR,
         (silock => silock') \/ \A q \in Proc : chan'[q] # ILIST
  PROVE  Sleepers'
<1>1. SUFFICES ASSUME NEW q \in Proc
               PROVE  /\ chan'[q] \in Slot => inode'[chan'[q]].lock /\ inode'[chan'[q]].want
                      /\ chan'[q] = DIR => dlock'
                      /\ chan'[q] = ILIST => silock'
  BY DEF Sleepers
<1>2. CASE chan'[q] = 0
  BY <1>2, Numbers, InodeAssumption DEF DIR, ILIST
<1>3. CASE chan'[q] = chan[q]
  BY <1>3 DEF InodeInv, Locks, Sleepers
<1> QED
  BY <1>2, <1>3

LEMMA SleepsOK ==
  ASSUME InodeInv, NEW p \in Proc, NEW c \in 0 .. NINODE + 2, Sleeps(p, c),
         \A t \in Slot : inode[t].lock /\ inode[t].want => inode'[t].lock /\ inode'[t].want,
         dlock' = dlock, silock' = silock,
         c \in Slot => inode'[c].lock /\ inode'[c].want,
         c = DIR => dlock, c = ILIST => silock
  PROVE  Sleepers' /\ chan' \in [Proc -> 0 .. NINODE + 2]
<1>1. chan \in [Proc -> 0 .. NINODE + 2]
  BY DEF InodeInv, TypeOK, ProcsOK
<1>2. \A q \in Proc : chan'[q] = IF q = p THEN c ELSE chan[q]
  BY <1>1 DEF Sleeps
<1>3. Sleepers'
  BY <1>2 DEF InodeInv, Locks, Sleepers
<1> QED
  BY <1>1, <1>3 DEF Sleeps

LEMMA Wanted ==
  ASSUME NEW e \in Entry, NEW w, w = [e EXCEPT !.want = TRUE]
  PROVE  w \in Entry /\ w.want /\ w.lock = e.lock /\ w.count = e.count /\ w.ino = e.ino
BY DEF Entry

LEMMA Wants ==
  ASSUME InodeInv, NEW s \in Slot, inode' = [inode EXCEPT ![s].want = TRUE]
  PROVE  /\ inode' \in [Slot -> Entry] /\ inode'[s].want
         /\ \A t \in Slot : /\ inode'[t].lock = inode[t].lock /\ inode'[t].count = inode[t].count
                            /\ inode'[t].ino = inode[t].ino /\ (inode[t].want => inode'[t].want)
<1>1. inode \in [Slot -> Entry]
  BY DEF InodeInv, TypeOK
<1>2. inode'[s] = [inode[s] EXCEPT !.want = TRUE] /\ \A t \in Slot : t # s => inode'[t] = inode[t]
  BY <1>1
<1>3. /\ inode'[s] \in Entry /\ inode'[s].want /\ inode'[s].lock = inode[s].lock
      /\ inode'[s].count = inode[s].count /\ inode'[s].ino = inode[s].ino
  BY <1>1, <1>2, Wanted
<1>4. inode' \in [Slot -> Entry]
  BY <1>1, <1>2, <1>3
<1> QED
  BY <1>2, <1>3, <1>4

LEMMA PreleOK ==
  ASSUME InodeInv, NEW s \in Slot, NEW r \in Entry, Prele(s, r)
  PROVE  /\ inode' \in [Slot -> Entry]
         /\ ~ inode'[s].lock /\ inode'[s].count = r.count /\ inode'[s].ino = r.ino
         /\ \A t \in Slot : t # s => inode'[t] = inode[t]
         /\ chan' \in [Proc -> 0 .. NINODE + 2]
         /\ dlock' = dlock /\ silock' = silock => Sleepers'
<1>1. inode \in [Slot -> Entry] /\ chan \in [Proc -> 0 .. NINODE + 2]
  BY DEF InodeInv, TypeOK, ProcsOK
<1>2. /\ inode' \in [Slot -> Entry]
      /\ ~ inode'[s].lock /\ inode'[s].count = r.count /\ inode'[s].ino = r.ino
      /\ \A t \in Slot : t # s => inode'[t] = inode[t]
  <2>1. inode' = [inode EXCEPT ![s] = [r EXCEPT !.lock = FALSE, !.want = FALSE]]
    BY DEF Prele
  <2>2. [r EXCEPT !.lock = FALSE, !.want = FALSE] \in Entry
    BY DEF Entry
  <2> QED
    BY <1>1, <2>1, <2>2 DEF Entry
<1>3. /\ chan' \in [Proc -> 0 .. NINODE + 2]
      /\ \A q \in Proc : chan'[q] \in {0, chan[q]} /\ chan'[q] # s
  <2>1. CASE inode[s].want
    BY <1>1, <2>1, Numbers, InodeAssumption DEF Prele, Woken
  <2>2. CASE ~ inode[s].want
    BY <1>1, <2>2 DEF Prele, InodeInv, Locks, Sleepers
  <2> QED
    BY <2>1, <2>2
<1>4. ASSUME dlock' = dlock, silock' = silock PROVE Sleepers'
  BY <1>2, <1>3, <1>4, SleepersKept
<1> QED
  BY <1>2, <1>3, <1>4

LEMMA DirPreleOK ==
  ASSUME InodeInv, DirPrele, inode' = inode, silock' = silock
  PROVE  dlock' = FALSE /\ chan' \in [Proc -> 0 .. NINODE + 2] /\ Sleepers'
<1>1. chan \in [Proc -> 0 .. NINODE + 2]
  BY DEF InodeInv, TypeOK, ProcsOK
<1>2. /\ chan' \in [Proc -> 0 .. NINODE + 2]
      /\ \A q \in Proc : chan'[q] \in {0, chan[q]} /\ chan'[q] # DIR
  BY <1>1, InodeAssumption DEF DirPrele, Woken, DIR
<1> QED
  BY <1>2, SleepersKept DEF DirPrele

LEMMA CurTaken ==
  ASSUME NEW r \in Frame, CurOf(r) = 0, NEW s \in Slot
  PROVE  /\ WithCur(r, s) \in Frame /\ CurOf(WithCur(r, s)) = s
         /\ WithCur(r, s).op = r.op /\ WithCur(r, s).name = r.name /\ WithCur(r, s).to = r.to
         /\ WithCur(r, s).err = r.err /\ WithCur(r, s).ino = r.ino
         /\ \/ r.op # "link2" /\ r.ip = 0 /\ WithCur(r, s).ip = s /\ WithCur(r, s).xp = r.xp
            \/ r.op = "link2" /\ r.xp = 0 /\ WithCur(r, s).xp = s /\ WithCur(r, s).ip = r.ip
BY Numbers DEF Frame, CurOf, WithCur

------------------------------------------------------------------------------
(* The kinds of steps.  A call begins to sleep: nothing else happens.      *)
LEMMA StillOK ==
  ASSUME InodeInv, NEW p \in Proc,
         UNCHANGED <<dev, dir, ifreelist, super, files, uinode, may, pc, u>>,
         inode' \in [Slot -> Entry],
         \A t \in Slot : /\ inode'[t].lock = inode[t].lock /\ inode'[t].count = inode[t].count
                         /\ inode'[t].ino = inode[t].ino,
         chan' \in [Proc -> 0 .. NINODE + 2], Sleepers'
  PROVE  StepOK(p)
<1>1. TypeOK'
  BY DEF InodeInv, TypeOK, DiskOK, ListOK, ProcsOK, dev, dir, super
<1>2. Others(p) /\ CallOK(p)'
  <2>1. Fits(pc[p], u[p])'
    BY Here
  <2>2. pc[p] \in {"itrunc", "iput2"} => Cur(p) \in Slot
    BY Here, Holds DEF Fits
  <2>3. Last(p)'
    BY <2>2, Here, Holds DEF Last
  <2> QED
    BY <2>1, <2>3 DEF Others, CallOK
<1>3. EntryStep(p) /\ CountStep(p) /\ OneEntry' /\ FreeList'
  <2>1. \A t \in Slot : (HoldsInode(p, t)' <=> HoldsInode(p, t)) /\ Refs(p, t)' = Refs(p, t)
    BY Holds DEF Refs
  <2> QED
    BY <2>1, EntriesQuiet
<1>4. DirStep(p) /\ ListStep(p)
  BY Holds, DirQuiet, ListQuiet DEF dir, super
<1> QED
  BY <1>1, <1>2, <1>3, <1>4 DEF StepOK

LEMMA WaitsOK ==
  ASSUME InodeInv, NEW p \in Proc, NEW s \in Slot, inode[s].lock,
         inode' = [inode EXCEPT ![s].want = TRUE], Sleeps(p, s),
         UNCHANGED <<dev, dlock, dent, ddent, ifreelist, super, files, uinode, may, pc, u>>
  PROVE  StepOK(p)
<1>1. /\ inode' \in [Slot -> Entry] /\ inode'[s].want
      /\ \A t \in Slot : /\ inode'[t].lock = inode[t].lock /\ inode'[t].count = inode[t].count
                         /\ inode'[t].ino = inode[t].ino /\ (inode[t].want => inode'[t].want)
  BY Wants
<1>2. s \in 0 .. NINODE + 2 /\ s # DIR /\ s # ILIST
  BY Numbers
<1>3. Sleepers' /\ chan' \in [Proc -> 0 .. NINODE + 2]
  BY <1>1, <1>2, SleepsOK DEF super
<1> QED
  BY <1>1, <1>3, StillOK DEF dir

LEMMA WaitsElsewhere ==
  ASSUME InodeInv, NEW p \in Proc, NEW c \in {DIR, ILIST}, Sleeps(p, c),
         c = DIR => dlock, c = ILIST => silock,
         UNCHANGED <<dev, dir, table, super, files, uinode, may, pc, u>>
  PROVE  StepOK(p)
<1>1. c \in 0 .. NINODE + 2 /\ c \notin Slot
  BY InodeAssumption DEF DIR, ILIST, Slot
<1>2. UNCHANGED <<inode, ifreelist, dlock, silock>> /\ inode' \in [Slot -> Entry]
  BY Here DEF table, dir, super
<1>3. \A t \in Slot : inode[t].lock /\ inode[t].want => inode'[t].lock /\ inode'[t].want
  BY <1>2
<1>4. Sleepers' /\ chan' \in [Proc -> 0 .. NINODE + 2]
  BY <1>1, <1>2, <1>3, SleepsOK
<1> QED
  BY <1>2, <1>4, StillOK

(* A call goes on that works on no entry. *)
LEMMA PlainOK ==
  ASSUME InodeInv, NEW p \in Proc, NEW l \in Labels, NEW x \in Frame, Moves(p, l, x),
         ~ Working(pc[p], u[p]), ~ Working(l, x), Fits(l, x), l \notin {"itrunc", "iput2"},
         x.ip = u[p].ip, x.xp = u[p].xp,
         UNCHANGED <<inode, ifreelist, files, may>>,
         DiskOK', ListOK', chan' \in [Proc -> 0 .. NINODE + 2], Sleepers',
         DirStep(p), ListStep(p)
  PROVE  StepOK(p)
<1>1. /\ pc'[p] = l /\ u'[p] = x /\ pc' \in [Proc -> Labels] /\ u' \in [Proc -> Frame]
      /\ \A q \in Proc : q # p => pc'[q] = pc[q] /\ u'[q] = u[q]
  BY MovesTo DEF InodeInv
<1>2. TypeOK'
  BY <1>1 DEF InodeInv, TypeOK, ProcsOK
<1>3. Others(p) /\ CallOK(p)'
  BY <1>1 DEF Others, CallOK, Last
<1>4. EntryStep(p) /\ CountStep(p) /\ OneEntry' /\ FreeList'
  <2>1. \A t \in Slot : HoldsInode(p, t)' <=> HoldsInode(p, t)
    BY <1>1, Holds
  <2>2. \A t \in Slot : Refs(p, t)' = Refs(p, t)
    BY <1>1, CountSame
  <2> QED
    BY <2>1, <2>2, EntriesQuiet
<1> QED
  BY <1>2, <1>3, <1>4 DEF StepOK

(* A call goes on with the entry it works on. *)
LEMMA WorkOK ==
  ASSUME InodeInv, NEW p \in Proc, NEW l \in Labels, NEW x \in Frame, Moves(p, l, x),
         NEW s \in Slot, Working(pc[p], u[p]), CurOf(u[p]) = s,
         Working(l, x), CurOf(x) = s, Fits(l, x),
         l \in {"itrunc", "iput2"} => inode[s].count = 1,
         x.ip = u[p].ip, x.xp = u[p].xp,
         inode' \in [Slot -> Entry],
         inode'[s].lock, inode'[s].count = inode[s].count, inode'[s].ino = inode[s].ino,
         \A t \in Slot : t # s => inode'[t] = inode[t],
         UNCHANGED <<ifreelist, files, may>>,
         DiskOK', ListOK', chan' \in [Proc -> 0 .. NINODE + 2], Sleepers',
         DirStep(p), silock' = silock
  PROVE  StepOK(p)
<1>1. /\ pc'[p] = l /\ u'[p] = x /\ pc' \in [Proc -> Labels] /\ u' \in [Proc -> Frame]
      /\ \A q \in Proc : q # p => pc'[q] = pc[q] /\ u'[q] = u[q]
  BY MovesTo DEF InodeInv
<1>2. TypeOK'
  BY <1>1 DEF InodeInv, TypeOK, ProcsOK
<1>3. Others(p) /\ CallOK(p)'
  BY <1>1, Holds DEF Others, CallOK, Last
<1>4. \A t \in Slot : /\ HoldsInode(p, t) <=> t = s
                      /\ HoldsInode(p, t)' <=> t = s
  BY <1>1, Holds
<1>5. \A t \in Slot : /\ inode'[t].lock = inode[t].lock /\ inode'[t].count = inode[t].count
                      /\ inode'[t].ino = inode[t].ino
  BY <1>4 DEF InodeInv, Locks, EntryLocks, TypeOK, Entry
<1>6. EntryStep(p) /\ CountStep(p) /\ OneEntry' /\ FreeList'
  <2>1. \A t \in Slot : Refs(p, t)' = Refs(p, t)
    BY <1>1, CountSame
  <2> QED
    BY <1>4, <1>5, <2>1, EntriesQuiet
<1>7. ListStep(p)
  BY <1>1, ListQuiet DEF Working
<1> QED
  BY <1>2, <1>3, <1>6, <1>7 DEF StepOK

(* The sleepers do not notice it, when only the entry p holds changes. *)
LEMMA SleepersSame ==
  ASSUME InodeInv, NEW s \in Slot,
         \A t \in Slot : t # s => inode'[t] = inode[t],
         inode'[s].lock, inode'[s].want = inode[s].want,
         UNCHANGED <<chan, dlock, silock>>
  PROVE  Sleepers' /\ chan' \in [Proc -> 0 .. NINODE + 2]
BY SleepersKept DEF InodeInv, TypeOK, ProcsOK

(* Most calls that work on an entry touch nothing else but what is on the  *)
(* disk and the list of inodes.                                            *)
LEMMA WorksOn ==
  ASSUME InodeInv, NEW p \in Proc, NEW l \in Labels, NEW x \in Frame, Moves(p, l, x),
         Working(pc[p], u[p]), Working(l, x), CurOf(u[p]) \in Slot, Fits(l, x),
         l \in {"itrunc", "iput2"} => inode[CurOf(u[p])].count = 1,
         x.ip = u[p].ip, x.xp = u[p].xp, CurOf(x) = CurOf(u[p]),
         InDir(l, x) <=> InDir(pc[p], u[p]),
         NEW e \in Entry, inode' = [inode EXCEPT ![CurOf(u[p])] = e],
         e.lock = inode[CurOf(u[p])].lock, e.want = inode[CurOf(u[p])].want,
         e.count = inode[CurOf(u[p])].count, e.ino = inode[CurOf(u[p])].ino,
         UNCHANGED <<ifreelist, files, may, chan, dlock, silock>>,
         DiskOK', ListOK'
  PROVE  StepOK(p)
<1> DEFINE s == CurOf(u[p])
<1>1. /\ inode' \in [Slot -> Entry] /\ inode'[s] = e
      /\ \A t \in Slot : t # s => inode'[t] = inode[t]
  BY Here
<1>2. inode[s].lock
  BY Holds DEF InodeInv, Locks, EntryLocks
<1>3. Sleepers' /\ chan' \in [Proc -> 0 .. NINODE + 2]
  BY <1>1, <1>2, SleepersSame
<1>4. DirStep(p)
  <2>1. pc'[p] = l /\ u'[p] = x
    BY MovesTo DEF InodeInv
  <2> QED
    BY <2>1, Holds, DirQuiet
<1> HIDE DEF s
<1> QED
  BY <1>1, <1>2, <1>3, <1>4, WorkOK DEF s

------------------------------------------------------------------------------
(* The actions, one by one.                                                *)
LEMMA IgetFoundOK ==
  ASSUME InodeInv, NEW p \in Proc, IgetFound(p)
  PROVE  StepOK(p)
<1> DEFINE r == u[p]
<1>1. /\ pc[p] = "iget" /\ r \in Frame /\ Fits("iget", r) /\ inode \in [Slot -> Entry]
      /\ UNCHANGED <<dev, dir, ifreelist, super, files, uinode, may>>
  BY Here DEF IgetFound, At
<1>2. PICK s \in Slot :
        /\ inode[s].ino = r.ino
        /\ IF inode[s].lock
           THEN /\ inode' = [inode EXCEPT ![s].want = TRUE]
                /\ Sleeps(p, s)
                /\ UNCHANGED <<pc, u>>
           ELSE /\ inode' = [inode EXCEPT ![s].lock = TRUE, ![s].count = @ + 1]
                /\ Goes(p, "got")
                /\ u' = [u EXCEPT ![p] = WithCur(@, s)]
                /\ UNCHANGED chan
  BY DEF IgetFound, SlotsOf
<1>3. CASE inode[s].lock
  <2>1. inode' = [inode EXCEPT ![s].want = TRUE] /\ Sleeps(p, s) /\ UNCHANGED <<pc, u>>
    BY <1>2, <1>3
  <2> QED
    BY <1>1, <1>3, <2>1, WaitsOK DEF dir
<1>4. CASE ~ inode[s].lock
  <2> DEFINE x == WithCur(r, s)
  <2>1. Moves(p, "got", x) /\ chan' = chan
    BY <1>2, <1>4 DEF Moves, Goes
  <2>2. /\ x \in Frame /\ CurOf(x) = s /\ x.op = r.op /\ x.name = r.name /\ x.to = r.to /\ x.err = r.err
        /\ \/ r.op # "link2" /\ r.ip = 0 /\ x.ip = s /\ x.xp = r.xp
           \/ r.op = "link2" /\ r.xp = 0 /\ x.xp = s /\ x.ip = r.ip
    BY <1>1, CurTaken DEF Fits
  <2> HIDE DEF x
  <2>3. /\ pc'[p] = "got" /\ u'[p] = x /\ pc' \in [Proc -> Labels] /\ u' \in [Proc -> Frame]
        /\ \A q \in Proc : q # p => pc'[q] = pc[q] /\ u'[q] = u[q]
    BY <2>1, <2>2, MovesTo DEF InodeInv, Labels
  <2>4. /\ inode' \in [Slot -> Entry]
        /\ inode'[s].lock /\ inode'[s].count = inode[s].count + 1 /\ inode'[s].ino = inode[s].ino
        /\ \A t \in Slot : t # s => inode'[t] = inode[t]
    BY <1>1, <1>2, <1>4 DEF Entry
  <2>5. TypeOK'
    BY <1>1, <2>1, <2>3, <2>4 DEF InodeInv, TypeOK, DiskOK, ListOK, ProcsOK, dev, dir, super
  <2>6. Others(p) /\ CallOK(p)'
    <3>1. Fits("got", x)
      BY <1>1, <2>2 DEF Fits, ByName
    <3> QED
      BY <1>1, <2>3, <3>1 DEF Others, CallOK, Last
  <2>7. EntryStep(p)
    BY <1>1, <1>4, <2>2, <2>3, <2>4, EntryTaken DEF Working
  <2>8. CountStep(p)
    BY <1>1, <2>2, <2>3, <2>4, CountGains DEF Gains
  <2>9. OneEntry' /\ FreeList'
    <3>1. inode[s].count \in Nat /\ inode[s].count # 0
      BY <1>1, <1>2, Numbers DEF Fits, InodeInv, OneEntry, Entry
    <3>2. SameEntries
      BY <1>1, <2>4, <3>1 DEF SameEntries
    <3> QED
      BY <3>2, StepEntries DEF InodeInv
  <2>10. DirStep(p) /\ ListStep(p)
    <3>1. InDir("iget", r) <=> InDir("got", x)
      BY <2>2 DEF InDir
    <3> QED
      BY <1>1, <2>3, <3>1, Holds, DirQuiet, ListQuiet DEF dir, super
  <2>11. Sleepers'
    BY <1>1, <1>4, <2>1, <2>4, SleepersKept DEF dir, super
  <2> QED
    BY <2>5, <2>6, <2>7, <2>8, <2>9, <2>10, <2>11 DEF StepOK
<1> QED
  BY <1>3, <1>4


LEMMA FailsTo ==
  ASSUME NEW r \in Frame
  PROVE  /\ Fails(r) \in Frame /\ Fails(r).err /\ Fails(r).ip = r.ip /\ Fails(r).xp = r.xp
         /\ Fails(r).name = r.name /\ Fails(r).to = r.to
         /\ Fails(r).op = CASE r.op = "new" -> "no new" [] r.op = "pipe" -> "no pipe" [] OTHER -> r.op
<1>1. (CASE r.op = "new" -> "no new" [] r.op = "pipe" -> "no pipe" [] OTHER -> r.op) \in Ops
  BY DEF Frame, Ops
<1> QED
  BY <1>1 DEF Fails, Frame

LEMMA Unmoved ==
  ASSUME InodeInv, UNCHANGED <<dev, dent, ddent>>
  PROVE  DiskOK'
BY DEF InodeInv, TypeOK, DiskOK, dev

LEMMA Unlisted ==
  ASSUME InodeInv, UNCHANGED <<super, uinode>>, dlock' \in BOOLEAN
  PROVE  ListOK'
BY DEF InodeInv, TypeOK, ListOK, super

LEMMA IreadOK ==
  ASSUME InodeInv, NEW p \in Proc, Iread(p)
  PROVE  StepOK(p)
<1> DEFINE r == u[p]
           s == CurOf(r)
           e == [inode[s] EXCEPT !.mode = dino[r.ino].mode, !.nlink = dino[r.ino].nlink]
<1>1. /\ pc[p] = "iread" /\ r \in Frame /\ Fits("iread", r) /\ inode \in [Slot -> Entry]
      /\ s \in Slot /\ inode[s] \in Entry /\ Cur(p) = s
      /\ dino[r.ino] \in Record
  <2>1. /\ pc[p] = "iread" /\ r \in Frame /\ Fits("iread", r) /\ inode \in [Slot -> Entry]
    BY Here DEF Iread, At
  <2>2. s \in Slot /\ r.ino \in Ino
    BY <2>1 DEF Fits
  <2> QED
    BY <2>1, <2>2, Holds DEF InodeInv, TypeOK, DiskOK
<1>2. UNCHANGED <<ifreelist, files, may, chan, dlock, silock>> /\ DiskOK' /\ ListOK'
  <2>1. UNCHANGED <<dev, dir, ifreelist, super, files, uinode, may, chan>>
    BY DEF Iread
  <2>2. dlock' \in BOOLEAN
    BY <2>1 DEF dir, InodeInv, TypeOK, ListOK
  <2> QED
    BY <2>1, <2>2, Unmoved, Unlisted DEF dir, super
<1>3. "got" \in Labels /\ "iput" \in Labels
  BY DEF Labels
<1>4. CASE Moves(p, "got", r) /\ inode' = [inode EXCEPT ![s] = e]
  <2>1. e \in Entry /\ e.lock = inode[s].lock /\ e.want = inode[s].want /\ e.count = inode[s].count /\ e.ino = inode[s].ino
    BY <1>1 DEF Entry, Record
  <2>2. Fits("got", r) /\ (InDir("got", r) <=> InDir("iread", r))
    BY <1>1 DEF Fits, InDir
  <2>3. inode' = [inode EXCEPT ![s] = e]
    BY <1>4
  <2> HIDE DEF e
  <2> QED
    BY <1>1, <1>2, <1>3, <1>4, <2>1, <2>2, <2>3, WorksOn DEF Working
<1>5. CASE Moves(p, "iput", Fails(r)) /\ inode' = inode
  <2> DEFINE x == Fails(r)
  <2>1. x \in Frame /\ x.ip = r.ip /\ x.xp = r.xp /\ CurOf(x) = s /\ Fits("iput", x)
        /\ (InDir("iput", x) <=> InDir("iread", r))
    <3>1. r.op \in ByName \cup {"new", "pipe"}
      BY <1>1 DEF Fits
    <3> QED
      BY <1>1, <3>1, FailsTo DEF Fits, InDir, CurOf, ByName
  <2>2. inode' = [inode EXCEPT ![s] = inode[s]]
    BY <1>1, <1>5
  <2>3. Moves(p, "iput", x)
    BY <1>5
  <2> HIDE DEF x
  <2> QED
    BY <1>1, <1>2, <1>3, <2>1, <2>2, <2>3, WorksOn DEF Working
<1>6. \/ Moves(p, "got", r) /\ inode' = [inode EXCEPT ![s] = e]
      \/ Moves(p, "iput", Fails(r)) /\ inode' = inode
  <2>1. u = [u EXCEPT ![p] = r]
    BY DEF InodeInv, TypeOK, ProcsOK
  <2>2. \/ /\ inode' = [inode EXCEPT ![s].mode = dino[r.ino].mode, ![s].nlink = dino[r.ino].nlink]
           /\ Goes(p, "got") /\ UNCHANGED u
        \/ Goes(p, "iput") /\ u' = [u EXCEPT ![p] = Fails(@)] /\ UNCHANGED inode
    BY <1>1 DEF Iread
  <2>3. CASE /\ inode' = [inode EXCEPT ![s].mode = dino[r.ino].mode, ![s].nlink = dino[r.ino].nlink]
             /\ Goes(p, "got") /\ UNCHANGED u
    <3>1. inode' = [inode EXCEPT ![s] = e]
      BY <1>1, <2>3
    <3>2. Moves(p, "got", r)
      BY <2>1, <2>3 DEF Moves, Goes
    <3> HIDE DEF e, s, r
    <3> QED
      BY <3>1, <3>2
  <2>4. CASE Goes(p, "iput") /\ u' = [u EXCEPT ![p] = Fails(@)] /\ UNCHANGED inode
    BY <2>4 DEF Moves, Goes
  <2> QED
    BY <2>2, <2>3, <2>4
<1> QED
  BY <1>4, <1>5, <1>6

(* The steps of a call that goes on as it is, with its entry. *)
LEMMA AsItIs ==
  ASSUME InodeInv, NEW p \in Proc, NEW l \in Labels, Goes(p, l), UNCHANGED u,
         Working(pc[p], u[p]), Working(l, u[p]), Fits(l, u[p]), l # "wdir", pc[p] # "wdir",
         l \in {"itrunc", "iput2"} => inode[CurOf(u[p])].count = 1,
         NEW e \in Entry, inode' = [inode EXCEPT ![CurOf(u[p])] = e],
         e.lock = inode[CurOf(u[p])].lock, e.want = inode[CurOf(u[p])].want,
         e.count = inode[CurOf(u[p])].count, e.ino = inode[CurOf(u[p])].ino,
         UNCHANGED <<ifreelist, files, may, chan, dlock, silock, uinode>>,
         DiskOK', sninode' \in 0 .. NICINOD, sinode' \in [0 .. NICINOD - 1 -> 0 .. NINO]
  PROVE  StepOK(p)
<1>1. Moves(p, l, u[p])
  BY DEF InodeInv, TypeOK, ProcsOK, Moves, Goes
<1>2. u[p] \in Frame /\ CurOf(u[p]) \in Slot
  BY Here DEF Fits, Working
<1>3. InDir(l, u[p]) <=> InDir(pc[p], u[p])
  BY DEF Working, InDir
<1>4. ListOK'
  BY DEF InodeInv, TypeOK, ListOK
<1> QED
  BY <1>1, <1>2, <1>3, <1>4, WorksOn

LEMMA SameList ==
  ASSUME InodeInv, UNCHANGED super
  PROVE  sninode' \in 0 .. NICINOD /\ sinode' \in [0 .. NICINOD - 1 -> 0 .. NINO] /\ silock' = silock
BY DEF InodeInv, TypeOK, ListOK, super

(* What a call knows that works on an entry. *)
LEMMA AtWork ==
  ASSUME InodeInv, NEW p \in Proc, Working(pc[p], u[p])
  PROVE  /\ u[p] \in Frame /\ Fits(pc[p], u[p]) /\ CurOf(u[p]) \in Slot /\ Cur(p) = CurOf(u[p])
         /\ inode \in [Slot -> Entry] /\ inode[CurOf(u[p])] \in Entry
         /\ inode[CurOf(u[p])].lock /\ inode[CurOf(u[p])].count \in Nat \ {0}
         /\ inode[CurOf(u[p])].ino \in Ino
         /\ HoldsInode(p, CurOf(u[p]))
<1>1. /\ u[p] \in Frame /\ Fits(pc[p], u[p]) /\ Cur(p) = CurOf(u[p])
      /\ inode \in [Slot -> Entry]
  BY Here, Holds
<1>2. CurOf(u[p]) \in Slot
  BY <1>1 DEF Fits, Working, CurOf
<1>3. HoldsInode(p, CurOf(u[p])) /\ inode[CurOf(u[p])].lock
  BY <1>2, Holds DEF InodeInv, Locks, EntryLocks
<1>4. inode[CurOf(u[p])].count > 0 /\ inode[CurOf(u[p])].ino # 0
  BY <1>2, <1>3, Referenced
<1>5. inode[CurOf(u[p])] \in Entry
  BY <1>1, <1>2
<1>6. inode[CurOf(u[p])].count \in Nat \ {0} /\ inode[CurOf(u[p])].ino \in Ino
  BY <1>4, <1>5, Numbers DEF Entry, Ino
<1> QED
  BY <1>1, <1>2, <1>3, <1>5, <1>6


LEMMA IputLastOK ==
  ASSUME InodeInv, NEW p \in Proc, IputLast(p)
  PROVE  StepOK(p)
<1> DEFINE s == CurOf(u[p])
           l == IF inode[s].nlink <= 0 THEN "itrunc" ELSE "iput2"
           e == [inode[s] EXCEPT !.lock = TRUE]
<1>1. pc[p] = "iput" /\ UNCHANGED <<dev, dir, ifreelist, super, files, uinode, may, chan, u>>
  BY DEF IputLast, At
<1>2. Working(pc[p], u[p]) /\ Working(l, u[p]) /\ l \in Labels /\ l # "wdir"
  BY <1>1 DEF Working, Labels
<1>3. Goes(p, l) /\ inode[s].count = 1 /\ inode' = [inode EXCEPT ![s] = e]
  BY <1>2, AtWork DEF IputLast
<1>4. e \in Entry /\ e.lock = inode[s].lock /\ e.want = inode[s].want
      /\ e.count = inode[s].count /\ e.ino = inode[s].ino
  BY <1>2, AtWork DEF Entry
<1>5. Fits(l, u[p])
  <2>1. Fits("iput", u[p])
    BY <1>1, Here
  <2> QED
    BY <2>1 DEF Fits
<1>6. DiskOK' /\ sninode' \in 0 .. NICINOD /\ sinode' \in [0 .. NICINOD - 1 -> 0 .. NINO] /\ silock' = silock
  BY <1>1, Unmoved, SameList DEF dir
<1> HIDE DEF e, l
<1> QED
  BY <1>1, <1>2, <1>3, <1>4, <1>5, <1>6, AsItIs DEF dir

LEMMA IfreeList ==
  ASSUME InodeInv, NEW i \in Ino, Ifree(i)
  PROVE  sninode' \in 0 .. NICINOD /\ sinode' \in [0 .. NICINOD - 1 -> 0 .. NINO]
<1>1. /\ sninode \in 0 .. NICINOD /\ sinode \in [0 .. NICINOD - 1 -> 0 .. NINO]
      /\ NICINOD \in Nat \ {0} /\ i \in 0 .. NINO
  BY InodeAssumption, Numbers DEF InodeInv, TypeOK, ListOK
<1>2. CASE silock
  BY <1>1, <1>2 DEF Ifree
<1>3. CASE ~ silock /\ sninode >= NICINOD
  BY <1>1, <1>3 DEF Ifree
<1>4. CASE ~ silock /\ ~ (sninode >= NICINOD)
  <2>1. sninode' = sninode + 1 /\ sinode' = [sinode EXCEPT ![sninode] = i]
    BY <1>4 DEF Ifree
  <2> QED
    BY <1>1, <1>4, <2>1
<1> QED
  BY <1>2, <1>3, <1>4

LEMMA IputFreesOK ==
  ASSUME InodeInv, NEW p \in Proc, IputFrees(p)
  PROVE  StepOK(p)
<1> DEFINE s == CurOf(u[p])
           e == [inode[s] EXCEPT !.mode = 0, !.upd = TRUE]
<1>1. pc[p] = "itrunc" /\ UNCHANGED <<dev, dir, ifreelist, silock, files, uinode, may, chan, u>>
      /\ Goes(p, "iput2")
  BY DEF IputFrees, At
<1>2. Working(pc[p], u[p]) /\ Working("iput2", u[p]) /\ "iput2" \in Labels
  BY <1>1 DEF Working, Labels
<1>3. inode' = [inode EXCEPT ![s] = e] /\ Ifree(inode[s].ino)
  BY <1>2, AtWork DEF IputFrees
<1>4. e \in Entry /\ e.lock = inode[s].lock /\ e.want = inode[s].want
      /\ e.count = inode[s].count /\ e.ino = inode[s].ino
  BY <1>2, AtWork DEF Entry
<1>5. Fits("iput2", u[p]) /\ inode[s].count = 1
  <2>1. Fits("itrunc", u[p]) /\ Last(p)
    BY <1>1, Here
  <2>2. Cur(p) = s
    BY <1>2, AtWork
  <2> QED
    BY <1>1, <2>1, <2>2 DEF Fits, Last
<1>6. DiskOK' /\ sninode' \in 0 .. NICINOD /\ sinode' \in [0 .. NICINOD - 1 -> 0 .. NINO]
  BY <1>1, <1>2, <1>3, AtWork, IfreeList, Unmoved DEF dir
<1> HIDE DEF e
<1> QED
  BY <1>1, <1>2, <1>3, <1>4, <1>5, <1>6, AsItIs DEF dir

LEMMA IupdatOK ==
  ASSUME InodeInv, NEW s \in Slot, Iupdat(s), UNCHANGED <<dent, ddent>>
  PROVE  DiskOK'
<1>1. dino \in [Ino -> Record] /\ disk \in [Ino -> Record] /\ inode[s] \in Entry
  BY DEF InodeInv, TypeOK, DiskOK
<1>2. [mode |-> inode[s].mode, nlink |-> inode[s].nlink] \in Record
  BY <1>1 DEF Entry, Record
<1>3. dino' \in [Ino -> Record]
  BY <1>1, <1>2 DEF Iupdat
<1>4. disk' \in [Ino -> Record]
  BY <1>1, <1>3 DEF Iupdat
<1> QED
  BY <1>3, <1>4 DEF DiskOK, InodeInv, TypeOK

LEMMA CleanEntry ==
  ASSUME NEW e \in Entry
  PROVE  /\ Clean(e) \in Entry /\ Clean(e).lock = e.lock /\ Clean(e).want = e.want
         /\ Clean(e).count = e.count /\ Clean(e).ino = e.ino
BY DEF Clean, Entry

(* What is left of a call when iupdat() has failed. *)
LEMMA ErrsTo ==
  ASSUME NEW r \in Frame, NEW b
  PROVE  LET x == Errs(r, b) IN
         /\ x \in Frame /\ x.op = r.op /\ x.name = r.name /\ x.to = r.to /\ x.ino = r.ino
         /\ x.ip = r.ip /\ x.xp = r.xp /\ x.next = r.next /\ CurOf(x) = CurOf(r)
<1> DEFINE e == r.err \/ b
<1>1. e \in BOOLEAN
  OBVIOUS
<1>2. Errs(r, b) = [r EXCEPT !.err = e]
  BY DEF Errs, Frame
<1> HIDE DEF e
<1> QED
  BY <1>1, <1>2 DEF Frame, CurOf

LEMMA IupdatPutOK ==
  ASSUME InodeInv, NEW p \in Proc, IupdatPut(p)
  PROVE  StepOK(p)
<1> DEFINE s == CurOf(u[p])
<1>1. pc[p] = "iupdat" /\ UNCHANGED <<dir, ifreelist, super, files, uinode, may, chan>>
      /\ Goes(p, "iput")
  BY DEF IupdatPut, At
<1>2. Working(pc[p], u[p]) /\ u[p] \in Frame /\ Fits("iupdat", u[p])
  BY <1>1, Here DEF Working
<1>3. u[p].ip = s
  BY <1>2 DEF Fits, CurOf
<1>8. PICK ok \in BOOLEAN : u' = [u EXCEPT ![p] = Errs(u[p], ~ ok)]
  BY <1>2, <1>3, AtWork DEF IupdatPut, Reads
<1> DEFINE x == Errs(u[p], ~ ok)
<1>9. /\ Moves(p, "iput", x) /\ x \in Frame /\ x.op = u[p].op /\ x.ip = u[p].ip /\ x.xp = u[p].xp
      /\ x.name = u[p].name /\ CurOf(x) = s
  BY <1>1, <1>2, <1>8, ErrsTo DEF Moves, Goes
<1> HIDE DEF x
<1>10. /\ Working("iput", x) /\ "iput" \in Labels /\ Fits("iput", x)
       /\ (InDir("iput", x) <=> InDir(pc[p], u[p]))
  BY <1>1, <1>2, <1>3, <1>9 DEF Working, Labels, Fits, InDir, CurOf, ByName
<1>4. DiskOK' /\ \E e \in {inode[s], Clean(inode[s])} : inode' = [inode EXCEPT ![s] = e]
  <2>1. \/ Iupdat(s) /\ inode' = [inode EXCEPT ![s] = Clean(inode[s])]
        \/ UNCHANGED <<dev, inode>>
    BY <1>3 DEF IupdatPut
  <2>2. UNCHANGED inode => inode' = [inode EXCEPT ![s] = inode[s]]
    BY <1>2, AtWork
  <2> QED
    BY <1>1, <1>2, <2>1, <2>2, AtWork, IupdatOK, Unmoved DEF dir
<1>5. PICK e \in {inode[s], Clean(inode[s])} : inode' = [inode EXCEPT ![s] = e]
  BY <1>4
<1>6. e \in Entry /\ e.lock = inode[s].lock /\ e.want = inode[s].want
      /\ e.count = inode[s].count /\ e.ino = inode[s].ino
  BY <1>2, AtWork, CleanEntry
<1>7. ListOK' /\ silock' = silock
  <2>1. dlock' \in BOOLEAN
    BY <1>1 DEF dir, InodeInv, TypeOK, ListOK
  <2> QED
    BY <1>1, <2>1, SameList, Unlisted DEF dir
<1>11. s \in Slot
  BY <1>2, AtWork
<1> HIDE DEF s
<1> QED
  BY <1>1, <1>2, <1>3, <1>4, <1>5, <1>6, <1>7, <1>9, <1>10, <1>11, WorksOn DEF dir, s

LEMMA LinkOK ==
  ASSUME InodeInv, NEW p \in Proc, Link(p)
  PROVE  StepOK(p)
<1> DEFINE s == CurOf(u[p])
           e == [inode[s] EXCEPT !.nlink = @ + 1, !.upd = TRUE, !.syn = TRUE]
<1>1. pc[p] = "got" /\ u[p].op = "link" /\ Goes(p, "isync")
      /\ UNCHANGED <<dev, dir, ifreelist, super, files, uinode, may, chan, u>>
  BY DEF Link, At
<1>2. Working(pc[p], u[p]) /\ Working("isync", u[p]) /\ "isync" \in Labels /\ u[p].ip = s
  BY <1>1 DEF Working, Labels, CurOf
<1>3. inode' = [inode EXCEPT ![s] = e]
  BY <1>2, AtWork DEF Link
<1>4. e \in Entry /\ e.lock = inode[s].lock /\ e.want = inode[s].want
      /\ e.count = inode[s].count /\ e.ino = inode[s].ino
  <2>1. inode[s] \in Entry
    BY <1>2, AtWork
  <2>2. e = [inode[s] EXCEPT !.mode = inode[s].mode, !.nlink = (inode[s].nlink + 1), !.upd = TRUE, !.syn = TRUE]
    BY <2>1 DEF Entry
  <2>3. inode[s].mode \in {0, 1} /\ (inode[s].nlink + 1) \in Int /\ TRUE \in BOOLEAN
    BY <2>1 DEF Entry
  <2> HIDE DEF e, s
  <2> QED
    BY <2>1, <2>2, <2>3 DEF Entry
<1>5. Fits("isync", u[p])
  <2>1. Fits("got", u[p])
    BY <1>1, Here
  <2> QED
    BY <1>1, <2>1 DEF Fits
<1>6. DiskOK' /\ sninode' \in 0 .. NICINOD /\ sinode' \in [0 .. NICINOD - 1 -> 0 .. NINO] /\ silock' = silock
  BY <1>1, Unmoved, SameList DEF dir
<1> HIDE DEF e
<1> QED
  BY <1>1, <1>2, <1>3, <1>4, <1>5, <1>6, AsItIs DEF dir

LEMMA LinkFailsOK ==
  ASSUME InodeInv, NEW p \in Proc, LinkFails(p)
  PROVE  StepOK(p)
<1> DEFINE s == CurOf(u[p])
<1>1. pc[p] = "got" /\ Goes(p, "iput")
      /\ UNCHANGED <<dev, dir, table, super, files, uinode, may, chan, u>>
  BY DEF LinkFails, At
<1>2. Working(pc[p], u[p]) /\ Working("iput", u[p]) /\ "iput" \in Labels
  BY <1>1 DEF Working, Labels
<1>3. inode' = [inode EXCEPT ![s] = inode[s]] /\ inode[s] \in Entry
  BY <1>1, <1>2, AtWork DEF table
<1>4. Fits("iput", u[p])
  <2>1. Fits("got", u[p])
    BY <1>1, Here
  <2> QED
    BY <2>1 DEF Fits, ByName
<1>5. DiskOK' /\ sninode' \in 0 .. NICINOD /\ sinode' \in [0 .. NICINOD - 1 -> 0 .. NINO] /\ silock' = silock
  BY <1>1, Unmoved, SameList DEF dir
<1> QED
  BY <1>1, <1>2, <1>3, <1>4, <1>5, AsItIs DEF dir, table

LEMMA UnlinkOK ==
  ASSUME InodeInv, NEW p \in Proc, Unlink(p)
  PROVE  StepOK(p)
<1> DEFINE s == CurOf(u[p])
           e == [inode[s] EXCEPT !.nlink = @ - 1, !.upd = TRUE]
<1>1. pc[p] = "got" /\ u[p].op = "unlink" /\ Goes(p, "iput")
      /\ dent' = [dent EXCEPT ![u[p].name] = 0] /\ ddent' = dent'
      /\ UNCHANGED <<dev, dlock, ifreelist, super, files, uinode, may, chan, u>>
  BY DEF Unlink, At
<1>2. Working(pc[p], u[p]) /\ Working("iput", u[p]) /\ "iput" \in Labels /\ u[p].ip = s
  BY <1>1 DEF Working, Labels, CurOf
<1>3. inode' = [inode EXCEPT ![s] = e]
  BY <1>2, AtWork DEF Unlink
<1>4. e \in Entry /\ e.lock = inode[s].lock /\ e.want = inode[s].want
      /\ e.count = inode[s].count /\ e.ino = inode[s].ino
  <2>1. inode[s] \in Entry
    BY <1>2, AtWork
  <2>2. e = [inode[s] EXCEPT !.mode = inode[s].mode, !.nlink = (inode[s].nlink - 1), !.upd = TRUE, !.syn = inode[s].syn]
    BY <2>1 DEF Entry
  <2>3. inode[s].mode \in {0, 1} /\ (inode[s].nlink - 1) \in Int /\ inode[s].syn \in BOOLEAN
    BY <2>1 DEF Entry
  <2> HIDE DEF e, s
  <2> QED
    BY <2>1, <2>2, <2>3 DEF Entry
<1>5. Fits("iput", u[p])
  <2>1. Fits("got", u[p])
    BY <1>1, Here
  <2> QED
    BY <1>1, <2>1 DEF Fits
<1>6. DiskOK' /\ sninode' \in 0 .. NICINOD /\ sinode' \in [0 .. NICINOD - 1 -> 0 .. NINO] /\ silock' = silock
  <2>1. DiskOK'
    BY <1>1, Numbers DEF InodeInv, TypeOK, DiskOK, dev
  <2> QED
    BY <1>1, <2>1, SameList
<1> HIDE DEF e
<1> QED
  BY <1>1, <1>2, <1>3, <1>4, <1>5, <1>6, AsItIs

LEMMA IallocGotOK ==
  ASSUME InodeInv, NEW p \in Proc, IallocGot(p)
  PROVE  StepOK(p)
<1> DEFINE s == CurOf(u[p])
           e == [inode[s] EXCEPT !.mode = 1, !.nlink = IF u[p].op = "new" THEN 1 ELSE 0,
                                 !.upd = TRUE, !.syn = TRUE]
<1>1. pc[p] = "got" /\ u[p].op \in {"new", "pipe"}
      /\ UNCHANGED <<dev, dir, ifreelist, super, files, uinode, may, chan, u>>
  BY DEF IallocGot, At
<1>2. Working(pc[p], u[p]) /\ "isync" \in Labels /\ "iupdat" \in Labels /\ u[p].ip = s
      /\ Working("isync", u[p]) /\ Working("iupdat", u[p])
  BY <1>1 DEF Working, Labels, CurOf
<1>3. \/ Goes(p, "isync") /\ inode' = [inode EXCEPT ![s] = e]
      \/ Goes(p, "iupdat") /\ inode' = [inode EXCEPT ![s] = inode[s]]
  <2>1. s \in Slot /\ inode = [inode EXCEPT ![s] = inode[s]]
    BY <1>2, AtWork DEF InodeInv, TypeOK
  <2> DEFINE changed == [inode EXCEPT ![s].mode = 1, ![s].nlink = IF u[p].op = "new" THEN 1 ELSE 0,
                                     ![s].upd = TRUE, ![s].syn = TRUE]
  <2>2. changed = [inode EXCEPT ![s] = e]
    BY <2>1
  <2>3. \/ Goes(p, "isync") /\ inode' = changed
        \/ Goes(p, "iupdat") /\ inode' = inode
    BY <1>2 DEF IallocGot
  <2> HIDE DEF changed, e
  <2> QED
    BY <2>1, <2>2, <2>3
<1>4. e \in Entry /\ e.lock = inode[s].lock /\ e.want = inode[s].want
      /\ e.count = inode[s].count /\ e.ino = inode[s].ino
  <2>1. inode[s] \in Entry
    BY <1>2, AtWork
  <2>2. e = [inode[s] EXCEPT !.mode = 1, !.nlink = (IF u[p].op = "new" THEN 1 ELSE 0), !.upd = TRUE, !.syn = TRUE]
    BY <2>1 DEF Entry
  <2>3. 1 \in {0, 1} /\ (IF u[p].op = "new" THEN 1 ELSE 0) \in Int /\ TRUE \in BOOLEAN
    BY <2>1 DEF Entry
  <2> HIDE DEF e, s
  <2> QED
    BY <2>1, <2>2, <2>3 DEF Entry
<1>5. Fits("isync", u[p]) /\ Fits("iupdat", u[p])
  <2>1. Fits("got", u[p])
    BY <1>1, Here
  <2> QED
    BY <1>1, <2>1 DEF Fits
<1>6. DiskOK' /\ sninode' \in 0 .. NICINOD /\ sinode' \in [0 .. NICINOD - 1 -> 0 .. NINO] /\ silock' = silock
  BY <1>1, Unmoved, SameList DEF dir
<1>7. inode[s] \in Entry
  BY <1>2, AtWork
<1> HIDE DEF e
<1>8. CASE Goes(p, "isync") /\ inode' = [inode EXCEPT ![s] = e]
  BY <1>1, <1>2, <1>4, <1>5, <1>6, <1>8, AsItIs DEF dir
<1>9. CASE Goes(p, "iupdat") /\ inode' = [inode EXCEPT ![s] = inode[s]]
  BY <1>1, <1>2, <1>5, <1>6, <1>7, <1>9, AsItIs DEF dir
<1> QED
  BY <1>3, <1>8, <1>9


(* The end of iput(): the lock and the reference are given back. *)
LEMMA PutsOK ==
  ASSUME InodeInv, NEW p \in Proc, pc[p] \in {"iput", "iput2"},
         NEW e \in Entry, Prele(CurOf(u[p]), e), e.count = inode[CurOf(u[p])].count - 1,
         NEW r \in Frame, Leaves(p, r),
         r.op = u[p].op, r.name = u[p].name, r.ip = u[p].ip, r.xp = u[p].xp,
         UNCHANGED <<files, may, dlock, silock>>, DiskOK', ListOK',
         OneEntry', FreeList'
  PROVE  StepOK(p)
<1> DEFINE s == CurOf(u[p])
<1>1. Working(pc[p], u[p])
  BY DEF Working
<1>2. /\ s \in Slot /\ HoldsInode(p, s) /\ u[p] \in Frame /\ Fits(pc[p], u[p])
  BY <1>1, AtWork
<1>3. PICK l \in Labels, x \in Frame :
        /\ Moves(p, l, x) /\ Fits(l, x) /\ ~ Working(l, x) /\ l \notin {"search", "itrunc", "iput2"}
        /\ x.ip = IF u[p].op = "link2" THEN u[p].ip ELSE 0
        /\ x.xp = 0
        /\ InDir(l, x) <=> u[p].op \in {"unlink", "new", "no new"}
  <2>1. /\ r.op = "link2" => r.ip \in Slot
        /\ r.xp # 0 => r.op = "link2"
        /\ r.op \in ByName \cup {"new"} => r.name \in Name
    BY <1>2 DEF Fits
  <2> QED
    BY <2>1, LeavesTo
<1>4. /\ pc'[p] = l /\ u'[p] = x /\ pc' \in [Proc -> Labels] /\ u' \in [Proc -> Frame]
      /\ \A q \in Proc : q # p => pc'[q] = pc[q] /\ u'[q] = u[q]
  BY <1>3, MovesTo DEF InodeInv
<1>5. /\ inode' \in [Slot -> Entry]
      /\ ~ inode'[s].lock /\ inode'[s].count = e.count
      /\ \A t \in Slot : t # s => inode'[t] = inode[t]
      /\ chan' \in [Proc -> 0 .. NINODE + 2] /\ Sleepers'
  BY <1>2, PreleOK
<1>6. TypeOK'
  BY <1>4, <1>5 DEF InodeInv, TypeOK, ProcsOK
<1>7. Others(p) /\ CallOK(p)'
  BY <1>3, <1>4 DEF Others, CallOK, Last
<1>8. EntryStep(p)
  <2>1. \A t \in Slot : ~ HoldsInode(p, t)'
    BY <1>3, <1>4, Holds
  <2> QED
    BY <1>2, <1>5, <2>1, EntryKept
<1>9. CountStep(p)
  <2>1. Loses(p, s)
    <3>1. CASE u[p].op = "link2"
      BY <1>2, <1>3, <1>4, <3>1 DEF Loses, CurOf
    <3>2. CASE u[p].op # "link2"
      BY <1>2, <1>3, <1>4, <3>2 DEF Loses, CurOf, Fits
    <3> QED
      BY <3>1, <3>2
  <2> QED
    BY <1>2, <1>5, <2>1, CountLoses
<1>10. DirStep(p)
  <2>1. InDir(pc[p], u[p]) <=> u[p].op \in {"unlink", "new", "no new"}
    BY DEF InDir
  <2> QED
    BY <1>3, <1>4, <2>1, Holds, DirQuiet
<1>11. ListStep(p)
  BY <1>3, <1>4, ListQuiet
<1> QED
  BY <1>5, <1>6, <1>7, <1>8, <1>9, <1>10, <1>11 DEF StepOK

LEMMA IputCountOK ==
  ASSUME InodeInv, NEW p \in Proc, IputCount(p)
  PROVE  StepOK(p)
<1> DEFINE s == CurOf(u[p])
           e == [inode[s] EXCEPT !.count = @ - 1]
<1>1. pc[p] = "iput" /\ UNCHANGED <<dev, dir, ifreelist, super, files, uinode, may>>
      /\ Leaves(p, u[p])
  BY DEF IputCount, At
<1>2. Working(pc[p], u[p])
  BY <1>1 DEF Working
<1>3. inode[s].count > 1 /\ Prele(s, e) /\ inode[s] \in Entry /\ s \in Slot
  BY <1>2, AtWork DEF IputCount
<1>4. e \in Entry /\ e.count = inode[s].count - 1 /\ e.count # 0 /\ e.ino = inode[s].ino
  <2>1. inode[s].count - 1 \in Nat /\ inode[s].count - 1 # 0
    BY <1>3 DEF Entry
  <2> HIDE DEF s
  <2> QED
    BY <1>3, <2>1 DEF Entry
<1> HIDE DEF e
<1>5. OneEntry' /\ FreeList'
  <2>1. /\ inode'[s].count = e.count /\ inode'[s].ino = e.ino
        /\ \A t \in Slot : t # s => inode'[t] = inode[t]
    BY <1>3, <1>4, PreleOK
  <2>2. inode[s].count # 0 /\ inode'[s].count # 0 /\ inode'[s].ino = inode[s].ino
    BY <1>3, <1>4, <2>1 DEF Entry
  <2> HIDE DEF s
  <2>3. SameEntries
    BY <1>1, <2>1, <2>2 DEF SameEntries
  <2> QED
    BY <2>3, StepEntries DEF InodeInv
<1>6. DiskOK' /\ ListOK'
  <2>1. dlock' \in BOOLEAN
    BY <1>1 DEF dir, InodeInv, TypeOK, ListOK
  <2> QED
    BY <1>1, <2>1, Unmoved, Unlisted DEF dir
<1> QED
  BY <1>1, <1>3, <1>4, <1>5, <1>6, Here, PutsOK DEF dir, super

(* The entry is put in front of the free list. *)
LEMMA IputReleaseOK ==
  ASSUME InodeInv, NEW p \in Proc, IputRelease(p)
  PROVE  StepOK(p)
<1> DEFINE s == CurOf(u[p])
           e == [Clean(inode[s]) EXCEPT !.ino = 0, !.count = 0]
<1>1. pc[p] = "iput2" /\ UNCHANGED <<dir, super, files, uinode, may>>
  BY DEF IputRelease, At
<1>2. Working(pc[p], u[p])
  BY <1>1 DEF Working
<1>9. PICK ok \in BOOLEAN : Leaves(p, Errs(u[p], inode[s].upd /\ ~ ok))
  BY <1>2, AtWork DEF IputRelease, Reads
<1> DEFINE r == Errs(u[p], inode[s].upd /\ ~ ok)
<1>10. r \in Frame /\ r.op = u[p].op /\ r.name = u[p].name /\ r.ip = u[p].ip /\ r.xp = u[p].xp
  BY Here, ErrsTo
<1> HIDE DEF r
<1>3. /\ Prele(s, e) /\ inode[s] \in Entry /\ s \in Slot /\ ifreelist' = <<s>> \o ifreelist
      /\ inode[s].count = 1
      /\ Iupdat(s) \/ UNCHANGED dev
  <2>1. Cur(p) = s /\ inode[s] \in Entry /\ s \in Slot
    BY <1>2, AtWork
  <2>2. inode[s].count = 1
    BY <1>1, <2>1, Here DEF Last
  <2> QED
    BY <2>1, <2>2 DEF IputRelease
<1>4. e \in Entry /\ e.count = 0 /\ e.ino = 0
  <2>1. Clean(inode[s]) \in Entry
    BY <1>3, CleanEntry
  <2> QED
    BY <2>1, Numbers DEF Entry
<1> HIDE DEF e
<1>5. /\ inode'[s].count = 0 /\ inode'[s].ino = 0
      /\ \A t \in Slot : t # s => inode'[t] = inode[t]
  BY <1>3, <1>4, PreleOK
<1>6. OneEntry'
  BY <1>5 DEF InodeInv, OneEntry
<1>7. FreeList'
  <2> HIDE DEF s
  <2>1. ifreelist \in Seq(Slot) /\ FreeList
    BY DEF InodeInv, FreeList
  <2>2. /\ ifreelist' \in Seq(Slot) /\ Len(ifreelist') = Len(ifreelist) + 1
        /\ ifreelist'[1] = s
        /\ \A k \in 1 .. Len(ifreelist) : ifreelist'[k + 1] = ifreelist[k]
        /\ \A k \in 1 .. Len(ifreelist') : k # 1 => k - 1 \in 1 .. Len(ifreelist) /\ ifreelist'[k] = ifreelist[k - 1]
    BY <1>3, <2>1
  <2>3. \A k \in 1 .. Len(ifreelist) : ifreelist[k] # s
    BY <1>3, <2>1 DEF FreeList
  <2>4. ASSUME NEW i \in 1 .. Len(ifreelist'), NEW j \in 1 .. Len(ifreelist'), ifreelist'[i] = ifreelist'[j]
        PROVE  i = j
    <3>1. CASE i = 1 \/ j = 1
      BY <2>2, <2>3, <2>4, <3>1
    <3>2. CASE i # 1 /\ j # 1
      <4>1. i - 1 = j - 1
        <5>1. /\ i - 1 \in 1 .. Len(ifreelist) /\ j - 1 \in 1 .. Len(ifreelist)
              /\ ifreelist[i - 1] = ifreelist[j - 1]
          BY <2>2, <2>4, <3>2
        <5> QED
          BY <2>1, <5>1 DEF FreeList
      <4> QED
        BY <4>1
    <3> QED
      BY <3>1, <3>2
  <2>5. ASSUME NEW t \in Slot
        PROVE  inode'[t].count = 0 <=> \E k \in 1 .. Len(ifreelist') : ifreelist'[k] = t
    <3>1. CASE t = s
      <4>1. 1 \in 1 .. Len(ifreelist')
        BY <2>1, <2>2
      <4> QED
        BY <1>5, <2>2, <3>1, <4>1
    <3>2. CASE t # s
      <4>1. inode'[t].count = 0 <=> \E k \in 1 .. Len(ifreelist) : ifreelist[k] = t
        BY <1>5, <2>1, <3>2 DEF FreeList
      <4>2. (\E k \in 1 .. Len(ifreelist) : ifreelist[k] = t)
              => \E k \in 1 .. Len(ifreelist') : ifreelist'[k] = t
        <5>1. \A k \in 1 .. Len(ifreelist) : k + 1 \in 1 .. Len(ifreelist')
          BY <2>1, <2>2
        <5> QED
          BY <2>2, <5>1
      <4>3. (\E k \in 1 .. Len(ifreelist') : ifreelist'[k] = t)
              => \E k \in 1 .. Len(ifreelist) : ifreelist[k] = t
        BY <2>2, <3>2
      <4> QED
        BY <4>1, <4>2, <4>3
    <3> QED
      BY <3>1, <3>2
  <2> QED
    BY <2>2, <2>4, <2>5 DEF FreeList
<1>8. DiskOK' /\ ListOK'
  <2>1. dlock' \in BOOLEAN
    BY <1>1 DEF dir, InodeInv, TypeOK, ListOK
  <2> QED
    BY <1>1, <1>3, <2>1, Unmoved, IupdatOK, Unlisted DEF dir
<1> QED
  BY <1>1, <1>3, <1>4, <1>6, <1>7, <1>8, <1>9, <1>10, PutsOK DEF dir, super, r

(* The table is full: iget() gives nothing. *)
LEMMA IgetNoneOK ==
  ASSUME InodeInv, NEW p \in Proc, IgetNone(p)
  PROVE  StepOK(p)
<1> DEFINE r == u[p]
           f == Fails(r)
<1>1. /\ pc[p] = "iget" /\ r \in Frame /\ Fits("iget", r)
      /\ UNCHANGED <<dev, dir, table, super, files, uinode, may, chan>> /\ Leaves(p, f)
  BY Here DEF IgetNone, At
<1>2. /\ f \in Frame /\ f.ip = r.ip /\ f.xp = r.xp /\ f.name = r.name
      /\ f.op = CASE r.op = "new" -> "no new" [] r.op = "pipe" -> "no pipe" [] OTHER -> r.op
  BY <1>1, FailsTo
<1>3. /\ f.op = "link2" <=> r.op = "link2"
      /\ f.op \in {"unlink", "new", "no new"} <=> r.op \in {"unlink", "new"}
      /\ f.op \in ByName \cup {"new"} => r.op \in ByName \cup {"new"}
  BY <1>1, <1>2 DEF Fits, ByName
<1> HIDE DEF f
<1>4. /\ f.op = "link2" => f.ip \in Slot
      /\ f.xp # 0 => f.op = "link2"
      /\ f.op \in ByName \cup {"new"} => f.name \in Name
  BY <1>1, <1>2, <1>3 DEF Fits
<1>5. PICK l \in Labels, x \in Frame :
        /\ Moves(p, l, x) /\ Fits(l, x) /\ ~ Working(l, x) /\ l \notin {"search", "itrunc", "iput2"}
        /\ x.ip = IF f.op = "link2" THEN f.ip ELSE 0
        /\ x.xp = 0
        /\ InDir(l, x) <=> f.op \in {"unlink", "new", "no new"}
  BY <1>1, <1>2, <1>4, LeavesTo
<1>6. x.ip = r.ip /\ x.xp = r.xp
  BY <1>1, <1>2, <1>3, <1>5 DEF Fits, CurOf
<1>7. InDir("iget", r) <=> InDir(l, x)
  BY <1>1, <1>3, <1>5 DEF InDir, Fits, ByName
<1>8. pc'[p] = l /\ u'[p] = x
  BY <1>5, MovesTo DEF InodeInv
<1>9. DirStep(p) /\ ListStep(p)
  BY <1>1, <1>5, <1>7, <1>8, Holds, DirQuiet, ListQuiet DEF dir, super
<1>10. Sleepers' /\ chan' \in [Proc -> 0 .. NINODE + 2]
  BY <1>1, SleepersKept, Here DEF table, dir, super
<1>11. DiskOK' /\ ListOK'
  <2>1. dlock' \in BOOLEAN
    BY <1>1 DEF dir, InodeInv, TypeOK, ListOK
  <2> QED
    BY <1>1, <2>1, Unmoved, Unlisted DEF dir
<1> QED
  BY <1>1, <1>5, <1>6, <1>9, <1>10, <1>11, PlainOK DEF Working, table


LEMMA IgetNewOK ==
  ASSUME InodeInv, NEW p \in Proc, IgetNew(p)
  PROVE  StepOK(p)
<1> DEFINE r == u[p]
           s == Head(ifreelist)
           x == WithCur(r, s)
           e == [inode[s] EXCEPT !.ino = r.ino, !.lock = TRUE, !.count = @ + 1]
<1>1. /\ pc[p] = "iget" /\ r \in Frame /\ Fits("iget", r) /\ inode \in [Slot -> Entry]
      /\ UNCHANGED <<dev, dir, super, files, uinode, may, chan>>
      /\ ifreelist' = Tail(ifreelist) /\ ifreelist # <<>>
      /\ \A t \in Slot : inode[t].ino # r.ino
      /\ r.ino \in Ino
  <2>1. /\ pc[p] = "iget" /\ r \in Frame /\ Fits("iget", r) /\ inode \in [Slot -> Entry]
    BY Here DEF IgetNew, At
  <2> QED
    BY <2>1 DEF IgetNew, SlotsOf, Fits
<1>2. /\ ifreelist \in Seq(Slot) /\ FreeList /\ s \in Slot /\ 1 \in 1 .. Len(ifreelist) /\ s = ifreelist[1]
  BY <1>1, HeadTailProperties DEF InodeInv, FreeList
<1>3. inode[s].count = 0 /\ inode[s] \in Entry /\ ~ inode[s].lock
  <2>1. inode[s].count = 0
    BY <1>2 DEF FreeList
  <2>2. ~ inode[s].lock
    BY <1>2, <2>1, Referenced
  <2> QED
    BY <1>1, <1>2, <2>1, <2>2
<1>4. Moves(p, "iread", x) /\ inode' = [inode EXCEPT ![s] = e]
  BY <1>1, <1>2 DEF IgetNew, Moves, Goes
<1>5. /\ x \in Frame /\ CurOf(x) = s /\ x.op = r.op /\ x.name = r.name /\ x.to = r.to /\ x.err = r.err
      /\ x.ino = r.ino
      /\ \/ r.op # "link2" /\ r.ip = 0 /\ x.ip = s /\ x.xp = r.xp
         \/ r.op = "link2" /\ r.xp = 0 /\ x.xp = s /\ x.ip = r.ip
  BY <1>1, <1>2, CurTaken DEF Fits
<1> HIDE DEF x
<1>6. /\ pc'[p] = "iread" /\ u'[p] = x /\ pc' \in [Proc -> Labels] /\ u' \in [Proc -> Frame]
      /\ \A q \in Proc : q # p => pc'[q] = pc[q] /\ u'[q] = u[q]
  BY <1>4, <1>5, MovesTo DEF InodeInv, Labels
<1>7. e \in Entry /\ e.lock /\ e.count = 1 /\ e.ino = r.ino
  <2>1. r.ino \in 0 .. NINO /\ inode[s].count + 1 = 1
    BY <1>1, <1>3, Numbers
  <2>2. e = [inode[s] EXCEPT !.ino = r.ino, !.lock = TRUE, !.count = 1]
    BY <1>3, <2>1
  <2>3. inode[s] \in Entry
    BY <1>3
  <2> HIDE DEF s, r, e
  <2> QED
    BY <2>1, <2>2, <2>3 DEF Entry
<1> HIDE DEF e
<1>8. /\ inode' \in [Slot -> Entry]
      /\ inode'[s].lock /\ inode'[s].count = 1 /\ inode'[s].ino = r.ino
      /\ \A t \in Slot : t # s => inode'[t] = inode[t]
  BY <1>1, <1>2, <1>4, <1>7
<1>9. TypeOK'
  BY <1>1, <1>6, <1>8 DEF InodeInv, TypeOK, DiskOK, ListOK, ProcsOK, dev, dir, super
<1>10. Others(p) /\ CallOK(p)'
  <2>1. Fits("iread", x)
    BY <1>1, <1>2, <1>5 DEF Fits, ByName
  <2> QED
    BY <1>1, <1>6, <2>1 DEF Others, CallOK, Last
<1> HIDE DEF s
<1>11. EntryStep(p)
  BY <1>1, <1>2, <1>3, <1>5, <1>6, <1>8, EntryTaken DEF Working
<1>12. CountStep(p)
  <2>1. inode'[s].count = inode[s].count + 1
    BY <1>3, <1>8
  <2> QED
    BY <1>1, <1>2, <1>5, <1>6, <1>8, <2>1, CountGains DEF Gains
<1>13. OneEntry'
  <2>1. r.ino # 0
    BY <1>1, Numbers
  <2> QED
    BY <1>1, <1>2, <1>8, <2>1 DEF InodeInv, OneEntry
<1>14. FreeList'
  <2>1. /\ ifreelist' \in Seq(Slot) /\ Len(ifreelist') = Len(ifreelist) - 1
        /\ \A k \in 1 .. Len(ifreelist') : ifreelist'[k] = ifreelist[k + 1] /\ k + 1 \in 1 .. Len(ifreelist)
        /\ \A k \in 1 .. Len(ifreelist) : k # 1 => k - 1 \in 1 .. Len(ifreelist') /\ ifreelist'[k - 1] = ifreelist[k]
    <3>1. /\ ifreelist' \in Seq(Slot) /\ Len(ifreelist') = Len(ifreelist) - 1
          /\ \A k \in 1 .. Len(ifreelist') : ifreelist'[k] = ifreelist[k + 1]
      BY <1>1, <1>2, HeadTailProperties
    <3>2. Len(ifreelist) \in Nat \ {0}
      BY <1>1, <1>2
    <3> QED
      BY <3>1, <3>2
  <2>2. ASSUME NEW i \in 1 .. Len(ifreelist'), NEW j \in 1 .. Len(ifreelist'), ifreelist'[i] = ifreelist'[j]
        PROVE  i = j
    <3>1. i + 1 = j + 1
      BY <1>2, <2>1, <2>2 DEF FreeList
    <3> QED
      BY <3>1
  <2>3. ASSUME NEW t \in Slot
        PROVE  inode'[t].count = 0 <=> \E k \in 1 .. Len(ifreelist') : ifreelist'[k] = t
    <3>1. CASE t = s
      <4>1. ASSUME NEW k \in 1 .. Len(ifreelist'), ifreelist'[k] = s PROVE FALSE
        <5>1. k + 1 = 1
          BY <1>2, <2>1, <4>1 DEF FreeList
        <5> QED
          BY <5>1
      <4> QED
        BY <1>8, <3>1, <4>1
    <3>2. CASE t # s
      <4>1. inode'[t].count = 0 <=> \E k \in 1 .. Len(ifreelist) : ifreelist[k] = t
        BY <1>2, <1>8, <3>2 DEF FreeList
      <4>2. (\E k \in 1 .. Len(ifreelist') : ifreelist'[k] = t)
              => \E k \in 1 .. Len(ifreelist) : ifreelist[k] = t
        BY <2>1
      <4>3. (\E k \in 1 .. Len(ifreelist) : ifreelist[k] = t)
              => \E k \in 1 .. Len(ifreelist') : ifreelist'[k] = t
        BY <1>2, <2>1, <3>2
      <4> QED
        BY <4>1, <4>2, <4>3
    <3> QED
      BY <3>1, <3>2
  <2> QED
    BY <2>1, <2>2, <2>3 DEF FreeList
<1>15. DirStep(p) /\ ListStep(p)
  <2>1. InDir("iget", r) <=> InDir("iread", x)
    BY <1>5 DEF InDir
  <2> QED
    BY <1>1, <1>6, <2>1, Holds, DirQuiet, ListQuiet DEF dir, super
<1>16. Sleepers'
  BY <1>1, <1>2, <1>3, <1>8, SleepersKept DEF dir, super
<1> QED
  BY <1>9, <1>10, <1>11, <1>12, <1>13, <1>14, <1>15, <1>16 DEF StepOK

(* A call locks the entry it has a reference to already. *)
LEMMA RelockOK ==
  ASSUME InodeInv, NEW p \in Proc, pc[p] \in {"out", "closef"},
         Goes(p, "iput"), UNCHANGED u,
         NEW e \in Entry, inode' = [inode EXCEPT ![u[p].ip] = e], ~ inode[u[p].ip].lock,
         e.lock, e.count = inode[u[p].ip].count, e.ino = inode[u[p].ip].ino,
         UNCHANGED <<dev, dir, ifreelist, super, files, uinode, may, chan>>
  PROVE  StepOK(p)
<1> DEFINE s == u[p].ip
<1>1. /\ u[p] \in Frame /\ Fits(pc[p], u[p]) /\ inode \in [Slot -> Entry]
  BY Here
<1>2. CurOf(u[p]) = s /\ s \in Slot /\ u[p].op \in {"out", "close"}
  BY <1>1 DEF Fits, CurOf
<1>3. /\ pc'[p] = "iput" /\ u'[p] = u[p] /\ pc' \in [Proc -> Labels] /\ u' \in [Proc -> Frame]
      /\ \A q \in Proc : q # p => pc'[q] = pc[q] /\ u'[q] = u[q]
  BY DEF InodeInv, TypeOK, ProcsOK, Goes, Labels
<1>4. /\ inode' \in [Slot -> Entry]
      /\ inode'[s].lock /\ inode'[s].count = inode[s].count /\ inode'[s].ino = inode[s].ino
      /\ \A t \in Slot : t # s => inode'[t] = inode[t]
  BY <1>1, <1>2
<1>5. TypeOK'
  BY <1>3, <1>4 DEF InodeInv, TypeOK, DiskOK, ListOK, ProcsOK, dev, dir, super
<1>6. Others(p) /\ CallOK(p)'
  <2>1. Fits("iput", u[p])
    BY <1>1, <1>2 DEF Fits
  <2> QED
    BY <1>3, <2>1 DEF Others, CallOK, Last
<1>7. EntryStep(p)
  BY <1>2, <1>3, <1>4, EntryTaken DEF Working
<1>8. CountStep(p)
  <2>1. \A t \in Slot : Refs(p, t)' = Refs(p, t)
    BY <1>3, CountSame
  <2>2. \A t \in Slot : Refs(p, t) \in Int /\ inode[t].count \in Int /\ inode'[t].count = inode[t].count
    BY <1>1, <1>4, RefsNat, Numbers DEF InodeInv, Entry
  <2> QED
    BY <2>1, <2>2 DEF CountStep
<1>9. OneEntry' /\ FreeList'
  <2>1. SameEntries
    BY <1>4 DEF SameEntries
  <2> QED
    BY <2>1, StepEntries DEF InodeInv
<1>10. DirStep(p) /\ ListStep(p)
  <2>1. InDir(pc[p], u[p]) <=> InDir("iput", u[p])
    BY <1>2 DEF InDir
  <2> QED
    BY <1>3, <2>1, Holds, DirQuiet, ListQuiet DEF dir, super
<1>11. Sleepers'
  BY <1>2, <1>4, SleepersKept DEF dir, super
<1> QED
  BY <1>5, <1>6, <1>7, <1>8, <1>9, <1>10, <1>11 DEF StepOK

LEMMA ClosefOK ==
  ASSUME InodeInv, NEW p \in Proc, Closef(p)
  PROVE  StepOK(p)
<1> DEFINE s == u[p].ip
<1>1. /\ pc[p] = "closef" /\ Fits("closef", u[p]) /\ inode \in [Slot -> Entry]
      /\ UNCHANGED <<dev, dir, ifreelist, super, files, uinode, may, u>>
  BY Here DEF Closef, At
<1>2. s \in Slot /\ inode[s] \in Entry
  BY <1>1 DEF Fits, CurOf
<1>3. CASE inode[s].lock
  <2>1. inode' = [inode EXCEPT ![s].want = TRUE] /\ Sleeps(p, s) /\ UNCHANGED pc
    BY <1>3 DEF Closef
  <2> QED
    BY <1>1, <1>2, <1>3, <2>1, WaitsOK DEF dir
<1>4. CASE ~ inode[s].lock
  <2> DEFINE e == [inode[s] EXCEPT !.lock = TRUE]
  <2>1. inode' = [inode EXCEPT ![s] = e] /\ Goes(p, "iput") /\ UNCHANGED chan
    BY <1>2, <1>4 DEF Closef
  <2>2. e \in Entry /\ e.lock /\ e.count = inode[s].count /\ e.ino = inode[s].ino
    BY <1>2 DEF Entry
  <2> HIDE DEF e
  <2> QED
    BY <1>1, <1>4, <2>1, <2>2, RelockOK
<1> QED
  BY <1>3, <1>4

LEMMA LinkOutOK ==
  ASSUME InodeInv, NEW p \in Proc, LinkOut(p)
  PROVE  StepOK(p)
<1> DEFINE s == u[p].ip
<1>1. /\ pc[p] = "out" /\ Fits("out", u[p]) /\ inode \in [Slot -> Entry]
      /\ UNCHANGED <<dev, dir, ifreelist, super, files, uinode, may, u>>
  BY Here DEF LinkOut, At
<1>2. s \in Slot /\ inode[s] \in Entry
  BY <1>1 DEF Fits, CurOf
<1>3. CASE inode[s].lock
  <2>1. inode' = [inode EXCEPT ![s].want = TRUE] /\ Sleeps(p, s) /\ UNCHANGED pc
    BY <1>3 DEF LinkOut
  <2> QED
    BY <1>1, <1>2, <1>3, <2>1, WaitsOK DEF dir
<1>4. CASE ~ inode[s].lock
  <2> DEFINE n == IF u[p].err THEN inode[s].nlink - 1 ELSE inode[s].nlink
             c == inode[s].upd \/ u[p].err
             e == [inode[s] EXCEPT !.lock = TRUE, !.nlink = n, !.upd = c]
  <2>1. inode' = [inode EXCEPT ![s] = e] /\ Goes(p, "iput") /\ UNCHANGED chan
    BY <1>2, <1>4 DEF LinkOut
  <2>2. n \in Int /\ c \in BOOLEAN
    <3>1. inode[s].nlink \in Int /\ inode[s].upd \in BOOLEAN /\ u[p].err \in BOOLEAN
      BY <1>2, Here DEF Entry, Frame
    <3> QED
      BY <3>1
  <2> HIDE DEF n, c
  <2>3. e \in Entry /\ e.lock /\ e.count = inode[s].count /\ e.ino = inode[s].ino
    BY <1>2, <2>2 DEF Entry
  <2> HIDE DEF e
  <2> QED
    BY <1>1, <1>4, <2>1, <2>3, RelockOK
<1> QED
  BY <1>3, <1>4


LEMMA SyncNextOK ==
  ASSUME InodeInv, NEW p \in Proc, SyncNext(p)
  PROVE  StepOK(p)
<1> DEFINE r    == u[p]
           rest == {s \in Slot : s >= r.next /\ ToSync(s)}
           s    == Nth(rest, 1)
<1>1. /\ pc[p] = "sync" /\ r \in Frame /\ Fits("sync", r) /\ inode \in [Slot -> Entry]
      /\ UNCHANGED <<dev, dir, ifreelist, super, files, chan, may>>
  BY Here DEF SyncNext, At
<1>2. CASE rest # {}
  <2> DEFINE e == [inode[s] EXCEPT !.lock = TRUE, !.count = @ + 1]
             x == [r EXCEPT !.ip = s, !.next = s + 1]
  <2>1. s \in rest
    <3>1. rest \in SUBSET Nat /\ IsFiniteSet(rest)
      <4>1. IsFiniteSet(Slot)
        BY Numbers, FS_Interval DEF Slot
      <4> QED
        BY <4>1, Numbers, FS_Subset
    <3> HIDE DEF rest
    <3>2. 1 \in 1 .. Cardinality(rest)
      BY <1>2, <3>1, FS_EmptySet, FS_CardinalityType
    <3> QED
      BY <3>1, <3>2, NthIn
  <2>2. s \in Slot /\ ~ inode[s].lock /\ inode[s].count # 0 /\ inode[s] \in Entry
    BY <1>1, <2>1 DEF ToSync
  <2>3. inode' = [inode EXCEPT ![s] = e] /\ Moves(p, "iupdat", x) /\ UNCHANGED uinode
    <3> HIDE DEF rest
    <3>1. /\ inode' = [inode EXCEPT ![s].lock = TRUE, ![s].count = @ + 1]
          /\ Goes(p, "iupdat")
          /\ u' = [u EXCEPT ![p].ip = s, ![p].next = s + 1]
          /\ UNCHANGED uinode
      BY <1>2 DEF SyncNext, rest
    <3> HIDE DEF s
    <3>2. inode' = [inode EXCEPT ![s] = e]
      BY <1>1, <2>2, <3>1
    <3>3. u' = [u EXCEPT ![p] = x]
      BY <3>1 DEF InodeInv, TypeOK, ProcsOK
    <3> QED
      BY <3>1, <3>2, <3>3 DEF Moves, Goes
  <2> HIDE DEF s
  <2>4. e \in Entry /\ e.lock /\ e.count = inode[s].count + 1 /\ e.ino = inode[s].ino
    <3>1. inode[s].count + 1 \in Nat
      BY <2>2 DEF Entry
    <3> QED
      BY <2>2, <3>1 DEF Entry
  <2>5. x \in Frame /\ x.ip = s /\ x.xp = 0 /\ x.op = "sync" /\ r.ip = 0 /\ r.xp = 0 /\ r.op = "sync"
    <3>1. s + 1 \in Nat /\ s \in 0 .. NINODE
      BY <2>2, Numbers
    <3>2. r.ip = 0 /\ r.xp = 0 /\ r.op = "sync"
      BY <1>1 DEF Fits, CurOf
    <3> QED
      BY <1>1, <3>1, <3>2 DEF Frame
  <2> HIDE DEF e, x
  <2>6. /\ pc'[p] = "iupdat" /\ u'[p] = x /\ pc' \in [Proc -> Labels] /\ u' \in [Proc -> Frame]
        /\ \A q \in Proc : q # p => pc'[q] = pc[q] /\ u'[q] = u[q]
    BY <2>3, <2>5, MovesTo DEF InodeInv, Labels
  <2>7. /\ inode' \in [Slot -> Entry]
        /\ inode'[s].lock /\ inode'[s].count = inode[s].count + 1 /\ inode'[s].ino = inode[s].ino
        /\ \A t \in Slot : t # s => inode'[t] = inode[t]
    BY <1>1, <2>2, <2>3, <2>4
  <2>8. TypeOK'
    BY <1>1, <2>3, <2>6, <2>7 DEF InodeInv, TypeOK, DiskOK, ListOK, ProcsOK, dev, dir, super
  <2>9. Others(p) /\ CallOK(p)'
    <3>1. Fits("iupdat", x)
      BY <2>2, <2>5 DEF Fits, CurOf, ByName
    <3> QED
      BY <1>1, <2>6, <3>1 DEF Others, CallOK, Last
  <2>10. EntryStep(p)
    BY <1>1, <2>2, <2>5, <2>6, <2>7, EntryTaken DEF Working, CurOf
  <2>11. CountStep(p)
    BY <1>1, <2>2, <2>5, <2>6, <2>7, CountGains DEF Gains
  <2>12. OneEntry' /\ FreeList'
    <3>1. inode'[s].count # 0
      BY <2>2, <2>7 DEF Entry
    <3>2. SameEntries
      BY <1>1, <2>2, <2>7, <3>1 DEF SameEntries
    <3> QED
      BY <3>2, StepEntries DEF InodeInv
  <2>13. DirStep(p) /\ ListStep(p)
    <3>1. InDir("sync", r) <=> InDir("iupdat", x)
      BY <2>5 DEF InDir
    <3> QED
      BY <1>1, <2>6, <3>1, Holds, DirQuiet, ListQuiet DEF dir, super
  <2>14. Sleepers'
    BY <1>1, <2>2, <2>7, SleepersKept DEF dir, super
  <2> QED
    BY <2>8, <2>9, <2>10, <2>11, <2>12, <2>13, <2>14 DEF StepOK
<1>3. CASE rest = {}
  <2>1. uinode' = FALSE /\ Moves(p, "user", Idle) /\ UNCHANGED inode
    BY <1>3 DEF SyncNext, Returns, Goes, Moves
  <2>2. Fits("user", Idle) /\ "user" \in Labels /\ ~ InDir("user", Idle)
    BY IdleFrame DEF Fits, CurOf, Labels, InDir, ByName
  <2>3. r.ip = 0 /\ r.xp = 0 /\ ~ InDir("sync", r)
    BY <1>1 DEF Fits, CurOf, InDir
  <2>4. pc'[p] = "user" /\ u'[p] = Idle
    BY <2>1, <2>2, IdleFrame, MovesTo DEF InodeInv
  <2>5. DirStep(p) /\ ListStep(p)
    BY <1>1, <2>2, <2>3, <2>4, Holds, DirQuiet, ListQuiet DEF dir, super
  <2>6. Sleepers' /\ chan' \in [Proc -> 0 .. NINODE + 2]
    BY <1>1, <2>1, SleepersKept, Here DEF dir, super
  <2>7. DiskOK' /\ ListOK'
    BY <1>1, <2>1 DEF InodeInv, TypeOK, DiskOK, ListOK, dev, dir, super
  <2> QED
    BY <1>1, <2>1, <2>2, <2>3, <2>5, <2>6, <2>7, IdleFrame, PlainOK DEF Working
<1> QED
  BY <1>2, <1>3

------------------------------------------------------------------------------
(* A call returns, or goes on, that works on no entry and has none. *)
LEMMA PlainMove ==
  ASSUME InodeInv, NEW p \in Proc, NEW l \in Labels, NEW x \in Frame, Moves(p, l, x),
         ~ Working(pc[p], u[p]), ~ Working(l, x), Fits(l, x), l \notin {"itrunc", "iput2", "search"},
         pc[p] # "search", InDir(l, x) <=> InDir(pc[p], u[p]),
         x.ip = u[p].ip, x.xp = u[p].xp,
         UNCHANGED <<dev, dir, table, sninode, sinode, silock, files, may, chan>>, uinode' \in BOOLEAN
  PROVE  StepOK(p)
<1>1. pc'[p] = l /\ u'[p] = x
  BY MovesTo DEF InodeInv
<1>2. DirStep(p) /\ ListStep(p)
  BY <1>1, Holds, DirQuiet, ListQuiet DEF dir
<1>3. Sleepers' /\ chan' \in [Proc -> 0 .. NINODE + 2]
  BY SleepersKept, Here DEF table, dir
<1>4. DiskOK' /\ ListOK'
  BY DEF InodeInv, TypeOK, DiskOK, ListOK, dev, dir
<1> QED
  BY <1>2, <1>3, <1>4, PlainOK DEF table

LEMMA CallsOK ==
  ASSUME InodeInv, NEW p \in Proc, NEW op \in Calls, NEW n \in Name, Call(p, op, n)
  PROVE  StepOK(p)
<1>1. PICK t \in {0} \cup Name :
        /\ op = "link" => t # 0
        /\ Begins(p, [Idle EXCEPT !.op = op, !.name = n, !.to = t], "namei")
  BY DEF Call
<1> DEFINE x == [Idle EXCEPT !.op = op, !.name = n, !.to = t]
<1>2. op \in {"open", "creat", "unlink", "link"} /\ UNCHANGED <<files, uinode, may>>
  BY DEF Call
<1>3. pc[p] = "user" /\ Moves(p, "namei", x) /\ UNCHANGED <<dev, dir, table, super, chan>>
  BY <1>1 DEF Begins, At, Goes, Moves
<1>4. x \in Frame /\ x.op = op /\ x.name = n /\ x.to = t /\ x.ip = 0 /\ x.xp = 0 /\ ~ x.err
  <2>1. op \in Ops /\ n \in {0} \cup Name
    BY <1>2 DEF Ops, ByName
  <2>2. 1 \in Nat
    OBVIOUS
  <2> QED
    BY <2>1, <2>2, Numbers DEF Idle, Frame
<1> HIDE DEF x
<1>5. Fits("user", u[p]) /\ u[p].ip = 0 /\ u[p].xp = 0 /\ ~ InDir("user", u[p]) /\ ~ Working("user", u[p])
  BY <1>3, Here DEF Fits, CurOf, InDir, Working
<1>6. Fits("namei", x)
  BY <1>1, <1>2, <1>4 DEF Fits, CurOf, ByName
<1>7. ~ InDir("namei", x) /\ ~ Working("namei", x) /\ "namei" \in Labels
  BY DEF InDir, Working, Labels
<1>8. uinode' \in BOOLEAN
  BY <1>2 DEF InodeInv, TypeOK, ListOK
<1> QED
  BY <1>2, <1>3, <1>4, <1>5, <1>6, <1>7, <1>8, PlainMove DEF super

LEMMA PipeOK ==
  ASSUME InodeInv, NEW p \in Proc, Pipe(p)
  PROVE  StepOK(p)
<1> DEFINE x == [Idle EXCEPT !.op = "pipe"]
<1>1. pc[p] = "user" /\ Moves(p, "ialloc", x) /\ UNCHANGED <<dev, dir, table, super, chan, files, uinode, may>>
  BY DEF Pipe, Begins, At, Goes, Moves
<1>2. x \in Frame /\ x.op = "pipe" /\ x.ip = 0 /\ x.xp = 0
  <2>1. "pipe" \in Ops
    BY DEF Ops
  <2> QED
    BY <2>1, IdleFrame DEF Idle, Frame
<1> HIDE DEF x
<1>3. u[p].ip = 0 /\ u[p].xp = 0 /\ ~ InDir("user", u[p]) /\ ~ Working("user", u[p])
  BY <1>1, Here DEF Fits, CurOf, InDir, Working
<1>4. Fits("ialloc", x) /\ ~ InDir("ialloc", x) /\ ~ Working("ialloc", x) /\ "ialloc" \in Labels
  BY <1>2 DEF Fits, CurOf, ByName, InDir, Working, Labels
<1>5. uinode' \in BOOLEAN
  BY <1>1 DEF InodeInv, TypeOK, ListOK
<1> QED
  BY <1>1, <1>2, <1>3, <1>4, <1>5, PlainMove DEF super

LEMMA SyncOK ==
  ASSUME InodeInv, NEW p \in Proc, Sync(p)
  PROVE  StepOK(p)
<1> DEFINE x == [Idle EXCEPT !.op = "sync"]
<1>1. pc[p] = "user" /\ Moves(p, "sync", x) /\ UNCHANGED <<dev, dir, table, super, chan, files, may>>
      /\ uinode' = TRUE
  BY DEF Sync, Begins, At, Goes, Moves
<1>2. x \in Frame /\ x.op = "sync" /\ x.ip = 0 /\ x.xp = 0
  <2>1. "sync" \in Ops
    BY DEF Ops
  <2> QED
    BY <2>1, IdleFrame DEF Idle, Frame
<1> HIDE DEF x
<1>3. u[p].ip = 0 /\ u[p].xp = 0 /\ ~ InDir("user", u[p]) /\ ~ Working("user", u[p])
  BY <1>1, Here DEF Fits, CurOf, InDir, Working
<1>4. Fits("sync", x) /\ ~ InDir("sync", x) /\ ~ Working("sync", x) /\ "sync" \in Labels
  BY <1>2 DEF Fits, CurOf, ByName, InDir, Working, Labels
<1> QED
  BY <1>1, <1>2, <1>3, <1>4, PlainMove DEF super


LEMMA CloseOK ==
  ASSUME InodeInv, NEW p \in Proc, Close(p)
  PROVE  StepOK(p)
<1>1. PICK s \in Slot :
        /\ files[p][s] > 0
        /\ files' = [files EXCEPT ![p][s] = @ - 1]
        /\ Begins(p, [Idle EXCEPT !.op = "close", !.ip = s], "closef")
  BY DEF Close
<1> DEFINE x == [Idle EXCEPT !.op = "close", !.ip = s]
<1>2. pc[p] = "user" /\ Moves(p, "closef", x) /\ UNCHANGED <<dev, dir, table, super, chan, uinode, may>>
  BY <1>1 DEF Close, Begins, At, Goes, Moves
<1>3. x \in Frame /\ x.op = "close" /\ x.ip = s /\ x.xp = 0
  <2>1. "close" \in Ops
    BY DEF Ops
  <2> QED
    BY <2>1, IdleFrame, Numbers DEF Idle, Frame
<1> HIDE DEF x
<1>4. u[p].ip = 0 /\ u[p].xp = 0 /\ ~ InDir("user", u[p]) /\ ~ Working("user", u[p])
  BY <1>2, Here DEF Fits, CurOf, InDir, Working
<1>5. Fits("closef", x) /\ ~ InDir("closef", x) /\ ~ Working("closef", x) /\ "closef" \in Labels
  BY <1>3 DEF Fits, CurOf, ByName, InDir, Working, Labels
<1>6. /\ pc'[p] = "closef" /\ u'[p] = x /\ pc' \in [Proc -> Labels] /\ u' \in [Proc -> Frame]
      /\ \A q \in Proc : q # p => pc'[q] = pc[q] /\ u'[q] = u[q]
  BY <1>2, <1>3, <1>5, MovesTo DEF InodeInv
<1>7. /\ files' \in [Proc -> [Slot -> 0 .. NFILE]]
      /\ \A q \in Proc : q # p => files'[q] = files[q]
      /\ \A t \in Slot : files'[p][t] = IF t = s THEN files[p][s] - 1 ELSE files[p][t]
  <2>1. files \in [Proc -> [Slot -> 0 .. NFILE]]
    BY DEF InodeInv, TypeOK, ProcsOK
  <2>2. files[p][s] - 1 \in 0 .. NFILE
    BY <1>1, <2>1, Numbers
  <2>3. [files[p] EXCEPT ![s] = files[p][s] - 1] \in [Slot -> 0 .. NFILE]
    BY <2>1, <2>2
  <2>4. files' = [files EXCEPT ![p] = [files[p] EXCEPT ![s] = files[p][s] - 1]]
    BY <1>1, <2>1
  <2> QED
    BY <2>1, <2>3, <2>4
<1>8. TypeOK'
  BY <1>2, <1>6, <1>7 DEF InodeInv, TypeOK, DiskOK, ListOK, ProcsOK, dev, dir, super, table
<1>9. Others(p) /\ CallOK(p)'
  BY <1>5, <1>6, <1>7 DEF Others, CallOK, Last
<1>10. EntryStep(p) /\ CountStep(p) /\ OneEntry' /\ FreeList'
  <2>1. \A t \in Slot : Refs(p, t)' = Refs(p, t)
    <3>1. ASSUME NEW t \in Slot PROVE t # 0 /\ files[p][t] \in Int
      BY Numbers, Here
    <3> QED
      BY <1>3, <1>4, <1>6, <1>7, <3>1 DEF Refs
  <2>2. \A t \in Slot : HoldsInode(p, t)' <=> HoldsInode(p, t)
    BY <1>2, <1>4, <1>5, <1>6, Holds
  <2> QED
    BY <1>2, <2>1, <2>2, EntriesQuiet DEF table
<1>11. DirStep(p) /\ ListStep(p)
  BY <1>2, <1>4, <1>5, <1>6, Holds, DirQuiet, ListQuiet DEF dir, super
<1>12. Sleepers'
  BY <1>2, SleepersKept DEF table, dir, super
<1> QED
  BY <1>8, <1>9, <1>10, <1>11, <1>12 DEF StepOK

(* Calls that lock or release the directory, and have no entry or none     *)
(* they work on.                                                           *)
LEMMA DirMove ==
  ASSUME InodeInv, NEW p \in Proc, NEW l \in Labels, NEW x \in Frame, Moves(p, l, x),
         ~ Working(pc[p], u[p]), ~ Working(l, x), Fits(l, x), l \notin {"itrunc", "iput2", "search"},
         pc[p] # "search",
         \/ UNCHANGED <<dlock, chan>> /\ (InDir(l, x) <=> InDir(pc[p], u[p]))
         \/ DirPrele /\ InDir(pc[p], u[p]) /\ ~ InDir(l, x)
         \/ ~ dlock /\ dlock' = TRUE /\ UNCHANGED chan /\ InDir(l, x),
         x.ip = u[p].ip, x.xp = u[p].xp,
         UNCHANGED <<dev, ddent, table, super, files, may, uinode>>, dent' \in [Name -> 0 .. NINO]
  PROVE  StepOK(p)
<1>1. pc'[p] = l /\ u'[p] = x
  BY MovesTo DEF InodeInv
<1>2. DirStep(p)
  BY <1>1, Holds, DirQuiet DEF DirStep, DirPrele
<1>3. ListStep(p)
  BY <1>1, ListQuiet DEF super
<1>4. Sleepers' /\ chan' \in [Proc -> 0 .. NINODE + 2] /\ dlock' \in BOOLEAN
  <2>1. CASE DirPrele
    BY <2>1, DirPreleOK DEF table, super
  <2>2. ASSUME UNCHANGED chan, dlock' = dlock \/ (~ dlock /\ dlock' = TRUE)
        PROVE  Sleepers' /\ chan' \in [Proc -> 0 .. NINODE + 2] /\ dlock' \in BOOLEAN
    <3>1. dlock' \in BOOLEAN
      BY <2>2 DEF InodeInv, TypeOK, ListOK
    <3>2. UNCHANGED <<inode, silock>> /\ (dlock => dlock')
      BY <2>2 DEF table, super
    <3>3. \A q \in Proc : chan'[q] \in {0, chan[q]}
      BY <2>2
    <3>4. Sleepers'
      BY <3>2, <3>3, SleepersKept
    <3> QED
      BY <2>2, <3>1, <3>4, Here
  <2>3. DirPrele \/ (UNCHANGED chan /\ (dlock' = dlock \/ (~ dlock /\ dlock' = TRUE)))
    OBVIOUS
  <2> QED
    BY <2>1, <2>2, <2>3
<1>5. DiskOK' /\ ListOK'
  BY <1>4 DEF InodeInv, TypeOK, DiskOK, ListOK, dev, super
<1> QED
  BY <1>2, <1>3, <1>4, <1>5, PlainOK DEF table

LEMMA NameiOK ==
  ASSUME InodeInv, NEW p \in Proc, Namei(p)
  PROVE  StepOK(p)
<1>1. /\ pc[p] = "namei" /\ u[p] \in Frame /\ Fits("namei", u[p])
      /\ UNCHANGED <<dev, dent, ddent, table, super, files, uinode, may, u>>
  BY Here DEF Namei, At
<1>2. CASE dlock
  <2>1. Sleeps(p, DIR) /\ UNCHANGED <<dlock, pc>>
    BY <1>2 DEF Namei
  <2>2. DIR # ILIST
    BY InodeAssumption DEF DIR, ILIST
  <2> QED
    BY <1>1, <1>2, <2>1, <2>2, WaitsElsewhere DEF dir
<1>3. CASE ~ dlock
  <2>1. dlock' = TRUE /\ UNCHANGED chan /\ Moves(p, "dir", u[p])
    BY <1>1, <1>3 DEF Namei, Moves, Goes, InodeInv, TypeOK, ProcsOK
  <2>2. "dir" \in Labels /\ ~ Working("namei", u[p]) /\ ~ Working("dir", u[p]) /\ InDir("dir", u[p])
    BY DEF Labels, Working, InDir
  <2>3. Fits("dir", u[p]) /\ dent' \in [Name -> 0 .. NINO]
    BY <1>1 DEF Fits, InodeInv, TypeOK, DiskOK
  <2> QED
    BY <1>1, <1>3, <2>1, <2>2, <2>3, DirMove
<1> QED
  BY <1>2, <1>3

LEMMA NameiFoundOK ==
  ASSUME InodeInv, NEW p \in Proc, NameiFound(p)
  PROVE  StepOK(p)
<1> DEFINE i == dent[u[p].name]
           x == [u[p] EXCEPT !.ino = i]
<1>1. /\ pc[p] = "dir" /\ u[p] \in Frame /\ Fits("dir", u[p]) /\ i # 0 /\ ~ u[p].err
      /\ UNCHANGED <<dev, dent, ddent, table, super, files, uinode, may>>
      /\ Goes(p, "iget") /\ u' = [u EXCEPT ![p].ino = i]
      /\ IF u[p].op = "unlink" THEN UNCHANGED <<dlock, chan>> ELSE DirPrele
  BY Here DEF NameiFound, At
<1>2. i \in Ino /\ i \in Nat
  <2>1. u[p].name \in Name
    BY <1>1 DEF Fits
  <2>2. i \in 0 .. NINO
    BY <2>1 DEF InodeInv, TypeOK, DiskOK
  <2> QED
    BY <1>1, <2>2, Numbers DEF Ino
<1> HIDE DEF i
<1>3. Moves(p, "iget", x)
  BY <1>1 DEF Moves, Goes, InodeInv, TypeOK, ProcsOK
<1>4. /\ x \in Frame /\ x.op = u[p].op /\ x.name = u[p].name /\ x.to = u[p].to /\ x.err = u[p].err
      /\ x.ip = u[p].ip /\ x.xp = u[p].xp /\ x.ino = i
  BY <1>1, <1>2 DEF Frame
<1> HIDE DEF x
<1>5. Fits("iget", x)
  BY <1>1, <1>2, <1>4 DEF Fits, CurOf, ByName
<1>6. "iget" \in Labels /\ ~ Working("dir", u[p]) /\ ~ Working("iget", x) /\ InDir("dir", u[p])
      /\ (InDir("iget", x) <=> u[p].op = "unlink")
  BY <1>1, <1>4 DEF Labels, Working, InDir, Fits, ByName
<1>7. dent' \in [Name -> 0 .. NINO]
  BY <1>1 DEF InodeInv, TypeOK, DiskOK
<1> QED
  BY <1>1, <1>3, <1>4, <1>5, <1>6, <1>7, DirMove

LEMMA NameiNoneOK ==
  ASSUME InodeInv, NEW p \in Proc, NameiNone(p)
  PROVE  StepOK(p)
<1>1. /\ pc[p] = "dir" /\ u[p] \in Frame /\ Fits("dir", u[p]) /\ ~ u[p].err
      /\ UNCHANGED <<dev, dent, ddent, table, super, files, uinode, may>>
      /\ ~ Working("dir", u[p]) /\ InDir("dir", u[p])
      /\ dent' \in [Name -> 0 .. NINO]
  BY Here DEF NameiNone, At, Working, InDir, InodeInv, TypeOK, DiskOK
<1>2. CASE u[p].op \in {"open", "link", "unlink"}
  <2>1. DirPrele /\ Moves(p, "user", Idle)
    BY <1>2 DEF NameiNone, Returns, Goes, Moves
  <2>2. u[p].ip = 0 /\ u[p].xp = 0
    BY <1>1, <1>2 DEF Fits, CurOf
  <2>3. Fits("user", Idle) /\ "user" \in Labels /\ ~ InDir("user", Idle) /\ ~ Working("user", Idle)
    BY IdleFrame DEF Fits, CurOf, Labels, InDir, Working, ByName
  <2> QED
    BY <1>1, <2>1, <2>2, <2>3, IdleFrame, DirMove
<1>3. CASE u[p].op = "creat"
  <2> DEFINE x == [u[p] EXCEPT !.op = "new"]
  <2>1. UNCHANGED <<dlock, chan>> /\ Moves(p, "ialloc", x)
    BY <1>3 DEF NameiNone, Goes, Moves, InodeInv, TypeOK, ProcsOK
  <2>2. x \in Frame /\ x.op = "new" /\ x.ip = u[p].ip /\ x.xp = u[p].xp /\ x.name = u[p].name
    <3>1. "new" \in Ops
      BY DEF Ops
    <3> QED
      BY <1>1, <3>1 DEF Frame
  <2> HIDE DEF x
  <2>3. Fits("ialloc", x) /\ "ialloc" \in Labels /\ InDir("ialloc", x) /\ ~ Working("ialloc", x)
    BY <1>1, <1>3, <2>2 DEF Fits, CurOf, Labels, InDir, Working, ByName
  <2> QED
    BY <1>1, <2>1, <2>2, <2>3, DirMove
<1>4. CASE u[p].op = "link2"
  <2>1. UNCHANGED <<dlock, chan>> /\ Moves(p, "wdir", u[p])
    <3>1. UNCHANGED <<dlock, chan>> /\ Goes(p, "wdir") /\ u' = [u EXCEPT ![p] = [u[p] EXCEPT !.op = "link2"]]
      BY <1>4 DEF NameiNone
    <3>2. u[p] = [u[p] EXCEPT !.op = "link2"]
      BY <1>1, <1>4 DEF Frame
    <3> QED
      BY <3>1, <3>2 DEF Goes, Moves
  <2>2. Fits("wdir", u[p]) /\ "wdir" \in Labels /\ InDir("wdir", u[p]) /\ ~ Working("wdir", u[p])
    BY <1>1, <1>4 DEF Fits, CurOf, Labels, InDir, Working, ByName
  <2> QED
    BY <1>1, <2>1, <2>2, DirMove
<1> QED
  BY <1>2, <1>3, <1>4 DEF NameiNone

(* link() could not write the inode, and looks for no second name. *)
LEMMA NameiErrorOK ==
  ASSUME InodeInv, NEW p \in Proc, NameiError(p)
  PROVE  StepOK(p)
<1> DEFINE x == [u[p] EXCEPT !.op = "out"]
<1>1. /\ pc[p] = "dir" /\ u[p] \in Frame /\ Fits("dir", u[p]) /\ u[p].op = "link2"
      /\ UNCHANGED <<dev, dent, ddent, table, super, files, uinode, may>>
      /\ ~ Working("dir", u[p]) /\ InDir("dir", u[p])
      /\ dent' \in [Name -> 0 .. NINO] /\ DirPrele
  BY Here DEF NameiError, At, Working, InDir, InodeInv, TypeOK, DiskOK, Fits
<1>2. Moves(p, "out", x)
  BY DEF NameiError, Moves, Goes
<1>3. x \in Frame /\ x.op = "out" /\ x.ip = u[p].ip /\ x.xp = u[p].xp
  <2>1. "out" \in Ops
    BY DEF Ops
  <2> QED
    BY <1>1, <2>1 DEF Frame
<1> HIDE DEF x
<1>4. Fits("out", x) /\ "out" \in Labels /\ ~ InDir("out", x) /\ ~ Working("out", x)
  BY <1>1, <1>3 DEF Fits, CurOf, Labels, InDir, Working, ByName
<1> QED
  BY <1>1, <1>2, <1>3, <1>4, DirMove

LEMMA DirPutOK ==
  ASSUME InodeInv, NEW p \in Proc, DirPut(p)
  PROVE  StepOK(p)
<1>1. /\ pc[p] = "dput" /\ u[p] \in Frame /\ Fits("dput", u[p])
      /\ UNCHANGED <<dev, dent, ddent, table, super, files, uinode, may>>
      /\ ~ Working("dput", u[p]) /\ InDir("dput", u[p])
      /\ dent' \in [Name -> 0 .. NINO]
      /\ DirPrele /\ Moves(p, "user", Idle)
  BY Here DEF DirPut, At, Working, InDir, InodeInv, TypeOK, DiskOK, Returns, Goes, Moves
<1>2. u[p].ip = 0 /\ u[p].xp = 0
  BY <1>1 DEF Fits, CurOf
<1>3. Fits("user", Idle) /\ "user" \in Labels /\ ~ InDir("user", Idle) /\ ~ Working("user", Idle)
  BY IdleFrame DEF Fits, CurOf, Labels, InDir, Working, ByName
<1> QED
  BY <1>1, <1>2, <1>3, IdleFrame, DirMove

LEMMA WdirOK ==
  ASSUME InodeInv, NEW p \in Proc, Wdir(p)
  PROVE  StepOK(p)
<1> DEFINE r == u[p]
           s == r.ip
<1>1. /\ pc[p] = "wdir" /\ r \in Frame /\ Fits("wdir", r) /\ inode \in [Slot -> Entry]
      /\ UNCHANGED <<dev, ddent, table, super, files, uinode, may>> /\ DirPrele
      /\ InDir("wdir", r)
  BY Here DEF Wdir, At, InDir
<1>2. s \in Slot /\ r.xp = 0 /\ r.op \in {"new", "link2"} /\ r.name \in Name
      /\ (r.err => r.op = "new")
  <2>1. s \in Slot /\ r.xp = 0 /\ r.op \in {"new", "link2"}
    BY <1>1 DEF Fits
  <2>2. r.op \in ByName \cup {"new"}
    BY <2>1 DEF ByName
  <2> QED
    BY <1>1, <2>1, <2>2 DEF Fits
<1>3. dent' \in [Name -> 0 .. NINO]
  <2>1. inode[s].ino \in 0 .. NINO /\ dent \in [Name -> 0 .. NINO]
    BY <1>1, <1>2 DEF Entry, InodeInv, TypeOK, DiskOK
  <2> QED
    BY <2>1 DEF Wdir
<1> DEFINE o == IF r.err THEN "undo" ELSE IF r.op = "new" THEN "open" ELSE "out"
           l == IF r.err THEN "iput" ELSE IF r.op = "new" THEN "got" ELSE "out"
           x == [r EXCEPT !.op = o]
<1>4. Moves(p, l, x)
  <2>1. CASE r.err
    BY <2>1 DEF Wdir, Moves, Goes
  <2>2. CASE ~ r.err
    BY <2>2 DEF Wdir, Moves, Goes, InodeInv, TypeOK, ProcsOK
  <2> QED
    BY <2>1, <2>2
<1>5. x \in Frame /\ x.op = o /\ x.ip = s /\ x.xp = 0 /\ x.name = r.name /\ l \in Labels
  <2>1. o \in Ops /\ l \in Labels
    BY DEF Ops, ByName, Labels
  <2> HIDE DEF o
  <2> QED
    BY <1>1, <1>2, <2>1 DEF Frame
<1> HIDE DEF x
<1>6. Fits(l, x) /\ ~ InDir(l, x)
  BY <1>1, <1>2, <1>5 DEF Fits, CurOf, InDir, ByName
<1>7. CASE r.op = "link2"
  <2>1. ~ Working("wdir", r) /\ ~ Working(l, x) /\ l = "out"
    BY <1>2, <1>5, <1>7 DEF Working
  <2> HIDE DEF l
  <2> QED
    BY <1>1, <1>2, <1>3, <1>4, <1>5, <1>6, <2>1, DirMove
<1>8. CASE r.op = "new"
  <2>1. Working("wdir", r) /\ Working(l, x) /\ CurOf(r) = s /\ CurOf(x) = s /\ l \notin {"itrunc", "iput2"}
    BY <1>2, <1>5, <1>8 DEF Working, CurOf
  <2>2. dlock' = FALSE /\ chan' \in [Proc -> 0 .. NINODE + 2] /\ Sleepers'
    BY <1>1, DirPreleOK DEF table, super
  <2>3. /\ inode' \in [Slot -> Entry] /\ inode'[s].lock
        /\ UNCHANGED inode
    BY <1>1, <2>1, AtWork DEF table
  <2>4. DirStep(p)
    <3>1. pc'[p] = l /\ u'[p] = x
      BY <1>4, <1>5, MovesTo DEF InodeInv
    <3> QED
      BY <1>1, <1>6, <2>2, <3>1, Holds DEF DirStep
  <2>5. DiskOK' /\ ListOK'
    BY <1>1, <1>3, <2>2 DEF InodeInv, TypeOK, DiskOK, ListOK, dev, super
  <2> HIDE DEF l, s
  <2> QED
    BY <1>1, <1>2, <1>4, <1>5, <1>6, <2>1, <2>2, <2>3, <2>4, <2>5, WorkOK DEF table, super, s
<1> QED
  BY <1>2, <1>7, <1>8


LEMMA IallocOK ==
  ASSUME InodeInv, NEW p \in Proc, Ialloc(p)
  PROVE  StepOK(p)
<1> DEFINE i == IF sninode > 0 THEN sinode[sninode - 1] ELSE 0
<1>1. /\ pc[p] = "ialloc" /\ u[p] \in Frame /\ Fits("ialloc", u[p])
      /\ UNCHANGED <<dev, dir, table, files, uinode, may>>
      /\ sninode \in 0 .. NICINOD /\ sinode \in [0 .. NICINOD - 1 -> 0 .. NINO] /\ NICINOD \in Nat \ {0}
  BY InodeAssumption, Here DEF Ialloc, At, InodeInv, TypeOK, ListOK
<1>2. i \in 0 .. NINO /\ sinode[0] \in Nat
  <2>1. sinode[0] \in 0 .. NINO
    BY <1>1
  <2>2. sninode > 0 => sinode[sninode - 1] \in 0 .. NINO
    BY <1>1
  <2> QED
    BY <2>1, <2>2, Numbers
<1>3. ~ Working("ialloc", u[p]) /\ u[p].op \in {"new", "pipe"} /\ (InDir("ialloc", u[p]) <=> u[p].op = "new")
  BY <1>1 DEF Working, Fits, InDir
<1>4. DiskOK'
  BY <1>1, Unmoved DEF dir
<1>5. CASE silock /\ Sleeps(p, ILIST) /\ UNCHANGED <<sninode, sinode, silock, pc, u>>
  <2>1. DIR # ILIST
    BY InodeAssumption DEF DIR, ILIST
  <2> QED
    BY <1>1, <1>5, <2>1, WaitsElsewhere DEF super
<1>6. CASE /\ ~ silock /\ i # 0
           /\ sninode' = sninode - 1
           /\ sinode' = [k \in DOMAIN sinode |-> IF k = sninode - 1 /\ k > 0 THEN 0 ELSE sinode[k]]
           /\ Goes(p, "iget")
           /\ u' = [u EXCEPT ![p].ino = i]
           /\ UNCHANGED <<silock, chan>>
  <2> DEFINE x == [u[p] EXCEPT !.ino = i]
  <2>1. i \in Ino /\ i \in Nat /\ sninode > 0
    BY <1>2, <1>6, Numbers DEF Ino
  <2> HIDE DEF i
  <2>2. Moves(p, "iget", x)
    BY <1>6 DEF Moves, Goes, InodeInv, TypeOK, ProcsOK
  <2>3. x \in Frame /\ x.op = u[p].op /\ x.ip = u[p].ip /\ x.xp = u[p].xp /\ x.name = u[p].name /\ x.ino = i
    BY <1>1, <2>1 DEF Frame
  <2> HIDE DEF x
  <2>4. Fits("iget", x) /\ ~ Working("iget", x) /\ "iget" \in Labels /\ (InDir("iget", x) <=> u[p].op = "new")
    BY <1>1, <1>3, <2>1, <2>3 DEF Fits, CurOf, Working, Labels, InDir
  <2>5. ListOK'
    <3>1. sninode' \in 0 .. NICINOD
      BY <1>1, <1>6, <2>1
    <3>2. sinode' \in [0 .. NICINOD - 1 -> 0 .. NINO]
      BY <1>1, <1>6, Numbers
    <3> QED
      BY <1>1, <1>6, <3>1, <3>2 DEF InodeInv, TypeOK, ListOK, dir
  <2>6. DirStep(p) /\ ListStep(p)
    <3>1. pc'[p] = "iget" /\ u'[p] = x
      BY <2>2, <2>3, <2>4, MovesTo DEF InodeInv
    <3>2. HoldsDir(p)' <=> HoldsDir(p)
      BY <1>1, <1>3, <2>4, <3>1, Holds
    <3> QED
      BY <1>1, <1>6, <3>1, <3>2, DirQuiet, ListQuiet DEF dir
  <2>7. Sleepers' /\ chan' \in [Proc -> 0 .. NINODE + 2]
    <3>1. UNCHANGED <<inode, dlock, silock, chan>>
      BY <1>1, <1>6 DEF table, dir
    <3> QED
      BY <3>1, SleepersKept, Here
  <2> QED
    BY <1>1, <1>3, <1>4, <2>2, <2>3, <2>4, <2>5, <2>6, <2>7, PlainOK DEF table
<1>7. CASE /\ ~ silock /\ i = 0
           /\ silock' = TRUE
           /\ sninode' = NICINOD
           /\ Goes(p, "search")
           /\ u' = [u EXCEPT ![p].ino = FsINOS(sinode[0])]
           /\ UNCHANGED <<sinode, chan>>
  <2> DEFINE n == FsINOS(sinode[0])
             x == [u[p] EXCEPT !.ino = n]
  <2>1. n \in Nat
    <3>1. \A a, b \in Nat : a * b + 1 \in Nat
      OBVIOUS
    <3>2. INOPB \in Nat \ {0} /\ sinode[0] \div INOPB \in Nat
      BY <1>2, InodeAssumption
    <3> QED
      BY <3>1, <3>2 DEF FsINOS
  <2> HIDE DEF n, i
  <2>2. Moves(p, "search", x)
    BY <1>7 DEF Moves, Goes, InodeInv, TypeOK, ProcsOK, n
  <2>3. x \in Frame /\ x.op = u[p].op /\ x.ip = u[p].ip /\ x.xp = u[p].xp /\ x.name = u[p].name
    BY <1>1, <2>1 DEF Frame
  <2> HIDE DEF x
  <2>4. Fits("search", x) /\ ~ Working("search", x) /\ "search" \in Labels /\ (InDir("search", x) <=> u[p].op = "new")
    BY <1>1, <1>3, <2>3 DEF Fits, CurOf, Working, Labels, InDir
  <2>5. ListOK'
    BY <1>1, <1>7 DEF InodeInv, TypeOK, ListOK, dir
  <2>6. DirStep(p) /\ ListStep(p)
    <3>1. pc'[p] = "search" /\ u'[p] = x
      BY <2>2, <2>3, <2>4, MovesTo DEF InodeInv
    <3>2. HoldsDir(p)' <=> HoldsDir(p)
      BY <1>1, <1>3, <2>4, <3>1, Holds
    <3> QED
      BY <1>1, <1>7, <3>1, <3>2, DirQuiet DEF dir, ListStep
  <2>7. Sleepers' /\ chan' \in [Proc -> 0 .. NINODE + 2]
    <3>1. UNCHANGED <<inode, dlock, chan>> /\ (silock => silock')
      BY <1>1, <1>7 DEF table, dir
    <3> QED
      BY <3>1, SleepersKept, Here
  <2> QED
    BY <1>1, <1>3, <1>4, <2>2, <2>3, <2>4, <2>5, <2>6, <2>7, PlainOK DEF table
<1> QED
  BY <1>5, <1>6, <1>7 DEF Ialloc

(* The list that the search of a block leaves. *)
LEMMA SearchedList ==
  ASSUME InodeInv, NEW p \in Proc, NEW new \in SUBSET Ino, NEW n,
         n = sninode - Least(Cardinality(new), sninode)
  PROVE  /\ n \in 0 .. sninode /\ n \in 0 .. NICINOD
         /\ \A k \in n .. sninode - 1 : Nth(new, sninode - k) \in 0 .. NINO
<1>1. sninode \in 0 .. NICINOD /\ NICINOD \in Nat
  BY Numbers DEF InodeInv, TypeOK, ListOK
<1>2. IsFiniteSet(new) /\ Cardinality(new) \in Nat /\ new \in SUBSET Nat
  <2>1. IsFiniteSet(Ino)
    BY Numbers, FS_Interval DEF Ino
  <2> QED
    BY <2>1, Numbers, FS_Subset, FS_CardinalityType
<1>3. n \in 0 .. sninode /\ n \in 0 .. NICINOD /\ sninode - n =< Cardinality(new)
  BY <1>1, <1>2 DEF Least
<1>4. ASSUME NEW k \in n .. sninode - 1 PROVE Nth(new, sninode - k) \in 0 .. NINO
  <2>1. sninode - k \in 1 .. Cardinality(new)
    BY <1>1, <1>2, <1>3
  <2>2. Nth(new, sninode - k) \in new
    BY <1>2, <2>1, NthIn
  <2> QED
    BY <2>2, Numbers
<1> QED
  BY <1>3, <1>4

LEMMA SearchBlockOK ==
  ASSUME InodeInv, NEW p \in Proc, SearchBlock(p)
  PROVE  StepOK(p)
<1>1. PICK ok \in Reads(u[p].ino) :
        LET good == ok /\ ~u[p].err
            new  == IF good THEN Free(FsITOD(u[p].ino)) ELSE {}
            n    == sninode - Least(Cardinality(new), sninode)
            more == n > 0 /\ u[p].ino + INOPB <= NINO
            list == [k \in DOMAIN sinode |-> IF k \in n .. sninode - 1 THEN Nth(new, sninode - k) ELSE sinode[k]]
            r    == [u[p] EXCEPT !.err = ~good, !.ino = @ + INOPB]
        IN /\ At(p, "search")
           /\ IF more
              THEN /\ sninode' = n /\ sinode' = list
                   /\ u' = [u EXCEPT ![p] = r]
                   /\ UNCHANGED <<silock, pc, chan>>
              ELSE /\ silock' = FALSE
                   /\ chan' = Woken(ILIST)
                   /\ sinode' = [k \in DOMAIN sinode |-> IF n > 0 /\ k \in {0, n - 1} THEN 0 ELSE list[k]]
                   /\ IF n # NICINOD
                      THEN sninode' = NICINOD /\ Goes(p, "ialloc") /\ u' = [u EXCEPT ![p] = [r EXCEPT !.ino = 0]]
                      ELSE sninode' = 0 /\ Leaves(p, Fails(u[p]))
           /\ UNCHANGED <<dev, dir, table, files, uinode, may>>
  BY Zenon DEF SearchBlock
<1> DEFINE good == ok /\ ~u[p].err
           new  == IF good THEN Free(FsITOD(u[p].ino)) ELSE {}
           n    == sninode - Least(Cardinality(new), sninode)
           list == [k \in DOMAIN sinode |-> IF k \in n .. sninode - 1 THEN Nth(new, sninode - k) ELSE sinode[k]]
           r    == [u[p] EXCEPT !.err = ~good, !.ino = @ + INOPB]
           last == [k \in DOMAIN sinode |-> IF n > 0 /\ k \in {0, n - 1} THEN 0 ELSE list[k]]
           z    == [r EXCEPT !.ino = 0]
<1>2. /\ pc[p] = "search" /\ u[p] \in Frame /\ Fits("search", u[p])
      /\ UNCHANGED <<dev, dir, table, files, uinode, may>>
  BY <1>1, Here DEF At
<1>3. \/ sninode' = n /\ sinode' = list /\ u' = [u EXCEPT ![p] = r] /\ UNCHANGED <<silock, pc, chan>>
      \/ /\ silock' = FALSE /\ chan' = Woken(ILIST) /\ sinode' = last
         /\ \/ sninode' = NICINOD /\ Goes(p, "ialloc") /\ u' = [u EXCEPT ![p] = z]
            \/ sninode' = 0 /\ Leaves(p, Fails(u[p]))
  BY <1>1
<1>4. /\ n \in 0 .. NICINOD
      /\ \A k \in n .. sninode - 1 : Nth(new, sninode - k) \in 0 .. NINO
  <2>1. new \in SUBSET Ino
    BY DEF Free
  <2> HIDE DEF new
  <2> QED
    BY <2>1, SearchedList
<1> HIDE DEF n, new
<1>5. list \in [0 .. NICINOD - 1 -> 0 .. NINO] /\ last \in [0 .. NICINOD - 1 -> 0 .. NINO]
  <2>1. sinode \in [0 .. NICINOD - 1 -> 0 .. NINO] /\ 0 \in 0 .. NINO
    BY Numbers DEF InodeInv, TypeOK, ListOK
  <2>2. list \in [0 .. NICINOD - 1 -> 0 .. NINO]
    BY <1>4, <2>1
  <2> HIDE DEF list
  <2> QED
    BY <2>1, <2>2
<1>6. /\ r \in Frame /\ r.op = u[p].op /\ r.ip = u[p].ip /\ r.xp = u[p].xp /\ r.name = u[p].name
      /\ z \in Frame /\ z.op = u[p].op /\ z.ip = u[p].ip /\ z.xp = u[p].xp /\ z.name = u[p].name
  <2>1. u[p].ino + INOPB \in Nat /\ good \in BOOLEAN
    BY <1>2, InodeAssumption DEF Frame
  <2> HIDE DEF good
  <2>2. /\ r \in Frame /\ r.op = u[p].op /\ r.ip = u[p].ip /\ r.xp = u[p].xp /\ r.name = u[p].name
    BY <1>2, <2>1 DEF Frame
  <2> HIDE DEF r
  <2> QED
    BY <2>2 DEF Frame
<1> HIDE DEF list, last, r, z
<1>7. ~ Working("search", u[p]) /\ u[p].op \in {"new", "pipe"} /\ (InDir("search", u[p]) <=> u[p].op = "new")
      /\ u[p].ip = 0 /\ u[p].xp = 0
  BY <1>2 DEF Working, Fits, InDir, CurOf
<1>8. DiskOK' /\ UNCHANGED <<inode, ifreelist, dlock>>
  BY <1>2, Unmoved DEF dir, table
<1>9. CASE sninode' = n /\ sinode' = list /\ u' = [u EXCEPT ![p] = r] /\ UNCHANGED <<silock, pc, chan>>
  <2>1. Moves(p, "search", r)
    BY <1>2, <1>9 DEF Moves, InodeInv, TypeOK, ProcsOK
  <2>2. Fits("search", r) /\ ~ Working("search", r) /\ "search" \in Labels /\ (InDir("search", r) <=> u[p].op = "new")
    BY <1>2, <1>6, <1>7 DEF Fits, CurOf, Working, Labels, InDir
  <2>3. ListOK'
    BY <1>2, <1>4, <1>5, <1>8, <1>9 DEF InodeInv, TypeOK, ListOK
  <2>4. DirStep(p) /\ ListStep(p)
    <3>1. pc'[p] = "search" /\ u'[p] = r
      BY <1>6, <2>1, <2>2, MovesTo DEF InodeInv
    <3>2. HoldsDir(p)' <=> HoldsDir(p)
      BY <1>2, <1>7, <2>2, <3>1, Holds
    <3> QED
      BY <1>2, <1>8, <1>9, <3>1, <3>2, DirQuiet, ListQuiet
  <2>5. Sleepers' /\ chan' \in [Proc -> 0 .. NINODE + 2]
    BY <1>8, <1>9, SleepersKept, Here
  <2> QED
    BY <1>2, <1>6, <1>7, <1>8, <2>1, <2>2, <2>3, <2>4, <2>5, PlainOK
<1>10. ASSUME silock' = FALSE, chan' = Woken(ILIST), sinode' = last, sninode' \in 0 .. NICINOD,
              NEW l \in Labels, NEW x \in Frame, Moves(p, l, x), Fits(l, x), ~ Working(l, x),
              l \notin {"search", "itrunc", "iput2"}, x.ip = 0, x.xp = 0, InDir(l, x) <=> u[p].op = "new"
       PROVE  StepOK(p)
  <2>1. ListOK'
    BY <1>2, <1>5, <1>8, <1>10 DEF InodeInv, TypeOK, ListOK
  <2>2. DirStep(p) /\ ListStep(p)
    <3>1. pc'[p] = l /\ u'[p] = x
      BY <1>10, MovesTo DEF InodeInv
    <3>2. HoldsDir(p)' <=> HoldsDir(p)
      BY <1>2, <1>7, <1>10, <3>1, Holds
    <3> QED
      BY <1>2, <1>8, <1>10, <3>1, <3>2, DirQuiet DEF ListStep
  <2>3. Sleepers' /\ chan' \in [Proc -> 0 .. NINODE + 2]
    <3>1. chan \in [Proc -> 0 .. NINODE + 2]
      BY Here
    <3>2. /\ chan' \in [Proc -> 0 .. NINODE + 2]
          /\ \A q \in Proc : chan'[q] \in {0, chan[q]} /\ chan'[q] # ILIST
      BY <1>10, <3>1, InodeAssumption DEF Woken, ILIST
    <3>3. Sleepers'
      BY <1>8, <3>2, SleepersKept
    <3> QED
      BY <3>2, <3>3
  <2> QED
    BY <1>2, <1>7, <1>8, <1>10, <2>1, <2>2, <2>3, PlainOK
<1>11. CASE /\ silock' = FALSE /\ chan' = Woken(ILIST) /\ sinode' = last
            /\ sninode' = NICINOD /\ Goes(p, "ialloc") /\ u' = [u EXCEPT ![p] = z]
  <2>1. Moves(p, "ialloc", z) /\ sninode' \in 0 .. NICINOD
    BY <1>11, Numbers DEF Moves, Goes
  <2>2. Fits("ialloc", z) /\ ~ Working("ialloc", z) /\ "ialloc" \in Labels /\ (InDir("ialloc", z) <=> u[p].op = "new")
    BY <1>2, <1>6, <1>7 DEF Fits, CurOf, Working, Labels, InDir
  <2> QED
    BY <1>6, <1>7, <1>10, <1>11, <2>1, <2>2
<1>12. CASE /\ silock' = FALSE /\ chan' = Woken(ILIST) /\ sinode' = last
            /\ sninode' = 0 /\ Leaves(p, Fails(u[p]))
  <2> DEFINE f == Fails(u[p])
  <2>1. f \in Frame /\ f.ip = 0 /\ f.xp = 0 /\ f.op = IF u[p].op = "new" THEN "no new" ELSE "no pipe"
    BY <1>2, <1>7, FailsTo
  <2>2. Leaves(p, f)
    BY <1>12
  <2> HIDE DEF f
  <2>3. f.op \notin ByName \cup {"new", "link2"}
    BY <2>1 DEF ByName
  <2>4. PICK l \in Labels, x \in Frame :
          /\ Moves(p, l, x) /\ Fits(l, x) /\ ~ Working(l, x) /\ l \notin {"search", "itrunc", "iput2"}
          /\ x.ip = IF f.op = "link2" THEN f.ip ELSE 0
          /\ x.xp = 0
          /\ InDir(l, x) <=> f.op \in {"unlink", "new", "no new"}
    BY <2>1, <2>2, <2>3, LeavesTo
  <2>5. sninode' \in 0 .. NICINOD
    BY <1>12, Numbers
  <2>6. x.ip = 0 /\ (InDir(l, x) <=> u[p].op = "new")
    BY <1>7, <2>1, <2>4
  <2> QED
    BY <1>10, <1>12, <2>4, <2>5, <2>6
<1> QED
  BY Zenon, <1>3, <1>9, <1>11, <1>12


(* A call that has its inode open, or gives it back. *)
LEMMA OpenedOK ==
  ASSUME InodeInv, NEW p \in Proc, pc[p] \in {"got", "isync"}, NEW fs \in {1, 2},
         u[p].op \in {"open", "creat", "pipe"},
         NEW e \in Entry, e.lock = inode[u[p].ip].lock, e.want = inode[u[p].ip].want,
         e.count = inode[u[p].ip].count, e.ino = inode[u[p].ip].ino,
         Opened(p, u[p].ip, e, fs), DiskOK',
         UNCHANGED <<dlock, ifreelist, super, uinode, may>>
  PROVE  StepOK(p)
<1> DEFINE s == u[p].ip
<1>1. Working(pc[p], u[p])
  BY DEF Working
<1>2. CurOf(u[p]) = s /\ s \in Slot /\ u[p] \in Frame /\ Fits(pc[p], u[p]) /\ HoldsInode(p, s)
      /\ inode[s].count \in Nat \ {0} /\ u[p].xp = 0 /\ inode \in [Slot -> Entry]
  <2>1. CurOf(u[p]) = s
    BY DEF CurOf
  <2> QED
    BY <1>1, <2>1, AtWork DEF Fits
<1>3. ~ InDir(pc[p], u[p])
  BY DEF InDir
<1>4. ListOK'
  BY DEF InodeInv, TypeOK, ListOK, super
<1>5. CASE NOpen + fs <= NFILE
  <2> DEFINE o == [e EXCEPT !.count = @ + fs - 1]
  <2>1. /\ files' = [files EXCEPT ![p][s] = @ + fs] /\ Prele(s, o) /\ Moves(p, "user", Idle)
    BY <1>5 DEF Opened, Returns, Goes, Moves
  <2>2. o \in Entry /\ o.count = inode[s].count + (fs - 1) /\ o.count # 0 /\ o.ino = inode[s].ino
    <3>1. e.count + fs - 1 \in Nat /\ e.count + fs - 1 # 0 /\ e.count + fs - 1 = inode[s].count + (fs - 1)
      BY <1>2
    <3> QED
      BY <3>1 DEF Entry
  <2> HIDE DEF o
  <2>3. /\ inode' \in [Slot -> Entry]
        /\ ~ inode'[s].lock /\ inode'[s].count = o.count /\ inode'[s].ino = o.ino
        /\ \A t \in Slot : t # s => inode'[t] = inode[t]
        /\ chan' \in [Proc -> 0 .. NINODE + 2] /\ Sleepers'
    BY <1>2, <2>1, <2>2, PreleOK DEF super
  <2>4. Fits("user", Idle) /\ "user" \in Labels /\ ~ InDir("user", Idle) /\ ~ Working("user", Idle)
    BY IdleFrame DEF Fits, CurOf, Labels, InDir, Working, ByName
  <2>5. /\ pc'[p] = "user" /\ u'[p] = Idle /\ pc' \in [Proc -> Labels] /\ u' \in [Proc -> Frame]
        /\ \A q \in Proc : q # p => pc'[q] = pc[q] /\ u'[q] = u[q]
    BY <2>1, <2>4, IdleFrame, MovesTo DEF InodeInv
  <2>6. /\ files' \in [Proc -> [Slot -> 0 .. NFILE]]
        /\ \A q \in Proc : q # p => files'[q] = files[q]
        /\ \A t \in Slot : files'[p][t] = IF t = s THEN files[p][s] + fs ELSE files[p][t]
    <3>1. files \in [Proc -> [Slot -> 0 .. NFILE]]
      BY DEF InodeInv, TypeOK, ProcsOK
    <3>2. files[p][s] + fs \in 0 .. NFILE
      <4>1. NOpen \in Nat /\ files[p][s] =< NOpen /\ files[p][s] \in Nat
        BY <1>2, <3>1, OpenBound DEF InodeInv
      <4> QED
        BY <1>5, <4>1, Numbers
    <3>3. [files[p] EXCEPT ![s] = files[p][s] + fs] \in [Slot -> 0 .. NFILE]
      BY <3>1, <3>2
    <3>4. files' = [files EXCEPT ![p] = [files[p] EXCEPT ![s] = files[p][s] + fs]]
      BY <2>1, <3>1
    <3> QED
      BY <1>2, <3>1, <3>3, <3>4
  <2>7. TypeOK'
    BY <1>4, <2>3, <2>5, <2>6 DEF InodeInv, TypeOK, ProcsOK
  <2>8. Others(p) /\ CallOK(p)'
    BY <2>4, <2>5, <2>6 DEF Others, CallOK, Last
  <2>9. EntryStep(p)
    <3>1. \A t \in Slot : ~ HoldsInode(p, t)'
      BY <2>4, <2>5, Holds
    <3> QED
      BY <1>2, <2>3, <3>1, EntryKept
  <2>10. CountStep(p)
    <3>1. ASSUME NEW t \in Slot PROVE t # 0 /\ files[p][t] \in Int /\ inode[t].count \in Int
      BY Numbers, Here DEF Entry
    <3>2. ASSUME NEW t \in Slot PROVE Refs(p, t)' - Refs(p, t) = IF t = s THEN fs - 1 ELSE 0
      BY <1>2, <2>5, <2>6, <3>1, IdleFrame DEF Refs
    <3> QED
      BY <2>2, <2>3, <3>1, <3>2 DEF CountStep
  <2>11. OneEntry' /\ FreeList'
    <3>1. SameEntries
      BY <1>2, <2>2, <2>3 DEF SameEntries
    <3> QED
      BY <3>1, StepEntries DEF InodeInv
  <2>12. DirStep(p) /\ ListStep(p)
    BY <1>3, <2>4, <2>5, Holds, DirQuiet, ListQuiet DEF super
  <2> QED
    BY <2>3, <2>7, <2>8, <2>9, <2>10, <2>11, <2>12 DEF StepOK
<1>6. CASE ~ (NOpen + fs <= NFILE)
  <2> DEFINE o == IF u[p].op = "pipe" THEN "no pipe" ELSE u[p].op
             x == [u[p] EXCEPT !.op = o]
  <2>1. /\ inode' = [inode EXCEPT ![s] = e] /\ UNCHANGED <<files, chan>>
        /\ Moves(p, "iput", x)
    BY <1>6 DEF Opened, Goes, Moves
  <2>2. x \in Frame /\ x.op = o /\ x.ip = s /\ x.xp = 0 /\ x.name = u[p].name
    <3>1. o \in Ops
      BY DEF Ops, ByName
    <3> HIDE DEF o
    <3> QED
      BY <1>2, <3>1 DEF Frame
  <2> HIDE DEF x
  <2>3. Fits("iput", x) /\ CurOf(x) = s /\ Working("iput", x) /\ ~ InDir("iput", x) /\ "iput" \in Labels
    BY <1>2, <2>2 DEF Fits, CurOf, Working, InDir, Labels, ByName
  <2> HIDE DEF s
  <2> QED
    BY <1>1, <1>2, <1>3, <1>4, <2>1, <2>2, <2>3, WorksOn DEF super, s
<1> QED
  BY <1>5, <1>6

LEMMA OpenOK ==
  ASSUME InodeInv, NEW p \in Proc, Open(p)
  PROVE  StepOK(p)
<1> DEFINE s == u[p].ip
           b == inode[s].upd \/ (u[p].op = "creat" /\ inode[s].mode # 0)
           e == [inode[s] EXCEPT !.upd = b]
<1>1. /\ pc[p] = "got" /\ u[p].op \in {"open", "creat"}
      /\ UNCHANGED <<dev, dir, ifreelist, super, uinode, may>>
  BY DEF Open, At
<1>2. CurOf(u[p]) = s /\ Working(pc[p], u[p])
  BY <1>1 DEF CurOf, Working
<1>3. inode[s] \in Entry
  BY <1>2, AtWork
<1>4. b \in BOOLEAN
  BY <1>3 DEF Entry
<1>5. Opened(p, s, e, 1)
  BY DEF Open
<1> HIDE DEF b
<1>6. e \in Entry /\ e.lock = inode[s].lock /\ e.want = inode[s].want
      /\ e.count = inode[s].count /\ e.ino = inode[s].ino
  BY <1>3, <1>4 DEF Entry
<1> HIDE DEF e
<1>7. DiskOK'
  BY <1>1, Unmoved DEF dir
<1> QED
  BY <1>1, <1>5, <1>6, <1>7, OpenedOK DEF dir

LEMMA IsyncOK ==
  ASSUME InodeInv, NEW p \in Proc, Isync(p)
  PROVE  StepOK(p)
<1> DEFINE s == u[p].ip
           r == u[p]
<1>1. /\ pc[p] = "isync" /\ UNCHANGED <<dir, ifreelist, super, uinode, may>>
      /\ r \in Frame /\ Fits("isync", r) /\ inode \in [Slot -> Entry]
  BY Here DEF Isync, At
<1>2. CurOf(r) = s /\ r.xp = 0 /\ Working(pc[p], r) /\ r.op \in {"link", "new", "pipe"}
  BY <1>1 DEF Fits, CurOf, Working
<1>3. s \in Slot /\ inode[s] \in Entry /\ inode[s].count \in Nat \ {0} /\ HoldsInode(p, s) /\ inode[s].lock
  BY <1>2, AtWork
<1>4. PICK ok \in BOOLEAN, e \in {Clean(inode[s]), inode[s]} :
        /\ Iupdat(s) \/ UNCHANGED dev
        /\ \/ /\ r.op = "link" /\ Prele(s, e)
              /\ Goes(p, "namei")
              /\ u' = [u EXCEPT ![p] = Errs([u[p] EXCEPT !.op = "link2", !.name = u[p].to], ~ ok)]
              /\ UNCHANGED files
           \/ /\ r.op = "new"
              /\ inode' = [inode EXCEPT ![s] = e]
              /\ Goes(p, "wdir")
              /\ u' = [u EXCEPT ![p] = Errs(u[p], ~ ok)]
              /\ UNCHANGED <<files, chan>>
           \/ /\ r.op = "pipe" /\ Opened(p, s, e, 2)
  BY DEF Isync, Reads
<1>5. e \in Entry /\ e.lock = inode[s].lock /\ e.want = inode[s].want
      /\ e.count = inode[s].count /\ e.ino = inode[s].ino
  BY <1>3, CleanEntry
<1>6. DiskOK' /\ ListOK'
  <2>1. dlock' \in BOOLEAN
    BY <1>1 DEF dir, InodeInv, TypeOK, ListOK
  <2> QED
    BY <1>1, <1>3, <1>4, <2>1, IupdatOK, Unmoved, Unlisted DEF dir
<1>7. CASE r.op = "pipe"
  BY <1>1, <1>4, <1>5, <1>6, <1>7, OpenedOK DEF dir
<1>8. CASE r.op = "new"
  <2> DEFINE x == Errs(r, ~ ok)
  <2>1. inode' = [inode EXCEPT ![s] = e] /\ Moves(p, "wdir", x) /\ UNCHANGED <<files, chan>>
    BY <1>4, <1>8 DEF Moves, Goes
  <2>2. x \in Frame /\ x.op = r.op /\ x.ip = r.ip /\ x.xp = r.xp /\ x.name = r.name /\ CurOf(x) = s
    BY <1>1, <1>2, ErrsTo
  <2> HIDE DEF x
  <2>3. Fits("wdir", x) /\ Working("wdir", x) /\ InDir("wdir", x) /\ InDir(pc[p], r) /\ "wdir" \in Labels
    BY <1>1, <1>2, <1>3, <1>8, <2>2 DEF Fits, Working, InDir, Labels, CurOf, ByName
  <2> HIDE DEF s
  <2> QED
    BY <1>1, <1>2, <1>3, <1>5, <1>6, <2>1, <2>2, <2>3, WorksOn DEF dir, super
<1>9. CASE r.op = "link"
  <2> DEFINE y == [r EXCEPT !.op = "link2", !.name = r.to]
             x == Errs(y, ~ ok)
  <2>1. Prele(s, e) /\ Moves(p, "namei", x) /\ UNCHANGED files
    BY <1>4, <1>9 DEF Moves, Goes
  <2>2. x \in Frame /\ x.op = "link2" /\ x.name = r.to /\ x.ip = s /\ x.xp = 0
    <3>1. "link2" \in Ops
      BY DEF Ops, ByName
    <3>2. y \in Frame /\ y.op = "link2" /\ y.name = r.to /\ y.ip = s /\ y.xp = 0
      BY <1>1, <1>2, <3>1 DEF Frame
    <3> HIDE DEF y
    <3> QED
      BY <3>2, ErrsTo
  <2> HIDE DEF x
  <2>3. Fits("namei", x)
    BY <1>1, <1>3, <1>9, <2>2 DEF Fits, CurOf, ByName
  <2>4. ~ Working("namei", x) /\ ~ InDir("namei", x) /\ ~ InDir(pc[p], r) /\ "namei" \in Labels
    BY <1>1, <1>9 DEF Working, InDir, Labels
  <2>5. /\ inode' \in [Slot -> Entry]
        /\ ~ inode'[s].lock /\ inode'[s].count = e.count /\ inode'[s].ino = e.ino
        /\ \A t \in Slot : t # s => inode'[t] = inode[t]
        /\ chan' \in [Proc -> 0 .. NINODE + 2] /\ Sleepers'
    BY <1>1, <1>3, <1>5, <2>1, PreleOK DEF dir, super
  <2>6. /\ pc'[p] = "namei" /\ u'[p] = x /\ pc' \in [Proc -> Labels] /\ u' \in [Proc -> Frame]
        /\ \A q \in Proc : q # p => pc'[q] = pc[q] /\ u'[q] = u[q]
    BY <2>1, <2>2, <2>4, MovesTo DEF InodeInv
  <2>7. TypeOK'
    BY <1>1, <1>6, <2>1, <2>5, <2>6 DEF InodeInv, TypeOK, ProcsOK
  <2>8. Others(p) /\ CallOK(p)'
    BY <2>1, <2>3, <2>6 DEF Others, CallOK, Last
  <2>9. EntryStep(p)
    <3>1. \A t \in Slot : ~ HoldsInode(p, t)'
      BY <2>4, <2>6, Holds
    <3> QED
      BY <1>3, <2>5, <3>1, EntryKept
  <2>10. CountStep(p)
    <3>1. \A t \in Slot : Refs(p, t)' = Refs(p, t)
      BY <1>2, <2>1, <2>2, <2>6, CountSame
    <3>2. \A t \in Slot : Refs(p, t) \in Int /\ inode[t].count \in Int /\ inode'[t].count = inode[t].count
      BY <1>1, <1>5, <2>5, RefsNat, Numbers DEF InodeInv, Entry
    <3> QED
      BY <3>1, <3>2 DEF CountStep
  <2>11. OneEntry' /\ FreeList'
    <3>1. SameEntries
      BY <1>1, <1>5, <2>5 DEF SameEntries
    <3> QED
      BY <3>1, StepEntries DEF InodeInv
  <2>12. DirStep(p) /\ ListStep(p)
    BY <1>1, <2>4, <2>6, Holds, DirQuiet, ListQuiet DEF dir, super
  <2> QED
    BY <2>5, <2>7, <2>8, <2>9, <2>10, <2>11, <2>12 DEF StepOK
<1> QED
  BY <1>2, <1>7, <1>8, <1>9


------------------------------------------------------------------------------
LEMMA InodeInit == Init => InodeInv
<1> SUFFICES ASSUME Init PROVE InodeInv
  OBVIOUS
<1>1. \A p \in Proc : pc[p] = "user" /\ u[p] = Idle /\ chan[p] = 0
  BY DEF Init
<1>2. \A s \in Slot : inode[s] = [ino |-> 0, lock |-> FALSE, want |-> FALSE, count |-> 0, upd |-> FALSE,
                                  syn |-> FALSE, mode |-> 0, nlink |-> 0]
  BY DEF Init
<1>3. TypeOK
  <2>1. DiskOK
    <3>1. \A i \in Ino : Cardinality(Named(Links0, i)) \in Int
      BY FS_Subset, FS_CardinalityType, InodeAssumption DEF Named
    <3>2. dino \in [Ino -> Record] /\ disk \in [Ino -> Record]
      BY <3>1 DEF Init, Record
    <3> QED
      BY <3>2, InodeAssumption DEF Init, DiskOK
  <2>2. ListOK
    <3>1. sninode = 0 /\ sinode = [k \in 0 .. NICINOD - 1 |-> 0] /\ ~ silock /\ ~ dlock /\ ~ uinode
      BY DEF Init
    <3>2. silock \in BOOLEAN /\ dlock \in BOOLEAN /\ uinode \in BOOLEAN
      BY DEF Init
    <3>3. sninode \in 0 .. NICINOD /\ sinode \in [0 .. NICINOD - 1 -> 0 .. NINO]
      BY <3>1, Numbers
    <3> QED
      BY <3>2, <3>3 DEF ListOK
  <2>3. ProcsOK
    <3>1. u \in [Proc -> Frame]
      BY IdleFrame DEF Init
    <3>2. pc \in [Proc -> Labels] /\ chan \in [Proc -> 0 .. NINODE + 2] /\ files \in [Proc -> [Slot -> 0 .. NFILE]]
      BY InodeAssumption DEF Init, Labels
    <3>3. may \in [Proc -> SUBSET (Calls \X ({0} \cup Name))]
      BY InodeAssumption DEF Init
    <3> QED
      BY <3>1, <3>2, <3>3 DEF ProcsOK
  <2>4. inode \in [Slot -> Entry]
    BY Numbers DEF Init, Entry
  <2> QED
    BY <2>1, <2>2, <2>3, <2>4 DEF TypeOK
<1>4. \A p \in Proc : CallOK(p)
  <2>1. Fits("user", Idle)
    BY DEF Fits, CurOf, Idle, ByName
  <2> QED
    BY <1>1, <2>1 DEF CallOK, Last
<1>5. Locks
  <2>1. ASSUME NEW p \in Proc
        PROVE  ~ HoldsDir(p) /\ pc[p] # "search" /\ \A s \in Slot : ~ HoldsInode(p, s)
    <3>1. pc[p] = "user" /\ u[p].op = "none"
      BY <1>1, IdleFrame
    <3> QED
      BY <3>1 DEF HoldsDir, HoldsInode
  <2>2. ~ dlock /\ ~ silock /\ \A s \in Slot : ~ inode[s].lock
    BY <1>2 DEF Init
  <2>3. Sleepers
    BY <1>1, Numbers, InodeAssumption DEF Sleepers, DIR, ILIST
  <2> QED
    BY <2>1, <2>2, <2>3 DEF Locks, EntryLocks, DirLock, ListLock
<1>6. Counts
  <2>1. ASSUME NEW s \in Slot PROVE RefsOf(s) = 0
    <3>1. \A p \in Proc : Refs(p, s) = 0
      BY <1>1, Numbers DEF Init, Refs, Idle
    <3>2. {x \in Proc \X (1 .. NFILE + 2) : x[2] <= Refs(x[1], s)} = {}
      BY <3>1
    <3> QED
      BY <3>2, FS_EmptySet DEF RefsOf
  <2> QED
    BY <1>2, <2>1 DEF Counts
<1>7. OneEntry
  BY <1>2 DEF OneEntry
<1>8. FreeList
  <2>1. ifreelist \in Seq(Slot) /\ Len(ifreelist) = NINODE /\ \A s \in Slot : ifreelist[s] = s
    <3>1. ifreelist = [s \in 1 .. NINODE |-> s] /\ NINODE \in Nat
      BY InodeAssumption DEF Init, Slot
    <3>2. ifreelist \in Seq(Slot) /\ Len(ifreelist) = NINODE
      BY <3>1 DEF Slot
    <3> QED
      BY <3>1, <3>2 DEF Slot
  <2> QED
    BY <1>2, <2>1 DEF FreeList, Slot
<1> QED
  BY <1>3, <1>4, <1>5, <1>6, <1>7, <1>8 DEF InodeInv

(* The delayed writes, and a step of another module, change nothing of the *)
(* table.                                                                  *)
LEMMA TableAlone ==
  ASSUME InodeInv, DiskOK',
         UNCHANGED <<dlock, table, super, files, uinode, may, pc, chan, u>>
  PROVE  InodeInv'
<1> USE DEF table, super
<1>1. TypeOK'
  BY DEF InodeInv, TypeOK, ListOK, ProcsOK
<1>2. (\A p \in Proc : CallOK(p))'
  <2> SUFFICES ASSUME NEW p \in Proc PROVE CallOK(p)'
    OBVIOUS
  <2>1. Fits(pc[p], u[p]) /\ Last(p)
    BY DEF InodeInv, CallOK
  <2>2. Fits(pc[p], u[p])' /\ Last(p)'
    BY <2>1 DEF Last, Cur
  <2> QED
    BY <2>2 DEF CallOK
<1>3. Locks'
  <2>1. EntryLocks'
    BY DEF InodeInv, Locks, EntryLocks, HoldsInode, Cur
  <2>2. DirLock'
    BY DEF InodeInv, Locks, DirLock, HoldsDir
  <2>3. ListLock'
    BY DEF InodeInv, Locks, ListLock
  <2>4. Sleepers'
    BY DEF InodeInv, Locks, Sleepers, DIR, ILIST
  <2> QED
    BY <2>1, <2>2, <2>3, <2>4 DEF Locks
<1>4. Counts'
  BY DEF InodeInv, Counts, RefsOf, Refs
<1>5. OneEntry' /\ FreeList'
  BY DEF InodeInv, OneEntry, FreeList
<1> QED
  BY <1>1, <1>2, <1>3, <1>4, <1>5 DEF InodeInv

LEMMA FlushOK ==
  ASSUME InodeInv, Flush
  PROVE  InodeInv'
<1>1. DiskOK'
  BY DEF Flush, InodeInv, TypeOK, DiskOK
<1> QED
  BY <1>1, TableAlone DEF Flush

LEMMA InodeStep == InodeInv /\ [Next]_vars => InodeInv'
<1> SUFFICES ASSUME InodeInv, [Next]_vars PROVE InodeInv'
  OBVIOUS
<1>1. ASSUME NEW p \in Proc, Step(p) PROVE StepOK(p)
  <2>1. CASE IgetFound(p) \/ IgetNone(p) \/ IgetNew(p) \/ Iread(p)
    BY <2>1, IgetFoundOK, IgetNoneOK, IgetNewOK, IreadOK
  <2>2. CASE IputCount(p) \/ IputLast(p) \/ IputFrees(p) \/ IputRelease(p) \/ IupdatPut(p)
    BY <2>2, IputCountOK, IputLastOK, IputFreesOK, IputReleaseOK, IupdatPutOK
  <2>3. CASE Open(p) \/ Link(p) \/ LinkFails(p) \/ LinkOut(p) \/ Unlink(p) \/ DirPut(p) \/ Wdir(p)
    BY <2>3, OpenOK, LinkOK, LinkFailsOK, LinkOutOK, UnlinkOK, DirPutOK, WdirOK
  <2>4. CASE Ialloc(p) \/ IallocGot(p) \/ Isync(p) \/ SearchBlock(p)
    BY <2>4, IallocOK, IallocGotOK, IsyncOK, SearchBlockOK
  <2>5. CASE Namei(p) \/ NameiFound(p) \/ NameiNone(p) \/ NameiError(p)
           \/ Closef(p) \/ SyncNext(p)
    BY <2>5, NameiOK, NameiFoundOK, NameiNoneOK, NameiErrorOK, ClosefOK, SyncNextOK
  <2> QED
    BY <1>1, <2>1, <2>2, <2>3, <2>4, <2>5 DEF Step
<1>2. ASSUME NEW p \in Proc, User(p) PROVE StepOK(p)
  BY <1>2, CallsOK, PipeOK, CloseOK, SyncOK DEF User
<1>3. CASE \E p \in Proc : Step(p) \/ User(p)
  BY <1>1, <1>2, <1>3, StepKeeps
<1>4. CASE Flush
  BY <1>4, FlushOK
<1>5. CASE UNCHANGED vars
  <2>1. DiskOK'
    BY <1>5 DEF InodeInv, TypeOK, DiskOK, vars, dev, dir
  <2> QED
    BY <1>5, <2>1, TableAlone DEF vars, dir
<1> QED
  BY <1>3, <1>4, <1>5 DEF Next

(* The inode table is sound at every step of every call: i_count is the    *)
(* number of files and calls that have the entry, the entries without a    *)
(* reference are in the free list, each once, no inode has two entries,    *)
(* and a lock is set for as long as the call that took it needs it         *)
(* (iget() .. iput(), plock() .. prele(), ialloc() and its s_ilock).       *)
THEOREM InodeInvariance == Spec => []InodeInv
<1> QED
  BY InodeInit, InodeStep, PTL DEF Spec

LEMMA FreeCounted ==
  ASSUME InodeInv
  PROVE  Len(ifreelist) = Cardinality({s \in Slot : inode[s].count = 0})
<1> DEFINE F == {s \in Slot : inode[s].count = 0}
           n == Len(ifreelist)
<1>1. n \in Nat /\ ifreelist \in [1 .. n -> Slot]
  BY DEF InodeInv, FreeList
<1>2. ifreelist \in [1 .. n -> F]
  <2>1. \A k \in 1 .. n : ifreelist[k] \in F
    BY <1>1 DEF InodeInv, FreeList
  <2> QED
    BY <1>1, <2>1
<1>3. ifreelist \in Bijection(1 .. n, F)
  BY <1>2, Fun_IsBij DEF InodeInv, FreeList
<1>4. ExistsBijection(1 .. n, F)
  BY <1>3 DEF ExistsBijection
<1>5. IsFiniteSet(1 .. n) /\ Cardinality(1 .. n) = n
  BY SMTT(30), <1>1, FS_Interval
<1>6. Cardinality(F) = Cardinality(1 .. n)
  BY <1>4, <1>5, FS_Bijection
<1> QED
  BY <1>5, <1>6

(* i_count of every entry is exact, and the free list with it: what the    *)
(* run of the small instance checks, for any number of processes, names,   *)
(* entries, inodes and files, with links that fail, full tables and blocks *)
(* that cannot be read.                                                    *)
THEOREM CountsExact == Spec => []CountExact
<1>1. InodeInv => CountExact
  <2> SUFFICES ASSUME InodeInv PROVE CountExact
    OBVIOUS
  <2>1. \A s \in Slot : inode[s].count = 0 => \E k \in DOMAIN ifreelist : ifreelist[k] = s
    BY DEF InodeInv, FreeList
  <2>2. \A s \in Slot : (inode[s].ino = 0) = (inode[s].count = 0)
    BY DEF InodeInv, OneEntry
  <2>3. /\ \A s \in Slot : inode[s].count = RefsOf(s)
        /\ \A s, t \in Slot : s # t /\ inode[s].ino = inode[t].ino => inode[s].ino = 0
    BY DEF InodeInv, Counts, OneEntry
  <2> QED
    BY <2>1, <2>2, <2>3, FreeCounted DEF CountExact
<1> QED
  BY <1>1, InodeInvariance, PTL

LEMMA OneHolder ==
  ASSUME NEW H \in SUBSET Proc, NEW lock \in BOOLEAN,
         lock <=> H # {}, \A p, q \in H : p = q
  PROVE  Cardinality(H) = IF lock THEN 1 ELSE 0
<1>1. CASE lock
  <2>1. PICK p \in H : TRUE
    BY <1>1
  <2>2. H = {p}
    BY <2>1
  <2> QED
    BY <1>1, <2>2, FS_Singleton
<1>2. CASE ~ lock
  BY <1>2, FS_EmptySet
<1> QED
  BY <1>1, <1>2

(* Each lock of the inodes - ILOCK of an entry and of the directory,       *)
(* s_ilock - is held by one call when it is set and by none when it is     *)
(* not, and who sleeps for one sleeps for a lock that is set, with IWANT,  *)
(* so that prele() wakes it.                                               *)
THEOREM LocksAreHeld == Spec => []LocksHeld
<1>1. InodeInv => LocksHeld
  <2> SUFFICES ASSUME InodeInv PROVE LocksHeld
    OBVIOUS
  <2>1. ASSUME NEW s \in Slot
        PROVE  Cardinality({p \in Proc : HoldsInode(p, s)}) = IF inode[s].lock THEN 1 ELSE 0
    <3> DEFINE H == {p \in Proc : HoldsInode(p, s)}
    <3>1. inode[s].lock \in BOOLEAN
      BY DEF InodeInv, TypeOK, Entry
    <3>2. H \in SUBSET Proc /\ (inode[s].lock <=> H # {}) /\ \A p, q \in H : p = q
      BY DEF InodeInv, Locks, EntryLocks
    <3> HIDE DEF H
    <3>3. Cardinality(H) = IF inode[s].lock THEN 1 ELSE 0
      BY <3>1, <3>2, OneHolder
    <3> QED
      BY <3>3 DEF H
  <2>2. Cardinality({p \in Proc : HoldsDir(p)}) = IF dlock THEN 1 ELSE 0
    <3> DEFINE H == {p \in Proc : HoldsDir(p)}
    <3>1. dlock \in BOOLEAN
      BY DEF InodeInv, TypeOK, ListOK
    <3>2. H \in SUBSET Proc /\ (dlock <=> H # {}) /\ \A p, q \in H : p = q
      BY DEF InodeInv, Locks, DirLock
    <3> HIDE DEF H
    <3>3. Cardinality(H) = IF dlock THEN 1 ELSE 0
      BY <3>1, <3>2, OneHolder
    <3> QED
      BY <3>3 DEF H
  <2>3. Cardinality({p \in Proc : pc[p] = "search"}) = IF silock THEN 1 ELSE 0
    <3> DEFINE H == {p \in Proc : pc[p] = "search"}
    <3>1. silock \in BOOLEAN
      BY DEF InodeInv, TypeOK, ListOK
    <3>2. H \in SUBSET Proc /\ (silock <=> H # {}) /\ \A p, q \in H : p = q
      BY DEF InodeInv, Locks, ListLock
    <3> HIDE DEF H
    <3>3. Cardinality(H) = IF silock THEN 1 ELSE 0
      BY <3>1, <3>2, OneHolder
    <3> QED
      BY <3>3 DEF H
  <2> QED
    BY <2>1, <2>2, <2>3 DEF LocksHeld, InodeInv, Locks, Sleepers
<1> QED
  BY <1>1, InodeInvariance, PTL

==============================================================================
