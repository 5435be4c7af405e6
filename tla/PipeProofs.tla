------------------------------ MODULE PipeProofs ------------------------------
(***************************************************************************)
(* A pipe of any size, with any number of processes, each reading and      *)
(* writing any number of bytes: the lock of the inode, the counts, the     *)
(* pointers, that nobody sleeps for what is there, and that the pipe is a  *)
(* stream.                                                                 *)
(***************************************************************************)
EXTENDS Pipe, FiniteSetTheorems, SequenceTheorems, TLAPS

Place == {"user", "plock", "read", "write", "closep", "read block",
          "write block", "slept", "opening", "back"}

(* What the calls keep: where they are and what they ask for.              *)
Field == {"job", "file", "count", "usave", "offset", "waited", "total", "put", "got", "told"}

Frame(r) ==
  /\ DOMAIN r = Field
  /\ r.job \in {"none", "read", "write", "closep"}
  /\ r.file \in Modes \cup {{}}
  /\ r.count \in Nat /\ r.usave \in Nat
  /\ r.offset \in 0 .. PIPSIZ - 1
  /\ r.job = "closep" => r.file \in Modes

Frames ==
  /\ pc \in [Proc -> Place]
  /\ DOMAIN u = Proc
  /\ \A p \in Proc : Frame(u[p]) /\ (pc[p] = "opening" => u[p].file \in Modes)

(* What a call does follows from where it is.                              *)
JobFits(l, job) ==
  /\ l \in {"user", "opening", "back"} => job = "none"
  /\ l = "plock" => job \in {"read", "write", "closep"}
  /\ l = "slept" => job \in {"read", "write"}
  /\ l \in {"read", "write", "closep"} => job = l
  /\ l = "read block" => job = "read"
  /\ l = "write block" => job = "write"

Jobs == \A p \in Proc :
  /\ JobFits(pc[p], u[p].job)
  /\ u[p].job = "write" => \E f \in files[p] : "w" \in f
  /\ pc[p] = "opening" => files[p] = {}

(* The lock of the inode has one holder, who does not sleep, and who       *)
(* sleeps for it has set IWANT.                                            *)
Holds(p) == pc[p] \in {"read", "write", "closep", "read block", "write block"}

PipeLocked ==
  /\ \A p \in Proc : chan[p] # "none" => pc[p] \in {"plock", "slept", "opening"}
  /\ locked <=> \E p \in Proc : Holds(p)
  /\ \A p, q \in Proc : Holds(p) /\ Holds(q) => p = q
  /\ \A p \in Proc : chan[p] = "ip" <=> (chan[p] # "none" /\ pc[p] = "plock")
  /\ \A p \in Proc : chan[p] = "ip" => locked /\ want

(* The holder that writes has room for what it writes. *)
Fits == \A p \in Proc : pc[p] = "write block" => u[p].count + size <= PIPSIZ

(* Who sleeps has reason to, or the holder is about to wake it, and the    *)
(* flag is set that makes it.                                              *)
SleepersHeard == \A p \in Proc :
  /\ pc[p] = "slept" /\ chan[p] = "frcnt" =>
       /\ "IFIR" \in fflag /\ fwcnt > 0
       /\ size = 0 \/ \E q \in Proc : pc[q] = "write block"
  /\ pc[p] = "slept" /\ chan[p] = "fwcnt" =>
       /\ "IFIW" \in fflag /\ frcnt > 0
       /\ \/ u[p].count + size > PIPSIZ /\ (u[p].count > PIPSIZ => size = PIPSIZ)
          \/ \E q \in Proc : pc[q] = "read block"
  /\ pc[p] = "opening" /\ chan[p] = "frcnt" => frcnt = 0
  /\ pc[p] = "opening" /\ chan[p] = "fwcnt" => fwcnt = 0 /\ size = 0

PipeInv == TypeOK /\ Frames /\ Jobs /\ PipeLocked /\ Fits /\ CountsExact /\ SleepersHeard

------------------------------------------------------------------------------
(* Arithmetic and finite sets.                                             *)

(* A pipe holds at least one byte.                                         *)
LEMMA PIPSIZNat == PIPSIZ \in Nat \ {0}
BY PipeAssumption DEF PIPSIZ

(* Bytes that go from a call to the pipe, and from the pipe to a call.     *)
LEMMA MovedIn ==
  /\ \A c, c2, s, s2, n \in Nat : c + s <= n /\ s2 > s /\ c2 + s2 = c + s => s < n /\ c2 + s2 <= n
  /\ \A c, s, s2, n \in Nat : s < n /\ s2 > s /\ c + s > n /\ (c > n => s = n) => c + s2 > n /\ ~(c > n)
OBVIOUS

(* There is room before bytes that fit are put in.                         *)
LEMMA RoomLeft == \A c, s, s2, n \in Nat : s2 > s /\ c + s2 <= n => s < n
OBVIOUS

(* What writei() puts in still fits, and is what the call has less.        *)
LEMMA MovedOn ==
  \A c, s, k \in Nat, n \in Int : n > 0 /\ n <= c /\ c + s <= k =>
    c - n \in Nat /\ s + n \in 0 .. k /\ s + n > s /\ (c - n) + (s + n) = c + s
OBVIOUS

(* What readi() takes was there, and was asked for.                        *)
LEMMA MovedOut ==
  \A c, k, s \in Nat, n \in Int : s <= k /\ n > 0 /\ n <= c /\ n <= s =>
    c - n \in Nat /\ s - n \in 0 .. k /\ s > 0 /\ s - n < s
OBVIOUS

(* An offset that goes on is an offset.                                    *)
LEMMA SumNat == \A a \in Nat, n \in Int : n > 0 => a + n \in Nat
OBVIOUS

(* An offset stays in the pipe.                                            *)
LEMMA ModRange == \A a \in Nat, k \in Nat \ {0} : a % k \in 0 .. k - 1
OBVIOUS

(* The least of what bmap() and the call allow.                            *)
LEMMA LeastOfTwo ==
  ASSUME NEW a \in Int, NEW b \in Int
  PROVE  Least({a, b}) \in Int /\ Least({a, b}) <= a /\ Least({a, b}) <= b
<1>1. \E x \in {a, b} : \A y \in {a, b} : x <= y
  OBVIOUS
<1> QED BY <1>1 DEF Least

(* And of what the pipe has.                                               *)
LEMMA LeastOfThree ==
  ASSUME NEW a \in Int, NEW b \in Int, NEW c \in Int
  PROVE  /\ Least({a, b, c}) \in Int
         /\ Least({a, b, c}) <= a /\ Least({a, b, c}) <= b /\ Least({a, b, c}) <= c
<1>1. \E x \in {a, b, c} : \A y \in {a, b, c} : x <= y
  OBVIOUS
<1> QED BY <1>1 DEF Least

Bit(b) == IF b THEN 1 ELSE 0

(* Two sets of processes that differ at one process at most. *)
LEMMA OneApart ==
  ASSUME NEW A \in SUBSET Proc, NEW B \in SUBSET Proc, NEW p \in Proc,
         \A q \in Proc \ {p} : q \in A <=> q \in B
  PROVE  /\ Cardinality(A) \in Nat /\ Cardinality(B) \in Nat
         /\ Cardinality(B) = Cardinality(A) + Bit(p \in B) - Bit(p \in A)
<1>1. IsFiniteSet(A) /\ IsFiniteSet(B)
  BY FS_Subset, PipeAssumption
<1>2. Cardinality(A) \in Nat /\ Cardinality(B) \in Nat
  BY <1>1, FS_CardinalityType
<1>3. CASE p \in A /\ p \notin B
  <2>1. B = A \ {p}
    BY <1>3
  <2> QED BY <1>1, <1>2, <1>3, <2>1, FS_RemoveElement DEF Bit
<1>4. CASE p \notin A /\ p \in B
  <2>1. B = A \cup {p}
    BY <1>4
  <2> QED BY <1>1, <1>2, <1>4, <2>1, FS_AddElement DEF Bit
<1>5. CASE p \in A <=> p \in B
  <2>1. A = B
    BY <1>5
  <2> QED BY <1>2, <1>5, <2>1 DEF Bit
<1> QED BY <1>3, <1>4, <1>5

(* The counts are not negative. *)
LEMMA EndsNat == ASSUME NEW m PROVE Ends(m) \in Nat
<1>1. \A A \in SUBSET Proc : Cardinality(A) \in Nat
  BY FS_Subset, FS_CardinalityType, PipeAssumption
<1>2. Having({m}) \in SUBSET Proc /\ Having({"r", "w"}) \in SUBSET Proc /\ Half(m) \in SUBSET Proc
  BY DEF Having, Half
<1> HIDE DEF Having, Half
<1> QED BY <1>1, <1>2 DEF Ends

(* A process has an end of the pipe open, or half open. *)
HalfHas(p, m) == (pc[p] = "opening" \/ u[p].job = "closep") /\ m \in u[p].file

(* Whoever has an end open is counted.                                     *)
LEMMA EndHeld ==
  ASSUME NEW m, NEW p \in Proc, HalfHas(p, m) \/ {m} \in files[p] \/ {"r", "w"} \in files[p]
  PROVE  Ends(m) > 0
<1> DEFINE A1 == Having({m}) A2 == Having({"r", "w"}) A3 == Half(m)
<1>1. A1 \in SUBSET Proc /\ A2 \in SUBSET Proc /\ A3 \in SUBSET Proc
  BY DEF Having, Half
<1>2. p \in A1 \/ p \in A2 \/ p \in A3
  BY DEF Having, Half, HalfHas
<1>3. \A A \in SUBSET Proc : IsFiniteSet(A) /\ Cardinality(A) \in Nat
  BY FS_Subset, FS_CardinalityType, PipeAssumption
<1>4. \A A \in SUBSET Proc : p \in A => Cardinality(A) > 0
  BY <1>3, FS_EmptySet
<1>5. Ends(m) = Cardinality(A1) + Cardinality(A2) + Cardinality(A3)
  BY DEF Ends
<1> HIDE DEF A1, A2, A3
<1>6. Cardinality(A1) \in Nat /\ Cardinality(A2) \in Nat /\ Cardinality(A3) \in Nat
  BY <1>1, <1>3
<1>7. Cardinality(A1) > 0 \/ Cardinality(A2) > 0 \/ Cardinality(A3) > 0
  BY <1>1, <1>2, <1>4
<1> QED BY <1>5, <1>6, <1>7

------------------------------------------------------------------------------
(* A step of process p: to place l, with r for its call.                   *)

Moves(p, l, r) ==
  /\ DOMAIN u' = Proc /\ pc' \in [Proc -> Place]
  /\ pc'[p] = l /\ u'[p] = r
  /\ \A q \in Proc \ {p} : pc'[q] = pc[q] /\ u'[q] = u[q]

(* A step that leaves p well placed keeps all the places.                  *)
LEMMA FramesKept ==
  ASSUME Frames, NEW p \in Proc, NEW l \in Place, NEW r, Moves(p, l, r), Frame(r),
         l = "opening" => r.file \in Modes
  PROVE  Frames'
BY DEF Frames, Moves, Frame

(* A step that leaves p with its job keeps all the jobs.                   *)
LEMMA JobsKept ==
  ASSUME Jobs, NEW p \in Proc, NEW l \in Place, NEW r, Moves(p, l, r), JobFits(l, r.job),
         \A q \in Proc \ {p} : files'[q] = files[q],
         r.job = "write" => \E f \in files'[p] : "w" \in f,
         l = "opening" => files'[p] = {}
  PROVE  Jobs'
BY DEF Jobs, Moves

(* What the step makes of the ends. *)
LEMMA EndsMove ==
  ASSUME NEW p \in Proc, NEW l, NEW r, Moves(p, l, r), NEW m,
         \A q \in Proc \ {p} : files'[q] = files[q]
  PROVE  /\ Ends(m) \in Nat
         /\ Ends(m)' = Ends(m)
              + Bit({m} \in files'[p]) - Bit({m} \in files[p])
              + Bit({"r", "w"} \in files'[p]) - Bit({"r", "w"} \in files[p])
              + Bit(HalfHas(p, m)') - Bit(HalfHas(p, m))
<1> DEFINE A1 == Having({m}) A2 == Having({"r", "w"}) A3 == Half(m)
           B1 == Having({m})' B2 == Having({"r", "w"})' B3 == Half(m)'
<1>1. /\ A1 \in SUBSET Proc /\ A2 \in SUBSET Proc /\ A3 \in SUBSET Proc
      /\ B1 \in SUBSET Proc /\ B2 \in SUBSET Proc /\ B3 \in SUBSET Proc
  BY DEF Having, Half
<1>2. \A q \in Proc \ {p} : (q \in A1 <=> q \in B1) /\ (q \in A2 <=> q \in B2) /\ (q \in A3 <=> q \in B3)
  BY DEF Having, Half, Moves
<1>3. /\ (p \in A1 <=> {m} \in files[p]) /\ (p \in B1 <=> {m} \in files'[p])
      /\ (p \in A2 <=> {"r", "w"} \in files[p]) /\ (p \in B2 <=> {"r", "w"} \in files'[p])
      /\ (p \in A3 <=> HalfHas(p, m)) /\ (p \in B3 <=> HalfHas(p, m)')
  BY DEF Having, Half, HalfHas
<1>4. /\ Ends(m) = Cardinality(A1) + Cardinality(A2) + Cardinality(A3)
      /\ Ends(m)' = Cardinality(B1) + Cardinality(B2) + Cardinality(B3)
  BY DEF Ends
<1> HIDE DEF A1, A2, A3, B1, B2, B3
<1>5. /\ Cardinality(A1) \in Nat /\ Cardinality(B1) = Cardinality(A1) + Bit(p \in B1) - Bit(p \in A1)
      /\ Cardinality(A2) \in Nat /\ Cardinality(B2) = Cardinality(A2) + Bit(p \in B2) - Bit(p \in A2)
      /\ Cardinality(A3) \in Nat /\ Cardinality(B3) = Cardinality(A3) + Bit(p \in B3) - Bit(p \in A3)
  BY <1>1, <1>2, OneApart
<1>6. /\ Bit(p \in A1) = Bit({m} \in files[p]) /\ Bit(p \in B1) = Bit({m} \in files'[p])
      /\ Bit(p \in A2) = Bit({"r", "w"} \in files[p]) /\ Bit(p \in B2) = Bit({"r", "w"} \in files'[p])
      /\ Bit(p \in A3) = Bit(HalfHas(p, m)) /\ Bit(p \in B3) = Bit(HalfHas(p, m)')
  BY <1>3 DEF Bit
<1>7. \A b : Bit(b) \in {0, 1}
  BY DEF Bit
<1>8. \A n1, n2, n3 \in Nat, b1, b2, b3, c1, c2, c3 \in {0, 1} :
         (n1 + c1 - b1) + (n2 + c2 - b2) + (n3 + c3 - b3)
           = (n1 + n2 + n3) + c1 - b1 + c2 - b2 + c3 - b3
  OBVIOUS
<1> QED BY <1>4, <1>5, <1>6, <1>7, <1>8

(* A count that no file or call of the step is about stays. *)
LEMMA CountsKept ==
  ASSUME CountsExact, NEW p \in Proc, NEW l, NEW r, Moves(p, l, r),
         UNCHANGED <<files, frcnt, fwcnt>>,
         \A m \in {"r", "w"} : HalfHas(p, m)' <=> HalfHas(p, m)
  PROVE  CountsExact'
<1>1. \A m \in {"r", "w"} : Ends(m)' = Ends(m)
  <2> TAKE m \in {"r", "w"}
  <2>1. Bit(HalfHas(p, m)') = Bit(HalfHas(p, m))
    BY DEF Bit
  <2>2. /\ Ends(m) \in Nat
        /\ Ends(m)' = Ends(m)
             + Bit({m} \in files'[p]) - Bit({m} \in files[p])
             + Bit({"r", "w"} \in files'[p]) - Bit({"r", "w"} \in files[p])
             + Bit(HalfHas(p, m)') - Bit(HalfHas(p, m))
    BY EndsMove
  <2>3. \A b : Bit(b) \in {0, 1}
    BY DEF Bit
  <2>4. \A n \in Nat, a, b, c \in {0, 1} : n + a - a + b - b + c - c = n
    OBVIOUS
  <2>5. Bit({m} \in files'[p]) = Bit({m} \in files[p])
        /\ Bit({"r", "w"} \in files'[p]) = Bit({"r", "w"} \in files[p])
    OBVIOUS
  <2> QED BY <2>1, <2>2, <2>3, <2>4, <2>5
<1> QED BY <1>1 DEF CountsExact

------------------------------------------------------------------------------
(* The lock, in the four kinds of step there are.                          *)

(* Who sleeps is woken or sleeps on. *)
Woke(p) == /\ DOMAIN chan' = Proc
           /\ \A q \in Proc \ {p} : chan'[q] \in {chan[q], "none"}

(* A process without the lock goes on, and may sleep in openp(). *)
LEMMA LockPassed ==
  ASSUME PipeLocked, NEW p \in Proc, NEW l, NEW r, Moves(p, l, r), Woke(p),
         ~Holds(p), l \in {"user", "plock", "opening", "back"}, UNCHANGED lock,
         chan'[p] = "none" \/ (l = "opening" /\ chan'[p] \in {"frcnt", "fwcnt"})
  PROVE  PipeLocked'
<1>1. \A q \in Proc : Holds(q)' <=> Holds(q)
  BY DEF Holds, Moves
<1>2. \A q \in Proc \ {p} : /\ chan'[q] # "none" => chan'[q] = chan[q] /\ pc'[q] = pc[q]
  BY DEF Moves, Woke
<1>3. \A q \in Proc : chan'[q] # "none" => pc'[q] \in {"plock", "slept", "opening"}
  BY <1>2 DEF PipeLocked, Moves
<1>4. \A q \in Proc : chan'[q] = "ip" <=> (chan'[q] # "none" /\ pc'[q] = "plock")
  BY <1>2 DEF PipeLocked, Moves
<1>5. \A q \in Proc : chan'[q] = "ip" => locked' /\ want'
  BY <1>2 DEF PipeLocked, lock
<1> QED BY <1>1, <1>3, <1>4, <1>5 DEF PipeLocked, lock

(* The holder goes on with the lock. *)
LEMMA LockKept ==
  ASSUME PipeLocked, NEW p \in Proc, NEW l, NEW r, Moves(p, l, r), Woke(p), Holds(p),
         l \in {"read", "write", "closep", "read block", "write block"}, UNCHANGED lock,
         chan'[p] = "none"
  PROVE  PipeLocked'
<1>1. \A q \in Proc : Holds(q)' <=> Holds(q)
  BY DEF Holds, Moves
<1>2. \A q \in Proc \ {p} : /\ chan'[q] # "none" => chan'[q] = chan[q] /\ pc'[q] = pc[q]
  BY DEF Moves, Woke
<1>3. \A q \in Proc : chan'[q] # "none" => pc'[q] \in {"plock", "slept", "opening"}
  BY <1>2 DEF PipeLocked, Moves
<1>4. \A q \in Proc : chan'[q] = "ip" <=> (chan'[q] # "none" /\ pc'[q] = "plock")
  BY <1>2 DEF PipeLocked, Moves
<1>5. \A q \in Proc : chan'[q] = "ip" => locked' /\ want'
  BY <1>2 DEF PipeLocked, lock
<1> QED BY <1>1, <1>3, <1>4, <1>5 DEF PipeLocked, lock

(* The holder unlocks, and wakes who waits for the lock; it may sleep      *)
(* then.                                                                   *)
LEMMA LockFreed ==
  ASSUME PipeLocked, NEW p \in Proc, NEW l, NEW r, Moves(p, l, r), Woke(p), Holds(p), ~locked',
         \A q \in Proc : chan'[q] # "ip",
         \/ l \in {"user", "back"} /\ chan'[p] = "none"
         \/ l = "slept" /\ chan'[p] \in {"frcnt", "fwcnt"}
  PROVE  PipeLocked'
<1>1. \A q \in Proc : ~Holds(q)'
  BY DEF Holds, Moves, PipeLocked
<1>2. \A q \in Proc \ {p} : /\ chan'[q] # "none" => chan'[q] = chan[q] /\ pc'[q] = pc[q]
  BY DEF Moves, Woke
<1>3. \A q \in Proc : chan'[q] # "none" => pc'[q] \in {"plock", "slept", "opening"}
  BY <1>2 DEF PipeLocked, Moves
<1>4. \A q \in Proc : ~(chan'[q] # "none" /\ pc'[q] = "plock")
  BY <1>2 DEF PipeLocked, Moves
<1> QED BY <1>1, <1>3, <1>4 DEF PipeLocked

(* What prele() does: who waits for the lock has set IWANT. *)
LEMMA PreleWakes ==
  ASSUME TypeOK, PipeLocked, NEW C, Prele(chan, C)
  PROVE  /\ ~locked' /\ ~want'
         /\ chan' \in [Proc -> {"none", "ip", "frcnt", "fwcnt"}]
         /\ \A q \in Proc : chan'[q] = IF chan[q] \in C \cup {"ip"} THEN "none" ELSE chan[q]
<1>1. \A q \in Proc : chan[q] = "ip" => want
  BY DEF PipeLocked
<1> QED BY <1>1 DEF Prele, Woken, TypeOK

------------------------------------------------------------------------------
(* The sleepers after a step of p that is not asleep on the pipe then, and *)
(* changes neither a count nor i_size: who is not woken keeps its flag,    *)
(* and the holder it hopes for.                                            *)
LEMMA SleepersKept ==
  ASSUME SleepersHeard, NEW p \in Proc, NEW l, NEW r, Moves(p, l, r), Woke(p),
         chan'[p] \in {"none", "ip"}, UNCHANGED <<frcnt, fwcnt, size>>,
         \A q \in Proc \ {p} : pc[q] = "slept" /\ chan'[q] = "frcnt" =>
            "IFIR" \in fflag' /\ (pc[p] = "write block" => l = "write block"),
         \A q \in Proc \ {p} : pc[q] = "slept" /\ chan'[q] = "fwcnt" =>
            "IFIW" \in fflag' /\ (pc[p] = "read block" => l = "read block")
  PROVE  SleepersHeard'
<1> SUFFICES ASSUME NEW q \in Proc
             PROVE  /\ pc'[q] = "slept" /\ chan'[q] = "frcnt" =>
                         /\ "IFIR" \in fflag' /\ fwcnt' > 0
                         /\ size' = 0 \/ \E x \in Proc : pc'[x] = "write block"
                    /\ pc'[q] = "slept" /\ chan'[q] = "fwcnt" =>
                         /\ "IFIW" \in fflag' /\ frcnt' > 0
                         /\ \/ u'[q].count + size' > PIPSIZ /\ (u'[q].count > PIPSIZ => size' = PIPSIZ)
                            \/ \E x \in Proc : pc'[x] = "read block"
                    /\ pc'[q] = "opening" /\ chan'[q] = "frcnt" => frcnt' = 0
                    /\ pc'[q] = "opening" /\ chan'[q] = "fwcnt" => fwcnt' = 0 /\ size' = 0
  BY DEF SleepersHeard
<1>1. CASE q = p
  BY <1>1
<1>2. CASE q # p
  <2>1. pc'[q] = pc[q] /\ u'[q] = u[q] /\ chan'[q] \in {chan[q], "none"}
    BY <1>2 DEF Moves, Woke
  <2>2. CASE chan'[q] = "none"
    BY <2>2
  <2>3. CASE chan'[q] = chan[q] /\ chan[q] = "frcnt"
    BY <1>2, <2>1, <2>3 DEF SleepersHeard, Moves
  <2>4. CASE chan'[q] = chan[q] /\ chan[q] = "fwcnt"
    BY <1>2, <2>1, <2>4 DEF SleepersHeard, Moves
  <2> QED BY <2>1, <2>2, <2>3, <2>4
<1> QED BY <1>1, <1>2

------------------------------------------------------------------------------
(* plock(), and what does nothing to the pipe.                             *)

(* plock(): p has the lock, or sleeps for it with IWANT set.               *)
LEMMA PlockStep ==
  ASSUME PipeInv, NEW p \in Proc, Plock(p)
  PROVE  PipeInv'
<1> USE DEF PipeInv
<1>1. TypeOK /\ Frames /\ Jobs /\ PipeLocked /\ Fits /\ CountsExact /\ SleepersHeard
  OBVIOUS
<1>2. /\ pc[p] = "plock" /\ chan[p] = "none" /\ u[p].job \in {"read", "write", "closep"}
      /\ UNCHANGED <<fifo, files, u>>
  BY DEF Plock, At, Jobs, JobFits
<1>3. PICK l \in {"plock", "read", "write", "closep"} :
        /\ Moves(p, l, u[p])
        /\ \/ locked /\ l = "plock" /\ want' /\ locked' /\ chan' = [chan EXCEPT ![p] = "ip"]
           \/ ~locked /\ l = u[p].job /\ locked' /\ UNCHANGED <<want, chan>>
  <2>1. CASE locked
    BY <1>2, <2>1 DEF Plock, Moves, Frames, TypeOK
  <2>2. CASE ~locked
    BY <1>2, <2>2 DEF Plock, Moves, Frames, Goes, Place
  <2> QED BY <2>1, <2>2
<1>4. Woke(p) /\ chan'[p] \in {"none", "ip"}
  BY <1>2, <1>3 DEF Woke, TypeOK
<1>5. TypeOK'
  BY <1>2, <1>3 DEF TypeOK, fifo
<1>6. Frames'
  BY <1>3, FramesKept DEF Frames, Place
<1>7. Jobs'
  <2>1. JobFits(l, u[p].job)
    BY <1>2, <1>3 DEF JobFits
  <2>2. u[p].job = "write" => \E f \in files'[p] : "w" \in f
    BY <1>2 DEF Jobs
  <2>3. files' = files /\ l # "opening" /\ l \in Place
    BY <1>2 DEF Place
  <2> QED BY <1>3, <2>1, <2>2, <2>3, JobsKept
<1>8. PipeLocked'
  <2>1. DOMAIN chan = Proc
    BY DEF TypeOK
  <2>2. \A q \in Proc \ {p} : chan'[q] = chan[q] /\ pc'[q] = pc[q]
    BY <1>3, <2>1 DEF Moves
  <2>3. CASE locked
    <3>1. \A q \in Proc : Holds(q)' <=> Holds(q)
      BY <1>2, <1>3, <2>2, <2>3 DEF Holds, Moves
    <3>2. chan'[p] = "ip" /\ pc'[p] = "plock"
      BY <1>3, <2>1, <2>3 DEF Moves
    <3>3. want' /\ locked' /\ locked
      BY <1>3, <2>3
    <3> QED BY <2>2, <3>1, <3>2, <3>3 DEF PipeLocked
  <2>4. CASE ~locked
    <3>1. \A q \in Proc : Holds(q)' <=> q = p
      BY <1>2, <1>3, <2>2, <2>4 DEF Holds, Moves, PipeLocked
    <3>2. chan' = chan /\ locked' /\ \A q \in Proc : chan[q] # "ip"
      BY <1>3, <2>4 DEF PipeLocked
    <3> QED BY <1>2, <2>2, <3>1, <3>2 DEF PipeLocked
  <2> QED BY <2>3, <2>4
<1>9. Fits'
  BY <1>2, <1>3 DEF Fits, Moves, fifo
<1>10. CountsExact'
  <2>1. \A m \in {"r", "w"} : HalfHas(p, m)' <=> HalfHas(p, m)
    BY <1>2, <1>3 DEF HalfHas, Moves
  <2> QED BY <1>2, <1>3, <2>1, CountsKept DEF fifo
<1>11. SleepersHeard'
  <2>1. UNCHANGED <<frcnt, fwcnt, size, fflag>>
    BY <1>2 DEF fifo
  <2>2. \A q \in Proc \ {p} : chan'[q] = chan[q]
    BY <1>3 DEF TypeOK
  <2>3. \A q \in Proc : pc[q] = "slept" =>
           /\ chan[q] = "frcnt" => "IFIR" \in fflag
           /\ chan[q] = "fwcnt" => "IFIW" \in fflag
    BY DEF SleepersHeard
  <2> QED BY <1>2, <1>3, <1>4, <2>1, <2>2, <2>3, SleepersKept
<1> QED BY <1>5, <1>6, <1>7, <1>8, <1>9, <1>10, <1>11

(* A step that changes the call of p, and perhaps the lock and the flags:  *)
(* no count, no file, not i_size, and no end that is half open.            *)
LEMMA CallStep ==
  ASSUME PipeInv, NEW p \in Proc, NEW l \in Place, NEW r, Moves(p, l, r), Frame(r), JobFits(l, r.job),
         TypeOK', PipeLocked', Woke(p), chan'[p] = "none", l # "opening",
         UNCHANGED <<frcnt, fwcnt, size, files>>,
         r.job = "write" => \E f \in files[p] : "w" \in f,
         \A m \in {"r", "w"} : HalfHas(p, m)' <=> HalfHas(p, m),
         l = "write block" => r.count + size <= PIPSIZ,
         \A q \in Proc \ {p} : pc[q] = "slept" /\ chan'[q] = "frcnt" =>
            ("IFIR" \in fflag => "IFIR" \in fflag') /\ (pc[p] = "write block" => l = "write block"),
         \A q \in Proc \ {p} : pc[q] = "slept" /\ chan'[q] = "fwcnt" =>
            ("IFIW" \in fflag => "IFIW" \in fflag') /\ (pc[p] = "read block" => l = "read block")
  PROVE  PipeInv'
<1>1. Frames'
  BY FramesKept DEF PipeInv
<1>2. Jobs'
  BY JobsKept DEF PipeInv
<1>3. Fits'
  BY DEF PipeInv, Fits, Moves
<1>4. CountsExact'
  BY CountsKept DEF PipeInv
<1>5. SleepersHeard'
  <2>1. \A q \in Proc \ {p} : chan'[q] \in {"frcnt", "fwcnt"} => chan[q] = chan'[q]
    BY DEF Woke
  <2>2. \A q \in Proc : pc[q] = "slept" =>
           /\ chan[q] = "frcnt" => "IFIR" \in fflag
           /\ chan[q] = "fwcnt" => "IFIW" \in fflag
    BY DEF PipeInv, SleepersHeard
  <2>3. \A q \in Proc \ {p} : pc[q] = "slept" /\ chan'[q] = "frcnt" =>
            "IFIR" \in fflag' /\ (pc[p] = "write block" => l = "write block")
    BY <2>1, <2>2
  <2>4. \A q \in Proc \ {p} : pc[q] = "slept" /\ chan'[q] = "fwcnt" =>
            "IFIW" \in fflag' /\ (pc[p] = "read block" => l = "read block")
    BY <2>1, <2>2
  <2> QED BY <2>3, <2>4, SleepersKept DEF PipeInv
<1> QED BY <1>1, <1>2, <1>3, <1>4, <1>5 DEF PipeInv

(* A step that begins or ends a call, out of the lock. *)
LEMMA OutsideStep ==
  ASSUME PipeInv, NEW p \in Proc, NEW l \in {"user", "plock", "back"}, NEW r,
         Moves(p, l, r), Frame(r), JobFits(l, r.job), ~Holds(p),
         UNCHANGED <<fifo, lock, files>>, chan' = [chan EXCEPT ![p] = "none"],
         r.job = "write" => \E f \in files[p] : "w" \in f,
         \A m \in {"r", "w"} : HalfHas(p, m)' <=> HalfHas(p, m)
  PROVE  PipeInv'
<1>1. TypeOK'
  BY DEF PipeInv, TypeOK, fifo, lock
<1>2. Woke(p) /\ chan'[p] = "none"
  BY DEF PipeInv, TypeOK, Woke
<1>3. PipeLocked'
  BY <1>2, LockPassed DEF PipeInv
<1>4. l \in Place /\ l # "opening" /\ l # "write block"
  BY DEF Place
<1>5. pc[p] # "write block" /\ pc[p] # "read block"
  BY DEF Holds
<1> QED BY <1>1, <1>2, <1>3, <1>4, <1>5, CallStep DEF fifo

(* A call that is over, and one that opens a file.                         *)
LEMMA NoCallFrame ==
  /\ \A how : Frame([NoCall EXCEPT !.told = how]) /\ [NoCall EXCEPT !.told = how].job = "none"
                /\ [NoCall EXCEPT !.told = how].file = {}
  /\ \A f \in Modes : /\ Frame([NoCall EXCEPT !.file = f])
                      /\ [NoCall EXCEPT !.file = f].job = "none" /\ [NoCall EXCEPT !.file = f].file = f
  /\ Frame(NoCall) /\ NoCall.job = "none"
BY PIPSIZNat DEF NoCall, Frame, Field, Modes

(* sleep() returns to plock().                                             *)
LEMMA SleptStep ==
  ASSUME PipeInv, NEW p \in Proc, Slept(p)
  PROVE  PipeInv'
<1>1. Moves(p, "plock", u[p]) /\ chan' = [chan EXCEPT ![p] = "none"]
  BY DEF Slept, At, Goes, PipeInv, Frames, Moves, Place, TypeOK
<1>2. /\ Frame(u[p]) /\ JobFits("plock", u[p].job) /\ ~Holds(p)
      /\ u[p].job = "write" => \E f \in files[p] : "w" \in f
  BY DEF Slept, At, PipeInv, Frames, Jobs, JobFits, Holds
<1>3. \A m \in {"r", "w"} : HalfHas(p, m)' <=> HalfHas(p, m)
  BY <1>1 DEF HalfHas, Moves, Slept, At
<1> QED BY <1>1, <1>2, <1>3, OutsideStep DEF Slept

(* rdwr() returns.                                                         *)
LEMMA BackStep ==
  ASSUME PipeInv, NEW p \in Proc, Back(p)
  PROVE  PipeInv'
<1>1. Moves(p, "user", NoCall) /\ chan' = [chan EXCEPT ![p] = "none"]
  BY DEF Back, At, Goes, PipeInv, Frames, Moves, Place, TypeOK
<1>2. u[p].job = "none" /\ ~Holds(p) /\ JobFits("user", NoCall.job)
  BY NoCallFrame DEF Back, At, PipeInv, Jobs, JobFits, Holds
<1>3. \A m \in {"r", "w"} : HalfHas(p, m)' <=> HalfHas(p, m)
  BY <1>1, <1>2, NoCallFrame DEF HalfHas, Moves, Back, At
<1> QED BY <1>1, <1>2, <1>3, NoCallFrame, OutsideStep DEF Back

(* read() and write() begin; write() needs an end to write to. *)
LEMMA BeginStep ==
  ASSUME PipeInv, NEW p \in Proc, NEW job \in {"read", "write"}, NEW n \in Nat, Call(p, job, n)
  PROVE  PipeInv'
<1> DEFINE r == [NoCall EXCEPT !.job = job, !.count = n, !.total = n]
<1>1. Moves(p, "plock", r) /\ chan' = [chan EXCEPT ![p] = "none"]
  BY DEF Call, At, Goes, PipeInv, Frames, Moves, Place, TypeOK
<1>2. Frame(r) /\ r.job = job
  BY PIPSIZNat DEF NoCall, Frame, Field, Modes
<1> HIDE DEF r
<1>3. u[p].job = "none" /\ ~Holds(p) /\ JobFits("plock", job) /\ pc[p] = "user" /\ chan[p] = "none"
  BY DEF Call, At, PipeInv, Jobs, JobFits, Holds
<1>4. \A m \in {"r", "w"} : HalfHas(p, m)' <=> HalfHas(p, m)
  BY <1>1, <1>2, <1>3 DEF HalfHas, Moves
<1> QED BY <1>1, <1>2, <1>3, <1>4, OutsideStep DEF Call

(* A signal: a half-done open goes to close what it has counted. *)
LEMMA InterruptedStep ==
  ASSUME PipeInv, NEW p \in Proc, Interrupted(p)
  PROVE  PipeInv'
<1>1. ~Holds(p) /\ UNCHANGED <<fifo, lock, files>> /\ chan' = [chan EXCEPT ![p] = "none"]
  BY DEF Interrupted, Holds
<1>2. CASE pc[p] = "slept"
  <2> DEFINE r == [NoCall EXCEPT !.told = "none"]
  <2>1. Moves(p, "user", r)
    BY <1>2 DEF Interrupted, Returns, Goes, PipeInv, Frames, Moves, Place
  <2>2. Frame(r) /\ r.job = "none" /\ JobFits("user", r.job)
    BY NoCallFrame DEF JobFits
  <2>3. u[p].job \in {"read", "write"}
    BY <1>2 DEF PipeInv, Jobs, JobFits
  <2> HIDE DEF r
  <2>4. \A m \in {"r", "w"} : HalfHas(p, m)' <=> HalfHas(p, m)
    BY <1>2, <2>1, <2>2, <2>3 DEF HalfHas, Moves
  <2> QED BY <1>1, <2>1, <2>2, <2>4, OutsideStep
<1>3. CASE pc[p] = "opening"
  <2> DEFINE r == [u[p] EXCEPT !.job = "closep"]
  <2>1. Moves(p, "plock", r)
    BY <1>3 DEF Interrupted, Goes, PipeInv, Frames, Moves, Place
  <2>2. Frame(r) /\ r.job = "closep" /\ r.file = u[p].file
    BY <1>3 DEF PipeInv, Frames, Frame, Field
  <2> HIDE DEF r
  <2>3. \A m \in {"r", "w"} : HalfHas(p, m)' <=> HalfHas(p, m)
    BY <1>3, <2>1, <2>2 DEF HalfHas, Moves
  <2>4. JobFits("plock", r.job)
    BY <2>2 DEF JobFits
  <2> QED BY <1>1, <2>1, <2>2, <2>3, <2>4, OutsideStep
<1> QED BY <1>2, <1>3 DEF Interrupted

------------------------------------------------------------------------------
(* The holder of the lock.                                                 *)

(* readi() and writei() unlock and are done: who is asleep and would not   *)
(* be woken later is woken now.                                            *)
LEMMA UnlockStep ==
  ASSUME PipeInv, NEW p \in Proc, NEW how, NEW C, Prele(chan, C), Returns(p, how),
         Holds(p), u[p].job \in {"read", "write"},
         frptr' \in 0 .. PIPSIZ - 1, fwptr' \in 0 .. PIPSIZ - 1, fflag' \subseteq fflag,
         UNCHANGED <<frcnt, fwcnt, size, files>>,
         "IFIR" \in fflag /\ ("IFIR" \notin fflag' \/ pc[p] = "write block") => "frcnt" \in C,
         "IFIW" \in fflag /\ ("IFIW" \notin fflag' \/ pc[p] = "read block") => "fwcnt" \in C
  PROVE  PipeInv'
<1> DEFINE r == [NoCall EXCEPT !.told = how]
           l == IF how = "none" THEN "user" ELSE "back"
<1>1. l \in {"user", "back"}
  OBVIOUS
<1>2. Moves(p, l, r)
  BY DEF Returns, Goes, PipeInv, Frames, Moves, Place
<1>3. Frame(r) /\ r.job = "none" /\ r.file = {}
  BY NoCallFrame
<1> HIDE DEF r, l
<1>4. /\ ~locked' /\ ~want'
      /\ chan' \in [Proc -> {"none", "ip", "frcnt", "fwcnt"}]
      /\ \A q \in Proc : chan'[q] = IF chan[q] \in C \cup {"ip"} THEN "none" ELSE chan[q]
  BY PreleWakes DEF PipeInv
<1>5. chan[p] = "none"
  BY DEF PipeInv, PipeLocked, Holds
<1>6. Woke(p) /\ chan'[p] = "none" /\ \A q \in Proc : chan'[q] # "ip"
  BY <1>4, <1>5 DEF Woke
<1>7. TypeOK'
  <2>1. locked' \in BOOLEAN /\ want' \in BOOLEAN
    BY DEF Prele
  <2> QED BY <1>4, <2>1 DEF PipeInv, TypeOK
<1>8. PipeLocked'
  BY <1>1, <1>2, <1>4, <1>6, LockFreed DEF PipeInv
<1>9. \A m \in {"r", "w"} : HalfHas(p, m)' <=> HalfHas(p, m)
  BY <1>1, <1>2, <1>3 DEF HalfHas, Moves, Holds
<1>10. \A q \in Proc \ {p} : pc[q] = "slept" /\ chan'[q] = "frcnt" =>
          ("IFIR" \in fflag => "IFIR" \in fflag') /\ pc[p] # "write block"
  <2>1. \A q \in Proc : pc[q] = "slept" /\ chan'[q] = "frcnt" => "IFIR" \in fflag /\ "frcnt" \notin C
    BY <1>4 DEF PipeInv, SleepersHeard
  <2> QED BY <2>1
<1>11. \A q \in Proc \ {p} : pc[q] = "slept" /\ chan'[q] = "fwcnt" =>
          ("IFIW" \in fflag => "IFIW" \in fflag') /\ pc[p] # "read block"
  <2>1. \A q \in Proc : pc[q] = "slept" /\ chan'[q] = "fwcnt" => "IFIW" \in fflag /\ "fwcnt" \notin C
    BY <1>4 DEF PipeInv, SleepersHeard
  <2> QED BY <2>1
<1>12. JobFits(l, r.job) /\ l \in Place /\ l # "opening" /\ l # "write block"
  BY <1>1, <1>3 DEF JobFits, Place
<1> QED BY <1>2, <1>3, <1>6, <1>7, <1>8, <1>9, <1>10, <1>11, <1>12, CallStep

(* readi() and writei() unlock and sleep, with a reason and their flag.    *)
LEMMA WaitStep ==
  ASSUME PipeInv, NEW p \in Proc, NEW c, NEW flag, WaitsOn(p, c, flag), pc[p] = u[p].job,
         \/ c = "frcnt" /\ flag = "IFIR" /\ pc[p] = "read" /\ size = 0 /\ fwcnt > 0
         \/ /\ c = "fwcnt" /\ flag = "IFIW" /\ pc[p] = "write" /\ frcnt > 0
            /\ u[p].count + size > PIPSIZ /\ (u[p].count > PIPSIZ => size = PIPSIZ)
  PROVE  PipeInv'
<1> DEFINE r == [u[p] EXCEPT !.waited = TRUE]
<1>1. /\ Moves(p, "slept", r)
      /\ UNCHANGED <<frcnt, fwcnt, size, frptr, fwptr, files>>
      /\ ~locked' /\ ~want' /\ locked' \in BOOLEAN /\ want' \in BOOLEAN
      /\ fflag' = fflag \cup {flag}
  BY DEF WaitsOn, Goes, PipeInv, Frames, Moves, Place
<1>2. Frame(r) /\ r.job = u[p].job /\ r.file = u[p].file /\ r.count = u[p].count
  BY DEF PipeInv, Frames, Frame, Field
<1> HIDE DEF r
<1>3. \A q \in Proc : chan[q] = "ip" => want
  BY DEF PipeInv, PipeLocked
<1>4. /\ chan' \in [Proc -> {"none", "ip", "frcnt", "fwcnt"}]
      /\ chan'[p] = c
      /\ \A q \in Proc \ {p} : chan'[q] = IF chan[q] = "ip" THEN "none" ELSE chan[q]
  BY <1>3 DEF WaitsOn, Woken, PipeInv, TypeOK
<1>5. Holds(p) /\ pc[p] \in {"read", "write"}
  BY DEF Holds
<1>6. Woke(p) /\ \A q \in Proc : chan'[q] # "ip"
  BY <1>4 DEF Woke
<1>7. TypeOK'
  BY <1>1, <1>4 DEF PipeInv, TypeOK
<1>8. PipeLocked'
  BY <1>1, <1>4, <1>5, <1>6, LockFreed DEF PipeInv
<1>9. Frames'
  BY <1>1, <1>2, FramesKept DEF PipeInv, Place
<1>10. Jobs'
  <2>1. r.job = "write" => \E f \in files'[p] : "w" \in f
    BY <1>1, <1>2 DEF PipeInv, Jobs
  <2>2. JobFits("slept", r.job) /\ "slept" \in Place
    BY <1>2, <1>5 DEF JobFits, Place
  <2> QED BY <1>1, <2>1, <2>2, JobsKept DEF PipeInv
<1>11. Fits'
  BY <1>1 DEF PipeInv, Fits, Moves
<1>12. CountsExact'
  <2>1. \A m \in {"r", "w"} : HalfHas(p, m)' <=> HalfHas(p, m)
    BY <1>1, <1>2, <1>5 DEF HalfHas, Moves
  <2> QED BY <1>1, <2>1, CountsKept DEF PipeInv
<1>13. SleepersHeard'
  <2>1. \A q \in Proc : pc[q] \notin {"read block", "write block"}
    BY <1>5 DEF PipeInv, PipeLocked, Holds
  <2>2. "IFIR" \in fflag => "IFIR" \in fflag'
    BY <1>1
  <2>3. "IFIW" \in fflag => "IFIW" \in fflag'
    BY <1>1
  <2>4. \A q \in Proc \ {p} : /\ pc'[q] = pc[q] /\ u'[q] = u[q]
                              /\ chan'[q] \in {"frcnt", "fwcnt"} => chan[q] = chan'[q]
    BY <1>1, <1>4 DEF Moves
  <2>5. pc'[p] = "slept" /\ u'[p].count = u[p].count /\ chan'[p] = c /\ flag \in fflag'
    BY <1>1, <1>2, <1>4 DEF Moves
  <2> QED BY <1>1, <2>1, <2>2, <2>3, <2>4, <2>5 DEF PipeInv, SleepersHeard
<1> QED BY <1>7, <1>8, <1>9, <1>10, <1>11, <1>12, <1>13 DEF PipeInv

(* The holder finds what it needs and begins. *)
LEMMA BlocksBegin ==
  ASSUME PipeInv, NEW p \in Proc, NEW l, NEW r, Moves(p, l, r), Frame(r),
         \/ pc[p] = "read" /\ l = "read block" /\ r.job = "read"
         \/ /\ pc[p] = "write" /\ l = "write block" /\ r.job = "write"
            /\ r.count + size <= PIPSIZ,
         UNCHANGED <<fifo, lock, files, chan>>
  PROVE  PipeInv'
<1>1. TypeOK'
  BY DEF PipeInv, TypeOK, fifo, lock
<1>2. Holds(p) /\ chan[p] = "none" /\ Woke(p) /\ u[p].job = r.job
  BY DEF PipeInv, PipeLocked, Holds, TypeOK, Woke, Jobs, JobFits
<1>3. PipeLocked'
  BY <1>2, LockKept DEF PipeInv
<1>4. l \in Place /\ l # "opening" /\ JobFits(l, r.job)
  BY DEF Place, JobFits
<1>5. r.job = "write" => \E f \in files[p] : "w" \in f
  BY <1>2 DEF PipeInv, Jobs
<1>6. \A m \in {"r", "w"} : HalfHas(p, m)' <=> HalfHas(p, m)
  BY <1>2 DEF HalfHas, Moves
<1>7. pc[p] # "write block" /\ pc[p] # "read block"
  OBVIOUS
<1>8. UNCHANGED <<frcnt, fwcnt, size, fflag>>
  BY DEF fifo
<1> QED BY <1>1, <1>2, <1>3, <1>4, <1>5, <1>6, <1>7, <1>8, CallStep

(* readi() ends, waits or begins.                                          *)
LEMMA ReadStep ==
  ASSUME PipeInv, NEW p \in Proc, Read(p)
  PROVE  PipeInv'
<1>1. pc[p] = "read" /\ u[p].job = "read" /\ Holds(p)
  BY DEF Read, At, PipeInv, Jobs, JobFits, Holds
<1>2. frptr \in 0 .. PIPSIZ - 1 /\ fwptr \in 0 .. PIPSIZ - 1
  BY DEF PipeInv, TypeOK
<1>3. CASE /\ size = 0 /\ (fwcnt = 0 \/ ~u[p].waited)
           /\ Prele(chan, {})
           /\ Returns(p, IF fwcnt = 0 THEN "eof" ELSE "none")
           /\ UNCHANGED <<fifo, files>>
  BY <1>1, <1>2, <1>3, UnlockStep DEF fifo
<1>4. CASE size = 0 /\ fwcnt > 0 /\ WaitsOn(p, "frcnt", "IFIR")
  BY <1>1, <1>4, WaitStep
<1>5. CASE /\ size > 0
           /\ Goes(p, "read block")
           /\ u' = [u EXCEPT ![p].offset = frptr]
           /\ UNCHANGED <<fifo, lock, files, chan>>
  <2> DEFINE r == [u[p] EXCEPT !.offset = frptr]
  <2>1. Moves(p, "read block", r)
    BY <1>5 DEF Goes, PipeInv, Frames, Moves, Place
  <2>2. Frame(r) /\ r.job = u[p].job
    BY <1>2 DEF PipeInv, Frames, Frame, Field
  <2> HIDE DEF r
  <2> QED BY <1>1, <1>5, <2>1, <2>2, BlocksBegin
<1> QED BY <1>3, <1>4, <1>5 DEF Read

(* writei() ends, waits or begins.                                         *)
LEMMA WriteStep ==
  ASSUME PipeInv, NEW p \in Proc, Write(p)
  PROVE  PipeInv'
<1> DEFINE c    == u[p].count
           full == c + size > PIPSIZ
           part == c > PIPSIZ /\ size < PIPSIZ
<1>1. pc[p] = "write" /\ u[p].job = "write" /\ Holds(p)
  BY DEF Write, At, PipeInv, Jobs, JobFits, Holds
<1>2. frptr \in 0 .. PIPSIZ - 1 /\ fwptr \in 0 .. PIPSIZ - 1 /\ size \in 0 .. PIPSIZ
      /\ c \in Nat /\ PIPSIZ \in Nat /\ frcnt \in Nat
  BY PIPSIZNat DEF PipeInv, TypeOK, Frames, Frame
<1>3. CASE Prele(chan, {}) /\ (Returns(p, "pipe") \/ Returns(p, "none")) /\ UNCHANGED <<fifo, files>>
  BY <1>1, <1>2, <1>3, UnlockStep DEF fifo
<1>4. CASE frcnt > 0 /\ full /\ ~part /\ WaitsOn(p, "fwcnt", "IFIW")
  <2>1. c + size > PIPSIZ /\ (c > PIPSIZ => size = PIPSIZ)
    BY <1>2, <1>4
  <2> QED BY <1>1, <1>4, <2>1, WaitStep
<1>5. CASE /\ full => part
           /\ Goes(p, "write block")
           /\ u' = [u EXCEPT ![p].offset = fwptr,
                             ![p].count = IF full THEN PIPSIZ - size ELSE c,
                             ![p].usave = IF full THEN c - (PIPSIZ - size) ELSE 0]
           /\ UNCHANGED <<fifo, lock, files, chan>>
  <2> DEFINE n == IF full THEN PIPSIZ - size ELSE c
             s == IF full THEN c - (PIPSIZ - size) ELSE 0
             r == [u[p] EXCEPT !.offset = fwptr, !.count = n, !.usave = s]
  <2>1. n \in Nat /\ s \in Nat /\ n + size <= PIPSIZ
    BY <1>2
  <2>2. Moves(p, "write block", r)
    BY <1>5 DEF Goes, PipeInv, Frames, Moves, Place
  <2> HIDE DEF n, s
  <2>3. Frame(r) /\ r.job = u[p].job /\ r.count = n
    BY <1>2, <2>1 DEF PipeInv, Frames, Frame, Field
  <2> HIDE DEF r
  <2> QED BY <1>1, <1>5, <2>1, <2>2, <2>3, BlocksBegin
<1> QED BY <1>3, <1>4, <1>5 DEF Write

(* The bytes of one block go or come. *)
Drains(p) == pc[p] = "read block" /\ size > 0 /\ size' < size

Fills(p, r) == /\ pc[p] = "write block" /\ size' > size
               /\ r.count + size' = u[p].count + size

(* Only i_size and the call change. *)
LEMMA BlockStep ==
  ASSUME PipeInv, NEW p \in Proc, NEW r, Moves(p, pc[p], r), Frame(r), r.job = u[p].job,
         size' \in 0 .. PIPSIZ,
         Drains(p) \/ Fills(p, r),
         UNCHANGED <<frcnt, fwcnt, frptr, fwptr, fflag, lock, files, chan>>
  PROVE  PipeInv'
<1>0. /\ pc[p] = "read block" => Drains(p)
      /\ pc[p] = "write block" => Fills(p, r)
      /\ pc[p] \in {"read block", "write block"}
  BY DEF Drains, Fills
<1>1. TypeOK'
  BY DEF PipeInv, TypeOK, lock
<1>2. /\ Holds(p) /\ chan[p] = "none" /\ Woke(p) /\ pc[p] \in Place
      /\ u[p].job \in {"read", "write"} /\ JobFits(pc[p], u[p].job)
      /\ u[p].job = "write" => \E f \in files[p] : "w" \in f
  BY <1>0 DEF PipeInv, PipeLocked, Holds, TypeOK, Woke, Jobs, JobFits, Place
<1>3. PipeLocked'
  <2>1. chan'[p] = "none" /\ pc[p] \in {"read", "write", "closep", "read block", "write block"}
    BY <1>0, <1>2
  <2> QED BY <1>2, <2>1, LockKept DEF PipeInv
<1>4. r.count \in Nat /\ size \in Nat /\ size' \in Nat /\ PIPSIZ \in Nat
       /\ \A x \in Proc : u[x].count \in Nat
  <2>1. PIPSIZ \in Nat /\ \A n \in 0 .. PIPSIZ : n \in Nat
    BY PIPSIZNat
  <2>2. size \in 0 .. PIPSIZ
    BY DEF PipeInv, TypeOK
  <2>3. r.count \in Nat /\ \A x \in Proc : u[x].count \in Nat
    BY DEF PipeInv, Frames, Frame
  <2> QED BY <2>1, <2>2, <2>3
<1>5. Frames'
  <2>1. pc[p] # "opening"
    BY <1>0
  <2> QED BY <1>2, <2>1, FramesKept DEF PipeInv
<1>6. Jobs'
  <2>1. JobFits(pc[p], r.job) /\ pc[p] # "opening" /\ files' = files
    BY <1>2 DEF Holds
  <2> QED BY <1>2, <2>1, JobsKept DEF PipeInv
<1>7. \A q \in Proc \ {p} : pc[q] \notin {"read block", "write block"}
  BY <1>2 DEF PipeInv, PipeLocked, Holds
<1>8. Fits'
  <2>1. pc[p] = "write block" => r.count + size' <= PIPSIZ
    <3>1. r.count \in Nat /\ u[p].count \in Nat /\ size \in Nat /\ size' \in Nat /\ PIPSIZ \in Nat
      BY <1>4
    <3>2. CASE pc[p] = "write block"
      <4>1. u[p].count + size <= PIPSIZ /\ size' > size /\ r.count + size' = u[p].count + size
        BY <1>0, <3>2 DEF PipeInv, Fits, Fills
      <4> QED BY <3>1, <4>1, MovedIn
    <3> QED BY <3>2
  <2> QED BY <1>7, <2>1 DEF Fits, Moves
<1>9. CountsExact'
  <2>1. pc'[p] = pc[p] /\ u'[p] = r /\ pc[p] # "opening" /\ u[p].job # "closep"
    BY <1>0, <1>2 DEF Moves
  <2>2. \A m \in {"r", "w"} : HalfHas(p, m)' <=> HalfHas(p, m)
    BY <2>1 DEF HalfHas
  <2> QED BY <2>2, CountsKept DEF PipeInv
<1>10. pc[p] = "write block" =>
         /\ u[p].count + size <= PIPSIZ /\ size' > size /\ r.count + size' = u[p].count + size
         /\ size < PIPSIZ
  <2> HAVE pc[p] = "write block"
  <2>1. u[p].count + size <= PIPSIZ /\ size' > size /\ r.count + size' = u[p].count + size
    BY <1>0 DEF PipeInv, Fits, Fills
  <2>2. r.count + size' <= PIPSIZ
    BY <2>1
  <2>3. size < PIPSIZ
    BY <1>4, <2>1, <2>2, RoomLeft
  <2> QED BY <2>1, <2>3
<1>11. pc[p] = "read block" => size # 0
  <2>1. pc[p] = "read block" => size > 0
    BY <1>0 DEF Drains
  <2>2. \A n \in Nat : n > 0 => n # 0
    OBVIOUS
  <2> QED BY <1>4, <2>1, <2>2
(* Who waits for bytes: there were none, so a writer is at work. *)
<1>12. \A q \in Proc : pc[q] = "slept" /\ chan[q] = "frcnt" =>
          "IFIR" \in fflag /\ fwcnt > 0 /\ \E x \in Proc : pc[x] = "write block"
  <2>1. \A q \in Proc : pc[q] = "slept" /\ chan[q] = "frcnt" =>
          /\ "IFIR" \in fflag /\ fwcnt > 0
          /\ size = 0 \/ \E x \in Proc : pc[x] = "write block"
    BY DEF PipeInv, SleepersHeard
  <2> QED BY <1>0, <1>11, <2>1
(* Who waits for room still has not enough, or a reader is at work. *)
<1>13. \A q \in Proc : pc[q] = "slept" /\ chan[q] = "fwcnt" =>
          /\ "IFIW" \in fflag /\ frcnt > 0
          /\ pc[p] = "read block" \/ (u[q].count + size' > PIPSIZ /\ ~(u[q].count > PIPSIZ))
  <2> TAKE q \in Proc
  <2> HAVE pc[q] = "slept" /\ chan[q] = "fwcnt"
  <2>1. "IFIW" \in fflag /\ frcnt > 0
    BY DEF PipeInv, SleepersHeard
  <2>2. ASSUME pc[p] = "write block"
        PROVE  u[q].count + size' > PIPSIZ /\ ~(u[q].count > PIPSIZ)
    <3>1. \A x \in Proc : pc[x] # "read block"
      BY <1>7, <2>2
    <3>2. u[q].count + size > PIPSIZ /\ (u[q].count > PIPSIZ => size = PIPSIZ)
      BY <3>1 DEF PipeInv, SleepersHeard
    <3> QED BY <1>4, <1>10, <2>2, <3>2, MovedIn
  <2> QED BY <1>0, <2>1, <2>2
(* Who waits for a writer: there is none, and so no bytes come. *)
<1>14. \A q \in Proc : ~(pc[q] = "opening" /\ chan[q] = "fwcnt")
  <2> SUFFICES ASSUME NEW q \in Proc, pc[q] = "opening", chan[q] = "fwcnt" PROVE FALSE
    OBVIOUS
  <2>1. fwcnt = 0 /\ size = 0
    BY DEF PipeInv, SleepersHeard
  <2>2. pc[p] = "write block" /\ u[p].job = "write"
    BY <1>0, <1>11, <2>1 DEF PipeInv, Jobs, JobFits
  <2>3. PICK f \in files[p] : "w" \in f
    BY <1>2, <2>2
  <2>4. f \in Modes
    BY <2>3 DEF PipeInv, TypeOK
  <2>5. f = {"w"} \/ f = {"r", "w"}
    BY <2>3, <2>4 DEF Modes, R, W
  <2>6. Ends("w") > 0 /\ Ends("w") \in Nat
    BY <2>3, <2>5, EndHeld, EndsNat
  <2>7. fwcnt # 0
    BY <2>6 DEF PipeInv, CountsExact
  <2> QED BY <2>1, <2>7
<1>15. SleepersHeard'
  <2>1. \A x \in Proc : /\ pc'[x] = pc[x] /\ chan'[x] = chan[x]
                        /\ pc[x] \in {"slept", "opening"} => u'[x] = u[x]
    BY <1>0 DEF Moves
  <2>2. \A q \in Proc : pc[q] = "opening" /\ chan[q] = "frcnt" => frcnt = 0
    BY DEF PipeInv, SleepersHeard
  <2>3. fflag' = fflag /\ frcnt' = frcnt /\ fwcnt' = fwcnt
    OBVIOUS
  <2> QED BY ZenonT(60), <1>12, <1>13, <1>14, <2>1, <2>2, <2>3 DEF SleepersHeard
<1> QED BY <1>1, <1>3, <1>5, <1>6, <1>8, <1>9, <1>15 DEF PipeInv

(* The numbers of a call, and of the pipe.                                 *)
LEMMA CallNumbers ==
  ASSUME PipeInv, NEW p \in Proc
  PROVE  /\ BSIZE \in Nat \ {0} /\ PIPSIZ \in Nat \ {0}
         /\ u[p].offset \in Nat /\ u[p].count \in Nat /\ size \in 0 .. PIPSIZ
<1>1. BSIZE \in Nat \ {0} /\ PIPSIZ \in Nat \ {0}
  BY PIPSIZNat, PipeAssumption
<1>2. u[p].offset \in 0 .. PIPSIZ - 1 /\ u[p].count \in Nat
  BY DEF PipeInv, Frames, Frame
<1>3. size \in 0 .. PIPSIZ
  BY DEF PipeInv, TypeOK
<1>4. u[p].offset \in Nat
  BY <1>1, <1>2
<1> QED BY <1>1, <1>2, <1>3, <1>4

(* readi() takes the bytes of a block.                                     *)
LEMMA ReadBlockStep ==
  ASSUME PipeInv, NEW p \in Proc, ReadBlock(p)
  PROVE  PipeInv'
<1> DEFINE o == u[p].offset
           a == BSIZE - (o % BSIZE)
           n == Least({a, u[p].count, size})
           g == u[p].got \o [i \in 1 .. n |-> ring[o + i - 1]]
           r == [u[p] EXCEPT !.offset = (o + n) % PIPSIZ, !.count = @ - n, !.got = g]
<1>1. /\ pc[p] = "read block" /\ n > 0 /\ size' = size - n
      /\ u' = [u EXCEPT ![p] = r]
      /\ UNCHANGED <<frcnt, fwcnt, frptr, fwptr, fflag, lock, files, chan, pc>>
  BY DEF ReadBlock, At
<1>2. o \in Nat /\ BSIZE \in Nat \ {0} /\ PIPSIZ \in Nat \ {0} /\ u[p].count \in Nat /\ size \in 0 .. PIPSIZ
  BY CallNumbers
<1>3. a \in Int
  BY <1>2
<1>4. n \in Int /\ n <= u[p].count /\ n <= size
  <2>1. u[p].count \in Int /\ size \in Int
    BY <1>2
  <2> HIDE DEF a
  <2> QED BY <1>3, <2>1, LeastOfThree
<1> HIDE DEF g, n
<1>5. /\ u[p].count - n \in Nat /\ size' \in 0 .. PIPSIZ /\ size > 0 /\ size' < size
  <2>1. size \in Nat /\ size <= PIPSIZ /\ PIPSIZ \in Nat
    BY <1>2
  <2> QED BY <1>1, <1>2, <1>4, <2>1, MovedOut
<1>6. (o + n) % PIPSIZ \in 0 .. PIPSIZ - 1
  <2>1. o + n \in Nat
    BY <1>1, <1>2, <1>4, SumNat
  <2> QED BY <1>2, <2>1, ModRange
<1>7. Frame(r) /\ r.job = u[p].job
  BY <1>5, <1>6 DEF PipeInv, Frames, Frame, Field
<1>8. Moves(p, pc[p], r)
  BY <1>1 DEF PipeInv, Frames, Moves
<1> HIDE DEF r
<1>9. Drains(p)
  BY <1>1, <1>5 DEF Drains
<1> QED BY <1>1, <1>5, <1>7, <1>8, <1>9, BlockStep

(* writei() puts in the bytes of a block.                                  *)
LEMMA WriteBlockStep ==
  ASSUME PipeInv, NEW p \in Proc, WriteBlock(p)
  PROVE  PipeInv'
<1> DEFINE o == u[p].offset
           a == BSIZE - (o % BSIZE)
           n == Least({a, u[p].count})
           m == u[p].put + n
           r == [u[p] EXCEPT !.offset = (o + n) % PIPSIZ, !.count = @ - n, !.put = m]
<1>1. /\ pc[p] = "write block" /\ n > 0 /\ size' = size + n
      /\ u' = [u EXCEPT ![p] = r]
      /\ UNCHANGED <<frcnt, fwcnt, frptr, fwptr, fflag, lock, files, chan, pc>>
  BY DEF WriteBlock, At
<1>2. /\ o \in Nat /\ BSIZE \in Nat \ {0} /\ PIPSIZ \in Nat \ {0} /\ u[p].count \in Nat /\ size \in 0 .. PIPSIZ
      /\ u[p].count + size <= PIPSIZ
  BY <1>1, CallNumbers DEF PipeInv, Fits
<1>3. a \in Int
  BY <1>2
<1>4. n \in Int /\ n <= u[p].count
  <2>1. u[p].count \in Int
    BY <1>2
  <2> HIDE DEF a
  <2> QED BY <1>3, <2>1, LeastOfTwo
<1> HIDE DEF n, m
<1>5. /\ u[p].count - n \in Nat /\ size' \in 0 .. PIPSIZ /\ size' > size
      /\ (u[p].count - n) + size' = u[p].count + size
  <2>1. size \in Nat /\ PIPSIZ \in Nat
    BY <1>2
  <2>2. /\ u[p].count - n \in Nat /\ size + n \in 0 .. PIPSIZ /\ size + n > size
        /\ (u[p].count - n) + (size + n) = u[p].count + size
    <3>1. n \in Int /\ n > 0 /\ n <= u[p].count /\ u[p].count \in Nat /\ u[p].count + size <= PIPSIZ
      BY <1>1, <1>2, <1>4
    <3> QED BY <2>1, <3>1, MovedOn
  <2> HIDE DEF o
  <2> QED BY <1>1, <2>2
<1>6. (o + n) % PIPSIZ \in 0 .. PIPSIZ - 1
  <2>1. o + n \in Nat
    BY <1>1, <1>2, <1>4, SumNat
  <2> QED BY <1>2, <2>1, ModRange
<1>7. Frame(r) /\ r.job = u[p].job /\ r.count = u[p].count - n
  BY <1>5, <1>6 DEF PipeInv, Frames, Frame, Field
<1>8. Moves(p, pc[p], r)
  BY <1>1 DEF PipeInv, Frames, Moves
<1> HIDE DEF r
<1>9. Fills(p, r)
  BY <1>1, <1>5, <1>7 DEF Fills
<1> QED BY <1>1, <1>5, <1>7, <1>8, <1>9, BlockStep

(* readi() is done: the pointers follow, and writers are woken.            *)
LEMMA ReadEndStep ==
  ASSUME PipeInv, NEW p \in Proc, ReadEnd(p)
  PROVE  PipeInv'
<1>1. pc[p] = "read block" /\ u[p].job = "read" /\ Holds(p)
  BY DEF ReadEnd, At, PipeInv, Jobs, JobFits, Holds
<1>2. frptr' \in 0 .. PIPSIZ - 1 /\ fwptr' \in 0 .. PIPSIZ - 1
  <2>1. /\ u[p].offset \in 0 .. PIPSIZ - 1 /\ 0 \in 0 .. PIPSIZ - 1
        /\ frptr \in 0 .. PIPSIZ - 1 /\ fwptr \in 0 .. PIPSIZ - 1
    BY PIPSIZNat DEF PipeInv, TypeOK, Frames, Frame
  <2> QED BY <2>1 DEF ReadEnd
<1>3. PICK C : /\ Prele(chan, C)
               /\ "IFIW" \in fflag => "fwcnt" \in C
  BY DEF ReadEnd
<1>4. fflag' \subseteq fflag /\ ("IFIR" \in fflag => "IFIR" \in fflag')
  BY DEF ReadEnd
<1>5. Returns(p, "done") /\ UNCHANGED <<frcnt, fwcnt, size, files>>
  BY DEF ReadEnd
<1> QED BY <1>1, <1>2, <1>3, <1>4, <1>5, UnlockStep

(* A part of a large write, or all of it, is in the pipe. *)
LEMMA WriteEndStep ==
  ASSUME PipeInv, NEW p \in Proc, WriteEnd(p)
  PROVE  PipeInv'
<1> DEFINE C == IF "IFIR" \in fflag THEN {"frcnt"} ELSE {}
<1>1. pc[p] = "write block" /\ u[p].job = "write" /\ Holds(p)
  BY DEF WriteEnd, At, PipeInv, Jobs, JobFits, Holds
<1>2. /\ frptr' \in 0 .. PIPSIZ - 1 /\ fwptr' \in 0 .. PIPSIZ - 1
      /\ fflag' \subseteq fflag /\ ("IFIW" \in fflag => "IFIW" \in fflag')
      /\ UNCHANGED <<frcnt, fwcnt, size, files>>
  BY DEF WriteEnd, PipeInv, TypeOK, Frames, Frame
<1>3. "IFIR" \in fflag => "frcnt" \in C
  OBVIOUS
<1>4. CASE Returns(p, "done") /\ Prele(chan, C)
  <2> HIDE DEF C
  <2> QED BY <1>1, <1>2, <1>3, <1>4, UnlockStep
<1>5. CASE /\ Goes(p, "write")
           /\ u' = [u EXCEPT ![p].count = u[p].usave, ![p].usave = 0, ![p].put = 0]
           /\ chan' = Woken(chan, C)
           /\ UNCHANGED lock
  <2> DEFINE r == [u[p] EXCEPT !.count = u[p].usave, !.usave = 0, !.put = 0]
  <2>1. Moves(p, "write", r)
    BY <1>5 DEF Goes, PipeInv, Frames, Moves, Place
  <2>2. Frame(r) /\ r.job = u[p].job
    BY DEF PipeInv, Frames, Frame, Field
  <2> HIDE DEF r, C
  <2>3. /\ chan[p] = "none"
        /\ chan' \in [Proc -> {"none", "ip", "frcnt", "fwcnt"}]
        /\ \A q \in Proc : chan'[q] = IF chan[q] \in C THEN "none" ELSE chan[q]
    BY <1>1, <1>5 DEF Woken, PipeInv, TypeOK, PipeLocked
  <2>4. Woke(p) /\ chan'[p] = "none"
    BY <2>3 DEF Woke
  <2>5. TypeOK'
    BY <1>2, <1>5, <2>3 DEF PipeInv, TypeOK, lock
  <2>6. PipeLocked'
    BY <1>1, <1>5, <2>1, <2>4, LockKept DEF PipeInv
  <2>7. \A m \in {"r", "w"} : HalfHas(p, m)' <=> HalfHas(p, m)
    BY <1>1, <2>1, <2>2 DEF HalfHas, Moves
  <2>8. \A q \in Proc \ {p} : ~(pc[q] = "slept" /\ chan'[q] = "frcnt")
    <3>1. \A q \in Proc : pc[q] = "slept" /\ chan[q] = "frcnt" => "IFIR" \in fflag
      BY DEF PipeInv, SleepersHeard
    <3> QED BY <1>3, <2>3, <3>1
  <2>9. /\ "write" \in Place /\ JobFits("write", r.job)
        /\ r.job = "write" => \E f \in files[p] : "w" \in f
    BY <1>1, <2>2 DEF Place, JobFits, PipeInv, Jobs
  <2> QED BY <1>1, <1>2, <2>1, <2>2, <2>4, <2>5, <2>6, <2>7, <2>8, <2>9, CallStep
<1> QED BY <1>4, <1>5 DEF WriteEnd

------------------------------------------------------------------------------
(* The ends of the pipe.                                                   *)

(* A file is one of the three modes, and the ends it has.                  *)
LEMMA ModesOf ==
  /\ Opened \subseteq Modes
  /\ \A f \in Modes : /\ Cardinality(f \cap R) = Bit("r" \in f) /\ Cardinality(f \cap W) = Bit("w" \in f)
                      /\ \A m \in {"r", "w"} : m \in f <=> (f = {m} \/ f = {"r", "w"})
                      /\ "r" \in f \/ "w" \in f
  /\ {"r", "w"} \in Modes /\ \A m \in {"r", "w"} : {m} \in Modes /\ {m} # {"r", "w"}
<1>1. Opened \subseteq Modes
  BY PipeAssumption DEF Modes, R, W
<1>2. Cardinality({}) = 0 /\ \A x : Cardinality({x}) = 1
  BY FS_EmptySet, FS_Singleton
<1>3. ASSUME NEW f \in Modes
      PROVE  Cardinality(f \cap R) = Bit("r" \in f) /\ Cardinality(f \cap W) = Bit("w" \in f)
  <2>1. f \cap R = (IF "r" \in f THEN {"r"} ELSE {}) /\ f \cap W = (IF "w" \in f THEN {"w"} ELSE {})
    BY DEF R, W
  <2> QED BY <1>2, <2>1 DEF Bit
<1>4. ASSUME NEW f \in Modes
      PROVE  /\ \A m \in {"r", "w"} : m \in f <=> (f = {m} \/ f = {"r", "w"})
             /\ "r" \in f \/ "w" \in f
  BY DEF Modes, R, W
<1>5. {"r", "w"} \in Modes
  BY DEF Modes, R, W
<1>6. ASSUME NEW m \in {"r", "w"}
      PROVE  {m} \in Modes /\ {m} # {"r", "w"}
  <2>1. {m} = R \/ {m} = W
    BY DEF R, W
  <2>2. "r" # "w"
    OBVIOUS
  <2>3. {m} # {"r", "w"}
    BY <2>2
  <2> QED BY <2>1, <2>3 DEF Modes
<1> QED BY <1>1, <1>3, <1>4, <1>5, <1>6

(* An end that goes from one of the three terms to another.                *)
LEMMA BitMoved ==
  /\ \A b : Bit(b) \in {0, 1}
  /\ \A n \in Nat, x, y, z, v, w \in {0, 1} :
       /\ n + y - x + w - w + v - z = n + ((y + v) - (x + z))
       /\ n + w - w + y - x + v - z = n + ((y + v) - (x + z))
BY DEF Bit

(* The counts after a step that opens or closes file f of p: d is what the *)
(* step makes of the ends that f has, open or half open.                   *)
LEMMA CountsMoved ==
  ASSUME CountsExact, NEW p \in Proc, NEW l, NEW r, Moves(p, l, r), NEW f \in Modes, NEW d \in Int,
         \A q \in Proc \ {p} : files'[q] = files[q],
         \A g \in Modes \ {f} : g \in files'[p] <=> g \in files[p],
         \A m \in {"r", "w"} : m \in f =>
            d = (Bit(f \in files'[p]) + Bit(HalfHas(p, m)')) - (Bit(f \in files[p]) + Bit(HalfHas(p, m))),
         \A m \in {"r", "w"} : m \notin f => ~HalfHas(p, m) /\ ~HalfHas(p, m)',
         frcnt' = (IF "r" \in f THEN frcnt + d ELSE frcnt),
         fwcnt' = (IF "w" \in f THEN fwcnt + d ELSE fwcnt)
  PROVE  CountsExact'
<1>1. ASSUME NEW m \in {"r", "w"}
      PROVE  Ends(m) \in Nat /\ Ends(m)' = IF m \in f THEN Ends(m) + d ELSE Ends(m)
  <2>1. /\ Ends(m) \in Nat
        /\ Ends(m)' = Ends(m)
             + Bit({m} \in files'[p]) - Bit({m} \in files[p])
             + Bit({"r", "w"} \in files'[p]) - Bit({"r", "w"} \in files[p])
             + Bit(HalfHas(p, m)') - Bit(HalfHas(p, m))
    BY EndsMove
  <2>2. {m} \in Modes /\ {"r", "w"} \in Modes /\ {m} # {"r", "w"}
    BY ModesOf
  <2>3. m \in f <=> (f = {m} \/ f = {"r", "w"})
    BY ModesOf
  <2>4. CASE m \notin f
    BY <2>1, <2>2, <2>3, <2>4 DEF Bit
  <2>5. CASE f = {m}
    <3>1. Bit({"r", "w"} \in files'[p]) = Bit({"r", "w"} \in files[p])
      BY <2>2, <2>5 DEF Bit
    <3> QED BY <2>1, <2>3, <2>5, <3>1, BitMoved
  <2>6. CASE f = {"r", "w"}
    <3>1. Bit({m} \in files'[p]) = Bit({m} \in files[p])
      BY <2>2, <2>6 DEF Bit
    <3> QED BY <2>1, <2>3, <2>6, <3>1, BitMoved
  <2> QED BY <2>3, <2>4, <2>5, <2>6
<1> QED BY <1>1 DEF CountsExact

(* closef(): the file is closed, and its ends wait for closep().           *)
LEMMA CloseStep ==
  ASSUME PipeInv, NEW p \in Proc, NEW f \in Modes, Close(p, f)
  PROVE  PipeInv'
<1> DEFINE r == [NoCall EXCEPT !.job = "closep", !.file = f]
<1>1. /\ pc[p] = "user" /\ chan[p] = "none" /\ u[p].job = "none" /\ ~Holds(p)
      /\ f \in files[p] /\ UNCHANGED <<fifo, lock, chan>> /\ DOMAIN files = Proc /\ DOMAIN chan = Proc
      /\ files' = [files EXCEPT ![p] = @ \ {f}]
  BY DEF Close, At, PipeInv, Jobs, JobFits, Holds, TypeOK
<1>2. Moves(p, "plock", r)
  BY DEF Close, Goes, PipeInv, Frames, Moves, Place
<1>3. Frame(r) /\ r.job = "closep" /\ r.file = f
  BY PIPSIZNat DEF NoCall, Frame, Field
<1> HIDE DEF r
<1>4. UNCHANGED <<frcnt, fwcnt, size, frptr, fwptr, fflag, locked, want>>
  BY <1>1 DEF fifo, lock
<1>5. TypeOK'
  <2>1. files' \in [Proc -> SUBSET Modes]
    BY <1>1 DEF PipeInv, TypeOK
  <2> QED BY <1>1, <1>4, <2>1 DEF PipeInv, TypeOK
<1>6. Woke(p) /\ chan'[p] = "none"
  BY <1>1 DEF Woke
<1>7. PipeLocked'
  BY <1>1, <1>2, <1>6, LockPassed DEF PipeInv
<1>8. Frames'
  BY <1>2, <1>3, FramesKept DEF PipeInv, Place
<1>9. Jobs'
  <2>1. JobFits("plock", r.job) /\ "plock" \in Place /\ \A q \in Proc \ {p} : files'[q] = files[q]
    BY <1>1, <1>3 DEF JobFits, Place
  <2> QED BY <1>2, <1>3, <2>1, JobsKept DEF PipeInv
<1>10. Fits'
  BY <1>2, <1>4 DEF PipeInv, Fits, Moves
<1>11. CountsExact'
  <2>1. \A m \in {"r", "w"} : ~HalfHas(p, m) /\ (HalfHas(p, m)' <=> m \in f)
    BY <1>1, <1>2, <1>3 DEF HalfHas, Moves
  <2>2. f \notin files'[p] /\ \A g \in Modes \ {f} : g \in files'[p] <=> g \in files[p]
    BY <1>1
  <2>3. \A q \in Proc \ {p} : files'[q] = files[q]
    BY <1>1
  <2>4. \A m \in {"r", "w"} : m \in f =>
           (Bit(f \in files'[p]) + Bit(HalfHas(p, m)')) - (Bit(f \in files[p]) + Bit(HalfHas(p, m))) = 0
    BY <1>1, <2>1, <2>2 DEF Bit
  <2>5. frcnt \in Nat /\ fwcnt \in Nat /\ \A n \in Nat : n + 0 = n
    BY DEF PipeInv, TypeOK
  <2>6. /\ frcnt' = (IF "r" \in f THEN frcnt + 0 ELSE frcnt)
        /\ fwcnt' = (IF "w" \in f THEN fwcnt + 0 ELSE fwcnt)
    BY <1>4, <2>5
  <2>7. \A m \in {"r", "w"} : m \notin f => ~HalfHas(p, m) /\ ~HalfHas(p, m)'
    BY <2>1
  <2> QED BY <1>2, <2>2, <2>3, <2>4, <2>6, <2>7, CountsMoved DEF PipeInv
<1>12. SleepersHeard'
  <2>1. \A q \in Proc : pc[q] = "slept" =>
           /\ chan[q] = "frcnt" => "IFIR" \in fflag
           /\ chan[q] = "fwcnt" => "IFIW" \in fflag
    BY DEF PipeInv, SleepersHeard
  <2> QED BY <1>1, <1>2, <1>4, <1>6, <2>1, SleepersKept DEF PipeInv
<1> QED BY <1>5, <1>7, <1>8, <1>9, <1>10, <1>11, <1>12 DEF PipeInv

(* closep(): the last reader tells the writers, the last writer the        *)
(* readers, and the last of all leaves the pipe empty.                     *)
LEMMA ClosepStep ==
  ASSUME PipeInv, NEW p \in Proc, Closep(p)
  PROVE  PipeInv'
<1> DEFINE f   == u[p].file
           r   == frcnt - Cardinality(f \cap R)
           w   == fwcnt - Cardinality(f \cap W)
           noR == "r" \in f /\ r = 0 /\ "IFIW" \in fflag
           noW == "w" \in f /\ w = 0 /\ "IFIR" \in fflag
           C   == (IF noR THEN {"fwcnt"} ELSE {}) \cup (IF noW THEN {"frcnt"} ELSE {})
           c   == [NoCall EXCEPT !.told = "none"]
<1>1. /\ pc[p] = "closep" /\ chan[p] = "none" /\ u[p].job = "closep" /\ Holds(p)
      /\ frcnt' = r /\ fwcnt' = w /\ Prele(chan, C) /\ UNCHANGED files
      /\ fflag' = fflag \ ((IF noR THEN {"IFIW"} ELSE {}) \cup (IF noW THEN {"IFIR"} ELSE {}))
  BY DEF Closep, At, PipeInv, Jobs, JobFits, Holds
<1>2. f \in Modes /\ \A m \in {"r", "w"} : HalfHas(p, m) <=> m \in f
  BY <1>1 DEF PipeInv, Frames, Frame, HalfHas
<1>3. /\ frcnt \in Nat /\ frcnt' \in Nat /\ ("r" \in f => frcnt > 0)
      /\ frcnt' = (IF "r" \in f THEN frcnt + (-1) ELSE frcnt)
      /\ fwcnt \in Nat /\ fwcnt' \in Nat /\ ("w" \in f => fwcnt > 0)
      /\ fwcnt' = (IF "w" \in f THEN fwcnt + (-1) ELSE fwcnt)
  <2>1. r = frcnt - Bit("r" \in f) /\ w = fwcnt - Bit("w" \in f)
    BY <1>2, ModesOf
  <2>2. frcnt \in Nat /\ fwcnt \in Nat /\ frcnt = Ends("r") /\ fwcnt = Ends("w")
    BY DEF PipeInv, TypeOK, CountsExact
  <2>3. ("r" \in f => Ends("r") > 0) /\ ("w" \in f => Ends("w") > 0)
    BY <1>2, EndHeld
  <2>4. \A n \in Nat : (n > 0 => n - 1 \in Nat) /\ n - 1 = n + (-1) /\ n - 0 = n
    OBVIOUS
  <2>5. \A b : Bit(b) = IF b THEN 1 ELSE 0
    BY DEF Bit
  <2> HIDE DEF f, r, w
  <2> QED BY <1>1, <2>1, <2>2, <2>3, <2>4, <2>5
<1>4. /\ size' \in {0, size} /\ (frcnt' # 0 \/ fwcnt' # 0 => size' = size)
      /\ frptr' \in 0 .. PIPSIZ - 1 /\ fwptr' \in 0 .. PIPSIZ - 1
  <2>1. frptr \in 0 .. PIPSIZ - 1 /\ fwptr \in 0 .. PIPSIZ - 1 /\ 0 \in 0 .. PIPSIZ - 1
    BY PIPSIZNat DEF PipeInv, TypeOK
  <2>2. \/ r = 0 /\ w = 0 /\ size' = 0 /\ frptr' = 0 /\ fwptr' = 0
        \/ ~(r = 0 /\ w = 0) /\ UNCHANGED <<size, frptr, fwptr>>
    BY DEF Closep
  <2> HIDE DEF f, r, w
  <2> QED BY <1>1, <2>1, <2>2
<1>5. Moves(p, "user", c) /\ Frame(c) /\ c.job = "none" /\ c.file = {}
  BY NoCallFrame DEF Closep, Returns, Goes, PipeInv, Frames, Moves, Place
<1>6. /\ "r" \in f /\ frcnt' = 0 /\ "IFIW" \in fflag => "fwcnt" \in C
      /\ "w" \in f /\ fwcnt' = 0 /\ "IFIR" \in fflag => "frcnt" \in C
      /\ "IFIW" \in fflag => "IFIW" \in fflag' \/ "fwcnt" \in C
      /\ "IFIR" \in fflag => "IFIR" \in fflag' \/ "frcnt" \in C
      /\ fflag' \subseteq fflag
  BY <1>1
<1> HIDE DEF c, C, f, r, w
<1>7. /\ ~locked' /\ ~want'
      /\ chan' \in [Proc -> {"none", "ip", "frcnt", "fwcnt"}]
      /\ \A q \in Proc : chan'[q] = IF chan[q] \in C \cup {"ip"} THEN "none" ELSE chan[q]
  BY <1>1, PreleWakes DEF PipeInv
<1>8. Woke(p) /\ chan'[p] = "none" /\ \A q \in Proc : chan'[q] # "ip"
  BY <1>1, <1>7 DEF Woke
<1>9. TypeOK'
  <2>1. locked' \in BOOLEAN /\ want' \in BOOLEAN
    BY <1>1 DEF Prele
  <2>2. size' \in 0 .. PIPSIZ
    BY <1>4, PIPSIZNat DEF PipeInv, TypeOK
  <2> QED BY <1>1, <1>3, <1>4, <1>6, <1>7, <2>1, <2>2 DEF PipeInv, TypeOK
<1>10. PipeLocked'
  BY <1>1, <1>5, <1>7, <1>8, LockFreed DEF PipeInv
<1>11. Frames' /\ Jobs'
  <2>1. JobFits("user", c.job) /\ "user" \in Place
    BY <1>5 DEF JobFits, Place
  <2> QED BY <1>1, <1>5, <2>1, FramesKept, JobsKept DEF PipeInv
<1>12. \A q \in Proc : pc[q] \notin {"read block", "write block"}
  BY <1>1 DEF PipeInv, PipeLocked, Holds
<1>13. Fits'
  BY <1>5, <1>12 DEF Fits, Moves
<1>14. CountsExact'
  <2>1. \A m \in {"r", "w"} : ~HalfHas(p, m)'
    BY <1>5 DEF HalfHas, Moves
  <2>2. \A m \in {"r", "w"} : m \in f =>
           -1 = (Bit(f \in files'[p]) + Bit(HalfHas(p, m)')) - (Bit(f \in files[p]) + Bit(HalfHas(p, m)))
    BY <1>1, <1>2, <2>1 DEF Bit
  <2>3. -1 \in Int
    OBVIOUS
  <2> QED BY <1>1, <1>2, <1>3, <1>5, <2>1, <2>2, <2>3, CountsMoved DEF PipeInv
<1>15. SleepersHeard'
  <2>1. \A q \in Proc : /\ chan'[q] # "none" => chan'[q] = chan[q] /\ chan[q] \notin C /\ q # p
                        /\ q # p => pc'[q] = pc[q] /\ u'[q] = u[q]
    BY <1>1, <1>5, <1>7 DEF Moves
  <2>2. /\ frcnt = 0 => frcnt' = 0
        /\ fwcnt = 0 => fwcnt' = 0
        /\ frcnt > 0 /\ "r" \notin f => frcnt' > 0
        /\ fwcnt > 0 /\ "w" \notin f => fwcnt' > 0
        /\ frcnt' = 0 \/ frcnt' > 0
        /\ fwcnt' = 0 \/ fwcnt' > 0
        /\ frcnt' > 0 => size' = size
        /\ size = 0 => size' = 0
    BY <1>3, <1>4
  <2>3. \A q \in Proc : pc[q] = "slept" /\ chan'[q] = "frcnt" =>
           "IFIR" \in fflag' /\ fwcnt' > 0 /\ size' = 0
    BY <1>6, <1>12, <2>1, <2>2 DEF PipeInv, SleepersHeard
  <2>4. \A q \in Proc : pc[q] = "slept" /\ chan'[q] = "fwcnt" =>
           /\ "IFIW" \in fflag' /\ frcnt' > 0 /\ size' = size
           /\ u[q].count + size > PIPSIZ /\ (u[q].count > PIPSIZ => size = PIPSIZ)
    BY <1>6, <1>12, <2>1, <2>2 DEF PipeInv, SleepersHeard
  <2>5. \A q \in Proc : pc[q] = "opening" /\ chan'[q] \in {"frcnt", "fwcnt"} =>
           /\ chan'[q] = "frcnt" => frcnt' = 0
           /\ chan'[q] = "fwcnt" => fwcnt' = 0 /\ size' = 0
    BY <2>1, <2>2 DEF PipeInv, SleepersHeard
  <2> QED BY <1>5, <2>1, <2>3, <2>4, <2>5 DEF SleepersHeard, Moves
<1> QED BY <1>9, <1>10, <1>11, <1>13, <1>14, <1>15 DEF PipeInv

(* openp(): p has the file, or sleeps for the other end, which is not      *)
(* there.  Who slept in its open for an end that comes now is woken.       *)
LEMMA OpenedStep ==
  ASSUME PipeInv, NEW p \in Proc, NEW l, NEW r, Moves(p, l, r), Frame(r), r.job = "none",
         pc[p] \in {"user", "opening"},
         UNCHANGED <<size, frptr, fwptr, fflag, lock>>,
         chan' \in [Proc -> {"none", "ip", "frcnt", "fwcnt"}], Woke(p),
         frcnt' \in Nat, fwcnt' \in Nat, files' \in [Proc -> SUBSET Modes], CountsExact',
         \A q \in Proc \ {p} : files'[q] = files[q],
         \/ l = "user" /\ chan'[p] = "none"
         \/ /\ l = "opening" /\ r.file \in Modes /\ files'[p] = {}
            /\ \/ chan'[p] = "frcnt" /\ frcnt' = 0
               \/ chan'[p] = "fwcnt" /\ fwcnt' = 0 /\ size = 0,
         frcnt > 0 => frcnt' > 0, fwcnt > 0 => fwcnt' > 0,
         \A q \in Proc \ {p} : /\ chan'[q] = "frcnt" => (frcnt = 0 => frcnt' = 0)
                               /\ chan'[q] = "fwcnt" => (fwcnt = 0 => fwcnt' = 0)
  PROVE  PipeInv'
<1>1. TypeOK'
  BY DEF PipeInv, TypeOK, lock
<1>2. ~Holds(p) /\ l \in Place /\ JobFits(l, r.job) /\ l \in {"user", "opening"}
  BY DEF Holds, Place, JobFits
<1>3. PipeLocked'
  BY <1>2, LockPassed DEF PipeInv
<1>4. Frames' /\ Jobs'
  BY <1>2, FramesKept, JobsKept DEF PipeInv
<1>5. Fits'
  BY <1>2 DEF PipeInv, Fits, Moves
<1>6. SleepersHeard'
  <2>1. \A q \in Proc \ {p} : /\ chan'[q] # "none" => chan'[q] = chan[q]
                              /\ pc'[q] = pc[q] /\ u'[q] = u[q]
    BY DEF Woke, Moves
  <2>2. pc'[p] = l /\ pc[p] # "read block" /\ pc[p] # "write block"
    BY DEF Moves
  <2>3. ASSUME NEW q \in Proc \ {p}, pc[q] = "slept", chan'[q] = "frcnt"
        PROVE  "IFIR" \in fflag /\ fwcnt' > 0 /\ (size = 0 \/ \E x \in Proc : pc'[x] = "write block")
    BY <2>1, <2>2, <2>3 DEF PipeInv, SleepersHeard
  <2>4. ASSUME NEW q \in Proc \ {p}, pc[q] = "slept", chan'[q] = "fwcnt"
        PROVE  /\ "IFIW" \in fflag /\ frcnt' > 0
               /\ \/ u[q].count + size > PIPSIZ /\ (u[q].count > PIPSIZ => size = PIPSIZ)
                  \/ \E x \in Proc : pc'[x] = "read block"
    BY <2>1, <2>2, <2>4 DEF PipeInv, SleepersHeard
  <2>5. \A q \in Proc \ {p} : pc[q] = "opening" =>
           /\ chan'[q] = "frcnt" => frcnt' = 0
           /\ chan'[q] = "fwcnt" => fwcnt' = 0 /\ size = 0
    BY <2>1 DEF PipeInv, SleepersHeard
  <2>6. l = "opening" => (chan'[p] = "frcnt" => frcnt' = 0) /\ (chan'[p] = "fwcnt" => fwcnt' = 0 /\ size = 0)
    BY <1>2
  <2> QED BY ZenonT(60), <1>2, <2>1, <2>2, <2>3, <2>4, <2>5, <2>6 DEF SleepersHeard
<1> QED BY <1>1, <1>3, <1>4, <1>5, <1>6 DEF PipeInv

(* The loops of openp(): a and b are the counts, ch is the sleep queue.    *)
OpensTo(p, f, a, b, ch, l, r) ==
  /\ Moves(p, l, r) /\ Frame(r) /\ r.job = "none"
  /\ chan' \in [Proc -> {"none", "ip", "frcnt", "fwcnt"}]
  /\ \A q \in Proc \ {p} : chan'[q] = ch[q] /\ files'[q] = files[q]
  /\ files' \in [Proc -> SUBSET Modes]
  /\ \/ /\ l = "user" /\ r.file = {} /\ chan'[p] = "none" /\ files'[p] = {f}
     \/ /\ l = "opening" /\ r.file = f /\ files'[p] = {}
        /\ \/ chan'[p] = "frcnt" /\ a = 0
           \/ chan'[p] = "fwcnt" /\ b = 0 /\ size = 0

(* The loops leave by one of these.                                        *)
LEMMA OpensEnds ==
  ASSUME PipeInv, NEW p \in Proc, NEW f \in Modes, NEW nd \in BOOLEAN, NEW a, NEW b,
         NEW ch \in [Proc -> {"none", "ip", "frcnt", "fwcnt"}],
         Opens(p, f, nd, a, b, ch), ch[p] = "none", files[p] = {}
  PROVE  \E l, r : OpensTo(p, f, a, b, ch, l, r)
<1> DEFINE c == IF f = R /\ b = 0 /\ ~nd /\ size = 0 THEN "fwcnt"
                ELSE IF f = W /\ a = 0 THEN "frcnt" ELSE "none"
<1>0. files \in [Proc -> SUBSET Modes]
  BY DEF PipeInv, TypeOK
<1>1. CASE c = "none"
  <2> DEFINE r == [NoCall EXCEPT !.told = "none"]
  <2>1. /\ files' = [files EXCEPT ![p] = @ \cup {f}] /\ chan' = ch /\ Returns(p, "none")
    BY <1>1 DEF Opens
  <2>2. Moves(p, "user", r) /\ Frame(r) /\ r.job = "none" /\ r.file = {}
    BY <2>1, NoCallFrame DEF Returns, Goes, PipeInv, Frames, Moves, Place
  <2>3. files' \in [Proc -> SUBSET Modes] /\ files'[p] = {f} /\ \A q \in Proc \ {p} : files'[q] = files[q]
    BY <1>0, <2>1
  <2> HIDE DEF r
  <2> QED BY <2>1, <2>2, <2>3 DEF OpensTo
<1>2. CASE c # "none"
  <2> DEFINE r == [NoCall EXCEPT !.file = f]
  <2>1. /\ chan' = [ch EXCEPT ![p] = c] /\ Goes(p, "opening")
        /\ u' = [u EXCEPT ![p] = r] /\ UNCHANGED files
    BY <1>2 DEF Opens
  <2>2. Moves(p, "opening", r) /\ Frame(r) /\ r.job = "none" /\ r.file = f
    BY <2>1, NoCallFrame DEF Goes, PipeInv, Frames, Moves, Place
  <2>3. (c = "frcnt" /\ a = 0) \/ (c = "fwcnt" /\ b = 0 /\ size = 0)
    BY <1>2
  <2> HIDE DEF r, c
  <2>4. /\ chan' \in [Proc -> {"none", "ip", "frcnt", "fwcnt"}] /\ chan'[p] = c
        /\ \A q \in Proc \ {p} : chan'[q] = ch[q]
    BY <2>1, <2>3
  <2> QED BY <1>0, <2>1, <2>2, <2>3, <2>4 DEF OpensTo
<1> QED BY <1>1, <1>2

(* openp() counts the opener, and wakes who waited for it. *)
LEMMA OpenStep ==
  ASSUME PipeInv, NEW p \in Proc, NEW f \in Opened, NEW nd \in BOOLEAN, Open(p, f, nd),
         ~(UNCHANGED <<frcnt, fwcnt, proc>>)
  PROVE  PipeInv'
<1> DEFINE a  == frcnt + Cardinality(f \cap R)
           b  == fwcnt + Cardinality(f \cap W)
           up == (IF a = 1 /\ frcnt = 0 THEN {"frcnt"} ELSE {})
                 \cup (IF b = 1 /\ fwcnt = 0 THEN {"fwcnt"} ELSE {})
           ch == Woken(chan, up)
<1>1. /\ pc[p] = "user" /\ chan[p] = "none" /\ files[p] = {} /\ u[p].job = "none" /\ f \in Modes
      /\ frcnt' = a /\ fwcnt' = b /\ Opens(p, f, nd, a, b, ch)
      /\ UNCHANGED <<size, frptr, fwptr, fflag, ring, lock>>
  BY ModesOf DEF Open, At, PipeInv, Jobs, JobFits
<1>2. /\ a = frcnt + Bit("r" \in f) /\ b = fwcnt + Bit("w" \in f)
      /\ frcnt \in Nat /\ fwcnt \in Nat
  BY <1>1, ModesOf DEF PipeInv, TypeOK
<1>3. /\ frcnt' \in Nat /\ (frcnt > 0 => frcnt' > 0)
      /\ frcnt = 0 => frcnt' = 0 \/ "frcnt" \in up
      /\ fwcnt' \in Nat /\ (fwcnt > 0 => fwcnt' > 0)
      /\ fwcnt = 0 => fwcnt' = 0 \/ "fwcnt" \in up
  BY <1>1, <1>2 DEF Bit
<1>4. /\ frcnt' = (IF "r" \in f THEN frcnt + 1 ELSE frcnt)
      /\ fwcnt' = (IF "w" \in f THEN fwcnt + 1 ELSE fwcnt)
  BY <1>1, <1>2 DEF Bit
<1> HIDE DEF up
<1>5. /\ ch \in [Proc -> {"none", "ip", "frcnt", "fwcnt"}] /\ ch[p] = "none"
      /\ \A q \in Proc : ch[q] = IF chan[q] \in up THEN "none" ELSE chan[q]
  BY <1>1 DEF Woken, PipeInv, TypeOK
<1> HIDE DEF a, b, ch
<1>6. PICK l, r : OpensTo(p, f, a, b, ch, l, r)
  BY <1>1, <1>5, OpensEnds
<1>7. Woke(p) /\ \A q \in Proc \ {p} : chan'[q] # "none" => chan'[q] = chan[q] /\ chan[q] \notin up
  BY <1>5, <1>6 DEF Woke, OpensTo
<1>8. CountsExact'
  <2>1. \A m \in {"r", "w"} : ~HalfHas(p, m) /\ (HalfHas(p, m)' <=> l = "opening" /\ m \in f)
    BY <1>1, <1>6 DEF HalfHas, Moves, OpensTo
  <2>2. f \notin files[p] /\ (f \in files'[p] <=> l = "user")
        /\ \A g \in Modes \ {f} : g \in files'[p] <=> g \in files[p]
    BY <1>1, <1>6 DEF OpensTo
  <2>3. \A m \in {"r", "w"} : m \in f =>
           1 = (Bit(f \in files'[p]) + Bit(HalfHas(p, m)')) - (Bit(f \in files[p]) + Bit(HalfHas(p, m)))
    BY <1>6, <2>1, <2>2 DEF Bit, OpensTo
  <2>4. \A m \in {"r", "w"} : m \notin f => ~HalfHas(p, m) /\ ~HalfHas(p, m)'
    BY <2>1
  <2>5. 1 \in Int
    OBVIOUS
  <2> QED BY <1>1, <1>4, <1>6, <2>2, <2>3, <2>4, <2>5, CountsMoved DEF PipeInv, OpensTo
<1>9. \/ l = "user" /\ chan'[p] = "none"
      \/ /\ l = "opening" /\ r.file \in Modes /\ files'[p] = {}
         /\ \/ chan'[p] = "frcnt" /\ frcnt' = 0
            \/ chan'[p] = "fwcnt" /\ fwcnt' = 0 /\ size = 0
  BY <1>1, <1>6 DEF OpensTo
<1>10. \A q \in Proc \ {p} : /\ chan'[q] = "frcnt" => (frcnt = 0 => frcnt' = 0)
                             /\ chan'[q] = "fwcnt" => (fwcnt = 0 => fwcnt' = 0)
  BY <1>3, <1>7
<1> QED BY <1>1, <1>3, <1>6, <1>7, <1>8, <1>9, <1>10, OpenedStep DEF OpensTo

(* The opener looks again: it is counted already. *)
LEMMA OpenAgainStep ==
  ASSUME PipeInv, NEW p \in Proc, OpenAgain(p)
  PROVE  PipeInv'
<1> DEFINE f == u[p].file
<1>1. /\ pc[p] = "opening" /\ chan[p] = "none" /\ files[p] = {} /\ u[p].job = "none" /\ f \in Modes
      /\ Opens(p, f, FALSE, frcnt, fwcnt, chan) /\ UNCHANGED <<fifo, lock>>
  BY DEF OpenAgain, At, PipeInv, Frames, Jobs, JobFits
<1>2. /\ chan \in [Proc -> {"none", "ip", "frcnt", "fwcnt"}] /\ frcnt \in Nat /\ fwcnt \in Nat
  BY DEF PipeInv, TypeOK
<1>3. \A m \in {"r", "w"} : HalfHas(p, m) <=> m \in f
  BY <1>1 DEF HalfHas
<1> HIDE DEF f
<1>4. PICK l, r : OpensTo(p, f, frcnt, fwcnt, chan, l, r)
  BY <1>1, <1>2, OpensEnds
<1>5. UNCHANGED <<frcnt, fwcnt, size, frptr, fwptr, fflag, lock>>
  BY <1>1 DEF fifo
<1>6. Woke(p)
  BY <1>4 DEF Woke, OpensTo
<1>7. CountsExact'
  <2>1. \A m \in {"r", "w"} : HalfHas(p, m)' <=> l = "opening" /\ m \in f
    BY <1>4 DEF HalfHas, Moves, OpensTo
  <2>2. f \notin files[p] /\ (f \in files'[p] <=> l = "user")
        /\ \A g \in Modes \ {f} : g \in files'[p] <=> g \in files[p]
    BY <1>1, <1>4 DEF OpensTo
  <2>3. \A m \in {"r", "w"} : m \in f =>
           0 = (Bit(f \in files'[p]) + Bit(HalfHas(p, m)')) - (Bit(f \in files[p]) + Bit(HalfHas(p, m)))
    BY <1>3, <1>4, <2>1, <2>2 DEF Bit, OpensTo
  <2>4. \A m \in {"r", "w"} : m \notin f => ~HalfHas(p, m) /\ ~HalfHas(p, m)'
    BY <1>3, <2>1
  <2>5. \A n \in Nat : n + 0 = n
    OBVIOUS
  <2>6. /\ frcnt' = (IF "r" \in f THEN frcnt + 0 ELSE frcnt)
        /\ fwcnt' = (IF "w" \in f THEN fwcnt + 0 ELSE fwcnt) /\ 0 \in Int
    BY <1>2, <1>5, <2>5
  <2> QED BY <1>1, <1>4, <2>2, <2>3, <2>4, <2>6, CountsMoved DEF PipeInv, OpensTo
<1> QED BY <1>1, <1>2, <1>4, <1>5, <1>6, <1>7, OpenedStep DEF OpensTo

------------------------------------------------------------------------------
(* The invariant, and what it says.                                        *)

(* At first nobody has the pipe open, or who called pipe() has both ends.  *)
LEMMA InitPipe == Init => PipeInv
<1> SUFFICES ASSUME Init PROVE PipeInv
  OBVIOUS
<1>1. PICK T \in {{}} \cup {{p} : p \in Proc} :
        /\ files = [p \in Proc |-> IF p \in T THEN {R, W} ELSE {}]
        /\ frcnt = Cardinality(T) /\ fwcnt = Cardinality(T)
  BY DEF Init
<1>2. T \in SUBSET Proc /\ Cardinality({}) = 0 /\ Cardinality(T) \in Nat
  BY FS_Subset, FS_CardinalityType, FS_EmptySet, PipeAssumption
<1>3. /\ size = 0 /\ frptr = 0 /\ fwptr = 0 /\ fflag = {} /\ locked = FALSE /\ want = FALSE
      /\ chan = [p \in Proc |-> "none"] /\ pc = [p \in Proc |-> "user"] /\ u = [p \in Proc |-> NoCall]
  BY DEF Init
<1>4. TypeOK
  <2>1. {R, W} \in SUBSET Modes /\ {} \in SUBSET Modes
    BY DEF Modes
  <2>2. 0 \in 0 .. PIPSIZ /\ 0 \in 0 .. PIPSIZ - 1
    BY PIPSIZNat
  <2> QED BY <1>1, <1>2, <1>3, <2>1, <2>2 DEF TypeOK
<1>5. Frames /\ Jobs /\ PipeLocked /\ Fits /\ SleepersHeard
  BY <1>3, NoCallFrame DEF Frames, Jobs, PipeLocked, Fits, SleepersHeard, JobFits, Holds, Place
<1>6. CountsExact
  <2>1. ASSUME NEW m \in {"r", "w"}
        PROVE  Ends(m) = Cardinality(T)
    <3>1. {m} = R \/ {m} = W
      BY DEF R, W
    <3>2. {"r", "w"} # R /\ {"r", "w"} # W
      BY ModesOf DEF R, W
    <3>3. Having({m}) = T /\ Having({"r", "w"}) = {}
      BY <1>1, <1>2, <3>1, <3>2 DEF Having
    <3>4. Half(m) = {}
      BY <1>3, NoCallFrame DEF Half
    <3>5. \A n \in Nat : n + 0 + 0 = n
      OBVIOUS
    <3> QED BY <1>2, <3>3, <3>4, <3>5 DEF Ends
  <2> QED BY <1>1, <2>1 DEF CountsExact
<1> QED BY <1>4, <1>5, <1>6 DEF PipeInv

(* Every step keeps the invariant.                                         *)
LEMMA NextPipe == PipeInv /\ [Next]_vars => PipeInv'
<1> SUFFICES ASSUME PipeInv, [Next]_vars PROVE PipeInv'
  OBVIOUS
<1>1. CASE UNCHANGED vars
  BY ZenonT(60), <1>1 DEF vars, fifo, lock, proc, PipeInv, TypeOK, Frames, Jobs, PipeLocked, Fits, CountsExact,
              SleepersHeard, Ends, Having, Half, Holds
<1>2. ASSUME NEW p \in Proc, Step(p)
      PROVE  PipeInv'
  BY <1>2, PlockStep, OpenAgainStep, ClosepStep, SleptStep, BackStep, ReadStep, ReadBlockStep,
     ReadEndStep, WriteStep, WriteBlockStep, WriteEndStep DEF Step
<1>3. ASSUME NEW p \in Proc, User(p)
      PROVE  PipeInv'
  <2>1. ASSUME NEW f \in Opened, NEW nd \in BOOLEAN, Open(p, f, nd)
        PROVE  PipeInv'
    <3>1. CASE UNCHANGED <<frcnt, fwcnt, proc>>
      BY <1>1, <2>1, <3>1 DEF Open, vars, fifo, lock, proc
    <3> QED BY <2>1, <3>1, OpenStep
  <2>2. Reads \subseteq Nat /\ Writes \subseteq Nat
    BY PipeAssumption
  <2> QED BY <1>3, <2>1, <2>2, CloseStep, BeginStep, InterruptedStep DEF User
<1> QED BY <1>1, <1>2, <1>3 DEF Next

(* The invariant holds of every pipe, of any size and with any processes.  *)
THEOREM PipeInvariance == Spec => []PipeInv
BY InitPipe, NextPipe, PTL DEF Spec

(* No wakeup is lost: who sleeps in readi(), writei(), openp() or plock()  *)
(* has reason to, however the calls of the others are interleaved.         *)
THEOREM Sleepers == Spec => []SleepsForReason
<1>1. PipeInv => SleepsForReason
  <2> SUFFICES ASSUME PipeInv PROVE SleepsForReason
    OBVIOUS
  <2>1. ~locked => \A q \in Proc : pc[q] \notin {"read block", "write block"}
    BY DEF PipeInv, PipeLocked, Holds
  <2>2. frcnt \in Nat /\ fwcnt \in Nat
    BY DEF PipeInv, TypeOK
  <2> QED BY <2>1, <2>2 DEF PipeInv, PipeLocked, SleepersHeard, SleepsForReason
<1> QED BY <1>1, PipeInvariance, PTL

------------------------------------------------------------------------------
(* The pointers: where the bytes begin and where they end, also while a    *)
(* call is in the middle of them.                                          *)
Blocks == {"read block", "write block"}

Pointers ==
  /\ \A p \in Proc : pc[p] = "read block" => fwptr = (u[p].offset + size) % PIPSIZ
  /\ \A p \in Proc : pc[p] = "write block" => u[p].offset = (frptr + size) % PIPSIZ
  /\ (\A p \in Proc : pc[p] \notin Blocks) => fwptr = (frptr + size) % PIPSIZ

(* Before the end of the ring, past it once, and both.                     *)
LEMMA NotYet == \A k \in Nat \ {0}, x \in Nat : x < k => x % k = x
OBVIOUS

LEMMA OnceRound == \A k \in Nat \ {0}, x \in Nat : k <= x /\ x < k + k => x % k = x - k
OBVIOUS

LEMMA Wrap == \A k \in Nat \ {0}, x \in Nat : x < k + k => x % k = IF x < k THEN x ELSE x - k
<1>1. \A k, x \in Nat : ~(x < k) => k <= x
  OBVIOUS
<1> QED BY <1>1, NotYet, OnceRound

(* n bytes further on from place a, where s bytes are left or were. *)
LEMMA WrapOn ==
  ASSUME NEW k \in Nat \ {0}, NEW a \in 0 .. k - 1, NEW s \in Nat, NEW n \in Nat
  PROVE  /\ s <= k /\ n <= s => (((a + n) % k) + (s - n)) % k = (a + s) % k
         /\ s + n <= k => (((a + s) % k) + n) % k = (a + (s + n)) % k
<1>1. \A x \in Nat : x < k + k => x % k = IF x < k THEN x ELSE x - k
  BY Wrap
<1>2. ASSUME s <= k, n <= s
      PROVE  (((a + n) % k) + (s - n)) % k = (a + s) % k
  <2>1. (a + n) % k = (IF a + n < k THEN a + n ELSE a + n - k)
    BY <1>1, <1>2
  <2>2. (a + s) % k = (IF a + s < k THEN a + s ELSE a + s - k)
    BY <1>1, <1>2
  <2>3. CASE a + n < k
    <3>1. (a + n) + (s - n) = a + s
      OBVIOUS
    <3> QED BY <2>1, <2>3, <3>1
  <2>4. CASE ~(a + n < k)
    <3>1. (a + n - k) + (s - n) = a + s - k /\ a + s - k \in Nat /\ a + s - k < k /\ ~(a + s < k)
      BY <1>2, <2>4
    <3>2. (a + s - k) % k = a + s - k
      BY <1>1, <3>1
    <3> QED BY <2>1, <2>2, <2>4, <3>1, <3>2
  <2> QED BY <2>3, <2>4
<1>3. ASSUME s + n <= k
      PROVE  (((a + s) % k) + n) % k = (a + (s + n)) % k
  <2>1. (a + s) % k = (IF a + s < k THEN a + s ELSE a + s - k)
    BY <1>1, <1>3
  <2>2. CASE a + s < k
    <3>1. (a + s) + n = a + (s + n)
      OBVIOUS
    <3> QED BY <2>1, <2>2, <3>1
  <2>3. CASE ~(a + s < k)
    <3>1. /\ (a + s - k) + n = a + (s + n) - k
          /\ a + (s + n) - k \in Nat /\ a + (s + n) - k < k
          /\ a + (s + n) \in Nat /\ a + (s + n) < k + k /\ ~(a + (s + n) < k)
      BY <1>3, <2>3
    <3>2. (a + (s + n) - k) % k = a + (s + n) - k /\ (a + (s + n)) % k = a + (s + n) - k
      BY <1>1, <3>1
    <3> QED BY <2>1, <2>3, <3>1, <3>2
  <2> QED BY <2>2, <2>3
<1> QED BY <1>2, <1>3

(* What neither begins nor ends in the middle of the bytes. *)
LEMMA PointersKept ==
  ASSUME Pointers, UNCHANGED <<size, frptr, fwptr>>,
         \A q \in Proc : /\ pc[q] \in Blocks <=> pc'[q] \in Blocks
                         /\ pc[q] \in Blocks => pc'[q] = pc[q] /\ u'[q].offset = u[q].offset
  PROVE  Pointers'
BY DEF Pointers, Blocks

(* A call that begins with the bytes begins at their pointer.              *)
LEMMA PointersBegin ==
  ASSUME PipeInv, Pointers, NEW p \in Proc, Read(p) \/ Write(p)
  PROVE  Pointers'
<1>1. pc[p] \in {"read", "write"} /\ \A q \in Proc : pc[q] \notin Blocks
  BY DEF Read, Write, At, PipeInv, PipeLocked, Holds, Blocks
<1>2. fwptr = (frptr + size) % PIPSIZ /\ DOMAIN u = Proc /\ pc \in [Proc -> Place] /\ DOMAIN u[p] = Field
  BY <1>1 DEF Pointers, PipeInv, Frames, Frame
<1>3. CASE Goes(p, "slept") \/ \E how : Returns(p, how)
  <2>1. \A q \in Proc : pc'[q] \notin Blocks
    BY <1>1, <1>2, <1>3 DEF Goes, Returns, Blocks
  <2>2. UNCHANGED <<size, frptr, fwptr>>
    BY <1>1, <1>2, <1>3, <2>1 DEF Read, Write, WaitsOn, fifo
  <2> QED BY <1>1, <2>1, <2>2, PointersKept
<1>4. CASE /\ Goes(p, "read block") /\ u' = [u EXCEPT ![p].offset = frptr] /\ UNCHANGED fifo
  <2>1. pc'[p] = "read block" /\ u'[p].offset = frptr /\ UNCHANGED <<size, frptr, fwptr>>
    BY <1>2, <1>4 DEF Goes, Field, fifo
  <2>2. \A q \in Proc \ {p} : pc'[q] \notin Blocks
    BY <1>1, <1>2, <1>4 DEF Goes
  <2> QED BY <1>2, <2>1, <2>2 DEF Pointers, Blocks
<1>5. ASSUME NEW c, NEW s, Goes(p, "write block"), UNCHANGED fifo,
             u' = [u EXCEPT ![p].offset = fwptr, ![p].count = c, ![p].usave = s]
      PROVE  Pointers'
  <2> DEFINE r == [u[p] EXCEPT !.offset = fwptr, !.count = c, !.usave = s]
  <2>1. u' = [u EXCEPT ![p] = r] /\ r.offset = fwptr
    BY <1>2, <1>5 DEF Field
  <2> HIDE DEF r
  <2>2. pc'[p] = "write block" /\ u'[p].offset = fwptr /\ UNCHANGED <<size, frptr, fwptr>>
    BY <1>2, <1>5, <2>1 DEF Goes, fifo
  <2>3. \A q \in Proc \ {p} : pc'[q] \notin Blocks
    BY <1>1, <1>2, <1>5 DEF Goes
  <2> QED BY <1>2, <2>2, <2>3 DEF Pointers, Blocks
<1>6. CASE Read(p)
  BY <1>3, <1>4, <1>6 DEF Read, WaitsOn
<1>7. CASE Write(p)
  BY ZenonT(60), <1>3, <1>5, <1>7 DEF Write, WaitsOn
<1> QED BY <1>6, <1>7

(* A block of bytes moves the offset and i_size together.                  *)
LEMMA PointersBlock ==
  ASSUME PipeInv, Pointers, NEW p \in Proc, ReadBlock(p) \/ WriteBlock(p)
  PROVE  Pointers'
<1>1. /\ pc[p] \in Blocks /\ \A q \in Proc \ {p} : pc[q] \notin Blocks
      /\ UNCHANGED <<frptr, fwptr, pc>>
  BY DEF ReadBlock, WriteBlock, At, PipeInv, PipeLocked, Holds, Blocks
<1>2. /\ BSIZE \in Nat \ {0} /\ PIPSIZ \in Nat \ {0} /\ u[p].offset \in 0 .. PIPSIZ - 1
      /\ u[p].offset \in Nat /\ u[p].count \in Nat /\ size \in 0 .. PIPSIZ /\ size \in Nat
      /\ frptr \in 0 .. PIPSIZ - 1 /\ DOMAIN u = Proc /\ DOMAIN u[p] = Field
      /\ u[p].count \in Int /\ size \in Int /\ size <= PIPSIZ
  BY CallNumbers DEF PipeInv, TypeOK, Frames, Frame
<1> DEFINE o == u[p].offset
           a == BSIZE - (o % BSIZE)
<1>3. a \in Int
  BY <1>2
<1> HIDE DEF a
<1>4. CASE ReadBlock(p)
  <2> DEFINE n == Least({a, u[p].count, size})
  <2>1. n \in Int /\ n <= size
    BY <1>2, <1>3, LeastOfThree
  <2>2. pc[p] = "read block" /\ n > 0 /\ size' = size - n /\ u'[p].offset = (o + n) % PIPSIZ
    BY <1>2, <1>4 DEF ReadBlock, At, Field, a
  <2> HIDE DEF n
  <2>3. fwptr = (o + size) % PIPSIZ
    BY <2>2 DEF Pointers
  <2>4. (((o + n) % PIPSIZ) + (size - n)) % PIPSIZ = (o + size) % PIPSIZ
    <3>1. n \in Nat /\ size <= PIPSIZ
      <4>1. \A i \in Int : i > 0 => i \in Nat
        OBVIOUS
      <4> QED BY <1>2, <2>1, <2>2, <4>1
    <3> QED BY <1>2, <2>1, <3>1, WrapOn
  <2> QED BY <1>1, <2>2, <2>3, <2>4 DEF Pointers, Blocks
<1>5. CASE WriteBlock(p)
  <2> DEFINE n == Least({a, u[p].count})
  <2>1. n \in Int /\ n <= u[p].count
    BY <1>2, <1>3, LeastOfTwo
  <2>2. pc[p] = "write block" /\ n > 0 /\ size' = size + n /\ u'[p].offset = (o + n) % PIPSIZ
    BY <1>2, <1>5 DEF WriteBlock, At, Field, a
  <2> HIDE DEF n
  <2>3. o = (frptr + size) % PIPSIZ /\ u[p].count + size <= PIPSIZ
    BY <2>2 DEF Pointers, PipeInv, Fits
  <2>4. (o + n) % PIPSIZ = (frptr + (size + n)) % PIPSIZ
    <3>1. n \in Nat /\ size + n <= PIPSIZ
      <4>1. \A i \in Int, c, s, k \in Nat : i > 0 /\ i <= c /\ c + s <= k => i \in Nat /\ s + i <= k
        OBVIOUS
      <4> QED BY <1>2, <2>1, <2>2, <2>3, <4>1
    <3>2. (((frptr + size) % PIPSIZ) + n) % PIPSIZ = (frptr + (size + n)) % PIPSIZ
      BY <1>2, <3>1, WrapOn
    <3> QED BY <2>3, <3>2
  <2> QED BY <1>1, <2>2, <2>4 DEF Pointers, Blocks
<1> QED BY <1>4, <1>5

(* A call that ends leaves its offset in its pointer.                      *)
LEMMA PointersEnd ==
  ASSUME PipeInv, Pointers, NEW p \in Proc, ReadEnd(p) \/ WriteEnd(p) \/ Closep(p)
  PROVE  Pointers'
<1>1. Holds(p) /\ \A q \in Proc \ {p} : pc[q] \notin Blocks
  BY DEF ReadEnd, WriteEnd, Closep, At, PipeInv, PipeLocked, Holds, Blocks
<1>2. \A q \in Proc : pc'[q] \notin Blocks
  BY <1>1 DEF ReadEnd, WriteEnd, Closep, Returns, Goes, Blocks, PipeInv, Frames
<1>3. PIPSIZ \in Nat \ {0} /\ (0 + 0) % PIPSIZ = 0 /\ size \in Nat
  <2>1. PIPSIZ \in Nat \ {0} /\ 0 \in Nat /\ 0 < PIPSIZ /\ 0 < PIPSIZ + PIPSIZ
    BY PIPSIZNat
  <2>2. size \in 0 .. PIPSIZ
    BY DEF PipeInv, TypeOK
  <2>3. 0 % PIPSIZ = 0
    BY <2>1, Wrap
  <2> QED BY <2>1, <2>2, <2>3
<1>4. fwptr' = (frptr' + size') % PIPSIZ
  <2>1. CASE ReadEnd(p)
    <3>1. /\ pc[p] = "read block" /\ size' = size
          /\ frptr' = (IF size > 0 THEN u[p].offset ELSE 0)
          /\ fwptr' = (IF size > 0 THEN fwptr ELSE 0)
      BY <2>1 DEF ReadEnd, At
    <3>2. fwptr = (u[p].offset + size) % PIPSIZ
      BY <3>1 DEF Pointers
    <3>3. size > 0 \/ size = 0
      BY <1>3
    <3> QED BY <1>3, <3>1, <3>2, <3>3
  <2>2. CASE WriteEnd(p)
    <3>1. pc[p] = "write block" /\ size' = size /\ frptr' = frptr /\ fwptr' = u[p].offset
      BY <2>2 DEF WriteEnd, At
    <3> QED BY <3>1 DEF Pointers
  <2>3. CASE Closep(p)
    <3>1. fwptr = (frptr + size) % PIPSIZ
      BY <1>1, <2>3 DEF Closep, At, Pointers, Blocks
    <3>2. UNCHANGED <<size, frptr, fwptr>> \/ (size' = 0 /\ frptr' = 0 /\ fwptr' = 0)
      BY <2>3 DEF Closep
    <3> QED BY <1>3, <3>1, <3>2
  <2> QED BY <2>1, <2>2, <2>3
<1> QED BY <1>2, <1>4 DEF Pointers, Blocks

(* The calls outside the bytes. *)
LEMMA PointersBeside ==
  ASSUME PipeInv, Pointers, NEW p \in Proc,
         Plock(p) \/ OpenAgain(p) \/ Slept(p) \/ Back(p) \/ User(p)
  PROVE  Pointers'
<1>1. pc \in [Proc -> Place] /\ DOMAIN u = Proc /\ u[p].job \notin Blocks
  BY DEF PipeInv, Frames, Frame, Blocks
<1>2. pc[p] \notin Blocks /\ UNCHANGED <<size, frptr, fwptr>>
  BY DEF Plock, OpenAgain, Slept, Back, User, Open, Close, Call, Interrupted, At, Blocks, fifo
<1>3. \A q \in Proc : /\ pc[q] \in Blocks <=> pc'[q] \in Blocks
                      /\ pc[q] \in Blocks => pc'[q] = pc[q] /\ u'[q].offset = u[q].offset
  <2>1. CASE Plock(p)
    BY <1>1, <1>2, <2>1 DEF Plock, Goes
  <2>2. CASE OpenAgain(p)
    BY <1>1, <1>2, <2>2 DEF OpenAgain, Opens, Returns, Goes, Blocks
  <2>3. CASE Slept(p) \/ Back(p)
    BY <1>1, <1>2, <2>3 DEF Slept, Back, Goes, Blocks
  <2>4. CASE User(p)
    <3>1. CASE \E f \in Opened, nd \in BOOLEAN : Open(p, f, nd)
      BY ZenonT(60), <1>1, <1>2, <3>1 DEF Open, Opens, Returns, Goes, Blocks, proc
    <3>2. CASE \E f \in Modes : Close(p, f)
      BY <1>1, <1>2, <3>2 DEF Close, Goes, Blocks
    <3>3. CASE \E job, n : Call(p, job, n)
      BY <1>1, <1>2, <3>3 DEF Call, Goes, Blocks
    <3>4. CASE Interrupted(p)
      BY <1>1, <1>2, <3>4 DEF Interrupted, Returns, Goes, Blocks
    <3> QED BY <2>4, <3>1, <3>2, <3>3, <3>4 DEF User
  <2> QED BY <2>1, <2>2, <2>3, <2>4
<1> QED BY <1>2, <1>3, PointersKept

(* The pointers follow the bytes, also in the middle of a call.            *)
LEMMA PointersInvariance == Spec => []Pointers
<1>1. Init => Pointers
  <2> SUFFICES ASSUME Init PROVE Pointers
    OBVIOUS
  <2>1. size = 0 /\ frptr = 0 /\ fwptr = 0 /\ \A p \in Proc : pc[p] = "user"
    BY DEF Init
  <2>2. PIPSIZ \in Nat \ {0} /\ 0 < PIPSIZ + PIPSIZ /\ 0 < PIPSIZ /\ 0 + 0 = 0
    BY PIPSIZNat
  <2>3. 0 % PIPSIZ = 0
    BY <2>2, Wrap
  <2> QED BY <2>1, <2>2, <2>3 DEF Pointers
<1>2. PipeInv /\ Pointers /\ [Next]_vars => Pointers'
  <2> SUFFICES ASSUME PipeInv, Pointers, [Next]_vars PROVE Pointers'
    OBVIOUS
  <2>1. CASE UNCHANGED vars
    BY <2>1 DEF vars, fifo, proc, Pointers
  <2>2. ASSUME NEW p \in Proc, Step(p) \/ User(p)
        PROVE  Pointers'
    BY <2>2, PointersBegin, PointersBlock, PointersEnd, PointersBeside DEF Step
  <2> QED BY <2>1, <2>2 DEF Next
<1> QED BY <1>1, <1>2, PipeInvariance, PTL DEF Spec

(* Nothing is counted twice or lost: the counts are those of the open and  *)
(* half-open files, i_size never gets past the pipe, and between the calls *)
(* the pointers enclose i_size bytes.                                      *)
THEOREM EndsAndPointers == Spec => []EndsExact
<1>1. PipeInv /\ Pointers => EndsExact
  <2> SUFFICES ASSUME PipeInv, Pointers PROVE EndsExact
    OBVIOUS
  <2>1. ~locked => \A q \in Proc : pc[q] \notin Blocks
    BY DEF PipeInv, PipeLocked, Holds, Blocks
  <2> QED BY <2>1 DEF PipeInv, Pointers, PointersExact, EndsExact
<1> QED BY <1>1, PipeInvariance, PointersInvariance, PTL

------------------------------------------------------------------------------
(* The bytes of the ring: a byte that is x places on.                      *)
LEMMA Times == ASSUME NEW a \in Nat, NEW b \in Nat, NEW c \in Nat, a <= b PROVE a * c <= b * c
OBVIOUS

(* The parts of a place in the pipe: its block and what is before it there. *)
LEMMA Division ==
  ASSUME NEW x \in Nat, NEW b \in Nat \ {0}
  PROVE  x \div b \in Nat /\ x % b \in 0 .. b - 1 /\ x = (x \div b) * b + (x % b)
<1> DEFINE r == x % b
           t == x \div b
<1>1. x \in Int /\ r \in 0 .. b - 1 /\ t \in Int /\ x = b * t + r
  OBVIOUS
<1>2. t \in Nat
  OBVIOUS
<1> HIDE DEF r, t
<1>3. t * b = b * t
  BY <1>1
<1>4. r \in 0 .. b - 1 /\ t \in Nat /\ x = t * b + r
  BY <1>1, <1>2, <1>3
<1> QED
  BY Zenon, <1>4 DEF r, t

(* What is left of a block is in the pipe, and the block is around it.     *)
LEMMA InBlock ==
  ASSUME NEW o \in 0 .. PIPSIZ - 1
  PROVE  /\ o % BSIZE \in 0 .. BSIZE - 1 /\ o % BSIZE <= o
         /\ o + (BSIZE - (o % BSIZE)) <= PIPSIZ
         /\ \A i \in 0 .. PIPSIZ - 1 : BlockOf(i) = BlockOf(o) =>
              i >= o - (o % BSIZE) /\ i < o + (BSIZE - (o % BSIZE))
<1>1. BSIZE \in Nat \ {0} /\ NFADDR \in Nat /\ PIPSIZ = NFADDR * BSIZE /\ PIPSIZ \in Nat /\ o \in Nat
  BY PIPSIZNat, PipeAssumption DEF PIPSIZ
<1> DEFINE d == o \div BSIZE
           m == o % BSIZE
<1>2. d \in Nat /\ m \in 0 .. BSIZE - 1 /\ o = d * BSIZE + m
  BY <1>1, Division
<1> HIDE DEF d, m
<1>3. d * BSIZE \in Nat /\ m <= o
  BY <1>1, <1>2
<1>4. d + 1 <= NFADDR
  <2>1. SUFFICES ASSUME NFADDR <= d PROVE FALSE
    BY <1>1, <1>2
  <2>2. NFADDR * BSIZE <= d * BSIZE
    BY <1>1, <1>2, <2>1, Times
  <2> QED
    BY <1>1, <1>2, <1>3, <2>2
<1>5. o + (BSIZE - m) <= PIPSIZ
  <2>1. (d + 1) * BSIZE <= NFADDR * BSIZE
    BY <1>1, <1>2, <1>4, Times
  <2>2. (d + 1) * BSIZE = d * BSIZE + BSIZE
    BY <1>1, <1>2
  <2> QED
    BY <1>1, <1>2, <1>3, <2>1, <2>2
<1>6. ASSUME NEW i \in 0 .. PIPSIZ - 1, i \div BSIZE = d
      PROVE  i >= o - m /\ i < o + (BSIZE - m)
  <2>1. i % BSIZE \in 0 .. BSIZE - 1 /\ i = d * BSIZE + (i % BSIZE)
    <3>1. i \in Nat
      BY <1>1
    <3>2. i % BSIZE \in 0 .. BSIZE - 1 /\ i = (i \div BSIZE) * BSIZE + (i % BSIZE)
      BY Zenon, <1>1, <3>1, Division
    <3> QED
      BY Zenon, <1>6, <3>2
  <2> QED
    BY <1>1, <1>2, <1>3, <2>1
<1> QED
  BY <1>2, <1>3, <1>5, <1>6 DEF d, m, BlockOf

(* The places of s bytes from f on, and those of m bytes behind them.      *)
LEMMA Ahead ==
  ASSUME NEW P \in Nat \ {0}, NEW f \in 0 .. P - 1, NEW s \in Nat, NEW m \in Nat, s + m <= P, m > 0,
         NEW k \in 1 .. s, NEW i, i = (f + k - 1) % P, NEW o, o = (f + s) % P
  PROVE  i \in 0 .. P - 1 /\ ~(i >= o /\ i < o + m)
<1> DEFINE x == f + s
           y == f + k - 1
<1>1. x \in Nat /\ x < P + P /\ y \in Nat /\ y < P + P
  OBVIOUS
<1>2. o = x % P /\ i = y % P
  OBVIOUS
<1> HIDE DEF x, y
<1>3. o = (IF x < P THEN x ELSE x - P) /\ i = (IF y < P THEN y ELSE y - P)
  BY <1>1, <1>2, Wrap
<1> QED
  BY <1>3 DEF x, y

(* The m places before x, and those of the bytes from x on.                *)
LEMMA BehindIt ==
  ASSUME NEW P \in Nat \ {0}, NEW x \in 1 .. P, NEW m \in Nat, m <= x,
         NEW j \in Nat, j > 0, j + m <= P, NEW i, i = ((x % P) + j - 1) % P
  PROVE  i \in 0 .. P - 1 /\ ~(i >= x - m /\ i < x)
<1> DEFINE e == x % P
           y == e + j - 1
<1>1. x \in Nat /\ x < P + P
  OBVIOUS
<1>2. e = IF x < P THEN x ELSE x - P
  BY <1>1, Wrap
<1>3. i = y % P
  OBVIOUS
<1> HIDE DEF e
<1>4. y \in Nat /\ y < P + P
  BY <1>2
<1> HIDE DEF y
<1>5. i = IF y < P THEN y ELSE y - P
  BY <1>3, <1>4, Wrap
<1> QED
  BY <1>2, <1>5 DEF y

(* A place is found from further on too.                                   *)
LEMMA FurtherOn ==
  ASSUME NEW P \in Nat \ {0}, NEW a \in 0 .. P - 1, NEW n \in Nat, NEW j \in Nat, j > 0, n + j <= P
  PROVE  (((a + n) % P) + j - 1) % P = (a + (n + j) - 1) % P
<1>1. n + (j - 1) <= P /\ j - 1 \in Nat
  OBVIOUS
<1>2. (((a + n) % P) + (j - 1)) % P = (a + (n + (j - 1))) % P
  BY <1>1, WrapOn
<1>3. (a + n) % P \in 0 .. P - 1
  BY ModRange
<1>4. ((a + n) % P) + (j - 1) = ((a + n) % P) + j - 1 /\ a + (n + (j - 1)) = a + (n + j) - 1
  BY <1>3
<1> QED
  BY <1>2, <1>4

------------------------------------------------------------------------------
(* The bytes in the ring, as a sequence.                                   *)
Byte == Int \cup {Lost}
Ring == [0 .. PIPSIZ - 1 -> Byte]
Stretch(r, f, n) == [i \in 1 .. n |-> r[(f + i - 1) % PIPSIZ]]

(* The values of a stretch of the ring.                                     *)
LEMMA StretchIs ==
  ASSUME NEW r \in Ring, NEW f \in 0 .. PIPSIZ - 1, NEW n \in Nat
  PROVE  /\ Stretch(r, f, n) \in Seq(Byte) /\ Len(Stretch(r, f, n)) = n
         /\ \A i \in 1 .. n : Stretch(r, f, n)[i] = r[(f + i - 1) % PIPSIZ]
<1>1. ASSUME NEW i \in 1 .. n PROVE r[(f + i - 1) % PIPSIZ] \in Byte
  <2> DEFINE x == f + i - 1
  <2>1. x \in Nat
    OBVIOUS
  <2> HIDE DEF x
  <2>2. x % PIPSIZ \in 0 .. PIPSIZ - 1
    BY <2>1, PIPSIZNat, ModRange
  <2> HIDE DEF Byte
  <2> QED
    BY <2>2 DEF Ring, x
<1> DEFINE s == Stretch(r, f, n)
<1>2. s \in [1 .. n -> Byte] /\ \A i \in 1 .. n : s[i] = r[(f + i - 1) % PIPSIZ]
  BY <1>1 DEF Stretch
<1> HIDE DEF s
<1>3. s \in Seq(Byte) /\ Len(s) = n
  BY <1>2
<1> QED
  BY <1>2, <1>3 DEF s

(* Two that have the same bytes.                                           *)
LEMMA SameStretch ==
  ASSUME NEW r, NEW r2, NEW f, NEW g, NEW n,
         \A i \in 1 .. n : r[(f + i - 1) % PIPSIZ] = r2[(g + i - 1) % PIPSIZ]
  PROVE  Stretch(r, f, n) = Stretch(r2, g, n)
BY DEF Stretch

(* A stretch of no bytes.                                                   *)
LEMMA NoStretch ==
  ASSUME NEW r, NEW f
  PROVE  Stretch(r, f, 0) = <<>>
BY DEF Stretch

(* The values of a part of a sequence.                                      *)
LEMMA SubIs ==
  ASSUME NEW T, NEW s \in Seq(T), NEW a \in Nat, NEW b \in Nat, a > 0, a <= b + 1, b <= Len(s)
  PROVE  /\ SubSeq(s, a, b) \in Seq(T) /\ Len(SubSeq(s, a, b)) = b - a + 1
         /\ \A i \in 1 .. b - a + 1 : SubSeq(s, a, b)[i] = s[a + i - 1]
<1>1. \A i \in a .. b : s[i] \in T
  OBVIOUS
<1>2. /\ SubSeq(s, a, b) \in Seq(T) /\ Len(SubSeq(s, a, b)) = IF a <= b THEN b - a + 1 ELSE 0
      /\ \A i \in 1 .. b - a + 1 : SubSeq(s, a, b)[i] = s[a + i - 1]
  BY <1>1, SubSeqProperties
<1> QED
  BY <1>2

(* The bytes behind the first n of s are still there.                      *)
SameBehind(r, r2, f, s, n) ==
  \A j \in 1 .. s - n : r2[(f + (n + j) - 1) % PIPSIZ] = r[(f + (n + j) - 1) % PIPSIZ]

(* The first n, none of which is at the start again.                       *)
Straight(r, f, n) == [i \in 1 .. n |-> r[f + i - 1]]

(* What is taken from the front, and what is left.                         *)
LEMMA StretchTaken ==
  ASSUME NEW r \in Ring, NEW r2 \in Ring, NEW f \in 0 .. PIPSIZ - 1, NEW s \in 0 .. PIPSIZ, NEW n \in 1 .. s,
         f + n <= PIPSIZ, SameBehind(r, r2, f, s, n)
  PROVE  /\ SubSeq(Stretch(r, f, s), 1, n) = Straight(r, f, n)
         /\ SubSeq(Stretch(r, f, s), n + 1, s) = Stretch(r2, (f + n) % PIPSIZ, s - n)
<1> DEFINE q == Stretch(r, f, s)
           a == SubSeq(q, 1, n)
           b == SubSeq(q, n + 1, s)
           c == [i \in 1 .. n |-> r[f + i - 1]]
           g == (f + n) % PIPSIZ
           d == Stretch(r2, g, s - n)
<1>1. PIPSIZ \in Nat \ {0} /\ s \in Nat /\ s <= PIPSIZ /\ n \in Nat /\ n > 0 /\ s - n \in Nat
  BY PIPSIZNat
<1>2. q \in Seq(Byte) /\ Len(q) = s /\ \A i \in 1 .. s : q[i] = r[(f + i - 1) % PIPSIZ]
  BY <1>1, StretchIs
<1> HIDE DEF q
<1>3. a \in Seq(Byte) /\ Len(a) = n /\ \A i \in 1 .. n : a[i] = q[i]
  <2>1. /\ a \in Seq(Byte) /\ Len(a) = n - 1 + 1
        /\ \A i \in 1 .. n - 1 + 1 : a[i] = q[1 + i - 1]
    BY <1>1, <1>2, SubIs
  <2> HIDE DEF a
  <2> QED
    BY <1>1, <2>1
<1>4. b \in Seq(Byte) /\ Len(b) = s - n /\ \A j \in 1 .. s - n : b[j] = q[n + j]
  <2>1. /\ b \in Seq(Byte) /\ Len(b) = s - (n + 1) + 1
        /\ \A i \in 1 .. s - (n + 1) + 1 : b[i] = q[n + 1 + i - 1]
    BY <1>1, <1>2, SubIs
  <2> HIDE DEF b
  <2> QED
    BY <1>1, <2>1
<1>5. \A i \in 1 .. n : r[(f + i - 1) % PIPSIZ] = r[f + i - 1]
  <2>1. ASSUME NEW i \in 1 .. n PROVE (f + i - 1) % PIPSIZ = f + i - 1
    <3> DEFINE x == f + i - 1
    <3>1. x \in Nat /\ x < PIPSIZ
      BY <1>1
    <3> HIDE DEF x
    <3>2. x % PIPSIZ = x
      BY <1>1, <3>1, NotYet
    <3> QED
      BY <3>2 DEF x
  <2> QED
    BY <2>1
<1>6. g \in 0 .. PIPSIZ - 1
  BY <1>1, ModRange
<1> HIDE DEF g
<1>7. d \in Seq(Byte) /\ Len(d) = s - n /\ \A j \in 1 .. s - n : d[j] = r2[(g + j - 1) % PIPSIZ]
  BY <1>1, <1>6, StretchIs
<1>8. \A j \in 1 .. s - n : (g + j - 1) % PIPSIZ = (f + (n + j) - 1) % PIPSIZ
  BY <1>1, FurtherOn DEF g
<1> HIDE DEF a, b, d
<1>9. c \in Seq(Byte) /\ Len(c) = n /\ \A i \in 1 .. n : c[i] = r[f + i - 1]
  <2>1. \A i \in 1 .. n : f + i - 1 \in 0 .. PIPSIZ - 1
    BY <1>1
  <2>2. c \in [1 .. n -> Byte] /\ \A i \in 1 .. n : c[i] = r[f + i - 1]
    <3> HIDE DEF Byte
    <3> QED
      BY <2>1 DEF Ring
  <2> HIDE DEF c
  <2> QED
    BY <1>1, <2>2
<1> HIDE DEF c
<1>10. a = c
  <2>1. ASSUME NEW i \in 1 .. n PROVE a[i] = c[i]
    <3>1. i \in 1 .. s
      BY <1>1
    <3>2. a[i] = q[i] /\ c[i] = r[f + i - 1]
      BY <1>3, <1>9
    <3>3. q[i] = r[(f + i - 1) % PIPSIZ]
      BY <1>2, <3>1
    <3>4. r[(f + i - 1) % PIPSIZ] = r[f + i - 1]
      BY <1>5
    <3> QED
      BY <3>2, <3>3, <3>4
  <2> QED
    BY <1>3, <1>9, <2>1, SeqEqual
<1>11. b = d
  <2>1. ASSUME NEW j \in 1 .. s - n PROVE b[j] = d[j]
    <3>1. n + j \in 1 .. s
      BY <1>1
    <3>2. b[j] = q[n + j] /\ d[j] = r2[(g + j - 1) % PIPSIZ]
      BY <1>4, <1>7
    <3>3. q[n + j] = r[(f + (n + j) - 1) % PIPSIZ]
      BY <1>2, <3>1
    <3>4. r2[(f + (n + j) - 1) % PIPSIZ] = r[(f + (n + j) - 1) % PIPSIZ]
      BY DEF SameBehind
    <3>5. (g + j - 1) % PIPSIZ = (f + (n + j) - 1) % PIPSIZ
      BY <1>8
    <3> QED
      BY <3>2, <3>3, <3>4, <3>5
  <2> QED
    BY <1>4, <1>7, <2>1, SeqEqual
<1> QED
  BY <1>10, <1>11 DEF a, b, c, d, g, q, Straight

(* What is put behind.                                                     *)
LEMMA StretchPut ==
  ASSUME NEW r \in Ring, NEW f \in 0 .. PIPSIZ - 1, NEW s \in Nat, NEW k \in Nat, k <= s,
         NEW t \in Seq(Byte), k <= Len(t), \A i \in 1 .. k : r[(f + (s - k) + i - 1) % PIPSIZ] = t[i]
  PROVE  Stretch(r, f, s) = Stretch(r, f, s - k) \o SubSeq(t, 1, k)
<1> DEFINE q == Stretch(r, f, s)
           a == Stretch(r, f, s - k)
           b == SubSeq(t, 1, k)
           c == a \o b
<1>1. q \in Seq(Byte) /\ Len(q) = s /\ \A i \in 1 .. s : q[i] = r[(f + i - 1) % PIPSIZ]
  BY StretchIs
<1>2. s - k \in Nat
  OBVIOUS
<1>3. a \in Seq(Byte) /\ Len(a) = s - k /\ \A i \in 1 .. s - k : a[i] = r[(f + i - 1) % PIPSIZ]
  BY <1>2, StretchIs
<1>4. b \in Seq(Byte) /\ Len(b) = k /\ \A i \in 1 .. k : b[i] = t[i]
  <2>1. /\ b \in Seq(Byte) /\ Len(b) = k - 1 + 1
        /\ \A i \in 1 .. k - 1 + 1 : b[i] = t[1 + i - 1]
    BY SubIs
  <2> HIDE DEF b
  <2> QED
    BY <2>1
<1> HIDE DEF q, a, b
<1>5. /\ c \in Seq(Byte) /\ Len(c) = Len(a) + Len(b)
      /\ \A i \in 1 .. Len(a) + Len(b) : c[i] = IF i <= Len(a) THEN a[i] ELSE b[i - Len(a)]
  <2>1. a \in Seq(Byte) /\ b \in Seq(Byte)
    BY <1>3, <1>4
  <2> QED
    BY <2>1, ConcatProperties
<1> HIDE DEF c
<1>6. Len(c) = s /\ 1 .. Len(a) + Len(b) = 1 .. s
  BY <1>3, <1>4, <1>5
<1>7. ASSUME NEW i \in 1 .. s PROVE q[i] = c[i]
  <2>1. c[i] = IF i <= s - k THEN a[i] ELSE b[i - (s - k)]
    BY <1>3, <1>5, <1>6
  <2>2. CASE i <= s - k
    BY SMTT(30), <1>1, <1>3, <2>1, <2>2
  <2>3. CASE ~(i <= s - k)
    <3> DEFINE j == i - (s - k)
    <3>1. j \in 1 .. k /\ f + (s - k) + j - 1 = f + i - 1
      BY <2>3
    <3>2. c[i] = b[j]
      BY <2>1, <2>3
    <3> HIDE DEF j
    <3>3. r[(f + (s - k) + j - 1) % PIPSIZ] = t[j]
      BY <3>1
    <3>4. b[j] = t[j]
      BY <1>4, <3>1
    <3>5. q[i] = r[(f + i - 1) % PIPSIZ]
      BY <1>1
    <3> QED
      BY <3>1, <3>2, <3>3, <3>4, <3>5
  <2> QED
    BY <2>2, <2>3
<1>8. q = c
  BY <1>1, <1>5, <1>6, <1>7, SeqEqual
<1> QED
  BY <1>8 DEF q, a, b, c

------------------------------------------------------------------------------
(* The stream that the pipe is mapped to.                                  *)

Queue   == Stretch(ring, First, size - Put)
Left(c) == IF c.job = "write" THEN [i \in 1 .. c.count + c.usave + c.put |-> Sent(c) - c.put + i]
                              ELSE <<>>
Todo    == [p \in Proc |-> Left(u[p])]
Got     == [p \in Proc |-> u[p].got]
Told    == [p \in Proc |-> u[p].told]

(* Each of its actions, and what it is in the pipe.                        *)
LEMMA EndActs ==
  ASSUME NEW p \in Proc, NEW how,
         how = "eof" => Queue = <<>> /\ fwcnt = 0, how = "pipe" => frcnt = 0,
         how = "done" => Todo[p] = <<>>,
         Told' = [Told EXCEPT ![p] = how], Todo' = [Todo EXCEPT ![p] = <<>>],
         Got' = [Got EXCEPT ![p] = <<>>], UNCHANGED <<Queue, frcnt, fwcnt>>
  PROVE  S!End(p, how)
BY Zenon DEF S!End, Queue, Stretch, Todo, Left, Got, Told

(* A call begins.                                                           *)
LEMMA BeginActs ==
  ASSUME NEW p \in Proc, Todo[p] = <<>>, Todo' = [Todo EXCEPT ![p] = Todo'[p]],
         Told' = [Told EXCEPT ![p] = "none"], Got' = [Got EXCEPT ![p] = <<>>], UNCHANGED <<Queue, frcnt, fwcnt>>
  PROVE  S!Begin(p)
BY Zenon DEF S!Begin, Queue, Stretch, Todo, Left, Got, Told

(* A write, or a piece of one, goes in.                                     *)
LEMMA SendActs ==
  ASSUME NEW p \in Proc, NEW k \in 1 .. Len(Todo[p]), Len(Todo[p]) <= PIPSIZ => k = Len(Todo[p]),
         Len(Queue) + k <= PIPSIZ, Queue' = Queue \o SubSeq(Todo[p], 1, k),
         Todo' = [Todo EXCEPT ![p] = SubSeq(@, k + 1, Len(@))],
         Told' = Told \/ Told' = [Told EXCEPT ![p] = IF Todo'[p] = <<>> THEN "done" ELSE @],
         UNCHANGED <<Got, frcnt, fwcnt>>
  PROVE  S!Send(p, k)
BY Zenon DEF S!Send, Queue, Stretch, Todo, Left, Got, Told

(* Bytes come out.                                                          *)
LEMMA ReceiveActs ==
  ASSUME NEW p \in Proc, NEW k \in 1 .. Len(Queue), Got' = [Got EXCEPT ![p] = @ \o SubSeq(Queue, 1, k)],
         Queue' = SubSeq(Queue, k + 1, Len(Queue)), UNCHANGED <<Todo, Told, frcnt, fwcnt>>
  PROVE  S!Receive(p, k)
BY Zenon DEF S!Receive, Queue, Stretch, Todo, Left, Got, Told

(* The ends of the pipe change, and with the last one the bytes go.         *)
LEMMA RecountActs ==
  ASSUME Queue' = IF frcnt' + fwcnt' = 0 THEN <<>> ELSE Queue,
         \E p \in Proc : Told' = [Told EXCEPT ![p] = "none"], UNCHANGED <<Todo, Got>>
  PROVE  S!Recount
BY Zenon DEF S!Recount, Queue, Stretch, Todo, Left, Got, Told

(* Nothing that the stream has changes.                                     *)
LEMMA StutterActs ==
  ASSUME UNCHANGED <<Queue, Todo, Got, Told, frcnt, fwcnt>>
  PROVE  UNCHANGED S!vars
BY Zenon DEF S!vars, Queue, Stretch, Todo, Left, Got, Told

Act == \/ \E p \in Proc : S!Begin(p)
       \/ \E p \in Proc : \E k \in 1 .. Len(Todo[p]) : S!Send(p, k)
       \/ \E p \in Proc : \E k \in 1 .. Len(Queue) : S!Receive(p, k)
       \/ \E p \in Proc, how \in {"none", "done", "eof", "pipe"} : S!End(p, how)
       \/ S!Recount
       \/ UNCHANGED S!vars

(* These are the steps of the stream.                                       *)
LEMMA ActIs == Act <=> [S!Next]_(S!vars)
BY Zenon DEF Act, S!Next, Queue, Stretch, Todo, Left

------------------------------------------------------------------------------
(* What a call has done so far: a write that is not under way has put      *)
(* nothing, and only one that is longer than the pipe has something saved. *)
Booked(l, r) ==
  /\ r.put \in Nat /\ r.total \in Nat
  /\ l = "user" => r = NoCall
  /\ l = "opening" \/ r.job \in {"closep", "write"} => r.got = <<>>
  /\ l = "opening" \/ r.job \in {"closep", "read", "write"} => r.told = "none"
  /\ r.job = "write" /\ l # "write block" => r.put = 0 /\ r.usave = 0 /\ r.count > 0
  /\ l = "write block" => /\ r.count + r.put > 0
                          /\ r.usave > 0 => r.count + r.usave + r.put > PIPSIZ

Booking == \A p \in Proc : Booked(pc[p], u[p])

(* What was put is in the ring, behind the bytes that are there for all.   *)
InPlace(c, rg, f, s) ==
  /\ c.put <= s
  /\ \A i \in 1 .. c.put : rg[(f + (s - c.put) + i - 1) % PIPSIZ] = Sent(c) - c.put + i

Contents ==
  /\ ring \in Ring
  /\ \A p \in Proc : pc[p] = "write block" => InPlace(u[p], ring, frptr, size)

Stored == Booking /\ Contents

(* The types of the numbers of a call.                                      *)
LEMMA NumbersOf ==
  ASSUME PipeInv, Booking, NEW p \in Proc
  PROVE  /\ u[p].count \in Nat /\ u[p].usave \in Nat /\ u[p].put \in Nat /\ u[p].total \in Nat
         /\ u[p].offset \in 0 .. PIPSIZ - 1 /\ Sent(u[p]) \in Int
<1>1. u[p].count \in Nat /\ u[p].usave \in Nat /\ u[p].offset \in 0 .. PIPSIZ - 1
  BY DEF PipeInv, Frames, Frame
<1>2. u[p].put \in Nat /\ u[p].total \in Nat
  BY DEF Booking, Booked
<1> QED
  BY <1>1, <1>2 DEF Sent

(* A step of one process leaves the booking of the others.                  *)
LEMMA BookingKept ==
  ASSUME Booking, NEW p \in Proc, NEW l, NEW r, Moves(p, l, r), Booked(l, r)
  PROVE  Booking'
BY DEF Booking, Moves

(* A step that touches neither the bytes nor a writer at work on them.      *)
LEMMA ContentsKept ==
  ASSUME Contents, UNCHANGED <<ring, frptr, size>>,
         \A q \in Proc : pc'[q] = "write block" => pc[q] = "write block" /\ u'[q] = u[q]
  PROVE  Contents'
<1>1. ASSUME NEW q \in Proc, pc'[q] = "write block" PROVE InPlace(u[q], ring, frptr, size) /\ u'[q] = u[q]
  BY <1>1 DEF Contents
<1>2. ASSUME NEW q \in Proc, pc'[q] = "write block" PROVE InPlace(u'[q], ring', frptr', size')
  BY <1>1, <1>2
<1> QED
  BY <1>2 DEF Contents

(* Who is at work on the bytes, if anybody.                                *)
LEMMA HalvesNone ==
  ASSUME \A q \in Proc : pc[q] \notin Blocks
  PROVE  Put = 0 /\ First = frptr
BY DEF Put, First, Halves, Blocks

(* A reader at work is alone, and the bytes begin where it is.              *)
LEMMA HalvesRead ==
  ASSUME NEW p \in Proc, pc[p] = "read block", \A q \in Proc \ {p} : pc[q] \notin Blocks
  PROVE  Put = 0 /\ First = u[p].offset
<1>1. Halves("write block") = {}
  BY DEF Halves, Blocks
<1>2. Halves("read block") = {p}
  BY DEF Halves, Blocks
<1> QED
  BY <1>1, <1>2 DEF Put, First

(* A writer at work is alone, and what it has put is not there yet.         *)
LEMMA HalvesWrite ==
  ASSUME NEW p \in Proc, pc[p] = "write block", \A q \in Proc \ {p} : pc[q] \notin Blocks
  PROVE  Put = u[p].put /\ First = frptr
<1>1. Halves("read block") = {}
  BY DEF Halves, Blocks
<1>2. Halves("write block") = {p}
  BY DEF Halves, Blocks
<1> QED
  BY <1>1, <1>2 DEF Put, First

PutOf(w, v)      == IF w = {} THEN 0 ELSE v[CHOOSE p \in w : TRUE].put
FirstOf(w, v, f) == IF w = {} THEN f ELSE v[CHOOSE p \in w : TRUE].offset

(* What is put and where the bytes begin depend on who is at work only.     *)
LEMMA SameHalf ==
  ASSUME NEW w, NEW v, NEW v2, NEW f, \A q \in w : v2[q] = v[q]
  PROVE  PutOf(w, v2) = PutOf(w, v) /\ FirstOf(w, v2, f) = FirstOf(w, v, f)
<1>1. CASE w = {}
  BY <1>1 DEF PutOf, FirstOf
<1>2. CASE w # {}
  <2> DEFINE x == CHOOSE p \in w : TRUE
  <2>1. x \in w
    BY <1>2
  <2> HIDE DEF x
  <2>2. v2[x] = v[x]
    BY <2>1
  <2> QED
    BY Zenon, <2>2 DEF PutOf, FirstOf, x
<1> QED
  BY <1>1, <1>2

(* Who is at work on the bytes stays there.                                 *)
LEMMA HalvesStay ==
  ASSUME NEW b \in Blocks,
         \A q \in Proc : /\ pc'[q] \in Blocks => pc[q] \in Blocks
                         /\ pc[q] \in Blocks => pc'[q] = pc[q] /\ u'[q] = u[q]
  PROVE  Halves(b)' = Halves(b) /\ \A q \in Halves(b) : u'[q] = u[q]
<1>1. ASSUME NEW q \in Proc
      PROVE  /\ pc'[q] = b => pc[q] = b
             /\ pc[q] = b => pc'[q] = b /\ u'[q] = u[q]
  <2>1. CASE pc[q] \in Blocks
    BY <2>1
  <2>2. CASE pc[q] \notin Blocks
    BY <2>2
  <2> QED
    BY <2>1, <2>2
<1> QED
  BY <1>1 DEF Halves

(* A step beside the bytes leaves what is put and where they begin.         *)
LEMMA HalvesBeside ==
  ASSUME \A q \in Proc : /\ pc'[q] \in Blocks => pc[q] \in Blocks
                         /\ pc[q] \in Blocks => pc'[q] = pc[q] /\ u'[q] = u[q],
         frptr' = frptr
  PROVE  Put' = Put /\ First' = First
<1> DEFINE w == Halves("write block")
           r == Halves("read block")
<1>0. "write block" \in Blocks /\ "read block" \in Blocks
  BY DEF Blocks
<1>1. w' = w /\ \A q \in w : u'[q] = u[q]
  BY Zenon, <1>0, HalvesStay
<1>2. r' = r /\ \A q \in r : u'[q] = u[q]
  BY Zenon, <1>0, HalvesStay
<1> HIDE DEF w, r
<1>3. PutOf(w, u') = PutOf(w, u)
  BY <1>1, SameHalf
<1>4. FirstOf(r, u', frptr) = FirstOf(r, u, frptr)
  BY <1>2, SameHalf
<1>5. Put = PutOf(w, u) /\ First = FirstOf(r, u, frptr)
  BY Zenon DEF Put, First, PutOf, FirstOf, w, r
<1>6. Put' = PutOf(w', u') /\ First' = FirstOf(r', u', frptr')
  BY Zenon DEF Put, First, PutOf, FirstOf, w, r
<1> QED
  BY <1>1, <1>2, <1>3, <1>4, <1>5, <1>6

(* The step of one process, as the stream sees it.                         *)
LEMMA MovedCall ==
  ASSUME NEW p \in Proc, NEW l, NEW r, Moves(p, l, r)
  PROVE  /\ Todo' = [Todo EXCEPT ![p] = Left(r)] /\ Got' = [Got EXCEPT ![p] = r.got]
         /\ Told' = [Told EXCEPT ![p] = r.told]
         /\ Todo'[p] = Left(r)
<1>1. \A q \in Proc : u'[q] = IF q = p THEN r ELSE u[q]
  BY DEF Moves
<1>2. Todo' = [Todo EXCEPT ![p] = Left(r)]
  BY <1>1 DEF Todo
<1>3. Got' = [Got EXCEPT ![p] = r.got]
  BY <1>1 DEF Got
<1>4. Told' = [Told EXCEPT ![p] = r.told]
  BY <1>1 DEF Told
<1> QED
  BY <1>2, <1>3, <1>4 DEF Todo

(* A step that leaves the call as the stream sees it.                       *)
LEMMA SameCall ==
  ASSUME NEW p \in Proc, NEW l, NEW r, Moves(p, l, r),
         Left(r) = Left(u[p]), r.got = u[p].got, r.told = u[p].told
  PROVE  UNCHANGED <<Todo, Got, Told>>
<1>1. \A q \in Proc : u'[q] = IF q = p THEN r ELSE u[q]
  BY DEF Moves
<1>2. \A q \in Proc : Left(u'[q]) = Left(u[q]) /\ u'[q].got = u[q].got /\ u'[q].told = u[q].told
  BY <1>1
<1> QED
  BY <1>2 DEF Todo, Got, Told

(* A call that is over.                                                    *)
Over(how) == [NoCall EXCEPT !.told = how]

(* The fields of a call that is over.                                       *)
LEMMA OverIs ==
  ASSUME NEW how
  PROVE  /\ Over(how).job = "none" /\ Over(how).put = 0 /\ Over(how).total = 0
         /\ Over(how).got = <<>> /\ Over(how).told = how /\ Left(Over(how)) = <<>>
<1>1. Over(how).job = "none" /\ Over(how).put = 0 /\ Over(how).total = 0
      /\ Over(how).got = <<>> /\ Over(how).told = how
  BY DEF Over, NoCall
<1> QED
  BY <1>1 DEF Left

(* A call that ends with nothing to tell.                                   *)
LEMMA NoneOver == Over("none") = NoCall
BY DEF Over, NoCall

(* It has its booking.                                                      *)
LEMMA BookedOver ==
  ASSUME NEW how, NEW l, l = "back" \/ (l = "user" /\ how = "none")
  PROVE  Booked(l, Over(how))
<1> DEFINE r == Over(how)
<1>1. r.job = "none" /\ r.put = 0 /\ r.total = 0 /\ r.got = <<>> /\ (l = "user" => r = NoCall)
  BY NoneOver, OverIs
<1> HIDE DEF r
<1>2. 0 \in Nat /\ l # "opening" /\ l # "write block"
  OBVIOUS
<1> QED
  BY <1>1, <1>2 DEF Booked, r

(* A step of a process that is not at work on the bytes.                   *)
LEMMA BesideStored ==
  ASSUME PipeInv, Stored, NEW p \in Proc, NEW l, NEW r, Moves(p, l, r), pc[p] \notin Blocks, l \notin Blocks,
         Booked(l, r), UNCHANGED <<size, frptr, ring>>
  PROVE  Stored' /\ Queue' = Queue
<1>1. Booking'
  BY BookingKept DEF Stored
<1>2. \A q \in Proc : /\ pc'[q] \in Blocks => pc[q] \in Blocks
                      /\ pc[q] \in Blocks => pc'[q] = pc[q] /\ u'[q] = u[q]
  BY Zenon DEF Moves
<1>3. Put' = Put /\ First' = First
  BY <1>2, HalvesBeside
<1>4. \A q \in Proc : pc'[q] = "write block" => pc[q] = "write block" /\ u'[q] = u[q]
  <2> DEFINE b == "write block"
  <2>1. b \in Blocks
    BY DEF Blocks
  <2> HIDE DEF b
  <2>2. \A q \in Proc : pc'[q] = b => pc[q] = b /\ u'[q] = u[q]
    BY <1>2, <2>1
  <2> QED
    BY <2>2 DEF b
<1>5. Contents'
  BY <1>4, ContentsKept DEF Stored
<1> QED
  BY Zenon, <1>1, <1>3, <1>5 DEF Stored, Queue, Stretch

(* One that only waits, or locks the pipe, is none of the stream's.        *)
LEMMA Quiet ==
  ASSUME PipeInv, Stored, NEW p \in Proc, NEW l, NEW r, Moves(p, l, r), pc[p] \notin Blocks, l \notin Blocks,
         Booked(l, r), UNCHANGED <<size, frptr, ring, frcnt, fwcnt>>,
         Left(r) = Left(u[p]), r.got = u[p].got, r.told = u[p].told
  PROVE  Stored' /\ Act
<1>1. Stored' /\ Queue' = Queue
  BY BesideStored
<1>2. UNCHANGED <<Todo, Got, Told>>
  BY SameCall
<1>3. UNCHANGED S!vars
  BY <1>1, <1>2, StutterActs
<1> QED
  BY <1>1, <1>3 DEF Act

(* A write begins.                                                         *)
LEMMA Begins ==
  ASSUME PipeInv, Stored, NEW p \in Proc, NEW l, NEW r, Moves(p, l, r), pc[p] \notin Blocks, l \notin Blocks,
         Booked(l, r), UNCHANGED <<size, frptr, ring, frcnt, fwcnt>>,
         Left(u[p]) = <<>>, r.got = <<>>, r.told = "none"
  PROVE  Stored' /\ Act
<1>1. Stored' /\ Queue' = Queue
  BY BesideStored
<1>2. Todo' = [Todo EXCEPT ![p] = Left(r)] /\ Got' = [Got EXCEPT ![p] = <<>>]
      /\ Told' = [Told EXCEPT ![p] = "none"] /\ Todo'[p] = Left(r)
  BY MovedCall
<1>3. Todo[p] = <<>>
  BY DEF Todo
<1>4. S!Begin(p)
  BY <1>1, <1>2, <1>3, BeginActs
<1> QED
  BY <1>1, <1>4 DEF Act

(* A call is over, and tells how.                                          *)
Hows == {"none", "done", "eof", "pipe"}

(* A call ends.                                                             *)
LEMMA Ended ==
  ASSUME NEW p \in Proc, NEW l, NEW how \in Hows, Moves(p, l, Over(how)),
         how = "eof" => Queue = <<>> /\ fwcnt = 0, how = "pipe" => frcnt = 0,
         how = "done" => Todo[p] = <<>>,
         UNCHANGED <<Queue, frcnt, fwcnt>>
  PROVE  Act
<1>1. /\ Todo' = [Todo EXCEPT ![p] = <<>>] /\ Got' = [Got EXCEPT ![p] = <<>>]
      /\ Told' = [Told EXCEPT ![p] = how]
  BY MovedCall, OverIs
<1>2. S!End(p, how)
  BY <1>1, EndActs
<1> QED
  BY <1>2 DEF Act, Hows

(* One that did nothing to the bytes.                                      *)
LEMMA EndedBeside ==
  ASSUME PipeInv, Stored, NEW p \in Proc, NEW l, NEW how \in Hows, Moves(p, l, Over(how)),
         l = "back" \/ (l = "user" /\ how = "none"), pc[p] \notin Blocks,
         UNCHANGED <<size, frptr, ring, frcnt, fwcnt>>,
         how = "eof" => Queue = <<>> /\ fwcnt = 0, how = "pipe" => frcnt = 0, how # "done"
  PROVE  Stored' /\ Act
<1>1. Booked(l, Over(how)) /\ l \notin Blocks
  BY BookedOver DEF Blocks
<1>2. Stored' /\ Queue' = Queue
  BY <1>1, BesideStored
<1> QED
  BY <1>2, Ended

(* An end of the pipe comes or goes.                                       *)
LEMMA Recounts ==
  ASSUME NEW p \in Proc, NEW l, NEW r, Moves(p, l, r),
         Left(r) = Left(u[p]), r.got = u[p].got, r.told = "none",
         Queue' = IF frcnt' + fwcnt' = 0 THEN <<>> ELSE Queue
  PROVE  Act
<1>1. \A q \in Proc : u'[q] = IF q = p THEN r ELSE u[q]
  BY DEF Moves
<1>2. \A q \in Proc : Left(u'[q]) = Left(u[q]) /\ u'[q].got = u[q].got
  BY <1>1
<1>3. UNCHANGED <<Todo, Got>>
  BY <1>2 DEF Todo, Got
<1>4. Told' = [Told EXCEPT ![p] = "none"]
  BY MovedCall
<1>5. S!Recount
  BY <1>3, <1>4, RecountActs
<1> QED
  BY <1>5 DEF Act

------------------------------------------------------------------------------
(* The steps that do nothing to the bytes.                                 *)

LEMMA BackActs ==
  ASSUME PipeInv, Stored, NEW p \in Proc, Back(p)
  PROVE  Stored' /\ Act
<1>1. Moves(p, "user", Over("none")) /\ pc[p] = "back" /\ UNCHANGED <<size, frptr, ring, frcnt, fwcnt>>
  BY NoneOver DEF Back, At, Goes, PipeInv, Frames, Moves, Place, fifo
<1>2. pc[p] \notin Blocks /\ "none" \in Hows
  BY <1>1 DEF Blocks, Hows
<1> QED
  BY <1>1, <1>2, EndedBeside

(* plock() is nothing to the stream.                                        *)
LEMMA PlockActs ==
  ASSUME PipeInv, Stored, NEW p \in Proc, Plock(p)
  PROVE  Stored' /\ Act
<1>1. pc[p] = "plock" /\ u[p].job \in {"read", "write", "closep"} /\ UNCHANGED <<size, frptr, ring, frcnt, fwcnt>>
  BY DEF Plock, At, PipeInv, Jobs, JobFits, fifo
<1>2. PICK l \in {"plock", u[p].job} : Moves(p, l, u[p])
  <2>1. CASE locked
    BY <1>1, <2>1 DEF Plock, Moves, PipeInv, Frames
  <2>2. CASE ~locked
    BY <1>1, <2>2 DEF Plock, Moves, PipeInv, Frames, Goes, Place
  <2> QED
    BY <2>1, <2>2
<1>3. pc[p] \notin Blocks /\ l \notin Blocks /\ l \in {"plock", "read", "write", "closep"}
  BY <1>1, <1>2 DEF Blocks
<1>4. Booked(pc[p], u[p])
  BY DEF Stored, Booking
<1>5. Booked(l, u[p])
  BY <1>1, <1>3, <1>4 DEF Booked
<1> QED
  BY <1>1, <1>2, <1>3, <1>5, Quiet

(* Nor is what follows a sleep.                                             *)
LEMMA SleptActs ==
  ASSUME PipeInv, Stored, NEW p \in Proc, Slept(p)
  PROVE  Stored' /\ Act
<1>1. Moves(p, "plock", u[p]) /\ pc[p] = "slept" /\ UNCHANGED <<size, frptr, ring, frcnt, fwcnt>>
  BY DEF Slept, At, Goes, PipeInv, Frames, Moves, Place, fifo
<1>2. pc[p] \notin Blocks /\ "plock" \notin Blocks
  BY <1>1 DEF Blocks
<1>3. Booked(pc[p], u[p])
  BY DEF Stored, Booking
<1>4. Booked("plock", u[p])
  BY <1>1, <1>3 DEF Booked
<1> QED
  BY <1>1, <1>2, <1>4, Quiet

(* A call of read() or write() is a beginning of the stream.                *)
LEMMA CallActs ==
  ASSUME PipeInv, Stored, NEW p \in Proc, NEW job \in {"read", "write"}, NEW n \in Nat \ {0}, Call(p, job, n)
  PROVE  Stored' /\ Act
<1> DEFINE r == [NoCall EXCEPT !.job = job, !.count = n, !.total = n]
<1>1. Moves(p, "plock", r) /\ pc[p] = "user" /\ UNCHANGED <<size, frptr, ring, frcnt, fwcnt>>
  BY DEF Call, At, Goes, PipeInv, Frames, Moves, Place, fifo
<1>2. pc[p] \notin Blocks /\ "plock" \notin Blocks
  BY <1>1 DEF Blocks
<1>3. u[p] = NoCall
  BY <1>1 DEF Stored, Booking, Booked
<1>4. NoCall.job = "none" /\ NoCall.got = <<>> /\ NoCall.told = "none"
  BY DEF NoCall
<1>5. /\ r.job = job /\ r.count = n /\ r.total = n /\ r.put = 0 /\ r.usave = 0 /\ r.got = <<>> /\ r.told = "none"
  BY DEF NoCall
<1> HIDE DEF r
<1>6. Booked("plock", r)
  BY <1>5 DEF Booked
<1>7. Left(u[p]) = <<>>
  BY <1>3, <1>4 DEF Left
<1> QED
  BY <1>1, <1>2, <1>5, <1>6, <1>7, Begins

(* close() gives up its ends, which closep() counts later.                  *)
LEMMA CloseActs ==
  ASSUME PipeInv, Stored, NEW p \in Proc, NEW f \in Modes, Close(p, f)
  PROVE  Stored' /\ Act
<1> DEFINE r == [NoCall EXCEPT !.job = "closep", !.file = f]
<1>1. Moves(p, "plock", r) /\ pc[p] = "user" /\ UNCHANGED <<size, frptr, ring, frcnt, fwcnt>>
  BY DEF Close, At, Goes, PipeInv, Frames, Moves, Place, fifo
<1>2. pc[p] \notin Blocks /\ "plock" \notin Blocks
  BY <1>1 DEF Blocks
<1>3. u[p] = NoCall
  BY <1>1 DEF Stored, Booking, Booked
<1>4. NoCall.job = "none" /\ NoCall.got = <<>> /\ NoCall.told = "none"
  BY DEF NoCall
<1>5. r.job = "closep" /\ r.total = 0 /\ r.put = 0 /\ r.got = <<>> /\ r.told = "none"
  BY DEF NoCall
<1> HIDE DEF r
<1>6. Booked("plock", r)
  BY <1>5 DEF Booked
<1>7. Left(u[p]) = <<>>
  BY <1>3, <1>4 DEF Left
<1> QED
  BY <1>1, <1>2, <1>5, <1>6, <1>7, Begins

(* A signal ends a call that sleeps; one in copen() takes its count back.   *)
LEMMA InterruptedActs ==
  ASSUME PipeInv, Stored, NEW p \in Proc, Interrupted(p)
  PROVE  Stored' /\ Act
<1>1. UNCHANGED <<size, frptr, ring, frcnt, fwcnt>> /\ pc[p] \notin Blocks
  BY DEF Interrupted, fifo, Blocks
<1>2. CASE pc[p] = "slept"
  <2>1. Moves(p, "user", Over("none"))
    BY <1>2 DEF Interrupted, Returns, Goes, PipeInv, Frames, Moves, Place, Over
  <2>2. "none" \in Hows
    BY DEF Hows
  <2> QED
    BY <1>1, <2>1, <2>2, EndedBeside
<1>3. CASE pc[p] = "opening"
  <2> DEFINE r == [u[p] EXCEPT !.job = "closep"]
  <2>1. Moves(p, "plock", r)
    BY <1>3 DEF Interrupted, Goes, PipeInv, Frames, Moves, Place
  <2>2. Booked(pc[p], u[p]) /\ u[p].job = "none" /\ "plock" \notin Blocks
    BY <1>3 DEF Stored, Booking, PipeInv, Jobs, JobFits, Blocks
  <2>3. r.job = "closep" /\ r.total = u[p].total /\ r.put = u[p].put /\ r.got = u[p].got /\ r.told = u[p].told
    BY DEF PipeInv, Frames, Frame, Field
  <2> HIDE DEF r
  <2>4. Booked("plock", r)
    BY <1>3, <2>2, <2>3 DEF Booked
  <2>5. Left(r) = Left(u[p])
    BY <2>2, <2>3 DEF Left
  <2> QED
    BY <1>1, <2>1, <2>2, <2>3, <2>4, <2>5, Quiet
<1> QED
  BY <1>2, <1>3 DEF Interrupted

(* openp() has opened the file, or sleeps.                                 *)
LEMMA OpensMoves ==
  ASSUME PipeInv, NEW p \in Proc, NEW f, NEW nd, NEW a, NEW b, NEW ch, Opens(p, f, nd, a, b, ch)
  PROVE  \E l, r : /\ Moves(p, l, r) /\ l \in {"user", "opening"} /\ Booked(l, r)
                   /\ Left(r) = <<>> /\ r.got = <<>> /\ r.told = "none"
<1>1. CASE Returns(p, "none")
  <2>1. Moves(p, "user", Over("none"))
    BY <1>1 DEF Returns, Goes, PipeInv, Frames, Moves, Place, Over
  <2>2. Booked("user", Over("none"))
    BY BookedOver
  <2> QED
    BY <2>1, <2>2, OverIs
<1>2. CASE Goes(p, "opening") /\ u' = [u EXCEPT ![p] = [NoCall EXCEPT !.file = f]]
  <2> DEFINE r == [NoCall EXCEPT !.file = f]
  <2>1. Moves(p, "opening", r)
    BY <1>2 DEF Goes, PipeInv, Frames, Moves, Place
  <2>2. r.job = "none" /\ r.put = 0 /\ r.total = 0 /\ r.got = <<>> /\ r.told = "none"
    BY DEF NoCall
  <2> HIDE DEF r
  <2>3. Booked("opening", r) /\ Left(r) = <<>>
    BY <2>2 DEF Booked, Left
  <2> QED
    BY <2>1, <2>2, <2>3
<1> QED
  BY <1>1, <1>2 DEF Opens

(* The second half of an open has nothing to count.                         *)
LEMMA OpenAgainActs ==
  ASSUME PipeInv, Stored, NEW p \in Proc, OpenAgain(p)
  PROVE  Stored' /\ Act
<1>1. pc[p] = "opening" /\ UNCHANGED <<size, frptr, ring, frcnt, fwcnt>>
      /\ Opens(p, u[p].file, FALSE, frcnt, fwcnt, chan)
  BY DEF OpenAgain, At, fifo
<1>2. PICK l, r : /\ Moves(p, l, r) /\ l \in {"user", "opening"} /\ Booked(l, r)
                  /\ Left(r) = <<>> /\ r.got = <<>> /\ r.told = "none"
  BY <1>1, OpensMoves
<1>3. pc[p] \notin Blocks /\ l \notin Blocks
  BY <1>1, <1>2 DEF Blocks
<1>4. Booked(pc[p], u[p]) /\ u[p].job = "none"
  BY <1>1 DEF Stored, Booking, PipeInv, Jobs, JobFits
<1>5. u[p].got = <<>> /\ u[p].told = "none" /\ Left(u[p]) = <<>>
  BY <1>1, <1>4 DEF Booked, Left
<1> QED
  BY <1>1, <1>2, <1>3, <1>5, Quiet

(* The first half of an open counts its ends.                               *)
LEMMA OpenActs ==
  ASSUME PipeInv, Stored, NEW p \in Proc, NEW f \in Opened, NEW nd \in BOOLEAN, Open(p, f, nd),
         ~(UNCHANGED <<frcnt, fwcnt, proc>>)
  PROVE  Stored' /\ Act
<1> DEFINE a  == frcnt + Cardinality(f \cap R)
           b  == fwcnt + Cardinality(f \cap W)
<1>1. /\ pc[p] = "user" /\ UNCHANGED <<size, frptr, ring>>
      /\ frcnt' = a /\ fwcnt' = b /\ \E ch : Opens(p, f, nd, a, b, ch)
  BY DEF Open, At
<1>2. frcnt' + fwcnt' # 0
  <2>1. f \in Modes /\ frcnt \in Nat /\ fwcnt \in Nat
    BY ModesOf DEF PipeInv, TypeOK
  <2>2. a = frcnt + Bit("r" \in f) /\ b = fwcnt + Bit("w" \in f) /\ ("r" \in f \/ "w" \in f)
    BY <2>1, ModesOf DEF Modes, R, W
  <2> HIDE DEF a, b
  <2> QED
    BY <1>1, <2>1, <2>2 DEF Bit
<1> HIDE DEF a, b
<1>3. PICK l, r : /\ Moves(p, l, r) /\ l \in {"user", "opening"} /\ Booked(l, r)
                  /\ Left(r) = <<>> /\ r.got = <<>> /\ r.told = "none"
  BY <1>1, OpensMoves
<1>4. pc[p] \notin Blocks /\ l \notin Blocks
  BY <1>1, <1>3 DEF Blocks
<1>5. u[p] = NoCall
  BY <1>1 DEF Stored, Booking, Booked
<1>6. u[p].got = <<>> /\ Left(u[p]) = <<>>
  BY <1>5, NoneOver, OverIs
<1>7. Stored' /\ Queue' = Queue
  BY <1>1, <1>3, <1>4, BesideStored
<1> QED
  BY <1>2, <1>3, <1>6, <1>7, Recounts

(* Who holds the lock is alone at the bytes.                               *)
LEMMA Alone ==
  ASSUME PipeInv, NEW p \in Proc, Holds(p)
  PROVE  \A q \in Proc \ {p} : pc[q] \notin Blocks
BY DEF PipeInv, PipeLocked, Holds, Blocks

(* The same after a step: nobody is at work.                                *)
LEMMA HalvesNoneThen ==
  ASSUME \A q \in Proc : pc'[q] \notin Blocks
  PROVE  Put' = 0 /\ First' = frptr'
BY DEF Put, First, Halves, Blocks

(* A reader is.                                                             *)
LEMMA HalvesReadThen ==
  ASSUME NEW p \in Proc, NEW r, Moves(p, "read block", r), \A q \in Proc \ {p} : pc[q] \notin Blocks
  PROVE  Put' = 0 /\ First' = r.offset
<1>1. Halves("write block")' = {}
  BY DEF Halves, Blocks, Moves
<1>2. Halves("read block")' = {p} /\ u'[p] = r
  BY DEF Halves, Blocks, Moves
<1> QED
  BY <1>1, <1>2 DEF Put, First

(* A writer is.                                                             *)
LEMMA HalvesWriteThen ==
  ASSUME NEW p \in Proc, NEW r, Moves(p, "write block", r), \A q \in Proc \ {p} : pc[q] \notin Blocks
  PROVE  Put' = r.put /\ First' = frptr'
<1>1. Halves("read block")' = {}
  BY DEF Halves, Blocks, Moves
<1>2. Halves("write block")' = {p} /\ u'[p] = r
  BY DEF Halves, Blocks, Moves
<1> QED
  BY <1>1, <1>2 DEF Put, First

(* The bytes stay when nobody is at work on them afterwards.               *)
LEMMA StoredNone ==
  ASSUME Booking', ring' \in Ring, \A q \in Proc : pc'[q] \notin Blocks
  PROVE  Stored'
<1>1. \A q \in Proc : pc'[q] # "write block"
  BY DEF Blocks
<1> QED
  BY <1>1 DEF Stored, Contents

(* closep(): the last close empties the stream.                            *)
LEMMA ClosepActs ==
  ASSUME PipeInv, Stored, NEW p \in Proc, Closep(p)
  PROVE  Stored' /\ Act
<1> DEFINE f == u[p].file
           a == frcnt - Cardinality(f \cap R)
           b == fwcnt - Cardinality(f \cap W)
<1>1. /\ pc[p] = "closep" /\ u[p].job = "closep" /\ Holds(p) /\ pc[p] \notin Blocks
      /\ frcnt' = a /\ fwcnt' = b
      /\ IF a = 0 /\ b = 0
         THEN size' = 0 /\ ring' = [i \in DOMAIN ring |-> Lost]
         ELSE UNCHANGED <<size, frptr, ring>>
  BY DEF Closep, At, PipeInv, Jobs, JobFits, Holds, Blocks
<1> HIDE DEF f, a, b
<1>2. Moves(p, "user", Over("none"))
  BY DEF Closep, Returns, Goes, PipeInv, Frames, Moves, Place, Over
<1>3. frcnt' \in Nat /\ fwcnt' \in Nat
  BY ClosepStep DEF PipeInv, TypeOK
<1>4. Booked("user", Over("none")) /\ "user" \notin Blocks
  BY BookedOver DEF Blocks
<1>5. Stored' /\ Queue' = IF frcnt' + fwcnt' = 0 THEN <<>> ELSE Queue
  <2>1. CASE a = 0 /\ b = 0
    <3>1. size' = 0 /\ ring' = [i \in DOMAIN ring |-> Lost] /\ frcnt' + fwcnt' = 0
      BY <1>1, <2>1
    <3>2. \A q \in Proc : pc'[q] \notin Blocks
      BY <1>1, <1>2, <1>4, Alone DEF Moves
    <3>3. Put' = 0
      BY <3>2, HalvesNoneThen
    <3>4. Queue' = <<>>
      <4>1. Queue' = Stretch(ring', First', size' - Put')
        BY Zenon DEF Queue, Stretch
      <4>2. size' - Put' = 0
        BY <3>1, <3>3
      <4> QED
        BY <4>1, <4>2, NoStretch
    <3>5. ring' \in Ring
      BY <3>1 DEF Stored, Contents, Ring, Byte
    <3>6. Booking'
      BY <1>2, <1>4, BookingKept DEF Stored
    <3> QED
      BY <3>1, <3>2, <3>4, <3>5, <3>6, StoredNone
  <2>2. CASE ~(a = 0 /\ b = 0)
    <3>1. UNCHANGED <<size, frptr, ring>> /\ frcnt' + fwcnt' # 0
      BY <1>1, <1>3, <2>2
    <3> QED
      BY <1>1, <1>2, <1>4, <3>1, BesideStored
  <2> QED
    BY <2>1, <2>2
<1>6. Booked(pc[p], u[p])
  BY DEF Stored, Booking
<1>7. u[p].got = <<>> /\ Left(u[p]) = <<>>
  BY <1>1, <1>6 DEF Booked, Left
<1> QED
  BY <1>2, <1>5, <1>7, OverIs, Recounts

------------------------------------------------------------------------------
(* The calls that begin with the bytes, wait for them, or give up.         *)

LEMMA WaitsMoves ==
  ASSUME PipeInv, Stored, NEW p \in Proc, NEW c, NEW flag, WaitsOn(p, c, flag), pc[p] \in {"read", "write"}
  PROVE  \E r : /\ Moves(p, "slept", r) /\ Booked("slept", r)
                /\ Left(r) = Left(u[p]) /\ r.got = u[p].got /\ r.told = u[p].told
<1> DEFINE r == [u[p] EXCEPT !.waited = TRUE]
<1>1. Moves(p, "slept", r)
  BY DEF WaitsOn, Goes, PipeInv, Frames, Moves, Place
<1>2. /\ r.job = u[p].job /\ r.put = u[p].put /\ r.total = u[p].total /\ r.got = u[p].got
      /\ r.told = u[p].told /\ r.count = u[p].count /\ r.usave = u[p].usave
  BY DEF PipeInv, Frames, Frame, Field
<1> HIDE DEF r
<1>3. Booked(pc[p], u[p])
  BY DEF Stored, Booking
<1>4. Booked("slept", r)
  BY <1>2, <1>3 DEF Booked
<1>5. Left(r) = Left(u[p])
  BY Zenon, <1>2 DEF Left, Sent
<1> QED
  BY <1>1, <1>2, <1>4, <1>5

(* What has put nothing has it in place.                                    *)
LEMMA NothingPut ==
  ASSUME NEW c, NEW rg, NEW f, NEW P \in Nat, NEW s \in 0 .. P, c.put = 0
  PROVE  InPlace(c, rg, f, s)
BY DEF InPlace

(* A call begins with the bytes.                                           *)
LEMMA Starts ==
  ASSUME PipeInv, Stored, NEW p \in Proc, NEW l \in Blocks, NEW r, Moves(p, l, r), Booked(l, r), Holds(p),
         pc[p] \notin Blocks, l = "read block" => r.offset = frptr, l = "write block" => r.put = 0,
         Left(r) = Left(u[p]), r.got = u[p].got, r.told = u[p].told,
         UNCHANGED <<size, frptr, ring, frcnt, fwcnt>>
  PROVE  Stored' /\ Act
<1>1. \A q \in Proc \ {p} : pc[q] \notin Blocks
  BY Alone
<1>2. Put = 0 /\ First = frptr
  BY <1>1, HalvesNone
<1>3. l = "read block" \/ l = "write block"
  BY DEF Blocks
<1>4. Put' = 0 /\ First' = frptr
  <2>1. CASE l = "read block"
    BY <1>1, <2>1, HalvesReadThen
  <2>2. CASE l = "write block"
    BY <1>1, <2>2, HalvesWriteThen
  <2> QED
    BY <1>3, <2>1, <2>2
<1>5. Queue' = Queue
  BY Zenon, <1>2, <1>4 DEF Queue, Stretch
<1>6. Booking'
  BY BookingKept DEF Stored
<1>7. Contents'
  <2>1. PIPSIZ \in Nat /\ size \in 0 .. PIPSIZ
    BY PIPSIZNat DEF PipeInv, TypeOK
  <2>2. ASSUME r.put = 0 PROVE InPlace(r, ring, frptr, size)
    BY Zenon, <2>1, <2>2, NothingPut
  <2>3. \A q \in Proc : pc'[q] = "write block" => q = p /\ l = "write block"
    <3> DEFINE b == "write block"
    <3>1. b \in Blocks
      BY DEF Blocks
    <3> HIDE DEF b
    <3>2. \A q \in Proc : pc'[q] = b => q = p /\ l = b
      BY <1>1, <3>1 DEF Moves
    <3> QED
      BY <3>2 DEF b
  <2>4. u'[p] = r /\ ring' = ring /\ frptr' = frptr /\ size' = size
    BY DEF Moves
  <2>5. r.put = 0 => InPlace(u'[p], ring', frptr', size')
    BY <2>2, <2>4
  <2>6. ring' \in Ring
    BY DEF Stored, Contents
  <2> QED
    BY <2>3, <2>5, <2>6 DEF Contents
<1>8. UNCHANGED <<Todo, Got, Told>>
  BY SameCall
<1>9. UNCHANGED S!vars
  BY <1>5, <1>8, StutterActs
<1> QED
  BY <1>6, <1>7, <1>9 DEF Stored, Act

(* A reader that finds nothing is told so only when nobody can write.      *)
LEMMA ReadActs ==
  ASSUME PipeInv, Stored, NEW p \in Proc, Read(p)
  PROVE  Stored' /\ Act
<1>1. pc[p] = "read" /\ u[p].job = "read" /\ Holds(p) /\ pc[p] \notin Blocks
  BY DEF Read, At, PipeInv, Jobs, JobFits, Holds, Blocks
<1>2. \A q \in Proc : pc[q] \notin Blocks
  BY <1>1, Alone
<1>3. Put = 0 /\ First = frptr
  BY <1>2, HalvesNone
<1>4. CASE size = 0 /\ Returns(p, IF fwcnt = 0 THEN "eof" ELSE "none") /\ UNCHANGED fifo
  <2> DEFINE how == IF fwcnt = 0 THEN "eof" ELSE "none"
             l   == IF how = "none" THEN "user" ELSE "back"
  <2>1. Moves(p, l, Over(how))
    BY <1>4 DEF Returns, Goes, PipeInv, Frames, Moves, Place, Over
  <2>2. how \in Hows /\ (how = "eof" => fwcnt = 0) /\ how # "pipe" /\ how # "done"
    BY DEF Hows
  <2>3. l = "back" \/ (l = "user" /\ how = "none")
    OBVIOUS
  <2> HIDE DEF how, l
  <2>4. Queue = <<>>
    <3>1. size - Put = 0
      BY <1>3, <1>4
    <3> QED
      BY <3>1, NoStretch DEF Queue
  <2>5. UNCHANGED <<size, frptr, ring, frcnt, fwcnt>>
    BY <1>4 DEF fifo
  <2> QED
    BY <1>1, <2>1, <2>2, <2>3, <2>4, <2>5, EndedBeside
<1>5. CASE WaitsOn(p, "frcnt", "IFIR")
  <2>1. PICK r : /\ Moves(p, "slept", r) /\ Booked("slept", r)
                 /\ Left(r) = Left(u[p]) /\ r.got = u[p].got /\ r.told = u[p].told
    BY <1>1, <1>5, WaitsMoves
  <2>2. UNCHANGED <<size, frptr, ring, frcnt, fwcnt>> /\ "slept" \notin Blocks
    BY <1>5 DEF WaitsOn, Blocks
  <2> QED
    BY <1>1, <2>1, <2>2, Quiet
<1>6. CASE Goes(p, "read block") /\ u' = [u EXCEPT ![p].offset = frptr] /\ UNCHANGED fifo
  <2> DEFINE r == [u[p] EXCEPT !.offset = frptr]
  <2>1. Moves(p, "read block", r)
    BY <1>6 DEF Goes, PipeInv, Frames, Moves, Place
  <2>2. /\ r.job = u[p].job /\ r.put = u[p].put /\ r.total = u[p].total /\ r.got = u[p].got
        /\ r.told = u[p].told /\ r.offset = frptr
    BY DEF PipeInv, Frames, Frame, Field
  <2> HIDE DEF r
  <2>3. Booked(pc[p], u[p])
    BY DEF Stored, Booking
  <2>4. Booked("read block", r)
    BY <1>1, <2>2, <2>3 DEF Booked
  <2>5. Left(r) = Left(u[p])
    BY <1>1, <2>2 DEF Left
  <2>6. "read block" \in Blocks /\ UNCHANGED <<size, frptr, ring, frcnt, fwcnt>>
    BY <1>6 DEF Blocks, fifo
  <2> QED
    BY <1>1, <2>1, <2>2, <2>4, <2>5, <2>6, Starts
<1> QED
  BY <1>4, <1>5, <1>6 DEF Read

(* What writei() asks of a write that waits for room, and of the rest.     *)
LEMMA PartOf ==
  ASSUME NEW P \in Nat, NEW c \in Nat, NEW z \in 0 .. P, c > 0, c + z > P => c > P /\ z < P,
         NEW n, n = (IF c + z > P THEN P - z ELSE c), NEW s, s = (IF c + z > P THEN c - (P - z) ELSE 0)
  PROVE  n \in Nat /\ s \in Nat /\ n + s = c /\ n > 0 /\ (s > 0 => c > P)
OBVIOUS

(* Calls with the same rest and the same place in it.                       *)
LEMMA SameLeft ==
  ASSUME NEW c, NEW d, c.job = "write", d.job = "write",
         c.count + c.usave + c.put = d.count + d.usave + d.put, Sent(c) - c.put = Sent(d) - d.put
  PROVE  Left(c) = Left(d)
BY Zenon DEF Left

(* A writer that ends before it has put a byte, waits, or begins.          *)
LEMMA WriteActs ==
  ASSUME PipeInv, Stored, NEW p \in Proc, Write(p)
  PROVE  Stored' /\ Act
<1> DEFINE c    == u[p].count
           full == c + size > PIPSIZ
           part == c > PIPSIZ /\ size < PIPSIZ
<1>1. pc[p] = "write" /\ u[p].job = "write" /\ Holds(p) /\ pc[p] \notin Blocks
  BY DEF Write, At, PipeInv, Jobs, JobFits, Holds, Blocks
<1>2. CASE /\ frcnt = 0 \/ full
           /\ \E how \in {"pipe", "none"} : (how = "pipe" => frcnt = 0) /\ Returns(p, how)
           /\ UNCHANGED fifo
  <2>1. PICK how \in {"pipe", "none"} : (how = "pipe" => frcnt = 0) /\ Returns(p, how)
    BY <1>2
  <2> DEFINE l == IF how = "none" THEN "user" ELSE "back"
  <2>2. Moves(p, l, Over(how))
    BY <2>1 DEF Returns, Goes, PipeInv, Frames, Moves, Place, Over
  <2>3. how \in Hows /\ how # "eof" /\ how # "done"
    BY DEF Hows
  <2>4. l = "back" \/ (l = "user" /\ how = "none")
    OBVIOUS
  <2> HIDE DEF l
  <2>5. UNCHANGED <<size, frptr, ring, frcnt, fwcnt>>
    BY <1>2 DEF fifo
  <2> QED
    BY <1>1, <2>1, <2>2, <2>3, <2>4, <2>5, EndedBeside
<1>3. CASE WaitsOn(p, "fwcnt", "IFIW")
  <2>1. PICK r : /\ Moves(p, "slept", r) /\ Booked("slept", r)
                 /\ Left(r) = Left(u[p]) /\ r.got = u[p].got /\ r.told = u[p].told
    BY <1>1, <1>3, WaitsMoves
  <2>2. UNCHANGED <<size, frptr, ring, frcnt, fwcnt>> /\ "slept" \notin Blocks
    BY <1>3 DEF WaitsOn, Blocks
  <2> QED
    BY <1>1, <2>1, <2>2, Quiet
<1>4. CASE /\ full => part
           /\ Goes(p, "write block")
           /\ u' = [u EXCEPT ![p].offset = fwptr,
                             ![p].count = IF full THEN PIPSIZ - size ELSE c,
                             ![p].usave = IF full THEN c - (PIPSIZ - size) ELSE 0]
           /\ UNCHANGED fifo
  <2> DEFINE n == IF full THEN PIPSIZ - size ELSE c
             s == IF full THEN c - (PIPSIZ - size) ELSE 0
             r == [u[p] EXCEPT !.offset = fwptr, !.count = n, !.usave = s]
  <2>1. Booked(pc[p], u[p])
    BY DEF Stored, Booking
  <2>2. u[p].put = 0 /\ u[p].usave = 0 /\ c > 0 /\ u[p].total \in Nat
    BY <1>1, <2>1 DEF Booked
  <2>3. c \in Nat /\ PIPSIZ \in Nat /\ size \in 0 .. PIPSIZ
    BY PIPSIZNat DEF PipeInv, TypeOK, Frames, Frame
  <2>4. n \in Nat /\ s \in Nat /\ n + s = c /\ n > 0 /\ (s > 0 => c > PIPSIZ)
    <3>1. c + size > PIPSIZ => c > PIPSIZ /\ size < PIPSIZ
      BY Zenon, <1>4
    <3>2. /\ n = (IF c + size > PIPSIZ THEN PIPSIZ - size ELSE c)
          /\ s = (IF c + size > PIPSIZ THEN c - (PIPSIZ - size) ELSE 0)
      OBVIOUS
    <3> HIDE DEF n, s, c, full, part
    <3> QED
      BY <2>2, <2>3, <3>1, <3>2, PartOf
  <2>5. Moves(p, "write block", r)
    BY <1>4 DEF Goes, PipeInv, Frames, Moves, Place
  <2> HIDE DEF n, s
  <2>6. /\ r.job = u[p].job /\ r.put = u[p].put /\ r.total = u[p].total /\ r.got = u[p].got
        /\ r.told = u[p].told /\ r.count = n /\ r.usave = s
    BY DEF PipeInv, Frames, Frame, Field
  <2> HIDE DEF r
  <2>7. r.put = 0 /\ r.count + r.put > 0 /\ (r.usave > 0 => r.count + r.usave + r.put > PIPSIZ)
    BY <2>2, <2>4, <2>6
  <2>8. Booked("write block", r)
    BY <1>1, <2>1, <2>6, <2>7 DEF Booked
  <2>9. Left(r) = Left(u[p])
    <3>1. r.count + r.usave + r.put = u[p].count + u[p].usave + u[p].put
      BY <2>2, <2>3, <2>4, <2>6
    <3>2. Sent(r) - r.put = Sent(u[p]) - u[p].put
      BY <2>2, <2>3, <2>4, <2>6 DEF Sent
    <3> QED
      BY <1>1, <2>6, <3>1, <3>2, SameLeft
  <2>10. "write block" \in Blocks /\ UNCHANGED <<size, frptr, ring, frcnt, fwcnt>>
    BY <1>4 DEF Blocks, fifo
  <2> QED
    BY <1>1, <2>5, <2>6, <2>7, <2>8, <2>9, <2>10, Starts
<1> QED
  BY <1>2, <1>3, <1>4 DEF Write

(* readi() is done.                                                        *)
LEMMA ReadEndActs ==
  ASSUME PipeInv, Stored, NEW p \in Proc, ReadEnd(p)
  PROVE  Stored' /\ Act
<1>1. /\ pc[p] = "read block" /\ u[p].job = "read" /\ Holds(p)
      /\ UNCHANGED <<frcnt, fwcnt, size, ring>> /\ Returns(p, "done")
      /\ frptr' = IF size > 0 THEN u[p].offset ELSE 0
  BY DEF ReadEnd, At, PipeInv, Jobs, JobFits, Holds
<1>2. Moves(p, "back", Over("done"))
  BY <1>1 DEF Returns, Goes, PipeInv, Frames, Moves, Place, Over
<1>3. \A q \in Proc \ {p} : pc[q] \notin Blocks
  BY <1>1, Alone
<1>4. "back" \notin Blocks /\ "done" \in Hows
  BY DEF Blocks, Hows
<1>5. \A q \in Proc : pc'[q] \notin Blocks
  BY <1>2, <1>3, <1>4 DEF Moves
<1>6. Put = 0 /\ First = u[p].offset /\ Put' = 0 /\ First' = frptr'
  BY <1>1, <1>3, <1>5, HalvesRead, HalvesNoneThen
<1>7. Queue' = Queue
  <2>1. Queue = Stretch(ring, u[p].offset, size - 0) /\ Queue' = Stretch(ring', frptr', size' - 0)
    BY Zenon, <1>6 DEF Queue, Stretch
  <2>2. size \in 0 .. PIPSIZ
    BY DEF PipeInv, TypeOK
  <2>3. \A n \in 0 .. PIPSIZ : n = 0 \/ n > 0
    BY PIPSIZNat
  <2>4. CASE size = 0
    <3>1. size - 0 = 0
      BY <2>4
    <3> QED
      BY <1>1, <2>1, <3>1, NoStretch
  <2>5. CASE size > 0
    BY <1>1, <2>1, <2>5
  <2> QED
    BY <2>2, <2>3, <2>4, <2>5
<1>8. Booking'
  BY <1>2, BookedOver, BookingKept DEF Stored
<1>9. Stored'
  BY <1>1, <1>5, <1>8, StoredNone DEF Stored, Contents
<1>10. Todo[p] = <<>>
  BY <1>1 DEF Todo, Left
<1> QED
  BY <1>1, <1>2, <1>4, <1>7, <1>9, <1>10, Ended

------------------------------------------------------------------------------
(* The bytes of a block.                                                   *)

(* readi() takes them from the front; a block whose delayed write is       *)
(* cancelled has nothing that is still to be read.                         *)
LEMMA OthersRead ==
  ASSUME NEW o \in 0 .. PIPSIZ - 1, NEW s \in 0 .. PIPSIZ, NEW n \in 1 .. s, n <= BSIZE - (o % BSIZE),
         NEW up \in BOOLEAN, up => (o % BSIZE) + n = BSIZE /\ s - n < PIPSIZ - BSIZE,
         NEW j \in 1 .. s - n, NEW i, i = (o + (n + j) - 1) % PIPSIZ
  PROVE  i \in 0 .. PIPSIZ - 1 /\ i \notin o .. o + n - 1 /\ ~(up /\ BlockOf(i) = BlockOf(o))
<1> DEFINE b == o % BSIZE
           x == o + n
<1>1. PIPSIZ \in Nat \ {0} /\ BSIZE \in Nat \ {0}
  BY PIPSIZNat, PipeAssumption
<1>2. b \in 0 .. BSIZE - 1 /\ b <= o /\ o + (BSIZE - b) <= PIPSIZ
  BY Zenon, InBlock
<1>3. \A k \in 0 .. PIPSIZ - 1 : BlockOf(k) = BlockOf(o) => k >= o - b /\ k < o + (BSIZE - b)
  BY Zenon, InBlock
<1>4. n <= BSIZE - b /\ (up => b + n = BSIZE /\ s - n < PIPSIZ - BSIZE)
  OBVIOUS
<1> HIDE DEF b
<1>5. x \in 1 .. PIPSIZ /\ n \in Nat /\ n <= x /\ j \in Nat /\ j > 0 /\ j + n <= PIPSIZ /\ n + j <= PIPSIZ
  BY <1>1, <1>2, <1>4
<1>6. i = ((x % PIPSIZ) + j - 1) % PIPSIZ
  BY <1>1, <1>5, FurtherOn
<1>7. up => BSIZE <= x /\ j + BSIZE <= PIPSIZ /\ x - BSIZE = o - b /\ x = o + (BSIZE - b)
  BY <1>1, <1>2, <1>4
<1>8. x - n = o
  BY <1>1
<1> HIDE DEF x
<1>9. i \in 0 .. PIPSIZ - 1 /\ ~(i >= x - n /\ i < x)
  BY <1>1, <1>5, <1>6, BehindIt
<1>10. up => ~(i >= x - BSIZE /\ i < x)
  <2> HAVE up
  <2>1. BSIZE \in Nat /\ BSIZE <= x /\ j + BSIZE <= PIPSIZ
    BY <1>1, <1>7
  <2> QED
    BY <1>1, <1>5, <1>6, <2>1, BehindIt
<1>11. i \notin o .. o + n - 1
  BY <1>1, <1>8, <1>9 DEF x
<1>12. ~(up /\ BlockOf(i) = BlockOf(o))
  BY <1>3, <1>7, <1>9, <1>10
<1> QED
  BY <1>9, <1>11, <1>12

(* writei() puts them behind the others; a block of which the old contents *)
(* are not read has none of the others.                                    *)
LEMMA OthersWrite ==
  ASSUME NEW f \in 0 .. PIPSIZ - 1, NEW s \in 0 .. PIPSIZ, NEW n \in Nat \ {0}, s + n <= PIPSIZ,
         NEW o, o = (f + s) % PIPSIZ, n <= BSIZE - (o % BSIZE),
         NEW blind \in BOOLEAN, blind => n = BSIZE \/ ((o % BSIZE) = 0 /\ s < PIPSIZ - BSIZE),
         NEW k \in 1 .. s, NEW i, i = (f + k - 1) % PIPSIZ
  PROVE  i \in 0 .. PIPSIZ - 1 /\ i \notin o .. o + n - 1 /\ ~(blind /\ BlockOf(i) = BlockOf(o))
<1> DEFINE b == o % BSIZE
<1>1. PIPSIZ \in Nat \ {0} /\ BSIZE \in Nat \ {0}
  BY PIPSIZNat, PipeAssumption
<1>0. s \in Nat /\ n \in Nat /\ n > 0 /\ f + s \in Nat
  BY <1>1
<1>2. o \in 0 .. PIPSIZ - 1
  BY Zenon, <1>0, <1>1, ModRange
<1>3. b \in 0 .. BSIZE - 1 /\ b <= o
  BY Zenon, <1>2, InBlock
<1>4. \A m \in 0 .. PIPSIZ - 1 : BlockOf(m) = BlockOf(o) => m >= o - b /\ m < o + (BSIZE - b)
  BY Zenon, <1>2, InBlock
<1>5. n <= BSIZE - b /\ (blind => n = BSIZE \/ (b = 0 /\ s < PIPSIZ - BSIZE))
  OBVIOUS
<1> HIDE DEF b
<1>6. i \in 0 .. PIPSIZ - 1 /\ ~(i >= o /\ i < o + n)
  BY Zenon, <1>0, <1>1, Ahead
<1>7. blind => b = 0 /\ s + BSIZE <= PIPSIZ
  BY <1>0, <1>1, <1>3, <1>5
<1>8. blind => ~(i >= o /\ i < o + BSIZE)
  <2> HAVE blind
  <2>1. BSIZE \in Nat /\ BSIZE > 0 /\ s + BSIZE <= PIPSIZ
    BY <1>1, <1>7
  <2> QED
    BY Zenon, <1>0, <1>1, <2>1, Ahead
<1>9. i \notin o .. o + n - 1
  BY <1>1, <1>2, <1>6
<1>10. blind => o - b = o /\ o + (BSIZE - b) = o + BSIZE
  BY <1>1, <1>2, <1>7
<1> QED
  BY <1>4, <1>6, <1>8, <1>9, <1>10

(* A difference, and a range, of numbers of bytes.                          *)
LEMMA LessNothing == \A n \in Nat, s \in 0 .. PIPSIZ : s - n - 0 = s - n
OBVIOUS

LEMMA FromOne == \A n \in Int, s \in Nat : n > 0 /\ n <= s => n \in 1 .. s /\ n \in Nat
OBVIOUS

(* readi() is the stream's receive, block by block.                        *)
LEMMA ReadBlockActs ==
  ASSUME PipeInv, Pointers, Stored, NEW p \in Proc, ReadBlock(p)
  PROVE  Stored' /\ Act
<1> DEFINE o  == u[p].offset
           a  == BSIZE - (o % BSIZE)
           n  == Least({a, u[p].count, size})
           up == (o % BSIZE) + n = BSIZE /\ size - n < PIPSIZ - BSIZE
           c  == [i \in 1 .. n |-> ring[o + i - 1]]
           r  == [u[p] EXCEPT !.offset = (o + n) % PIPSIZ, !.count = @ - n, !.got = @ \o c]
<1>1. /\ pc[p] = "read block" /\ n > 0 /\ size' = size - n
      /\ u' = [u EXCEPT ![p] = r]
      /\ ring' = [i \in DOMAIN ring |-> IF i \in o .. o + n - 1 \/ (up /\ BlockOf(i) = BlockOf(o))
                                          THEN Lost ELSE ring[i]]
      /\ UNCHANGED <<frcnt, fwcnt, frptr, pc>>
  BY DEF ReadBlock, At
<1>2. BSIZE \in Nat \ {0} /\ PIPSIZ \in Nat \ {0} /\ u[p].count \in Nat /\ size \in 0 .. PIPSIZ
  BY CallNumbers
<1>3. o \in 0 .. PIPSIZ - 1 /\ o \in Nat
  BY CallNumbers DEF PipeInv, Frames, Frame
<1>4. n \in 1 .. size /\ n <= a /\ n \in Nat
  <2>1. a \in Int /\ u[p].count \in Int /\ size \in Int
    BY <1>2, <1>3
  <2> HIDE DEF a, o
  <2>2. n \in Int /\ n <= a /\ n <= size
    BY <2>1, LeastOfThree
  <2>3. size \in Nat
    BY <1>2
  <2> HIDE DEF n, c, up, r
  <2>4. n > 0
    BY Zenon, <1>1
  <2> QED
    BY Zenon, <2>2, <2>3, <2>4, FromOne
<1>5. /\ r.offset = (o + n) % PIPSIZ /\ r.got = u[p].got \o c /\ r.job = u[p].job
      /\ r.put = u[p].put /\ r.total = u[p].total /\ r.told = u[p].told
  BY DEF PipeInv, Frames, Frame, Field
<1>6. Moves(p, "read block", r)
  BY <1>1 DEF PipeInv, Frames, Moves
<1>7. Holds(p) /\ u[p].job = "read"
  BY <1>1 DEF Holds, PipeInv, Jobs, JobFits
<1> HIDE DEF o, a, n, up, c, r
<1>8. \A q \in Proc \ {p} : pc[q] \notin Blocks
  BY <1>7, Alone
<1>9. Put = 0 /\ First = o
  BY <1>1, <1>8, HalvesRead DEF o
<1>10. Put' = 0 /\ First' = (o + n) % PIPSIZ
  BY <1>5, <1>6, <1>8, HalvesReadThen
<1>11. ring \in Ring /\ ring' \in Ring
  <2>1. ring \in Ring
    BY DEF Stored, Contents
  <2> QED
    BY <1>1, <2>1 DEF Ring, Byte
<1>12. \A j \in 1 .. size - n : ring'[(o + (n + j) - 1) % PIPSIZ] = ring[(o + (n + j) - 1) % PIPSIZ]
  <2> TAKE j \in 1 .. size - n
  <2> DEFINE i == (o + (n + j) - 1) % PIPSIZ
  <2>1. up \in BOOLEAN /\ (up => (o % BSIZE) + n = BSIZE /\ size - n < PIPSIZ - BSIZE)
    BY DEF up
  <2>2. n <= BSIZE - (o % BSIZE)
    BY Zenon, <1>4 DEF a
  <2>3. i \in 0 .. PIPSIZ - 1 /\ i \notin o .. o + n - 1 /\ ~(up /\ BlockOf(i) = BlockOf(o))
    BY Zenon, <1>2, <1>3, <1>4, <2>1, <2>2, OthersRead
  <2> HIDE DEF i
  <2>4. DOMAIN ring = 0 .. PIPSIZ - 1
    BY <1>11 DEF Ring
  <2>5. ring'[i] = ring[i]
    BY Zenon, <1>1, <2>3, <2>4
  <2> QED
    BY Zenon, <2>5 DEF i
<1>13. o + n <= PIPSIZ
  <2>1. o % BSIZE \in 0 .. BSIZE - 1 /\ o + (BSIZE - (o % BSIZE)) <= PIPSIZ
    BY Zenon, <1>3, InBlock
  <2> DEFINE b == o % BSIZE
  <2>2. b \in 0 .. BSIZE - 1 /\ o + (BSIZE - b) <= PIPSIZ /\ n <= BSIZE - b
    BY Zenon, <1>4, <2>1 DEF a
  <2> HIDE DEF b
  <2> QED
    BY <1>2, <1>3, <1>4, <2>2
<1>14. /\ SubSeq(Stretch(ring, o, size), 1, n) = c
       /\ SubSeq(Stretch(ring, o, size), n + 1, size) = Stretch(ring', (o + n) % PIPSIZ, size - n)
  <2>1. SameBehind(ring, ring', o, size, n)
    BY Zenon, <1>12 DEF SameBehind
  <2>2. /\ SubSeq(Stretch(ring, o, size), 1, n) = Straight(ring, o, n)
        /\ SubSeq(Stretch(ring, o, size), n + 1, size) = Stretch(ring', (o + n) % PIPSIZ, size - n)
    BY Zenon, <1>2, <1>3, <1>4, <1>11, <1>13, <2>1, StretchTaken
  <2> QED
    BY Zenon, <2>2 DEF c, Straight
<1>15. Queue = Stretch(ring, o, size) /\ Len(Queue) = size
  <2>1. size \in Nat /\ size - 0 = size
    BY <1>2
  <2>2. Queue = Stretch(ring, o, size)
    BY Zenon, <1>9, <2>1 DEF Queue
  <2> QED
    BY <1>3, <1>11, <2>1, <2>2, StretchIs
<1>16. Queue' = Stretch(ring', (o + n) % PIPSIZ, size - n)
  <2>1. size - n - 0 = size - n
    BY Zenon, <1>2, <1>4, LessNothing
  <2>2. Queue' = Stretch(ring', First', size' - Put')
    BY Zenon DEF Queue, Stretch
  <2> QED
    BY Zenon, <1>1, <1>10, <2>1, <2>2
<1>17. Got' = [Got EXCEPT ![p] = r.got] /\ Got[p] = u[p].got
  <2>1. Got' = [Got EXCEPT ![p] = r.got]
    BY Zenon, <1>6, MovedCall
  <2>2. Got[p] = u[p].got
    BY Zenon DEF Got
  <2> QED
    BY Zenon, <2>1, <2>2
<1>18. UNCHANGED <<Todo, Told>>
  <2>1. Left(r) = Left(u[p])
    BY <1>5, <1>7 DEF Left
  <2>2. \A q \in Proc : u'[q] = IF q = p THEN r ELSE u[q]
    BY <1>6 DEF Moves
  <2>3. \A q \in Proc : Left(u'[q]) = Left(u[q]) /\ u'[q].told = u[q].told
    BY <1>5, <2>1, <2>2
  <2> QED
    BY <2>3 DEF Todo, Told
<1>19. PICK k \in Nat : k = n
  BY <1>4
<1>20. Act
  <2>1. k \in 1 .. Len(Queue)
    BY Zenon, <1>4, <1>15, <1>19
  <2>2. Got' = [Got EXCEPT ![p] = Got[p] \o SubSeq(Queue, 1, k)]
    BY Zenon, <1>5, <1>14, <1>15, <1>17, <1>19
  <2>3. Queue' = SubSeq(Queue, k + 1, Len(Queue))
    BY Zenon, <1>14, <1>15, <1>16, <1>19
  <2>4. UNCHANGED <<Todo, Told, frcnt, fwcnt>>
    BY <1>1, <1>18
  <2>5. S!Receive(p, k)
    BY Zenon, <2>1, <2>2, <2>3, <2>4, ReceiveActs
  <2> QED
    BY <2>1, <2>5 DEF Act
<1>21. Booking'
  <2>1. Booked("read block", u[p])
    BY <1>1 DEF Stored, Booking
  <2>2. Booked("read block", r)
    BY <1>5, <1>7, <2>1 DEF Booked
  <2> QED
    BY <1>6, <2>2, BookingKept DEF Stored
<1>22. \A q \in Proc : pc'[q] # "write block"
  <2> DEFINE b == "write block"
  <2>1. b \in Blocks /\ pc[p] # b
    BY <1>1 DEF Blocks
  <2> HIDE DEF b
  <2>2. \A q \in Proc : pc'[q] # b
    BY <1>1, <1>8, <2>1
  <2> QED
    BY <2>2 DEF b
<1> QED
  BY <1>11, <1>20, <1>21, <1>22 DEF Stored, Contents

(* What was put before, and the bytes of the block.                        *)
LEMMA PutOn ==
  ASSUME NEW r, NEW r2, NEW f \in 0 .. PIPSIZ - 1, NEW s \in 0 .. PIPSIZ, NEW n \in Nat \ {0}, s + n <= PIPSIZ,
         NEW o, o = (f + s) % PIPSIZ, o + n <= PIPSIZ, NEW c, NEW d, c.put \in Nat, InPlace(c, r, f, s),
         Sent(c) \in Int, d.put = c.put + n, Sent(d) = Sent(c) + n,
         \A k \in 1 .. s : r2[(f + k - 1) % PIPSIZ] = r[(f + k - 1) % PIPSIZ],
         \A i \in o .. o + n - 1 : r2[i] = Sent(c) + i - o + 1
  PROVE  InPlace(d, r2, f, s + n)
<1> DEFINE m == c.put
           x == Sent(c)
<1>1. PIPSIZ \in Nat \ {0} /\ s \in Nat /\ m \in Nat /\ x \in Int /\ n \in Nat /\ n > 0 /\ f + s \in Nat
  <2>1. PIPSIZ \in Nat \ {0}
    BY PIPSIZNat
  <2> QED
    BY <2>1
<1>2. m <= s /\ \A i \in 1 .. m : r[(f + (s - m) + i - 1) % PIPSIZ] = x - m + i
  BY Zenon DEF InPlace
<1>3. o \in 0 .. PIPSIZ - 1
  BY Zenon, <1>1, ModRange
<1> HIDE DEF m, x
<1>4. (s + n) - (m + n) = s - m /\ (x + n) - (m + n) = x - m
  BY <1>1
<1>5. ASSUME NEW i \in 1 .. m + n
      PROVE  r2[(f + (s - m) + i - 1) % PIPSIZ] = x - m + i
  <2>1. CASE i <= m
    <3> DEFINE k == (s - m) + i
    <3>1. i \in 1 .. m
      BY <1>1, <2>1
    <3>2. k \in 1 .. s /\ f + k - 1 = f + (s - m) + i - 1
      BY <1>1, <1>2, <3>1
    <3> HIDE DEF k
    <3>3. r2[(f + k - 1) % PIPSIZ] = r[(f + k - 1) % PIPSIZ]
      BY <3>2
    <3>4. r[(f + (s - m) + i - 1) % PIPSIZ] = x - m + i
      BY <1>2, <3>1
    <3> QED
      BY Zenon, <3>2, <3>3, <3>4
  <2>2. CASE ~(i <= m)
    <3> DEFINE j == i - m
               y == o + j - 1
    <3>1. j \in Nat /\ j > 0 /\ j <= n /\ j \in 1 .. n
      BY <1>1, <2>2
    <3>2. y \in Nat /\ y < PIPSIZ /\ y \in o .. o + n - 1
      BY <1>1, <1>3, <3>1
    <3>3. x + y - o + 1 = x - m + i
      BY <1>1, <1>3
    <3>4. f + (s + j) - 1 = f + (s - m) + i - 1
      BY <1>1
    <3>5. s + j <= PIPSIZ
      BY <1>1, <3>1
    <3>6. ((((f + s) % PIPSIZ) + j - 1) % PIPSIZ) = (f + (s + j) - 1) % PIPSIZ
      <4>1. PIPSIZ \in Nat \ {0} /\ s \in Nat /\ j \in Nat /\ j > 0
        BY Zenon, <1>1, <3>1
      <4> HIDE DEF j, y
      <4> QED
        BY Zenon, <3>5, <4>1, FurtherOn
    <3>7. y % PIPSIZ = (f + (s - m) + i - 1) % PIPSIZ
      <4>1. y = ((f + s) % PIPSIZ) + j - 1
        BY Zenon DEF y
      <4> HIDE DEF j, y
      <4> QED
        BY Zenon, <3>4, <3>6, <4>1
    <3> HIDE DEF j, y
    <3>8. y % PIPSIZ = y
      BY Zenon, <1>1, <3>2, NotYet
    <3>9. r2[y] = x + y - o + 1
      BY Zenon, <3>2 DEF x
    <3> QED
      BY Zenon, <3>3, <3>7, <3>8, <3>9
  <2> QED
    BY <2>1, <2>2
<1>6. d.put = m + n /\ Sent(d) = x + n
  BY Zenon DEF m, x
<1>7. m + n <= s + n
  BY <1>1, <1>2
<1>8. \A i \in 1 .. m + n : r2[(f + ((s + n) - (m + n)) + i - 1) % PIPSIZ] = (x + n) - (m + n) + i
  BY Zenon, <1>4, <1>5
<1> QED
  BY Zenon, <1>6, <1>7, <1>8 DEF InPlace

(* writei() adds nothing to the stream before the write is done.           *)
LEMMA WriteBlockActs ==
  ASSUME PipeInv, Pointers, Stored, NEW p \in Proc, WriteBlock(p)
  PROVE  Stored' /\ Act
<1> DEFINE o     == u[p].offset
           a     == BSIZE - (o % BSIZE)
           n     == Least({a, u[p].count})
           blind == n = BSIZE \/ ((o % BSIZE) = 0 /\ size < PIPSIZ - BSIZE)
           m     == u[p].put + n
           r     == [u[p] EXCEPT !.offset = (o + n) % PIPSIZ, !.count = @ - n, !.put = m]
<1>1. /\ pc[p] = "write block" /\ n > 0 /\ size' = size + n
      /\ u' = [u EXCEPT ![p] = r]
      /\ ring' = [i \in DOMAIN ring |->
                    IF i \in o .. o + n - 1 THEN Sent(u[p]) + i - o + 1
                    ELSE IF blind /\ BlockOf(i) = BlockOf(o) THEN Lost ELSE ring[i]]
      /\ UNCHANGED <<frcnt, fwcnt, frptr, pc>>
  BY DEF WriteBlock, At
<1>2. /\ BSIZE \in Nat \ {0} /\ PIPSIZ \in Nat \ {0} /\ u[p].count \in Nat /\ size \in 0 .. PIPSIZ
      /\ u[p].count + size <= PIPSIZ
  BY <1>1, CallNumbers DEF PipeInv, Fits
<1>3. o \in 0 .. PIPSIZ - 1 /\ o \in Nat /\ frptr \in 0 .. PIPSIZ - 1
  BY CallNumbers DEF PipeInv, TypeOK, Frames, Frame
<1>4. n \in Int /\ n <= a /\ n <= u[p].count
  <2>1. a \in Int /\ u[p].count \in Int
    BY <1>2, <1>3
  <2> HIDE DEF a, o
  <2> QED
    BY <2>1, LeastOfTwo
<1>5. /\ r.count = u[p].count - n /\ r.put = m /\ r.got = u[p].got /\ r.job = u[p].job
      /\ r.total = u[p].total /\ r.told = u[p].told /\ r.usave = u[p].usave
  BY DEF PipeInv, Frames, Frame, Field
<1>6. Moves(p, "write block", r)
  BY <1>1 DEF PipeInv, Frames, Moves
<1>7. Holds(p) /\ u[p].job = "write" /\ o = (frptr + size) % PIPSIZ
  BY <1>1 DEF Holds, PipeInv, Jobs, JobFits, Pointers
<1> HIDE DEF o, a, n, blind, r
<1>8. n \in Nat \ {0} /\ size + n <= PIPSIZ
  <2>1. n > 0
    BY Zenon, <1>1
  <2>2. size \in Nat
    BY <1>2
  <2> QED
    BY <1>2, <1>4, <2>1, <2>2
<1>9. /\ u[p].put \in Nat /\ u[p].usave \in Nat /\ u[p].total \in Nat /\ Sent(u[p]) \in Int
  BY NumbersOf DEF Stored
<1> HIDE DEF m
<1>10. \A q \in Proc \ {p} : pc[q] \notin Blocks
  BY <1>7, Alone
<1>11. Put = u[p].put /\ First = frptr
  BY <1>1, <1>10, HalvesWrite
<1>12. Put' = m /\ First' = frptr
  BY <1>1, <1>5, <1>6, <1>10, HalvesWriteThen
<1>13. Booked("write block", u[p]) /\ InPlace(u[p], ring, frptr, size) /\ ring \in Ring
  BY <1>1 DEF Stored, Booking, Contents
<1>14. ring' \in Ring
  <2>1. \A i \in 0 .. PIPSIZ - 1 : Sent(u[p]) + i - o + 1 \in Int
    BY <1>2, <1>3, <1>9
  <2> QED
    BY <1>1, <1>13, <2>1 DEF Ring, Byte
<1>15. DOMAIN ring = 0 .. PIPSIZ - 1
  BY <1>13 DEF Ring
<1>16. \A k \in 1 .. size : ring'[(frptr + k - 1) % PIPSIZ] = ring[(frptr + k - 1) % PIPSIZ]
  <2> TAKE k \in 1 .. size
  <2> DEFINE i == (frptr + k - 1) % PIPSIZ
  <2>1. blind \in BOOLEAN /\ (blind => n = BSIZE \/ ((o % BSIZE) = 0 /\ size < PIPSIZ - BSIZE))
    BY DEF blind
  <2>2. n <= BSIZE - (o % BSIZE)
    BY Zenon, <1>4 DEF a
  <2>3. i \in 0 .. PIPSIZ - 1 /\ i \notin o .. o + n - 1 /\ ~(blind /\ BlockOf(i) = BlockOf(o))
    BY Zenon, <1>2, <1>3, <1>7, <1>8, <2>1, <2>2, OthersWrite
  <2> HIDE DEF i
  <2>4. ring'[i] = ring[i]
    BY Zenon, <1>1, <1>15, <2>3
  <2> QED
    BY Zenon, <2>4 DEF i
<1>17. o + n <= PIPSIZ
  <2>1. o % BSIZE \in 0 .. BSIZE - 1 /\ o + (BSIZE - (o % BSIZE)) <= PIPSIZ
    BY Zenon, <1>3, InBlock
  <2> DEFINE b == o % BSIZE
  <2>2. b \in 0 .. BSIZE - 1 /\ o + (BSIZE - b) <= PIPSIZ /\ n <= BSIZE - b
    BY Zenon, <1>4, <2>1 DEF a
  <2> HIDE DEF b
  <2> QED
    BY <1>2, <1>3, <1>8, <2>2
<1>18. \A i \in o .. o + n - 1 : ring'[i] = Sent(u[p]) + i - o + 1
  <2> TAKE i \in o .. o + n - 1
  <2>1. i \in 0 .. PIPSIZ - 1
    BY <1>2, <1>3, <1>8, <1>17
  <2> QED
    BY Zenon, <1>1, <1>15, <2>1
<1>19. Sent(r) = Sent(u[p]) + n /\ r.put = u[p].put + n /\ r.count + r.usave + r.put = u[p].count + u[p].usave + u[p].put
  BY <1>2, <1>5, <1>8, <1>9 DEF Sent, m
<1>20. InPlace(r, ring', frptr', size')
  <2>1. InPlace(r, ring', frptr, size + n)
    BY Zenon, <1>3, <1>2, <1>7, <1>8, <1>9, <1>13, <1>16, <1>17, <1>18, <1>19, PutOn
  <2> QED
    BY Zenon, <1>1, <2>1
<1>21. Contents'
  <2>1. \A q \in Proc : pc'[q] = "write block" => q = p
    <3> DEFINE b == "write block"
    <3>1. b \in Blocks
      BY DEF Blocks
    <3> HIDE DEF b
    <3>2. \A q \in Proc : pc'[q] = b => q = p
      BY <1>1, <1>10, <3>1
    <3> QED
      BY <3>2 DEF b
  <2>2. u'[p] = r
    BY <1>6 DEF Moves
  <2> QED
    BY Zenon, <1>14, <1>20, <2>1, <2>2 DEF Contents
<1>22. Booking'
  <2>1. r.count + r.put > 0 /\ (r.usave > 0 => r.count + r.usave + r.put > PIPSIZ) /\ r.put \in Nat
    <3>1. u[p].usave > 0 => u[p].count + u[p].usave + u[p].put > PIPSIZ
      BY <1>13 DEF Booked
    <3>2. r.usave > 0 => r.count + r.usave + r.put > PIPSIZ
      BY Zenon, <1>5, <1>19, <3>1
    <3>3. r.count \in Nat /\ r.put \in Nat /\ r.put > 0
      BY <1>2, <1>4, <1>5, <1>8, <1>9, <1>19
    <3>4. r.count + r.put > 0
      BY <3>3
    <3> QED
      BY <3>2, <3>3, <3>4
  <2>2. Booked("write block", r)
    BY <1>5, <1>7, <1>13, <2>1 DEF Booked
  <2> QED
    BY <1>6, <2>2, BookingKept DEF Stored
<1>23. Queue' = Queue
  <2> DEFINE z == size - u[p].put
  <2>1. u[p].put <= size
    BY <1>13 DEF InPlace
  <2>2. z \in Nat /\ z <= size /\ (size + n) - m = z
    BY <1>2, <1>8, <1>9, <2>1 DEF m
  <2>3. Queue = Stretch(ring, frptr, z) /\ Queue' = Stretch(ring', frptr, (size + n) - m)
    <3>1. Queue = Stretch(ring, First, size - Put) /\ Queue' = Stretch(ring', First', size' - Put')
      BY Zenon DEF Queue, Stretch
    <3> QED
      BY Zenon, <1>1, <1>11, <1>12, <3>1
  <2> HIDE DEF z
  <2>4. \A i \in 1 .. z : i \in 1 .. size
    BY <1>2, <2>2
  <2>5. \A i \in 1 .. z : ring[(frptr + i - 1) % PIPSIZ] = ring'[(frptr + i - 1) % PIPSIZ]
    BY Zenon, <1>16, <2>4
  <2>6. Stretch(ring, frptr, z) = Stretch(ring', frptr, z)
    BY Zenon, <2>5 DEF Stretch
  <2> QED
    BY Zenon, <2>2, <2>3, <2>6
<1>24. UNCHANGED <<Todo, Got, Told>>
  <2>1. Sent(r) - r.put = Sent(u[p]) - u[p].put
    BY <1>8, <1>9, <1>19
  <2>2. Left(r) = Left(u[p])
    BY <1>5, <1>7, <1>19, <2>1, SameLeft
  <2> QED
    BY <1>5, <1>6, <2>2, SameCall
<1>25. UNCHANGED S!vars
  BY <1>1, <1>23, <1>24, StutterActs
<1> QED
  BY <1>21, <1>22, <1>25 DEF Stored, Act

(* What is left of a write, by numbers.                                    *)
Numbers(a, n) == [i \in 1 .. n |-> a + i]

(* The values of successive bytes of a write.                               *)
LEMMA NumbersAre ==
  ASSUME NEW a \in Int, NEW n \in Nat
  PROVE  Numbers(a, n) \in Seq(Byte) /\ Len(Numbers(a, n)) = n /\ \A i \in 1 .. n : Numbers(a, n)[i] = a + i
<1> DEFINE s == Numbers(a, n)
<1>1. s \in [1 .. n -> Byte] /\ \A i \in 1 .. n : s[i] = a + i
  BY DEF Numbers, Byte
<1> HIDE DEF s
<1>2. s \in Seq(Byte) /\ Len(s) = n
  BY <1>1
<1> QED
  BY <1>1, <1>2 DEF s

(* A tail of them.                                                          *)
LEMMA NumbersRest ==
  ASSUME NEW a \in Int, NEW n \in Nat, NEW k \in Nat, k <= n
  PROVE  SubSeq(Numbers(a, n), k + 1, n) = Numbers(a + k, n - k)
<1> DEFINE s == Numbers(a, n)
           b == SubSeq(s, k + 1, n)
           d == Numbers(a + k, n - k)
<1>1. s \in Seq(Byte) /\ Len(s) = n /\ \A i \in 1 .. n : s[i] = a + i
  BY NumbersAre
<1>2. n - k \in Nat /\ a + k \in Int /\ k + 1 \in Nat /\ k + 1 > 0 /\ k + 1 <= n + 1 /\ n - (k + 1) + 1 = n - k
  OBVIOUS
<1>3. d \in Seq(Byte) /\ Len(d) = n - k /\ \A i \in 1 .. n - k : d[i] = a + k + i
  BY Zenon, <1>2, NumbersAre
<1> HIDE DEF s
<1>4. b \in Seq(Byte) /\ Len(b) = n - k /\ \A i \in 1 .. n - k : b[i] = s[k + 1 + i - 1]
  <2>1. /\ SubSeq(s, k + 1, n) \in Seq(Byte) /\ Len(SubSeq(s, k + 1, n)) = n - (k + 1) + 1
        /\ \A i \in 1 .. n - (k + 1) + 1 : SubSeq(s, k + 1, n)[i] = s[k + 1 + i - 1]
    <3> DEFINE h == k + 1
    <3>1. n <= Len(s) /\ h \in Nat /\ h > 0 /\ h <= n + 1 /\ s \in Seq(Byte) /\ n \in Nat
      BY <1>1, <1>2
    <3> HIDE DEF h
    <3>2. /\ SubSeq(s, h, n) \in Seq(Byte) /\ Len(SubSeq(s, h, n)) = n - h + 1
          /\ \A i \in 1 .. n - h + 1 : SubSeq(s, h, n)[i] = s[h + i - 1]
      BY <3>1, SubIs
    <3> QED
      BY Zenon, <3>2 DEF h
  <2> QED
    BY Zenon, <1>2, <2>1
<1> HIDE DEF b, d
<1>5. \A i \in 1 .. n - k : b[i] = d[i]
  <2> TAKE i \in 1 .. n - k
  <2>1. k + 1 + i - 1 \in 1 .. n /\ a + (k + 1 + i - 1) = a + k + i
    OBVIOUS
  <2>2. s[k + 1 + i - 1] = a + (k + 1 + i - 1)
    BY Zenon, <1>1, <2>1
  <2> QED
    BY Zenon, <1>3, <1>4, <2>1, <2>2
<1> QED
  BY <1>3, <1>4, <1>5, SeqEqual DEF b, d, s

(* What is left of a write is such a sequence.                              *)
LEMMA LeftIs ==
  ASSUME NEW c, c.job = "write"
  PROVE  Left(c) = Numbers(Sent(c) - c.put, c.count + c.usave + c.put)
BY Zenon DEF Left, Numbers

(* The write that ends, c, and what is left of it afterwards, d.           *)
LeavesOf(c, d) ==
  \/ /\ c.usave > 0 /\ d.job = "write" /\ d.count = c.usave
     /\ d.usave = 0 /\ d.put = 0 /\ d.total = c.total
  \/ c.usave = 0 /\ d.job = "none"

(* What the write that ends has put is the head of what was left.           *)
LEMMA RestIs ==
  ASSUME NEW c, c.job = "write", c.count = 0, c.put \in Nat, c.usave \in Nat, c.total \in Nat, c.put > 0,
         c.usave > 0 => c.count + c.usave + c.put > PIPSIZ, NEW d, LeavesOf(c, d)
  PROVE  /\ Left(c) \in Seq(Byte) /\ c.put \in 1 .. Len(Left(c))
         /\ Len(Left(c)) <= PIPSIZ => c.put = Len(Left(c))
         /\ \A i \in 1 .. c.put : Left(c)[i] = Sent(c) - c.put + i
         /\ Left(d) = SubSeq(Left(c), c.put + 1, Len(Left(c)))
<1> DEFINE k == c.put
           v == c.usave
           n == c.count + c.usave + c.put
           a == Sent(c) - c.put
<1>1. k \in Nat /\ v \in Nat /\ n \in Nat /\ a \in Int /\ n = v + k /\ k > 0 /\ (v > 0 => n > PIPSIZ)
      /\ a + k = c.total - v
  BY DEF Sent
<1>2. Left(c) = Numbers(a, n)
  BY Zenon, LeftIs
<1> HIDE DEF k, v, n, a
<1>3. Left(c) \in Seq(Byte) /\ Len(Left(c)) = n /\ \A i \in 1 .. n : Left(c)[i] = a + i
  <2>1. /\ Numbers(a, n) \in Seq(Byte) /\ Len(Numbers(a, n)) = n
        /\ \A i \in 1 .. n : Numbers(a, n)[i] = a + i
    BY Zenon, <1>1, NumbersAre
  <2> QED
    BY Zenon, <1>2, <2>1
<1>4. k \in 1 .. n /\ (n <= PIPSIZ => k = n) /\ k <= n /\ n - k = v /\ \A i \in 1 .. k : i \in 1 .. n
  BY <1>1, PIPSIZNat
<1>5. SubSeq(Left(c), k + 1, n) = Numbers(a + k, v)
  <2>1. SubSeq(Numbers(a, n), k + 1, n) = Numbers(a + k, n - k)
    BY Zenon, <1>1, <1>4, NumbersRest
  <2> QED
    BY Zenon, <1>2, <1>4, <2>1
<1>6. Left(d) = Numbers(a + k, v)
  <2>1. CASE v > 0
    <3>1. ~(v = 0)
      BY <1>1, <2>1
    <3>2. d.job = "write" /\ d.count = v /\ d.usave = 0 /\ d.put = 0 /\ d.total = c.total
      BY Zenon, <3>1 DEF LeavesOf, v
    <3>3. Sent(d) - d.put = a + k
      <4>1. c.total - v - 0 - 0 = c.total - v
        BY <1>1
      <4>2. Sent(d) - d.put = c.total - v - 0 - 0
        BY Zenon, <3>2 DEF Sent
      <4> QED
        BY Zenon, <1>1, <4>1, <4>2
    <3>4. d.count + d.usave + d.put = v
      <4>1. v + 0 + 0 = v
        BY <1>1
      <4> QED
        BY Zenon, <3>2, <4>1
    <3> QED
      BY Zenon, <3>2, <3>3, <3>4, LeftIs
  <2>2. CASE v = 0
    <3>1. ~(v > 0)
      BY <2>2
    <3>2. d.job = "none"
      BY Zenon, <3>1 DEF LeavesOf, v
    <3>3. Left(d) = <<>>
      BY <3>2 DEF Left
    <3>4. Numbers(a + k, 0) = <<>>
      BY DEF Numbers
    <3> QED
      BY <2>2, <3>3, <3>4
  <2> QED
    BY <1>1, <2>1, <2>2
<1>7. \A i \in 1 .. k : Left(c)[i] = a + i
  BY Zenon, <1>3, <1>4
<1> QED
  BY Zenon, <1>3, <1>4, <1>5, <1>6, <1>7 DEF k, a

(* The end of writei() is the stream's send: all of a write that fits at   *)
(* once, or a part of one that is longer than the pipe.                    *)
LEMMA WriteEndActs ==
  ASSUME PipeInv, Stored, NEW p \in Proc, WriteEnd(p)
  PROVE  Stored' /\ Act
<1> DEFINE c == u[p]
<1>1. /\ pc[p] = "write block" /\ c.job = "write" /\ Holds(p) /\ c.count = 0
      /\ UNCHANGED <<frcnt, fwcnt, size, frptr, ring>>
  BY DEF WriteEnd, At, PipeInv, Jobs, JobFits, Holds
<1>2. c.put \in Nat /\ c.usave \in Nat /\ c.total \in Nat
  BY NumbersOf DEF Stored
<1>3. Booked("write block", c) /\ InPlace(c, ring, frptr, size) /\ ring \in Ring
  BY <1>1 DEF Stored, Booking, Contents
<1>4. c.put > 0 /\ (c.usave > 0 => c.count + c.usave + c.put > PIPSIZ) /\ c.got = <<>> /\ c.told = "none"
  <2>1. c.got = <<>> /\ c.told = "none" /\ c.count + c.put > 0 /\ (c.usave > 0 => c.count + c.usave + c.put > PIPSIZ)
    BY <1>1, <1>3 DEF Booked
  <2>2. \A n \in Nat : 0 + n = n
    OBVIOUS
  <2>3. c.count + c.put = c.put
    BY Zenon, <1>1, <1>2, <2>2
  <2> QED
    BY Zenon, <2>1, <2>3
<1>5. \A q \in Proc \ {p} : pc[q] \notin Blocks
  BY <1>1, Alone
<1>6. Put = c.put /\ First = frptr
  BY <1>1, <1>5, HalvesWrite
<1>7. PICK l, r : /\ Moves(p, l, r) /\ l \in {"write", "back"} /\ Booked(l, r) /\ r.got = <<>> /\ LeavesOf(c, r)
                  /\ (c.usave > 0 /\ r.told = c.told) \/ (c.usave = 0 /\ r.told = "done")
  <2>1. CASE c.usave > 0
    <3> DEFINE r == [c EXCEPT !.count = c.usave, !.usave = 0, !.put = 0]
    <3>1. Moves(p, "write", r)
      BY <2>1 DEF WriteEnd, Goes, PipeInv, Frames, Moves, Place
    <3>2. /\ r.job = c.job /\ r.count = c.usave /\ r.usave = 0 /\ r.put = 0 /\ r.total = c.total
          /\ r.told = c.told /\ r.got = c.got
      BY DEF PipeInv, Frames, Frame, Field
    <3> HIDE DEF r, c
    <3>3. Booked("write", r)
      <4>1. /\ r.put = 0 /\ r.total \in Nat /\ r.usave = 0 /\ r.count > 0
            /\ r.got = <<>> /\ r.told = "none" /\ r.job = "write"
        BY <1>1, <1>2, <1>4, <2>1, <3>2
      <4>2. 0 \in Nat
        OBVIOUS
      <4> QED
        BY <4>1, <4>2 DEF Booked
    <3>4. LeavesOf(c, r)
      BY <1>1, <2>1, <3>2 DEF LeavesOf
    <3> QED
      BY <1>4, <2>1, <3>1, <3>2, <3>3, <3>4
  <2>2. CASE c.usave = 0
    <3>1. ~(c.usave > 0)
      BY <2>2
    <3>2. Moves(p, "back", Over("done"))
      BY <3>1 DEF WriteEnd, Returns, Goes, PipeInv, Frames, Moves, Place, Over
    <3>3. LeavesOf(c, Over("done")) /\ Over("done").got = <<>> /\ Over("done").told = "done"
      BY <2>2, OverIs DEF LeavesOf
    <3>4. Booked("back", Over("done"))
      BY BookedOver
    <3> QED
      BY <2>2, <3>2, <3>3, <3>4
  <2>3. \A n \in Nat : n > 0 \/ n = 0
    OBVIOUS
  <2> QED
    BY <1>2, <2>1, <2>2, <2>3
<1>8. l \notin Blocks
  BY <1>7 DEF Blocks
<1>9. \A q \in Proc : pc'[q] \notin Blocks
  BY <1>5, <1>7, <1>8 DEF Moves
<1>10. Put' = 0 /\ First' = frptr
  BY <1>1, <1>9, HalvesNoneThen
<1>11. Stored'
  <2>1. Booking'
    BY <1>7, BookingKept DEF Stored
  <2> QED
    BY <1>1, <1>3, <1>9, <2>1, StoredNone
<1>12. /\ Left(c) \in Seq(Byte) /\ c.put \in 1 .. Len(Left(c))
       /\ Len(Left(c)) <= PIPSIZ => c.put = Len(Left(c))
       /\ \A i \in 1 .. c.put : Left(c)[i] = Sent(c) - c.put + i
       /\ Left(r) = SubSeq(Left(c), c.put + 1, Len(Left(c)))
  BY Zenon, <1>1, <1>2, <1>4, <1>7, RestIs
<1>13. PICK k \in Nat : k = c.put
  BY <1>2
<1>14. PICK t : t = Left(c)
  OBVIOUS
<1>15. Todo[p] = t
  BY <1>14 DEF Todo
<1> HIDE DEF c
<1>16. t \in Seq(Byte) /\ k \in 1 .. Len(t) /\ (Len(t) <= PIPSIZ => k = Len(t)) /\ Left(r) = SubSeq(t, k + 1, Len(t))
  BY Zenon, <1>12, <1>13, <1>14
<1>17. k <= size /\ \A i \in 1 .. k : ring[(frptr + (size - k) + i - 1) % PIPSIZ] = t[i]
  <2>1. k <= size /\ \A i \in 1 .. k : ring[(frptr + (size - k) + i - 1) % PIPSIZ] = Sent(c) - k + i
    BY Zenon, <1>3, <1>13 DEF InPlace
  <2> QED
    BY Zenon, <1>12, <1>13, <1>14, <2>1
<1>18. size \in Nat /\ size <= PIPSIZ /\ frptr \in 0 .. PIPSIZ - 1
  <2>1. PIPSIZ \in Nat /\ size \in 0 .. PIPSIZ /\ frptr \in 0 .. PIPSIZ - 1
    BY PIPSIZNat DEF PipeInv, TypeOK
  <2>2. \A P \in Nat : \A z \in 0 .. P : z \in Nat /\ z <= P
    OBVIOUS
  <2> QED
    BY Zenon, <2>1, <2>2
<1>19. Len(t) \in Nat /\ k <= Len(t)
  BY <1>16
<1>20. Stretch(ring, frptr, size) = Stretch(ring, frptr, size - k) \o SubSeq(t, 1, k)
  BY ZenonT(60), <1>3, <1>16, <1>17, <1>18, <1>19, StretchPut
<1>21. Queue = Stretch(ring, frptr, size - k)
  BY Zenon, <1>6, <1>13 DEF Queue, c
<1>22. Queue' = Stretch(ring, frptr, size)
  <2>1. Queue' = Stretch(ring', First', size' - Put')
    BY Zenon DEF Queue, Stretch
  <2>2. size - 0 = size
    BY <1>18
  <2> QED
    BY Zenon, <1>1, <1>10, <2>1, <2>2
<1>23. Len(Queue) + k <= PIPSIZ
  <2>1. size - k \in Nat /\ size - k + k = size
    BY <1>17, <1>18
  <2>2. Len(Queue) = size - k
    BY Zenon, <1>3, <1>18, <1>21, <2>1, StretchIs
  <2> QED
    BY Zenon, <1>18, <2>1, <2>2
<1>24. /\ Todo' = [Todo EXCEPT ![p] = SubSeq(Todo[p], k + 1, Len(Todo[p]))] /\ Todo'[p] = Left(r)
       /\ Got' = [Got EXCEPT ![p] = <<>>] /\ Told' = [Told EXCEPT ![p] = r.told]
  <2>1. /\ Todo' = [Todo EXCEPT ![p] = Left(r)] /\ Got' = [Got EXCEPT ![p] = r.got]
        /\ Told' = [Told EXCEPT ![p] = r.told]
        /\ Todo'[p] = Left(r)
    BY <1>7, MovedCall
  <2> QED
    BY Zenon, <1>7, <1>15, <1>16, <2>1
<1>25. Got' = Got
  <2>1. Got[p] = <<>>
    BY <1>4 DEF Got, c
  <2>2. Got \in [Proc -> {Got[q] : q \in Proc}]
    BY DEF Got
  <2> QED
    BY <1>24, <2>1, <2>2
<1>26. Told' = Told \/ Told' = [Told EXCEPT ![p] = IF Todo'[p] = <<>> THEN "done" ELSE Told[p]]
  <2>1. CASE r.told = c.told
    <3>1. Told[p] = c.told
      BY DEF Told, c
    <3>2. Told \in [Proc -> {Told[q] : q \in Proc}]
      BY DEF Told
    <3> QED
      BY <1>24, <2>1, <3>1, <3>2
  <2>2. CASE c.usave = 0 /\ r.told = "done"
    <3>1. Left(r) = <<>>
      <4>1. ~(c.usave > 0)
        BY <2>2
      <4>2. r.job = "none"
        BY Zenon, <1>7, <4>1 DEF LeavesOf
      <4> QED
        BY <4>2 DEF Left
    <3> QED
      BY Zenon, <1>24, <2>2, <3>1
  <2> QED
    BY Zenon, <1>7, <2>1, <2>2
<1>27. S!Send(p, k)
  <2>1. k \in 1 .. Len(Todo[p]) /\ (Len(Todo[p]) <= PIPSIZ => k = Len(Todo[p]))
    BY Zenon, <1>15, <1>16
  <2>2. Queue' = Queue \o SubSeq(Todo[p], 1, k)
    BY Zenon, <1>15, <1>20, <1>21, <1>22
  <2>3. UNCHANGED <<Got, frcnt, fwcnt>>
    BY <1>1, <1>25
  <2> QED
    BY Zenon, <1>23, <1>24, <1>26, <2>1, <2>2, <2>3, SendActs
<1>28. k \in 1 .. Len(Todo[p])
  BY Zenon, <1>15, <1>16
<1> QED
  BY <1>11, <1>27, <1>28 DEF Act

------------------------------------------------------------------------------
(* The refinement.                                                         *)

LEMMA InitStored == Init => Stored /\ S!Init
<1> SUFFICES ASSUME Init PROVE Stored /\ S!Init
  OBVIOUS
<1>1. PICK T \in {{}} \cup {{p} : p \in Proc} : frcnt = Cardinality(T) /\ fwcnt = Cardinality(T)
  BY DEF Init
<1>2. frcnt = fwcnt /\ frcnt \in {0, 1}
  <2>1. Cardinality(T) \in {0, 1}
    BY <1>1, FS_EmptySet, FS_Singleton
  <2> QED
    BY <1>1, <2>1
<1>3. size = 0 /\ \A p \in Proc : pc[p] = "user" /\ u[p] = NoCall
  BY DEF Init
<1>4. ring = [i \in 0 .. PIPSIZ - 1 |-> Lost]
  BY DEF Init
<1>5. NoCall.job = "none" /\ NoCall.put = 0 /\ NoCall.total = 0 /\ NoCall.got = <<>> /\ NoCall.told = "none"
  BY DEF NoCall
<1>6. Booked("user", NoCall) /\ Left(NoCall) = <<>>
  BY <1>5 DEF Booked, Left
<1>7. Booking
  BY <1>3, <1>6 DEF Booking
<1>8. Contents
  BY <1>3, <1>4 DEF Contents, Ring, Byte
<1>9. Queue = <<>>
  <2>1. \A q \in Proc : pc[q] \notin Blocks
    BY <1>3 DEF Blocks
  <2>2. Put = 0
    BY <2>1, HalvesNone
  <2>3. size - Put = 0
    BY <1>3, <2>2
  <2> QED
    BY <2>3, NoStretch DEF Queue
<1>10. Todo = [p \in Proc |-> <<>>] /\ Got = [p \in Proc |-> <<>>] /\ Told = [p \in Proc |-> "none"]
  BY <1>3, <1>5, <1>6 DEF Todo, Got, Told
<1>11. S!Init
  BY Zenon, <1>2, <1>9, <1>10 DEF S!Init, Queue, Stretch, Todo, Left, Got, Told
<1> QED
  BY <1>7, <1>8, <1>11 DEF Stored

(* Every step keeps what is stored and is a step of the stream or none.     *)
LEMMA NextStored == PipeInv /\ Pointers /\ Stored /\ [Next]_vars => Stored' /\ Act
<1> SUFFICES ASSUME PipeInv, Pointers, Stored, [Next]_vars PROVE Stored' /\ Act
  OBVIOUS
<1>1. CASE UNCHANGED vars
  <2>1. UNCHANGED <<frcnt, fwcnt, size, frptr, ring, pc, u>>
    BY <1>1 DEF vars, fifo, proc
  <2>2. UNCHANGED <<Queue, Todo, Got, Told>>
    BY Zenon, <2>1 DEF Queue, Stretch, Put, First, Halves, Todo, Left, Sent, Got, Told
  <2>3. UNCHANGED S!vars
    BY <2>1, <2>2, StutterActs
  <2>4. Stored'
    BY Zenon, <2>1 DEF Stored, Booking, Contents
  <2> QED
    BY <2>3, <2>4 DEF Act
<1>2. ASSUME NEW p \in Proc, Step(p)
      PROVE  Stored' /\ Act
  BY <1>2, PlockActs, OpenAgainActs, ClosepActs, SleptActs, BackActs, ReadActs, ReadBlockActs,
     ReadEndActs, WriteActs, WriteBlockActs, WriteEndActs DEF Step
<1>3. ASSUME NEW p \in Proc, User(p)
      PROVE  Stored' /\ Act
  <2>1. ASSUME NEW f \in Opened, NEW nd \in BOOLEAN, Open(p, f, nd)
        PROVE  Stored' /\ Act
    <3>1. CASE UNCHANGED <<frcnt, fwcnt, proc>>
      BY <1>1, <2>1, <3>1 DEF Open, vars, fifo, lock, proc
    <3> QED
      BY <2>1, <3>1, OpenActs
  <2>2. Reads \subseteq Nat \ {0} /\ Writes \subseteq Nat \ {0}
    BY PipeAssumption
  <2> QED
    BY <1>3, <2>1, <2>2, CloseActs, CallActs, InterruptedActs DEF User
<1> QED
  BY <1>1, <1>2, <1>3 DEF Next

(* A pipe is a stream, of any size and with any processes: small writes    *)
(* are never mixed, bytes come out in order and once, and nobody is told   *)
(* of an end that is not one.                                              *)
THEOREM PipeImplementsStream == Spec => ImplementsStream
<1>1. Init => Stored /\ S!Init
  BY InitStored
<1>2. PipeInv /\ Pointers /\ Stored /\ [Next]_vars => Stored' /\ [S!Next]_(S!vars)
  BY NextStored, ActIs
<1> QED
  BY <1>1, <1>2, PipeInvariance, PointersInvariance, PTL DEF Spec, ImplementsStream, S!Spec
===============================================================================
