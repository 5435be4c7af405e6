------------------------------ MODULE BioProofs ------------------------------
(***************************************************************************)
(* The buffer cache for any number of processes, buffers, blocks and       *)
(* devices: the inductive invariant BioInv and what follows from it; then  *)
(* what its callers rely on: a busy buffer has an owner, no wakeup is      *)
(* lost, nobody is handed stale or bad contents, and the cache implements  *)
(* the block store.                                                        *)
(***************************************************************************)
EXTENDS BioStore, SequenceTheorems, FiniteSetTheorems, TLAPS

-----------------------------------------------------------------------------
(* The available list as a sequence without repetitions. *)

(* Unlinking an element takes it, and only it, off the list. *)
LEMMA RemoveAtList ==
  ASSUME NEW S, NEW s \in Seq(S), IsInjective(s), NEW i \in DOMAIN s
  PROVE  /\ RemoveAt(s, i) \in Seq(S)
         /\ IsInjective(RemoveAt(s, i))
         /\ Range(RemoveAt(s, i)) = Range(s) \ {s[i]}
<1> DEFINE n == Len(s)
           r == [j \in 1 .. n-1 |-> IF j < i THEN s[j] ELSE s[j+1]]
<1>1. n \in Nat /\ DOMAIN s = 1 .. n /\ i \in 1 .. n /\ s \in [1 .. n -> S]
  BY LenProperties
<1>2. RemoveAt(s, i) = r
  <2>1. SubSeq(s, 1, i-1) \in Seq(S) /\ Len(SubSeq(s, 1, i-1)) = i - 1
        /\ \A j \in 1 .. i-1 : SubSeq(s, 1, i-1)[j] = s[j]
    BY <1>1, SubSeqProperties
  <2>2. SubSeq(s, i+1, n) \in Seq(S) /\ Len(SubSeq(s, i+1, n)) = n - i
        /\ \A j \in 1 .. n-i : SubSeq(s, i+1, n)[j] = s[i+j]
    <3>1. i + 1 \in Int /\ n \in Int /\ \A j \in i+1 .. n : s[j] \in S
      BY <1>1
    <3>2. SubSeq(s, i+1, n) \in Seq(S)
          /\ Len(SubSeq(s, i+1, n)) = (IF i+1 <= n THEN n - (i+1) + 1 ELSE 0)
          /\ \A j \in 1 .. n - (i+1) + 1 : SubSeq(s, i+1, n)[j] = s[(i+1) + j - 1]
      BY <3>1, SubSeqProperties
    <3>3. n - (i+1) + 1 = n - i /\ (IF i+1 <= n THEN n - (i+1) + 1 ELSE 0) = n - i
      BY <1>1
    <3>4. \A j \in 1 .. n-i : (i+1) + j - 1 = i + j
      BY <1>1
    <3> HIDE DEF n
    <3> QED BY <3>2, <3>3, <3>4, Zenon
  <2>3. RemoveAt(s, i) \in Seq(S) /\ Len(RemoveAt(s, i)) = n - 1
    BY SMTT(30), <1>1, <2>1, <2>2, ConcatProperties DEF RemoveAt
  <2>4. ASSUME NEW j \in 1 .. n-1 PROVE RemoveAt(s, i)[j] = r[j]
    <3> DEFINE t == SubSeq(s, 1, i-1)
               v == SubSeq(s, i+1, n)
    <3>1. RemoveAt(s, i) = t \o v
      BY DEF RemoveAt
    <3>2. (t \o v)[j] = IF j <= Len(t) THEN t[j] ELSE v[j - Len(t)]
      <4>1. j \in 1 .. Len(t) + Len(v)
        BY <1>1, <2>1, <2>2
      <4> QED BY <2>1, <2>2, <4>1, ConcatProperties
    <3>3. r[j] = IF j < i THEN s[j] ELSE s[j+1]
      OBVIOUS
    <3>4. CASE j < i
      <4>1. j \in 1 .. i-1 /\ j <= Len(t)
        BY <1>1, <2>1, <3>4
      <4> QED BY <2>1, <3>1, <3>2, <3>3, <3>4, <4>1
    <3>5. CASE ~ (j < i)
      <4>1. ~ (j <= Len(t)) /\ j - Len(t) \in 1 .. n-i /\ i + (j - Len(t)) = j + 1
        BY <1>1, <2>1, <3>5
      <4> QED BY <2>2, <3>1, <3>2, <3>3, <3>5, <4>1
    <3> QED BY <3>4, <3>5
  <2>5. r \in Seq(S) /\ Len(r) = n - 1
    BY <1>1
  <2> QED BY <1>1, <2>3, <2>4, <2>5, SeqEqual
<1>3. r \in [1 .. n-1 -> S] /\ r \in Seq(S)
  BY <1>1
<1>4. IsInjective(r)
  BY <1>1 DEF IsInjective
<1>5. Range(r) = Range(s) \ {s[i]}
  <2>1. ASSUME NEW x \in Range(r) PROVE x \in Range(s) \ {s[i]}
    BY <1>1, <2>1 DEF Range, IsInjective
  <2>2. ASSUME NEW x \in Range(s), x # s[i] PROVE x \in Range(r)
    <3>1. PICK j \in 1 .. n : x = s[j] /\ j # i
      BY <1>1, <2>2 DEF Range
    <3>2. CASE j < i
      BY <1>1, <3>1, <3>2 DEF Range
    <3>3. CASE j > i
      <4>1. j - 1 \in 1 .. n-1 /\ ~ (j - 1 < i) /\ (j - 1) + 1 = j
        BY <1>1, <3>1, <3>3
      <4> QED BY <4>1, <3>1 DEF Range
    <3> QED BY <1>1, <3>1, <3>2, <3>3
  <2> QED BY <2>1, <2>2
<1> QED BY <1>2, <1>3, <1>4, <1>5

(* brelse() puts a buffer that is not on the list there, once. *)
LEMMA EnlistList ==
  ASSUME NEW S, NEW s \in Seq(S), IsInjective(s), NEW b \in S, b \notin Range(s), NEW F
  PROVE  /\ Enlist(s, b, F) \in Seq(S)
         /\ IsInjective(Enlist(s, b, F))
         /\ Range(Enlist(s, b, F)) = Range(s) \cup {b}
<1>1. CASE "AGE" \in Judged(F)
  <2> DEFINE t == <<b>> \o s
  <2>1. t \in Seq(S) /\ Len(t) = Len(s) + 1 /\ t[1] = b
        /\ \A j \in 1 .. Len(s) : t[j+1] = s[j]
    BY ConcatProperties
  <2>2. DOMAIN t = 1 .. Len(s) + 1 /\ DOMAIN s = 1 .. Len(s) /\ Len(s) \in Nat
    BY <2>1, LenProperties
  <2>3. \A j \in DOMAIN t : j = 1 \/ (j - 1 \in DOMAIN s /\ t[j] = s[j-1])
    BY <2>1, <2>2
  <2>4. IsInjective(t)
    BY <2>1, <2>2, <2>3 DEF IsInjective, Range
  <2>5. Range(t) = Range(s) \cup {b}
    <3>1. \A j \in DOMAIN s : j + 1 \in DOMAIN t /\ t[j+1] = s[j]
      BY <2>1, <2>2
    <3>2. 1 \in DOMAIN t /\ t[1] = b
      BY <2>1, <2>2
    <3> HIDE DEF t
    <3>3. ASSUME NEW x \in Range(t) PROVE x \in Range(s) \cup {b}
      BY <2>3, <3>2 DEF Range
    <3>4. ASSUME NEW x \in Range(s) PROVE x \in Range(t)
      BY <3>1 DEF Range
    <3>5. b \in Range(t)
      BY <3>2 DEF Range
    <3> QED BY <3>3, <3>4, <3>5
  <2> QED BY <1>1, <2>1, <2>4, <2>5 DEF Enlist
<1>2. CASE "AGE" \notin Judged(F)
  <2> DEFINE t == Append(s, b)
  <2>1. t \in Seq(S) /\ Len(t) = Len(s) + 1 /\ t[Len(s) + 1] = b
        /\ \A j \in 1 .. Len(s) : t[j] = s[j]
    BY AppendProperties
  <2>2. DOMAIN t = 1 .. Len(s) + 1 /\ DOMAIN s = 1 .. Len(s) /\ Len(s) \in Nat
    BY <2>1, LenProperties
  <2>3. IsInjective(t)
    BY <2>1, <2>2 DEF IsInjective, Range
  <2>4. Range(t) = Range(s) \cup {b}
    <3>1. \A j \in DOMAIN s : j \in DOMAIN t /\ t[j] = s[j]
      BY <2>1, <2>2
    <3>2. \A j \in DOMAIN t : t[j] = b \/ (j \in DOMAIN s /\ t[j] = s[j])
      BY <2>1, <2>2
    <3>3. Len(s) + 1 \in DOMAIN t
      BY <2>2
    <3>4. t[Len(s) + 1] = b
      BY <2>1
    <3> HIDE DEF t
    <3>5. ASSUME NEW x \in Range(t) PROVE x \in Range(s) \cup {b}
      BY <3>2 DEF Range
    <3>6. ASSUME NEW x \in Range(s) PROVE x \in Range(t)
      BY <3>1 DEF Range
    <3>7. b \in Range(t)
      BY <3>3, <3>4 DEF Range
    <3> QED BY <3>5, <3>6, <3>7
  <2> QED BY <1>2, <2>1, <2>3, <2>4 DEF Enlist
<1> QED BY <1>1, <1>2

-----------------------------------------------------------------------------
(* The available list and the BUSY flag change together. *)

LEMMA TakeList ==
  ASSUME TypeOK, ListOK, NEW i \in DOMAIN freelist, Unlink(i),
         NEW G \in SUBSET Flag, "BUSY" \in G,
         flags' = [flags EXCEPT ![freelist[i]] = G]
  PROVE  /\ freelist[i] \in Buf /\ "BUSY" \notin flags[freelist[i]]
         /\ freelist' \in Seq(Buf)
         /\ ListOK'
<1>1. freelist[i] \in Buf /\ "BUSY" \notin flags[freelist[i]]
  BY DEF ListOK, Range
<1>2. /\ freelist' \in Seq(Buf) /\ IsInjective(freelist')
      /\ Range(freelist') = Range(freelist) \ {freelist[i]}
  BY RemoveAtList DEF TypeOK, ListOK, Unlink
<1>3. Range(freelist') = {b \in Buf : "BUSY" \notin flags'[b]}
  BY <1>1, <1>2 DEF TypeOK, ListOK
<1> QED BY <1>1, <1>2, <1>3 DEF ListOK

LEMMA GiveList ==
  ASSUME TypeOK, ListOK, NEW b \in Buf, "BUSY" \in flags[b], NEW F \in SUBSET Flag, Brelse(b, F)
  PROVE  /\ freelist' \in Seq(Buf)
         /\ flags' \in [Buf -> SUBSET Flag]
         /\ ListOK'
<1>1. Released(F) \in SUBSET Flag /\ "BUSY" \notin Released(F)
  BY DEF Released, Judged, Flag
<1>2. b \notin Range(freelist)
  BY DEF ListOK
<1>3. /\ freelist' \in Seq(Buf) /\ IsInjective(freelist')
      /\ Range(freelist') = Range(freelist) \cup {b}
  BY <1>2, EnlistList DEF TypeOK, ListOK, Brelse
<1>4. Range(freelist') = {c \in Buf : "BUSY" \notin flags'[c]}
  BY <1>1, <1>3 DEF TypeOK, ListOK, Brelse
<1> QED BY <1>1, <1>3, <1>4 DEF ListOK, Brelse, TypeOK

LEMMA KeepList ==
  ASSUME TypeOK, ListOK, UNCHANGED freelist,
         \A b \in Buf : "BUSY" \in flags'[b] <=> "BUSY" \in flags[b]
  PROVE  ListOK'
BY DEF ListOK

(* What brelse() leaves of the flags. *)
LEMMA BrelseFlags ==
  ASSUME TypeOK, NEW b \in Buf, NEW F \in SUBSET Flag, Brelse(b, F)
  PROVE  /\ \A c \in Buf \ {b} : flags'[c] = flags[c]
         /\ flags'[b] \cap {"BUSY", "ASYNC", "ERROR"} = {}
         /\ \A x \in {"DELWRI", "READ", "DONE"} : x \in flags'[b] => x \in F
         /\ "DELWRI" \in flags'[b] /\ "DONE" \in F => "DONE" \in flags'[b]
         /\ "STALE" \in F => "STALE" \in flags'[b]
         /\ wantFree' \in BOOLEAN /\ chan' \in [Proc -> Buf \cup {FreeList, Awake}]
BY DEF TypeOK, Brelse, Released, Judged, Flag, Wakeup

(* A step that touches no buffer keeps the invariant if nobody comes to own *)
(* one by it.                                                               *)
LEMMA QuietInv ==
  ASSUME BioInv, UNCHANGED <<flags, blk, data, freelist, ioq, disk>>,
         TypeOK', FramesOK', OwnersIdle', FoundOK',
         \A q \in Proc, c \in Buf : Owns(q, c)' => Owns(q, c)
  PROVE  BioInv'
<1>1. ListOK' /\ DriverOK' /\ DelayedOK' /\ AsyncInDriver' /\ OneBufferPerBlock'
  BY DEF BioInv, ListOK, DriverOK, DelayedOK, OwnersOK, AsyncInDriver, OneBufferPerBlock
<1>2. OwnersBusy' /\ OwnersAlone'
  BY DEF BioInv, OwnersOK, OwnersBusy, OwnersAlone
<1> QED BY <1>1, <1>2 DEF BioInv, OwnersOK

LEMMA CallInv ==
  ASSUME BioInv, NEW p \in Proc, NEW f \in Frame, NEW l \in Pc, FrameOK(f, l),
         f.bp = NoBuf, l \notin {"got", "hold", "user"}, Call(p, f, l) PROVE BioInv'
<1> USE BioAssumption
<1>2. UNCHANGED <<flags, blk, data, freelist, ioq, disk>>
  BY DEF Call, bufVars
<1>3. TypeOK'
  BY DEF BioInv, TypeOK, Frame, Op, Pc, Call, Goto, bufVars
<1>4. FramesOK'
  BY DEF BioInv, FramesOK, FrameOK, TypeOK, Frame, Call, Goto, bufVars
<1>5. OwnersIdle'
  BY DEF BioInv, OwnersOK, OwnersIdle, TypeOK, Frame, Call, Goto, bufVars
<1>6. FoundOK'
  BY DEF BioInv, FoundOK, Sought, TypeOK, Frame, Call, Goto, bufVars
<1>7. \A q \in Proc, c \in Buf : Owns(q, c)' => Owns(q, c)
  BY DEF BioInv, Owns, TypeOK, Frame, Call, Goto, bufVars
<1> QED BY <1>2, <1>3, <1>4, <1>5, <1>6, <1>7, QuietInv

LEMMA GetblkFindInv ==
  ASSUME BioInv, NEW p \in Proc, GetblkFind(p) PROVE BioInv'
<1> USE BioAssumption
<1>1. PICK b \in Buf : frame' = [frame EXCEPT ![p].wb = b]
  BY DEF GetblkFind, Match
<1>2. /\ UNCHANGED <<flags, blk, data, freelist, wantFree, ioq, disk, chan>>
      /\ pc[p] = "getblk" /\ pc' = [pc EXCEPT ![p] = "found"] /\ cpu' = p
  BY DEF GetblkFind, bufVars, At, Goto
<1>3. TypeOK'
  <2>1. frame[p] \in Frame
    BY DEF BioInv, TypeOK
  <2>2. [frame[p] EXCEPT !.wb = b] \in Frame
    BY <2>1 DEF Frame
  <2>3. frame' \in [Proc -> Frame]
    BY <1>1, <2>2 DEF BioInv, TypeOK
  <2>4. pc' \in [Proc -> Pc] /\ cpu' \in Proc \cup {Nobody}
    BY <1>2 DEF BioInv, TypeOK, Pc
  <2> QED
    BY <1>2, <2>3, <2>4 DEF BioInv, TypeOK
<1>4. FramesOK'
  BY <1>1, <1>2 DEF BioInv, FramesOK, FrameOK, TypeOK, Frame
<1>5. OwnersIdle'
  BY <1>1, <1>2 DEF BioInv, OwnersOK, OwnersIdle, TypeOK, Frame
<1>6. FoundOK'
  BY <1>1, <1>2 DEF BioInv, FoundOK, Sought, TypeOK, Frame
<1>7. \A q \in Proc, c \in Buf : Owns(q, c)' => Owns(q, c)
  BY <1>1, <1>2 DEF BioInv, Owns, TypeOK, Frame
<1> QED BY <1>2, <1>3, <1>4, <1>5, <1>6, <1>7, QuietInv

(* What is found but busy. *)
LEMMA BusyFacts ==
  ASSUME TypeOK, FramesOK, NEW p \in Proc, GetblkBusy(p), NEW b, b = frame[p].wb
  PROVE  /\ b \in Buf /\ "BUSY" \in flags[b] /\ pc[p] = "found" /\ frame[p] \in Frame
         /\ flags' = [flags EXCEPT ![b] = @ \cup {"WANTED"}]
         /\ chan' = [chan EXCEPT ![p] = b]
         /\ frame' = [frame EXCEPT ![p].wb = NoBuf]
         /\ pc' = [pc EXCEPT ![p] = "getblk"]
         /\ cpu' = Nobody
         /\ UNCHANGED <<blk, data, freelist, wantFree, ioq, disk>>
BY DEF GetblkBusy, At, TypeOK, FramesOK, FrameOK

LEMMA GetblkBusyInv ==
  ASSUME BioInv, NEW p \in Proc, GetblkBusy(p) PROVE BioInv'
<1> USE BioAssumption DEF BioInv, OwnersOK
<1>1. PICK b \in Buf :
        /\ "BUSY" \in flags[b] /\ pc[p] = "found" /\ frame[p] \in Frame
        /\ flags' = [flags EXCEPT ![b] = @ \cup {"WANTED"}]
        /\ chan' = [chan EXCEPT ![p] = b]
        /\ frame' = [frame EXCEPT ![p].wb = NoBuf]
        /\ pc' = [pc EXCEPT ![p] = "getblk"]
        /\ cpu' = Nobody
        /\ UNCHANGED <<blk, data, freelist, wantFree, ioq, disk>>
  BY BusyFacts
<1>o. \A q \in Proc, c \in Buf : Owns(q, c)' => Owns(q, c)
  BY <1>1 DEF Owns, OwnersBusy, TypeOK, Frame
<1>t. TypeOK'
  BY <1>1 DEF TypeOK, Frame, Flag, Pc, Op
<1>f. FramesOK'
  BY <1>1 DEF FramesOK, FrameOK, TypeOK, Frame
<1>l. ListOK'
  BY <1>1, KeepList DEF TypeOK
<1>d. DriverOK'
  BY <1>1 DEF DriverOK, DelayedOK, TypeOK
<1>w. DelayedOK'
  BY <1>1 DEF DelayedOK, DriverOK, TypeOK
<1>b. OwnersBusy'
  BY <1>1, <1>o DEF OwnersBusy, TypeOK
<1>a. OwnersAlone'
  BY <1>o DEF OwnersAlone, OwnersBusy, TypeOK
<1>i. OwnersIdle'
  BY <1>1 DEF OwnersIdle, TypeOK, Frame
<1>y. AsyncInDriver'
  BY <1>1 DEF AsyncInDriver, TypeOK
<1>g. FoundOK'
  BY <1>1 DEF FoundOK, Sought, TypeOK, Frame
<1>u. OneBufferPerBlock'
  BY <1>1 DEF OneBufferPerBlock, TypeOK
<1> QED BY <1>t, <1>f, <1>l, <1>d, <1>w, <1>b, <1>a, <1>i, <1>y, <1>g, <1>u

(* What is found and free. *)
LEMMA HitFacts ==
  ASSUME BioInv, Looking, NEW p \in Proc, GetblkHit(p), NEW b, b = frame[p].wb
  PROVE  /\ b \in Buf /\ "BUSY" \notin flags[b] /\ blk[b] = Sought(p)
         /\ pc[p] = "found" /\ frame[p] \in Frame /\ chan[p] = Awake
         /\ \E i \in DOMAIN freelist : freelist[i] = b /\ Unlink(i)
         /\ flags' = [flags EXCEPT ![b] = @ \cup {"BUSY"}]
         /\ pc' = [pc EXCEPT ![p] = "got"] /\ cpu' = p
         /\ UNCHANGED <<blk, data, wantFree, ioq, disk, chan, frame>>
BY DEF GetblkHit, At, Runs, Goto, Looking, BioInv, TypeOK, FramesOK, FrameOK

LEMMA GetblkHitInv ==
  ASSUME BioInv, Looking, NEW p \in Proc, GetblkHit(p) PROVE BioInv'
<1> USE BioAssumption DEF BioInv, OwnersOK
<1>1. PICK b \in Buf :
         /\ b = frame[p].wb /\ "BUSY" \notin flags[b] /\ blk[b] = Sought(p)
         /\ pc[p] = "found" /\ frame[p] \in Frame
         /\ \E i \in DOMAIN freelist : freelist[i] = b /\ Unlink(i)
         /\ flags' = [flags EXCEPT ![b] = @ \cup {"BUSY"}]
         /\ pc' = [pc EXCEPT ![p] = "got"] /\ cpu' = p
         /\ UNCHANGED <<blk, data, wantFree, ioq, disk, chan, frame>>
  BY HitFacts
<1>2. PICK i \in DOMAIN freelist : freelist[i] = b /\ Unlink(i)
  BY <1>1
<1>3. freelist' \in Seq(Buf) /\ ListOK'
  <2>1. flags[b] \cup {"BUSY"} \in SUBSET Flag
    BY <1>1 DEF TypeOK, Flag
  <2> QED BY <1>1, <1>2, <2>1, TakeList
<1>5. b \notin ioq /\ "ASYNC" \notin flags[b]
  BY <1>1 DEF DriverOK, AsyncInDriver
<1>o. \A q \in Proc, c \in Buf : Owns(q, c)' => Owns(q, c) \/ (q = p /\ c = b)
  BY <1>1 DEF Owns, TypeOK
<1>t. TypeOK'
  BY <1>1, <1>3 DEF TypeOK, Flag, Pc
<1>f. FramesOK'
  BY <1>1 DEF FramesOK, FrameOK, TypeOK, Frame
<1>l. ListOK'
  BY <1>3
<1>d. DriverOK'
  BY <1>1, <1>5 DEF DriverOK, TypeOK
<1>w. DelayedOK'
  BY <1>1 DEF DelayedOK, TypeOK
<1>b. OwnersBusy'
  BY <1>1, <1>5, <1>o DEF OwnersBusy, TypeOK
<1>a. OwnersAlone'
  BY <1>1, <1>o DEF OwnersAlone, OwnersBusy, TypeOK
<1>i. OwnersIdle'
  <2>1. frame[p].bp # b
    BY <1>1 DEF Owns, OwnersBusy
  <2> QED BY <1>1, <1>5, <2>1 DEF OwnersIdle, TypeOK
<1>y. AsyncInDriver'
  BY <1>1 DEF AsyncInDriver, TypeOK
<1>g. FoundOK'
  BY <1>1 DEF FoundOK, Sought, TypeOK
<1>u. OneBufferPerBlock'
  BY <1>1 DEF OneBufferPerBlock, TypeOK
<1> QED BY <1>t, <1>f, <1>l, <1>d, <1>w, <1>b, <1>a, <1>i, <1>y, <1>g, <1>u

LEMMA NoFreeBufferInv ==
  ASSUME BioInv, NEW p \in Proc, NoFreeBuffer(p) PROVE BioInv'
<1> USE BioAssumption
<1>2. UNCHANGED <<flags, blk, data, freelist, ioq, disk>>
  BY DEF NoFreeBuffer
<1>3. TypeOK'
  BY DEF BioInv, TypeOK, Frame, Op, Pc, NoFreeBuffer, SleepOn
<1>4. FramesOK'
  BY DEF BioInv, FramesOK, FrameOK, TypeOK, Frame, NoFreeBuffer, SleepOn
<1>5. OwnersIdle'
  BY DEF BioInv, OwnersOK, OwnersIdle, TypeOK, Frame, NoFreeBuffer, SleepOn
<1>6. FoundOK'
  BY DEF BioInv, FoundOK, Sought, TypeOK, Frame, NoFreeBuffer, SleepOn
<1>7. \A q \in Proc, c \in Buf : Owns(q, c)' => Owns(q, c)
  BY DEF BioInv, Owns, TypeOK, Frame, NoFreeBuffer, SleepOn
<1> QED BY <1>2, <1>3, <1>4, <1>5, <1>6, <1>7, QuietInv

LEMMA StartDelayedInv ==
  ASSUME BioInv, NEW p \in Proc, NEW i \in DOMAIN freelist, "DELWRI" \in flags[freelist[i]],
         pc[p] \in {"getblk", "geteblk", "bflush"}, StartDelayed(p, i) PROVE BioInv'
<1> USE BioAssumption DEF BioInv, OwnersOK
<1>1. freelist[i] \in Buf /\ frame[p] \in Frame
  BY DEF ListOK, Range, TypeOK
<1>2. WriteFlags(flags[freelist[i]] \cup {"BUSY", "ASYNC"}) \in SUBSET Flag
      /\ "BUSY" \in WriteFlags(flags[freelist[i]] \cup {"BUSY", "ASYNC"})
  BY <1>1 DEF WriteFlags, TypeOK, Flag
<1>3. "BUSY" \notin flags[freelist[i]] /\ freelist' \in Seq(Buf) /\ ListOK'
  BY <1>2, TakeList DEF StartDelayed, StartWrite
<1>o. \A q \in Proc, c \in Buf : Owns(q, c)' => Owns(q, c)
  BY <1>1, <1>2, <1>3 DEF Owns, OwnersBusy, TypeOK, Frame, StartDelayed, StartWrite, WriteFlags, Goto
<1>t. TypeOK'
  <2>1. frame' \in [Proc -> Frame]
    BY <1>1 DEF StartDelayed, TypeOK, Frame
  <2>2. flags' \in [Buf -> SUBSET Flag] /\ ioq' \in SUBSET Buf
    BY <1>1, <1>2 DEF StartDelayed, StartWrite, TypeOK
  <2>3. pc' \in [Proc -> Pc] /\ cpu' \in Proc
    BY DEF StartDelayed, Goto, TypeOK, Pc
  <2> QED BY <1>3, <2>1, <2>2, <2>3 DEF StartDelayed, TypeOK
<1>f. FramesOK'
  BY <1>1, <1>2, <1>3, <1>o DEF FramesOK, FrameOK, TypeOK, Frame, StartDelayed, StartWrite, WriteFlags, Goto
<1>l. ListOK'
  BY <1>3
<1>d. DriverOK'
  BY <1>1, <1>2, <1>3, <1>o DEF DriverOK, DelayedOK, TypeOK, StartDelayed, StartWrite, WriteFlags, Goto
<1>w. DelayedOK'
  BY <1>1, <1>2, <1>3, <1>o DEF DelayedOK, DriverOK, TypeOK, StartDelayed, StartWrite, WriteFlags, Goto
<1>b. OwnersBusy'
  BY <1>1, <1>2, <1>3, <1>o DEF OwnersBusy, TypeOK, StartDelayed, StartWrite, WriteFlags, Goto
<1>a. OwnersAlone'
  BY <1>1, <1>2, <1>3, <1>o DEF OwnersAlone, OwnersBusy, TypeOK, StartDelayed, StartWrite, WriteFlags, Goto
<1>i. OwnersIdle'
  BY <1>1, <1>2, <1>3, <1>o DEF OwnersIdle, OwnersBusy, Owns, DriverOK, TypeOK, Frame, StartDelayed, StartWrite, WriteFlags, Goto
<1>y. AsyncInDriver'
  BY <1>1, <1>2, <1>3, <1>o DEF AsyncInDriver, TypeOK, StartDelayed, StartWrite, WriteFlags, Goto
<1>g. FoundOK'
  BY <1>1, <1>2, <1>3, <1>o DEF FoundOK, Sought, TypeOK, Frame, OwnersOK, Owns, StartDelayed, StartWrite, WriteFlags, Goto
<1>u. OneBufferPerBlock'
  BY <1>1, <1>2, <1>3, <1>o DEF OneBufferPerBlock, TypeOK, StartDelayed, StartWrite, WriteFlags, Goto
<1> QED BY <1>t, <1>f, <1>l, <1>d, <1>w, <1>b, <1>a, <1>i, <1>y, <1>g, <1>u

LEMMA ReassignInv ==
  ASSUME BioInv, NEW p \in Proc, NEW k \in Block \cup {NoBlk}, NEW F \in SUBSET Flag, F \in {{"BUSY"}, {"BUSY", "AGE"}},
         \/ pc[p] = "getblk" /\ k = Sought(p) /\ k \in Block /\ Match(k) = {}
         \/ pc[p] = "geteblk" /\ k = NoBlk,
         Reassign(p, k, F) PROVE BioInv'
<1> USE BioAssumption DEF BioInv, OwnersOK
<1>1. 1 \in DOMAIN freelist /\ Head(freelist) = freelist[1]
  BY LenProperties, EmptySeq DEF Reassign, TypeOK
<1>2. /\ freelist[1] \in Buf /\ "BUSY" \notin flags[freelist[1]]
      /\ freelist' \in Seq(Buf) /\ ListOK'
  BY <1>1, TakeList DEF Reassign
<1>3. frame[p] \in Frame /\ (pc[p] = "geteblk" => frame[p].op = "geteblk")
  BY DEF TypeOK, FramesOK, FrameOK
<1>o. \A q \in Proc, c \in Buf : Owns(q, c)' => Owns(q, c) \/ (q = p /\ c = freelist[1])
  BY <1>1, <1>2, <1>3 DEF Owns, OwnersBusy, TypeOK, Frame, Reassign, Goto, Match
<1>t. TypeOK'
  BY <1>1, <1>2, <1>3, <1>o DEF TypeOK, Frame, Flag, Pc, Op, Reassign, Goto, Match
<1>f. FramesOK'
  BY <1>1, <1>2, <1>3, <1>o DEF FramesOK, FrameOK, TypeOK, Frame, Reassign, Goto, Match
<1>l. ListOK'
  BY <1>2
<1>d. DriverOK'
  BY <1>1, <1>2, <1>3, <1>o DEF DriverOK, DelayedOK, TypeOK, Reassign, Goto, Match
<1>w. DelayedOK'
  BY <1>1, <1>2, <1>3, <1>o DEF DelayedOK, DriverOK, TypeOK, Reassign, Goto, Match
<1>b. OwnersBusy'
  BY <1>1, <1>2, <1>3, <1>o DEF OwnersBusy, TypeOK, Reassign, Goto, Match
<1>a. OwnersAlone'
  BY <1>1, <1>2, <1>3, <1>o DEF OwnersAlone, OwnersBusy, TypeOK, Reassign, Goto, Match
<1>i. OwnersIdle'
  <2>1. frame[p].bp # freelist[1] /\ freelist[1] \notin ioq
    BY <1>2 DEF Owns, OwnersBusy, DriverOK
  <2>2. \A q \in Proc : /\ q = p => frame'[q].bp = frame[p].bp /\ frame'[q].wb = freelist[1] /\ pc'[q] = "got"
                        /\ q # p => frame'[q] = frame[q] /\ pc'[q] = pc[q]
    BY <1>1, <1>3 DEF Reassign, Goto, TypeOK, Frame
  <2>3. ioq' = ioq
    BY DEF Reassign
  <2> QED BY <2>1, <2>2, <2>3 DEF OwnersIdle
<1>y. AsyncInDriver'
  BY <1>1, <1>2, <1>3, <1>o DEF AsyncInDriver, TypeOK, Reassign, Goto, Match
<1>g. FoundOK'
  <2>1. ASSUME NEW q \in Proc, pc'[q] = "got", frame'[q].op # "geteblk"
        PROVE  blk'[frame'[q].wb] = Sought(q)'
    <3>1. CASE q = p
      <4>1. frame'[p] = [frame[p] EXCEPT !.wb = freelist[1]] /\ blk'[freelist[1]] = k
        BY <1>1, <1>2 DEF Reassign, TypeOK
      <4>2. frame'[p].op = frame[p].op /\ frame'[p].wb = freelist[1] /\ Sought(p)' = Sought(p)
        BY <1>3, <4>1 DEF Sought, Frame
      <4> QED BY <1>3, <2>1, <3>1, <4>1, <4>2
    <3>2. CASE q # p
      <4>1. frame'[q] = frame[q] /\ pc'[q] = pc[q]
        BY <3>2 DEF Reassign, Goto, TypeOK
      <4>2. Sought(q)' = Sought(q) /\ blk[frame[q].wb] = Sought(q)
        BY <2>1, <4>1 DEF FoundOK, Sought
      <4>3. frame[q].wb \in Buf /\ Owns(q, frame[q].wb)
        BY <2>1, <4>1 DEF FramesOK, FrameOK, Owns
      <4>4. frame[q].wb # freelist[1]
        BY <1>2, <4>3 DEF OwnersBusy
      <4>5. blk'[frame[q].wb] = blk[frame[q].wb]
        BY <1>1, <4>3, <4>4 DEF Reassign, TypeOK
      <4> QED BY <4>1, <4>2, <4>5
    <3> QED BY <3>1, <3>2
  <2> QED BY <2>1 DEF FoundOK
<1>u. OneBufferPerBlock'
  BY <1>1, <1>2, <1>3, <1>o DEF OneBufferPerBlock, TypeOK, Reassign, Goto, Match
<1> QED BY <1>t, <1>f, <1>l, <1>d, <1>w, <1>b, <1>a, <1>i, <1>y, <1>g, <1>u

LEMMA BwriteTailInv ==
  ASSUME BioInv, NEW p \in Proc, BwriteTail(p) PROVE BioInv'
<1> USE BioAssumption DEF BioInv, OwnersOK
<1>1. pc[p] = "bwrite" /\ frame[p] \in Frame /\ FrameOK(frame[p], pc[p])
  BY DEF BwriteTail, At, TypeOK, FramesOK
<1>2. /\ flags' \in [Buf -> SUBSET Flag]
      /\ \A c \in Buf : flags'[c] \in {flags[c], flags[c] \cup {"AGE"}}
  BY <1>1 DEF TypeOK, BwriteTail, Flag
<1>3. \E f \in Frame, l \in Pc :
        /\ frame' = [frame EXCEPT ![p] = f] /\ pc' = [pc EXCEPT ![p] = l]
        /\ FrameOK(f, l) /\ l \notin {"got", "hold", "bwrite"} /\ cpu' \in Proc \cup {Nobody}
        /\ l = "user" \/ (f.bp = frame[p].bp /\ frame[p].op # "write")
  <2>1. CASE frame[p].op = "write"
    BY <1>1, <2>1 DEF BwriteTail, Leave, Idle, Frame, FrameOK, Op, Pc
  <2>2. CASE frame[p].op # "write"
    <3> DEFINE f == [frame[p] EXCEPT !.wb = NoBuf, !.aging = FALSE]
               l == CASE f.op = "geteblk" -> "geteblk" [] f.op \in {"sync", "close"} -> "bflush" [] OTHER -> "getblk"
    <3>1. frame' = [frame EXCEPT ![p] = f] /\ pc' = [pc EXCEPT ![p] = l] /\ cpu' = p
      BY <1>1, <2>2 DEF BwriteTail, Goto, Frame, TypeOK
    <3>2. f \in Frame /\ l \in Pc /\ FrameOK(f, l)
      <4>1. /\ f \in Frame /\ f.op = frame[p].op /\ f.tgt = frame[p].tgt
            /\ f.rablk = frame[p].rablk /\ f.bp = frame[p].bp
        BY <1>1 DEF Frame
      <4>2. f.op \in {"bread", "breada", "readahead", "getblk", "geteblk", "sync", "close"}
        BY <1>1, <2>2, <4>1 DEF Frame, Op, FrameOK
      <4>3. FrameOK(frame[p], "bwrite") /\ (f.op \in {"geteblk", "sync", "close"} => f.bp = NoBuf)
        BY <1>1, <2>2, <4>1 DEF FrameOK
      <4>4. CASE f.op = "geteblk"
        BY <4>1, <4>3, <4>4 DEF FrameOK, Pc
      <4>5. CASE f.op \in {"sync", "close"}
        BY <4>1, <4>3, <4>5 DEF FrameOK, Pc
      <4>6. CASE f.op \in {"bread", "breada", "readahead", "getblk"}
        BY <4>1, <4>3, <4>6 DEF FrameOK, Pc
      <4> QED BY <4>2, <4>4, <4>5, <4>6
    <3> QED BY <1>1, <2>2, <3>1, <3>2 DEF Frame
  <2> QED BY <2>1, <2>2
<1>o. \A q \in Proc, c \in Buf : Owns(q, c)' => Owns(q, c)
  BY <1>1, <1>2, <1>3 DEF Owns, OwnersBusy, TypeOK, Frame, BwriteTail, Leave, Idle, Goto
<1>t. TypeOK'
  BY <1>1, <1>2, <1>3, <1>o DEF TypeOK, Frame, Flag, Pc, Op, BwriteTail, Leave, Idle, Goto
<1>f. FramesOK'
  BY <1>1, <1>2, <1>3, <1>o DEF FramesOK, FrameOK, TypeOK, Frame, BwriteTail, Leave, Idle, Goto
<1>l. ListOK'
  BY <1>1, <1>2, <1>3, <1>o, KeepList DEF TypeOK, BwriteTail
<1>d. DriverOK'
  BY <1>1, <1>2, <1>3, <1>o DEF DriverOK, DelayedOK, TypeOK, BwriteTail
<1>w. DelayedOK'
  BY <1>1, <1>2, <1>3, <1>o DEF DelayedOK, DriverOK, TypeOK, BwriteTail
<1>b. OwnersBusy'
  BY <1>1, <1>2, <1>3, <1>o DEF OwnersBusy, TypeOK, BwriteTail
<1>a. OwnersAlone'
  BY <1>1, <1>2, <1>3, <1>o DEF OwnersAlone, OwnersBusy, TypeOK, BwriteTail
<1>i. OwnersIdle'
  BY <1>1, <1>2, <1>3, <1>o DEF OwnersIdle, OwnersBusy, Owns, DriverOK, TypeOK, Frame, BwriteTail
<1>y. AsyncInDriver'
  BY <1>1, <1>2, <1>3, <1>o DEF AsyncInDriver, TypeOK, BwriteTail
<1>g. FoundOK'
  BY <1>1, <1>2, <1>3, <1>o DEF FoundOK, Sought, TypeOK, Frame, OwnersOK, Owns, BwriteTail
<1>u. OneBufferPerBlock'
  BY <1>1, <1>2, <1>3, <1>o DEF OneBufferPerBlock, TypeOK, BwriteTail
<1> QED BY <1>t, <1>f, <1>l, <1>d, <1>w, <1>b, <1>a, <1>i, <1>y, <1>g, <1>u

LEMMA GetblkReturnInv ==
  ASSUME BioInv, NEW p \in Proc, GetblkReturn(p) PROVE BioInv'
<1> USE BioAssumption
<1>1. frame[p] \in Frame /\ frame[p].wb \in Buf /\ pc[p] = "got"
  BY DEF BioInv, TypeOK, FramesOK, FrameOK, At, GetblkReturn
<1>2. UNCHANGED <<flags, blk, data, freelist, ioq, disk>>
  BY DEF GetblkReturn, bufVars
<1>3. TypeOK'
  BY <1>1 DEF BioInv, TypeOK, Frame, Op, Pc, GetblkReturn, TakeBuffer, HandOver, bufVars
<1>4. FramesOK'
  BY <1>1 DEF BioInv, FramesOK, FrameOK, TypeOK, Frame, GetblkReturn, TakeBuffer, HandOver, bufVars
<1>5. OwnersIdle'
  BY <1>1 DEF BioInv, OwnersOK, OwnersIdle, TypeOK, Frame, GetblkReturn, TakeBuffer, HandOver, bufVars
<1>6. FoundOK'
  BY <1>1 DEF BioInv, FoundOK, Sought, TypeOK, Frame, GetblkReturn, TakeBuffer, HandOver, bufVars
<1>7. \A q \in Proc, c \in Buf : Owns(q, c)' => Owns(q, c)
  BY <1>1 DEF BioInv, Owns, TypeOK, Frame, GetblkReturn, TakeBuffer, HandOver, bufVars
<1> QED BY <1>2, <1>3, <1>4, <1>5, <1>6, <1>7, QuietInv

LEMMA BreadGotInv ==
  ASSUME BioInv, NEW p \in Proc, BreadGot(p) PROVE BioInv'
<1> USE BioAssumption DEF BioInv, OwnersOK
<1>1. frame[p] \in Frame /\ frame[p].wb \in Buf /\ pc[p] = "got" /\ frame[p].op \in {"bread", "breada"}
  BY DEF TypeOK, FramesOK, FrameOK, At, BreadGot
<1>2. Owns(p, frame[p].wb)
  BY <1>1 DEF Owns
<1>3. "BUSY" \in flags[frame[p].wb] /\ frame[p].wb \notin ioq
  <2>1. "BUSY" \in flags[frame[p].wb]
    BY <1>1, <1>2 DEF OwnersBusy
  <2>2. frame[p].wb \notin ioq
    BY <1>1 DEF OwnersIdle
  <2> QED BY <2>1, <2>2
<1>4. blk[frame[p].wb] \in Block
  BY <1>1 DEF FoundOK, Sought, FramesOK, FrameOK
<1>5. /\ flags' \in [Buf -> SUBSET Flag]
      /\ \A c \in Buf : flags'[c] \in {flags[c], flags[c] \cup {"READ"}}
      /\ \A c \in Buf \ {frame[p].wb} : flags'[c] = flags[c]
      /\ \/ ioq' = ioq
         \/ /\ ioq' = ioq \cup {frame[p].wb}
            /\ "DONE" \notin flags[frame[p].wb] /\ "READ" \in flags'[frame[p].wb]
            /\ pc' = [pc EXCEPT ![p] = IF frame[p].op = "breada" THEN "breada" ELSE "iowait"]
  <2>1. CASE "DONE" \in flags[frame[p].wb]
    BY <2>1 DEF BreadGot, TypeOK
  <2>2. CASE "DONE" \notin flags[frame[p].wb]
    <3>1. flags' = [flags EXCEPT ![frame[p].wb] = @ \cup {"READ"}] /\ ioq' = ioq \cup {frame[p].wb}
      BY <2>2 DEF BreadGot, StartRead
    <3>2. pc' = [pc EXCEPT ![p] = IF frame[p].op = "breada" THEN "breada" ELSE "iowait"]
      BY <1>1, <2>2 DEF BreadGot, Goto
    <3> QED BY <1>1, <2>2, <3>1, <3>2 DEF TypeOK, Flag
  <2> QED BY <2>1, <2>2
<1>o. \A q \in Proc, c \in Buf : Owns(q, c)' => Owns(q, c)
  BY <1>1, <1>2, <1>3, <1>4, <1>5 DEF Owns, OwnersBusy, TypeOK, Frame, BreadGot, TakeBuffer, Goto, HandOver
<1>t. TypeOK'
  BY <1>1, <1>2, <1>3, <1>4, <1>5, <1>o DEF TypeOK, Frame, Flag, Pc, Op, BreadGot, TakeBuffer, Goto, HandOver
<1>f. FramesOK'
  BY <1>1, <1>2, <1>3, <1>4, <1>5, <1>o DEF FramesOK, FrameOK, TypeOK, Frame, BreadGot, TakeBuffer, Goto, HandOver
<1>l. ListOK'
  BY <1>1, <1>2, <1>3, <1>4, <1>5, <1>o, KeepList DEF TypeOK, BreadGot, TakeBuffer, Goto, HandOver
<1>d. DriverOK'
  <2>1. UNCHANGED <<blk, data>>
    BY DEF BreadGot
  <2>2. "DELWRI" \in flags[frame[p].wb] => "DONE" \in flags[frame[p].wb]
    BY <1>1 DEF DelayedOK
  <2>3. \A c \in Buf, x \in {"BUSY", "DONE", "DELWRI"} : x \in flags'[c] <=> x \in flags[c]
    BY <1>5
  <2>4. \A c \in Buf : "READ" \in flags[c] => "READ" \in flags'[c]
    BY <1>5
  <2>5. ASSUME NEW c \in ioq' PROVE \/ c \in ioq
                                     \/ /\ c = frame[p].wb
                                        /\ "DONE" \notin flags[c] /\ "READ" \in flags'[c]
    BY <1>5, <2>5
  <2> QED BY <1>1, <1>3, <1>4, <2>1, <2>2, <2>3, <2>4, <2>5 DEF DriverOK, TypeOK
<1>w. DelayedOK'
  BY <1>1, <1>2, <1>3, <1>4, <1>5, <1>o DEF DelayedOK, DriverOK, TypeOK, BreadGot, TakeBuffer, Goto, HandOver
<1>b. OwnersBusy'
  BY <1>1, <1>2, <1>3, <1>4, <1>5, <1>o DEF OwnersBusy, TypeOK, BreadGot, TakeBuffer, Goto, HandOver
<1>a. OwnersAlone'
  BY <1>1, <1>2, <1>3, <1>4, <1>5, <1>o DEF OwnersAlone, OwnersBusy, TypeOK, BreadGot, TakeBuffer, Goto, HandOver
<1>i. OwnersIdle'
  BY <1>1, <1>2, <1>3, <1>4, <1>5, <1>o DEF OwnersIdle, OwnersBusy, Owns, DriverOK, TypeOK, Frame, BreadGot, TakeBuffer, Goto, HandOver
<1>y. AsyncInDriver'
  BY <1>1, <1>2, <1>3, <1>4, <1>5, <1>o DEF AsyncInDriver, TypeOK, BreadGot, TakeBuffer, Goto, HandOver
<1>g. FoundOK'
  BY <1>1, <1>2, <1>3, <1>4, <1>5, <1>o DEF FoundOK, Sought, TypeOK, Frame, OwnersOK, Owns, BreadGot, TakeBuffer, Goto, HandOver
<1>u. OneBufferPerBlock'
  BY <1>1, <1>2, <1>3, <1>4, <1>5, <1>o DEF OneBufferPerBlock, TypeOK, BreadGot, TakeBuffer, Goto, HandOver
<1> QED BY <1>t, <1>f, <1>l, <1>d, <1>w, <1>b, <1>a, <1>i, <1>y, <1>g, <1>u

LEMMA ReadAheadSeekInv ==
  ASSUME BioInv, NEW p \in Proc, ReadAheadSeek(p) PROVE BioInv'
<1> USE BioAssumption
<1>1. frame[p] \in Frame /\ pc[p] = "breada"
  BY DEF BioInv, TypeOK, FramesOK, FrameOK, At, ReadAheadSeek
<1>2. UNCHANGED <<flags, blk, data, freelist, ioq, disk>>
  BY DEF ReadAheadSeek, bufVars
<1>3. TypeOK'
  BY <1>1 DEF BioInv, TypeOK, Frame, Op, Pc, ReadAheadSeek, WantsReadAhead, Goto, bufVars
<1>4. FramesOK'
  BY <1>1 DEF BioInv, FramesOK, FrameOK, TypeOK, Frame, ReadAheadSeek, WantsReadAhead, Goto, bufVars
<1>5. OwnersIdle'
  BY <1>1 DEF BioInv, OwnersOK, OwnersIdle, TypeOK, Frame, ReadAheadSeek, WantsReadAhead, Goto, bufVars
<1>6. FoundOK'
  BY <1>1 DEF BioInv, FoundOK, Sought, TypeOK, Frame, ReadAheadSeek, WantsReadAhead, Goto, bufVars
<1>7. \A q \in Proc, c \in Buf : Owns(q, c)' => Owns(q, c)
  BY <1>1 DEF BioInv, Owns, TypeOK, Frame, ReadAheadSeek, WantsReadAhead, Goto, bufVars
<1> QED BY <1>2, <1>3, <1>4, <1>5, <1>6, <1>7, QuietInv

LEMMA ReadAheadGotInv ==
  ASSUME BioInv, NEW p \in Proc, ReadAheadGot(p) PROVE BioInv'
<1> USE BioAssumption DEF BioInv, OwnersOK
<1> DEFINE w == frame[p].wb
<1>1. frame[p] \in Frame /\ w \in Buf /\ pc[p] = "got" /\ frame[p].op = "readahead"
  BY DEF TypeOK, FramesOK, FrameOK, At, ReadAheadGot
<1>2. "BUSY" \in flags[w] /\ w \notin ioq /\ blk[w] \in Block /\ Owns(p, w)
  <2>1. Owns(p, w)
    BY <1>1 DEF Owns
  <2>2. "BUSY" \in flags[w]
    BY <1>1, <2>1 DEF OwnersBusy
  <2>3. w \notin ioq
    BY <1>1 DEF OwnersIdle
  <2>4. blk[w] \in Block
    BY <1>1 DEF FoundOK, Sought, FramesOK, FrameOK
  <2> QED BY <2>1, <2>2, <2>3, <2>4
<1>3. /\ flags' \in [Buf -> SUBSET Flag] /\ freelist' \in Seq(Buf)
      /\ wantFree' \in BOOLEAN /\ chan' \in [Proc -> Buf \cup {FreeList, Awake}]
      /\ ListOK'
      /\ \A c \in Buf \ {w} : flags'[c] = flags[c]
      /\ "DELWRI" \in flags'[w] => "DELWRI" \in flags[w] /\ "DONE" \in flags'[w]
      /\ "STALE" \in flags[w] => "STALE" \in flags'[w]
      /\ \/ /\ ioq' = ioq /\ "ASYNC" \notin flags'[w]
         \/ /\ ioq' = ioq \cup {w} /\ "DONE" \notin flags[w]
            /\ flags'[w] = flags[w] \cup {"READ", "ASYNC"}
  <2>1. CASE "DONE" \in flags[w]
    <3>1. Brelse(w, flags[w]) /\ ioq' = ioq
      BY <1>1, <2>1 DEF ReadAheadGot
    <3>2. freelist' \in Seq(Buf) /\ flags' \in [Buf -> SUBSET Flag] /\ ListOK'
      BY <1>1, <1>2, <3>1, GiveList DEF TypeOK
    <3>3. /\ \A c \in Buf \ {w} : flags'[c] = flags[c]
          /\ flags'[w] \cap {"BUSY", "ASYNC", "ERROR"} = {}
          /\ \A x \in {"DELWRI", "READ", "DONE"} : x \in flags'[w] => x \in flags[w]
          /\ "DELWRI" \in flags'[w] /\ "DONE" \in flags[w] => "DONE" \in flags'[w]
          /\ "STALE" \in flags[w] => "STALE" \in flags'[w]
          /\ wantFree' \in BOOLEAN /\ chan' \in [Proc -> Buf \cup {FreeList, Awake}]
      BY <1>1, <3>1, BrelseFlags DEF TypeOK
    <3> QED BY <2>1, <3>1, <3>2, <3>3
  <2>2. CASE "DONE" \notin flags[w]
    <3>1. /\ flags' = [flags EXCEPT ![w] = @ \cup {"READ", "ASYNC"}] /\ ioq' = ioq \cup {w}
          /\ UNCHANGED <<freelist, wantFree, chan>>
      BY <2>2 DEF ReadAheadGot, StartRead
    <3>2. ListOK'
      BY <1>1, <3>1, KeepList DEF TypeOK
    <3>3. "DELWRI" \notin flags[w]
      BY <1>1, <2>2 DEF DelayedOK
    <3> QED BY <1>1, <2>2, <3>1, <3>2, <3>3 DEF TypeOK, Flag
  <2> QED BY <2>1, <2>2
<1>4. /\ frame' = [frame EXCEPT ![p].wb = NoBuf] /\ pc' = [pc EXCEPT ![p] = "breada"]
      /\ cpu' = p /\ UNCHANGED <<blk, data, disk>>
  BY DEF ReadAheadGot, Goto
<1>5. frame[p].bp # w /\ NoBuf # w
  BY <1>1 DEF OwnersIdle
<1>6. frame[p]' = [frame[p] EXCEPT !.wb = NoBuf] /\ pc[p]' = "breada"
  BY <1>1, <1>4 DEF TypeOK
<1> HIDE DEF w
<1>o. \A q \in Proc, c \in Buf : Owns(q, c)' => Owns(q, c) /\ c # w
  <2>1. ASSUME NEW q \in Proc, NEW c \in Buf, Owns(q, c)' PROVE Owns(q, c)
    BY <1>1, <1>4, <2>1 DEF Owns, TypeOK, Frame
  <2>2. ASSUME NEW c \in Buf, Owns(p, c)' PROVE c # w
    BY <1>1, <1>5, <1>6, <2>2 DEF Owns, Frame
  <2>3. ASSUME NEW q \in Proc, NEW c \in Buf, Owns(q, c)', c = w PROVE FALSE
    <3>1. q = p
      BY <1>1, <1>2, <2>1, <2>3 DEF OwnersAlone
    <3> QED BY <2>2, <2>3, <3>1
  <2> QED BY <2>1, <2>3
<1>t. TypeOK'
  BY <1>1, <1>3, <1>4 DEF TypeOK, Frame, Pc
<1>f. FramesOK'
  BY <1>1, <1>4 DEF FramesOK, FrameOK, TypeOK, Frame
<1>l. ListOK'
  BY <1>3
<1>d. DriverOK'
  <2>1. "DELWRI" \in flags[w] => "DONE" \in flags[w]
    BY <1>1 DEF DelayedOK
  <2>2. CASE ioq' = ioq
    BY <1>2, <1>3, <1>4, <2>2 DEF DriverOK, TypeOK
  <2>3. CASE /\ ioq' = ioq \cup {w} /\ "DONE" \notin flags[w]
             /\ flags'[w] = flags[w] \cup {"READ", "ASYNC"}
    BY <1>1, <1>2, <1>3, <1>4, <2>1, <2>3 DEF DriverOK, TypeOK
  <2> QED BY <1>3, <2>2, <2>3
<1>w. DelayedOK'
  BY <1>1, <1>3, <1>4 DEF DelayedOK, TypeOK
<1>b. OwnersBusy'
  BY <1>o, <1>3 DEF OwnersBusy
<1>a. OwnersAlone'
  BY <1>o DEF OwnersAlone
<1>i. OwnersIdle'
  BY ZenonT(60), <1>1, <1>3, <1>4 DEF w, OwnersIdle, OwnersAlone, Owns, TypeOK, Frame
<1>y. AsyncInDriver'
  BY <1>1, <1>3 DEF AsyncInDriver
<1>g. FoundOK'
  BY <1>1, <1>4 DEF FoundOK, Sought, TypeOK, Frame
<1>u. OneBufferPerBlock'
  BY <1>3, <1>4 DEF OneBufferPerBlock
<1> QED BY <1>t, <1>f, <1>l, <1>d, <1>w, <1>b, <1>a, <1>i, <1>y, <1>g, <1>u

LEMMA BreadaTailInv ==
  ASSUME BioInv, NEW p \in Proc, BreadaTail(p) PROVE BioInv'
<1> USE BioAssumption
<1>1. frame[p] \in Frame /\ pc[p] = "breada" /\ frame[p].op \in {"breada", "readahead"}
  BY DEF BioInv, TypeOK, FramesOK, FrameOK, At, BreadaTail
<1>2. UNCHANGED <<flags, blk, data, freelist, ioq, disk>>
  BY DEF BreadaTail, bufVars
<1>3. TypeOK'
  BY <1>1 DEF BioInv, TypeOK, Frame, Op, Pc, BreadaTail, Goto, bufVars
<1>4. FramesOK'
  BY <1>1 DEF BioInv, FramesOK, FrameOK, TypeOK, Frame, BreadaTail, Goto, bufVars
<1>5. OwnersIdle'
  BY <1>1 DEF BioInv, OwnersOK, OwnersIdle, TypeOK, Frame, BreadaTail, Goto, bufVars
<1>6. FoundOK'
  BY <1>1 DEF BioInv, FoundOK, Sought, TypeOK, Frame, BreadaTail, Goto, bufVars
<1>7. \A q \in Proc, c \in Buf : Owns(q, c)' => Owns(q, c)
  BY <1>1 DEF BioInv, Owns, TypeOK, Frame, BreadaTail, Goto, bufVars
<1> QED BY <1>2, <1>3, <1>4, <1>5, <1>6, <1>7, QuietInv

LEMMA IowaitSleepInv ==
  ASSUME BioInv, NEW p \in Proc, IowaitSleep(p) PROVE BioInv'
<1> USE BioAssumption
<1>1. frame[p].bp \in Buf
  BY DEF BioInv, TypeOK, FramesOK, FrameOK, At, IowaitSleep
<1>2. UNCHANGED <<flags, blk, data, freelist, ioq, disk>>
  BY DEF IowaitSleep, bufVars
<1>3. TypeOK'
  BY <1>1 DEF BioInv, TypeOK, Frame, Op, Pc, IowaitSleep, SleepOn, bufVars
<1>4. FramesOK'
  BY <1>1 DEF BioInv, FramesOK, FrameOK, TypeOK, Frame, IowaitSleep, SleepOn, bufVars
<1>5. OwnersIdle'
  BY <1>1 DEF BioInv, OwnersOK, OwnersIdle, TypeOK, Frame, IowaitSleep, SleepOn, bufVars
<1>6. FoundOK'
  BY <1>1 DEF BioInv, FoundOK, Sought, TypeOK, Frame, IowaitSleep, SleepOn, bufVars
<1>7. \A q \in Proc, c \in Buf : Owns(q, c)' => Owns(q, c)
  BY <1>1 DEF BioInv, Owns, TypeOK, Frame, IowaitSleep, SleepOn, bufVars
<1> QED BY <1>2, <1>3, <1>4, <1>5, <1>6, <1>7, QuietInv

LEMMA IowaitReadInv ==
  ASSUME BioInv, NEW p \in Proc, IowaitRead(p) PROVE BioInv'
<1> USE BioAssumption
<1>1. /\ frame[p] \in Frame /\ frame[p].bp \in Buf /\ pc[p] = "iowait" /\ frame[p].bp \notin ioq
      /\ ("ERROR" \in flags[frame[p].bp]) \in BOOLEAN
  BY DEF BioInv, TypeOK, FramesOK, FrameOK, At, IowaitRead, DriverOK
<1>2. UNCHANGED <<flags, blk, data, freelist, ioq, disk>>
  BY DEF IowaitRead, bufVars
<1>3. TypeOK'
  BY <1>1 DEF BioInv, TypeOK, Frame, Op, Pc, IowaitRead, HandOver, bufVars
<1>4. FramesOK'
  BY <1>1 DEF BioInv, FramesOK, FrameOK, TypeOK, Frame, IowaitRead, HandOver, bufVars
<1>5. OwnersIdle'
  BY <1>1 DEF BioInv, OwnersOK, OwnersIdle, TypeOK, Frame, IowaitRead, HandOver, bufVars
<1>6. FoundOK'
  BY <1>1 DEF BioInv, FoundOK, Sought, TypeOK, Frame, IowaitRead, HandOver, bufVars
<1>7. \A q \in Proc, c \in Buf : Owns(q, c)' => Owns(q, c)
  BY <1>1 DEF BioInv, Owns, TypeOK, Frame, IowaitRead, HandOver, bufVars
<1> QED BY <1>2, <1>3, <1>4, <1>5, <1>6, <1>7, QuietInv

(* brelse() by the process that owns the buffer, on its way out of bio.c. *)
LEMMA ReleaseInv ==
  ASSUME BioInv, NEW p \in Proc, pc[p] \in {"iowait", "hold"},
         NEW b \in Buf, b = frame[p].bp, b \notin ioq,
         NEW F \in SUBSET Flag, "STALE" \in flags[b] => "STALE" \in F,
         "DELWRI" \in F => "DONE" \in F /\ blk[b] \in Block /\ data'[b] \in Val,
         Brelse(b, F), Leave(p), UNCHANGED <<blk, ioq, disk>>,
         data' \in [Buf -> Val \cup {Garbage}], \A c \in Buf \ {b} : data'[c] = data[c]
  PROVE  BioInv'
<1> USE BioAssumption DEF BioInv, OwnersOK
<1>1. Owns(p, b)
  BY DEF Owns
<1>2. /\ freelist' \in Seq(Buf) /\ flags' \in [Buf -> SUBSET Flag] /\ ListOK'
  BY <1>1, GiveList DEF OwnersBusy
<1>3. /\ \A c \in Buf \ {b} : flags'[c] = flags[c]
      /\ flags'[b] \cap {"BUSY", "ASYNC", "ERROR"} = {}
      /\ \A x \in {"DELWRI", "READ", "DONE"} : x \in flags'[b] => x \in F
      /\ "DELWRI" \in flags'[b] /\ "DONE" \in F => "DONE" \in flags'[b]
      /\ "STALE" \in F => "STALE" \in flags'[b]
      /\ wantFree' \in BOOLEAN /\ chan' \in [Proc -> Buf \cup {FreeList, Awake}]
  BY BrelseFlags
<1>4. Idle \in Frame /\ Idle.bp = NoBuf /\ Idle.wb = NoBuf /\ FrameOK(Idle, "user")
  BY DEF Idle, Frame, FrameOK, Op
<1>5. \A q \in Proc : /\ q = p => frame'[q] = Idle /\ pc'[q] = "user"
                      /\ q # p => frame'[q] = frame[q] /\ pc'[q] = pc[q]
  BY DEF Leave, TypeOK
<1>6. \A q \in Proc, c \in Buf : Owns(q, c)' => q # p /\ Owns(q, c) /\ c # b
  <2>1. ASSUME NEW q \in Proc, NEW c \in Buf, Owns(q, c)' PROVE q # p /\ Owns(q, c)
    BY <1>4, <1>5, <2>1 DEF Owns
  <2> QED BY <1>1, <2>1 DEF OwnersAlone
<1>t. TypeOK'
  BY <1>2, <1>3, <1>4 DEF TypeOK, Leave, Pc
<1>f. FramesOK'
  BY <1>4, <1>5 DEF FramesOK
<1>d. DriverOK'
  BY <1>3 DEF DriverOK, TypeOK
<1>w. DelayedOK'
  BY <1>3 DEF DelayedOK
<1>b. OwnersBusy'
  BY <1>3, <1>6 DEF OwnersBusy
<1>a. OwnersAlone'
  BY <1>6 DEF OwnersAlone
<1>i. OwnersIdle'
  BY <1>5 DEF OwnersIdle
<1>y. AsyncInDriver'
  BY <1>3 DEF AsyncInDriver
<1>g. FoundOK'
  BY <1>5 DEF FoundOK, Sought
<1>u. OneBufferPerBlock'
  <2>1. \A c \in Buf : blk'[c] = blk[c] /\ ("STALE" \in flags[c] => "STALE" \in flags'[c])
    BY <1>3
  <2> QED BY <2>1 DEF OneBufferPerBlock
<1> QED BY <1>2, <1>t, <1>f, <1>d, <1>w, <1>b, <1>a, <1>i, <1>y, <1>g, <1>u

LEMMA IowaitWriteInv ==
  ASSUME BioInv, NEW p \in Proc, IowaitWrite(p) PROVE BioInv'
<1> DEFINE b == frame[p].bp
<1>1. b \in Buf /\ pc[p] = "iowait" /\ flags[b] \in SUBSET Flag
  BY DEF BioInv, TypeOK, FramesOK, FrameOK, At, IowaitWrite
<1>2. b \notin ioq
  BY DEF BioInv, DriverOK, IowaitWrite
<1>3. "DELWRI" \in flags[b] => "DONE" \in flags[b] /\ blk[b] \in Block /\ data[b] \in Val
  BY <1>1 DEF BioInv, DelayedOK
<1>4. Brelse(b, flags[b]) /\ Leave(p) /\ UNCHANGED <<blk, data, ioq, disk>>
  BY DEF IowaitWrite
<1>5. data \in [Buf -> Val \cup {Garbage}]
  BY DEF BioInv, TypeOK
<1> QED BY <1>1, <1>2, <1>3, <1>4, <1>5, ReleaseInv

LEMMA ReleaseHeldInv ==
  ASSUME BioInv, NEW p \in Proc, ReleaseHeld(p) PROVE BioInv'
<1> DEFINE b == frame[p].bp
<1>1. b \in Buf /\ pc[p] = "hold" /\ flags[b] \in SUBSET Flag
  BY DEF BioInv, TypeOK, FramesOK, FrameOK, At, ReleaseHeld
<1>2. b \notin ioq
  BY <1>1 DEF BioInv, OwnersOK, OwnersIdle
<1>3. "DELWRI" \in flags[b] => "DONE" \in flags[b] /\ blk[b] \in Block /\ data[b] \in Val
  BY <1>1 DEF BioInv, DelayedOK
<1>4. Brelse(b, flags[b]) /\ Leave(p) /\ UNCHANGED <<blk, data, ioq, disk>>
  BY DEF ReleaseHeld
<1>5. data \in [Buf -> Val \cup {Garbage}]
  BY DEF BioInv, TypeOK
<1> QED BY <1>1, <1>2, <1>3, <1>4, <1>5, ReleaseInv

LEMMA BdwriteInv ==
  ASSUME BioInv, NEW p \in Proc, Bdwrite(p) PROVE BioInv'
<1> USE BioAssumption
<1> DEFINE b == frame[p].bp
           F == flags[b] \cup {"DELWRI", "DONE"}
<1>1. b \in Buf /\ pc[p] = "hold" /\ blk[b] \in Block /\ F \in SUBSET Flag
  BY DEF BioInv, TypeOK, FramesOK, FrameOK, At, Bdwrite, Writable, Flag
<1>2. b \notin ioq
  BY <1>1 DEF BioInv, OwnersOK, OwnersIdle
<1>3. Brelse(b, F) /\ Leave(p) /\ UNCHANGED <<blk, ioq, disk>>
  BY DEF Bdwrite
<1>4. /\ data' \in [Buf -> Val \cup {Garbage}] /\ data'[b] \in Val
      /\ \A c \in Buf \ {b} : data'[c] = data[c]
  BY <1>1 DEF Bdwrite, BioInv, TypeOK
<1>5. "STALE" \in flags[b] => "STALE" \in F
  OBVIOUS
<1>6. "DONE" \in F
  OBVIOUS
<1> HIDE DEF F
<1> QED BY <1>1, <1>2, <1>3, <1>4, <1>5, <1>6, ReleaseInv

LEMMA WriteHeldInv ==
  ASSUME BioInv, NEW p \in Proc, NEW F \in SUBSET Flag,
         flags[frame[p].bp] \subseteq F, F \subseteq flags[frame[p].bp] \cup {"AGE", "ASYNC"},
         WriteHeld(p, F) PROVE BioInv'
<1> USE BioAssumption DEF BioInv, OwnersOK
<1>1. frame[p] \in Frame /\ frame[p].bp \in Buf /\ pc[p] = "hold" /\ blk[frame[p].bp] \in Block
  BY DEF TypeOK, FramesOK, FrameOK, At, WriteHeld, Writable
<1>2. "BUSY" \in flags[frame[p].bp] /\ frame[p].bp \notin ioq
  BY <1>1 DEF OwnersBusy, OwnersIdle, Owns
<1>3. \A q \in Proc : Owns(q, frame[p].bp) => q = p
  <2>1. Owns(p, frame[p].bp)
    BY <1>1 DEF Owns
  <2> QED BY <1>1, <2>1 DEF OwnersAlone
<1>4. WriteFlags(F) \in SUBSET Flag /\ (("DELWRI" \in F) \in BOOLEAN)
  BY DEF WriteFlags
<1>o. \A q \in Proc, c \in Buf : Owns(q, c)' => Owns(q, c) /\ (c = frame[p].bp => q = p /\ "ASYNC" \notin F)
  BY <1>1, <1>2, <1>3, <1>4 DEF Owns, OwnersBusy, TypeOK, Frame, WriteHeld, StartWrite, WriteFlags, Goto
<1>t. TypeOK'
  <2>1. PICK g \in BOOLEAN : g = ("DELWRI" \in F)
    <3>1. ("DELWRI" \in F) \in BOOLEAN
      OBVIOUS
    <3> QED BY <3>1, Zenon
  <2>2. [frame[p] EXCEPT !.op = "write", !.wb = frame[p].bp, !.aging = g] \in Frame
    BY <1>1 DEF Frame, Op
  <2>3. frame' \in [Proc -> Frame]
    BY <2>1, <2>2 DEF WriteHeld, TypeOK
  <2>4. /\ flags' \in [Buf -> SUBSET Flag] /\ ioq' \in SUBSET Buf
        /\ data' \in [Buf -> Val \cup {Garbage}]
    BY <1>1, <1>4 DEF WriteHeld, StartWrite, TypeOK
  <2>5. pc' \in [Proc -> Pc] /\ cpu' \in Proc
    BY DEF WriteHeld, Goto, TypeOK, Pc
  <2> QED BY <2>3, <2>4, <2>5 DEF WriteHeld, TypeOK
<1>f. FramesOK'
  BY <1>1, <1>2, <1>3, <1>4, <1>o DEF FramesOK, FrameOK, TypeOK, Frame, WriteHeld, StartWrite, WriteFlags, Goto
<1>l. ListOK'
  BY <1>1, <1>2, <1>3, <1>4, <1>o, KeepList DEF TypeOK, WriteHeld, StartWrite, WriteFlags, Goto
<1>d. DriverOK'
  BY <1>1, <1>2, <1>3, <1>4, <1>o DEF DriverOK, DelayedOK, TypeOK, WriteHeld, StartWrite, WriteFlags, Goto
<1>w. DelayedOK'
  BY <1>1, <1>2, <1>3, <1>4, <1>o DEF DelayedOK, DriverOK, TypeOK, WriteHeld, StartWrite, WriteFlags, Goto
<1>b. OwnersBusy'
  BY <1>1, <1>2, <1>3, <1>4, <1>o DEF OwnersBusy, TypeOK, WriteHeld, StartWrite, WriteFlags, Goto
<1>a. OwnersAlone'
  BY <1>1, <1>2, <1>3, <1>4, <1>o DEF OwnersAlone, OwnersBusy, TypeOK, WriteHeld, StartWrite, WriteFlags, Goto
<1>i. OwnersIdle'
  BY <1>1, <1>2, <1>3, <1>4, <1>o DEF OwnersIdle, OwnersBusy, Owns, DriverOK, TypeOK, Frame, WriteHeld, StartWrite, WriteFlags, Goto
<1>y. AsyncInDriver'
  BY <1>1, <1>2, <1>3, <1>4, <1>o DEF AsyncInDriver, TypeOK, WriteHeld, StartWrite, WriteFlags, Goto
<1>g. FoundOK'
  BY <1>1, <1>2, <1>3, <1>4, <1>o DEF FoundOK, Sought, TypeOK, Frame, OwnersOK, Owns, WriteHeld, StartWrite, WriteFlags, Goto
<1>u. OneBufferPerBlock'
  BY <1>1, <1>2, <1>3, <1>4, <1>o DEF OneBufferPerBlock, TypeOK, WriteHeld, StartWrite, WriteFlags, Goto
<1> QED BY <1>t, <1>f, <1>l, <1>d, <1>w, <1>b, <1>a, <1>i, <1>y, <1>g, <1>u

LEMMA BflushReturnInv ==
  ASSUME BioInv, NEW p \in Proc, BflushReturn(p) PROVE BioInv'
<1> USE BioAssumption DEF BioInv, OwnersOK
<1>1. /\ flags' \in [Buf -> SUBSET Flag]
      /\ \A c \in Buf : flags'[c] \in {flags[c], flags[c] \cup {"STALE", "AGE"}}
  BY DEF TypeOK, BflushReturn, Binval, Flag
<1>2. Leave(p) /\ UNCHANGED <<blk, data, freelist, wantFree, ioq, disk, chan>>
  BY DEF BflushReturn
<1>3. \A c \in Buf, x \in {"BUSY", "ASYNC", "DONE", "DELWRI", "READ"} :
        x \in flags'[c] <=> x \in flags[c]
  BY <1>1
<1>o. \A q \in Proc, c \in Buf : Owns(q, c)' => q # p /\ Owns(q, c)
  BY <1>1, <1>2 DEF Owns, OwnersBusy, TypeOK, Frame, Leave, Idle
<1>t. TypeOK'
  BY <1>1, <1>2, <1>o DEF TypeOK, Frame, Flag, Pc, Op, Leave, Idle
<1>f. FramesOK'
  BY <1>1, <1>2, <1>o DEF FramesOK, FrameOK, TypeOK, Frame, Leave, Idle
<1>l. ListOK'
  BY <1>1, <1>2, <1>o, KeepList DEF TypeOK, Leave, Idle
<1>d. DriverOK'
  <2>1. ASSUME NEW c \in ioq' PROVE c \in ioq /\ c \in Buf /\ blk'[c] = blk[c] /\ data'[c] = data[c]
    BY <1>2, <2>1 DEF TypeOK
  <2> QED BY <1>3, <2>1 DEF DriverOK
<1>w. DelayedOK'
  BY <1>1, <1>2, <1>o DEF DelayedOK, DriverOK, TypeOK, Leave, Idle
<1>b. OwnersBusy'
  BY <1>3, <1>o DEF OwnersBusy
<1>a. OwnersAlone'
  BY <1>1, <1>2, <1>o DEF OwnersAlone, OwnersBusy, TypeOK, Leave, Idle
<1>i. OwnersIdle'
  BY <1>1, <1>2, <1>o DEF OwnersIdle, OwnersBusy, Owns, DriverOK, TypeOK, Frame, Leave, Idle
<1>y. AsyncInDriver'
  BY <1>1, <1>2, <1>o DEF AsyncInDriver, TypeOK, Leave, Idle
<1>g. FoundOK'
  BY <1>1, <1>2, <1>o DEF FoundOK, Sought, TypeOK, Frame, OwnersOK, Owns, Leave, Idle
<1>u. OneBufferPerBlock'
  BY <1>1, <1>2, <1>o DEF OneBufferPerBlock, TypeOK, Leave, Idle
<1> QED BY <1>t, <1>f, <1>l, <1>d, <1>w, <1>b, <1>a, <1>i, <1>y, <1>g, <1>u

(* iodone(): the driver ends the transfer of b with flags F. *)
LEMMA IodoneInv ==
  ASSUME BioInv, NEW b \in ioq, NEW F \in SUBSET Flag,
         flags[b] \subseteq F, F \subseteq flags[b] \cup {"DONE", "ERROR"},
         Iodone(b, F), ioq' = ioq \ {b}, UNCHANGED <<blk, cpu, pc, frame>>,
         data' \in [Buf -> Val \cup {Garbage}], \A c \in Buf \ {b} : data'[c] = data[c],
         disk' \in [Block -> Val]
  PROVE  BioInv'
<1> USE BioAssumption DEF BioInv, OwnersOK
<1>1. b \in Buf /\ blk[b] \in Block /\ "BUSY" \in flags[b] /\ "DELWRI" \notin F
  BY DEF DriverOK, TypeOK
<1>2. /\ flags' \in [Buf -> SUBSET Flag] /\ freelist' \in Seq(Buf)
      /\ wantFree' \in BOOLEAN /\ chan' \in [Proc -> Buf \cup {FreeList, Awake}]
      /\ ListOK'
      /\ \A c \in Buf \ {b} : flags'[c] = flags[c]
      /\ "DELWRI" \notin flags'[b] /\ "ASYNC" \notin flags'[b]
      /\ "STALE" \in flags[b] => "STALE" \in flags'[b]
      /\ "ASYNC" \notin flags[b] => "BUSY" \in flags'[b]
  <2>1. CASE "ASYNC" \in F
    <3>1. Brelse(b, F)
      BY <2>1 DEF Iodone
    <3>2. freelist' \in Seq(Buf) /\ flags' \in [Buf -> SUBSET Flag] /\ ListOK'
      BY <1>1, <3>1, GiveList
    <3>3. /\ \A c \in Buf \ {b} : flags'[c] = flags[c]
          /\ flags'[b] \cap {"BUSY", "ASYNC", "ERROR"} = {}
          /\ \A x \in {"DELWRI", "READ", "DONE"} : x \in flags'[b] => x \in F
          /\ "STALE" \in F => "STALE" \in flags'[b]
          /\ wantFree' \in BOOLEAN /\ chan' \in [Proc -> Buf \cup {FreeList, Awake}]
      BY <1>1, <3>1, BrelseFlags
    <3> QED BY <1>1, <2>1, <3>2, <3>3
  <2>2. CASE "ASYNC" \notin F
    <3>1. /\ flags' = [flags EXCEPT ![b] = F \ {"WANTED"}]
          /\ Wakeup({b}) /\ UNCHANGED <<freelist, wantFree>>
      BY <2>2 DEF Iodone
    <3>2. ListOK'
      BY <1>1, <3>1, KeepList DEF TypeOK
    <3>3. chan' \in [Proc -> Buf \cup {FreeList, Awake}]
      BY <3>1 DEF Wakeup, TypeOK
    <3> QED BY <1>1, <2>2, <3>1, <3>2, <3>3 DEF TypeOK
  <2> QED BY <2>1, <2>2
<1>3. \A q \in Proc, c \in Buf : /\ Owns(q, c)' <=> Owns(q, c)
                                 /\ Owns(q, c) /\ c = b => "ASYNC" \notin flags[b]
  BY DEF Owns, OwnersBusy
<1>t. TypeOK'
  BY <1>2 DEF TypeOK
<1>f. FramesOK'
  BY DEF FramesOK
<1>d. DriverOK'
  BY <1>2 DEF DriverOK, TypeOK
<1>w. DelayedOK'
  BY <1>2 DEF DelayedOK
<1>b. OwnersBusy'
  BY <1>2, <1>3 DEF OwnersBusy
<1>a. OwnersAlone'
  BY <1>3 DEF OwnersAlone
<1>i. OwnersIdle'
  BY DEF OwnersIdle
<1>y. AsyncInDriver'
  BY <1>2 DEF AsyncInDriver
<1>g. FoundOK'
  BY DEF FoundOK, Sought
<1>u. OneBufferPerBlock'
  <2>1. \A c \in Buf : blk'[c] = blk[c] /\ ("STALE" \in flags[c] => "STALE" \in flags'[c])
    BY <1>2
  <2> QED BY <2>1 DEF OneBufferPerBlock
<1> QED BY <1>2, <1>t, <1>f, <1>d, <1>w, <1>b, <1>a, <1>i, <1>y, <1>g, <1>u

LEMMA CompleteInv ==
  ASSUME BioInv, NEW b \in Buf, Complete(b) PROVE BioInv'
<1> USE BioAssumption
<1>1. b \in ioq /\ blk[b] \in Block /\ ("READ" \notin flags[b] => data[b] \in Val)
  BY DEF BioInv, DriverOK, Complete
<1>2. flags[b] \cup {"DONE"} \in SUBSET Flag
  BY DEF BioInv, TypeOK, Flag
<1>3. /\ data' \in [Buf -> Val \cup {Garbage}] /\ \A c \in Buf \ {b} : data'[c] = data[c]
      /\ disk' \in [Block -> Val]
  BY <1>1 DEF Complete, BioInv, TypeOK
<1>4. /\ ioq' = ioq \ {b} /\ Iodone(b, flags[b] \cup {"DONE"})
      /\ UNCHANGED <<blk, cpu, pc, frame>>
  BY DEF Complete
<1> DEFINE F == flags[b] \cup {"DONE"}
<1>5. flags[b] \subseteq F /\ F \subseteq flags[b] \cup {"DONE", "ERROR"}
  OBVIOUS
<1>6. F \in SUBSET Flag /\ Iodone(b, F)
  BY <1>2, <1>4
<1> HIDE DEF F
<1> QED BY <1>1, <1>3, <1>4, <1>5, <1>6, IodoneInv

LEMMA FailInv ==
  ASSUME BioInv, NEW b \in Buf, Fail(b) PROVE BioInv'
<1> USE BioAssumption
<1>1. b \in ioq
  BY DEF Fail
<1>2. flags[b] \cup {"ERROR", "DONE"} \in SUBSET Flag
  BY DEF BioInv, TypeOK, Flag
<1>3. /\ data' \in [Buf -> Val \cup {Garbage}] /\ \A c \in Buf \ {b} : data'[c] = data[c]
      /\ disk' \in [Block -> Val]
  BY DEF Fail, BioInv, TypeOK
<1>4. /\ ioq' = ioq \ {b} /\ Iodone(b, flags[b] \cup {"ERROR", "DONE"})
      /\ UNCHANGED <<blk, cpu, pc, frame>>
  BY DEF Fail
<1> DEFINE F == flags[b] \cup {"ERROR", "DONE"}
<1>5. flags[b] \subseteq F /\ F \subseteq flags[b] \cup {"DONE", "ERROR"}
  OBVIOUS
<1>6. F \in SUBSET Flag /\ Iodone(b, F)
  BY <1>2, <1>4
<1> HIDE DEF F
<1> QED BY <1>1, <1>3, <1>4, <1>5, <1>6, IodoneInv

LEMMA EnterInv ==
  ASSUME BioInv, NEW p \in Proc, Enter(p) PROVE BioInv'
<1> USE BioAssumption
<1>1. CASE CallBread(p)
  <2>1. PICK k \in Block : Call(p, [Idle EXCEPT !.op = "bread", !.tgt = k], "getblk")
    BY <1>1 DEF CallBread
  <2>2. /\ [Idle EXCEPT !.op = "bread", !.tgt = k] \in Frame
        /\ FrameOK([Idle EXCEPT !.op = "bread", !.tgt = k], "getblk")
        /\ [Idle EXCEPT !.op = "bread", !.tgt = k].bp = NoBuf
    BY DEF Idle, Frame, FrameOK, Op
  <2> QED BY <2>1, <2>2, CallInv DEF Pc
<1>2. CASE CallBreada(p)
  <2>1. PICK k \in Block, r \in Block, l \in {"breada", "getblk"} :
          Call(p, [Idle EXCEPT !.op = "breada", !.tgt = k, !.rablk = r], l)
    BY <1>2 DEF CallBreada
  <2>2. /\ [Idle EXCEPT !.op = "breada", !.tgt = k, !.rablk = r] \in Frame
        /\ FrameOK([Idle EXCEPT !.op = "breada", !.tgt = k, !.rablk = r], l)
        /\ [Idle EXCEPT !.op = "breada", !.tgt = k, !.rablk = r].bp = NoBuf
    BY DEF Idle, Frame, FrameOK, Op
  <2> QED BY <2>1, <2>2, CallInv DEF Pc
<1>3. CASE CallGetblk(p)
  <2>1. PICK k \in Block : Call(p, [Idle EXCEPT !.op = "getblk", !.tgt = k], "getblk")
    BY <1>3 DEF CallGetblk
  <2>2. /\ [Idle EXCEPT !.op = "getblk", !.tgt = k] \in Frame
        /\ FrameOK([Idle EXCEPT !.op = "getblk", !.tgt = k], "getblk")
        /\ [Idle EXCEPT !.op = "getblk", !.tgt = k].bp = NoBuf
    BY DEF Idle, Frame, FrameOK, Op
  <2> QED BY <2>1, <2>2, CallInv DEF Pc
<1>4. CASE CallGeteblk(p)
  <2>1. Call(p, [Idle EXCEPT !.op = "geteblk"], "geteblk")
    BY <1>4 DEF CallGeteblk
  <2>2. /\ [Idle EXCEPT !.op = "geteblk"] \in Frame
        /\ FrameOK([Idle EXCEPT !.op = "geteblk"], "geteblk")
        /\ [Idle EXCEPT !.op = "geteblk"].bp = NoBuf
    BY DEF Idle, Frame, FrameOK, Op
  <2> QED BY <2>1, <2>2, CallInv DEF Pc
<1>5. CASE CallSync(p) \/ CallClose(p)
  <2>1. PICK o \in {"sync", "close"}, D \in SUBSET Dev :
          Call(p, [Idle EXCEPT !.op = o, !.scope = D], "bflush")
    BY <1>5 DEF CallSync, CallClose
  <2>2. /\ [Idle EXCEPT !.op = o, !.scope = D] \in Frame
        /\ FrameOK([Idle EXCEPT !.op = o, !.scope = D], "bflush")
        /\ [Idle EXCEPT !.op = o, !.scope = D].bp = NoBuf
    BY DEF Idle, Frame, FrameOK, Op
  <2> QED BY <2>1, <2>2, CallInv DEF Pc
<1> QED BY <1>1, <1>2, <1>3, <1>4, <1>5 DEF Enter

LEMMA SeekInv ==
  ASSUME BioInv, Looking, NEW p \in Proc, Seek(p) PROVE BioInv'
<1> USE BioAssumption
<1>1. CASE GetblkBusy(p)
  BY <1>1, GetblkBusyInv
<1>2. CASE GetblkHit(p)
  BY <1>2, GetblkHitInv
<1>3. CASE NoFreeBuffer(p)
  BY <1>3, NoFreeBufferInv
<1>4. CASE EvictDelayed(p)
  <2>1. 1 \in DOMAIN freelist /\ Head(freelist) = freelist[1]
    BY <1>4, LenProperties, EmptySeq DEF EvictDelayed, BioInv, TypeOK
  <2>2. pc[p] \in {"getblk", "geteblk"}
    BY <1>4 DEF EvictDelayed, AtFreelist, At
  <2> QED BY <1>4, <2>1, <2>2, StartDelayedInv DEF EvictDelayed
<1>5. CASE GetblkReassign(p)
  <2>1. /\ pc[p] = "getblk" /\ Match(Sought(p)) = {}
        /\ Reassign(p, Sought(p), {"BUSY"})
    BY <1>5 DEF GetblkReassign, At, Incore
  <2>2. Sought(p) \in Block
    BY <2>1 DEF BioInv, FramesOK, FrameOK, Sought
  <2> QED BY <2>1, <2>2, ReassignInv DEF Flag
<1>6. CASE GeteblkReassign(p)
  <2>1. pc[p] = "geteblk" /\ Reassign(p, NoBlk, {"BUSY", "AGE"})
    BY <1>6 DEF GeteblkReassign, At
  <2> QED BY <2>1, ReassignInv DEF Flag
<1>7. CASE GetblkFind(p)
  BY <1>7, GetblkFindInv
<1> QED BY <1>1, <1>2, <1>3, <1>4, <1>5, <1>6, <1>7 DEF Seek

LEMMA TransferInv ==
  ASSUME BioInv, NEW p \in Proc, Transfer(p) PROVE BioInv'
BY BwriteTailInv, GetblkReturnInv, BreadGotInv, ReadAheadSeekInv, ReadAheadGotInv,
   BreadaTailInv, IowaitSleepInv, IowaitReadInv, IowaitWriteInv DEF Transfer

LEMMA GiveBackInv ==
  ASSUME BioInv, NEW p \in Proc, GiveBack(p) PROVE BioInv'
<1>1. CASE ReleaseHeld(p)
  BY <1>1, ReleaseHeldInv
<1>2. CASE Bdwrite(p)
  BY <1>2, BdwriteInv
<1>3. ASSUME NEW F \in SUBSET {"AGE", "ASYNC"}, WriteHeld(p, flags[frame[p].bp] \cup F)
      PROVE  BioInv'
  <2>1. frame[p].bp \in Buf
    BY <1>3 DEF WriteHeld, Writable, At, BioInv, FramesOK, FrameOK
  <2>2. flags[frame[p].bp] \cup F \in SUBSET Flag
    BY <2>1 DEF BioInv, TypeOK, Flag
  <2>3. PICK G \in SUBSET Flag : G = flags[frame[p].bp] \cup F
    BY <2>2
  <2>4. flags[frame[p].bp] \subseteq G /\ G \subseteq flags[frame[p].bp] \cup {"AGE", "ASYNC"}
    BY <2>3
  <2>5. WriteHeld(p, G)
    BY <1>3, <2>3
  <2> QED BY <2>4, <2>5, WriteHeldInv
<1>4. CASE Bwrite(p)
  <2>1. PICK F \in SUBSET {"AGE", "ASYNC"} : WriteHeld(p, flags[frame[p].bp] \cup F)
    <3>1. flags[frame[p].bp] = flags[frame[p].bp] \cup {}
      OBVIOUS
    <3>2. WriteHeld(p, flags[frame[p].bp] \cup {})
      BY <1>4, <3>1 DEF Bwrite
    <3> QED BY <3>2
  <2> QED BY <2>1, <1>3
<1>5. CASE Bawrite(p)
  <2>1. PICK F \in SUBSET {"AGE", "ASYNC"} : WriteHeld(p, flags[frame[p].bp] \cup F)
    <3>1. CASE Len(freelist) > BawriteFree
      <4>1. WriteHeld(p, flags[frame[p].bp] \cup {"AGE", "ASYNC"})
        <5>1. flags[frame[p].bp] \cup {"AGE"} \cup {"ASYNC"} = flags[frame[p].bp] \cup {"AGE", "ASYNC"}
          OBVIOUS
        <5> QED BY <1>5, <3>1, <5>1 DEF Bawrite
      <4> QED BY <4>1
    <3>2. CASE ~ (Len(freelist) > BawriteFree)
      <4>1. WriteHeld(p, flags[frame[p].bp] \cup {"AGE"})
        <5>1. flags[frame[p].bp] \cup {"AGE"} \cup {} = flags[frame[p].bp] \cup {"AGE"}
          OBVIOUS
        <5> QED BY <1>5, <3>2, <5>1 DEF Bawrite
      <4> QED BY <4>1
    <3> QED BY <3>1, <3>2
  <2> QED BY <2>1, <1>3
<1> QED BY <1>1, <1>2, <1>4, <1>5 DEF GiveBack

LEMMA FlushInv ==
  ASSUME BioInv, NEW p \in Proc, Flush(p) PROVE BioInv'
<1>1. CASE BflushWrite(p)
  <2>1. PICK i \in Delayed(frame[p].scope) : StartDelayed(p, i)
    BY <1>1 DEF BflushWrite
  <2>2. i \in DOMAIN freelist /\ "DELWRI" \in flags[freelist[i]] /\ pc[p] = "bflush"
    BY <1>1, <2>1 DEF Delayed, BflushWrite, At
  <2> QED BY <2>1, <2>2, StartDelayedInv
<1>2. CASE BflushReturn(p)
  BY <1>2, BflushReturnInv
<1> QED BY <1>1, <1>2 DEF Flush

(* A step of no process and of no device leaves the buffers alone. *)
LEMMA StutterInv ==
  ASSUME BioInv, UNCHANGED vars PROVE BioInv'
BY DEF vars, bufVars, procVars, BioInv, TypeOK, FramesOK, ListOK, DriverOK, DelayedOK,
       OwnersOK, OwnersBusy, OwnersAlone, OwnersIdle, AsyncInDriver, Owns, FoundOK, Sought,
       OneBufferPerBlock

LEMMA NextInv ==
  ASSUME BioInv, Looking, [Next]_vars PROVE BioInv'
<1>1. ASSUME NEW p \in Proc, Enter(p) \/ Step(p) PROVE BioInv'
  BY <1>1, EnterInv, SeekInv, TransferInv, GiveBackInv, FlushInv DEF Step
<1>2. ASSUME NEW b \in Buf, Complete(b) \/ Fail(b) PROVE BioInv'
  BY <1>2, CompleteInv, FailInv
<1> QED BY <1>1, <1>2, StutterInv DEF Next, Interrupt

(* Only its own search brings a process to the look at B_BUSY, and only a    *)
(* process that nobody else overtakes makes a step.                          *)
LEMMA FindsAlone ==
  ASSUME BioInv, NEW p \in Proc, Enter(p) \/ Step(p)
  PROVE  /\ Runs(p) /\ \A q \in Proc \ {p} : pc'[q] = pc[q]
         /\ GetblkFind(p) \/ pc'[p] # "found"
<1>0. pc \in [Proc -> Pc]
  BY DEF BioInv, TypeOK
<1>1. CASE Enter(p)
  BY <1>0, <1>1 DEF Enter, CallBread, CallBreada, CallGetblk, CallGeteblk, CallSync, CallClose,
     Call, At, Goto
<1>2. ASSUME NEW i, StartDelayed(p, i) PROVE pc' = [pc EXCEPT ![p] = "bwrite"]
  BY <1>2 DEF StartDelayed, Goto
<1>3. CASE Seek(p)
  <2>1. CASE GetblkFind(p) \/ GetblkBusy(p) \/ GetblkHit(p) \/ NoFreeBuffer(p)
    BY <1>0, <2>1 DEF GetblkFind, GetblkBusy, GetblkHit, NoFreeBuffer, AtFreelist, At, Goto, SleepOn
  <2>2. CASE EvictDelayed(p)
    BY <1>0, <1>2, <2>2 DEF EvictDelayed, AtFreelist, At
  <2>3. CASE GetblkReassign(p) \/ GeteblkReassign(p)
    BY <1>0, <2>3 DEF GetblkReassign, GeteblkReassign, Reassign, At, Goto
  <2> QED BY <1>3, <2>1, <2>2, <2>3 DEF Seek
<1>4. CASE Transfer(p)
  <2>1. CASE BwriteTail(p)
    BY <1>0, <2>1 DEF BwriteTail, At, Goto, Leave
  <2>2. CASE GetblkReturn(p) \/ BreadGot(p) \/ ReadAheadSeek(p)
    BY <1>0, <2>2 DEF GetblkReturn, BreadGot, ReadAheadSeek, At, Goto, HandOver
  <2>3. CASE ReadAheadGot(p) \/ BreadaTail(p)
    BY <1>0, <2>3 DEF ReadAheadGot, BreadaTail, At, Goto
  <2>4. CASE IowaitSleep(p) \/ IowaitRead(p) \/ IowaitWrite(p)
    BY <1>0, <2>4 DEF IowaitSleep, IowaitRead, IowaitWrite, At, SleepOn, HandOver, Leave
  <2> QED BY <1>4, <2>1, <2>2, <2>3, <2>4 DEF Transfer
<1>5. CASE GiveBack(p)
  BY <1>0, <1>5 DEF GiveBack, ReleaseHeld, Bdwrite, Bwrite, Bawrite, WriteHeld, Writable, At, Leave, Goto
<1>6. CASE Flush(p)
  BY <1>0, <1>2, <1>6 DEF Flush, BflushWrite, BflushReturn, At, Leave
<1> QED BY <1>1, <1>3, <1>4, <1>5, <1>6 DEF Step

LEMMA LookingNext ==
  ASSUME BioInv, Looking, [Next]_vars PROVE Looking'
<1>1. ASSUME NEW p \in Proc, Enter(p) \/ Step(p) PROVE Looking'
  <2>1. /\ Runs(p) /\ \A q \in Proc \ {p} : pc'[q] = pc[q]
        /\ GetblkFind(p) \/ pc'[p] # "found"
    BY <1>1, FindsAlone
  <2>2. \A q \in Proc \ {p} : pc'[q] # "found"
    BY <2>1, BioAssumption DEF Looking, Runs
  <2>3. CASE GetblkFind(p)
    <3>1. PICK b \in Buf : blk[b] = Sought(p) /\ frame' = [frame EXCEPT ![p].wb = b]
      BY <2>3 DEF GetblkFind, Match
    <3>2. frame[p] \in Frame /\ cpu' = p /\ blk' = blk /\ frame'[p] = [frame[p] EXCEPT !.wb = b]
      BY <2>3, <3>1 DEF GetblkFind, Goto, bufVars, BioInv, TypeOK
    <3>3. frame'[p].wb = b /\ Sought(p)' = Sought(p)
      BY <3>2 DEF Frame, Sought
    <3> QED BY <2>2, <3>1, <3>2, <3>3 DEF Looking
  <2>4. CASE pc'[p] # "found"
    BY <2>2, <2>4 DEF Looking
  <2> QED BY <2>1, <2>3, <2>4
<1>2. ASSUME NEW b \in Buf, Complete(b) \/ Fail(b) PROVE Looking'
  BY <1>2 DEF Complete, Fail, Looking, Sought
<1>3. CASE UNCHANGED vars
  BY <1>3 DEF vars, bufVars, procVars, Looking, Sought
<1> QED BY <1>1, <1>2, <1>3 DEF Next, Interrupt

LEMMA InitInv ==
  ASSUME Init PROVE BioInv
<1> USE BioAssumption
<1>1. /\ freelist \in Seq(Buf) /\ IsInjective(freelist) /\ Range(freelist) = Buf
  <2>1. Cardinality(Buf) \in Nat
    BY FS_CardinalityType
  <2> DEFINE D == 1 .. Cardinality(Buf)
  <2>2. freelist \in [D -> Buf] /\ \A i, j \in D : i # j => freelist[i] # freelist[j]
    BY DEF Init, SetToSeqs
  <2>3. freelist \in Injection(D, Buf)
    BY <2>2 DEF Injection, IsInjective
  <2>4. IsFiniteSet(D) /\ Cardinality(D) = Cardinality(Buf)
    BY <2>1, FS_Interval
  <2>5. freelist \in Surjection(D, Buf)
    BY <2>3, <2>4, FS_Injection
  <2>6. Range(freelist) = Buf
    BY <2>2, <2>5 DEF Surjection, Range
  <2>7. freelist \in Seq(Buf)
    BY <2>1, <2>2
  <2> QED BY <2>2, <2>6, <2>7 DEF IsInjective
<1>2. Idle \in Frame /\ FrameOK(Idle, "user")
  BY DEF Idle, Frame, FrameOK, Op
<1>3. TypeOK
  BY <1>1, <1>2 DEF Init, TypeOK, Pc, Flag
<1>4. FramesOK
  BY <1>2 DEF Init, FramesOK
<1>5. ListOK
  BY <1>1 DEF Init, ListOK
<1>6. DriverOK /\ DelayedOK /\ OneBufferPerBlock
  BY DEF Init, DriverOK, DelayedOK, OneBufferPerBlock
<1>7. OwnersOK /\ FoundOK
  BY DEF Init, OwnersOK, OwnersBusy, OwnersAlone, OwnersIdle, AsyncInDriver, Owns, Idle, FoundOK
<1> QED BY <1>3, <1>4, <1>5, <1>6, <1>7 DEF BioInv

(* The buffer cache keeps its invariant whatever the processes ask and       *)
(* whenever the devices interrupt.                                           *)
THEOREM Invariance == Spec => [](BioInv /\ Looking)
<1>1. Init => BioInv /\ Looking
  BY InitInv DEF Init, Looking
<1>2. (BioInv /\ Looking) /\ [Next]_vars => (BioInv /\ Looking)'
  BY NextInv, LookingNext
<1> QED BY <1>1, <1>2, PTL DEF Spec

-----------------------------------------------------------------------------
(* What follows from the invariant. *)

(* Flags, queues, channels and frames stay what bio.c takes them for. *)
THEOREM TypeCorrect == Spec => []TypeOK
<1>1. BioInv => TypeOK
  BY DEF BioInv
<1> QED BY <1>1, Invariance, PTL

(* getblk() never links two good buffers for one block, and never finds the  *)
(* wrong one: all processes that use a block use the same copy of it.        *)
THEOREM UniqueBuffer == Spec => []OneBufferPerBlock
<1>1. BioInv => OneBufferPerBlock
  BY DEF BioInv
<1> QED BY <1>1, Invariance, PTL

(* notavail(), brelse() and the interrupt keep bfreelist and B_BUSY in step: *)
(* a buffer in use is never given away, and a free one is never lost.        *)
THEOREM FreeListExact == Spec => []FreeIffNotBusy
<1>1. ASSUME BioInv PROVE FreeIffNotBusy
  <2>1. ASSUME NEW b \in Buf, NEW i \in DOMAIN freelist, freelist[i] = b
        PROVE  "BUSY" \notin flags[b] /\ \A j \in DOMAIN freelist : freelist[j] = b => j = i
    BY <1>1, <2>1 DEF BioInv, ListOK, Range, IsInjective
  <2>2. ASSUME NEW b \in Buf, "BUSY" \notin flags[b]
        PROVE  \E i \in DOMAIN freelist : freelist[i] = b
    BY <1>1, <2>2 DEF BioInv, ListOK, Range
  <2> SUFFICES ASSUME NEW b \in Buf
               PROVE  ("BUSY" \notin flags[b]) =
                      (\E i \in DOMAIN freelist :
                         freelist[i] = b /\ \A j \in DOMAIN freelist : freelist[j] = b => j = i)
    BY DEF FreeIffNotBusy
  <2>3. CASE "BUSY" \in flags[b]
    <3>1. ~ \E i \in DOMAIN freelist : freelist[i] = b
      BY <2>1, <2>3
    <3> QED BY <2>3, <3>1
  <2>4. CASE "BUSY" \notin flags[b]
    <3>1. PICK i \in DOMAIN freelist : freelist[i] = b
      BY <2>2, <2>4
    <3>2. \A j \in DOMAIN freelist : freelist[j] = b => j = i
      BY <2>1, <3>1
    <3> QED BY <2>4, <3>1, <3>2
  <2> QED BY <2>3, <2>4
<1> QED BY <1>1, Invariance, PTL

(* No two processes use the memory of one buffer, and no interrupt gives     *)
(* away a buffer that a process between getblk() and brelse() is using.      *)
THEOREM Ownership == Spec => [](OwnersBusy /\ OwnersAlone /\ OwnersIdle)
<1>1. BioInv => OwnersBusy /\ OwnersAlone /\ OwnersIdle
  BY DEF BioInv, OwnersOK
<1> QED BY <1>1, Invariance, PTL

------------------------------------------------------------------------------
(* What the callers rely on.                                               *)

(* A buffer that is not on the list is somebody's, who will release it. *)
BusyOwned == \A b \in Buf : "BUSY" \in flags[b] =>
               (\E p \in Proc : Owns(p, b)) \/ (b \in ioq /\ "ASYNC" \in flags[b])

(* What a sleeper sleeps for is to come, and will wake him. *)
Sleeps(p) ==
  /\ chan[p] = FreeList => wantFree /\ freelist = <<>>
  /\ chan[p] \in Buf => \/ pc[p] = "iowait" /\ chan[p] = frame[p].bp /\ "DONE" \notin flags[chan[p]]
                        \/ pc[p] = "getblk" /\ {"BUSY", "WANTED"} \subseteq flags[chan[p]]

(* Who waits for a transfer, or is going to, has it done or in the driver. *)
Waits(p) ==
  frame[p].bp \in Buf /\ (pc[p] = "iowait" \/ frame[p].op \in {"breada", "readahead"})
    => "DONE" \in flags[frame[p].bp] \/ frame[p].bp \in ioq

(* Who looks for a buffer has none yet, but to read ahead. *)
Seeks(p) ==
  pc[p] \in {"getblk", "found", "geteblk", "got", "bwrite"} /\ frame[p].op \in {"bread", "breada", "getblk", "geteblk"}
    => frame[p].bp = NoBuf

(* What a process owns is of the blocks it asked for, and not stale if the   *)
(* device does not fail.                                                     *)
Fresh(p) ==
  /\ \A b \in Buf : Owns(p, b) /\ Steady(b) => "STALE" \notin flags[b]
  /\ frame[p].bp \in Buf /\ Owns(p, frame[p].bp) => blk[frame[p].bp] \in {NoBlk, frame[p].tgt}
  /\ pc[p] = "got" /\ frame[p].op = "geteblk" => blk[frame[p].wb] = NoBlk

(* getblk() finds no buffer with an error in it, and who is handed one is told. *)
Told(p) ==
  /\ pc[p] = "got" => "ERROR" \notin flags[frame[p].wb]
  /\ pc[p] = "hold" => frame[p].uerror \/ "ERROR" \notin flags[frame[p].bp]

(* A buffer without an error has contents of its block: those on the       *)
(* device, if it does not fail, unless it is a delayed write.              *)
Sound(b) ==
  /\ "BUSY" \notin flags[b] \/ b \in ioq => "ERROR" \notin flags[b]
  /\ "DONE" \in flags[b] /\ flags[b] \cap {"STALE", "ERROR"} = {} =>
       /\ data[b] \in Val
       /\ CloseDev = {} /\ Steady(b) /\ "DELWRI" \notin flags[b] /\ blk[b] \in Block
            => data[b] = disk[blk[b]]
  /\ CloseDev = {} /\ Steady(b) /\ (b \in ioq \/ "DELWRI" \in flags[b]) => "STALE" \notin flags[b]

(* bflush() does not sleep, and while it works for closef() nobody else    *)
(* uses the device.                                                        *)
Closing(p) ==
  /\ pc[p] = "bflush" \/ (pc[p] = "bwrite" /\ frame[p].op \in {"sync", "close"}) => cpu = p
  /\ frame[p].op = "close" =>
       /\ CloseDev # {} /\ pc[p] \in {"bflush", "bwrite"}
       /\ \A q \in Proc \ {p} : \A d \in frame[p].scope : ~ Using(q, d)

(* Before spl6() only an error of the device can make the buffer stale.      *)
FoundFresh(p) == pc[p] = "found" /\ Steady(frame[p].wb) => "STALE" \notin flags[frame[p].wb]

Mine(p)  == Sleeps(p) /\ Waits(p) /\ Seeks(p) /\ Fresh(p) /\ Told(p)
Served   == BusyOwned /\ (\A p \in Proc : Mine(p)) /\ (\A b \in Buf : Sound(b))
ServeInv == Served /\ \A p \in Proc : Closing(p) /\ FoundFresh(p)

------------------------------------------------------------------------------
(* The kinds of steps.  A step of p leaves the other processes where they  *)
(* are, one that is about the buffer b the other buffers.                  *)
Others(p) == \A q \in Proc \ {p} : pc'[q] = pc[q] /\ frame'[q] = frame[q]
Beside(b) == \A c \in Buf \ {b} : /\ flags'[c] = flags[c] /\ blk'[c] = blk[c] /\ data'[c] = data[c]
                                  /\ (c \in ioq' <=> c \in ioq)

(* Nobody but p owns more or less than before. *)
LEMMA OthersOwn ==
  ASSUME NEW p \in Proc, Others(p), NEW q \in Proc \ {p}, NEW c \in Buf
  PROVE  Owns(q, c)' <=> Owns(q, c)
BY DEF Others, Owns

(* A sleeper for a buffer owns it and waits for its transfer, or waits for *)
(* its owner, who will see B_WANTED.                                       *)
LEMMA SleepersOf ==
  ASSUME BioInv, Served, NEW q \in Proc, chan[q] \in Buf
  PROVE  /\ "BUSY" \in flags[chan[q]]
         /\ \/ Owns(q, chan[q]) /\ "DONE" \notin flags[chan[q]] /\ pc[q] = "iowait"
               /\ chan[q] = frame[q].bp
            \/ "WANTED" \in flags[chan[q]] /\ pc[q] = "getblk"
<1>1. Sleeps(q)
  BY DEF Served, Mine
<1>2. CASE pc[q] = "iowait" /\ chan[q] = frame[q].bp /\ "DONE" \notin flags[chan[q]]
  <2>1. Owns(q, chan[q])
    BY <1>2 DEF Owns
  <2> QED
    BY <1>2, <2>1 DEF BioInv, OwnersOK, OwnersBusy
<1>3. CASE pc[q] = "getblk" /\ {"BUSY", "WANTED"} \subseteq flags[chan[q]]
  BY <1>3
<1> QED
  BY <1>1, <1>2, <1>3 DEF Sleeps

(* p goes on, and flags that do not say what a buffer holds may be set. *)
LEMMA MoveServes ==
  ASSUME BioInv, Served, BioInv', NEW p \in Proc, Others(p),
         \A q \in Proc \ {p} : chan'[q] = chan[q],
         UNCHANGED <<blk, data, freelist, ioq, disk>>, wantFree => wantFree',
         \A c \in Buf : flags[c] \subseteq flags'[c] /\ flags'[c] \subseteq flags[c] \cup {"WANTED", "AGE", "STALE"},
         \A c \in Buf : "STALE" \in flags'[c] /\ "STALE" \notin flags[c]
                          => CloseDev # {} /\ \A q \in Proc \ {p} : ~ Owns(q, c),
         \A c \in Buf : Owns(p, c)' <=> Owns(p, c),
         Mine(p)'
  PROVE  Served'
<1>1. \A c \in Buf, x \in {"BUSY", "DONE", "ERROR", "DELWRI", "ASYNC"} : x \in flags'[c] <=> x \in flags[c]
  OBVIOUS
<1>2. \A q \in Proc, c \in Buf : Owns(q, c)' <=> Owns(q, c)
  BY OthersOwn
<1>3. BusyOwned'
  BY <1>1, <1>2 DEF Served, BusyOwned
<1>4. ASSUME NEW q \in Proc, q # p PROVE Mine(q)'
  <2>1. pc'[q] = pc[q] /\ frame'[q] = frame[q] /\ chan'[q] = chan[q] /\ Mine(q)
    BY <1>4 DEF Others, Served
  <2>2. Sleeps(q)'
    BY <1>1, <2>1 DEF Mine, Sleeps
  <2>3. Waits(q)'
    BY <1>1, <2>1 DEF Mine, Waits
  <2>4. \A b \in Buf : Owns(q, b)' /\ Steady(b)' => "STALE" \notin flags'[b]
    BY <1>2, <1>4, <2>1 DEF Mine, Fresh, Steady
  <2>5. Fresh(q)'
    BY <1>2, <2>1, <2>4 DEF Mine, Fresh
  <2>6. Told(q)'
    <3>1. /\ pc[q] = "got" => frame[q].wb \in Buf
          /\ pc[q] = "hold" => frame[q].bp \in Buf
      BY DEF BioInv, FramesOK, FrameOK
    <3> QED
      BY <1>1, <2>1, <3>1 DEF Mine, Told
  <2> QED
    BY <2>1, <2>2, <2>3, <2>5, <2>6 DEF Mine, Seeks
<1>5. ASSUME NEW b \in Buf PROVE Sound(b)'
  <2>1. Sound(b)
    BY DEF Served
  <2> QED
    BY <1>1, <2>1 DEF Sound, Steady
<1> QED
  BY <1>3, <1>4, <1>5 DEF Served

(* p takes the free buffer b off the list, with its contents or empty. *)
LEMMA TakeServes ==
  ASSUME BioInv, Served, BioInv', NEW p \in Proc, NEW b \in Buf, Others(p), Beside(b),
         UNCHANGED <<chan, disk>>, freelist # <<>>,
         "BUSY" \notin flags[b], b \notin ioq',
         \/ flags'[b] = flags[b] \cup {"BUSY"} /\ blk'[b] = blk[b] /\ data'[b] = data[b]
         \/ flags'[b] \cap {"DONE", "ERROR", "STALE"} = {},
         \A c \in Buf : Owns(p, c)' <=> Owns(p, c) \/ c = b,
         Mine(p)'
  PROVE  Served'
<1>1. \A q \in Proc, c \in Buf : Owns(q, c)' <=> Owns(q, c) \/ (q = p /\ c = b)
  BY OthersOwn
<1>2. \A q \in Proc : ~ Owns(q, b)
  BY DEF BioInv, OwnersOK, OwnersBusy
<1>3. BusyOwned'
  BY <1>1 DEF Served, BusyOwned, Beside
<1>4. ASSUME NEW q \in Proc, q # p PROVE Mine(q)'
  <2>1. pc'[q] = pc[q] /\ frame'[q] = frame[q] /\ chan'[q] = chan[q] /\ Mine(q)
    BY <1>4 DEF Others, Served
  <2>2. Sleeps(q)'
    <3>1. chan[q] \in Buf => chan[q] # b
      BY SleepersOf
    <3> QED
      BY <2>1, <3>1 DEF Mine, Sleeps, Beside
  <2>3. Waits(q)'
    <3>1. frame[q].bp \in Buf /\ (pc[q] = "iowait" \/ frame[q].op \in {"breada", "readahead"}) => Owns(q, frame[q].bp)
      BY DEF Owns, BioInv, FramesOK, FrameOK
    <3> QED
      BY <1>2, <2>1, <3>1 DEF Mine, Waits, Beside
  <2>4. \A c \in Buf : Owns(q, c)' => Owns(q, c) /\ c # b
    BY <1>1, <1>2, <1>4
  <2>5. Fresh(q)'
    <3>1. pc[q] = "got" => frame[q].wb \in Buf /\ Owns(q, frame[q].wb)
      BY DEF BioInv, FramesOK, FrameOK, Owns
    <3> QED
      BY <1>2, <2>1, <2>4, <3>1 DEF Mine, Fresh, Beside, Steady
  <2>6. Told(q)'
    <3>1. /\ pc[q] = "got" => frame[q].wb \in Buf /\ Owns(q, frame[q].wb)
          /\ pc[q] = "hold" => frame[q].bp \in Buf /\ Owns(q, frame[q].bp)
      BY DEF BioInv, FramesOK, FrameOK, Owns
    <3> QED
      BY <1>2, <2>1, <3>1 DEF Mine, Told, Beside
  <2> QED
    BY <2>1, <2>2, <2>3, <2>5, <2>6 DEF Mine, Seeks
<1>5. ASSUME NEW c \in Buf PROVE Sound(c)'
  <2>1. Sound(c)
    BY DEF Served
  <2>2. CASE c # b
    BY <2>1, <2>2 DEF Sound, Beside, Steady
  <2>3. CASE c = b
    BY <2>1, <2>3 DEF Sound, Steady
  <2> QED
    BY <2>2, <2>3
<1> QED
  BY <1>3, <1>4, <1>5 DEF Served

(* p gives b, which was free or its own, to the driver. *)
LEMMA StartServes ==
  ASSUME BioInv, Served, BioInv', NEW p \in Proc, NEW b \in Buf, Others(p), Beside(b),
         UNCHANGED <<chan, wantFree, disk, blk>>, freelist = <<>> => freelist' = <<>>,
         chan[p] = Awake, "BUSY" \notin flags[b] \/ Owns(p, b),
         b \in ioq', {"DONE", "DELWRI", "ERROR"} \cap flags'[b] = {},
         "STALE" \in flags'[b] <=> "STALE" \in flags[b],
         CloseDev = {} /\ Steady(b) => "STALE" \notin flags[b],
         "WANTED" \in flags[b] => "WANTED" \in flags'[b],
         \A c \in Buf \ {b} : Owns(p, c)' <=> Owns(p, c),
         Owns(p, b)' \/ "ASYNC" \in flags'[b],
         Mine(p)'
  PROVE  Served'
<1>1. \A q \in Proc, c \in Buf : q # p \/ c # b => (Owns(q, c)' <=> Owns(q, c))
  BY OthersOwn
<1>2. \A q \in Proc : q # p => ~ Owns(q, b)
  BY DEF BioInv, OwnersOK, OwnersBusy, OwnersAlone
<1>3. BusyOwned'
  BY <1>1 DEF Served, BusyOwned, Beside
<1>s. "BUSY" \in flags'[b]
  BY DEF BioInv, DriverOK
<1>4. ASSUME NEW q \in Proc, q # p PROVE Mine(q)'
  <2>1. pc'[q] = pc[q] /\ frame'[q] = frame[q] /\ chan'[q] = chan[q] /\ Mine(q)
    BY <1>4 DEF Others, Served
  <2>2. Sleeps(q)'
    <3>1. chan[q] = b => "WANTED" \in flags[b] /\ pc[q] = "getblk"
      BY <1>2, <1>4, SleepersOf
    <3>2. chan[q] = FreeList => wantFree' /\ freelist' = <<>>
      BY <2>1 DEF Mine, Sleeps
    <3> QED
      BY <1>s, <2>1, <3>1, <3>2 DEF Mine, Sleeps, Beside
  <2>3. Waits(q)'
    <3>1. frame[q].bp \in Buf /\ (pc[q] = "iowait" \/ frame[q].op \in {"breada", "readahead"}) => Owns(q, frame[q].bp)
      BY DEF Owns, BioInv, FramesOK, FrameOK
    <3> QED
      BY <1>2, <1>4, <2>1, <3>1 DEF Mine, Waits, Beside
  <2>4. \A c \in Buf : Owns(q, c)' => Owns(q, c) /\ c # b
    BY <1>1, <1>2, <1>4
  <2>5. Fresh(q)'
    <3>1. pc[q] = "got" => frame[q].wb \in Buf /\ Owns(q, frame[q].wb)
      BY DEF BioInv, FramesOK, FrameOK, Owns
    <3> QED
      BY <1>2, <2>1, <2>4, <3>1 DEF Mine, Fresh, Beside, Steady
  <2>6. Told(q)'
    <3>1. /\ pc[q] = "got" => frame[q].wb \in Buf /\ Owns(q, frame[q].wb)
          /\ pc[q] = "hold" => frame[q].bp \in Buf /\ Owns(q, frame[q].bp)
      BY DEF BioInv, FramesOK, FrameOK, Owns
    <3> QED
      BY <1>2, <1>4, <2>1, <3>1 DEF Mine, Told, Beside
  <2> QED
    BY <2>1, <2>2, <2>3, <2>5, <2>6 DEF Mine, Seeks
<1>5. ASSUME NEW c \in Buf PROVE Sound(c)'
  <2>1. Sound(c)
    BY DEF Served
  <2>2. CASE c # b
    BY <2>1, <2>2 DEF Sound, Beside, Steady
  <2>3. CASE c = b
    BY <2>1, <2>3 DEF Sound, Steady
  <2> QED
    BY <2>2, <2>3
<1> QED
  BY <1>3, <1>4, <1>5 DEF Served

(* brelse() wakes whoever waits for the buffer or for any; what it leaves  *)
(* without an error is not stale by it.                                    *)
LEMMA BrelseWakes ==
  ASSUME BioInv, Served, NEW b \in Buf, NEW F \in SUBSET Flag, "WANTED" \in flags[b] => "WANTED" \in F,
         Brelse(b, F), NEW q \in Proc
  PROVE  /\ chan'[q] \in {chan[q], Awake} /\ chan'[q] # FreeList
         /\ chan'[q] = b => Owns(q, b)
<1>1. chan'[q] = IF chan[q] \in (IF "WANTED" \in F THEN {b} ELSE {}) \cup (IF wantFree THEN {FreeList} ELSE {})
                 THEN Awake ELSE chan[q]
  BY DEF Brelse, Wakeup
<1>2. chan[q] = FreeList => wantFree
  BY DEF Served, Mine, Sleeps
<1>3. chan[q] = b => Owns(q, b) \/ "WANTED" \in flags[b]
  BY SleepersOf
<1> QED
  BY <1>1, <1>2, <1>3, BioAssumption

LEMMA BrelseLeaves ==
  ASSUME TypeOK, NEW b \in Buf, NEW F \in SUBSET Flag, Brelse(b, F)
  PROVE  /\ \A c \in Buf \ {b} : flags'[c] = flags[c]
         /\ flags'[b] \cap {"BUSY", "ERROR"} = {}
         /\ "DONE" \in flags'[b] => "DONE" \in F
         /\ "STALE" \notin flags'[b] => "ERROR" \notin F /\ "STALE" \notin F
                                        /\ ("DELWRI" \in flags'[b] <=> "DELWRI" \in F)
                                        /\ ("DONE" \in flags'[b] <=> "DONE" \in F)
         /\ "DELWRI" \in flags'[b] => "ERROR" \notin F /\ "DELWRI" \in F
                                       /\ ("STALE" \in flags'[b] => "STALE" \in F)
BY DEF TypeOK, Brelse, Released, Judged

(* p gives b back. *)
LEMMA GiveServes ==
  ASSUME BioInv, Served, BioInv', NEW p \in Proc, NEW b \in Buf, Others(p),
         NEW F \in SUBSET Flag, Brelse(b, F), UNCHANGED <<blk, ioq, disk>>,
         \A c \in Buf \ {b} : data'[c] = data[c],
         Owns(p, b), flags[b] \subseteq F,
         \/ F = flags[b] /\ data'[b] = data[b]
         \/ F = flags[b] \cup {"DELWRI", "DONE"} /\ data'[b] \in Val,
         b \notin ioq,
         \A c \in Buf : Owns(p, c)' <=> Owns(p, c) /\ c # b,
         Mine(p)'
  PROVE  Served'
<1>0. /\ \A c \in Buf \ {b} : flags'[c] = flags[c]
      /\ flags'[b] \cap {"BUSY", "ERROR"} = {}
      /\ "DONE" \in flags'[b] => "DONE" \in F
      /\ "STALE" \notin flags'[b] => "ERROR" \notin F /\ "STALE" \notin F
                                        /\ ("DELWRI" \in flags'[b] <=> "DELWRI" \in F)
                                        /\ ("DONE" \in flags'[b] <=> "DONE" \in F)
      /\ "DELWRI" \in flags'[b] => "ERROR" \notin F /\ "DELWRI" \in F
                                    /\ ("STALE" \in flags'[b] => "STALE" \in F)
  BY BrelseLeaves DEF BioInv
<1>1. \A q \in Proc, c \in Buf : Owns(q, c)' => Owns(q, c)
  BY OthersOwn
<1>2. \A q \in Proc : q # p => ~ Owns(q, b)
  BY DEF BioInv, OwnersOK, OwnersAlone
<1>3. BusyOwned'
  <2>1. \A q \in Proc, c \in Buf : c # b => (Owns(q, c)' <=> Owns(q, c))
    BY OthersOwn
  <2> QED
    BY <1>0, <2>1 DEF Served, BusyOwned
<1>4. ASSUME NEW q \in Proc, q # p PROVE Mine(q)'
  <2>1. pc'[q] = pc[q] /\ frame'[q] = frame[q] /\ Mine(q)
    BY <1>4 DEF Others, Served
  <2>2. Sleeps(q)'
    <3>1. chan'[q] \in {chan[q], Awake} /\ chan'[q] # FreeList /\ chan'[q] # b
      BY <1>2, <1>4, BrelseWakes
    <3>2. Awake \notin Buf
      BY BioAssumption
    <3> QED
      BY <1>0, <2>1, <3>1, <3>2 DEF Mine, Sleeps
  <2>3. Waits(q)'
    <3>1. frame[q].bp \in Buf /\ (pc[q] = "iowait" \/ frame[q].op \in {"breada", "readahead"}) => Owns(q, frame[q].bp)
      BY DEF Owns, BioInv, FramesOK, FrameOK
    <3> QED
      BY <1>0, <1>2, <1>4, <2>1, <3>1 DEF Mine, Waits
  <2>4. \A c \in Buf : Owns(q, c)' => Owns(q, c) /\ c # b
    BY <1>1, <1>2, <1>4
  <2>5. Fresh(q)'
    BY <1>0, <2>1, <2>4 DEF Mine, Fresh, Steady
  <2>6. Told(q)'
    <3>1. /\ pc[q] = "got" => frame[q].wb \in Buf /\ Owns(q, frame[q].wb)
          /\ pc[q] = "hold" => frame[q].bp \in Buf /\ Owns(q, frame[q].bp)
      BY DEF BioInv, FramesOK, FrameOK, Owns
    <3> QED
      BY <1>0, <1>2, <1>4, <2>1, <3>1 DEF Mine, Told
  <2> QED
    BY <2>1, <2>2, <2>3, <2>5, <2>6 DEF Mine, Seeks
<1>5. ASSUME NEW c \in Buf PROVE Sound(c)'
  <2>1. Sound(c)
    BY DEF Served
  <2>2. CASE c # b
    BY <1>0, <2>1, <2>2 DEF Sound, Steady
  <2>3. CASE c = b
    <3>1. Steady(b) => "STALE" \notin flags[b]
      BY DEF Served, Mine, Fresh
    <3> QED
      BY <1>0, <2>1, <2>3, <3>1 DEF Sound, Steady
  <2> QED
    BY <2>2, <2>3
<1> QED
  BY <1>3, <1>4, <1>5 DEF Served

(* The driver ends the transfer of b. *)
LEMMA IodoneServes ==
  ASSUME BioInv, Served, BioInv', NEW b \in ioq, NEW F \in SUBSET Flag,
         \/ F = flags[b] \cup {"DONE"} /\ data'[b] \in Val /\ data'[b] = disk'[blk[b]]
         \/ F = flags[b] \cup {"ERROR", "DONE"},
         Iodone(b, F), ioq' = ioq \ {b}, UNCHANGED <<blk, cpu, pc, frame>>,
         \A c \in Buf \ {b} : data'[c] = data[c],
         \A k \in Block : disk'[k] # disk[k] => k = blk[b]
  PROVE  Served'
<1>0. b \in Buf /\ blk[b] \in Block /\ "BUSY" \in flags[b] /\ {"DONE", "DELWRI"} \cap flags[b] = {}
  BY DEF BioInv, TypeOK, DriverOK
<1>1. /\ \A c \in Buf \ {b} : flags'[c] = flags[c]
      /\ "ASYNC" \in flags[b] => "BUSY" \notin flags'[b]
      /\ "BUSY" \notin flags'[b] => "ERROR" \notin flags'[b] /\ "ASYNC" \in flags[b]
      /\ "STALE" \notin flags'[b] /\ "ERROR" \notin flags'[b] => "ERROR" \notin F /\ "STALE" \notin flags[b]
      /\ "ASYNC" \notin flags[b] => flags'[b] = F \ {"WANTED"}
      /\ "DELWRI" \notin flags'[b]
  <2>1. CASE "ASYNC" \in F
    <3>1. Brelse(b, F)
      BY <2>1 DEF Iodone
    <3>2. "ASYNC" \in flags[b] /\ flags[b] \subseteq F
      BY <2>1
    <3> QED
      BY <1>0, <3>1, <3>2, BrelseLeaves DEF BioInv
  <2>2. CASE "ASYNC" \notin F
    <3>1. flags' = [flags EXCEPT ![b] = F \ {"WANTED"}] /\ "ASYNC" \notin flags[b]
      BY <2>2 DEF Iodone
    <3> QED
      BY <1>0, <3>1 DEF BioInv, TypeOK
  <2> QED
    BY <2>1, <2>2
<1>2. ASSUME NEW q \in Proc
      PROVE  /\ chan'[q] \in {chan[q], Awake} /\ chan'[q] # b
             /\ chan'[q] = FreeList => wantFree' /\ freelist' = <<>>
  <2>1. CASE "ASYNC" \in F
    <3>1. Brelse(b, F) /\ flags[b] \subseteq F /\ "ASYNC" \in flags[b]
      BY <2>1 DEF Iodone
    <3>2. chan'[q] \in {chan[q], Awake} /\ chan'[q] # FreeList /\ (chan'[q] = b => Owns(q, b))
      BY <1>0, <3>1, BrelseWakes
    <3> QED
      BY <3>1, <3>2, <1>0 DEF BioInv, OwnersOK, OwnersBusy
  <2>2. CASE "ASYNC" \notin F
    <3>1. Wakeup({b}) /\ UNCHANGED <<freelist, wantFree>>
      BY <2>2 DEF Iodone
    <3>2. chan'[q] = IF chan[q] = b THEN Awake ELSE chan[q]
      BY <3>1 DEF Wakeup
    <3>3. chan[q] = FreeList => wantFree /\ freelist = <<>>
      BY DEF Served, Mine, Sleeps
    <3> QED
      BY <1>0, <3>1, <3>2, <3>3, BioAssumption
  <2> QED
    BY <2>1, <2>2
<1>3. \A q \in Proc, c \in Buf : Owns(q, c)' <=> Owns(q, c)
  BY DEF Owns
<1>4. BusyOwned'
  BY <1>0, <1>1, <1>3 DEF Served, BusyOwned
<1>5. ASSUME NEW q \in Proc PROVE Mine(q)'
  <2>1. pc'[q] = pc[q] /\ frame'[q] = frame[q] /\ Mine(q)
    BY DEF Served
  <2>2. Sleeps(q)'
    <3>1. Awake \notin Buf /\ Awake # FreeList
      BY BioAssumption
    <3> QED
      BY <1>1, <1>2, <2>1, <3>1 DEF Mine, Sleeps
  <2>3. Waits(q)'
    <3>1. frame[q].bp = b /\ (pc[q] = "iowait" \/ frame[q].op \in {"breada", "readahead"}) => Owns(q, b)
      BY <1>0 DEF Owns, BioInv, FramesOK, FrameOK
    <3>2. Owns(q, b) => "DONE" \in flags'[b]
      BY <1>0, <1>1 DEF BioInv, OwnersOK, OwnersBusy
    <3> QED
      BY <1>1, <2>1, <3>1, <3>2 DEF Mine, Waits
  <2>4. Fresh(q)'
    <3>1. Owns(q, b) /\ "STALE" \notin flags[b] => "STALE" \notin flags'[b]
      BY <1>0, <1>1 DEF BioInv, OwnersOK, OwnersBusy
    <3> QED
      BY <1>1, <1>3, <2>1, <3>1 DEF Mine, Fresh, Steady
  <2>5. Told(q)'
    <3>1. /\ pc[q] = "got" => frame[q].wb \in Buf /\ frame[q].wb # b
          /\ pc[q] = "hold" => frame[q].bp \in Buf /\ frame[q].bp # b
      BY DEF BioInv, FramesOK, FrameOK, OwnersOK, OwnersIdle
    <3> QED
      BY <1>1, <2>1, <3>1 DEF Mine, Told
  <2> QED
    BY <2>1, <2>2, <2>3, <2>4, <2>5 DEF Mine, Seeks
<1>6. ASSUME NEW c \in Buf PROVE Sound(c)'
  <2>1. Sound(c) /\ Sound(b)
    BY <1>0 DEF Served
  <2>2. CASE c = b
    <3>1. "BUSY" \notin flags'[b] => "ERROR" \notin flags'[b]
      BY <1>1
    <3> QED
      BY <1>0, <1>1, <2>1, <2>2, <3>1 DEF Sound, Steady
  <2>3. CASE c # b
    <3>1. CloseDev = {} /\ Steady(c) /\ blk[c] = blk[b] => "STALE" \in flags[c]
      BY BioAssumption, <1>0, <2>1, <2>3 DEF Sound, Steady, BioInv, OneBufferPerBlock
    <3> QED
      BY <1>1, <2>1, <2>3, <3>1 DEF Sound, Steady
  <2> QED
    BY <2>2, <2>3
<1> QED
  BY <1>4, <1>5, <1>6 DEF Served

------------------------------------------------------------------------------
(* Each action is a step of one of these kinds. *)

(* Outside of bio.c there is nothing to keep. *)
LEMMA OutMine ==
  ASSUME NEW p \in Proc, pc'[p] = "user", frame'[p] = Idle, chan'[p] = Awake
  PROVE  Mine(p)' /\ \A c \in Buf : ~ Owns(p, c)'
BY BioAssumption DEF Idle, Mine, Sleeps, Waits, Seeks, Fresh, Told, Owns

LEMMA LeaveFacts ==
  ASSUME TypeOK, NEW p \in Proc, Leave(p)
  PROVE  pc'[p] = "user" /\ frame'[p] = Idle /\ Others(p)
BY DEF TypeOK, Leave, Others

LEMMA EnterServes ==
  ASSUME BioInv, Served, BioInv', NEW p \in Proc, Enter(p) PROVE Served'
<1>1. \E f \in Frame, l \in {"getblk", "geteblk", "breada", "bflush"} :
        f.bp = NoBuf /\ Call(p, f, l)
  <2>1. Idle \in Frame /\ Idle.bp = NoBuf
    BY BioAssumption DEF Idle, Frame, Op
  <2>2. CASE CallBread(p)
    <3>1. PICK k \in Block : Call(p, [Idle EXCEPT !.op = "bread", !.tgt = k], "getblk")
      BY <2>2 DEF CallBread
    <3>2. [Idle EXCEPT !.op = "bread", !.tgt = k] \in Frame /\ [Idle EXCEPT !.op = "bread", !.tgt = k].bp = NoBuf
      BY <2>1 DEF Idle, Frame, Op
    <3> QED
      BY <3>1, <3>2
  <2>3. CASE CallBreada(p)
    <3>1. PICK k \in Block, r \in Block, l \in {"breada", "getblk"} :
            Call(p, [Idle EXCEPT !.op = "breada", !.tgt = k, !.rablk = r], l)
      BY <2>3 DEF CallBreada
    <3>2. /\ [Idle EXCEPT !.op = "breada", !.tgt = k, !.rablk = r] \in Frame
          /\ [Idle EXCEPT !.op = "breada", !.tgt = k, !.rablk = r].bp = NoBuf
      BY <2>1 DEF Idle, Frame, Op
    <3> QED
      BY <3>1, <3>2
  <2>4. CASE CallGetblk(p)
    <3>1. PICK k \in Block : Call(p, [Idle EXCEPT !.op = "getblk", !.tgt = k], "getblk")
      BY <2>4 DEF CallGetblk
    <3>2. [Idle EXCEPT !.op = "getblk", !.tgt = k] \in Frame /\ [Idle EXCEPT !.op = "getblk", !.tgt = k].bp = NoBuf
      BY <2>1 DEF Idle, Frame, Op
    <3> QED
      BY <3>1, <3>2
  <2>5. CASE CallGeteblk(p)
    <3>1. [Idle EXCEPT !.op = "geteblk"] \in Frame /\ [Idle EXCEPT !.op = "geteblk"].bp = NoBuf
      BY <2>1 DEF Idle, Frame, Op
    <3> QED
      BY <2>5, <3>1 DEF CallGeteblk
  <2>6. CASE CallSync(p) \/ CallClose(p)
    <3>1. PICK o \in {"sync", "close"}, D \in SUBSET Dev :
            Call(p, [Idle EXCEPT !.op = o, !.scope = D], "bflush")
      BY <2>6, BioAssumption DEF CallSync, CallClose
    <3>2. [Idle EXCEPT !.op = o, !.scope = D] \in Frame /\ [Idle EXCEPT !.op = o, !.scope = D].bp = NoBuf
      BY <2>1 DEF Idle, Frame, Op
    <3> QED
      BY <3>1, <3>2
  <2> QED
    BY <2>2, <2>3, <2>4, <2>5, <2>6 DEF Enter
<1>2. PICK f \in Frame, l \in {"getblk", "geteblk", "breada", "bflush"} : f.bp = NoBuf /\ Call(p, f, l)
  BY <1>1
<1>3. /\ pc[p] = "user" /\ chan[p] = Awake /\ UNCHANGED <<flags, blk, data, freelist, wantFree, ioq, disk, chan>>
      /\ pc'[p] = l /\ frame'[p] = f /\ Others(p)
  BY <1>2 DEF Call, At, Runs, Goto, Others, BioInv, TypeOK, bufVars
<1>4. \A c \in Buf : ~ Owns(p, c) /\ ~ Owns(p, c)'
  BY <1>2, <1>3, BioAssumption DEF Owns
<1>5. Mine(p)'
  BY <1>2, <1>3, <1>4, BioAssumption DEF Mine, Sleeps, Waits, Seeks, Fresh, Told
<1> QED
  BY <1>3, <1>4, <1>5, MoveServes

(* getblk() and geteblk() *)
LEMMA GetblkFindServes ==
  ASSUME BioInv, Served, BioInv', NEW p \in Proc, GetblkFind(p) PROVE Served'
<1>1. PICK b \in Buf : frame' = [frame EXCEPT ![p].wb = b]
  BY DEF GetblkFind, Match
<1>2. /\ pc[p] = "getblk" /\ pc' = [pc EXCEPT ![p] = "found"] /\ chan[p] = Awake
      /\ UNCHANGED <<flags, blk, data, freelist, wantFree, ioq, disk, chan>>
      /\ frame[p] \in Frame /\ Mine(p)
  BY DEF GetblkFind, bufVars, At, Runs, Goto, BioInv, TypeOK, Served
<1>3. /\ pc'[p] = "found" /\ Others(p) /\ frame'[p] = [frame[p] EXCEPT !.wb = b]
  BY <1>1, <1>2 DEF BioInv, TypeOK, Others
<1>4. frame'[p].bp = frame[p].bp /\ frame'[p].op = frame[p].op /\ frame'[p].tgt = frame[p].tgt
  BY <1>2, <1>3 DEF Frame
<1>5. \A c \in Buf : Owns(p, c)' <=> Owns(p, c)
  BY <1>2, <1>3, <1>4 DEF Owns
<1>6. Mine(p)'
  BY <1>2, <1>3, <1>4, <1>5, BioAssumption DEF Mine, Sleeps, Waits, Seeks, Fresh, Told, Steady
<1> QED
  BY <1>2, <1>3, <1>5, <1>6, MoveServes

LEMMA GetblkBusyServes ==
  ASSUME BioInv, Served, BioInv', NEW p \in Proc, GetblkBusy(p) PROVE Served'
<1>1. PICK b \in Buf :
        /\ "BUSY" \in flags[b] /\ pc[p] = "found" /\ frame[p] \in Frame
        /\ flags' = [flags EXCEPT ![b] = @ \cup {"WANTED"}]
        /\ chan' = [chan EXCEPT ![p] = b]
        /\ frame' = [frame EXCEPT ![p].wb = NoBuf]
        /\ pc' = [pc EXCEPT ![p] = "getblk"]
        /\ UNCHANGED <<blk, data, freelist, wantFree, ioq, disk>>
  BY BusyFacts DEF BioInv
<1>2. /\ pc'[p] = "getblk" /\ Others(p) /\ frame'[p] = [frame[p] EXCEPT !.wb = NoBuf]
  BY <1>1 DEF BioInv, TypeOK, Others
<1>3. /\ chan'[p] = b /\ \A q \in Proc \ {p} : chan'[q] = chan[q]
      /\ flags'[b] = flags[b] \cup {"WANTED"} /\ \A c \in Buf \ {b} : flags'[c] = flags[c]
  BY <1>1 DEF BioInv, TypeOK
<1>r. frame'[p].bp = frame[p].bp /\ frame'[p].op = frame[p].op /\ frame'[p].tgt = frame[p].tgt
  BY <1>1, <1>2 DEF Frame
<1>4. \A c \in Buf : Owns(p, c)' <=> Owns(p, c)
  BY <1>1, <1>2, <1>r DEF Owns
<1>5. Mine(p)'
  <2>1. Mine(p)
    BY DEF Served
  <2>2. Sleeps(p)'
    BY <1>1, <1>2, <1>3, BioAssumption DEF Sleeps
  <2>3. Waits(p)'
    BY <1>1, <1>2, <1>3, <1>r, <2>1 DEF Mine, Waits
  <2>4. Fresh(p)'
    BY <1>1, <1>2, <1>3, <1>r, <1>4, <2>1 DEF Mine, Fresh, Steady
  <2>5. Told(p)'
    BY <1>2 DEF Told
  <2> QED
    BY <1>1, <1>2, <1>r, <2>1, <2>2, <2>3, <2>4, <2>5 DEF Mine, Seeks
<1>6. \A c \in Buf : flags[c] \subseteq flags'[c] /\ flags'[c] \subseteq flags[c] \cup {"WANTED", "AGE", "STALE"}
                     /\ ("STALE" \in flags'[c] => "STALE" \in flags[c])
  BY <1>3
<1> QED
  BY <1>1, <1>2, <1>3, <1>4, <1>5, <1>6, MoveServes

LEMMA NoFreeBufferServes ==
  ASSUME BioInv, Served, BioInv', NEW p \in Proc, NoFreeBuffer(p) PROVE Served'
<1>1. /\ pc[p] \in {"getblk", "geteblk"} /\ freelist = <<>> /\ wantFree' = TRUE
      /\ UNCHANGED <<pc, frame, flags, blk, data, freelist, ioq, disk>>
      /\ chan'[p] = FreeList /\ \A q \in Proc \ {p} : chan'[q] = chan[q]
  BY DEF NoFreeBuffer, AtFreelist, At, SleepOn, BioInv, TypeOK
<1>2. \A c \in Buf : Owns(p, c)' <=> Owns(p, c)
  BY <1>1 DEF Owns
<1>3. Mine(p)'
  <2>1. Mine(p)
    BY DEF Served
  <2>2. Sleeps(p)'
    BY <1>1, BioAssumption DEF Sleeps
  <2>3. Waits(p)' /\ Told(p)'
    BY <1>1, <2>1 DEF Mine, Waits, Told
  <2>4. Fresh(p)'
    BY <1>1, <1>2, <2>1 DEF Mine, Fresh, Steady
  <2> QED
    BY <1>1, <2>1, <2>2, <2>3, <2>4 DEF Mine, Seeks
<1>4. Others(p)
  BY <1>1 DEF Others
<1> QED
  BY <1>1, <1>2, <1>3, <1>4, MoveServes


(* What p takes off the list is good for it. *)
LEMMA TakenMine ==
  ASSUME BioInv, Served, NEW p \in Proc, NEW b \in Buf, pc[p] \in {"getblk", "found", "geteblk"},
         "BUSY" \notin flags[b], Beside(b), UNCHANGED ioq, chan'[p] = Awake, pc'[p] = "got",
         frame'[p] = [frame[p] EXCEPT !.wb = b],
         Steady(b)' => "STALE" \notin flags'[b], "ERROR" \notin flags'[b],
         pc[p] = "geteblk" => blk'[b] = NoBlk
  PROVE  Mine(p)' /\ \A c \in Buf : Owns(p, c)' <=> Owns(p, c) \/ c = b
<1>1. frame[p] \in Frame /\ Mine(p) /\ FrameOK(frame[p], pc[p])
  BY DEF BioInv, TypeOK, FramesOK, Served
<1>2. /\ frame'[p].wb = b /\ frame'[p].bp = frame[p].bp /\ frame'[p].op = frame[p].op
      /\ frame'[p].tgt = frame[p].tgt
  BY <1>1 DEF Frame
<1>3. \A c \in Buf : (Owns(p, c) <=> frame[p].bp = c) /\ (Owns(p, c)' <=> Owns(p, c) \/ c = b)
  BY <1>2 DEF Owns
<1>4. ~ Owns(p, b)
  BY DEF BioInv, OwnersOK, OwnersBusy
<1>5. Sleeps(p)' /\ Told(p)'
  BY <1>2, BioAssumption DEF Sleeps, Told
<1>6. Waits(p)'
  BY <1>1, <1>2, <1>3, <1>4 DEF Mine, Waits, Beside
<1>7. Fresh(p)'
  <2>1. \A c \in Buf : Owns(p, c)' /\ Steady(c)' => "STALE" \notin flags'[c]
    BY <1>1, <1>3 DEF Mine, Fresh, Beside, Steady
  <2>2. frame[p].bp \in Buf => frame[p].bp # b /\ Owns(p, frame[p].bp)
    BY <1>3, <1>4
  <2>3. frame[p].op = "geteblk" => pc[p] = "geteblk"
    BY <1>1 DEF FrameOK
  <2> QED
    BY <1>1, <1>2, <2>1, <2>2, <2>3 DEF Mine, Fresh, Beside
<1> QED
  BY <1>1, <1>2, <1>3, <1>5, <1>6, <1>7 DEF Mine, Seeks

LEMMA GetblkHitServes ==
  ASSUME BioInv, Looking, Served, BioInv', NEW p \in Proc, FoundFresh(p), GetblkHit(p) PROVE Served'
<1>1. PICK b \in Buf :
         /\ b = frame[p].wb /\ "BUSY" \notin flags[b]
         /\ pc[p] = "found" /\ frame[p] \in Frame /\ chan[p] = Awake
         /\ \E i \in DOMAIN freelist : freelist[i] = b /\ Unlink(i)
         /\ flags' = [flags EXCEPT ![b] = @ \cup {"BUSY"}]
         /\ pc' = [pc EXCEPT ![p] = "got"]
         /\ UNCHANGED <<blk, data, wantFree, ioq, disk, chan, frame>>
  BY HitFacts
<1>2. Steady(b) => "STALE" \notin flags[b]
  BY <1>1 DEF FoundFresh
<1>4. /\ pc'[p] = "got" /\ frame'[p] = [frame[p] EXCEPT !.wb = b] /\ Others(p)
      /\ flags'[b] = flags[b] \cup {"BUSY"} /\ Beside(b)
  BY <1>1 DEF BioInv, TypeOK, Others, Beside, Frame
<1>5. freelist # <<>> /\ b \notin ioq
  BY <1>1 DEF BioInv, DriverOK
<1>6. "ERROR" \notin flags[b]
  BY <1>1 DEF Served, Sound
<1>7. Mine(p)' /\ \A c \in Buf : Owns(p, c)' <=> Owns(p, c) \/ c = b
  <2>1. (Steady(b)' => "STALE" \notin flags'[b]) /\ "ERROR" \notin flags'[b]
    BY <1>1, <1>2, <1>4, <1>6 DEF Steady
  <2> QED
    BY <1>1, <1>4, <2>1, TakenMine
<1> QED
  BY <1>1, <1>4, <1>5, <1>7, TakeServes

LEMMA ReassignServes ==
  ASSUME BioInv, Served, BioInv', NEW p \in Proc, NEW k, NEW F \in {{"BUSY"}, {"BUSY", "AGE"}},
         pc[p] \in {"getblk", "geteblk"}, chan[p] = Awake, pc[p] = "geteblk" => k = NoBlk,
         Reassign(p, k, F)
  PROVE  Served'
<1> DEFINE b == Head(freelist)
<1>1. b \in Buf /\ "BUSY" \notin flags[b]
  <2>1. b \in Range(freelist)
    <3>1. 1 \in DOMAIN freelist /\ b = freelist[1]
      BY LenProperties, EmptySeq DEF Reassign, BioInv, TypeOK
    <3> QED
      BY <3>1 DEF Range
  <2> QED
    BY <2>1 DEF BioInv, ListOK
<1>2. /\ freelist # <<>> /\ flags' = [flags EXCEPT ![b] = F] /\ blk' = [blk EXCEPT ![b] = k]
      /\ data' = [data EXCEPT ![b] = Garbage] /\ frame' = [frame EXCEPT ![p].wb = b]
      /\ pc' = [pc EXCEPT ![p] = "got"] /\ UNCHANGED <<wantFree, ioq, disk, chan>>
  BY DEF Reassign, Goto
<1> HIDE DEF b
<1>3. /\ pc'[p] = "got" /\ frame'[p] = [frame[p] EXCEPT !.wb = b] /\ Others(p)
      /\ flags'[b] = F /\ blk'[b] = k /\ Beside(b)
  BY <1>1, <1>2 DEF BioInv, TypeOK, Others, Beside
<1>4. {"DONE", "ERROR", "STALE"} \cap flags'[b] = {}
  BY <1>3
<1>5. b \notin ioq
  BY <1>1 DEF BioInv, DriverOK
<1>6. Mine(p)' /\ \A c \in Buf : Owns(p, c)' <=> Owns(p, c) \/ c = b
  BY <1>1, <1>2, <1>3, <1>4, TakenMine
<1> QED
  BY <1>1, <1>2, <1>3, <1>4, <1>5, <1>6, TakeServes

(* A delayed write goes to the driver. *)
LEMMA StartDelayedServes ==
  ASSUME BioInv, Served, BioInv', NEW p \in Proc, NEW i \in DOMAIN freelist,
         pc[p] \in {"getblk", "geteblk", "bflush"}, chan[p] = Awake,
         "DELWRI" \in flags[freelist[i]], StartDelayed(p, i)
  PROVE  Served'
<1> DEFINE b == freelist[i]
<1>1. b \in Buf /\ "BUSY" \notin flags[b] /\ "DELWRI" \in flags[b] /\ freelist # <<>>
  BY DEF BioInv, ListOK, Range
<1>2. /\ flags' = [flags EXCEPT ![b] = WriteFlags(flags[b] \cup {"BUSY", "ASYNC"})]
      /\ ioq' = ioq \cup {b} /\ frame' = [frame EXCEPT ![p].wb = b, ![p].aging = TRUE]
      /\ pc' = [pc EXCEPT ![p] = "bwrite"] /\ UNCHANGED <<blk, data, wantFree, disk, chan>>
  BY DEF StartDelayed, StartWrite, Goto
<1> HIDE DEF b
<1>3. frame[p] \in Frame /\ Mine(p) /\ FrameOK(frame[p], pc[p]) /\ Sound(b)
  BY <1>1 DEF BioInv, TypeOK, FramesOK, Served
<1>4. /\ pc'[p] = "bwrite" /\ Others(p) /\ Beside(b)
      /\ flags'[b] = WriteFlags(flags[b] \cup {"BUSY", "ASYNC"})
      /\ frame'[p] = [frame[p] EXCEPT !.wb = b, !.aging = TRUE]
  BY <1>1, <1>2, <1>3 DEF BioInv, TypeOK, Others, Beside, Frame
<1>5. /\ frame'[p].bp = frame[p].bp /\ frame'[p].op = frame[p].op /\ frame'[p].tgt = frame[p].tgt
      /\ frame[p].op # "write"
  BY <1>3, <1>4 DEF Frame, FrameOK
<1>6. /\ {"DONE", "DELWRI", "ERROR"} \cap flags'[b] = {} /\ "ASYNC" \in flags'[b]
      /\ "STALE" \in flags'[b] <=> "STALE" \in flags[b]
      /\ "WANTED" \in flags[b] => "WANTED" \in flags'[b]
  BY <1>4 DEF WriteFlags
<1>7. \A c \in Buf : (Owns(p, c) <=> frame[p].bp = c) /\ (Owns(p, c)' <=> Owns(p, c))
  BY <1>3, <1>4, <1>5 DEF Owns
<1>8. ~ Owns(p, b)
  BY <1>1 DEF BioInv, OwnersOK, OwnersBusy
<1>9. Mine(p)'
  <2>1. Sleeps(p)' /\ Told(p)'
    BY <1>2, <1>4, BioAssumption DEF Sleeps, Told
  <2>2. Waits(p)'
    BY <1>2, <1>3, <1>4, <1>5, <1>7, <1>8 DEF Mine, Waits, Beside
  <2>3. \A c \in Buf : Owns(p, c)' /\ Steady(c)' => "STALE" \notin flags'[c]
    BY <1>2, <1>3, <1>4, <1>7, <1>8 DEF Mine, Fresh, Beside, Steady
  <2>4. Fresh(p)'
    BY <1>2, <1>3, <1>4, <1>5, <1>7, <2>3 DEF Mine, Fresh
  <2> QED
    BY <1>3, <1>4, <1>5, <2>1, <2>2, <2>4 DEF Mine, Seeks, FrameOK
<1>10. CloseDev = {} /\ Steady(b) => "STALE" \notin flags[b]
  BY <1>1, <1>3 DEF Sound
<1> QED
  BY <1>1, <1>2, <1>4, <1>6, <1>7, <1>9, <1>10, StartServes


(* The end of an asynchronous bwrite(). *)
LEMMA BwriteTailServes ==
  ASSUME BioInv, Served, BioInv', NEW p \in Proc, BwriteTail(p) PROVE Served'
<1>1. /\ pc[p] = "bwrite" /\ frame[p] \in Frame /\ FrameOK(frame[p], pc[p]) /\ Mine(p)
      /\ chan[p] = Awake /\ UNCHANGED <<blk, data, freelist, wantFree, ioq, disk, chan>>
  BY DEF BwriteTail, At, Runs, BioInv, TypeOK, FramesOK, Served
<1>2. \A c \in Buf : flags'[c] = flags[c] \/ flags'[c] = flags[c] \cup {"AGE"}
  BY <1>1 DEF BwriteTail, BioInv, TypeOK
<1>3. CASE frame[p].op = "write"
  <2>1. Leave(p)
    BY <1>3 DEF BwriteTail
  <2>2. pc'[p] = "user" /\ frame'[p] = Idle /\ Others(p)
    BY <2>1, LeaveFacts DEF BioInv
  <2>3. Mine(p)' /\ \A c \in Buf : ~ Owns(p, c)'
    BY <1>1, <2>2, OutMine
  <2>4. \A c \in Buf : ~ Owns(p, c)
    BY <1>1, <1>3 DEF Owns
  <2> QED
    BY <1>1, <1>2, <2>2, <2>3, <2>4, MoveServes
<1>4. CASE frame[p].op # "write"
  <2>1. /\ frame'[p] = [frame[p] EXCEPT !.wb = NoBuf, !.aging = FALSE]
        /\ pc'[p] \in {"geteblk", "bflush", "getblk"} /\ Others(p)
    BY <1>1, <1>4 DEF BwriteTail, Goto, Others, BioInv, TypeOK, Frame
  <2>2. frame'[p].bp = frame[p].bp /\ frame'[p].op = frame[p].op /\ frame'[p].tgt = frame[p].tgt
    BY <1>1, <2>1 DEF Frame
  <2>3. \A c \in Buf : (Owns(p, c) <=> frame[p].bp = c) /\ (Owns(p, c)' <=> Owns(p, c))
    BY <1>1, <1>4, <2>1, <2>2 DEF Owns
  <2>4. Sleeps(p)' /\ Told(p)'
    BY <1>1, <2>1, BioAssumption DEF Sleeps, Told
  <2>5. Waits(p)'
    BY <1>1, <1>2, <2>1, <2>2 DEF Mine, Waits
  <2>6. Fresh(p)'
    BY <1>1, <1>2, <2>1, <2>2, <2>3 DEF Mine, Fresh, Steady
  <2>7. Mine(p)'
    BY <1>1, <2>1, <2>2, <2>4, <2>5, <2>6 DEF Mine, Seeks
  <2> QED
    BY <1>1, <1>2, <2>1, <2>3, <2>7, MoveServes
<1> QED
  BY <1>3, <1>4

(* What getblk() found becomes the buffer of its caller. *)
LEMMA Took ==
  ASSUME BioInv, Served, NEW p \in Proc, pc[p] = "got", frame[p].op # "readahead", TakeBuffer(p)
  PROVE  /\ frame[p].bp = NoBuf /\ frame[p].wb \in Buf /\ Owns(p, frame[p].wb)
         /\ Steady(frame[p].wb) => "STALE" \notin flags[frame[p].wb]
         /\ "ERROR" \notin flags[frame[p].wb] /\ frame[p].wb \notin ioq
         /\ frame'[p].bp = frame[p].wb /\ frame'[p].wb = NoBuf /\ frame'[p].op = frame[p].op
         /\ frame'[p].tgt = frame[p].tgt
         /\ blk[frame[p].wb] \in {NoBlk, frame[p].tgt}
         /\ \A q \in Proc \ {p} : frame'[q] = frame[q]
<1>1. /\ frame[p] \in Frame /\ frame[p].wb \in Buf /\ Mine(p)
      /\ frame[p].op # "geteblk" => blk[frame[p].wb] = Sought(p)
      /\ frame[p].wb \notin ioq
  BY DEF BioInv, TypeOK, FramesOK, FrameOK, FoundOK, Served, OwnersOK, OwnersIdle
<1>2. Owns(p, frame[p].wb)
  BY DEF Owns
<1>3. frame'[p] = [frame[p] EXCEPT !.bp = frame[p].wb, !.wb = NoBuf]
  BY DEF TakeBuffer, BioInv, TypeOK, Frame
<1>4. \A q \in Proc \ {p} : frame'[q] = frame[q]
  BY DEF TakeBuffer, BioInv, TypeOK
<1>5. /\ frame'[p].bp = frame[p].wb /\ frame'[p].wb = NoBuf /\ frame'[p].op = frame[p].op
      /\ frame'[p].tgt = frame[p].tgt
  BY <1>1, <1>3 DEF Frame
<1>6. (Steady(frame[p].wb) => "STALE" \notin flags[frame[p].wb]) /\ "ERROR" \notin flags[frame[p].wb]
  BY <1>1, <1>2 DEF Mine, Fresh, Told
<1>7. blk[frame[p].wb] \in {NoBlk, frame[p].tgt}
  BY <1>1 DEF Mine, Fresh, Sought
<1>8. frame[p].bp = NoBuf
  BY <1>1 DEF Mine, Seeks, BioInv, FramesOK, FrameOK
<1> QED
  BY <1>1, <1>2, <1>4, <1>5, <1>6, <1>7, <1>8

LEMMA GetblkReturnServes ==
  ASSUME BioInv, Served, BioInv', NEW p \in Proc, GetblkReturn(p) PROVE Served'
<1> DEFINE w == frame[p].wb
<1>1. /\ pc[p] = "got" /\ frame[p].op \in {"getblk", "geteblk"} /\ TakeBuffer(p)
      /\ chan[p] = Awake /\ UNCHANGED <<flags, blk, data, freelist, wantFree, ioq, disk, chan>>
      /\ pc'[p] = "hold" /\ \A q \in Proc \ {p} : pc'[q] = pc[q]
  BY DEF GetblkReturn, At, Runs, HandOver, BioInv, TypeOK, bufVars
<1>2. /\ frame[p].bp = NoBuf /\ w \in Buf /\ Owns(p, w) /\ (Steady(w) => "STALE" \notin flags[w])
      /\ "ERROR" \notin flags[w] /\ w \notin ioq
      /\ frame'[p].bp = w /\ frame'[p].wb = NoBuf /\ frame'[p].op = frame[p].op
      /\ frame'[p].tgt = frame[p].tgt /\ blk[w] \in {NoBlk, frame[p].tgt}
      /\ \A q \in Proc \ {p} : frame'[q] = frame[q]
  BY <1>1, Took
<1> HIDE DEF w
<1>3. \A c \in Buf : (Owns(p, c)' <=> c = w) /\ (Owns(p, c) <=> c = w)
  BY <1>1, <1>2, BioAssumption DEF Owns, w
<1>4. Mine(p)'
  BY <1>1, <1>2, <1>3, BioAssumption DEF Mine, Sleeps, Waits, Seeks, Fresh, Told, Steady
<1>5. Others(p)
  BY <1>1, <1>2 DEF Others
<1> QED
  BY <1>1, <1>3, <1>4, <1>5, MoveServes

LEMMA BreadGotServes ==
  ASSUME BioInv, Served, BioInv', NEW p \in Proc, BreadGot(p) PROVE Served'
<1> DEFINE w == frame[p].wb
<1>1. /\ pc[p] = "got" /\ frame[p].op \in {"bread", "breada"} /\ TakeBuffer(p)
      /\ chan[p] = Awake /\ UNCHANGED <<blk, data, freelist, wantFree, disk, chan>>
      /\ pc'[p] = (IF frame[p].op = "breada" THEN "breada" ELSE IF "DONE" \in flags[w] THEN "hold" ELSE "iowait")
      /\ \A q \in Proc \ {p} : pc'[q] = pc[q]
  BY DEF BreadGot, At, Runs, HandOver, Goto, BioInv, TypeOK
<1>2. /\ frame[p].bp = NoBuf /\ w \in Buf /\ Owns(p, w) /\ (Steady(w) => "STALE" \notin flags[w])
      /\ "ERROR" \notin flags[w] /\ w \notin ioq
      /\ frame'[p].bp = w /\ frame'[p].wb = NoBuf /\ frame'[p].op = frame[p].op
      /\ frame'[p].tgt = frame[p].tgt /\ blk[w] \in {NoBlk, frame[p].tgt}
      /\ \A q \in Proc \ {p} : frame'[q] = frame[q]
  BY <1>1, Took
<1>w. IF "DONE" \in flags[w] THEN UNCHANGED <<flags, ioq>> ELSE StartRead(w, {"READ"})
  BY DEF BreadGot
<1> HIDE DEF w
<1>3. \A c \in Buf : (Owns(p, c)' <=> c = w) /\ (Owns(p, c) <=> c = w)
  BY <1>1, <1>2, BioAssumption DEF Owns, w
<1>4. Others(p)
  BY <1>1, <1>2 DEF Others
<1>5. Sleeps(p)' /\ Seeks(p)'
  BY <1>1, <1>2, BioAssumption DEF Sleeps, Seeks
<1>6. CASE "DONE" \in flags[w]
  <2>1. Mine(p)'
    BY <1>1, <1>2, <1>3, <1>5, <1>6, <1>w DEF Mine, Waits, Fresh, Told, Steady
  <2> QED
    BY <1>1, <1>3, <1>4, <1>6, <1>w, <2>1, MoveServes
<1>7. CASE "DONE" \notin flags[w]
  <2>1. flags' = [flags EXCEPT ![w] = @ \cup {"READ"}] /\ ioq' = ioq \cup {w}
    BY <1>7, <1>w DEF StartRead
  <2>2. flags'[w] = flags[w] \cup {"READ"} /\ Beside(w)
    BY <1>1, <1>2, <2>1 DEF Beside, BioInv, TypeOK
  <2>3. Mine(p)'
    BY <1>1, <1>2, <1>3, <1>5, <1>7, <2>1, <2>2 DEF Mine, Waits, Fresh, Told, Steady
  <2>4. {"DONE", "DELWRI", "ERROR"} \cap flags'[w] = {}
    BY <1>2, <1>7, <2>2 DEF BioInv, DelayedOK
  <2> QED
    BY <1>1, <1>2, <1>3, <1>4, <2>1, <2>2, <2>3, <2>4, StartServes
<1> QED
  BY <1>6, <1>7

LEMMA ReadAheadSeekServes ==
  ASSUME BioInv, Served, BioInv', NEW p \in Proc, ReadAheadSeek(p) PROVE Served'
<1>1. /\ pc[p] = "breada" /\ chan[p] = Awake /\ frame[p].op = "breada"
      /\ UNCHANGED <<flags, blk, data, freelist, wantFree, ioq, disk, chan>>
      /\ pc'[p] = "getblk" /\ Others(p)
      /\ frame'[p] = [frame[p] EXCEPT !.op = "readahead"] /\ frame[p] \in Frame /\ Mine(p)
  BY DEF ReadAheadSeek, WantsReadAhead, At, Runs, Goto, Others, BioInv, TypeOK, bufVars, Served
<1>2. /\ frame'[p].op = "readahead" /\ frame'[p].bp = frame[p].bp /\ frame'[p].wb = frame[p].wb
      /\ frame'[p].tgt = frame[p].tgt
  BY <1>1 DEF Frame
<1>3. \A c \in Buf : Owns(p, c)' <=> Owns(p, c)
  BY <1>1, <1>2 DEF Owns
<1>4. Mine(p)'
  BY <1>1, <1>2, <1>3, BioAssumption DEF Mine, Sleeps, Waits, Seeks, Fresh, Told, Steady
<1> QED
  BY <1>1, <1>3, <1>4, MoveServes

LEMMA BreadaTailServes ==
  ASSUME BioInv, Served, BioInv', NEW p \in Proc, BreadaTail(p) PROVE Served'
<1>1. /\ pc[p] = "breada" /\ chan[p] = Awake /\ frame[p].op \in {"breada", "readahead"}
      /\ UNCHANGED <<flags, blk, data, freelist, wantFree, ioq, disk, chan>>
      /\ pc'[p] = (IF frame[p].bp = NoBuf THEN "getblk" ELSE "iowait") /\ Others(p)
      /\ frame'[p] = [frame[p] EXCEPT !.op = "bread", !.rablk = NoBlk] /\ frame[p] \in Frame /\ Mine(p)
  BY DEF BreadaTail, At, Runs, Goto, Others, BioInv, TypeOK, FramesOK, FrameOK, bufVars, Served
<1>2. /\ frame'[p].op = "bread" /\ frame'[p].bp = frame[p].bp /\ frame'[p].wb = frame[p].wb
      /\ frame'[p].tgt = frame[p].tgt
  BY <1>1 DEF Frame
<1>3. \A c \in Buf : Owns(p, c)' <=> Owns(p, c)
  BY <1>1, <1>2 DEF Owns
<1>4. Mine(p)'
  BY <1>1, <1>2, <1>3, BioAssumption DEF Mine, Sleeps, Waits, Seeks, Fresh, Told, Steady
<1> QED
  BY <1>1, <1>3, <1>4, MoveServes


LEMMA ReadAheadGotServes ==
  ASSUME BioInv, Served, BioInv', NEW p \in Proc, ReadAheadGot(p) PROVE Served'
<1> DEFINE w == frame[p].wb
<1>1. /\ pc[p] = "got" /\ frame[p].op = "readahead" /\ chan[p] = Awake /\ UNCHANGED <<blk, data, disk>>
      /\ pc'[p] = "breada" /\ frame'[p] = [frame[p] EXCEPT !.wb = NoBuf] /\ frame[p] \in Frame /\ Mine(p)
      /\ Others(p)
  BY DEF ReadAheadGot, At, Runs, Goto, Others, BioInv, TypeOK, Served
<1>2. /\ w \in Buf /\ Owns(p, w) /\ w \notin ioq /\ w # frame[p].bp /\ "ERROR" \notin flags[w]
      /\ flags[w] \in SUBSET Flag
  BY <1>1 DEF BioInv, TypeOK, FramesOK, FrameOK, OwnersOK, OwnersIdle, Owns, Mine, Told
<1>s. Steady(w) => "STALE" \notin flags[w]
  BY <1>1, <1>2 DEF Mine, Fresh
<1>r. IF "DONE" \in flags[w] THEN Brelse(w, flags[w]) /\ UNCHANGED ioq
      ELSE StartRead(w, {"READ", "ASYNC"}) /\ UNCHANGED <<freelist, wantFree, chan>>
  BY DEF ReadAheadGot
<1>3. /\ frame'[p].wb = NoBuf /\ frame'[p].bp = frame[p].bp /\ frame'[p].op = "readahead"
      /\ frame'[p].tgt = frame[p].tgt
  BY <1>1 DEF Frame
<1>4. \A c \in Buf : (Owns(p, c) <=> c = w \/ c = frame[p].bp) /\ (Owns(p, c)' <=> c = frame[p].bp)
  BY <1>1, <1>2, <1>3, BioAssumption DEF Owns, w
<1> HIDE DEF w
<1>m. ASSUME chan'[p] = Awake, \A c \in Buf \ {w} : flags'[c] = flags[c] /\ (c \in ioq => c \in ioq')
      PROVE  Mine(p)'
  <2>1. Sleeps(p)' /\ Seeks(p)' /\ Told(p)'
    BY <1>1, <1>3, <1>m, BioAssumption DEF Sleeps, Seeks, Told
  <2>2. Waits(p)'
    BY <1>1, <1>2, <1>3, <1>m DEF Mine, Waits
  <2>3. Fresh(p)'
    BY <1>1, <1>2, <1>3, <1>4, <1>m DEF Mine, Fresh, Steady
  <2> QED
    BY <2>1, <2>2, <2>3 DEF Mine
<1>5. CASE "DONE" \in flags[w]
  <2>1. Brelse(w, flags[w]) /\ ioq' = ioq
    BY <1>5, <1>r
  <2>2. \A c \in Buf \ {w} : flags'[c] = flags[c]
    BY <1>2, <2>1 DEF Brelse, BioInv, TypeOK
  <2>3. chan'[p] = Awake
    BY <1>1, <2>1 DEF Brelse, Wakeup
  <2>4. Mine(p)'
    BY <1>m, <2>1, <2>2, <2>3
  <2>5. \A c \in Buf : Owns(p, c)' <=> Owns(p, c) /\ c # w
    BY <1>2, <1>4
  <2> QED
    BY <1>1, <1>2, <2>1, <2>4, <2>5, GiveServes
<1>6. CASE "DONE" \notin flags[w]
  <2>1. flags' = [flags EXCEPT ![w] = @ \cup {"READ", "ASYNC"}] /\ ioq' = ioq \cup {w}
        /\ UNCHANGED <<freelist, wantFree, chan>>
    BY <1>6, <1>r DEF StartRead
  <2>2. flags'[w] = flags[w] \cup {"READ", "ASYNC"} /\ Beside(w)
    BY <1>1, <1>2, <2>1 DEF Beside, BioInv, TypeOK
  <2>3. Mine(p)'
    BY <1>1, <1>m, <2>1, <2>2 DEF Beside
  <2>4. {"DONE", "DELWRI", "ERROR"} \cap flags'[w] = {}
    BY <1>2, <1>6, <2>2 DEF BioInv, DelayedOK
  <2>5. \A c \in Buf \ {w} : Owns(p, c)' <=> Owns(p, c)
    BY <1>4
  <2> QED
    BY <1>1, <1>2, <1>s, <2>1, <2>2, <2>3, <2>4, <2>5, StartServes
<1> QED
  BY <1>5, <1>6

(* iowait() *)
LEMMA IowaitSleepServes ==
  ASSUME BioInv, Served, BioInv', NEW p \in Proc, IowaitSleep(p) PROVE Served'
<1>1. /\ pc[p] = "iowait" /\ "DONE" \notin flags[frame[p].bp] /\ Mine(p) /\ frame[p].bp \in Buf
      /\ UNCHANGED <<pc, frame, flags, blk, data, freelist, wantFree, ioq, disk>>
      /\ chan'[p] = frame[p].bp /\ \A q \in Proc \ {p} : chan'[q] = chan[q]
  BY DEF IowaitSleep, At, SleepOn, BioInv, TypeOK, FramesOK, FrameOK, Served, bufVars
<1>2. \A c \in Buf : Owns(p, c)' <=> Owns(p, c)
  BY <1>1 DEF Owns
<1>3. Mine(p)'
  <2>1. Sleeps(p)'
    BY <1>1, BioAssumption DEF Sleeps
  <2>2. Waits(p)' /\ Seeks(p)' /\ Told(p)'
    BY <1>1 DEF Mine, Waits, Seeks, Told
  <2>3. Fresh(p)'
    BY <1>1, <1>2 DEF Mine, Fresh, Steady
  <2> QED
    BY <2>1, <2>2, <2>3 DEF Mine
<1>4. Others(p)
  BY <1>1 DEF Others
<1> QED
  BY <1>1, <1>2, <1>3, <1>4, MoveServes

LEMMA IowaitReadServes ==
  ASSUME BioInv, Served, BioInv', NEW p \in Proc, IowaitRead(p) PROVE Served'
<1>1. /\ pc[p] = "iowait" /\ chan[p] = Awake /\ Mine(p) /\ frame[p].bp \in Buf /\ frame[p] \in Frame
      /\ UNCHANGED <<flags, blk, data, freelist, wantFree, ioq, disk, chan>>
      /\ pc'[p] = "hold" /\ Others(p) /\ frame[p].op = "bread"
      /\ frame'[p] = [frame[p] EXCEPT !.uerror = "ERROR" \in flags[frame[p].bp]]
  BY DEF IowaitRead, At, Runs, HandOver, Others, BioInv, TypeOK, FramesOK, FrameOK, Served, bufVars
<1>2. /\ frame'[p].op = "bread" /\ frame'[p].bp = frame[p].bp /\ frame'[p].wb = frame[p].wb
      /\ frame'[p].tgt = frame[p].tgt
      /\ frame'[p].uerror <=> "ERROR" \in flags[frame[p].bp]
  BY <1>1 DEF Frame
<1>3. \A c \in Buf : Owns(p, c)' <=> Owns(p, c)
  BY <1>1, <1>2 DEF Owns
<1>4. Mine(p)'
  BY <1>1, <1>2, <1>3, BioAssumption DEF Mine, Sleeps, Waits, Seeks, Fresh, Told, Steady
<1> QED
  BY <1>1, <1>3, <1>4, MoveServes

(* brelse() by the owner, on its way out. *)
LEMMA ReleaseServes ==
  ASSUME BioInv, Served, BioInv', NEW p \in Proc, NEW b \in Buf, b = frame[p].bp,
         pc[p] \in {"iowait", "hold"}, chan[p] = Awake, b \notin ioq,
         NEW F \in SUBSET Flag, Brelse(b, F), Leave(p), UNCHANGED <<blk, ioq, disk>>,
         \A c \in Buf \ {b} : data'[c] = data[c], flags[b] \subseteq F,
         \/ F = flags[b] /\ data'[b] = data[b]
         \/ F = flags[b] \cup {"DELWRI", "DONE"} /\ data'[b] \in Val
  PROVE  Served'
<1>1. pc'[p] = "user" /\ frame'[p] = Idle /\ Others(p)
  BY LeaveFacts DEF BioInv
<1>2. chan'[p] = Awake
  BY DEF Brelse, Wakeup
<1>3. Mine(p)' /\ \A c \in Buf : ~ Owns(p, c)'
  BY <1>1, <1>2, OutMine
<1>4. \A c \in Buf : Owns(p, c) <=> c = b
  BY DEF Owns
<1> QED
  BY <1>1, <1>3, <1>4, GiveServes

LEMMA IowaitWriteServes ==
  ASSUME BioInv, Served, BioInv', NEW p \in Proc, IowaitWrite(p) PROVE Served'
<1> DEFINE b == frame[p].bp
<1>1. b \in Buf /\ pc[p] = "iowait" /\ chan[p] = Awake /\ flags[b] \in SUBSET Flag /\ b \notin ioq
  BY DEF IowaitWrite, At, Runs, BioInv, TypeOK, FramesOK, FrameOK, DriverOK
<1>2. Brelse(b, flags[b]) /\ Leave(p) /\ UNCHANGED <<blk, data, ioq, disk>>
  BY DEF IowaitWrite
<1> QED
  BY <1>1, <1>2, ReleaseServes

LEMMA ReleaseHeldServes ==
  ASSUME BioInv, Served, BioInv', NEW p \in Proc, ReleaseHeld(p) PROVE Served'
<1> DEFINE b == frame[p].bp
<1>1. b \in Buf /\ pc[p] = "hold" /\ chan[p] = Awake /\ flags[b] \in SUBSET Flag /\ b \notin ioq
  BY DEF ReleaseHeld, At, Runs, BioInv, TypeOK, FramesOK, FrameOK, OwnersOK, OwnersIdle
<1>2. Brelse(b, flags[b]) /\ Leave(p) /\ UNCHANGED <<blk, data, ioq, disk>>
  BY DEF ReleaseHeld
<1> QED
  BY <1>1, <1>2, ReleaseServes

LEMMA BdwriteServes ==
  ASSUME BioInv, Served, BioInv', NEW p \in Proc, Bdwrite(p) PROVE Served'
<1> DEFINE b == frame[p].bp
           F == flags[b] \cup {"DELWRI", "DONE"}
<1>1. b \in Buf /\ pc[p] = "hold" /\ chan[p] = Awake /\ F \in SUBSET Flag /\ b \notin ioq
  BY DEF Bdwrite, Writable, At, Runs, BioInv, TypeOK, FramesOK, FrameOK, OwnersOK, OwnersIdle, Flag
<1>2. Brelse(b, F) /\ Leave(p) /\ UNCHANGED <<blk, ioq, disk>>
  BY DEF Bdwrite
<1>3. data'[b] \in Val /\ \A c \in Buf \ {b} : data'[c] = data[c]
  BY <1>1 DEF Bdwrite, BioInv, TypeOK
<1>4. flags[b] \subseteq F /\ F = flags[b] \cup {"DELWRI", "DONE"}
  OBVIOUS
<1> HIDE DEF b, F
<1>5. b = frame[p].bp
  BY DEF b
<1> QED
  BY <1>1, <1>2, <1>3, <1>4, <1>5, ReleaseServes


(* bwrite() and bawrite() of a buffer somebody holds. *)
LEMMA WriteHeldServes ==
  ASSUME BioInv, Served, BioInv', NEW p \in Proc, NEW F \in SUBSET Flag,
         NEW b \in Buf, b = frame[p].bp, flags[b] \subseteq F, F \subseteq flags[b] \cup {"AGE", "ASYNC"},
         WriteHeld(p, F)
  PROVE  Served'
<1>1. /\ pc[p] = "hold" /\ chan[p] = Awake /\ frame[p] \in Frame /\ Mine(p)
      /\ b \notin ioq /\ Owns(p, b)
  BY DEF WriteHeld, Writable, At, Runs, BioInv, TypeOK, FramesOK, FrameOK, OwnersOK, OwnersIdle, Owns, Served
<1>2. /\ \E v \in Val : data' = [data EXCEPT ![b] = v]
      /\ flags' = [flags EXCEPT ![b] = WriteFlags(F)] /\ ioq' = ioq \cup {b}
      /\ frame' = [frame EXCEPT ![p].op = "write", ![p].wb = b, ![p].aging = "DELWRI" \in F]
      /\ pc' = [pc EXCEPT ![p] = IF "ASYNC" \in F THEN "bwrite" ELSE "iowait"]
      /\ UNCHANGED <<blk, freelist, wantFree, disk, chan>>
  BY DEF WriteHeld, StartWrite, Goto
<1>f. flags[b] \subseteq F /\ F \subseteq flags[b] \cup {"AGE", "ASYNC"}
  OBVIOUS
<1>3. /\ flags'[b] = WriteFlags(F) /\ Beside(b) /\ Others(p)
      /\ pc'[p] = (IF "ASYNC" \in F THEN "bwrite" ELSE "iowait")
  BY <1>1, <1>2 DEF Beside, Others, BioInv, TypeOK
<1>4. /\ frame'[p].op = "write" /\ frame'[p].bp = b /\ frame'[p].wb = b
      /\ frame'[p].tgt = frame[p].tgt
  BY <1>1, <1>2 DEF BioInv, TypeOK, Frame
<1>5. /\ {"DONE", "DELWRI", "ERROR"} \cap flags'[b] = {}
      /\ "STALE" \in flags'[b] <=> "STALE" \in flags[b]
      /\ "WANTED" \in flags[b] => "WANTED" \in flags'[b]
      /\ "ASYNC" \in flags'[b] <=> "ASYNC" \in F
  BY <1>3, <1>f DEF WriteFlags
<1>6. \A c \in Buf : (Owns(p, c) <=> c = b) /\ (Owns(p, c)' <=> c = b /\ "ASYNC" \notin F)
  BY <1>1, <1>3, <1>4 DEF Owns
<1>7. (Steady(b) => "STALE" \notin flags[b]) /\ blk[b] \in {NoBlk, frame[p].tgt}
  BY <1>1 DEF Mine, Fresh
<1>8. Mine(p)'
  <2>1. Sleeps(p)' /\ Seeks(p)' /\ Told(p)'
    BY <1>1, <1>2, <1>3, <1>4, BioAssumption DEF Sleeps, Seeks, Told
  <2>2. Waits(p)'
    BY <1>2, <1>4 DEF Waits
  <2>3. Fresh(p)'
    BY <1>2, <1>3, <1>4, <1>5, <1>6, <1>7 DEF Fresh, Steady
  <2> QED
    BY <2>1, <2>2, <2>3 DEF Mine
<1>9. \A c \in Buf \ {b} : Owns(p, c)' <=> Owns(p, c)
  BY <1>6
<1>10. Owns(p, b)' \/ "ASYNC" \in flags'[b]
  BY <1>1, <1>5, <1>6
<1> QED
  BY SMTT(30), <1>1, <1>2, <1>3, <1>5, <1>7, <1>8, <1>9, <1>10, StartServes

(* bflush() ends: nobody has a buffer of the device that is closed. *)
LEMMA BflushReturnServes ==
  ASSUME BioInv, ServeInv, BioInv', NEW p \in Proc, BflushReturn(p) PROVE Served'
<1>1. /\ pc[p] = "bflush" /\ chan[p] = Awake /\ Leave(p) /\ Served /\ Closing(p)
      /\ FrameOK(frame[p], pc[p])
      /\ UNCHANGED <<blk, data, freelist, wantFree, ioq, disk, chan>>
  BY DEF BflushReturn, At, Runs, ServeInv, BioInv, FramesOK
<1>2. pc'[p] = "user" /\ frame'[p] = Idle /\ Others(p)
  BY <1>1, LeaveFacts DEF BioInv
<1>3. Mine(p)' /\ \A c \in Buf : ~ Owns(p, c)'
  BY <1>1, <1>2, OutMine
<1>4. \A c \in Buf : ~ Owns(p, c)
  BY <1>1, BioAssumption DEF FrameOK, Owns
<1>5. \A c \in Buf : \/ flags'[c] = flags[c]
                     \/ /\ flags'[c] = flags[c] \cup {"STALE", "AGE"} /\ frame[p].op = "close"
                        /\ blk[c] # NoBlk /\ DevOf[blk[c]] \in frame[p].scope
  BY DEF BflushReturn, Binval
<1>6. ASSUME NEW c \in Buf, "STALE" \in flags'[c], "STALE" \notin flags[c]
      PROVE  CloseDev # {} /\ \A q \in Proc \ {p} : ~ Owns(q, c)
  <2>1. frame[p].op = "close" /\ blk[c] \in Block /\ DevOf[blk[c]] \in frame[p].scope
    BY <1>5, <1>6 DEF BioInv, TypeOK
  <2>2. ASSUME NEW q \in Proc \ {p}, Owns(q, c) PROVE FALSE
    <3>1. ~ Using(q, DevOf[blk[c]])
      BY <1>1, <2>1 DEF Closing
    <3>2. blk[c] \notin {frame[q].tgt, frame[q].rablk}
      BY <2>1, <3>1 DEF Using
    <3>3. Mine(q) /\ FrameOK(frame[q], pc[q])
      BY <1>1 DEF Served, BioInv, FramesOK
    <3>4. CASE frame[q].bp = c
      BY <2>1, <2>2, <3>2, <3>3, <3>4, BioAssumption DEF Mine, Fresh
    <3>5. CASE frame[q].wb = c /\ pc[q] = "got"
      <4>1. frame[q].op = "geteblk" => blk[c] = NoBlk
        BY <3>3, <3>5 DEF Mine, Fresh
      <4>2. frame[q].op # "geteblk" => blk[c] = Sought(q)
        BY <3>5 DEF BioInv, FoundOK
      <4> QED
        BY <2>1, <3>2, <4>1, <4>2, BioAssumption DEF Sought
    <3> QED
      BY <2>2, <3>4, <3>5 DEF Owns
  <2> QED
    BY <1>1, <2>1, <2>2 DEF Closing
<1>7. \A c \in Buf : flags[c] \subseteq flags'[c] /\ flags'[c] \subseteq flags[c] \cup {"WANTED", "AGE", "STALE"}
  BY <1>5
<1> QED
  BY <1>1, <1>2, <1>3, <1>4, <1>6, <1>7, MoveServes

(* The interrupt. *)
LEMMA CompleteServes ==
  ASSUME BioInv, Served, BioInv', NEW b \in Buf, Complete(b) PROVE Served'
<1> DEFINE F == flags[b] \cup {"DONE"}
<1>1. b \in ioq /\ blk[b] \in Block /\ ("READ" \notin flags[b] => data[b] \in Val) /\ disk \in [Block -> Val]
  BY DEF Complete, BioInv, DriverOK, TypeOK
<1>2. /\ data'[b] \in Val /\ data'[b] = disk'[blk[b]] /\ \A c \in Buf \ {b} : data'[c] = data[c]
      /\ \A k \in Block : disk'[k] # disk[k] => k = blk[b]
  BY <1>1 DEF Complete, BioInv, TypeOK
<1>3. Iodone(b, F) /\ F \in SUBSET Flag /\ ioq' = ioq \ {b} /\ UNCHANGED <<blk, cpu, pc, frame>>
  BY DEF Complete, BioInv, TypeOK, Flag
<1>4. F = flags[b] \cup {"DONE"}
  OBVIOUS
<1> HIDE DEF F
<1> QED
  BY <1>1, <1>2, <1>3, <1>4, IodoneServes

LEMMA FailServes ==
  ASSUME BioInv, Served, BioInv', NEW b \in Buf, Fail(b) PROVE Served'
<1> DEFINE F == flags[b] \cup {"ERROR", "DONE"}
<1>1. b \in ioq /\ disk' = disk /\ \A c \in Buf \ {b} : data'[c] = data[c]
  BY DEF Fail, BioInv, TypeOK
<1>2. Iodone(b, F) /\ F \in SUBSET Flag /\ ioq' = ioq \ {b} /\ UNCHANGED <<blk, cpu, pc, frame>>
  BY DEF Fail, BioInv, TypeOK, Flag
<1>3. F = flags[b] \cup {"ERROR", "DONE"}
  OBVIOUS
<1> HIDE DEF F
<1> QED
  BY <1>1, <1>2, <1>3, IodoneServes


LEMMA StepServes ==
  ASSUME BioInv, Looking, ServeInv, BioInv', NEW p \in Proc, Step(p) PROVE Served'
<1>0. Served /\ FoundFresh(p)
  BY DEF ServeInv
<1>1. CASE Seek(p)
  <2>1. CASE GetblkFind(p) \/ GetblkBusy(p) \/ GetblkHit(p) \/ NoFreeBuffer(p)
    BY <1>0, <2>1, GetblkFindServes, GetblkBusyServes, GetblkHitServes, NoFreeBufferServes
  <2>2. CASE EvictDelayed(p)
    <3>1. 1 \in DOMAIN freelist /\ Head(freelist) = freelist[1]
      BY <2>2, LenProperties, EmptySeq DEF EvictDelayed, BioInv, TypeOK
    <3>2. pc[p] \in {"getblk", "geteblk"} /\ chan[p] = Awake
      BY <2>2 DEF EvictDelayed, AtFreelist, At, Runs
    <3> QED
      BY <1>0, <2>2, <3>1, <3>2, StartDelayedServes DEF EvictDelayed
  <2>3. CASE GetblkReassign(p)
    <3>1. pc[p] = "getblk" /\ chan[p] = Awake /\ Reassign(p, Sought(p), {"BUSY"})
      BY <2>3 DEF GetblkReassign, At, Runs
    <3> QED
      BY <1>0, <3>1, ReassignServes
  <2>4. CASE GeteblkReassign(p)
    <3>1. pc[p] = "geteblk" /\ chan[p] = Awake /\ Reassign(p, NoBlk, {"BUSY", "AGE"})
      BY <2>4 DEF GeteblkReassign, At, Runs
    <3> QED
      BY <1>0, <3>1, ReassignServes
  <2> QED
    BY <1>1, <2>1, <2>2, <2>3, <2>4 DEF Seek
<1>2. CASE Transfer(p)
  BY <1>0, <1>2, BwriteTailServes, GetblkReturnServes, BreadGotServes, ReadAheadSeekServes,
     ReadAheadGotServes, BreadaTailServes, IowaitSleepServes, IowaitReadServes, IowaitWriteServes
     DEF Transfer
<1>3. CASE GiveBack(p)
  <2>1. CASE ReleaseHeld(p) \/ Bdwrite(p)
    BY <1>0, <2>1, ReleaseHeldServes, BdwriteServes
  <2>2. CASE Bwrite(p) \/ Bawrite(p)
    <3>1. PICK b \in Buf : b = frame[p].bp /\ flags[b] \in SUBSET Flag
      BY <2>2 DEF Bwrite, Bawrite, WriteHeld, Writable, At, BioInv, TypeOK, FramesOK, FrameOK
    <3>2. \E F \in SUBSET Flag : /\ flags[b] \subseteq F /\ F \subseteq flags[b] \cup {"AGE", "ASYNC"}
                                 /\ WriteHeld(p, F)
      <4>1. CASE Bwrite(p)
        BY <3>1, <4>1 DEF Bwrite
      <4>2. CASE Bawrite(p)
        <5> DEFINE F == flags[b] \cup {"AGE"} \cup (IF Len(freelist) > BawriteFree THEN {"ASYNC"} ELSE {})
        <5>1. F \in SUBSET Flag /\ flags[b] \subseteq F /\ F \subseteq flags[b] \cup {"AGE", "ASYNC"}
          BY <3>1 DEF Flag
        <5>2. WriteHeld(p, F)
          BY <3>1, <4>2 DEF Bawrite
        <5> QED
          BY <5>1, <5>2
      <4> QED
        BY <2>2, <4>1, <4>2
    <3> QED
      BY <1>0, <3>1, <3>2, WriteHeldServes
  <2> QED
    BY <1>3, <2>1, <2>2 DEF GiveBack
<1>4. CASE Flush(p)
  <2>1. CASE BflushWrite(p)
    <3>1. PICK i \in Delayed(frame[p].scope) : StartDelayed(p, i)
      BY <2>1 DEF BflushWrite
    <3>2. /\ i \in DOMAIN freelist /\ "DELWRI" \in flags[freelist[i]] /\ pc[p] = "bflush"
          /\ chan[p] = Awake
      BY <2>1, <3>1 DEF Delayed, BflushWrite, At, Runs
    <3> QED
      BY <1>0, <3>1, <3>2, StartDelayedServes
  <2>2. CASE BflushReturn(p)
    BY <2>2, BflushReturnServes
  <2> QED
    BY <1>4, <2>1, <2>2 DEF Flush
<1> QED
  BY <1>1, <1>2, <1>3, <1>4 DEF Step

------------------------------------------------------------------------------
(* Nobody moves while bflush() works, and nobody begins to use a device    *)
(* that is being closed.                                                   *)
LEMMA ClosingKept ==
  ASSUME \A q \in Proc : Closing(q), NEW p \in Proc, Runs(p), Others(p),
         \/ pc'[p] \notin {"bflush", "bwrite"} /\ frame'[p].op # "close"
         \/ pc'[p] = "bwrite" /\ frame'[p].op = "write"
         \/ /\ cpu' = p /\ pc'[p] \in {"bflush", "bwrite"}
            /\ frame'[p].op = "close" => CloseDev # {} /\ \A q \in Proc \ {p} : \A d \in frame'[p].scope : ~ Using(q, d)
  PROVE  \A q \in Proc : Closing(q)'
<1>1. ASSUME NEW q \in Proc \ {p}, NEW d PROVE Using(q, d)' <=> Using(q, d)
  BY DEF Others, Using
<1>2. ASSUME NEW q \in Proc \ {p} PROVE Closing(q)'
  <2>1. cpu # q
    BY BioAssumption DEF Runs
  <2> QED
    BY <2>1 DEF Others, Closing
<1>3. Closing(p)'
  BY <1>1 DEF Closing
<1> QED
  BY <1>2, <1>3

LEMMA ClosingStep ==
  ASSUME BioInv, \A q \in Proc : Closing(q), NEW p \in Proc, Enter(p) \/ Step(p)
  PROVE  \A q \in Proc : Closing(q)'
<1>0. /\ frame[p] \in Frame /\ pc \in [Proc -> Pc] /\ frame \in [Proc -> Frame] /\ Closing(p)
      /\ FrameOK(frame[p], pc[p])
  BY DEF BioInv, TypeOK, FramesOK
<1>1. ASSUME NEW f, NEW l, Call(p, f, l), l \in {"getblk", "geteblk", "breada"} /\ f.op # "close"
      PROVE  \A q \in Proc : Closing(q)'
  <2>1. Runs(p) /\ Others(p) /\ pc'[p] = l /\ frame'[p] = f
    BY <1>0, <1>1 DEF Call, At, Goto, Others
  <2> QED
    BY <1>1, <2>1, ClosingKept
<1>2. CASE CallBread(p) \/ CallBreada(p) \/ CallGetblk(p) \/ CallGeteblk(p)
  <2>1. /\ \A k \in Block : /\ [Idle EXCEPT !.op = "bread", !.tgt = k].op # "close"
                            /\ [Idle EXCEPT !.op = "getblk", !.tgt = k].op # "close"
                            /\ \A r \in Block : [Idle EXCEPT !.op = "breada", !.tgt = k, !.rablk = r].op # "close"
        /\ [Idle EXCEPT !.op = "geteblk"].op # "close"
    BY DEF Idle
  <2>2. CASE CallBread(p) \/ CallGetblk(p) \/ CallGeteblk(p)
    BY <1>1, <2>1, <2>2 DEF CallBread, CallGetblk, CallGeteblk
  <2>3. CASE CallBreada(p)
    <3>1. PICK k \in Block, r \in Block, l \in {"breada", "getblk"} :
            Call(p, [Idle EXCEPT !.op = "breada", !.tgt = k, !.rablk = r], l)
      BY <2>3 DEF CallBreada
    <3> QED
      BY <1>1, <2>1, <3>1
  <2> QED
    BY <1>2, <2>2, <2>3
<1>3. CASE CallSync(p) \/ CallClose(p)
  <2>1. PICK o \in {"sync", "close"}, D \in SUBSET Dev :
          /\ Call(p, [Idle EXCEPT !.op = o, !.scope = D], "bflush")
          /\ o = "close" => CloseDev # {} /\ \A q \in Proc : \A d \in D : ~ Using(q, d)
    <3>1. CASE CallSync(p)
      BY <3>1 DEF CallSync
    <3>2. CASE CallClose(p)
      <4>1. PICK d \in CloseDev : /\ \A q \in Proc : ~ Using(q, d)
                                  /\ Call(p, [Idle EXCEPT !.op = "close", !.scope = {d}], "bflush")
        BY <3>2 DEF CallClose
      <4>2. {d} \in SUBSET Dev
        BY BioAssumption
      <4>3. \A q \in Proc : \A e \in {d} : ~ Using(q, e)
        BY <4>1
      <4> QED
        BY <4>1, <4>2, <4>3
    <3> QED
      BY <1>3, <3>1, <3>2
  <2>2. /\ Runs(p) /\ Others(p) /\ pc'[p] = "bflush" /\ cpu' = p
        /\ frame'[p] = [Idle EXCEPT !.op = o, !.scope = D]
    BY <1>0, <2>1 DEF Call, At, Goto, Others
  <2>3. frame'[p].op = o /\ frame'[p].scope = D
    BY <2>2 DEF Idle
  <2> QED
    BY <2>1, <2>2, <2>3, ClosingKept
<1>4. ASSUME Runs(p), pc[p] \in {"getblk", "found", "geteblk", "got", "breada", "iowait", "hold"}, Others(p),
             pc'[p] \notin {"bflush", "bwrite"}, frame'[p].op \in {frame[p].op, "readahead", "bread"}
      PROVE  \A q \in Proc : Closing(q)'
  <2>1. frame[p].op # "close"
    BY <1>0, <1>4 DEF Closing
  <2>2. frame'[p].op # "close"
    BY <1>4, <2>1
  <2> QED
    BY <1>4, <2>2, ClosingKept
<1>5. ASSUME Runs(p), Leave(p) PROVE \A q \in Proc : Closing(q)'
  <2>1. Others(p) /\ pc'[p] = "user" /\ frame'[p].op = "none"
    BY <1>5, LeaveFacts DEF BioInv, Idle
  <2> QED
    BY <1>5, <2>1, ClosingKept
<1>6. ASSUME NEW i, StartDelayed(p, i), Runs(p) PROVE \A q \in Proc : Closing(q)'
  <2>1. /\ pc'[p] = "bwrite" /\ cpu' = p /\ Others(p)
        /\ frame'[p].op = frame[p].op /\ frame'[p].scope = frame[p].scope
    BY <1>0, <1>6 DEF StartDelayed, Goto, Others, Frame
  <2> QED
    BY <1>0, <1>6, <2>1, ClosingKept DEF Closing
<1>7. CASE Seek(p)
  <2>1. CASE NoFreeBuffer(p)
    <3>1. /\ Runs(p) /\ pc[p] \in {"getblk", "geteblk"} /\ UNCHANGED <<pc, frame>>
      BY <2>1 DEF NoFreeBuffer, AtFreelist, At, SleepOn
    <3> QED
      BY <1>4, <3>1 DEF Others
  <2>4. CASE GetblkHit(p)
    <3>1. /\ Runs(p) /\ pc[p] = "found" /\ Goto(p, "got") /\ UNCHANGED frame
      BY <2>4 DEF GetblkHit, At
    <3>2. Others(p) /\ pc'[p] = "got" /\ frame'[p].op = frame[p].op
      BY <1>0, <3>1 DEF Goto, Others
    <3> QED
      BY <1>4, <3>1, <3>2
  <2>2. CASE GetblkFind(p) \/ GetblkBusy(p) \/ GetblkReassign(p) \/ GeteblkReassign(p)
    <3>1. PICK b \in Buf \cup {Head(freelist), NoBuf}, l \in {"got", "found", "getblk"} :
            /\ Runs(p) /\ pc[p] \in {"getblk", "found", "geteblk"} /\ pc' = [pc EXCEPT ![p] = l]
            /\ frame' = [frame EXCEPT ![p].wb = b]
      BY <2>2 DEF GetblkFind, GetblkBusy, GetblkReassign, GeteblkReassign, Reassign, At, Match, Goto
    <3>2. Others(p) /\ pc'[p] = l /\ frame'[p].op = frame[p].op
      BY <1>0, <3>1 DEF Others, Frame
    <3> QED
      BY <1>4, <3>1, <3>2
  <2>3. CASE EvictDelayed(p)
    BY <1>6, <2>3 DEF EvictDelayed, AtFreelist, At
  <2> QED
    BY <1>7, <2>1, <2>2, <2>3, <2>4 DEF Seek
<1>8. CASE Transfer(p)
  <2>1. CASE GetblkReturn(p) \/ BreadGot(p)
    <3>1. /\ Runs(p) /\ pc[p] = "got" /\ TakeBuffer(p)
          /\ Goto(p, "breada") \/ HandOver(p) \/ Goto(p, "iowait")
      BY <2>1 DEF GetblkReturn, BreadGot, At
    <3>2. Others(p) /\ pc'[p] \notin {"bflush", "bwrite"} /\ frame'[p].op = frame[p].op
      BY <1>0, <3>1 DEF Goto, HandOver, TakeBuffer, Others, Frame
    <3> QED
      BY <1>4, <3>1, <3>2
  <2>2. CASE ReadAheadSeek(p) \/ BreadaTail(p)
    <3>1. /\ Runs(p) /\ pc[p] = "breada"
          /\ \/ frame' = [frame EXCEPT ![p].op = "readahead"]
             \/ frame' = [frame EXCEPT ![p].op = "bread", ![p].rablk = NoBlk]
          /\ Goto(p, "getblk") \/ Goto(p, "iowait")
      BY <2>2 DEF ReadAheadSeek, BreadaTail, At
    <3>2. Others(p) /\ pc'[p] \notin {"bflush", "bwrite"} /\ frame'[p].op \in {"readahead", "bread"}
      BY <1>0, <3>1 DEF Goto, Others, Frame
    <3> QED
      BY <1>4, <3>1, <3>2
  <2>3. CASE ReadAheadGot(p)
    <3>1. /\ Runs(p) /\ pc[p] = "got" /\ frame' = [frame EXCEPT ![p].wb = NoBuf] /\ Goto(p, "breada")
      BY <2>3 DEF ReadAheadGot, At
    <3>2. Others(p) /\ pc'[p] = "breada" /\ frame'[p].op = frame[p].op
      BY <1>0, <3>1 DEF Goto, Others, Frame
    <3> QED
      BY <1>4, <3>1, <3>2
  <2>4. CASE IowaitSleep(p)
    <3>1. Runs(p) /\ pc[p] = "iowait" /\ UNCHANGED <<pc, frame>>
      BY <2>4 DEF IowaitSleep, SleepOn, At
    <3> QED
      BY <1>4, <3>1 DEF Others
  <2>5. CASE IowaitRead(p)
    <3> DEFINE e == "ERROR" \in flags[frame[p].bp]
    <3>1. Runs(p) /\ pc[p] = "iowait" /\ frame' = [frame EXCEPT ![p].uerror = e] /\ HandOver(p)
      BY <2>5 DEF IowaitRead, At
    <3> HIDE DEF e
    <3>2. Others(p) /\ pc'[p] = "hold" /\ frame'[p].op = frame[p].op
      BY <1>0, <3>1 DEF HandOver, Others, Frame
    <3> QED
      BY <1>4, <3>1, <3>2
  <2>6. CASE IowaitWrite(p)
    BY <1>5, <2>6 DEF IowaitWrite, At
  <2>7. CASE BwriteTail(p)
    <3>1. Runs(p) /\ pc[p] = "bwrite"
      BY <2>7 DEF BwriteTail, At
    <3>2. CASE frame[p].op = "write"
      BY <1>5, <2>7, <3>1, <3>2 DEF BwriteTail
    <3>3. CASE frame[p].op # "write"
      <4>1. PICK l \in {"getblk", "geteblk", "bflush"} :
              /\ Goto(p, l) /\ frame' = [frame EXCEPT ![p].wb = NoBuf, ![p].aging = FALSE]
              /\ frame[p].op = "close" => l = "bflush"
        BY <2>7, <3>3 DEF BwriteTail
      <4>2. /\ pc'[p] = l /\ cpu' = p /\ Others(p)
            /\ frame'[p].op = frame[p].op /\ frame'[p].scope = frame[p].scope
        BY <1>0, <4>1 DEF Goto, Others, Frame
      <4>3. CASE l = "bflush"
        BY <1>0, <3>1, <4>2, <4>3, ClosingKept DEF Closing
      <4>4. CASE l # "bflush"
        BY <3>1, <4>1, <4>2, <4>4, ClosingKept
      <4> QED
        BY <4>3, <4>4
    <3> QED
      BY <3>2, <3>3
  <2> QED
    BY <1>8, <2>1, <2>2, <2>3, <2>4, <2>5, <2>6, <2>7 DEF Transfer
<1>9. CASE GiveBack(p)
  <2>1. CASE ReleaseHeld(p) \/ Bdwrite(p)
    BY <1>5, <2>1 DEF ReleaseHeld, Bdwrite, Writable, At
  <2>2. CASE Bwrite(p) \/ Bawrite(p)
    <3>0. PICK F : WriteHeld(p, F)
      BY <2>2 DEF Bwrite, Bawrite
    <3> DEFINE l == IF "ASYNC" \in F THEN "bwrite" ELSE "iowait"
               a == "DELWRI" \in F
    <3>1. /\ Runs(p) /\ Goto(p, l) /\ l \in {"bwrite", "iowait"}
          /\ frame' = [frame EXCEPT ![p].op = "write", ![p].wb = frame[p].bp, ![p].aging = a]
      BY <3>0 DEF WriteHeld, Writable, At
    <3> HIDE DEF l, a
    <3>2. Others(p) /\ pc'[p] = l /\ frame'[p].op = "write"
      BY <1>0, <3>1 DEF Goto, Others, Frame
    <3> QED
      BY <3>1, <3>2, ClosingKept
  <2> QED
    BY <1>9, <2>1, <2>2 DEF GiveBack
<1>10. CASE Flush(p)
  BY <1>5, <1>6, <1>10 DEF Flush, BflushWrite, BflushReturn, At
<1>11. CASE Enter(p)
  BY <1>2, <1>3, <1>11 DEF Enter
<1> QED
  BY <1>7, <1>8, <1>9, <1>10, <1>11 DEF Step

(* The buffer that was found does not become stale before spl6() if the    *)
(* device does not fail.                                                   *)
LEMMA FoundFreshStep ==
  ASSUME BioInv, Looking, ServeInv, NEW p \in Proc, Enter(p) \/ Step(p)
  PROVE  \A q \in Proc : FoundFresh(q)'
<1>1. /\ Runs(p) /\ \A q \in Proc \ {p} : pc'[q] = pc[q]
      /\ GetblkFind(p) \/ pc'[p] # "found"
  BY FindsAlone
<1>2. \A q \in Proc \ {p} : pc'[q] # "found"
  BY <1>1, BioAssumption DEF Looking, Runs
<1>3. CASE GetblkFind(p)
  <2>1. PICK b \in Buf : "STALE" \notin flags[b] /\ frame' = [frame EXCEPT ![p].wb = b]
    BY <1>3 DEF GetblkFind, Match
  <2>2. frame[p] \in Frame /\ flags' = flags /\ frame'[p] = [frame[p] EXCEPT !.wb = b]
    BY <1>3, <2>1 DEF GetblkFind, bufVars, BioInv, TypeOK
  <2>3. frame'[p].wb = b
    BY <2>2 DEF Frame
  <2> QED
    BY <1>2, <2>1, <2>2, <2>3 DEF FoundFresh
<1> QED
  BY <1>1, <1>2, <1>3 DEF FoundFresh

LEMMA FoundFreshDone ==
  ASSUME BioInv, ServeInv, NEW b \in Buf, Complete(b) \/ Fail(b), NEW q \in Proc
  PROVE  FoundFresh(q)'
<1>1. SUFFICES ASSUME pc[q] = "found", Steady(frame[q].wb)
               PROVE  "STALE" \notin flags'[frame[q].wb]
  BY DEF FoundFresh, Steady, Complete, Fail
<1>2. PICK c \in Buf : c = frame[q].wb /\ Steady(c) /\ "STALE" \notin flags[c]
  BY <1>1 DEF BioInv, FramesOK, FrameOK, ServeInv, FoundFresh
<1>3. PICK F \in SUBSET Flag : /\ b \in ioq /\ Iodone(b, F)
                               /\ \/ F = flags[b] \cup {"DONE"}
                                  \/ F = flags[b] \cup {"ERROR", "DONE"} /\ DevOf[blk[b]] \in FailDev
  <2>1. flags[b] \cup {"DONE"} \in SUBSET Flag /\ flags[b] \cup {"ERROR", "DONE"} \in SUBSET Flag
    BY DEF BioInv, TypeOK, Flag
  <2> QED
    BY <2>1 DEF Complete, Fail
<1>4. /\ \A d \in Buf \ {b} : flags'[d] = flags[d]
      /\ "STALE" \in flags'[b] => "STALE" \in flags[b] \/ "ERROR" \in F
  <2>1. CASE "ASYNC" \in F
    <3>1. flags' = [flags EXCEPT ![b] = Released(F)]
      BY <1>3, <2>1 DEF Iodone, Brelse
    <3> QED
      BY <1>3, <3>1 DEF BioInv, TypeOK, Released, Judged
  <2>2. CASE "ASYNC" \notin F
    <3>1. flags' = [flags EXCEPT ![b] = F \ {"WANTED"}]
      BY <1>3, <2>2 DEF Iodone
    <3> QED
      BY <1>3, <3>1 DEF BioInv, TypeOK
  <2> QED
    BY <2>1, <2>2
<1>5. CASE c # b
  BY <1>2, <1>4, <1>5
<1>6. CASE c = b
  <2>1. blk[b] \in Block /\ "ERROR" \notin flags[b]
    BY <1>3 DEF BioInv, DriverOK, ServeInv, Served, Sound
  <2>2. DevOf[blk[b]] \notin FailDev
    BY <1>2, <1>6, <2>1, BioAssumption DEF Steady
  <2> QED
    BY <1>2, <1>3, <1>4, <1>6, <2>1, <2>2
<1> QED
  BY <1>5, <1>6

(* No step ends the invariant, and it holds when binit() is done. *)
LEMMA ServeNext ==
  ASSUME BioInv, Looking, ServeInv, [Next]_vars PROVE ServeInv'
<1>0. BioInv' /\ Served /\ \A q \in Proc : Closing(q)
  BY NextInv DEF ServeInv
<1>1. ASSUME NEW p \in Proc, Enter(p) \/ Step(p) PROVE ServeInv'
  BY <1>0, <1>1, EnterServes, StepServes, ClosingStep, FoundFreshStep DEF ServeInv
<1>2. ASSUME NEW b \in Buf, Complete(b) \/ Fail(b) PROVE ServeInv'
  <2>1. UNCHANGED <<cpu, pc, frame>>
    BY <1>2 DEF Complete, Fail
  <2>2. \A q \in Proc : Closing(q)'
    BY <1>0, <2>1 DEF Closing, Using
  <2>3. \A q \in Proc : FoundFresh(q)'
    BY <1>2, FoundFreshDone
  <2> QED
    BY <1>0, <1>2, <2>2, <2>3, CompleteServes, FailServes DEF ServeInv
<1>3. CASE UNCHANGED vars
  <2> USE <1>0, <1>3 DEF vars, bufVars, procVars
  <2>1. BusyOwned' /\ \A q \in Proc : Mine(q)'
    BY DEF Served, BusyOwned, Owns, Mine, Sleeps, Waits, Seeks, Fresh, Told, Steady
  <2>2. (\A b \in Buf : Sound(b)') /\ \A q \in Proc : Closing(q)' /\ FoundFresh(q)'
    BY DEF ServeInv, Served, Sound, Steady, Closing, Using, FoundFresh
  <2> QED
    BY <2>1, <2>2 DEF ServeInv, Served
<1> QED
  BY <1>1, <1>2, <1>3 DEF Next, Interrupt

LEMMA ServeInit == ASSUME Init PROVE ServeInv
<1> USE BioAssumption
<1>1. /\ \A p \in Proc : pc[p] = "user" /\ frame[p] = Idle /\ chan[p] = Awake
      /\ \A b \in Buf : flags[b] = {} /\ b \notin ioq
  BY DEF Init
<1>2. BusyOwned /\ \A b \in Buf : Sound(b)
  BY <1>1 DEF BusyOwned, Sound
<1>3. \A p \in Proc : Mine(p) /\ Closing(p) /\ FoundFresh(p)
  BY <1>1 DEF Idle, Mine, Sleeps, Waits, Seeks, Fresh, Told, Owns, Closing, FoundFresh
<1> QED
  BY <1>2, <1>3 DEF ServeInv, Served


(* Whatever the order of calls, transfers and interrupts, what the callers *)
(* of the buffer cache rely on holds.                                      *)
THEOREM ServeInvariance == Spec => [](BioInv /\ Looking /\ ServeInv)
<1>1. Init => BioInv /\ Looking /\ ServeInv
  BY InitInv, ServeInit DEF Init, Looking
<1>2. (BioInv /\ Looking /\ ServeInv) /\ [Next]_vars => (BioInv /\ Looking /\ ServeInv)'
  BY NextInv, LookingNext, ServeNext
<1> QED
  BY <1>1, <1>2, PTL DEF Spec

------------------------------------------------------------------------------
(* What follows from the invariant. *)

(* B_BUSY means one owner: between getblk() and brelse() one process, and  *)
(* between bawrite() or a read-ahead and iodone() the driver.  No buffer   *)
(* is lost: a busy one has somebody to release it.                         *)
THEOREM BusyMeansOwned == Spec => []OneOwner
<1>1. ASSUME BioInv, ServeInv PROVE OneOwner
  <2>1. BusyOwned /\ OwnersBusy /\ OwnersAlone /\ DriverOK /\ ioq \subseteq Buf
    BY <1>1 DEF ServeInv, Served, BioInv, OwnersOK, TypeOK
  <2>2. ASSUME NEW b \in Buf
        PROVE  "BUSY" \in flags[b] <=> \/ \E p \in Proc : Owns(p, b)
                                       \/ b \in ioq /\ "ASYNC" \in flags[b]
    BY <2>1 DEF BusyOwned, OwnersBusy, DriverOK
  <2>3. ASSUME NEW b \in Buf, b \in ioq /\ "ASYNC" \in flags[b] PROVE \A p \in Proc : ~ Owns(p, b)
    BY <2>1, <2>3 DEF OwnersBusy
  <2> QED
    BY <2>1, <2>2, <2>3 DEF OneOwner, OwnersAlone
<1> QED
  BY <1>1, ServeInvariance, PTL

(* No wakeup is lost in getblk(), geteblk() and iowait(), although         *)
(* brelse() and iodone() clear B_WANTED and the interrupt may come between *)
(* any two steps.                                                          *)
THEOREM SleepersServed == Spec => []NoLostWakeup
<1>1. ASSUME BioInv, ServeInv, NEW p \in Proc
      PROVE  /\ chan[p] \in Buf /\ pc[p] = "iowait" => chan[p] \in ioq /\ "ASYNC" \notin flags[chan[p]]
             /\ chan[p] \in Buf /\ pc[p] = "getblk" => {"BUSY", "WANTED"} \subseteq flags[chan[p]]
             /\ chan[p] = FreeList => wantFree /\ freelist = <<>>
  <2>1. Served /\ Sleeps(p) /\ Waits(p)
    BY <1>1 DEF ServeInv, Served, Mine
  <2>2. ASSUME chan[p] \in Buf, pc[p] = "iowait"
        PROVE  chan[p] \in ioq /\ "ASYNC" \notin flags[chan[p]]
    <3>1. Owns(p, chan[p]) /\ "DONE" \notin flags[chan[p]] /\ chan[p] = frame[p].bp
      BY <1>1, <2>1, <2>2, SleepersOf
    <3>2. chan[p] \in ioq
      BY <2>1, <2>2, <3>1 DEF Waits
    <3> QED
      BY <1>1, <2>2, <3>1, <3>2 DEF BioInv, OwnersOK, OwnersBusy
  <2> QED
    BY <2>1, <2>2 DEF Sleeps
<1>2. ASSUME BioInv, ServeInv PROVE NoLostWakeup
  BY <1>1, <1>2 DEF NoLostWakeup
<1> QED
  BY <1>2, ServeInvariance, PTL

(* An error nobody waited for, of a read-ahead or a delayed write, leaves  *)
(* no bad contents without a mark: a DONE buffer that is not stale and     *)
(* whose holder was told no error has contents of its block.               *)
THEOREM GoodContents == Spec => []NoGarbage
<1>1. ASSUME BioInv, ServeInv, NEW p \in Proc, NEW b \in Buf, b = frame[p].bp,
             pc[p] = "hold", "DONE" \in flags[b], "STALE" \notin flags[b], ~ frame[p].uerror
      PROVE  data[b] # Garbage /\ "ERROR" \notin flags[b]
  <2>1. Mine(p) /\ Sound(b)
    BY <1>1 DEF ServeInv, Served
  <2>2. "ERROR" \notin flags[b]
    BY <1>1, <2>1 DEF Mine, Told
  <2> QED
    BY <1>1, <2>1, <2>2, BioAssumption DEF Sound
<1>2. ASSUME BioInv, NEW p \in Proc, pc[p] = "hold" PROVE frame[p].bp \in Buf
  BY <1>2 DEF BioInv, FramesOK, FrameOK
<1>3. ASSUME BioInv, ServeInv PROVE NoGarbage
  BY <1>1, <1>2, <1>3 DEF NoGarbage
<1> QED
  BY <1>3, ServeInvariance, PTL

(* After binval() of a device that was closed nobody is handed what was in *)
(* a buffer before, and no error of another device takes a buffer's        *)
(* contents from its users.                                                *)
THEOREM NothingStale == Spec => []StaleNotServed
<1>1. ASSUME BioInv, ServeInv, NEW p \in Proc, pc[p] = "hold", Steady(frame[p].bp)
      PROVE  "STALE" \notin flags[frame[p].bp]
  <2>1. frame[p].bp \in Buf /\ Owns(p, frame[p].bp) /\ Fresh(p)
    BY <1>1 DEF BioInv, FramesOK, FrameOK, Owns, ServeInv, Served, Mine
  <2> QED
    BY <1>1, <2>1 DEF Fresh
<1>2. BioInv /\ ServeInv => StaleNotServed
  BY <1>1 DEF StaleNotServed
<1> QED
  BY <1>2, ServeInvariance, PTL


------------------------------------------------------------------------------
(* The cache as a store of blocks.  A block has the contents of the one    *)
(* buffer that speaks for it, or those on its device.                      *)
Speaks(b, k) == b \in Match(k) /\ Valid(b)

(* The buffers of blocks that are kept are steady. *)
LEMMA KeptSteady ==
  ASSUME NEW b \in Buf, blk[b] \in Kept
  PROVE  Steady(b) /\ blk[b] \in Block /\ blk[b] # NoBlk
BY BioAssumption DEF Kept, Steady

LEMMA ContentsNow ==
  ASSUME BioInv, NEW k \in Kept
  PROVE  /\ \A b \in Buf : Speaks(b, k) => Contents(k) = data[b]
         /\ (\A b \in Buf : ~ Speaks(b, k)) => Contents(k) = disk[k]
<1> DEFINE V == {b \in Match(k) : Valid(b)}
<1>1. Contents(k) = IF V = {} THEN disk[k] ELSE data[CHOOSE b \in V : TRUE]
  BY DEF Contents
<1>2. \A b \in Buf : b \in V <=> Speaks(b, k)
  BY DEF Speaks, Match
<1>3. V \subseteq Buf
  BY DEF Match
<1>4. \A a, b \in V : a = b
  BY KeptSteady DEF BioInv, OneBufferPerBlock, Match
<1> HIDE DEF V
<1>5. ASSUME NEW b \in Buf, Speaks(b, k) PROVE Contents(k) = data[b]
  <2>1. b \in V
    BY <1>2, <1>5
  <2>2. (CHOOSE c \in V : TRUE) \in V
    BY <2>1
  <2> QED
    BY <1>1, <1>4, <2>1, <2>2
<1>6. ASSUME \A b \in Buf : ~ Speaks(b, k) PROVE Contents(k) = disk[k]
  <2>1. V = {}
    BY <1>2, <1>3, <1>6
  <2> QED
    BY <1>1, <2>1
<1> QED
  BY <1>5, <1>6

(* The same of the next state. *)
LEMMA ContentsNext ==
  ASSUME BioInv', NEW k \in Kept
  PROVE  /\ \A b \in Buf : Speaks(b, k)' => Contents(k)' = data'[b]
         /\ (\A b \in Buf : ~ Speaks(b, k)') => Contents(k)' = disk'[k]
<1> DEFINE V == {b \in Match(k)' : Valid(b)'}
<1>1. Contents(k)' = IF V = {} THEN disk'[k] ELSE data'[CHOOSE b \in V : TRUE]
  BY DEF Contents
<1>2. \A b \in Buf : b \in V <=> Speaks(b, k)'
  BY DEF Speaks, Match
<1>3. V \subseteq Buf
  BY DEF Match
<1>4. \A a, b \in V : a = b
  BY BioAssumption DEF BioInv, OneBufferPerBlock, Match, Kept
<1> HIDE DEF V
<1>5. ASSUME NEW b \in Buf, Speaks(b, k)' PROVE Contents(k)' = data'[b]
  <2>1. b \in V
    BY <1>2, <1>5
  <2>2. (CHOOSE c \in V : TRUE) \in V
    BY <2>1
  <2> QED
    BY <1>1, <1>4, <2>1, <2>2
<1>6. ASSUME \A b \in Buf : ~ Speaks(b, k)' PROVE Contents(k)' = disk'[k]
  <2>1. V = {}
    BY <1>2, <1>3, <1>6
  <2> QED
    BY <1>1, <2>1
<1> QED
  BY <1>5, <1>6

(* A buffer may begin or cease to speak while it says what the device does. *)
LEMMA ContentsKept ==
  ASSUME BioInv, BioInv', NEW b \in Buf, Beside(b), NEW k \in Kept,
         Speaks(b, k)' => data'[b] = IF Speaks(b, k) THEN data[b] ELSE disk[k],
         Speaks(b, k) /\ ~ Speaks(b, k)' => data[b] = disk[k],
         disk'[k] = disk[k] \/ Speaks(b, k)'
  PROVE  Contents(k)' = Contents(k)
<1>1. \A c \in Buf \ {b} : (Speaks(c, k)' <=> Speaks(c, k)) /\ data'[c] = data[c]
  BY DEF Beside, Speaks, Match, Valid
<1>2. CASE \E c \in Buf \ {b} : Speaks(c, k)
  BY <1>1, <1>2, ContentsNow, ContentsNext
<1>3. CASE \A c \in Buf \ {b} : ~ Speaks(c, k)
  <2>1. \A c \in Buf \ {b} : ~ Speaks(c, k)'
    BY <1>1, <1>3
  <2>2. Contents(k) = IF Speaks(b, k) THEN data[b] ELSE disk[k]
    BY <1>3, ContentsNow
  <2>3. Contents(k)' = IF Speaks(b, k)' THEN data'[b] ELSE disk'[k]
    BY <2>1, ContentsNext
  <2> QED
    BY <2>2, <2>3
<1> QED
  BY <1>2, <1>3

(* Who keeps his buffer sees what he saw, unless its contents change.      *)
LEMMA KeepsSeeing ==
  ASSUME NEW q \in Proc, pc'[q] = pc[q], frame'[q] = frame[q],
         pc[q] = "hold" => \E c \in Buf : /\ c = frame[q].bp /\ (Valid(c)' <=> Valid(c))
                                          /\ blk'[c] = blk[c] /\ data'[c] = data[c]
  PROVE  UserBlock(q)' = UserBlock(q) /\ UserSees(q)' = UserSees(q)
<1>1. CASE pc[q] # "hold"
  BY <1>1 DEF UserBlock, UserSees
<1>2. CASE pc[q] = "hold"
  <2>1. PICK c \in Buf : /\ c = frame[q].bp /\ (Valid(c)' <=> Valid(c))
                         /\ blk'[c] = blk[c] /\ data'[c] = data[c]
    BY <1>2
  <2>2. /\ UserBlock(q) = IF blk[c] \in Kept THEN blk[c] ELSE NoBlk
        /\ UserBlock(q)' = IF blk'[c] \in Kept THEN blk'[c] ELSE NoBlk
    BY <1>2, <2>1 DEF UserBlock
  <2>3. /\ UserSees(q) = IF UserBlock(q) # NoBlk /\ Valid(c) /\ ~ frame[q].uerror THEN data[c] ELSE Garbage
        /\ UserSees(q)' = IF UserBlock(q)' # NoBlk /\ Valid(c)' /\ ~ frame[q].uerror THEN data'[c] ELSE Garbage
    BY <1>2, <2>1 DEF UserSees
  <2> QED
    BY <2>1, <2>2, <2>3
<1> QED
  BY <1>1, <1>2

LEMMA OthersSee ==
  ASSUME BioInv, NEW p \in Proc, Others(p), NEW b \in Buf, Beside(b), "BUSY" \notin flags[b] \/ Owns(p, b),
         NEW q \in Proc \ {p}
  PROVE  UserBlock(q)' = UserBlock(q) /\ UserSees(q)' = UserSees(q)
<1>1. pc'[q] = pc[q] /\ frame'[q] = frame[q]
  BY DEF Others
<1>2. ASSUME pc[q] = "hold"
      PROVE  \E c \in Buf : /\ c = frame[q].bp /\ (Valid(c)' <=> Valid(c))
                            /\ blk'[c] = blk[c] /\ data'[c] = data[c]
  <2>1. PICK c \in Buf : c = frame[q].bp /\ Owns(q, c)
    BY <1>2 DEF BioInv, FramesOK, FrameOK, Owns
  <2>2. c # b
    BY <2>1 DEF BioInv, OwnersOK, OwnersBusy, OwnersAlone
  <2> QED
    BY <2>1, <2>2 DEF Beside, Valid
<1> QED
  BY <1>1, <1>2, KeepsSeeing

(* Flags that do not say what a buffer holds do not matter. *)
LEMMA QuietStore ==
  ASSUME BioInv, BioInv', UNCHANGED <<blk, data, ioq, disk>>,
         \A c \in Buf, x \in {"STALE", "DONE", "ERROR", "READ"} : x \in flags'[c] <=> x \in flags[c]
  PROVE  /\ \A k \in Kept : Contents(k)' = Contents(k)
         /\ \A q \in Proc : pc'[q] = pc[q] /\ frame'[q] = frame[q] =>
              UserBlock(q)' = UserBlock(q) /\ UserSees(q)' = UserSees(q)
<1>1. \A c \in Buf : Valid(c)' <=> Valid(c)
  BY DEF Valid
<1>2. \A c \in Buf, k \in Kept : Speaks(c, k)' <=> Speaks(c, k)
  BY <1>1 DEF Speaks, Match
<1>3. ASSUME NEW k \in Kept PROVE Contents(k)' = Contents(k)
  <2>1. CASE \E c \in Buf : Speaks(c, k)
    BY <1>2, <2>1, ContentsNow, ContentsNext
  <2>2. CASE \A c \in Buf : ~ Speaks(c, k)
    BY <1>2, <2>2, ContentsNow, ContentsNext
  <2> QED
    BY <2>1, <2>2
<1>4. \A q \in Proc : pc[q] = "hold" => frame[q].bp \in Buf
  BY DEF BioInv, FramesOK, FrameOK
<1> QED
  BY <1>1, <1>3, <1>4, KeepsSeeing

(* A step nobody sees. *)
LEMMA HiddenStep ==
  ASSUME \A k \in Kept : Contents(k)' = Contents(k) /\ disk'[k] = disk[k],
         NEW p \in Proc, pc[p] # "hold", pc'[p] # "hold",
         \A q \in Proc \ {p} : UserBlock(q)' = UserBlock(q) /\ UserSees(q)' = UserSees(q)
  PROVE  UNCHANGED Store!store
<1>1. UserBlock(p)' = UserBlock(p) /\ UserSees(p)' = UserSees(p)
  BY DEF UserBlock, UserSees
<1> QED
  BY <1>1 DEF Store!store

LEMMA QuietStep ==
  ASSUME BioInv, BioInv', UNCHANGED <<blk, data, ioq, disk>>,
         \A c \in Buf, x \in {"STALE", "DONE", "ERROR", "READ"} : x \in flags'[c] <=> x \in flags[c],
         NEW p \in Proc, Others(p), pc[p] # "hold", pc'[p] # "hold"
  PROVE  UNCHANGED Store!store
BY QuietStore, HiddenStep DEF Others

(* p is handed the buffer b that it owns. *)
LEMMA AcquireStep ==
  ASSUME BioInv, Served, BioInv', UNCHANGED <<flags, blk, data, ioq, disk>>,
         NEW p \in Proc, NEW b \in Buf, Owns(p, b), Others(p),
         pc[p] # "hold", pc'[p] = "hold", frame'[p].bp = b
  PROVE  [Store!Next]_(Store!store)
<1>1. /\ \A k \in Kept : Contents(k)' = Contents(k)
      /\ \A q \in Proc \ {p} : UserBlock(q)' = UserBlock(q) /\ UserSees(q)' = UserSees(q)
  BY QuietStore DEF Others
<1>2. /\ UserBlock(p) = NoBlk /\ UserSees(p) = Garbage
      /\ UserBlock(p)' = IF blk[b] \in Kept THEN blk[b] ELSE NoBlk
  BY DEF UserBlock, UserSees
<1>3. UserSees(p)' \in {Garbage, data[b]} /\ (UserSees(p)' # Garbage => Valid(b) /\ blk[b] \in Kept)
  BY <1>2 DEF UserSees, Valid
<1>4. CASE blk[b] \notin Kept
  <2>1. UserBlock(p)' = UserBlock(p) /\ UserSees(p)' = UserSees(p)
    BY <1>2, <1>3, <1>4
  <2> QED
    BY <1>1, <2>1 DEF Store!store
<1>5. CASE blk[b] \in Kept
  <2>1. PICK k \in Kept : k = blk[b]
    BY <1>5
  <2>2. "STALE" \notin flags[b] /\ k # NoBlk
    BY <1>5, <2>1, KeptSteady DEF Served, Mine, Fresh
  <2>3. ASSUME NEW q \in Proc, UserBlock(q) = k PROVE FALSE
    <3>1. q # p /\ pc[q] = "hold"
      BY <1>2, <2>2, <2>3 DEF UserBlock
    <3>2. PICK c \in Buf : c = frame[q].bp /\ Owns(q, c)
      BY <3>1 DEF BioInv, FramesOK, FrameOK, Owns
    <3>3. blk[c] = k
      BY <2>2, <2>3, <3>1, <3>2 DEF UserBlock
    <3>4. "STALE" \notin flags[c]
      BY <3>2, <3>3, KeptSteady DEF Served, Mine, Fresh
    <3>5. c # b
      BY <3>1, <3>2 DEF BioInv, OwnersOK, OwnersAlone
    <3> QED
      BY <2>1, <2>2, <3>3, <3>4, <3>5 DEF BioInv, OneBufferPerBlock
  <2>4. UserSees(p)' \in {Contents(k), Garbage}
    BY <1>3, <2>1, <2>2, ContentsNow DEF Speaks, Match
  <2>5. UserBlock(p)' = k
    BY <1>2, <2>1
  <2>6. Store!Acquire(p, k)
    BY <1>1, <1>2, <2>3, <2>4, <2>5 DEF Store!Acquire
  <2> QED
    BY <2>6 DEF Store!Next
<1> QED
  BY <1>4, <1>5


(* A step about one buffer, which p has or takes but was not handed. *)
LEMMA BesideStep ==
  ASSUME BioInv, BioInv', NEW p \in Proc, Others(p), pc[p] # "hold", pc'[p] # "hold", disk' = disk,
         NEW b \in Buf, Beside(b), "BUSY" \notin flags[b] \/ Owns(p, b),
         \A k \in Kept : /\ Speaks(b, k)' => data'[b] = IF Speaks(b, k) THEN data[b] ELSE disk[k]
                         /\ Speaks(b, k) /\ ~ Speaks(b, k)' => data[b] = disk[k]
  PROVE  UNCHANGED Store!store
BY ContentsKept, OthersSee, HiddenStep

(* What brelse() leaves speaks if it was done without an error. *)
LEMMA BrelseSpeaks ==
  ASSUME BioInv, NEW b \in Buf, b \notin ioq, NEW F \in SUBSET Flag, Brelse(b, F),
         UNCHANGED <<blk, ioq>>, NEW k \in Kept
  PROVE  /\ Speaks(b, k)' <=> blk[b] = k /\ "DONE" \in F /\ "STALE" \notin F /\ "ERROR" \notin F
         /\ Speaks(b, k) <=> blk[b] = k /\ "DONE" \in flags[b] /\ "STALE" \notin flags[b] /\ "ERROR" \notin flags[b]
<1>1. flags'[b] = Released(F)
  BY DEF Brelse, BioInv, TypeOK
<1>2. "STALE" \in Released(F) <=> "STALE" \in F \/ "ERROR" \in F
  BY DEF Released, Judged
<1>3. "DONE" \in Released(F) <=> "DONE" \in F
  BY DEF Released, Judged
<1>4. "ERROR" \notin Released(F)
  BY DEF Released, Judged
<1> QED
  BY <1>1, <1>2, <1>3, <1>4 DEF Speaks, Match, Valid

LEMMA BrelseBeside ==
  ASSUME BioInv, NEW b \in Buf, NEW F \in SUBSET Flag, Brelse(b, F),
         UNCHANGED <<blk, ioq>>, \A c \in Buf \ {b} : data'[c] = data[c]
  PROVE  Beside(b)
BY BrelseLeaves DEF BioInv, Beside

LEMMA GetblkHitStep ==
  ASSUME BioInv, Looking, BioInv', NEW p \in Proc, GetblkHit(p) PROVE UNCHANGED Store!store
<1>1. PICK b \in Buf : /\ "BUSY" \notin flags[b] /\ pc[p] = "found"
                       /\ flags' = [flags EXCEPT ![b] = @ \cup {"BUSY"}]
                       /\ pc' = [pc EXCEPT ![p] = "got"]
                       /\ UNCHANGED <<blk, data, wantFree, ioq, disk, frame>>
  BY HitFacts
<1>2. /\ flags'[b] = flags[b] \cup {"BUSY"} /\ Beside(b) /\ Others(p) /\ pc'[p] = "got"
      /\ data'[b] = data[b] /\ blk'[b] = blk[b] /\ (b \in ioq' <=> b \in ioq)
  BY <1>1 DEF Beside, Others, BioInv, TypeOK
<1>3. \A k \in Kept : Speaks(b, k)' <=> Speaks(b, k)
  BY <1>2 DEF Speaks, Match, Valid
<1> QED
  BY <1>1, <1>2, <1>3, BesideStep

(* A delayed write says the same on its way to the device. *)
LEMMA StartDelayedStep ==
  ASSUME BioInv, Served, BioInv', CloseDev = {}, NEW p \in Proc, NEW i \in DOMAIN freelist,
         pc[p] \in {"getblk", "geteblk", "bflush"}, "DELWRI" \in flags[freelist[i]], StartDelayed(p, i)
  PROVE  UNCHANGED Store!store
<1>1. PICK b \in Buf : b = freelist[i]
  BY DEF BioInv, TypeOK
<1>2. "BUSY" \notin flags[b]
  BY <1>1 DEF BioInv, ListOK, Range
<1>3. /\ flags' = [flags EXCEPT ![b] = WriteFlags(flags[b] \cup {"BUSY", "ASYNC"})]
      /\ ioq' = ioq \cup {b} /\ pc' = [pc EXCEPT ![p] = "bwrite"]
      /\ frame' = [frame EXCEPT ![p].wb = b, ![p].aging = TRUE]
      /\ UNCHANGED <<blk, data, disk>>
  BY <1>1 DEF StartDelayed, StartWrite, Goto
<1>4. /\ flags'[b] = WriteFlags(flags[b] \cup {"BUSY", "ASYNC"}) /\ b \in ioq'
      /\ Beside(b) /\ Others(p) /\ pc'[p] = "bwrite" /\ data'[b] = data[b] /\ blk'[b] = blk[b]
  BY <1>3 DEF Beside, Others, BioInv, TypeOK
<1>5. "DONE" \in flags[b] /\ "ERROR" \notin flags[b]
  BY <1>1, <1>2 DEF Served, Sound, BioInv, DelayedOK
<1>6. "READ" \notin flags'[b] /\ ("STALE" \in flags'[b] <=> "STALE" \in flags[b])
  BY <1>4 DEF WriteFlags
<1>7. \A k \in Kept : Speaks(b, k)' <=> Speaks(b, k)
  BY <1>4, <1>5, <1>6 DEF Speaks, Match, Valid
<1> QED
  BY <1>2, <1>3, <1>4, <1>7, BesideStep

(* A clean buffer that is reassigned said what the device does. *)
LEMMA ReassignStep ==
  ASSUME BioInv, Served, BioInv', CloseDev = {}, NEW p \in Proc, pc[p] \in {"getblk", "geteblk"},
         NEW k, NEW F, F \in {{"BUSY"}, {"BUSY", "AGE"}}, Reassign(p, k, F)
  PROVE  UNCHANGED Store!store
<1>1. PICK b \in Buf : b = Head(freelist) /\ b = freelist[1] /\ 1 \in DOMAIN freelist
  BY LenProperties, EmptySeq DEF Reassign, BioInv, TypeOK
<1>2. "BUSY" \notin flags[b] /\ "DELWRI" \notin flags[b]
  BY <1>1 DEF BioInv, ListOK, Range, Reassign
<1>3. /\ flags' = [flags EXCEPT ![b] = F] /\ blk' = [blk EXCEPT ![b] = k]
      /\ data' = [data EXCEPT ![b] = Garbage] /\ frame' = [frame EXCEPT ![p].wb = b]
      /\ pc' = [pc EXCEPT ![p] = "got"] /\ UNCHANGED <<ioq, disk>>
  BY <1>1 DEF Reassign, Goto
<1>4. flags'[b] = F /\ Beside(b) /\ Others(p) /\ pc'[p] = "got"
  BY <1>3 DEF Beside, Others, BioInv, TypeOK
<1>5. b \notin ioq
  BY <1>2 DEF BioInv, DriverOK
<1>6. \A j \in Kept : ~ Speaks(b, j)'
  BY <1>3, <1>4, <1>5 DEF Speaks, Match, Valid
<1>7. \A j \in Kept : Speaks(b, j) => data[b] = disk[j]
  <2>1. ASSUME NEW j \in Kept, Speaks(b, j) PROVE data[b] = disk[j]
    <3>1. Sound(b) /\ blk[b] = j
      BY <2>1 DEF Served, Speaks, Match
    <3>2. Steady(b) /\ blk[b] \in Block
      BY <3>1, KeptSteady
    <3> QED
      BY <1>2, <1>5, <2>1, <3>1, <3>2 DEF Speaks, Match, Valid, Sound
  <2> QED
    BY <2>1
<1> QED
  BY <1>2, <1>3, <1>4, <1>6, <1>7, BesideStep

(* A read that begins. *)
LEMMA ReadStep ==
  ASSUME BioInv, BioInv', NEW p \in Proc, Others(p), pc[p] = "got", pc'[p] # "hold", NEW b \in Buf,
         b = frame[p].wb, "DONE" \notin flags[b], NEW F, "READ" \in F, {"DONE", "STALE"} \cap F = {},
         StartRead(b, F), UNCHANGED <<blk, data, disk>>
  PROVE  UNCHANGED Store!store
<1>1. Owns(p, b) /\ b \notin ioq
  BY DEF Owns, BioInv, OwnersOK, OwnersIdle
<1>2. flags'[b] = flags[b] \cup F /\ Beside(b)
  BY DEF StartRead, Beside, BioInv, TypeOK
<1>3. \A k \in Kept : ~ Speaks(b, k) /\ ~ Speaks(b, k)'
  BY <1>1, <1>2 DEF Speaks, Valid
<1> QED
  BY <1>1, <1>2, <1>3, BesideStep


(* bread(), breada() and getblk() hand over a buffer, or go on without. *)
LEMMA GotStep ==
  ASSUME BioInv, Served, BioInv', NEW p \in Proc, GetblkReturn(p) \/ BreadGot(p)
  PROVE  [Store!Next]_(Store!store)
<1>1. /\ pc[p] = "got" /\ frame[p] \in Frame /\ frame[p].wb \in Buf
      /\ frame' = [frame EXCEPT ![p].bp = frame[p].wb, ![p].wb = NoBuf]
      /\ UNCHANGED <<blk, data, disk>>
  BY DEF GetblkReturn, BreadGot, At, TakeBuffer, BioInv, TypeOK, FramesOK, FrameOK, bufVars
<1>2. PICK b \in Buf : b = frame[p].wb
  BY <1>1
<1>3. PICK l \in {"hold", "breada", "iowait"} : pc' = [pc EXCEPT ![p] = l]
  BY DEF GetblkReturn, BreadGot, HandOver, Goto
<1>4. pc'[p] = l /\ Others(p) /\ frame'[p].bp = b /\ Owns(p, b)
  BY <1>1, <1>2, <1>3 DEF Others, Frame, Owns, BioInv, TypeOK
<1>5. CASE l = "hold"
  <2>1. UNCHANGED <<flags, ioq>>
    <3>1. CASE GetblkReturn(p)
      BY <3>1 DEF GetblkReturn, bufVars
    <3>2. CASE BreadGot(p)
      <4>1. ~ Goto(p, "breada") /\ ~ Goto(p, "iowait")
        BY <1>4, <1>5 DEF Goto, BioInv, TypeOK
      <4> QED
        BY <3>2, <4>1 DEF BreadGot
    <3> QED
      BY <3>1, <3>2
  <2> QED
    BY <1>1, <1>4, <1>5, <2>1, AcquireStep
<1>6. CASE l # "hold"
  <2>1. BreadGot(p)
    BY <1>4, <1>6, <1>1 DEF GetblkReturn, HandOver, BioInv, TypeOK
  <2>2. CASE "DONE" \in flags[b]
    <3>1. UNCHANGED <<flags, ioq>>
      BY <1>2, <2>1, <2>2 DEF BreadGot
    <3> QED
      BY <1>1, <1>4, <1>6, <3>1, QuietStep
  <2>3. CASE "DONE" \notin flags[b]
    <3>1. StartRead(b, {"READ"})
      BY <1>2, <2>1, <2>3 DEF BreadGot
    <3> QED
      BY <1>1, <1>2, <1>4, <1>6, <2>3, <3>1, ReadStep
  <2> QED
    BY <2>2, <2>3
<1> QED
  BY <1>5, <1>6

LEMMA ReadAheadGotStep ==
  ASSUME BioInv, Served, BioInv', NEW p \in Proc, ReadAheadGot(p) PROVE UNCHANGED Store!store
<1>1. /\ pc[p] = "got" /\ frame[p] \in Frame /\ frame[p].wb \in Buf
      /\ frame' = [frame EXCEPT ![p].wb = NoBuf] /\ pc' = [pc EXCEPT ![p] = "breada"]
      /\ UNCHANGED <<blk, data, disk>>
  BY DEF ReadAheadGot, At, Goto, BioInv, TypeOK, FramesOK, FrameOK
<1>2. PICK b \in Buf : b = frame[p].wb
  BY <1>1
<1>3. pc'[p] = "breada" /\ Others(p) /\ Owns(p, b) /\ b \notin ioq /\ flags[b] \in SUBSET Flag
  BY <1>1, <1>2 DEF Others, Owns, BioInv, TypeOK, OwnersOK, OwnersIdle
<1>4. CASE "DONE" \in flags[b]
  <2>1. Brelse(b, flags[b]) /\ ioq' = ioq
    BY <1>2, <1>4 DEF ReadAheadGot
  <2>2. Beside(b)
    BY <1>1, <1>3, <2>1, BrelseBeside
  <2>3. \A k \in Kept : Speaks(b, k)' <=> Speaks(b, k)
    BY <1>1, <1>3, <2>1, BrelseSpeaks
  <2> QED
    BY <1>1, <1>3, <2>2, <2>3, BesideStep
<1>5. CASE "DONE" \notin flags[b]
  <2>1. StartRead(b, {"READ", "ASYNC"})
    BY <1>2, <1>5 DEF ReadAheadGot
  <2> QED
    BY <1>1, <1>2, <1>3, <1>5, <2>1, ReadStep
<1> QED
  BY <1>4, <1>5

LEMMA IowaitReadStep ==
  ASSUME BioInv, Served, BioInv', NEW p \in Proc, IowaitRead(p) PROVE [Store!Next]_(Store!store)
<1> DEFINE e == "ERROR" \in flags[frame[p].bp]
<1>1. /\ pc[p] = "iowait" /\ frame[p] \in Frame /\ frame[p].bp \in Buf
      /\ frame' = [frame EXCEPT ![p].uerror = e] /\ pc' = [pc EXCEPT ![p] = "hold"]
      /\ UNCHANGED <<flags, blk, data, ioq, disk>>
  BY DEF IowaitRead, At, HandOver, BioInv, TypeOK, FramesOK, FrameOK, bufVars
<1> HIDE DEF e
<1>2. PICK b \in Buf : b = frame[p].bp
  BY <1>1
<1>3. pc'[p] = "hold" /\ Others(p) /\ frame'[p].bp = b /\ Owns(p, b)
  BY <1>1, <1>2 DEF Others, Frame, Owns, BioInv, TypeOK
<1> QED
  BY <1>1, <1>3, AcquireStep

(* A write that failed leaves the buffer stale. *)
LEMMA IowaitWriteStep ==
  ASSUME BioInv, Served, BioInv', NEW p \in Proc, IowaitWrite(p) PROVE UNCHANGED Store!store
<1>1. PICK b \in Buf : b = frame[p].bp
  BY DEF IowaitWrite, At, BioInv, TypeOK, FramesOK, FrameOK
<1>2. /\ pc[p] = "iowait" /\ "DONE" \in flags[b] /\ Brelse(b, flags[b]) /\ Leave(p)
      /\ UNCHANGED <<blk, data, ioq, disk>> /\ flags[b] \in SUBSET Flag
  BY <1>1 DEF IowaitWrite, At, BioInv, TypeOK
<1>3. pc'[p] = "user" /\ Others(p) /\ Owns(p, b) /\ b \notin ioq
  BY <1>1, <1>2, LeaveFacts DEF Owns, BioInv, DriverOK
<1>4. Beside(b)
  BY <1>2, <1>3, BrelseBeside
<1>5. \A k \in Kept : Speaks(b, k)' <=> Speaks(b, k)
  BY <1>2, <1>3, BrelseSpeaks
<1> QED
  BY <1>2, <1>3, <1>4, <1>5, BesideStep

(* Who gives his buffer back, changed or not. *)
LEMMA ReleaseHeldStep ==
  ASSUME BioInv, Served, BioInv', NEW p \in Proc, ReleaseHeld(p) PROVE [Store!Next]_(Store!store)
<1>1. PICK b \in Buf : b = frame[p].bp
  BY DEF ReleaseHeld, At, BioInv, TypeOK, FramesOK, FrameOK
<1>2. /\ pc[p] = "hold" /\ Brelse(b, flags[b]) /\ Leave(p)
      /\ UNCHANGED <<blk, data, ioq, disk>> /\ flags[b] \in SUBSET Flag
  BY <1>1 DEF ReleaseHeld, At, BioInv, TypeOK
<1>3. pc'[p] = "user" /\ Others(p) /\ Owns(p, b) /\ b \notin ioq
  BY <1>1, <1>2, LeaveFacts DEF Owns, BioInv, OwnersOK, OwnersIdle
<1>4. Beside(b)
  BY <1>2, <1>3, BrelseBeside
<1>5. \A k \in Kept : Speaks(b, k)' <=> Speaks(b, k)
  BY <1>2, <1>3, BrelseSpeaks
<1>6. /\ \A k \in Kept : Contents(k)' = Contents(k)
      /\ \A q \in Proc \ {p} : UserBlock(q)' = UserBlock(q) /\ UserSees(q)' = UserSees(q)
  BY <1>2, <1>3, <1>4, <1>5, ContentsKept, OthersSee
<1>7. UserBlock(p)' = NoBlk /\ UserSees(p)' = Garbage
  BY <1>3 DEF UserBlock, UserSees
<1>8. CASE UserBlock(p) = NoBlk
  <2>1. UserSees(p) = Garbage
    BY <1>8 DEF UserSees
  <2> QED
    BY <1>2, <1>6, <1>7, <1>8, <2>1 DEF Store!store
<1>9. CASE UserBlock(p) # NoBlk
  <2>1. Store!Release(p)
    BY <1>2, <1>6, <1>7, <1>9 DEF Store!Release, Store!LetGo
  <2> QED
    BY <2>1 DEF Store!Next
<1> QED
  BY <1>8, <1>9

(* Who writes a block of a device that fails is not seen. *)
LEMMA AsideStep ==
  ASSUME BioInv, BioInv', NEW p \in Proc, Others(p), pc[p] = "hold", pc'[p] # "hold", disk' = disk,
         NEW b \in Buf, b = frame[p].bp, Beside(b), blk[b] \notin Kept, blk'[b] = blk[b]
  PROVE  UNCHANGED Store!store
<1>1. Owns(p, b) /\ \A k \in Kept : ~ Speaks(b, k) /\ ~ Speaks(b, k)'
  BY DEF Owns, Speaks, Match
<1>2. \A k \in Kept : Contents(k)' = Contents(k)
  BY <1>1, ContentsKept
<1>3. \A q \in Proc \ {p} : UserBlock(q)' = UserBlock(q) /\ UserSees(q)' = UserSees(q)
  BY <1>1, OthersSee
<1>4. UserBlock(p)' = UserBlock(p) /\ UserSees(p)' = UserSees(p)
  BY DEF UserBlock, UserSees
<1> QED
  BY <1>2, <1>3, <1>4 DEF Store!store

(* The block of p's buffer b gets the contents v. *)
LEMMA UpdateStep ==
  ASSUME BioInv, BioInv', NEW p \in Proc, Others(p), pc[p] = "hold", pc'[p] # "hold", disk' = disk,
         NEW b \in Buf, b = frame[p].bp, Beside(b), blk[b] \in Kept,
         \A k \in Kept : Speaks(b, k)' <=> blk[b] = k,
         data'[b] \in Val
  PROVE  Store!Next
<1> DEFINE v == data'[b]
<1>1. Owns(p, b) /\ UserBlock(p) = blk[b]
  BY DEF Owns, UserBlock
<1>2. \A q \in Proc \ {p} : UserBlock(q)' = UserBlock(q) /\ UserSees(q)' = UserSees(q)
  BY <1>1, OthersSee
<1>3. UserBlock(p)' = NoBlk /\ UserSees(p)' = Garbage
  BY DEF UserBlock, UserSees
<1>4. \A k \in Kept : Contents(k)' = IF k = blk[b] THEN v ELSE Contents(k)
  <2>1. ASSUME NEW k \in Kept, k # blk[b] PROVE Contents(k)' = Contents(k)
    <3>1. ~ Speaks(b, k) /\ ~ Speaks(b, k)'
      BY <2>1 DEF Speaks, Match
    <3> QED
      BY <3>1, ContentsKept
  <2>2. ASSUME NEW k \in Kept, k = blk[b] PROVE Contents(k)' = v
    BY <2>2, ContentsNext
  <2> QED
    BY <2>1, <2>2
<1>5. blk[b] # NoBlk
  BY KeptSteady
<1> HIDE DEF v
<1>6. Store!Update(p, v)
  BY <1>1, <1>2, <1>3, <1>4, <1>5 DEF Store!Update, Store!LetGo
<1>7. v \in Val
  BY DEF v
<1> QED
  BY <1>6, <1>7 DEF Store!Next


LEMMA BdwriteStep ==
  ASSUME BioInv, Served, BioInv', NEW p \in Proc, Bdwrite(p)
  PROVE  [Store!Next]_(Store!store)
<1>1. PICK b \in Buf : b = frame[p].bp
  BY DEF Bdwrite, Writable, At, BioInv, TypeOK, FramesOK, FrameOK
<1> DEFINE F == flags[b] \cup {"DELWRI", "DONE"}
<1>2. /\ pc[p] = "hold" /\ Brelse(b, F) /\ Leave(p) /\ UNCHANGED <<blk, ioq, disk>>
      /\ F \in SUBSET Flag /\ blk[b] \in Block /\ ~ frame[p].uerror
  BY <1>1 DEF Bdwrite, Writable, At, BioInv, TypeOK, Flag
<1>3. data'[b] \in Val /\ \A c \in Buf \ {b} : data'[c] = data[c]
  BY <1>1 DEF Bdwrite, BioInv, TypeOK
<1>4. pc'[p] = "user" /\ Others(p) /\ Owns(p, b) /\ b \notin ioq
  BY <1>1, <1>2, LeaveFacts DEF Owns, BioInv, OwnersOK, OwnersIdle
<1>5. "ERROR" \notin F /\ "DONE" \in F /\ ("STALE" \in F <=> "STALE" \in flags[b])
  BY <1>1, <1>2 DEF Served, Mine, Told
<1> HIDE DEF F
<1>6. Beside(b)
  BY <1>2, <1>3, BrelseBeside
<1>7. CASE blk[b] \in Kept
  <2>1. "STALE" \notin F
    BY <1>4, <1>5, <1>7, KeptSteady DEF Served, Mine, Fresh
  <2>2. \A k \in Kept : Speaks(b, k)' <=> blk[b] = k
    BY <1>2, <1>4, <1>5, <2>1, BrelseSpeaks
  <2> QED
    BY <1>1, <1>2, <1>3, <1>4, <1>6, <1>7, <2>2, UpdateStep
<1>8. CASE blk[b] \notin Kept
  BY <1>1, <1>2, <1>4, <1>6, <1>8, AsideStep
<1> QED
  BY <1>7, <1>8

LEMMA WriteHeldStep ==
  ASSUME BioInv, Served, BioInv', NEW p \in Proc, NEW F, F \subseteq flags[frame[p].bp] \cup {"AGE", "ASYNC"},
         WriteHeld(p, F)
  PROVE  [Store!Next]_(Store!store)
<1>1. PICK b \in Buf : b = frame[p].bp
  BY DEF WriteHeld, Writable, At, BioInv, TypeOK, FramesOK, FrameOK
<1>2. /\ pc[p] = "hold" /\ blk[b] \in Block /\ \E v \in Val : data' = [data EXCEPT ![b] = v]
      /\ flags' = [flags EXCEPT ![b] = WriteFlags(F)] /\ ioq' = ioq \cup {b} /\ UNCHANGED <<blk, disk>>
  BY <1>1 DEF WriteHeld, Writable, At, StartWrite, BioInv, TypeOK
<1>3. PICK l \in {"bwrite", "iowait"} : pc' = [pc EXCEPT ![p] = l]
  BY DEF WriteHeld, Goto
<1>4. /\ pc'[p] # "hold" /\ Others(p) /\ Owns(p, b) /\ Beside(b)
      /\ flags'[b] = WriteFlags(F) /\ data'[b] \in Val
  BY <1>1, <1>2, <1>3 DEF WriteHeld, Others, Owns, Beside, BioInv, TypeOK
<1>5. CASE blk[b] \in Kept
  <2>1. "STALE" \notin F
    BY <1>1, <1>4, <1>5, KeptSteady DEF Served, Mine, Fresh
  <2>2. "STALE" \notin flags'[b] /\ "READ" \notin flags'[b]
    BY <1>4, <2>1 DEF WriteFlags
  <2>3. \A k \in Kept : Speaks(b, k)' <=> blk[b] = k
    BY <1>2, <2>2 DEF Speaks, Match, Valid
  <2> QED
    BY <1>1, <1>2, <1>4, <1>5, <2>3, UpdateStep
<1>6. CASE blk[b] \notin Kept
  BY <1>1, <1>2, <1>4, <1>6, AsideStep
<1> QED
  BY <1>5, <1>6

(* The interrupt: users see nothing of it. *)
LEMMA IodoneSees ==
  ASSUME BioInv, NEW b \in ioq, Beside(b), UNCHANGED <<pc, frame>>, NEW q \in Proc
  PROVE  UserBlock(q)' = UserBlock(q) /\ UserSees(q)' = UserSees(q)
<1>1. ASSUME pc[q] = "hold"
      PROVE  \E c \in Buf : /\ c = frame[q].bp /\ (Valid(c)' <=> Valid(c))
                            /\ blk'[c] = blk[c] /\ data'[c] = data[c]
  <2>1. PICK c \in Buf : c = frame[q].bp
    BY <1>1 DEF BioInv, FramesOK, FrameOK
  <2>2. c # b
    BY <1>1, <2>1 DEF BioInv, OwnersOK, OwnersIdle
  <2> QED
    BY <2>1, <2>2 DEF Beside, Valid
<1> QED
  BY <1>1, KeepsSeeing

LEMMA IodoneSpeaks ==
  ASSUME BioInv, NEW b \in ioq, NEW F \in SUBSET Flag, "DONE" \in F,
         "STALE" \in F <=> "STALE" \in flags[b],
         Iodone(b, F), ioq' = ioq \ {b}, blk' = blk, \A c \in Buf \ {b} : data'[c] = data[c]
  PROVE  /\ Beside(b)
         /\ \A k \in Kept : /\ Speaks(b, k)' <=> blk[b] = k /\ "STALE" \notin flags[b] /\ "ERROR" \notin F
                            /\ Speaks(b, k) <=> blk[b] = k /\ "STALE" \notin flags[b] /\ "READ" \notin flags[b]
<1>0. b \in Buf /\ "DONE" \notin flags[b]
  BY DEF BioInv, TypeOK, DriverOK
<1>1. CASE "ASYNC" \in F
  <2>1. Brelse(b, F)
    BY <1>1 DEF Iodone
  <2>2. flags'[b] = Released(F) /\ \A c \in Buf \ {b} : flags'[c] = flags[c]
    BY <1>0, <2>1 DEF Brelse, BioInv, TypeOK
  <2>3. /\ "STALE" \in Released(F) <=> "STALE" \in F \/ "ERROR" \in F
        /\ "DONE" \in Released(F) /\ "ERROR" \notin Released(F)
    BY DEF Released, Judged
  <2> QED
    BY <1>0, <2>2, <2>3 DEF Beside, Speaks, Match, Valid
<1>2. CASE "ASYNC" \notin F
  <2>1. flags'[b] = F \ {"WANTED"} /\ \A c \in Buf \ {b} : flags'[c] = flags[c]
    BY <1>0, <1>2 DEF Iodone, BioInv, TypeOK
  <2> QED
    BY <1>0, <2>1 DEF Beside, Speaks, Match, Valid
<1> QED
  BY <1>1, <1>2

(* The end of a transfer of a block that is not kept is not seen. *)
LEMMA AsideDone ==
  ASSUME BioInv, BioInv', NEW b \in ioq, Beside(b), blk[b] \notin Kept, UNCHANGED <<blk, pc, frame>>,
         \A k \in Kept : disk'[k] = disk[k]
  PROVE  UNCHANGED Store!store
<1>1. b \in Buf /\ \A k \in Kept : ~ Speaks(b, k) /\ ~ Speaks(b, k)'
  BY DEF Speaks, Match, BioInv, TypeOK
<1>2. \A k \in Kept : Contents(k)' = Contents(k)
  BY <1>1, ContentsKept
<1>3. \A q \in Proc : UserBlock(q)' = UserBlock(q) /\ UserSees(q)' = UserSees(q)
  BY IodoneSees
<1> QED
  BY <1>2, <1>3 DEF Store!store

(* The device has what was written. *)
LEMMA CompleteStep ==
  ASSUME BioInv, Served, BioInv', CloseDev = {}, NEW b \in Buf, Complete(b)
  PROVE  [Store!Next]_(Store!store)
<1> DEFINE F == flags[b] \cup {"DONE"}
<1>1. /\ b \in ioq /\ blk[b] \in Block /\ flags[b] \in SUBSET Flag /\ "ERROR" \notin flags[b]
  BY DEF Complete, BioInv, DriverOK, TypeOK, Served, Sound
<1>2. /\ Iodone(b, F) /\ F \in SUBSET Flag /\ "DONE" \in F /\ ("STALE" \in F <=> "STALE" \in flags[b])
      /\ ioq' = ioq \ {b} /\ UNCHANGED <<blk, pc, frame>> /\ "ERROR" \notin F
  BY <1>1 DEF Complete, Flag
<1>3. \A c \in Buf \ {b} : data'[c] = data[c]
  BY DEF Complete, BioInv, TypeOK
<1> HIDE DEF F
<1>4. /\ Beside(b)
      /\ \A k \in Kept : /\ Speaks(b, k)' <=> blk[b] = k /\ "STALE" \notin flags[b]
                         /\ Speaks(b, k) <=> blk[b] = k /\ "STALE" \notin flags[b] /\ "READ" \notin flags[b]
  BY <1>1, <1>2, <1>3, IodoneSpeaks
<1>5. \A q \in Proc : UserBlock(q)' = UserBlock(q) /\ UserSees(q)' = UserSees(q)
  BY <1>1, <1>2, <1>4, IodoneSees
<1>6. CASE "READ" \in flags[b]
  <2>1. disk' = disk /\ data'[b] = disk[blk[b]]
    BY <1>6 DEF Complete, BioInv, TypeOK
  <2>2. \A k \in Kept : Contents(k)' = Contents(k)
    BY <1>4, <1>6, <2>1, ContentsKept
  <2> QED
    BY <1>5, <2>1, <2>2 DEF Store!store
<1>7. CASE "READ" \notin flags[b]
  <2>1. disk' = [disk EXCEPT ![blk[b]] = data[b]] /\ data'[b] = data[b] /\ disk \in [Block -> Val]
    BY <1>7 DEF Complete, BioInv, TypeOK
  <2>2. CASE blk[b] \notin Kept
    <3>1. \A k \in Kept : disk'[k] = disk[k]
      BY <2>1, <2>2 DEF Kept
    <3> QED
      BY <1>1, <1>2, <1>4, <2>2, <3>1, AsideDone
  <2>3. CASE blk[b] \in Kept
    <3>0. "STALE" \notin flags[b]
      BY <1>1, <2>3, KeptSteady DEF Served, Sound
    <3>1. \A k \in Kept : disk'[k] = disk[k] \/ Speaks(b, k)'
      BY <1>4, <2>1, <3>0 DEF Kept
    <3>2. \A k \in Kept : Speaks(b, k)' <=> Speaks(b, k)
      BY <1>4, <1>7
    <3>3. \A k \in Kept : Contents(k)' = Contents(k)
      BY <1>4, <2>1, <3>1, <3>2, ContentsKept
    <3>4. PICK k \in Kept : k = blk[b]
      BY <2>3
    <3>5. Contents(k) = data[b]
      BY <1>4, <1>7, <3>0, <3>4, ContentsNow
    <3>6. Store!Persist(k)
      BY <1>5, <2>1, <3>3, <3>4, <3>5 DEF Store!Persist, Kept
    <3> QED
      BY <3>6 DEF Store!Next
  <2> QED
    BY <2>2, <2>3
<1> QED
  BY <1>6, <1>7

(* What fails is not kept. *)
LEMMA FailStep ==
  ASSUME BioInv, BioInv', NEW b \in Buf, Fail(b)
  PROVE  [Store!Next]_(Store!store)
<1> DEFINE F == flags[b] \cup {"ERROR", "DONE"}
<1>1. b \in ioq /\ blk[b] \notin Kept /\ flags[b] \in SUBSET Flag
  BY DEF Fail, BioInv, TypeOK, Kept
<1>2. /\ Iodone(b, F) /\ F \in SUBSET Flag /\ "DONE" \in F /\ ("STALE" \in F <=> "STALE" \in flags[b])
      /\ ioq' = ioq \ {b} /\ UNCHANGED <<blk, disk, pc, frame>>
  BY <1>1 DEF Fail, Flag
<1>3. \A c \in Buf \ {b} : data'[c] = data[c]
  BY DEF Fail, BioInv, TypeOK
<1> HIDE DEF F
<1>4. Beside(b)
  BY <1>1, <1>2, <1>3, IodoneSpeaks
<1> QED
  BY <1>1, <1>2, <1>4, AsideDone


(* The steps that change no contents and give no buffer to anybody. *)
LEMMA UnseenStep ==
  ASSUME BioInv, ServeInv, BioInv', CloseDev = {}, NEW p \in Proc,
         \/ Enter(p) \/ GetblkFind(p) \/ GetblkBusy(p) \/ NoFreeBuffer(p) \/ BwriteTail(p)
         \/ ReadAheadSeek(p) \/ BreadaTail(p) \/ IowaitSleep(p) \/ BflushReturn(p)
  PROVE  UNCHANGED Store!store
<1> DEFINE Same == \A c \in Buf, x \in {"STALE", "DONE", "ERROR", "READ"} : x \in flags'[c] <=> x \in flags[c]
<1>1. CASE Enter(p)
  <2>1. ASSUME NEW f, NEW l \in {"getblk", "geteblk", "breada", "bflush"}, Call(p, f, l)
        PROVE  UNCHANGED Store!store
    <3>1. /\ UNCHANGED <<flags, blk, data, ioq, disk>> /\ pc[p] = "user" /\ pc'[p] = l /\ Others(p)
      BY <2>1 DEF Call, At, Goto, bufVars, Others, BioInv, TypeOK
    <3> QED
      BY <3>1, QuietStep
  <2>2. CASE CallBread(p) \/ CallGetblk(p) \/ CallGeteblk(p)
    BY <2>1, <2>2 DEF CallBread, CallGetblk, CallGeteblk
  <2>3. CASE CallBreada(p)
    <3>1. PICK k \in Block, r \in Block, l \in {"breada", "getblk"} :
            Call(p, [Idle EXCEPT !.op = "breada", !.tgt = k, !.rablk = r], l)
      BY <2>3 DEF CallBreada
    <3> QED
      BY <2>1, <3>1
  <2>4. CASE CallSync(p) \/ CallClose(p)
    BY <2>1, <2>4 DEF CallSync, CallClose
  <2> QED
    BY <1>1, <2>2, <2>3, <2>4 DEF Enter
<1>2. CASE NoFreeBuffer(p) \/ IowaitSleep(p)
  <2>1. /\ UNCHANGED <<blk, data, ioq, disk, pc, frame>> /\ pc[p] \in {"getblk", "geteblk", "iowait"}
    BY <1>2 DEF NoFreeBuffer, IowaitSleep, AtFreelist, At, SleepOn, bufVars
  <2>2. Same
    BY <1>2 DEF NoFreeBuffer, IowaitSleep, bufVars
  <2>3. Others(p) /\ pc[p] # "hold" /\ pc'[p] # "hold"
    BY <2>1 DEF Others
  <2> QED
    BY <2>1, <2>2, <2>3, QuietStep
<1>3. CASE ReadAheadSeek(p) \/ BreadaTail(p)
  <2>1. /\ UNCHANGED <<flags, blk, data, ioq, disk>> /\ pc[p] = "breada"
        /\ Goto(p, "getblk") \/ Goto(p, "iowait")
        /\ \A q \in Proc \ {p} : frame'[q] = frame[q]
    BY <1>3 DEF ReadAheadSeek, BreadaTail, At, bufVars, BioInv, TypeOK
  <2>2. Others(p) /\ pc[p] # "hold" /\ pc'[p] # "hold"
    BY <2>1 DEF Goto, Others, BioInv, TypeOK
  <2> QED
    BY <2>1, <2>2, QuietStep
<1>4. CASE BwriteTail(p)
  <2>1. /\ UNCHANGED <<blk, data, ioq, disk>> /\ pc[p] = "bwrite" /\ Same
    BY <1>4 DEF BwriteTail, At, BioInv, TypeOK
  <2>2. Others(p) /\ pc'[p] # "hold"
    <3>1. CASE frame[p].op = "write"
      BY <1>4, <3>1, LeaveFacts DEF BwriteTail, BioInv
    <3>2. CASE frame[p].op # "write"
      <4>1. PICK l \in {"getblk", "geteblk", "bflush"} :
              Goto(p, l) /\ frame' = [frame EXCEPT ![p].wb = NoBuf, ![p].aging = FALSE]
        BY <1>4, <3>2 DEF BwriteTail
      <4> QED
        BY <4>1 DEF Goto, Others, BioInv, TypeOK
    <3> QED
      BY <3>1, <3>2
  <2> QED
    BY <2>1, <2>2, QuietStep
<1>5. CASE BflushReturn(p)
  <2>1. frame[p].op # "close"
    BY DEF ServeInv, Closing
  <2>2. /\ UNCHANGED <<flags, blk, data, ioq, disk>> /\ pc[p] = "bflush" /\ Leave(p)
    BY <1>5, <2>1 DEF BflushReturn, At
  <2>3. Others(p) /\ pc'[p] = "user"
    BY <2>2, LeaveFacts DEF BioInv
  <2> QED
    BY <2>2, <2>3, QuietStep
<1>6. CASE GetblkFind(p)
  <2>1. /\ UNCHANGED <<flags, blk, data, ioq, disk>> /\ pc[p] = "getblk" /\ Goto(p, "found")
        /\ \A q \in Proc \ {p} : frame'[q] = frame[q]
    BY <1>6 DEF GetblkFind, At, bufVars, BioInv, TypeOK
  <2>2. Others(p) /\ pc'[p] # "hold"
    BY <2>1 DEF Goto, Others, BioInv, TypeOK
  <2> QED
    BY <2>1, <2>2, QuietStep
<1>7. CASE GetblkBusy(p)
  <2>1. PICK b \in Buf : /\ flags' = [flags EXCEPT ![b] = @ \cup {"WANTED"}] /\ pc[p] = "found"
                         /\ frame' = [frame EXCEPT ![p].wb = NoBuf] /\ pc' = [pc EXCEPT ![p] = "getblk"]
                         /\ UNCHANGED <<blk, data, ioq, disk>>
    BY <1>7, BusyFacts DEF BioInv
  <2>2. Others(p) /\ pc'[p] # "hold" /\ Same
    BY <2>1 DEF Others, BioInv, TypeOK
  <2> QED
    BY <2>1, <2>2, QuietStep
<1> QED
  BY <1>1, <1>2, <1>3, <1>4, <1>5, <1>6, <1>7

LEMMA StoreInit == ASSUME Init PROVE Store!Init
<1> USE BioAssumption
<1>1. BioInv
  BY InitInv
<1>2. /\ \A b \in Buf : flags[b] = {} /\ b \notin ioq
      /\ \A p \in Proc : pc[p] = "user"
      /\ disk \in [Block -> Val] /\ Kept \subseteq Block
  BY DEF Init, Kept
<1>3. ASSUME NEW k \in Kept PROVE Contents(k) = disk[k]
  <2>1. \A b \in Buf : ~ Speaks(b, k)
    BY <1>2 DEF Speaks, Valid
  <2> QED
    BY <1>1, <2>1, ContentsNow
<1>4. \A p \in Proc : UserBlock(p) = NoBlk /\ UserSees(p) = Garbage
  BY <1>2 DEF UserBlock, UserSees
<1> QED
  BY <1>2, <1>3, <1>4 DEF Store!Init

LEMMA StoreNext ==
  ASSUME BioInv, Looking, ServeInv, CloseDev = {}, [Next]_vars
  PROVE  [Store!Next]_(Store!store)
<1>0. BioInv' /\ Served
  BY NextInv DEF ServeInv
<1>1. ASSUME NEW p \in Proc, Enter(p) PROVE [Store!Next]_(Store!store)
  BY <1>0, <1>1, UnseenStep
<1>2. ASSUME NEW p \in Proc, Seek(p) PROVE [Store!Next]_(Store!store)
  <2>1. CASE GetblkFind(p) \/ GetblkBusy(p) \/ NoFreeBuffer(p)
    BY <1>0, <2>1, UnseenStep
  <2>2. CASE GetblkHit(p)
    BY <1>0, <2>2, GetblkHitStep
  <2>3. CASE EvictDelayed(p)
    <3>1. 1 \in DOMAIN freelist /\ Head(freelist) = freelist[1]
      BY <2>3, LenProperties, EmptySeq DEF EvictDelayed, BioInv, TypeOK
    <3>2. pc[p] \in {"getblk", "geteblk"}
      BY <2>3 DEF EvictDelayed, AtFreelist, At
    <3> QED
      BY <1>0, <2>3, <3>1, <3>2, StartDelayedStep DEF EvictDelayed
  <2>4. CASE GetblkReassign(p) \/ GeteblkReassign(p)
    <3>1. CASE GetblkReassign(p)
      <4>1. pc[p] = "getblk" /\ Reassign(p, Sought(p), {"BUSY"})
        BY <3>1 DEF GetblkReassign, At
      <4> QED
        BY <1>0, <4>1, ReassignStep
    <3>2. CASE GeteblkReassign(p)
      <4>1. pc[p] = "geteblk" /\ Reassign(p, NoBlk, {"BUSY", "AGE"})
        BY <3>2 DEF GeteblkReassign, At
      <4> QED
        BY <1>0, <4>1, ReassignStep
    <3> QED
      BY <2>4, <3>1, <3>2
  <2> QED
    BY <1>2, <2>1, <2>2, <2>3, <2>4 DEF Seek
<1>3. ASSUME NEW p \in Proc, Transfer(p) PROVE [Store!Next]_(Store!store)
  BY <1>0, <1>3, UnseenStep, GotStep, ReadAheadGotStep, IowaitReadStep, IowaitWriteStep DEF Transfer
<1>4. ASSUME NEW p \in Proc, GiveBack(p) PROVE [Store!Next]_(Store!store)
  <2>1. CASE Bwrite(p) \/ Bawrite(p)
    <3>1. PICK F : F \subseteq flags[frame[p].bp] \cup {"AGE", "ASYNC"} /\ WriteHeld(p, F)
      BY <2>1 DEF Bwrite, Bawrite
    <3> QED
      BY <1>0, <3>1, WriteHeldStep
  <2> QED
    BY <1>0, <1>4, <2>1, ReleaseHeldStep, BdwriteStep DEF GiveBack
<1>5. ASSUME NEW p \in Proc, Flush(p) PROVE [Store!Next]_(Store!store)
  <2>1. CASE BflushWrite(p)
    <3>1. PICK i \in Delayed(frame[p].scope) : StartDelayed(p, i)
      BY <2>1 DEF BflushWrite
    <3>2. i \in DOMAIN freelist /\ "DELWRI" \in flags[freelist[i]] /\ pc[p] = "bflush"
      BY <2>1, <3>1 DEF Delayed, BflushWrite, At
    <3> QED
      BY <1>0, <3>1, <3>2, StartDelayedStep
  <2> QED
    BY <1>0, <1>5, <2>1, UnseenStep DEF Flush
<1>6. ASSUME NEW b \in Buf, Complete(b) \/ Fail(b) PROVE [Store!Next]_(Store!store)
  BY <1>0, <1>6, CompleteStep, FailStep
<1>7. CASE UNCHANGED vars
  <2>1. UNCHANGED <<flags, blk, data, ioq, disk, pc, frame>>
    BY <1>7 DEF vars, bufVars, procVars
  <2>2. /\ \A k \in Kept : Contents(k)' = Contents(k)
        /\ \A q \in Proc : UserBlock(q)' = UserBlock(q) /\ UserSees(q)' = UserSees(q)
    BY <1>0, <2>1, QuietStore
  <2> QED
    BY <2>1, <2>2 DEF Store!store
<1> QED
  BY <1>1, <1>2, <1>3, <1>4, <1>5, <1>6, <1>7 DEF Next, Step, Interrupt

(* Processes that read and write blocks through the cache use a store of   *)
(* blocks: whoever is handed a block of a device that does not fail sees   *)
(* what was last written to it, has it alone, and no write of it is lost,  *)
(* whatever the evictions, read-aheads, flushes and interrupts, and        *)
(* whatever goes wrong on other devices.  Block devices that are also      *)
(* opened and closed as special files are left out: binval() drops what a  *)
(* write in flight has not yet brought to the device.                      *)
THEOREM CacheIsAStore == CloseDev = {} => (Spec => ImplementsStore)
<1> SUFFICES ASSUME CloseDev = {} PROVE Spec => ImplementsStore
  OBVIOUS
<1>1. BioInv /\ Looking /\ ServeInv /\ [Next]_vars => [Store!Next]_(Store!store)
  BY StoreNext
<1> QED
  BY <1>1, StoreInit, ServeInvariance, PTL DEF Spec, ImplementsStore, Store!Spec

=============================================================================
