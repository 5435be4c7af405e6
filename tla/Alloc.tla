-------------------------------- MODULE Alloc --------------------------------
(***************************************************************************)
(* The free blocks of a file system: alloc(), free() and the super block's *)
(* part of update(), in os/alloc.c.                                        *)
(*                                                                         *)
(* The super block holds the last part of the free list, at most NICFREE   *)
(* blocks; the first of them holds the part before, and so on.  A process  *)
(* has the blocks it allocated until it frees them.                        *)
(* The file system is a good one: badblock() is never true.  A part of the *)
(* list may be unreadable (Lossy); what is written gets to the disk.       *)
(***************************************************************************)
EXTENDS Integers, FiniteSets, SequencesExt

CONSTANTS Proc, Block, NICFREE,
          Lossy    \* whether bread() may fail

ASSUME AllocAssumption ==
  /\ NICFREE \in Nat \ {0, 1}
  /\ 0 \notin Block /\ IsFiniteSet(Block)
  /\ Lossy \in BOOLEAN

VARIABLES sfree,           \* s_free, as long as s_nfree says
          tfree,           \* s_tfree
          flock, fmod,     \* s_flock, s_fmod
          link,            \* what is in each block: a part of the list, or <<>>
          disk, buf,       \* s_free in the super block on the disk, and in the
                           \* buffer update() writes
          uinode,          \* uinode.i_flag: an update() is going on
          held,            \* the blocks of each process
          pc, chan,
          bno,
          lost             \* not the code's: the blocks no list has any more

super == <<sfree, tfree, flock, fmod>>
sync  == <<disk, buf, uinode>>
proc  == <<held, pc, chan, bno>>
vars  == <<super, link, sync, proc, lost>>

None == <<>>

(* What the first block of a part l holds, if k is in the blocks: the part *)
(* before it; and the parts of the list that ends with l.                  *)
Before(k, l) == IF l = None \/ l[1] = 0 THEN None ELSE k[l[1]]

Parts(k, l) == LET c[n \in Nat] == IF n = 0 THEN l ELSE Before(k, c[n - 1]) IN c

Depth == 0 .. Cardinality(Block)

Blocks(l) == {b \in Block : \E n \in Depth : b \in ToSet(Parts(link, l)[n])}

(* The files have all blocks at first. *)
Init ==
  /\ held \in [Proc -> SUBSET Block]
  /\ UNION {held[p] : p \in Proc} = Block
  /\ \A p, q \in Proc : p # q => held[p] \cap held[q] = {}
  /\ sfree = <<0>>
  /\ tfree = 0
  /\ link = [b \in Block |-> None]
  /\ disk = sfree /\ buf = None
  /\ flock = FALSE /\ fmod = FALSE /\ uinode = FALSE
  /\ pc = [p \in Proc |-> "user"]
  /\ chan = [p \in Proc |-> FALSE]
  /\ bno = [p \in Proc |-> 0]
  /\ lost = {}

At(p, l) == pc[p] = l /\ ~chan[p]
Goes(p, l) == pc' = [pc EXCEPT ![p] = l]

(* sleep((caddr_t)&fp->s_flock, PINOD) and its wakeup(). *)
Sleeps(p) == chan' = [chan EXCEPT ![p] = TRUE]
Unlock == flock' = FALSE /\ chan' = [p \in Proc |-> FALSE]

Nospace(p, gone) ==
  /\ sfree' = None
  /\ tfree' = 0
  /\ lost' = lost \cup gone
  /\ bno' = [bno EXCEPT ![p] = 0]
  /\ Goes(p, "delay")

------------------------------------------------------------------------------
(* alloc().                                                                *)

(* A call starts, or who slept for the list goes on.                       *)
InAlloc(p) == At(p, "user") \/ At(p, "alloc")

AllocWaits(p) ==
  /\ InAlloc(p) /\ flock
  /\ Goes(p, "alloc")
  /\ Sleeps(p)
  /\ UNCHANGED <<super, link, sync, held, bno, lost>>

AllocNone(p) ==
  /\ InAlloc(p) /\ ~flock
  /\ Last(<<0>> \o sfree) = 0
  /\ Nospace(p, {})
  /\ UNCHANGED <<flock, fmod, link, sync, held, chan>>

(* Mutant: the list is not locked while the next part of it is read. *)
AllocPopUnlocked(p) ==
  /\ InAlloc(p) /\ ~flock
  /\ Last(<<0>> \o sfree) # 0
  /\ bno' = [bno EXCEPT ![p] = Last(sfree)]
  /\ sfree' = Front(sfree)
  /\ flock' = FALSE
  /\ Goes(p, IF Len(sfree) = 1 THEN "bread" ELSE "getblk")
  /\ UNCHANGED <<tfree, fmod, link, sync, held, chan, lost>>

AllocPop(p) ==
  /\ InAlloc(p) /\ ~flock
  /\ Last(<<0>> \o sfree) # 0
  /\ bno' = [bno EXCEPT ![p] = Last(sfree)]
  /\ sfree' = Front(sfree)
  /\ flock' = (Len(sfree) = 1)
  /\ Goes(p, IF Len(sfree) = 1 THEN "bread" ELSE "getblk")
  /\ UNCHANGED <<tfree, fmod, link, sync, held, chan, lost>>

AllocRead(p) ==
  /\ At(p, "bread")
  /\ Unlock
  /\ sfree' = link[bno[p]]
  /\ Goes(p, "getblk")
  /\ UNCHANGED <<tfree, fmod, link, sync, held, bno, lost>>

(* Mutant: who waits is not woken when the read failed. *)
AllocReadErrorSilent(p) ==
  /\ At(p, "bread") /\ Lossy
  /\ flock' = FALSE
  /\ Nospace(p, Blocks(<<bno[p]>>))
  /\ UNCHANGED <<fmod, link, sync, held, chan>>

(* The read failed: s_nfree is still 0, a bad free count. *)
AllocReadError(p) ==
  /\ At(p, "bread") /\ Lossy
  /\ Unlock
  /\ Nospace(p, Blocks(<<bno[p]>>))
  /\ UNCHANGED <<fmod, link, sync, held>>

(* getblk() and clrbuf(). *)
AllocGet(p) ==
  /\ At(p, "getblk")
  /\ held' = [held EXCEPT ![p] = @ \cup {bno[p]}]
  /\ link' = [link EXCEPT ![bno[p]] = None]
  /\ tfree' = IF tfree > 0 THEN tfree - 1 ELSE 0
  /\ fmod' = TRUE
  /\ bno' = [bno EXCEPT ![p] = 0]
  /\ Goes(p, "user")
  /\ UNCHANGED <<sfree, flock, sync, chan, lost>>

(* delay(5*HZ), and the error.                                             *)
Enospc(p) ==
  /\ At(p, "delay")
  /\ Goes(p, "user")
  /\ UNCHANGED <<super, link, sync, held, chan, bno, lost>>

------------------------------------------------------------------------------
(* free().                                                                 *)

(* s_free[s_nfree++] = bno, and the counts. *)
Push(p, l, b) ==
  /\ sfree' = Append(l, b)
  /\ tfree' = tfree + 1
  /\ fmod' = TRUE
  /\ bno' = [bno EXCEPT ![p] = 0]
  /\ Goes(p, "user")

(* Block b of p's file, as free() looks at the list: at first, or again    *)
(* after a sleep.                                                          *)
FreeIt(p, b) ==
  /\ held' = [held EXCEPT ![p] = @ \ {b}]
  /\ \/ /\ flock
        /\ fmod' = (fmod \/ pc[p] = "user")
        /\ bno' = [bno EXCEPT ![p] = b]
        /\ Goes(p, "free")
        /\ Sleeps(p)
        /\ UNCHANGED <<sfree, tfree, flock>>
     \/ /\ ~flock /\ Len(sfree) < NICFREE
        /\ Push(p, IF sfree = None THEN <<0>> ELSE sfree, b)
        /\ UNCHANGED <<flock, chan>>
     \/ /\ ~flock /\ Len(sfree) = NICFREE
        /\ flock' = TRUE
        /\ fmod' = (fmod \/ pc[p] = "user")
        /\ bno' = [bno EXCEPT ![p] = b]
        /\ Goes(p, "spill")
        /\ UNCHANGED <<sfree, tfree, chan>>
  /\ UNCHANGED <<link, sync, lost>>

Free(p) == At(p, "user") /\ \E b \in held[p] : FreeIt(p, b)

(* Mutant: who slept for the list does not look at the lock again. *)
FreeAgainBlind(p) ==
  /\ At(p, "free")
  /\ Push(p, IF sfree = None THEN <<0>> ELSE sfree, bno[p])
  /\ UNCHANGED <<flock, link, sync, held, chan, lost>>

FreeAgain(p) == At(p, "free") /\ FreeIt(p, bno[p])

(* The buffer holds the list now, and bwrite() starts. *)
FreeCopy(p) ==
  /\ At(p, "spill")
  /\ link' = [link EXCEPT ![bno[p]] = sfree]
  /\ sfree' = None
  /\ Goes(p, "bwrite")
  /\ UNCHANGED <<tfree, flock, fmod, sync, held, chan, bno, lost>>

FreeWritten(p) ==
  /\ At(p, "bwrite")
  /\ Unlock
  /\ Push(p, sfree, bno[p])
  /\ UNCHANGED <<link, sync, held, lost>>

------------------------------------------------------------------------------
(* update(): it skips a file system that has not changed or is locked.    *)

Update(p) ==
  /\ At(p, "user")
  /\ ~uinode /\ fmod /\ ~flock
  /\ uinode' = TRUE
  /\ fmod' = FALSE
  /\ Goes(p, "sync")
  /\ UNCHANGED <<sfree, tfree, flock, link, disk, buf, held, chan, bno, lost>>

(* writei() has read the block of the super block and copies the new one. *)
UpdateCopy(p) ==
  /\ At(p, "sync")
  /\ buf' = sfree
  /\ Goes(p, "synced")
  /\ UNCHANGED <<super, link, disk, uinode, held, chan, bno, lost>>

(* Mutant: s_fmod is reset when the super block is on the disk. *)
UpdateWrittenLate(p) ==
  /\ At(p, "synced")
  /\ disk' = buf /\ buf' = None
  /\ uinode' = FALSE
  /\ fmod' = FALSE
  /\ Goes(p, "user")
  /\ UNCHANGED <<sfree, tfree, flock, link, held, chan, bno, lost>>

UpdateWritten(p) ==
  /\ At(p, "synced")
  /\ disk' = buf /\ buf' = None
  /\ uinode' = FALSE
  /\ Goes(p, "user")
  /\ UNCHANGED <<super, link, held, chan, bno, lost>>

Next == \E p \in Proc :
  \/ AllocWaits(p) \/ AllocNone(p) \/ AllocPop(p)
  \/ AllocRead(p) \/ AllocReadError(p) \/ AllocGet(p) \/ Enospc(p)
  \/ Free(p) \/ FreeAgain(p) \/ FreeCopy(p) \/ FreeWritten(p)
  \/ Update(p) \/ UpdateCopy(p) \/ UpdateWritten(p)

Spec == Init /\ [][Next]_vars

------------------------------------------------------------------------------
(* The block a process is about to get, or gives back. *)
Taking(p) == IF pc[p] = "getblk" THEN {bno[p]} ELSE {}
Giving(p) == IF pc[p] \in {"free", "spill", "bwrite"} THEN {bno[p]} ELSE {}
Reading == {p \in Proc : pc[p] = "bread"}
Writing == {p \in Proc : pc[p] = "bwrite"}

(* The free blocks: while a part of the list is read or written, s_free is *)
(* empty and the list starts at the block of that part.                    *)
Head1 == IF \E p \in Reading \cup Writing : TRUE
         THEN <<bno[CHOOSE p \in Reading \cup Writing : TRUE]>> ELSE sfree

FreeSet == Blocks(Head1) \ UNION {Giving(p) : p \in Proc}

Has(p) == held[p] \cup Taking(p) \cup Giving(p)

(* Who is past the look at s_flock and has set it.                          *)
Locker(p) == pc[p] \in {"bread", "spill", "bwrite"}

(* Nobody sleeps for the free list while it is not locked, and it is       *)
(* locked by the one process that reads or writes a part of it.            *)
ListLocked ==
  /\ \A p \in Proc : chan[p] => flock /\ pc[p] \in {"alloc", "free"}
  /\ flock <=> \E p \in Proc : Locker(p)
  /\ \A p, q \in Proc : Locker(p) /\ Locker(q) => p = q

(* A block is free, or a process has it, and is so once: the parts of the  *)
(* list hold no block twice, whoever sleeps in alloc() or free(); and      *)
(* s_tfree never promises more blocks than are free or on their way.       *)
EachOnce ==
  /\ LET c == Parts(link, Head1) IN
       \A m, n \in Depth : \A i \in DOMAIN c[m], j \in DOMAIN c[n] :
         c[m][i] = c[n][j] /\ c[m][i] # 0 => m = n /\ i = j
  /\ \A p, q \in Proc : p # q => Has(p) \cap Has(q) = {}
  /\ \A p \in Proc : Has(p) \cap FreeSet = {}
  /\ FreeSet \cup UNION {Has(p) : p \in Proc} = Block \ lost
  /\ tfree <= Cardinality(FreeSet) + Cardinality(UNION {Taking(p) : p \in Proc})

(* Once the super block is written and nobody changes it, the free list on *)
(* the disk has no block of a file and misses none of the free blocks: a   *)
(* crash then loses and doubles nothing.                                   *)
SyncedSound ==
  ~fmod /\ ~uinode /\ (\A p \in Proc : pc[p] \in {"user", "alloc", "delay"})
    => /\ FreeSet \subseteq Blocks(disk)
       /\ \A p \in Proc : held[p] \cap Blocks(disk) = {}

FB == INSTANCE FreeBlocks WITH free <- FreeSet, held <- [p \in Proc |-> Has(p)],
                              told <- [p \in Proc |-> pc[p] = "delay"]

(* Allocation is that of a set of free blocks: what is taken was free, and *)
(* ENOSPC means that nothing is, but for a part of the list that cannot be *)
(* read.                                                                   *)
ImplementsFreeBlocks == FB!Spec
==============================================================================
