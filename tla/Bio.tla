--------------------------------- MODULE Bio ---------------------------------
(***************************************************************************)
(* The buffer cache of the kernel, uts/m68k/io/bio.c.                      *)
(*                                                                         *)
(* A buffer is either on the available list bfreelist or BUSY, that is,    *)
(* owned by one process or by the driver that moves its data.  Processes   *)
(* run one at a time: the kernel is not preemptive, so a process that is   *)
(* inside bio.c gives up the processor (cpu) only where the code calls     *)
(* sleep(), or when it returns to its caller, which may sleep in its turn. *)
(* The completion interrupt of a transfer may come between any two steps.  *)
(*                                                                         *)
(* The two-way hash chains are abstracted to blk: which block a buffer is  *)
(* linked for (NoBlk for a buffer on no device chain).  The order inside a *)
(* chain is irrelevant because of OneBufferPerBlock below.                 *)
(***************************************************************************)
EXTENDS Naturals, SequencesExt

CONSTANTS Proc,       \* processes
          Buf,        \* buffer headers, sbuf[0 .. v.v_buf-1]
          Block,      \* blocks of all block devices, as (b_dev, b_blkno)
          Dev,        \* block devices
          DevOf,      \* the device of a block
          Val,        \* contents of a block
          FailDev,    \* devices whose transfers may fail
          CloseDev,   \* devices that are opened and closed as special files
          BawriteFree,\* bawrite() is asynchronous above this many free buffers
          NoBuf, NoBlk, FreeList, Awake, Nobody, Garbage

ASSUME BioAssumption ==
  /\ IsFiniteSet(Buf)
  /\ DevOf \in [Block -> Dev]
  /\ FailDev \subseteq Dev /\ CloseDev \subseteq Dev
  /\ BawriteFree \in Nat
  /\ NoBuf \notin Buf /\ NoBlk \notin Block /\ Nobody \notin Proc
  /\ FreeList \notin Buf /\ Awake \notin Buf /\ FreeList # Awake
  /\ Garbage \notin Val /\ Val # {}

VARIABLES
  flags,     \* b_flags of each buffer, the set of its B_ bits
  blk,       \* the block a buffer is hashed for
  data,      \* what the memory at b_addr holds
  freelist,  \* bfreelist.av_forw ... : the available list, head first
  wantFree,  \* B_WANTED in bfreelist.b_flags
  ioq,       \* buffers handed to d_strategy whose iodone() is still to come
  disk,      \* contents of the devices
  cpu,       \* the process inside bio.c that no other may overtake
  pc,        \* where each process is in bio.c
  chan,      \* the channel a process sleeps on
  frame      \* its arguments and local variables, and whether u.u_error is set

bufVars  == <<flags, blk, data, freelist, wantFree, ioq, disk>>
procVars == <<cpu, pc, chan, frame>>
vars     == <<bufVars, procVars>>

Flag == {"READ", "DONE", "ERROR", "BUSY", "WANTED", "AGE", "ASYNC", "DELWRI", "STALE"}
Op   == {"none", "bread", "breada", "readahead", "getblk", "geteblk", "write", "sync", "close"}
Pc   == {"user", "getblk", "found", "geteblk", "got", "iowait", "breada", "bwrite", "bflush", "hold"}

Frame == [op     : Op,                    \* the entry point that was called
          tgt    : Block \cup {NoBlk},    \* blkno
          rablk  : Block \cup {NoBlk},    \* rablkno of breada()
          scope  : SUBSET Dev,            \* the devices bflush() looks for
          bp     : Buf \cup {NoBuf},      \* bp, the buffer of the caller
          wb     : Buf \cup {NoBuf},      \* what getblk() found, what bwrite() got
          aging  : BOOLEAN,               \* bwrite()'s saved flag has B_DELWRI
          uerror : BOOLEAN]               \* u.u_error is set
Idle == [op |-> "none", tgt |-> NoBlk, rablk |-> NoBlk, scope |-> {},
         bp |-> NoBuf, wb |-> NoBuf, aging |-> FALSE, uerror |-> FALSE]

(* Every variable keeps its type. *)
TypeOK ==
  /\ flags \in [Buf -> SUBSET Flag]
  /\ blk \in [Buf -> Block \cup {NoBlk}]
  /\ data \in [Buf -> Val \cup {Garbage}]
  /\ freelist \in Seq(Buf)
  /\ wantFree \in BOOLEAN
  /\ ioq \in SUBSET Buf
  /\ disk \in [Block -> Val]
  /\ cpu \in Proc \cup {Nobody}
  /\ pc \in [Proc -> Pc]
  /\ frame \in [Proc -> Frame]
  /\ chan \in [Proc -> Buf \cup {FreeList, Awake}]

(* binit(): every buffer is released once, belongs to no device and is free. *)
Init ==
  /\ flags = [b \in Buf |-> {}]
  /\ blk = [b \in Buf |-> NoBlk]
  /\ data = [b \in Buf |-> Garbage]
  /\ freelist \in SetToSeqs(Buf)
  /\ wantFree = FALSE
  /\ ioq = {}
  /\ disk \in [Block -> Val]
  /\ cpu = Nobody
  /\ pc = [p \in Proc |-> "user"]
  /\ frame = [p \in Proc |-> Idle]
  /\ chan = [p \in Proc |-> Awake]

-----------------------------------------------------------------------------
(* Sleep, wakeup and the processor. *)

Runs(p) == cpu \in {p, Nobody} /\ chan[p] = Awake
At(p, l) == pc[p] = l /\ Runs(p)

(* p goes on at l without giving up the processor, or hands its buffer to    *)
(* the caller, or leaves bio.c.                                              *)
Goto(p, l) == pc' = [pc EXCEPT ![p] = l] /\ cpu' = p
HandOver(p) == pc' = [pc EXCEPT ![p] = "hold"] /\ cpu' = Nobody
Leave(p) ==
  /\ pc' = [pc EXCEPT ![p] = "user"]
  /\ cpu' = Nobody
  /\ frame' = [frame EXCEPT ![p] = Idle]

SleepOn(p, c) ==
  /\ chan' = [chan EXCEPT ![p] = c]
  /\ cpu' = Nobody
  /\ UNCHANGED <<pc, frame>>

Wakeup(C) == chan' = [p \in Proc |-> IF chan[p] \in C THEN Awake ELSE chan[p]]

-----------------------------------------------------------------------------
(* The available list.  brelse() of a buffer whose flags are F: an error     *)
(* makes the contents stale and drops a delayed write; B_AGE puts the buffer *)
(* at the head of the list.                                                  *)

JudgedKept(F) == F \ {"ERROR"}                     \* mutant: keeps bad contents
Judged(F)   == IF "ERROR" \in F THEN (F \cup {"STALE", "AGE"}) \ {"ERROR", "DELWRI"} ELSE F
Released(F) == Judged(F) \ {"WANTED", "BUSY", "ASYNC", "AGE"}

Enlist(s, b, F) == IF "AGE" \in Judged(F) THEN <<b>> \o s ELSE Append(s, b)

Brelse(b, F) ==
  /\ Wakeup((IF "WANTED" \in F THEN {b} ELSE {}) \cup (IF wantFree THEN {FreeList} ELSE {}))
  /\ wantFree' = FALSE
  /\ flags' = [flags EXCEPT ![b] = Released(F)]
  /\ freelist' = Enlist(freelist, b, F)

(* notavail(): unlink the buffer at position i; the caller marks it busy. *)
Unlink(i) == freelist' = RemoveAt(freelist, i)

MatchAny(k) == {b \in Buf : blk[b] = k}              \* mutant: finds stale buffers
Match(k)  == {b \in Buf : blk[b] = k /\ "STALE" \notin flags[b]}
Incore(k) == Match(k) # {}
Sought(p) == IF frame[p].op = "readahead" THEN frame[p].rablk ELSE frame[p].tgt

-----------------------------------------------------------------------------
(* System calls enter bio.c. *)

Call(p, f, l) ==
  /\ At(p, "user")
  /\ frame' = [frame EXCEPT ![p] = f]
  /\ Goto(p, l)
  /\ UNCHANGED <<bufVars, chan>>

CallBread(p)   == \E k \in Block : Call(p, [Idle EXCEPT !.op = "bread", !.tgt = k], "getblk")
CallGetblk(p)  == \E k \in Block : Call(p, [Idle EXCEPT !.op = "getblk", !.tgt = k], "getblk")
CallGeteblk(p) == Call(p, [Idle EXCEPT !.op = "geteblk"], "geteblk")

(* breada() seeks its first block only when it is not in core. *)
CallBreada(p) ==
  \E k, r \in Block :
    /\ r # k
    /\ Call(p, [Idle EXCEPT !.op = "breada", !.tgt = k, !.rablk = r],
            IF Incore(k) THEN "breada" ELSE "getblk")

(* update() flushes every device. *)
CallSync(p) == Call(p, [Idle EXCEPT !.op = "sync", !.scope = Dev], "bflush")

(* closef() on the last close of a block special file: no other process is   *)
(* using the device, though transfers it left behind may be in flight.       *)
Using(q, d) ==
  \/ \E k \in {frame[q].tgt, frame[q].rablk} \cap Block : DevOf[k] = d
  \/ d \in frame[q].scope
CallClose(p) ==
  \E d \in CloseDev :
    /\ \A q \in Proc : ~ Using(q, d)
    /\ Call(p, [Idle EXCEPT !.op = "close", !.scope = {d}], "bflush")

-----------------------------------------------------------------------------
(* getblk(): one action for each way a turn of its loop can go. *)

(* The search of the hash chain finds a buffer that is not stale.  It runs   *)
(* at spl0: an interrupt may come before spl6() and the look at B_BUSY.      *)
GetblkFind(p) ==
  /\ At(p, "getblk")
  /\ \E b \in Match(Sought(p)) : frame' = [frame EXCEPT ![p].wb = b]
  /\ Goto(p, "found")
  /\ UNCHANGED <<bufVars, chan>>

(* The buffer is busy: sleep until it is released, then search again. *)
GetblkBusy(p) ==
  LET b == frame[p].wb IN
  /\ At(p, "found")
  /\ "BUSY" \in flags[b]
  /\ flags' = [flags EXCEPT ![b] = @ \cup {"WANTED"}]
  /\ chan' = [chan EXCEPT ![p] = b]
  /\ frame' = [frame EXCEPT ![p].wb = NoBuf]
  /\ pc' = [pc EXCEPT ![p] = "getblk"]
  /\ cpu' = Nobody
  /\ UNCHANGED <<blk, data, freelist, wantFree, ioq, disk>>

(* It is free: take it off the list, whatever B_STALE says by now. *)
GetblkHit(p) ==
  LET b == frame[p].wb IN
  /\ At(p, "found")
  /\ "BUSY" \notin flags[b]
  /\ \E i \in DOMAIN freelist : freelist[i] = b /\ Unlink(i)
  /\ flags' = [flags EXCEPT ![b] = @ \cup {"BUSY"}]
  /\ Goto(p, "got")
  /\ UNCHANGED <<blk, data, wantFree, ioq, disk, chan, frame>>

(* getblk() found nothing in core, or geteblk() begins. *)
AtFreelist(p) == At(p, "geteblk") \/ (At(p, "getblk") /\ ~ Incore(Sought(p)))

(* Mutant: forgets B_WANTED of the list. *)
NoFreeBufferUnwanted(p) ==
  /\ AtFreelist(p)
  /\ freelist = <<>>
  /\ SleepOn(p, FreeList)
  /\ UNCHANGED bufVars

(* No buffer is free: sleep until one is. *)
NoFreeBuffer(p) ==
  /\ AtFreelist(p)
  /\ freelist = <<>>
  /\ wantFree' = TRUE
  /\ SleepOn(p, FreeList)
  /\ UNCHANGED <<flags, blk, data, freelist, ioq, disk>>

(* Mutant: leaves B_DELWRI on. *)
WriteFlagsKept(F) == F \ {"READ", "DONE", "ERROR"}

(* bwrite() of buffer b with flags F, up to its wait or its tail. *)
WriteFlags(F) == F \ {"READ", "DONE", "ERROR", "DELWRI"}
StartWrite(b, F) ==
  /\ flags' = [flags EXCEPT ![b] = WriteFlags(F)]
  /\ ioq' = ioq \cup {b}

(* Take the delayed write at position i and write it asynchronously. *)
StartDelayed(p, i) ==
  LET b == freelist[i] IN
  /\ Unlink(i)
  /\ StartWrite(b, flags[b] \cup {"BUSY", "ASYNC"})
  /\ frame' = [frame EXCEPT ![p].wb = b, ![p].aging = TRUE]
  /\ Goto(p, "bwrite")
  /\ UNCHANGED <<blk, data, wantFree, disk, chan>>

(* The oldest free buffer holds a delayed write: start it, then look again. *)
EvictDelayed(p) ==
  /\ AtFreelist(p)
  /\ freelist # <<>>
  /\ "DELWRI" \in flags[Head(freelist)]
  /\ StartDelayed(p, 1)

(* The oldest free buffer is clean: reassign it. *)
Reassign(p, k, F) ==
  LET b == Head(freelist) IN
  /\ freelist # <<>>
  /\ "DELWRI" \notin flags[b]
  /\ Unlink(1)
  /\ flags' = [flags EXCEPT ![b] = F]
  /\ blk' = [blk EXCEPT ![b] = k]
  /\ data' = [data EXCEPT ![b] = Garbage]
  /\ frame' = [frame EXCEPT ![p].wb = b]
  /\ Goto(p, "got")
  /\ UNCHANGED <<wantFree, ioq, disk, chan>>

(* Mutant: does not search the hash chain again after a sleep or a write. *)
GetblkReassignBlind(p) ==
  /\ At(p, "getblk")
  /\ Reassign(p, Sought(p), {"BUSY"})

GetblkReassign(p) ==
  /\ At(p, "getblk")
  /\ ~ Incore(Sought(p))
  /\ Reassign(p, Sought(p), {"BUSY"})

GeteblkReassign(p) ==
  /\ At(p, "geteblk")
  /\ Reassign(p, NoBlk, {"BUSY", "AGE"})

(* The end of bwrite() when the transfer is asynchronous: back to the loop   *)
(* that wrote a delayed write, or out of bawrite().  geterror() finds B_ERROR *)
(* of an asynchronous transfer cleared by brelse() and tells nothing.        *)
BwriteTail(p) ==
  /\ At(p, "bwrite")
  /\ LET f == frame[p] IN
     /\ flags' = IF f.aging THEN [flags EXCEPT ![f.wb] = @ \cup {"AGE"}] ELSE flags
     /\ IF f.op = "write" THEN Leave(p)
        ELSE /\ frame' = [frame EXCEPT ![p].wb = NoBuf, ![p].aging = FALSE]
             /\ Goto(p, CASE f.op = "geteblk" -> "geteblk"
                          [] f.op \in {"sync", "close"} -> "bflush"
                          [] OTHER -> "getblk")
  /\ UNCHANGED <<blk, data, freelist, wantFree, ioq, disk, chan>>

-----------------------------------------------------------------------------
(* What the callers of getblk() do with its buffer. *)

(* Mutant: forgets B_READ, so that the driver writes. *)
StartReadAsWrite(b, F) ==
  /\ flags' = [flags EXCEPT ![b] = @ \cup (F \ {"READ"})]
  /\ ioq' = ioq \cup {b}

StartRead(b, F) ==
  /\ flags' = [flags EXCEPT ![b] = @ \cup F]
  /\ ioq' = ioq \cup {b}

TakeBuffer(p) == frame' = [frame EXCEPT ![p].bp = frame[p].wb, ![p].wb = NoBuf]

(* getblk() and geteblk() hand the buffer to their caller. *)
GetblkReturn(p) ==
  /\ At(p, "got")
  /\ frame[p].op \in {"getblk", "geteblk"}
  /\ TakeBuffer(p)
  /\ HandOver(p)
  /\ UNCHANGED <<bufVars, chan>>

(* bread() returns a buffer that is DONE; otherwise bread() and the first    *)
(* half of breada() start to read it.                                        *)
BreadGot(p) ==
  LET b == frame[p].wb
      done == "DONE" \in flags[b] IN
  /\ At(p, "got")
  /\ frame[p].op \in {"bread", "breada"}
  /\ TakeBuffer(p)
  /\ IF done THEN UNCHANGED <<flags, ioq>> ELSE StartRead(b, {"READ"})
  /\ IF frame[p].op = "breada" THEN Goto(p, "breada")
     ELSE IF done THEN HandOver(p)
     ELSE Goto(p, "iowait")
  /\ UNCHANGED <<blk, data, freelist, wantFree, disk, chan>>

(* breada() reads ahead if the block is not in core and two buffers are free. *)
WantsReadAhead(p) ==
  /\ frame[p].op = "breada"
  /\ Len(freelist) > 1
  /\ ~ Incore(frame[p].rablk)

ReadAheadSeek(p) ==
  /\ At(p, "breada")
  /\ WantsReadAhead(p)
  /\ frame' = [frame EXCEPT ![p].op = "readahead"]
  /\ Goto(p, "getblk")
  /\ UNCHANGED <<bufVars, chan>>

(* Mutant: reads ahead without B_ASYNC, so that nobody releases the buffer. *)
ReadAheadGotSync(p) ==
  LET b == frame[p].wb IN
  /\ At(p, "got")
  /\ frame[p].op = "readahead"
  /\ IF "DONE" \in flags[b]
     THEN Brelse(b, flags[b]) /\ UNCHANGED ioq
     ELSE StartRead(b, {"READ"}) /\ UNCHANGED <<freelist, wantFree, chan>>
  /\ frame' = [frame EXCEPT ![p].wb = NoBuf]
  /\ Goto(p, "breada")
  /\ UNCHANGED <<blk, data, disk>>

(* The read-ahead buffer is released at once, or later by the interrupt. *)
ReadAheadGot(p) ==
  LET b == frame[p].wb IN
  /\ At(p, "got")
  /\ frame[p].op = "readahead"
  /\ IF "DONE" \in flags[b]
     THEN Brelse(b, flags[b]) /\ UNCHANGED ioq
     ELSE StartRead(b, {"READ", "ASYNC"}) /\ UNCHANGED <<freelist, wantFree, chan>>
  /\ frame' = [frame EXCEPT ![p].wb = NoBuf]
  /\ Goto(p, "breada")
  /\ UNCHANGED <<blk, data, disk>>

(* The end of breada(): wait for the first block, or read it after all. *)
BreadaTail(p) ==
  /\ At(p, "breada")
  /\ ~ WantsReadAhead(p)
  /\ frame' = [frame EXCEPT ![p].op = "bread", ![p].rablk = NoBlk]
  /\ Goto(p, IF frame[p].bp = NoBuf THEN "getblk" ELSE "iowait")
  /\ UNCHANGED <<bufVars, chan>>

(* iowait() *)
IowaitSleep(p) ==
  /\ At(p, "iowait")
  /\ "DONE" \notin flags[frame[p].bp]
  /\ SleepOn(p, frame[p].bp)
  /\ UNCHANGED bufVars

IowaitRead(p) ==
  /\ At(p, "iowait")
  /\ frame[p].op = "bread"
  /\ "DONE" \in flags[frame[p].bp]
  /\ frame' = [frame EXCEPT ![p].uerror = "ERROR" \in flags[frame[p].bp]]
  /\ HandOver(p)
  /\ UNCHANGED <<bufVars, chan>>

(* bwrite() waited: geterror() sets u.u_error of the system call that ends. *)
IowaitWrite(p) ==
  LET b == frame[p].bp IN
  /\ At(p, "iowait")
  /\ frame[p].op = "write"
  /\ "DONE" \in flags[b]
  /\ Brelse(b, flags[b])
  /\ Leave(p)
  /\ UNCHANGED <<blk, data, ioq, disk>>

-----------------------------------------------------------------------------
(* The owner of a buffer gives it back. *)

ReleaseHeld(p) ==
  LET b == frame[p].bp IN
  /\ At(p, "hold")
  /\ Brelse(b, flags[b])
  /\ Leave(p)
  /\ UNCHANGED <<blk, data, ioq, disk>>

(* The callers write only blocks they got without an error. *)
Writable(p) == At(p, "hold") /\ blk[frame[p].bp] # NoBlk /\ ~ frame[p].uerror

(* Mutant: forgets B_DELWRI. *)
BdwriteClean(p) ==
  LET b == frame[p].bp IN
  /\ Writable(p)
  /\ \E v \in Val : data' = [data EXCEPT ![b] = v]
  /\ Brelse(b, flags[b] \cup {"DONE"})
  /\ Leave(p)
  /\ UNCHANGED <<blk, ioq, disk>>

Bdwrite(p) ==
  LET b == frame[p].bp IN
  /\ Writable(p)
  /\ \E v \in Val : data' = [data EXCEPT ![b] = v]
  /\ Brelse(b, flags[b] \cup {"DELWRI", "DONE"})
  /\ Leave(p)
  /\ UNCHANGED <<blk, ioq, disk>>

WriteHeld(p, F) ==
  LET b == frame[p].bp IN
  /\ Writable(p)
  /\ \E v \in Val : data' = [data EXCEPT ![b] = v]
  /\ StartWrite(b, F)
  /\ frame' = [frame EXCEPT ![p].op = "write", ![p].wb = b, ![p].aging = "DELWRI" \in F]
  /\ Goto(p, IF "ASYNC" \in F THEN "bwrite" ELSE "iowait")
  /\ UNCHANGED <<blk, freelist, wantFree, disk, chan>>

Bwrite(p) == WriteHeld(p, flags[frame[p].bp])

(* Only writei() on a block special file calls bawrite(), with B_AGE set;    *)
(* bawrite() does not wait if enough buffers are free.                       *)
Bawrite(p) ==
  WriteHeld(p, flags[frame[p].bp] \cup {"AGE"}
               \cup (IF Len(freelist) > BawriteFree THEN {"ASYNC"} ELSE {}))

-----------------------------------------------------------------------------
(* bflush() starts the write of the first delayed write it finds and begins  *)
(* again at the head; it never sleeps.                                       *)

Delayed(D) == {i \in DOMAIN freelist :
                 "DELWRI" \in flags[freelist[i]] /\ DevOf[blk[freelist[i]]] \in D}

BflushWrite(p) ==
  /\ At(p, "bflush")
  /\ \E i \in Delayed(frame[p].scope) :
       /\ \A j \in Delayed(frame[p].scope) : i <= j
       /\ StartDelayed(p, i)

(* At the end closef() invalidates the blocks of the device with binval(). *)
Binval(D) ==
  flags' = [b \in Buf |-> IF blk[b] # NoBlk /\ DevOf[blk[b]] \in D
                          THEN flags[b] \cup {"STALE", "AGE"} ELSE flags[b]]
BflushReturn(p) ==
  /\ At(p, "bflush")
  /\ Delayed(frame[p].scope) = {}
  /\ IF frame[p].op = "close" THEN Binval(frame[p].scope) ELSE UNCHANGED flags
  /\ Leave(p)
  /\ UNCHANGED <<blk, data, freelist, wantFree, ioq, disk, chan>>

-----------------------------------------------------------------------------
(* The driver (external) ends a transfer, in any order, and calls iodone().  *)

(* Mutants: the interrupt releases every buffer; it leaves the sleepers be. *)
IodoneReleases(b, F) == Brelse(b, F)
IodoneSilent(b, F) ==
  IF "ASYNC" \in F
  THEN Brelse(b, F)
  ELSE /\ flags' = [flags EXCEPT ![b] = F \ {"WANTED"}]
       /\ UNCHANGED <<freelist, wantFree, chan>>

Iodone(b, F) ==
  IF "ASYNC" \in F
  THEN Brelse(b, F)
  ELSE /\ flags' = [flags EXCEPT ![b] = F \ {"WANTED"}]
       /\ Wakeup({b})
       /\ UNCHANGED <<freelist, wantFree>>

Complete(b) ==
  /\ b \in ioq
  /\ ioq' = ioq \ {b}
  /\ IF "READ" \in flags[b]
     THEN data' = [data EXCEPT ![b] = disk[blk[b]]] /\ UNCHANGED disk
     ELSE disk' = [disk EXCEPT ![blk[b]] = data[b]] /\ UNCHANGED data
  /\ Iodone(b, flags[b] \cup {"DONE"})
  /\ UNCHANGED <<blk, cpu, pc, frame>>

Fail(b) ==
  /\ b \in ioq
  /\ DevOf[blk[b]] \in FailDev
  /\ ioq' = ioq \ {b}
  /\ data' = IF "READ" \in flags[b] THEN [data EXCEPT ![b] = Garbage] ELSE data
  /\ Iodone(b, flags[b] \cup {"ERROR", "DONE"})
  /\ UNCHANGED <<blk, disk, cpu, pc, frame>>

-----------------------------------------------------------------------------
Enter(p) == \/ CallBread(p) \/ CallBreada(p) \/ CallGetblk(p) \/ CallGeteblk(p)
            \/ CallSync(p)  \/ CallClose(p)

Seek(p)  == \/ GetblkFind(p) \/ GetblkBusy(p) \/ GetblkHit(p) \/ NoFreeBuffer(p)
            \/ EvictDelayed(p) \/ GetblkReassign(p) \/ GeteblkReassign(p)

Transfer(p) == \/ BwriteTail(p) \/ GetblkReturn(p) \/ BreadGot(p)
               \/ ReadAheadSeek(p) \/ ReadAheadGot(p) \/ BreadaTail(p)
               \/ IowaitSleep(p) \/ IowaitRead(p) \/ IowaitWrite(p)

GiveBack(p) == ReleaseHeld(p) \/ Bdwrite(p) \/ Bwrite(p) \/ Bawrite(p)

Flush(p) == BflushWrite(p) \/ BflushReturn(p)

Step(p) == Seek(p) \/ Transfer(p) \/ GiveBack(p) \/ Flush(p)

Interrupt == \E b \in Buf : Complete(b) \/ Fail(b)

Next == (\E p \in Proc : Enter(p) \/ Step(p)) \/ Interrupt

Spec == Init /\ [][Next]_vars

(* A process in bio.c that can go on does so in the end, and the devices     *)
(* interrupt for every transfer.  Nothing makes a process enter bio.c.       *)
Fairness ==
  /\ \A p \in Proc : SF_vars(Step(p))
  /\ \A b \in Buf : WF_vars(Complete(b) \/ Fail(b))

FairSpec == Spec /\ Fairness

-----------------------------------------------------------------------------
(* Properties *)

(* A buffer is on the available list exactly once if it is not marked BUSY,  *)
(* and not at all if it is: notavail() and brelse(), called by processes and *)
(* by the interrupt, keep the list and the flag in step.                     *)
FreeIffNotBusy ==
  \A b \in Buf : ("BUSY" \notin flags[b]) =
                 (\E i \in DOMAIN freelist :
                    freelist[i] = b /\ \A j \in DOMAIN freelist : freelist[j] = b => j = i)

(* A block has at most one buffer that is not stale: getblk() searches the   *)
(* hash chain again after every sleep and after every write it starts.       *)
OneBufferPerBlock ==
  \A a, b \in Buf : (a # b /\ blk[a] = blk[b] /\ blk[a] # NoBlk)
                    => "STALE" \in flags[a] \cup flags[b]

(* A buffer has one owner: a process between getblk() and brelse(), or the   *)
(* driver for an asynchronous transfer.  Nobody else may use its memory.     *)
Owns(p, b) ==
  \/ frame[p].bp = b /\ pc[p] # "user" /\ (pc[p] = "bwrite" => frame[p].op # "write")
  \/ frame[p].wb = b /\ pc[p] = "got"
OneOwner ==
  \A b \in Buf :
    /\ "BUSY" \in flags[b] <=> \/ \E p \in Proc : Owns(p, b)
                               \/ b \in ioq /\ "ASYNC" \in flags[b]
    /\ \A p, q \in Proc : Owns(p, b) /\ Owns(q, b) => p = q
    /\ b \in ioq /\ "ASYNC" \in flags[b] => \A p \in Proc : ~ Owns(p, b)

(* No wakeup is lost: whoever sleeps in bio.c sleeps on something whose      *)
(* release is going to call wakeup().  iodone() clears B_WANTED without      *)
(* looking, and brelse() clears that of the list.                            *)
NoLostWakeup ==
  \A p \in Proc :
    LET c == chan[p] IN
    /\ (c \in Buf /\ pc[p] = "iowait") => c \in ioq /\ "ASYNC" \notin flags[c]
    /\ (c \in Buf /\ pc[p] = "getblk") => {"BUSY", "WANTED"} \subseteq flags[c]
    /\ c = FreeList => wantFree /\ freelist = <<>>

(* brelse() marks what an error spoiled: a caller of bread(), breada() or    *)
(* getblk() that was not told of an error and finds B_DONE without B_STALE   *)
(* in its buffer has the contents of the block, also when nobody waited for  *)
(* the transfer.  That a buffer gets B_STALE after getblk() looked for it is *)
(* excluded here; BlockRead says what comes of it.                           *)
NoGarbage ==
  \A p \in Proc :
    LET b == frame[p].bp IN
    (pc[p] = "hold" /\ "DONE" \in flags[b] /\ "STALE" \notin flags[b] /\ ~ frame[p].uerror)
    => data[b] # Garbage /\ "ERROR" \notin flags[b]

(* bread() and breada() read the block if it is not in core: who is not told *)
(* of an error has its contents.  The code breaks this: between the look at  *)
(* B_STALE and spl6() a read-ahead may fail and be released.                 *)
BlockRead ==
  \A p \in Proc : (pc[p] = "hold" /\ frame[p].op = "bread" /\ ~ frame[p].uerror)
                   => data[frame[p].bp] # Garbage

(* The buffer is not of a device that fails. *)
Steady(b) == blk[b] # NoBlk => DevOf[blk[b]] \notin FailDev

(* Nobody is handed contents that binval() invalidated after the last close  *)
(* of the device, also when transfers it left behind end later, and no error *)
(* of one device invalidates the buffers of another.  The buffers of the     *)
(* devices that fail are excluded: getblk() may take one that has just       *)
(* become stale, see BlockRead.                                              *)
StaleNotServed ==
  \A p \in Proc : (pc[p] = "hold" /\ Steady(frame[p].bp)) => "STALE" \notin flags[frame[p].bp]

(* Whoever goes to sleep in the buffer cache is woken. *)
Woken == \A p \in Proc : (chan[p] # Awake) ~> (chan[p] = Awake)

(* bflush() ends although it starts again after every write. *)
FlushEnds == \A p \in Proc : (pc[p] = "bflush") ~> (pc[p] = "user")

-----------------------------------------------------------------------------
(* The inductive invariant behind TypeOK, FreeIffNotBusy, OneBufferPerBlock  *)
(* and OneOwner, in named parts.                                             *)

(* What each process is doing agrees with where it is. *)
FrameOK(f, l) ==
  /\ l = "user" => f.op = "none"
  /\ l \in {"getblk", "found"} => f.op \in {"bread", "breada", "readahead", "getblk"}
  /\ l = "found" => f.wb \in Buf
  /\ l = "geteblk" => f.op = "geteblk"
  /\ l = "got" => f.wb \in Buf /\ f.op \in {"bread", "breada", "readahead", "getblk", "geteblk"}
  /\ l = "breada" => f.op \in {"breada", "readahead"}
  /\ l = "iowait" => f.bp \in Buf /\ f.op \in {"bread", "write"}
  /\ l = "hold" => f.bp \in Buf
  /\ l = "bflush" => f.op \in {"sync", "close"}
  /\ l = "bwrite" => f.op # "none"
  /\ (l = "bwrite" /\ f.op \in {"geteblk", "sync", "close"}) => f.bp = NoBuf
  /\ f.op \in {"bread", "breada", "readahead", "getblk"} => f.tgt \in Block
  /\ f.op \in {"breada", "readahead"} => f.rablk \in Block
  /\ l \in {"user", "geteblk", "bflush"} => f.bp = NoBuf
FramesOK == \A p \in Proc : FrameOK(frame[p], pc[p])

(* The available list holds each buffer that is not BUSY, once. *)
ListOK ==
  /\ IsInjective(freelist)
  /\ Range(freelist) = {b \in Buf : "BUSY" \notin flags[b]}

(* A buffer in the driver is BUSY, belongs to a block and is not done. *)
DriverOK ==
  \A b \in ioq : /\ "BUSY" \in flags[b]
                 /\ blk[b] \in Block
                 /\ flags[b] \cap {"DONE", "DELWRI"} = {}
                 /\ "READ" \notin flags[b] => data[b] \in Val

(* Delayed writes have contents to write. *)
DelayedOK ==
  \A b \in Buf : "DELWRI" \in flags[b] =>
                    "DONE" \in flags[b] /\ blk[b] \in Block /\ data[b] \in Val

(* An owned buffer is BUSY and the interrupt is not going to release it; it  *)
(* has one owner; its owner may use it when no transfer is under way.        *)
OwnersBusy  == \A p \in Proc, b \in Buf : Owns(p, b) => "BUSY" \in flags[b] /\ "ASYNC" \notin flags[b]
OwnersAlone == \A p, q \in Proc, b \in Buf : Owns(p, b) /\ Owns(q, b) => p = q
OwnersIdle  ==
  \A p \in Proc :
    /\ pc[p] = "got" => frame[p].bp # frame[p].wb /\ frame[p].wb \notin ioq
    /\ pc[p] = "hold" => frame[p].bp \notin ioq
AsyncInDriver == \A b \in Buf : "ASYNC" \in flags[b] => b \in ioq
OwnersOK == OwnersBusy /\ OwnersAlone /\ OwnersIdle /\ AsyncInDriver

(* getblk() found or made the buffer of the block it was asked for. *)
FoundOK ==
  \A p \in Proc : (pc[p] = "got" /\ frame[p].op # "geteblk") => blk[frame[p].wb] = Sought(p)

BioInv == /\ TypeOK /\ FramesOK /\ ListOK /\ DriverOK /\ DelayedOK /\ OwnersOK
          /\ FoundOK /\ OneBufferPerBlock

(* Between the search and the look at B_BUSY no other process runs, so the   *)
(* buffer still belongs to the block.                                        *)
Looking == \A p \in Proc : pc[p] = "found" => cpu = p /\ blk[frame[p].wb] = Sought(p)
=============================================================================
