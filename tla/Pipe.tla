--------------------------------- MODULE Pipe ---------------------------------
(***************************************************************************)
(* Pipes and named pipes: os/pipe.c (pipe, openp, closep, plock, prele),   *)
(* the IFIFO parts of readi() and writei() in os/rdwri.c and of bmap() in  *)
(* os/subr.c, and of rdwr() and copen() in os/sys2.c and closef() in       *)
(* os/fio.c.                                                               *)
(*                                                                         *)
(* One pipe.  A byte is its place in what the call writes.  A block of     *)
(* which the delayed write was cancelled, or a buffer that was not read,   *)
(* holds Lost bytes, and so does what was read once.                       *)
(* User addresses are good, and the device has blocks and no errors.       *)
(***************************************************************************)
EXTENDS Integers, Sequences, FiniteSets

CONSTANTS Proc,
          NFADDR, BSIZE,   \* blocks of a pipe, bytes of a block
          Opened,          \* the modes that are used to open it
          Reads, Writes,   \* how much a call asks for
          Lost             \* the contents of a block that was not kept

PIPSIZ == NFADDR * BSIZE

ASSUME PipeAssumption ==
  /\ IsFiniteSet(Proc)
  /\ NFADDR \in Nat \ {0} /\ BSIZE \in Nat \ {0}
  /\ Opened \subseteq {{"r"}, {"w"}, {"r", "w"}}
  /\ Reads \subseteq Nat \ {0} /\ Writes \subseteq Nat \ {0}

R == {"r"}
W == {"w"}
Modes == {R, W, R \cup W}

VARIABLES frcnt, fwcnt,     \* i_frcnt, i_fwcnt
          size,             \* i_size
          frptr, fwptr,     \* i_frptr, i_fwptr
          fflag,            \* i_fflag
          locked, want,     \* ILOCK, IWANT
          ring,             \* the blocks of the pipe, as the cache keeps them
          files,            \* the open files of each process
          chan,             \* what it sleeps for
          pc,
          u                 \* u_count, usave, u_offset, and the call

fifo == <<frcnt, fwcnt, size, frptr, fwptr, fflag, ring>>
lock == <<locked, want>>
proc == <<files, chan, pc, u>>
vars == <<fifo, lock, proc>>

(* job: what it locks the pipe for; file: the one it opens or closes;      *)
(* waited: the call has slept, so that it does not have O_NDELAY; total:   *)
(* what it asked for; put: what of it is in the pipe and not yet below     *)
(* i_fwptr; got: what was read; told: how it ended, none for a signal or   *)
(* for O_NDELAY.                                                           *)
NoCall == [job |-> "none", file |-> {}, count |-> 0, usave |-> 0, offset |-> 0, waited |-> FALSE,
           total |-> 0, put |-> 0, got |-> <<>>, told |-> "none"]

(* pipe() gives its caller both ends, or nobody has opened the pipe yet.   *)
Init ==
  /\ \E T \in {{}} \cup {{p} : p \in Proc} :
       /\ files = [p \in Proc |-> IF p \in T THEN {R, W} ELSE {}]
       /\ frcnt = Cardinality(T) /\ fwcnt = Cardinality(T)
  /\ size = 0 /\ frptr = 0 /\ fwptr = 0
  /\ fflag = {}
  /\ locked = FALSE /\ want = FALSE
  /\ ring = [i \in 0 .. PIPSIZ - 1 |-> Lost]
  /\ chan = [p \in Proc |-> "none"]
  /\ pc = [p \in Proc |-> "user"]
  /\ u = [p \in Proc |-> NoCall]

Least(S) == CHOOSE x \in S : \A y \in S : x <= y

At(p, l) == pc[p] = l /\ chan[p] = "none"
Goes(p, l) == pc' = [pc EXCEPT ![p] = l]

(* wakeup(), with ch for the sleep queue before. *)
Woken(ch, C) == [p \in Proc |-> IF ch[p] \in C THEN "none" ELSE ch[p]]

(* plock(). *)
Plock(p) ==
  /\ At(p, "plock")
  /\ IF locked
     THEN want' = TRUE /\ chan' = [chan EXCEPT ![p] = "ip"] /\ UNCHANGED <<locked, pc>>
     ELSE locked' = TRUE /\ Goes(p, u[p].job) /\ UNCHANGED <<want, chan>>
  /\ UNCHANGED <<fifo, files, u>>

(* prele(), with the wakeup of C before it and the sleep queue ch. *)
Prele(ch, C) ==
  /\ locked' = FALSE
  /\ want' = FALSE
  /\ chan' = Woken(ch, C \cup IF want THEN {"ip"} ELSE {})

(* prele() and sleep(). *)
WaitsOn(p, c, flag) ==
  /\ fflag' = fflag \cup {flag}
  /\ locked' = FALSE /\ want' = FALSE
  /\ chan' = [Woken(chan, IF want THEN {"ip"} ELSE {}) EXCEPT ![p] = c]
  /\ Goes(p, "slept")
  /\ u' = [u EXCEPT ![p].waited = TRUE]
  /\ UNCHANGED <<frcnt, fwcnt, size, frptr, fwptr, ring, files>>

Returns(p, how) ==
  /\ Goes(p, IF how = "none" THEN "user" ELSE "back")
  /\ u' = [u EXCEPT ![p] = [NoCall EXCEPT !.told = how]]

------------------------------------------------------------------------------
(* copen(): openp() runs without the lock.                                 *)

(* The loops of openp(): nd is O_NDELAY, r and w are the counts.           *)
Opens(p, f, nd, r, w, ch) ==
  LET c == IF f = R /\ w = 0 /\ ~nd /\ size = 0 THEN "fwcnt"
           ELSE IF f = W /\ r = 0 THEN "frcnt" ELSE "none"
  IN IF c = "none"
     THEN /\ files' = [files EXCEPT ![p] = @ \cup {f}]
          /\ chan' = ch
          /\ Returns(p, "none")
     ELSE /\ chan' = [ch EXCEPT ![p] = c]
          /\ Goes(p, "opening")
          /\ u' = [u EXCEPT ![p] = [NoCall EXCEPT !.file = f]]
          /\ UNCHANGED files

Open(p, f, nd) ==
  /\ At(p, "user") /\ files[p] = {}
  /\ ~locked
  /\ IF f = W /\ nd /\ frcnt = 0
     THEN UNCHANGED <<frcnt, fwcnt, proc>>
     ELSE LET r  == frcnt + Cardinality(f \cap R)
              w  == fwcnt + Cardinality(f \cap W)
              up == (IF r = 1 /\ frcnt = 0 THEN {"frcnt"} ELSE {})
                    \cup (IF w = 1 /\ fwcnt = 0 THEN {"fwcnt"} ELSE {})
          IN /\ frcnt' = r /\ fwcnt' = w
             /\ Opens(p, f, nd, r, w, Woken(chan, up))
  /\ UNCHANGED <<size, frptr, fwptr, fflag, ring, lock>>

OpenAgain(p) ==
  /\ At(p, "opening")
  /\ Opens(p, u[p].file, FALSE, frcnt, fwcnt, chan)
  /\ UNCHANGED <<fifo, lock>>

(* close(): closef() locks the pipe. *)
Close(p, f) ==
  /\ At(p, "user") /\ f \in files[p]
  /\ files' = [files EXCEPT ![p] = @ \ {f}]
  /\ Goes(p, "plock")
  /\ u' = [u EXCEPT ![p] = [NoCall EXCEPT !.job = "closep", !.file = f]]
  /\ UNCHANGED <<fifo, lock, chan>>

(* Mutant: the last writer leaves without a word. *)
ClosepSilent(p) ==
  LET f   == u[p].file
      r   == frcnt - Cardinality(f \cap R)
      w   == fwcnt - Cardinality(f \cap W)
      noR == "r" \in f /\ r = 0 /\ "IFIW" \in fflag
      noW == "w" \in f /\ w = 0 /\ "IFIR" \in fflag
  IN /\ At(p, "closep")
     /\ frcnt' = r /\ fwcnt' = w
     /\ fflag' = fflag \ ((IF noR THEN {"IFIW"} ELSE {}) \cup (IF noW THEN {"IFIR"} ELSE {}))
     /\ Prele(chan, IF noR THEN {"fwcnt"} ELSE {})
     /\ IF r = 0 /\ w = 0
        THEN /\ size' = 0 /\ frptr' = 0 /\ fwptr' = 0
             /\ ring' = [i \in DOMAIN ring |-> Lost]
        ELSE UNCHANGED <<size, frptr, fwptr, ring>>
     /\ Returns(p, "none")
     /\ UNCHANGED files

Closep(p) ==
  LET f   == u[p].file
      r   == frcnt - Cardinality(f \cap R)
      w   == fwcnt - Cardinality(f \cap W)
      noR == "r" \in f /\ r = 0 /\ "IFIW" \in fflag
      noW == "w" \in f /\ w = 0 /\ "IFIR" \in fflag
  IN /\ At(p, "closep")
     /\ frcnt' = r /\ fwcnt' = w
     /\ fflag' = fflag \ ((IF noR THEN {"IFIW"} ELSE {}) \cup (IF noW THEN {"IFIR"} ELSE {}))
     /\ Prele(chan, (IF noR THEN {"fwcnt"} ELSE {}) \cup (IF noW THEN {"frcnt"} ELSE {}))
     /\ IF r = 0 /\ w = 0
        THEN /\ size' = 0 /\ frptr' = 0 /\ fwptr' = 0
             /\ ring' = [i \in DOMAIN ring |-> Lost]
        ELSE UNCHANGED <<size, frptr, fwptr, ring>>
     /\ Returns(p, "none")
     /\ UNCHANGED files

------------------------------------------------------------------------------
(* rdwr().                                                                 *)

Call(p, job, n) ==
  /\ At(p, "user")
  /\ \E f \in files[p] : (IF job = "read" THEN "r" ELSE "w") \in f
  /\ Goes(p, "plock")
  /\ u' = [u EXCEPT ![p] = [NoCall EXCEPT !.job = job, !.count = n, !.total = n]]
  /\ UNCHANGED <<fifo, lock, files, chan>>

(* The reader waits for bytes. *)
Read(p) ==
  /\ At(p, "read")
  /\ \/ /\ size = 0 /\ (fwcnt = 0 \/ ~u[p].waited)
        /\ Prele(chan, {})
        /\ Returns(p, IF fwcnt = 0 THEN "eof" ELSE "none")
        /\ UNCHANGED <<fifo, files>>
     \/ /\ size = 0 /\ fwcnt > 0
        /\ WaitsOn(p, "frcnt", "IFIR")
     \/ /\ size > 0
        /\ Goes(p, "read block")
        /\ u' = [u EXCEPT ![p].offset = frptr]
        /\ UNCHANGED <<fifo, lock, files, chan>>

BlockOf(i) == i \div BSIZE

(* The bytes of one block; when it is used up, and nothing that was written *)
(* since can be in it, its delayed write is cancelled.                     *)
ReadBlock(p) ==
  LET o  == u[p].offset
      n  == Least({BSIZE - (o % BSIZE), u[p].count, size})
      up == (o % BSIZE) + n = BSIZE /\ size - n < PIPSIZ - BSIZE
  IN /\ At(p, "read block")
     /\ n > 0
     /\ size' = size - n
     /\ ring' = [i \in DOMAIN ring |-> IF i \in o .. o + n - 1 \/ (up /\ BlockOf(i) = BlockOf(o))
                                         THEN Lost ELSE ring[i]]
     /\ u' = [u EXCEPT ![p].offset = (o + n) % PIPSIZ, ![p].count = @ - n,
                       ![p].got = @ \o [i \in 1 .. n |-> ring[o + i - 1]]]
     /\ UNCHANGED <<frcnt, fwcnt, frptr, fwptr, fflag, lock, files, chan, pc>>

ReadEnd(p) ==
  /\ At(p, "read block")
  /\ u[p].count = 0 \/ size = 0
  /\ frptr' = IF size > 0 THEN u[p].offset ELSE 0
  /\ fwptr' = IF size > 0 THEN fwptr ELSE 0
  /\ fflag' = fflag \ {"IFIW"}
  /\ Prele(chan, IF "IFIW" \in fflag THEN {"fwcnt"} ELSE {})
  /\ Returns(p, "done")
  /\ UNCHANGED <<frcnt, fwcnt, size, ring, files>>

(* The writer waits for room: for all it has, or if that is more than a    *)
(* pipe holds, for any.                                                    *)
Write(p) ==
  LET c    == u[p].count
      full == c + size > PIPSIZ
      part == c > PIPSIZ /\ size < PIPSIZ
  IN /\ At(p, "write")
     /\ \/ /\ frcnt = 0
           /\ Prele(chan, {})
           /\ Returns(p, "pipe")
           /\ UNCHANGED <<fifo, files>>
        \/ /\ frcnt > 0 /\ full /\ ~part /\ ~u[p].waited
           /\ Prele(chan, {})
           /\ Returns(p, "none")
           /\ UNCHANGED <<fifo, files>>
        \/ /\ frcnt > 0 /\ full /\ ~part
           /\ WaitsOn(p, "fwcnt", "IFIW")
        \/ /\ frcnt > 0 /\ (full => part)
           /\ Goes(p, "write block")
           /\ u' = [u EXCEPT ![p].offset = fwptr,
                             ![p].count = IF full THEN PIPSIZ - size ELSE c,
                             ![p].usave = IF full THEN c - (PIPSIZ - size) ELSE 0]
           /\ UNCHANGED <<fifo, lock, files, chan>>

Sent(c) == c.total - c.count - c.usave

(* Mutant: a block that is written from its start is never read. *)
WriteBlockBlind(p) ==
  LET o     == u[p].offset
      on    == o % BSIZE
      n     == Least({BSIZE - on, u[p].count})
      blind == on = 0
  IN /\ At(p, "write block")
     /\ n > 0
     /\ size' = size + n
     /\ ring' = [i \in DOMAIN ring |->
                   IF i \in o .. o + n - 1 THEN Sent(u[p]) + i - o + 1
                   ELSE IF blind /\ BlockOf(i) = BlockOf(o) THEN Lost ELSE ring[i]]
     /\ u' = [u EXCEPT ![p].offset = (o + n) % PIPSIZ, ![p].count = @ - n, ![p].put = @ + n]
     /\ UNCHANGED <<frcnt, fwcnt, frptr, fwptr, fflag, lock, files, chan, pc>>

(* The bytes of one block; the old contents are not read if all of it is   *)
(* written, or if nothing that is not yet read can be in it.               *)
WriteBlock(p) ==
  LET o     == u[p].offset
      on    == o % BSIZE
      n     == Least({BSIZE - on, u[p].count})
      blind == n = BSIZE \/ (on = 0 /\ size < PIPSIZ - BSIZE)
  IN /\ At(p, "write block")
     /\ n > 0
     /\ size' = size + n
     /\ ring' = [i \in DOMAIN ring |->
                   IF i \in o .. o + n - 1 THEN Sent(u[p]) + i - o + 1
                   ELSE IF blind /\ BlockOf(i) = BlockOf(o) THEN Lost ELSE ring[i]]
     /\ u' = [u EXCEPT ![p].offset = (o + n) % PIPSIZ, ![p].count = @ - n, ![p].put = @ + n]
     /\ UNCHANGED <<frcnt, fwcnt, frptr, fwptr, fflag, lock, files, chan, pc>>

WriteEnd(p) ==
  LET rd == IF "IFIR" \in fflag THEN {"frcnt"} ELSE {} IN
  /\ At(p, "write block")
  /\ u[p].count = 0
  /\ fwptr' = u[p].offset
  /\ fflag' = fflag \ {"IFIR"}
  /\ IF u[p].usave > 0
     THEN /\ Goes(p, "write")
          /\ u' = [u EXCEPT ![p].count = u[p].usave, ![p].usave = 0, ![p].put = 0]
          /\ chan' = Woken(chan, rd)
          /\ UNCHANGED lock
     ELSE Returns(p, "done") /\ Prele(chan, rd)
  /\ UNCHANGED <<frcnt, fwcnt, size, frptr, ring, files>>

(* The end of rdwr(). *)
Back(p) ==
  /\ At(p, "back")
  /\ Goes(p, "user")
  /\ u' = [u EXCEPT ![p] = NoCall]
  /\ UNCHANGED <<fifo, lock, files, chan>>

(* sleep() returns. *)
Slept(p) ==
  /\ At(p, "slept")
  /\ Goes(p, "plock")
  /\ UNCHANGED <<fifo, lock, files, chan, u>>

(* Mutant: a half-done open is forgotten. *)
InterruptedLeaks(p) ==
  /\ pc[p] \in {"slept", "opening"}
  /\ chan' = [chan EXCEPT ![p] = "none"]
  /\ Returns(p, "none")
  /\ UNCHANGED <<fifo, lock, files>>

(* A signal ends the sleep: rdwr() is left as it is, copen() closes.       *)
Interrupted(p) ==
  /\ pc[p] \in {"slept", "opening"}
  /\ chan' = [chan EXCEPT ![p] = "none"]
  /\ IF pc[p] = "slept"
     THEN Returns(p, "none")
     ELSE Goes(p, "plock") /\ u' = [u EXCEPT ![p].job = "closep"]
  /\ UNCHANGED <<fifo, lock, files>>

Step(p) == \/ Plock(p) \/ OpenAgain(p) \/ Closep(p) \/ Slept(p) \/ Back(p)
           \/ Read(p) \/ ReadBlock(p) \/ ReadEnd(p)
           \/ Write(p) \/ WriteBlock(p) \/ WriteEnd(p)

User(p) == \/ \E f \in Opened, nd \in BOOLEAN : Open(p, f, nd)
           \/ \E f \in Modes : Close(p, f)
           \/ \E n \in Reads : Call(p, "read", n)
           \/ \E n \in Writes : Call(p, "write", n)
           \/ Interrupted(p)

Next == \E p \in Proc : Step(p) \/ User(p)

Spec == Init /\ [][Next]_vars

------------------------------------------------------------------------------
(* Every variable keeps its type: i_size stays within the pipe, and no     *)
(* count gets below zero.                                                  *)
TypeOK ==
  /\ frcnt \in Nat /\ fwcnt \in Nat
  /\ size \in 0 .. PIPSIZ
  /\ frptr \in 0 .. PIPSIZ - 1 /\ fwptr \in 0 .. PIPSIZ - 1
  /\ fflag \subseteq {"IFIR", "IFIW"}
  /\ locked \in BOOLEAN /\ want \in BOOLEAN
  /\ files \in [Proc -> SUBSET Modes]
  /\ chan \in [Proc -> {"none", "ip", "frcnt", "fwcnt"}]

(* The counts are those of the open files, and of those that are opened or *)
(* closed at the moment: no signal in a half-done open loses one.          *)
Having(f)   == {p \in Proc : f \in files[p]}
Half(m)    == {p \in Proc : (pc[p] = "opening" \/ u[p].job = "closep") /\ m \in u[p].file}
Ends(m)    == Cardinality(Having({m})) + Cardinality(Having({"r", "w"})) + Cardinality(Half(m))

CountsExact == frcnt = Ends("r") /\ fwcnt = Ends("w")

(* And between the calls the pointers enclose i_size bytes. *)
PointersExact == ~locked => fwptr = (frptr + size) % PIPSIZ

(* No signal, half-done open or close loses an end of the pipe or leaves   *)
(* the pointers astray.                                                    *)
EndsExact == TypeOK /\ CountsExact /\ PointersExact

(* Nobody sleeps for what is there: bytes or the end of them for a reader, *)
(* room or the end of the readers for a writer, the other end for one who  *)
(* opens, and the lock.                                                    *)
SleepsForReason ==
  /\ \A p \in Proc : chan[p] = "ip" => locked /\ want
  /\ ~locked => \A p \in Proc :
       /\ pc[p] = "slept" /\ chan[p] = "frcnt" => size = 0 /\ fwcnt > 0
       /\ pc[p] = "slept" /\ chan[p] = "fwcnt" =>
            frcnt > 0 /\ u[p].count + size > PIPSIZ /\ (u[p].count > PIPSIZ => size = PIPSIZ)
       /\ pc[p] = "opening" /\ chan[p] = "frcnt" => frcnt = 0
       /\ pc[p] = "opening" /\ chan[p] = "fwcnt" => fwcnt = 0 /\ size = 0

------------------------------------------------------------------------------
(* The pipe implements a stream: what is being written counts when the     *)
(* write is done, what is being read is gone block by block.               *)
Halves(l) == {p \in Proc : pc[p] = l}
Put       == IF Halves("write block") = {} THEN 0 ELSE u[CHOOSE p \in Halves("write block") : TRUE].put
First     == IF Halves("read block") = {} THEN frptr ELSE u[CHOOSE p \in Halves("read block") : TRUE].offset

S == INSTANCE Stream WITH
       Cap     <- PIPSIZ,
       q       <- [i \in 1 .. size - Put |-> ring[(First + i - 1) % PIPSIZ]],
       todo    <- [p \in Proc |-> IF u[p].job = "write"
                                  THEN [i \in 1 .. u[p].count + u[p].usave + u[p].put |->
                                          Sent(u[p]) - u[p].put + i]
                                  ELSE <<>>],
       got     <- [p \in Proc |-> u[p].got],
       told    <- [p \in Proc |-> u[p].told],
       readers <- frcnt,
       writers <- fwcnt

(* Small writes are never mixed, bytes come out in order and once, and     *)
(* nobody is told of an end that is not one.                               *)
ImplementsStream == S!Spec
=============================================================================
