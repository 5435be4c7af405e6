-------------------------------- MODULE Inode --------------------------------
(***************************************************************************)
(* The inode table and the calls on names: iget(), iread(), iput() and     *)
(* iupdat() of os/iget.c with plock() and prele(), ialloc(), ifree() and   *)
(* the inodes' part of update() of os/alloc.c, and, in one directory,      *)
(* open(), creat(), close(), link(), unlink() and pipe().                  *)
(*                                                                         *)
(* A regular file is its inode: mode and i_nlink.  Its blocks, times and   *)
(* permissions, and s_tinode and s_fmod, are left out, and the directory   *)
(* always has room and can be read.  What is written without a wait gets   *)
(* to the disk later, block by block.                                      *)
(*                                                                         *)
(* A step ends where the code may sleep.  It may end earlier, when nobody  *)
(* else can tell: the process holds the lock of what it works on.  Before  *)
(* iget(), plock() and the loops it holds none, and others may run here    *)
(* where the code goes on at once; InodeNames leaves these behaviours out. *)
(***************************************************************************)
EXTENDS Integers, FiniteSets, Sequences

CONSTANTS Proc, Name,
          NINODE,            \* v.v_inode, the entries of the table
          NINO, INOPB,       \* the i list, and the inodes of a block
          NICINOD, NFILE, MAXLINK,
          Links0,            \* the directory at first: [Name -> 0 .. NINO]
          Work,              \* what the processes may call, with which names
          Flaky              \* the blocks of inodes that cannot always be read then

Ino  == 1 .. NINO
Slot == 1 .. NINODE
Calls == {"open", "creat", "close", "link", "unlink", "pipe", "sync"}

ASSUME InodeAssumption ==
  /\ NINODE \in Nat \ {0} /\ NINO \in Nat \ {0} /\ INOPB \in Nat \ {0}
  /\ NICINOD \in Nat \ {0}
  /\ IsFiniteSet(Proc) /\ IsFiniteSet(Name)
  /\ NFILE \in Nat /\ MAXLINK \in Nat \ {0}
  /\ Links0 \in [Name -> 0 .. NINO]
  /\ Work \subseteq [Proc -> SUBSET (Calls \X ({0} \cup Name))]
  /\ Flaky \subseteq Work \X Nat
  /\ Name \subseteq Nat \ {0}

VARIABLES dino, disk,        \* the i list: in the buffers, and on the disk
          dent, ddent,       \* the directory, likewise
          dlock,             \* ILOCK of the directory
          inode,             \* inode[]
          ifreelist,
          sninode, sinode, silock,   \* s_ninode, s_inode, s_ilock
          files,             \* how often each process has each inode open
          uinode,            \* uinode.i_flag: an update() is going on
          may,               \* the calls of each process, one of Work
          pc, chan, u

dev   == <<dino, disk>>
dir   == <<dent, ddent, dlock>>
table == <<inode, ifreelist>>
super == <<sninode, sinode, silock>>
vars  == <<dev, dir, table, super, files, uinode, pc, chan, u, may>>

(* op: what the call does now; name, to: its arguments; ino: what iget()   *)
(* looks for, or ialloc() searches from; ip, xp: the entries it has; next: *)
(* the entry update() looks at; err: u_error.                              *)
Idle == [op |-> "none", name |-> 0, to |-> 0, ino |-> 0, ip |-> 0, xp |-> 0,
         next |-> 1, err |-> FALSE]

Named(d, i) == {n \in Name : d[n] = i}

Init ==
  /\ dent = Links0 /\ ddent = Links0
  /\ dino = [i \in Ino |-> [mode  |-> IF Named(Links0, i) = {} THEN 0 ELSE 1,
                            nlink |-> Cardinality(Named(Links0, i))]]
  /\ disk = dino
  /\ dlock = FALSE
  /\ inode = [s \in Slot |-> [ino |-> 0, lock |-> FALSE, want |-> FALSE, count |-> 0,
                              upd |-> FALSE, syn |-> FALSE, mode |-> 0, nlink |-> 0]]
  /\ ifreelist = [s \in Slot |-> s]
  /\ sninode = 0 /\ sinode = [k \in 0 .. NICINOD - 1 |-> 0] /\ silock = FALSE
  /\ files = [p \in Proc |-> [s \in Slot |-> 0]]
  /\ uinode = FALSE
  /\ may \in Work
  /\ pc = [p \in Proc |-> "user"]
  /\ chan = [p \in Proc |-> 0]
  /\ u = [p \in Proc |-> Idle]

(* What a process sleeps for: an entry of the table, or one of these.      *)
DIR   == NINODE + 1
ILIST == NINODE + 2

At(p, l) == pc[p] = l /\ chan[p] = 0
Goes(p, l) == pc' = [pc EXCEPT ![p] = l]
Returns(p) == Goes(p, "user") /\ u' = [u EXCEPT ![p] = Idle]

Sleeps(p, c) == chan' = [chan EXCEPT ![p] = c]
Woken(c) == [p \in Proc |-> IF chan[p] = c THEN 0 ELSE chan[p]]

(* Mutant: IWANT is cleared before it is tested. *)
PreleQuiet(s, r) ==
  /\ inode' = [inode EXCEPT ![s] = [r EXCEPT !.lock = FALSE, !.want = FALSE]]
  /\ chan' = chan

(* prele() of an entry, which r is to be, and of the directory.            *)
Prele(s, r) ==
  /\ inode' = [inode EXCEPT ![s] = [r EXCEPT !.lock = FALSE, !.want = FALSE]]
  /\ chan' = IF inode[s].want THEN Woken(s) ELSE chan

DirPrele == dlock' = FALSE /\ chan' = Woken(DIR)

FsITOD(i) == (i - 1) \div INOPB
FsINOS(i) == (i \div INOPB) * INOPB + 1
Block(i)  == {j \in Ino : FsITOD(j) = FsITOD(i)}

(* bread() of the block of an inode: whether it can be read.               *)
Reads(i) == IF <<may, FsITOD(i)>> \in Flaky THEN BOOLEAN ELSE {TRUE}

(* The entry a call works on.                                              *)
Cur(p) == IF u[p].op = "link2" THEN u[p].xp ELSE u[p].ip
WithCur(r, s) == IF r.op = "link2" THEN [r EXCEPT !.xp = s] ELSE [r EXCEPT !.ip = s]

(* ialloc() returns without an inode.                                      *)
Fails(r) == [r EXCEPT !.err = TRUE, !.op = CASE @ = "new"  -> "no new"
                                             [] @ = "pipe" -> "no pipe"
                                             [] OTHER      -> @]

(* Where an iput() leads to, or an iget() that failed.                     *)
Leaves(p, r) ==
  LET To(l, x) == Goes(p, l) /\ u' = [u EXCEPT ![p] = WithCur(x, 0)] IN
  CASE r.op = "link2"                -> Goes(p, "out") /\ u' = [u EXCEPT ![p] = [r EXCEPT !.op = "out", !.xp = 0, !.err = TRUE]]
    [] r.op \in {"unlink", "no new"} -> To("dput", r)
    [] r.op \in {"new", "pipe"}      -> To("ialloc", r)
    [] r.op = "sync"                 -> To("sync", r)
    [] OTHER                         -> Returns(p)

------------------------------------------------------------------------------
(* iget().                                                                 *)

SlotsOf(i) == {s \in Slot : inode[s].ino = i}

(* Mutant: the entry is found, and its lock taken, without a reference. *)
IgetFoundUncounted(p) ==
  /\ At(p, "iget")
  /\ \E s \in SlotsOf(u[p].ino) :
       IF inode[s].lock
       THEN /\ inode' = [inode EXCEPT ![s].want = TRUE]
            /\ Sleeps(p, s)
            /\ UNCHANGED <<pc, u>>
       ELSE /\ inode' = [inode EXCEPT ![s].lock = TRUE]
            /\ Goes(p, "got")
            /\ u' = [u EXCEPT ![p] = WithCur(@, s)]
            /\ UNCHANGED chan
  /\ UNCHANGED <<dev, dir, ifreelist, super, files, uinode, may>>

IgetFound(p) ==
  /\ At(p, "iget")
  /\ \E s \in SlotsOf(u[p].ino) :
       IF inode[s].lock
       THEN /\ inode' = [inode EXCEPT ![s].want = TRUE]
            /\ Sleeps(p, s)
            /\ UNCHANGED <<pc, u>>
       ELSE /\ inode' = [inode EXCEPT ![s].lock = TRUE, ![s].count = @ + 1]
            /\ Goes(p, "got")
            /\ u' = [u EXCEPT ![p] = WithCur(@, s)]
            /\ UNCHANGED chan
  /\ UNCHANGED <<dev, dir, ifreelist, super, files, uinode, may>>

(* The table is full. *)
IgetNone(p) ==
  /\ At(p, "iget")
  /\ SlotsOf(u[p].ino) = {} /\ ifreelist = <<>>
  /\ Leaves(p, Fails(u[p]))
  /\ UNCHANGED <<dev, dir, table, super, files, uinode, may, chan>>

(* The entry keeps i_mode and i_nlink until iread() has read the new ones. *)
IgetNew(p) ==
  /\ At(p, "iget")
  /\ SlotsOf(u[p].ino) = {} /\ ifreelist # <<>>
  /\ LET s == Head(ifreelist) IN
       /\ inode' = [inode EXCEPT ![s].ino = u[p].ino, ![s].lock = TRUE, ![s].count = @ + 1]
       /\ u' = [u EXCEPT ![p] = WithCur(@, s)]
  /\ ifreelist' = Tail(ifreelist)
  /\ Goes(p, "iread")
  /\ UNCHANGED <<dev, dir, super, files, uinode, may, chan>>

Iread(p) ==
  /\ At(p, "iread")
  /\ \E ok \in Reads(u[p].ino) :
       IF ok /\ ~u[p].err
       THEN /\ inode' = [inode EXCEPT ![Cur(p)].mode = dino[u[p].ino].mode,
                                      ![Cur(p)].nlink = dino[u[p].ino].nlink]
            /\ Goes(p, "got")
            /\ UNCHANGED u
       ELSE /\ Goes(p, "iput")
            /\ u' = [u EXCEPT ![p] = Fails(@)]
            /\ UNCHANGED inode
  /\ UNCHANGED <<dev, dir, ifreelist, super, files, uinode, may, chan>>

------------------------------------------------------------------------------
(* iput() and iupdat().                                                    *)

(* The inode in its buffer, which is written at once with ISYN; and what   *)
(* is left of the entry.                                                   *)
Iupdat(s) ==
  LET i == inode[s].ino IN
  /\ dino' = [dino EXCEPT ![i] = [mode |-> inode[s].mode, nlink |-> inode[s].nlink]]
  /\ disk' = [j \in Ino |-> IF inode[s].syn /\ j \in Block(i) THEN dino'[j] ELSE disk[j]]

Clean(r) == [r EXCEPT !.upd = FALSE, !.syn = FALSE]

(* When it cannot read the block iupdat() returns, and u_error stays set   *)
(* for the rest of the call.                                               *)
Errs(r, failed) == [r EXCEPT !.err = @ \/ failed]

(* A reference of several. *)
IputCount(p) ==
  LET s == Cur(p) IN
  /\ At(p, "iput") /\ inode[s].count > 1
  /\ Prele(s, [inode[s] EXCEPT !.count = @ - 1])
  /\ Leaves(p, u[p])
  /\ UNCHANGED <<dev, dir, ifreelist, super, files, uinode, may>>

IputLast(p) ==
  LET s == Cur(p) IN
  /\ At(p, "iput") /\ inode[s].count = 1
  /\ inode' = [inode EXCEPT ![s].lock = TRUE]
  /\ Goes(p, IF inode[s].nlink <= 0 THEN "itrunc" ELSE "iput2")
  /\ UNCHANGED <<dev, dir, ifreelist, super, files, uinode, may, chan, u>>

Ifree(i) ==
  CASE silock -> UNCHANGED <<sninode, sinode>>
    [] ~silock /\ sninode >= NICINOD ->
         /\ sinode' = [sinode EXCEPT ![0] = IF i < @ THEN i ELSE @]
         /\ UNCHANGED sninode
    [] OTHER ->
         /\ sninode' = sninode + 1
         /\ sinode' = [sinode EXCEPT ![sninode] = i]

(* itrunc() is done. *)
IputFrees(p) ==
  LET s == Cur(p) IN
  /\ At(p, "itrunc")
  /\ inode' = [inode EXCEPT ![s].mode = 0, ![s].upd = TRUE]
  /\ Ifree(inode[s].ino)
  /\ Goes(p, "iput2")
  /\ UNCHANGED <<dev, dir, ifreelist, silock, files, uinode, may, chan, u>>

(* iupdat(), if the inode has changed, and the entry is free. *)
IputRelease(p) ==
  LET s == Cur(p) IN
  /\ At(p, "iput2")
  /\ \E ok \in Reads(inode[s].ino) :
       /\ IF ok /\ inode[s].upd THEN Iupdat(s) ELSE UNCHANGED dev
       /\ Leaves(p, Errs(u[p], inode[s].upd /\ ~ok))
  /\ Prele(s, [Clean(inode[s]) EXCEPT !.ino = 0, !.count = 0])
  /\ ifreelist' = <<s>> \o ifreelist
  /\ UNCHANGED <<dir, super, files, uinode, may>>

(* An inode that is written and given back: of update(), and of ialloc()   *)
(* when it was allocated after all.                                        *)
IupdatPut(p) ==
  LET s == u[p].ip IN
  /\ At(p, "iupdat")
  /\ \E ok \in Reads(inode[s].ino) :
       /\ IF ok
          THEN Iupdat(s) /\ inode' = [inode EXCEPT ![s] = Clean(@)]
          ELSE UNCHANGED <<dev, inode>>
       /\ u' = [u EXCEPT ![p] = Errs(@, ~ok)]
  /\ Goes(p, "iput")
  /\ UNCHANGED <<dir, ifreelist, super, files, uinode, may, chan>>

------------------------------------------------------------------------------
(* open(), creat() and pipe() have their inode: falloc().                  *)

NOpen == Cardinality({x \in (Proc \X Slot) \X (1 .. NFILE) : x[2] <= files[x[1][1]][x[1][2]]})

(* r is what the entry is then, with fs files.  A pipe() that gets one     *)
(* file only gives its inode back and returns.                             *)
Opened(p, s, r, fs) ==
  IF NOpen + fs <= NFILE
  THEN /\ files' = [files EXCEPT ![p][s] = @ + fs]
       /\ Prele(s, [r EXCEPT !.count = @ + fs - 1])
       /\ Returns(p)
  ELSE /\ inode' = [inode EXCEPT ![s] = r]
       /\ Goes(p, "iput")
       /\ u' = [u EXCEPT ![p].op = IF @ = "pipe" THEN "no pipe" ELSE @]
       /\ UNCHANGED <<files, chan>>

(* creat() of a file that is there cuts it. *)
Open(p) ==
  LET s == u[p].ip IN
  /\ At(p, "got") /\ u[p].op \in {"open", "creat"}
  /\ Opened(p, s, [inode[s] EXCEPT !.upd = @ \/ (u[p].op = "creat" /\ inode[s].mode # 0)], 1)
  /\ UNCHANGED <<dev, dir, ifreelist, super, uinode, may>>

------------------------------------------------------------------------------
(* link() and unlink().                                                    *)

Link(p) ==
  LET s == u[p].ip IN
  /\ At(p, "got") /\ u[p].op = "link" /\ inode[s].nlink < MAXLINK
  /\ inode' = [inode EXCEPT ![s].nlink = @ + 1, ![s].upd = TRUE, ![s].syn = TRUE]
  /\ Goes(p, "isync")
  /\ UNCHANGED <<dev, dir, ifreelist, super, files, uinode, may, chan, u>>

(* EMLINK for the first name, EEXIST for the second. *)
LinkFails(p) ==
  /\ At(p, "got")
  /\ \/ u[p].op = "link" /\ inode[u[p].ip].nlink >= MAXLINK
     \/ u[p].op = "link2"
  /\ Goes(p, "iput")
  /\ UNCHANGED <<dev, dir, table, super, files, uinode, may, chan, u>>

(* out: of link(). *)
LinkOut(p) ==
  LET s == u[p].ip IN
  /\ At(p, "out")
  /\ IF inode[s].lock
     THEN /\ inode' = [inode EXCEPT ![s].want = TRUE]
          /\ Sleeps(p, s)
          /\ UNCHANGED pc
     ELSE /\ inode' = [inode EXCEPT ![s].lock = TRUE,
                                    ![s].nlink = IF u[p].err THEN @ - 1 ELSE @,
                                    ![s].upd = @ \/ u[p].err]
          /\ Goes(p, "iput")
          /\ UNCHANGED chan
  /\ UNCHANGED <<dev, dir, ifreelist, super, files, uinode, may, u>>

(* Mutant: the count is less before the entry is gone. *)
UnlinkCountFirst(p) ==
  LET s == u[p].ip IN
  /\ At(p, "got") /\ u[p].op = "unlink"
  /\ dent' = [dent EXCEPT ![u[p].name] = 0]
  /\ ddent' = ddent
  /\ inode' = [inode EXCEPT ![s].nlink = @ - 1, ![s].upd = TRUE]
  /\ Goes(p, "iput")
  /\ UNCHANGED <<dev, dlock, ifreelist, super, files, uinode, may, chan, u>>

(* The entry is zero on the disk when i_nlink goes down. *)
Unlink(p) ==
  LET s == u[p].ip IN
  /\ At(p, "got") /\ u[p].op = "unlink"
  /\ dent' = [dent EXCEPT ![u[p].name] = 0]
  /\ ddent' = dent'
  /\ inode' = [inode EXCEPT ![s].nlink = @ - 1, ![s].upd = TRUE]
  /\ Goes(p, "iput")
  /\ UNCHANGED <<dev, dlock, ifreelist, super, files, uinode, may, chan, u>>

(* iput() of the directory, at the end. *)
DirPut(p) ==
  /\ At(p, "dput")
  /\ DirPrele
  /\ Returns(p)
  /\ UNCHANGED <<dev, dent, ddent, table, super, files, uinode, may>>

(* wdir(): the entry gets to the disk later.  After a read error in        *)
(* ialloc(), its iupdat() included, it is not written, and creat() fails.  *)
Wdir(p) ==
  /\ At(p, "wdir")
  /\ DirPrele
  /\ IF u[p].err
     THEN /\ Goes(p, "iput")
          /\ u' = [u EXCEPT ![p].op = "undo"]
          /\ UNCHANGED dent
     ELSE /\ dent' = [dent EXCEPT ![u[p].name] = inode[u[p].ip].ino]
          /\ Goes(p, IF u[p].op = "new" THEN "got" ELSE "out")
          /\ u' = [u EXCEPT ![p].op = IF @ = "new" THEN "open" ELSE "out"]
  /\ UNCHANGED <<dev, ddent, table, super, files, uinode, may>>

------------------------------------------------------------------------------
(* ialloc().                                                               *)

(* It sleeps for the list, takes an inode of it, or begins to search.      *)
(* What is above s_ninode is never looked at, but for s_inode[0].          *)
Ialloc(p) ==
  LET i == IF sninode > 0 THEN sinode[sninode - 1] ELSE 0 IN
  /\ At(p, "ialloc")
  /\ \/ /\ silock
        /\ Sleeps(p, ILIST)
        /\ UNCHANGED <<sninode, sinode, silock, pc, u>>
     \/ /\ ~silock /\ i # 0
        /\ sninode' = sninode - 1
        /\ sinode' = [k \in DOMAIN sinode |-> IF k = sninode - 1 /\ k > 0 THEN 0 ELSE sinode[k]]
        /\ Goes(p, "iget")
        /\ u' = [u EXCEPT ![p].ino = i]
        /\ UNCHANGED <<silock, chan>>
     \/ /\ ~silock /\ i = 0
        /\ silock' = TRUE
        /\ sninode' = NICINOD
        /\ Goes(p, "search")
        /\ u' = [u EXCEPT ![p].ino = FsINOS(sinode[0])]
        /\ UNCHANGED <<sinode, chan>>
  /\ UNCHANGED <<dev, dir, table, files, uinode, may>>

(* Mutant: the inode of the list is free, as the list says.                *)
IallocTrusts(p) ==
  LET s == u[p].ip IN
  /\ At(p, "got") /\ u[p].op \in {"new", "pipe"}
  /\ inode' = [inode EXCEPT ![s].mode = 1, ![s].nlink = IF u[p].op = "new" THEN 1 ELSE 0,
                            ![s].upd = TRUE, ![s].syn = TRUE]
  /\ Goes(p, "isync")
  /\ UNCHANGED <<dev, dir, ifreelist, super, files, uinode, may, chan, u>>

(* iget() gave an inode: a free one, or one that was allocated after all.  *)
IallocGot(p) ==
  LET s == u[p].ip IN
  /\ At(p, "got") /\ u[p].op \in {"new", "pipe"}
  /\ IF inode[s].mode = 0
     THEN /\ inode' = [inode EXCEPT ![s].mode = 1, ![s].nlink = IF u[p].op = "new" THEN 1 ELSE 0,
                                    ![s].upd = TRUE, ![s].syn = TRUE]
          /\ Goes(p, "isync")
     ELSE Goes(p, "iupdat") /\ UNCHANGED inode
  /\ UNCHANGED <<dev, dir, ifreelist, super, files, uinode, may, chan, u>>

(* iupdat() with ISYN, and what link(), maknode() and pipe() do then;      *)
(* pipe() does not look at u_error.                                        *)
Isync(p) ==
  LET s == u[p].ip
      r == Clean(inode[s])
  IN /\ At(p, "isync")
     /\ \E ok \in Reads(inode[s].ino) :
          /\ IF ok THEN Iupdat(s) ELSE UNCHANGED dev
          /\ LET new == IF ok THEN r ELSE inode[s] IN
             \/ /\ u[p].op = "link"
                /\ Prele(s, new)
                /\ Goes(p, "namei")
                /\ u' = [u EXCEPT ![p] = Errs([@ EXCEPT !.op = "link2", !.name = u[p].to], ~ok)]
                /\ UNCHANGED files
             \/ /\ u[p].op = "new"
                /\ inode' = [inode EXCEPT ![s] = new]
                /\ Goes(p, "wdir")
                /\ u' = [u EXCEPT ![p] = Errs(@, ~ok)]
                /\ UNCHANGED <<files, chan>>
             \/ /\ u[p].op = "pipe"
                /\ Opened(p, s, new, 2)
     /\ UNCHANGED <<dir, ifreelist, super, uinode, may>>

(* The list with the free inodes of one block, from the end to the front.  *)
Free(b) == {i \in Ino : FsITOD(i) = b /\ dino[i].mode = 0}
Nth(S, k) == CHOOSE i \in S : Cardinality({j \in S : j < i}) = k - 1
Least(m, n) == IF m < n THEN m ELSE n

SearchBlock(p) == \E ok \in Reads(u[p].ino) :
  LET good == ok /\ ~u[p].err
      new  == IF good THEN Free(FsITOD(u[p].ino)) ELSE {}
      n    == sninode - Least(Cardinality(new), sninode)
      more == n > 0 /\ u[p].ino + INOPB <= NINO
      list == [k \in DOMAIN sinode |-> IF k \in n .. sninode - 1 THEN Nth(new, sninode - k) ELSE sinode[k]]
      r    == [u[p] EXCEPT !.err = ~good, !.ino = @ + INOPB]
  IN /\ At(p, "search")
     /\ IF more
        THEN /\ sninode' = n /\ sinode' = list
             /\ u' = [u EXCEPT ![p] = r]
             /\ UNCHANGED <<silock, pc, chan>>
        ELSE /\ silock' = FALSE
             /\ chan' = Woken(ILIST)
             /\ sinode' = [k \in DOMAIN sinode |-> IF n > 0 /\ k \in {0, n - 1} THEN 0 ELSE list[k]]
             /\ IF n # NICINOD
                THEN sninode' = NICINOD /\ Goes(p, "ialloc") /\ u' = [u EXCEPT ![p] = [r EXCEPT !.ino = 0]]
                ELSE sninode' = 0 /\ Leaves(p, Fails(u[p]))
     /\ UNCHANGED <<dev, dir, table, files, uinode, may>>

------------------------------------------------------------------------------
(* The system calls, and namei().                                          *)

Begins(p, r, l) ==
  /\ At(p, "user")
  /\ Goes(p, l)
  /\ u' = [u EXCEPT ![p] = r]
  /\ UNCHANGED <<dev, dir, table, super, chan>>

Call(p, op, n) ==
  /\ <<op, n>> \in may[p] /\ op \in {"open", "creat", "unlink", "link"}
  /\ \E t \in {0} \cup Name :
       /\ IF op = "link" THEN t # 0 /\ <<op, t>> \in may[p] ELSE t = 0
       /\ Begins(p, [Idle EXCEPT !.op = op, !.name = n, !.to = t], "namei")
  /\ UNCHANGED <<files, uinode, may>>

Pipe(p) ==
  /\ <<"pipe", 0>> \in may[p]
  /\ Begins(p, [Idle EXCEPT !.op = "pipe"], "ialloc")
  /\ UNCHANGED <<files, uinode, may>>

(* close(): closef() locks the inode then. *)
Close(p) ==
  /\ <<"close", 0>> \in may[p]
  /\ \E s \in Slot :
       /\ files[p][s] > 0
       /\ files' = [files EXCEPT ![p][s] = @ - 1]
       /\ Begins(p, [Idle EXCEPT !.op = "close", !.ip = s], "closef")
  /\ UNCHANGED <<uinode, may>>

(* update(): one at a time. *)
Sync(p) ==
  /\ <<"sync", 0>> \in may[p] /\ ~uinode
  /\ uinode' = TRUE
  /\ Begins(p, [Idle EXCEPT !.op = "sync"], "sync")
  /\ UNCHANGED <<files, may>>

(* iget() of the directory. *)
Namei(p) ==
  /\ At(p, "namei")
  /\ IF dlock
     THEN Sleeps(p, DIR) /\ UNCHANGED <<dlock, pc>>
     ELSE dlock' = TRUE /\ Goes(p, "dir") /\ UNCHANGED chan
  /\ UNCHANGED <<dev, dent, ddent, table, super, files, uinode, may, u>>

(* The name is in the directory: it is released before iget(), but for     *)
(* unlink().                                                               *)
NameiFound(p) ==
  LET i == dent[u[p].name] IN
  /\ At(p, "dir") /\ ~u[p].err /\ i # 0
  /\ IF u[p].op = "unlink" THEN UNCHANGED <<dlock, chan>> ELSE DirPrele
  /\ Goes(p, "iget")
  /\ u' = [u EXCEPT ![p].ino = i]
  /\ UNCHANGED <<dev, dent, ddent, table, super, files, uinode, may>>

NameiNone(p) ==
  /\ At(p, "dir") /\ ~u[p].err /\ dent[u[p].name] = 0
  /\ \/ /\ u[p].op \in {"open", "link", "unlink"}
        /\ DirPrele
        /\ Returns(p)
     \/ /\ u[p].op \in {"creat", "link2"}
        /\ Goes(p, IF u[p].op = "creat" THEN "ialloc" ELSE "wdir")
        /\ u' = [u EXCEPT ![p].op = IF @ = "creat" THEN "new" ELSE @]
        /\ UNCHANGED <<dlock, chan>>
  /\ UNCHANGED <<dev, dent, ddent, table, super, files, uinode, may>>

(* link() could not write the inode: namei() does not look for the second  *)
(* name.                                                                   *)
NameiError(p) ==
  /\ At(p, "dir") /\ u[p].err
  /\ DirPrele
  /\ Goes(p, "out")
  /\ u' = [u EXCEPT ![p].op = "out"]
  /\ UNCHANGED <<dev, dent, ddent, table, super, files, uinode, may>>

Closef(p) ==
  LET s == u[p].ip IN
  /\ At(p, "closef")
  /\ IF inode[s].lock
     THEN /\ inode' = [inode EXCEPT ![s].want = TRUE]
          /\ Sleeps(p, s)
          /\ UNCHANGED pc
     ELSE /\ inode' = [inode EXCEPT ![s].lock = TRUE]
          /\ Goes(p, "iput")
          /\ UNCHANGED chan
  /\ UNCHANGED <<dev, dir, ifreelist, super, files, uinode, may, u>>

(* Every entry that is not locked and has changed.                         *)
ToSync(s) == ~inode[s].lock /\ inode[s].count # 0 /\ inode[s].upd

SyncNext(p) ==
  LET rest == {s \in Slot : s >= u[p].next /\ ToSync(s)}
      s    == Nth(rest, 1)
  IN /\ At(p, "sync")
     /\ \/ /\ rest # {}
           /\ inode' = [inode EXCEPT ![s].lock = TRUE, ![s].count = @ + 1]
           /\ Goes(p, "iupdat")
           /\ u' = [u EXCEPT ![p].ip = s, ![p].next = s + 1]
           /\ UNCHANGED uinode
        \/ /\ rest = {}
           /\ uinode' = FALSE
           /\ Returns(p)
           /\ UNCHANGED inode
     /\ UNCHANGED <<dev, dir, ifreelist, super, files, chan, may>>

(* The delayed writes.                                                     *)
Flush ==
  /\ \/ \E i \in Ino : /\ disk' = [j \in Ino |-> IF j \in Block(i) THEN dino[j] ELSE disk[j]]
                       /\ UNCHANGED ddent
     \/ ddent' = dent /\ UNCHANGED disk
  /\ UNCHANGED <<dino, dent, dlock, table, super, files, uinode, may, pc, chan, u>>

Step(p) ==
  \/ IgetFound(p) \/ IgetNone(p) \/ IgetNew(p) \/ Iread(p)
  \/ IputCount(p) \/ IputLast(p) \/ IputFrees(p) \/ IputRelease(p) \/ IupdatPut(p)
  \/ Open(p) \/ Link(p) \/ LinkFails(p) \/ LinkOut(p) \/ Unlink(p) \/ DirPut(p) \/ Wdir(p)
  \/ Ialloc(p) \/ IallocGot(p) \/ Isync(p) \/ SearchBlock(p)
  \/ Namei(p) \/ NameiFound(p) \/ NameiNone(p) \/ NameiError(p) \/ Closef(p) \/ SyncNext(p)

User(p) == \/ \E op \in Calls, n \in Name : Call(p, op, n)
           \/ Pipe(p) \/ Close(p) \/ Sync(p)

Next == (\E p \in Proc : Step(p) \/ User(p)) \/ Flush

Spec == Init /\ [][Next]_vars

------------------------------------------------------------------------------
(* The references of a call to an entry. *)
Refs(p, s) == files[p][s] + (IF u[p].ip = s THEN 1 ELSE 0) + (IF u[p].xp = s THEN 1 ELSE 0)

RefsOf(s) == Cardinality({x \in Proc \X (1 .. NFILE + 2) : x[2] <= Refs(x[1], s)})

(* Every inode has one entry at most, the free entries are in the list     *)
(* once, and i_count is the number of files and calls that use the entry.  *)
CountExact ==
  /\ \A s \in Slot : inode[s].count = RefsOf(s)
  /\ \A s, t \in Slot : s # t /\ inode[s].ino = inode[t].ino => inode[s].ino = 0
  /\ \A s \in Slot : (inode[s].ino = 0) = (inode[s].count = 0)
  /\ Len(ifreelist) = Cardinality({s \in Slot : inode[s].count = 0})
  /\ \A s \in Slot : inode[s].count = 0 => \E k \in DOMAIN ifreelist : ifreelist[k] = s

(* The labels at which a call holds the lock of the entry it works on, and *)
(* of the directory.                                                       *)
HoldsInode(p, s) ==
  /\ pc[p] \in {"iread", "got", "iput", "itrunc", "iput2", "iupdat", "isync"} \/ (pc[p] = "wdir" /\ u[p].op = "new")
  /\ Cur(p) = s

HoldsDir(p) ==
  \/ pc[p] \in {"dir", "dput", "wdir"}
  \/ u[p].op \in {"unlink", "new", "no new"} /\ pc[p] # "namei"

(* A lock has one holder, and nobody sleeps for a lock nobody holds, or    *)
(* without IWANT.                                                          *)
LocksHeld ==
  /\ \A s \in Slot : Cardinality({p \in Proc : HoldsInode(p, s)}) = IF inode[s].lock THEN 1 ELSE 0
  /\ Cardinality({p \in Proc : HoldsDir(p)}) = IF dlock THEN 1 ELSE 0
  /\ Cardinality({p \in Proc : pc[p] = "search"}) = IF silock THEN 1 ELSE 0
  /\ \A p \in Proc : /\ chan[p] \in Slot => inode[chan[p]].lock /\ inode[chan[p]].want
                     /\ chan[p] = DIR => dlock
                     /\ chan[p] = ILIST => silock

(* What a crash leaves: a name on the disk leads to an inode that is       *)
(* allocated there, and i_nlink is not less than the names.  When blocks   *)
(* of inodes cannot be read, the code breaks it.                           *)
Robust ==
  \A i \in Ino : LET n == Cardinality(Named(ddent, i))
                 IN n > 0 => disk[i].mode # 0 /\ disk[i].nlink >= n

(* The inode as iget() would give it. *)
Current(i) == IF SlotsOf(i) = {} \/ \E s \in SlotsOf(i), p \in Proc : pc[p] = "iread" /\ Cur(p) = s
              THEN dino[i] ELSE LET s == CHOOSE s \in SlotsOf(i) : TRUE
                                IN [mode |-> inode[s].mode, nlink |-> inode[s].nlink]

Busy(i) == \E p \in Proc : /\ u[p].op \in {"new", "link", "link2", "out", "unlink"}
                           /\ u[p].ip # 0 /\ inode[u[p].ip].ino = i

(* i_nlink is the number of directory entries (sys/inode.h:25), but for a  *)
(* call that is about to change them, and a file that has none and is not  *)
(* open is free.  The code breaks it when link() gets an inode that was    *)
(* freed while iget() slept for it; see InodeNames.                        *)
LinksExact ==
  \A i \in Ino :
    ~Busy(i) => /\ Current(i).nlink = Cardinality(Named(dent, i))
                /\ Current(i).nlink > 0 => Current(i).mode # 0
                /\ Current(i).nlink = 0 /\ Current(i).mode # 0 => SlotsOf(i) # {}
==============================================================================
