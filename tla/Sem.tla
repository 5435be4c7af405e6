--------------------------------- MODULE Sem ---------------------------------
(***************************************************************************)
(* System V semaphores, uts/m68k/os/sem.c.                                 *)
(*                                                                         *)
(* The kernel is not preemptive: a call runs without interruption up to    *)
(* the sleep() in semop(), so each call is one action, and the retry after *)
(* a sleep is another.  semop() performs its operations one after the      *)
(* other and takes them back if one of them must wait.                     *)
(*                                                                         *)
(* Abstracted: keys and permissions (ipcget(), ipcaccess()), times and     *)
(* sempid; the map semmap is the set of semaphores in no set.  Semaphores  *)
(* are numbered from 1, as malloc() returns them.  semctl() and semget()   *)
(* may be called by any process, also by one that is not in Proc.          *)
(***************************************************************************)
EXTENDS Integers, FiniteSetsExt, SequencesExt

CONSTANTS Proc,     \* processes that call semop()
          SEMMNI,   \* identifiers
          SEMMNS,   \* semaphores
          SEMMSL,   \* semaphores of a set
          SEMMNU,   \* undo structures
          SEMUME,   \* undo entries of a process
          SEMVMX,   \* largest value
          SEMAEM,   \* largest adjustment
          MaxSeq,   \* bound on sem_perm.seq: how often a header is reused
          Vector,   \* operation vectors
          SetArg,   \* the short values SETALL is given
          NoCall

(* An operation, and the arguments of a call that sleeps. *)
MAXSHORT == 32767
Short  == -MAXSHORT - 1 .. MAXSHORT
Ushort == 0 .. 2 * MAXSHORT + 1
Sembuf == [num : Nat, op : Short, undo : BOOLEAN, nowait : BOOLEAN]
Kind   == {"semncnt", "semzcnt"}
Frame  == [id : Nat, ops : Vector, semp : Int, kind : Kind]

ASSUME SemAssumption ==
  /\ SEMMNI \in Nat \ {0} /\ SEMMNS \in Nat \ {0} /\ SEMMSL \in Nat \ {0}
  /\ SEMUME \in Nat \ {0} /\ SEMMNU \in Nat \ {0}
  /\ SEMVMX \in Nat \ {0} /\ SEMVMX <= MAXSHORT
  /\ SEMAEM \in Nat \ {0} /\ 2 * SEMAEM <= MAXSHORT + 1
  /\ MaxSeq \in Nat
  /\ SetArg \subseteq Short
  /\ Vector \subseteq Seq(Sembuf)
  /\ NoCall \notin Frame \cup (Nat \X Vector)
  /\ IsFiniteSet(Proc) /\ Cardinality(Proc) <= 2 * MAXSHORT + 1

VARIABLES sema,   \* the headers: allocated?, seq, base and nsems
          sem,    \* semval, semncnt and semzcnt of each semaphore
          undo,   \* the undo structure of each process: its presence and entries
          semtmp, \* the one kernel copy of an operation vector, or <<>> for other data
          pc,     \* where each process is in semop()
          frame   \* its arguments, and the operation it was stopped at

vars == <<sema, sem, undo, semtmp, pc, frame>>

Slot == 0 .. SEMMNI - 1
Sema == 1 .. SEMMNS
Id   == 0 .. SEMMNI * (MaxSeq + 1) - 1

SlotOf(id) == id % SEMMNI
Live(id)   == sema[SlotOf(id)].alloc /\ id \div SEMMNI = sema[SlotOf(id)].seq
IdOf(s)    == sema[s].seq * SEMMNI + s
LiveIds    == {IdOf(s) : s \in {t \in Slot : sema[t].alloc}}
Nums(id)   == 0 .. sema[SlotOf(id)].nsems - 1
Semp(id, num) == sema[SlotOf(id)].base + num
Members(id)   == {Semp(id, n) : n \in Nums(id)}

Init ==
  /\ sema = [s \in Slot |-> [alloc |-> FALSE, seq |-> 0, base |-> 1, nsems |-> 0]]
  /\ sem = [i \in Sema |-> [semval |-> 0, semncnt |-> 0, semzcnt |-> 0]]
  /\ undo = [p \in Proc |-> [has |-> FALSE, ent |-> <<>>]]
  /\ semtmp = <<>>
  /\ pc = [p \in Proc |-> "user"]
  /\ frame = [p \in Proc |-> NoCall]

------------------------------------------------------------------------------
(* Sleepers.  C is a set of channels <<i, kind>>, the addresses of counts. *)

Chan(p) == <<frame[p].semp, frame[p].kind>>
Wakeup(C) ==
  [p \in Proc |-> IF pc[p] = "asleep" /\ Chan(p) \in C THEN "ready" ELSE pc[p]]

(* "if(p->semncnt) { p->semncnt = 0; wakeup(&p->semncnt); }" for the       *)
(* channels in C: the counts after it, and the channels that are woken.    *)
Zeroed(m, C) == [i \in Sema |-> [f \in DOMAIN m[i] |-> IF <<i, f>> \in C THEN 0 ELSE m[i][f]]]
Waited(m, C) == {c \in C : m[c[1]][c[2]] > 0}

(* The channel that a new value of semaphore i concerns. *)
Concern(i, v) == <<i, IF v = 0 THEN "semzcnt" ELSE "semncnt">>

------------------------------------------------------------------------------
(* Undo entries, sorted by (id, num). *)

Before(e, id, num) == e.id < id \/ (e.id = id /\ e.num < num)
(* Mutant: entries are kept in the order of their numbers alone. *)
PlaceByNum(ent, id, num) == Min({i \in DOMAIN ent : ~(ent[i].num < num)} \cup {Len(ent) + 1})

Place(ent, id, num) == Min({i \in DOMAIN ent : ~Before(ent[i], id, num)} \cup {Len(ent) + 1})
IsAt(ent, i, id, num) == i <= Len(ent) /\ ent[i].id = id /\ ent[i].num = num
Abs(n) == IF n < 0 THEN -n ELSE n

(* semaoe() with u, the undo structures, refuses the adjustment. *)
AoeRefused(u, p, val, id, num) ==
  LET ent == u[p].ent
      i == Place(ent, id, num)
  IN \/ Abs(val) > SEMAEM
     \/ ~u[p].has /\ Cardinality({q \in Proc : u[q].has}) >= SEMMNU
     \/ ~IsAt(ent, i, id, num) /\ Len(ent) >= SEMUME
     \/ IsAt(ent, i, id, num) /\ Abs(ent[i].aoe - val) > SEMAEM

Entry(id, num, aoe) == [id |-> id, num |-> num, aoe |-> aoe]

Semaoe(u, p, val, id, num) ==
  LET ent == u[p].ent
      i == Place(ent, id, num)
  IN [u EXCEPT ![p] = [has |-> TRUE, ent |->
        CASE ~IsAt(ent, i, id, num) -> InsertAt(ent, i, Entry(id, num, -val))
          [] IsAt(ent, i, id, num) /\ ent[i].aoe = val -> RemoveAt(ent, i)
          [] OTHER -> [ent EXCEPT ![i].aoe = @ - val]]]

(* semunrm(): the scan of a process's entries, which are sorted, passes     *)
(* those before (id, low), removes, and stops at the first past (id, high). *)
Semunrm(ent, id, low, high) ==
  SubSeq(ent, 1, Place(ent, id, low) - 1) \o SubSeq(ent, Place(ent, id, high + 1), Len(ent))

SemunrmAll(id, low, high) ==
  [p \in Proc |-> [undo[p] EXCEPT !.ent = Semunrm(@, id, low, high)]]

------------------------------------------------------------------------------
(* semop().  A pass over the vector carries what it has changed: the       *)
(* semaphores m, the undo structures u, the channels woken, how many       *)
(* operations are done and why it stopped ("" while it goes on).           *)

Refused(st, p, id, op) ==
  \/ op.op > 0 /\ st.m[Semp(id, op.num)].semval + op.op > SEMVMX
  \/ op.undo /\ op.op # 0 /\ AoeRefused(st.u, p, op.op, id, op.num)

MustWait(st, id, op) ==
  LET v == st.m[Semp(id, op.num)].semval
  IN IF op.op = 0 THEN v # 0 ELSE op.op < 0 /\ v < -op.op

Done(st, p, id, op) ==
  LET i == Semp(id, op.num)
      v == st.m[i].semval + op.op
      C == IF op.op > 0 THEN {<<i, "semncnt">>}
           ELSE IF v = 0 THEN {<<i, "semzcnt">>} ELSE {}
  IN [st EXCEPT !.m = Zeroed([@ EXCEPT ![i].semval = v], C),
                !.u = IF op.undo THEN Semaoe(@, p, op.op, id, op.num) ELSE @,
                !.woken = @ \cup Waited(st.m, C),
                !.n = @ + 1]

OneOp(st, p, id, op) ==
  CASE st.why # "" -> st
    [] st.why = "" /\ MustWait(st, id, op) ->
         [st EXCEPT !.why = IF op.nowait THEN "EAGAIN" ELSE "wait"]
    [] st.why = "" /\ ~MustWait(st, id, op) /\ Refused(st, p, id, op) -> [st EXCEPT !.why = "error"]
    [] st.why = "" /\ ~MustWait(st, id, op) /\ ~Refused(st, p, id, op) /\ op.op = 0 ->
         [st EXCEPT !.n = @ + 1]
    [] OTHER -> Done(st, p, id, op)

(* semundo(): the n operations done are taken back, the last one first. *)
TakenBack(st, p, id, op) ==
  IF op.op = 0 THEN st
  ELSE [st EXCEPT !.m[Semp(id, op.num)].semval = @ - op.op,
                  !.u = IF op.undo /\ ~AoeRefused(@, p, -op.op, id, op.num)
                        THEN Semaoe(@, p, -op.op, id, op.num) ELSE @]

Semundo(st, p, id, ops) ==
  LET back[k \in 0 .. st.n] ==
        IF k = 0 THEN st ELSE TakenBack(back[k - 1], p, id, ops[st.n - k + 1])
  IN back[st.n]

Begin == [m |-> sem, u |-> undo, woken |-> {}, n |-> 0, why |-> ""]

Pass(p, id, ops) ==
  LET after[k \in 0 .. Len(ops)] ==
        IF k = 0 THEN Begin ELSE OneOp(after[k - 1], p, id, ops[k])
      end == after[Len(ops)]
  IN IF end.why = "" THEN end ELSE Semundo(end, p, id, ops)

Return(p, wokenPc) ==
  /\ pc' = [wokenPc EXCEPT ![p] = "user"]
  /\ frame' = [frame EXCEPT ![p] = NoCall]

(* The pass ends: done, refused, interrupted at once by a signal that was  *)
(* already pending, or asleep at the operation it stopped at.              *)
Attempt(p, id, ops) ==
  LET st == Pass(p, id, ops)
      stopped == ops[st.n + 1]
      kind == IF stopped.op = 0 THEN "semzcnt" ELSE "semncnt"
      i == Semp(id, stopped.num)
  IN /\ undo' = st.u
     /\ semtmp' = ops
     /\ UNCHANGED sema
     /\ \/ sem' = st.m /\ Return(p, Wakeup(st.woken))
        \/ /\ st.why = "wait"
           /\ sem' = [st.m EXCEPT ![i][kind] = @ + 1]
           /\ pc' = [Wakeup(st.woken) EXCEPT ![p] = "asleep"]
           /\ frame' = [frame EXCEPT ![p] = [id |-> id, ops |-> ops, semp |-> i, kind |-> kind]]

Semop(p, id, ops) ==
  /\ pc[p] = "user"
  /\ Live(id)
  /\ \A i \in DOMAIN ops : ops[i].num \in Nums(id)
  /\ Attempt(p, id, ops)

(* A woken process finds its set removed, or cannot copy its vector in any *)
(* more; or it copies it in again, where nobody has changed it, and starts *)
(* over.                                                                   *)
RetryFails(p) ==
  /\ pc[p] = "ready"
  /\ semtmp' = IF Live(frame[p].id) THEN <<>> ELSE semtmp
  /\ Return(p, pc)
  /\ UNCHANGED <<sema, sem, undo>>

(* Mutant: the vector is not copied in again after the sleep. *)
RetryStale(p) ==
  /\ pc[p] = "ready" /\ Live(frame[p].id)
  /\ \A i \in DOMAIN semtmp : semtmp[i].num \in Nums(frame[p].id)
  /\ Attempt(p, frame[p].id, semtmp)

Retry(p) ==
  /\ pc[p] = "ready" /\ Live(frame[p].id)
  /\ Attempt(p, frame[p].id, frame[p].ops)

(* A signal ends the sleep; it may also reach a process that was woken but *)
(* has not run yet.                                                        *)
Signal(p) ==
  /\ pc[p] \in {"asleep", "ready"}
  /\ pc' = [pc EXCEPT ![p] = "interrupted"]
  /\ UNCHANGED <<sema, sem, undo, semtmp, frame>>

(* Mutant: the last one out resets the count and wakes nobody. *)
InterruptedSilent(p) ==
  LET c == Chan(p)
      n == sem[c[1]][c[2]]
  IN /\ pc[p] = "interrupted"
     /\ sem' = [sem EXCEPT ![c[1]][c[2]] = IF n <= 1 THEN 0 ELSE n - 1]
     /\ Return(p, pc)
     /\ UNCHANGED <<sema, undo, semtmp>>

(* "if((semp->semncnt)-- <= 1) { semp->semncnt = 0; wakeup(...); }" on the *)
(* semaphore it slept on, which may belong to another set by now.          *)
Interrupted(p) ==
  LET c == Chan(p)
      n == sem[c[1]][c[2]]
  IN /\ pc[p] = "interrupted"
     /\ sem' = [sem EXCEPT ![c[1]][c[2]] = IF n <= 1 THEN 0 ELSE n - 1]
     /\ Return(p, Wakeup(IF n <= 1 THEN {c} ELSE {}))
     /\ UNCHANGED <<sema, undo, semtmp>>

------------------------------------------------------------------------------
(* semget() and semctl(). *)

Taken == UNION {Members(id) : id \in LiveIds}
Fits(b, n) == b .. b + n - 1 \subseteq Sema \ Taken

(* The first header that is not in use and, for the map, the first hole. *)
Semget(n) ==
  LET s == Min({t \in Slot : ~sema[t].alloc})
      holes == {b \in Sema : Fits(b, n)}
  IN /\ \E t \in Slot : ~sema[t].alloc
     /\ holes # {}
     /\ sema' = [sema EXCEPT ![s] = [alloc |-> TRUE, seq |-> @.seq, base |-> Min(holes), nsems |-> n]]
     /\ UNCHANGED <<sem, undo, semtmp, pc, frame>>

(* Mutant: the undo entries of the set stay. *)
RmidKeepsUndo(id) ==
  /\ Live(id)
  /\ sema[SlotOf(id)].seq < MaxSeq
  /\ LET C == Members(id) \X Kind IN
     /\ sem' = [i \in Sema |-> IF i \in Members(id) THEN [Zeroed(sem, C)[i] EXCEPT !.semval = 0]
                               ELSE sem[i]]
     /\ pc' = Wakeup(Waited(sem, C))
  /\ sema' = [sema EXCEPT ![SlotOf(id)].seq = @ + 1, ![SlotOf(id)].alloc = FALSE]
  /\ UNCHANGED <<undo, semtmp, frame>>

Rmid(id) ==
  /\ Live(id)
  /\ sema[SlotOf(id)].seq < MaxSeq
  /\ undo' = SemunrmAll(id, 0, sema[SlotOf(id)].nsems)
  /\ LET C == Members(id) \X Kind IN
     /\ sem' = [i \in Sema |-> IF i \in Members(id) THEN [Zeroed(sem, C)[i] EXCEPT !.semval = 0]
                               ELSE sem[i]]
     /\ pc' = Wakeup(Waited(sem, C))
  /\ sema' = [sema EXCEPT ![SlotOf(id)].seq = @ + 1, ![SlotOf(id)].alloc = FALSE]
  /\ UNCHANGED <<semtmp, frame>>

(* Both commands store values and wake whom a value concerns; vals is a    *)
(* function from semaphore numbers to what is stored.                      *)
Store(id, vals) ==
  LET C == {Concern(Semp(id, n), vals[n]) : n \in DOMAIN vals}
      stored == [i \in Sema |-> IF \E n \in DOMAIN vals : i = Semp(id, n)
                   THEN [sem[i] EXCEPT !.semval = vals[i - Semp(id, 0)]] ELSE sem[i]]
  IN /\ sem' = Zeroed(stored, C)
     /\ pc' = Wakeup(Waited(sem, C))
     /\ UNCHANGED <<sema, frame>>

Setval(id, num, arg) ==
  /\ Live(id) /\ num \in Nums(id)
  /\ arg \in 0 .. SEMVMX
  /\ Store(id, [n \in {num} |-> arg])
  /\ undo' = SemunrmAll(id, num, num)
  /\ UNCHANGED semtmp

(* semtmp.semvals holds shorts and semval is a ushort: a negative value    *)
(* passes the comparison with semvmx and is stored modulo 2^16.            *)
Setall(id, args) ==
  /\ Live(id)
  /\ \A n \in Nums(id) : args[n] <= SEMVMX
  /\ Store(id, [n \in Nums(id) |-> args[n] % 65536])
  /\ undo' = SemunrmAll(id, 0, sema[SlotOf(id)].nsems)
  /\ semtmp' = <<>>

(* Mutant: adjustments wake nobody who waits for a greater value. *)
SemexitSilent(p) ==
  LET ent == {e \in Range(undo[p].ent) : Live(e.id)}
      at(e) == Semp(e.id, e.num)
      v(e) == sem[at(e)].semval + e.aoe
      good == {e \in ent : v(e) \in 0 .. SEMVMX}
      C == {<<at(e), "semzcnt">> : e \in {f \in good : v(f) = 0}}
      adjusted == [i \in Sema |-> IF \E e \in good : at(e) = i
                     THEN [sem[i] EXCEPT !.semval = v(CHOOSE e \in good : at(e) = i)] ELSE sem[i]]
  IN /\ pc[p] = "user" /\ undo[p].has
     /\ sem' = Zeroed(adjusted, C)
     /\ pc' = Wakeup(Waited(sem, C))
     /\ undo' = [undo EXCEPT ![p] = [has |-> FALSE, ent |-> <<>>]]
     /\ UNCHANGED <<sema, semtmp, frame>>

(* semexit(), from exit(): an adjustment that would leave the range of its *)
(* semaphore is skipped.  The entries are of different semaphores.         *)
Semexit(p) ==
  LET ent == {e \in Range(undo[p].ent) : Live(e.id)}
      at(e) == Semp(e.id, e.num)
      v(e) == sem[at(e)].semval + e.aoe
      good == {e \in ent : v(e) \in 0 .. SEMVMX}
      C == {<<at(e), "semzcnt">> : e \in {f \in good : v(f) = 0}}
           \cup {<<at(e), "semncnt">> : e \in {f \in good : f.aoe > 0}}
      adjusted == [i \in Sema |-> IF \E e \in good : at(e) = i
                     THEN [sem[i] EXCEPT !.semval = v(CHOOSE e \in good : at(e) = i)] ELSE sem[i]]
  IN /\ pc[p] = "user" /\ undo[p].has
     /\ sem' = Zeroed(adjusted, C)
     /\ pc' = Wakeup(Waited(sem, C))
     /\ undo' = [undo EXCEPT ![p] = [has |-> FALSE, ent |-> <<>>]]
     /\ UNCHANGED <<sema, semtmp, frame>>

Next ==
  \/ \E p \in Proc : \/ \E id \in LiveIds, ops \in Vector : Semop(p, id, ops)
                     \/ RetryFails(p) \/ Retry(p)
                     \/ Signal(p) \/ Interrupted(p) \/ Semexit(p)
  \/ \E n \in 1 .. SEMMSL : Semget(n)
  \/ \E id \in LiveIds :
       \/ Rmid(id)
       \/ \E num \in Nums(id), arg \in 0 .. SEMVMX : Setval(id, num, arg)
       \/ \E args \in [Nums(id) -> SetArg] : Setall(id, args)

Spec == Init /\ [][Next]_vars

------------------------------------------------------------------------------
(* The largest value: SETALL stores a negative short as a large one.       *)
Top == IF SetArg \subseteq Nat THEN SEMVMX ELSE 65535

(* Every variable keeps its type: a value is at most SEMVMX unless SETALL  *)
(* is given a negative short, the undo entries of a process are sorted and *)
(* at most SEMUME, no two sets share a semaphore (semget, semaoe).         *)
TypeOK ==
  /\ \A s \in Slot : /\ sema[s].alloc \in BOOLEAN /\ sema[s].seq \in Nat
                     /\ sema[s].alloc => Members(IdOf(s)) \subseteq Sema
  /\ \A id1, id2 \in LiveIds : id1 # id2 => Members(id1) \cap Members(id2) = {}
  /\ \A i \in Sema : \A f \in DOMAIN sem[i] : sem[i][f] \in Ushort
  /\ \A i \in Sema : sem[i].semval <= Top
  /\ \A p \in Proc :
       /\ pc[p] \in {"user", "asleep", "ready", "interrupted"}
       /\ pc[p] = "user" <=> frame[p] = NoCall
       /\ ~undo[p].has => undo[p].ent = <<>>
       /\ Len(undo[p].ent) <= SEMUME
       /\ \A i, j \in DOMAIN undo[p].ent :
            i < j => Before(undo[p].ent[i], undo[p].ent[j].id, undo[p].ent[j].num)
  /\ Cardinality({p \in Proc : undo[p].has}) <= SEMMNU

(* A process asleep in semop() is counted in the channel it sleeps on, so  *)
(* that the next change of the semaphore wakes it, and its set exists:     *)
(* counts are reset by whoever wakes, also by a process that was itself    *)
(* woken, interrupted late, and decrements a count that is not its own.    *)
SleeperCounted ==
  \A p \in Proc : pc[p] = "asleep" =>
    /\ sem[frame[p].semp][frame[p].kind] > 0
    /\ Live(frame[p].id)
    /\ frame[p].semp \in Members(frame[p].id)

(* An undo entry is of a semaphore that exists and within SEMAEM:          *)
(* semunrm() leaves none behind for a set that is removed, whose number    *)
(* another set could get (semaoe, semunrm, semexit).                       *)
UndoOfLiveSets ==
  \A p \in Proc : \A i \in DOMAIN undo[p].ent :
    LET e == undo[p].ent[i] IN
    Live(e.id) /\ e.num \in Nums(e.id) /\ e.aoe # 0 /\ Abs(e.aoe) <= SEMAEM

------------------------------------------------------------------------------
(* The values, adjustments and requests of AtomicSem in this module. *)

SetVal(id)  == [n \in Nums(id) |-> sem[Semp(id, n)].semval]
AdjOf(ent)  == [k \in {<<e.id, e.num>> : e \in Range(ent)} |->
                  (CHOOSE e \in Range(ent) : <<e.id, e.num>> = k).aoe]
Adj(p)      == AdjOf(undo[p].ent)
Wanted(p)   == IF frame[p] = NoCall THEN NoCall ELSE <<frame[p].id, frame[p].ops>>

Atomic == INSTANCE AtomicSem WITH
  val  <- [id \in LiveIds |-> SetVal(id)],
  adj  <- [p \in Proc |-> Adj(p)],
  want <- [p \in Proc |-> Wanted(p)]

(* semop() does its vector in one step or not at all: the operations it    *)
(* takes back leave no trace in the values or in the undo entries, and a   *)
(* retry performs the vector its own process asked for.                    *)
ImplementsAtomic == Atomic!Spec

(* A process asleep in semop() could not perform its vector now: whatever  *)
(* makes a vector executable wakes the process that waits for it.  It says *)
(* so of vectors that do not lower a semaphore before they wait for zero   *)
(* there: one that does, as (-1, 0), sleeps on at the value 2 while        *)
(* another process makes it 1, for only zero wakes those who wait for it.  *)
NoMissedGrant ==
  \A p \in Proc : pc[p] = "asleep" => ~Atomic!Executable(SetVal(frame[p].id), frame[p].ops)
=============================================================================
