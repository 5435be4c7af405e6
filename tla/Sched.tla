-------------------------------- MODULE Sched --------------------------------
(***************************************************************************)
(* Processes and scheduling: os/slp.c (sleep, wakeup, setrq, setrun, sched, *)
(* swapin, qswtch, swtch, newproc), os/clock.c (once a second), os/sig.c   *)
(* (psignal, issig), os/sys1.c (exit, wait, freeproc), os/text.c (xswap,   *)
(* xsched, xque) and io/mmu1.c, io/mmu2.c (mmufork, mmucreate, mmuattach,  *)
(* mmudetach).                                                             *)
(*                                                                         *)
(* A process has two segments, data and stack with the u area, of one unit *)
(* of memory each.  Texts, tracing and shared memory are left out, and     *)
(* swap space is never short.  swtch() takes any process of the run queue  *)
(* that is loaded, and a user may lose the processor at any time.          *)
(***************************************************************************)
EXTENDS Integers, FiniteSets, Sequences

CONSTANTS Slots,     \* the table has proc[0], 1 .. Slots for users, xsched
          Mems,      \* how many units of memory there may be for users
          MaxTime,   \* p_time stops here (127 in the code)
          Events,    \* what users sleep for, besides dead children
          Sent,      \* the users that are sent signals
          Idle, None

ASSUME SchedAssumption ==
  /\ Slots \in Nat \ {0} /\ Mems \subseteq Nat \ {0, 1} /\ MaxTime \in Nat /\ MaxTime >= 2
  /\ Events \subseteq {"tty", "disk"} /\ Sent \subseteq 1 .. Slots
  /\ Idle \notin Nat /\ None \notin Nat

S    == 0
X    == Slots + 1
User == 1 .. Slots
All  == 0 .. Slots + 1
Both == {"data", "stack"}

(* Where processes sleep: sched on runout or runin, xsched on xw, anyone   *)
(* in swap() on io, users in wait() or on an event of a device.            *)
Chans  == {"runout", "runin", "xw", "io", "wait", "none"} \cup Events

VARIABLES stat,     \* p_stat
          chan,     \* p_wchan
          bad,      \* p_pri > PZERO: signals end the sleep
          time,     \* p_time: seconds in core or out
          load,     \* SLOAD
          lock,     \* SLOCK
          mem,      \* units of memory for users
          seg,      \* the segments in memory that belong to the process
          sig,      \* p_sig
          parent,   \* p_ppid
          runq,
          cpu,      \* u.u_procp, Idle in the loop of swtch()
          dozing,   \* cpu is in sleep(), past the sleep queue, before swtch()
          pc, arg,  \* where a process goes on, and the process it works on
          outage,   \* of sched()
          runout, runin,
          xq, xw    \* xsp: the list and x_w

queues  == <<stat, chan, runq, time, runout>>
control == <<cpu, dozing, pc, arg>>
memory  == <<load, lock, seg>>
signals == <<sig, parent>>
others  == <<outage, runin, xq, xw>>
vars    == <<queues, control, memory, signals, others, bad, mem>>

Free == mem - Cardinality({x \in User \X Both : x[2] \in seg[x[1]]})

(* init has the first slot, and xsched and sched are about to look for     *)
(* work.                                                                   *)
Init ==
  /\ stat = [p \in All |-> IF p \in {S, 1, X} THEN "run" ELSE "free"]
  /\ chan = [p \in All |-> "none"]
  /\ bad = [p \in All |-> FALSE]
  /\ time = [p \in All |-> 0]
  /\ load = [p \in All |-> p \in {S, 1, X}]
  /\ lock = [p \in All |-> FALSE]
  /\ mem \in Mems
  /\ seg = [p \in User |-> IF p = 1 THEN Both ELSE {}]
  /\ sig = [p \in User |-> {}]
  /\ parent = [p \in User |-> None]
  /\ runq = {1, X}
  /\ cpu = S
  /\ dozing = FALSE
  /\ pc = [p \in All |-> IF p \in User THEN "user" ELSE "loop"]
  /\ arg = [p \in All |-> None]
  /\ outage = 0
  /\ runout = FALSE /\ runin = FALSE
  /\ xq = <<>> /\ xw = FALSE

------------------------------------------------------------------------------
(* sleep(), up to the point where interrupts are let in again.  That it    *)
(* caps p_time at TZERO (os/slp.c:62-63) is left out: it changes who is    *)
(* the worst or oldest victim, and no property depends on that.            *)
Sleeps(t, c, b, next) ==
  /\ stat' = [stat EXCEPT ![t] = "sleep"]
  /\ chan' = [chan EXCEPT ![t] = c]
  /\ bad' = [bad EXCEPT ![t] = b]
  /\ dozing' = TRUE
  /\ pc' = [pc EXCEPT ![t] = next]
  /\ UNCHANGED <<runq, time, cpu>>

(* Mutant: the swapper hears of one who is runnable only through setrun(). *)
RouseUnheard(W, st, tm) ==
  /\ stat' = [p \in All |-> IF p \in W THEN "run" ELSE st[p]]
  /\ chan' = [p \in All |-> IF p \in W THEN "none" ELSE chan[p]]
  /\ runq' = runq \cup W
  /\ time' = [p \in All |-> IF p \in W /\ ~load[p] THEN 0 ELSE tm[p]]
  /\ UNCHANGED runout

(* wakeup() and setrun(): the processes W, none of them runnable, get on   *)
(* the run queue, and the swapper too if one of them is out and it waits   *)
(* for that.  st and tm are p_stat and p_time before.                      *)
Rouse(W, st, tm) ==
  LET heard == runout /\ \E p \in W : ~load[p]
      R     == IF heard /\ st[S] # "run" THEN W \cup {S} ELSE W
  IN /\ stat' = [p \in All |-> IF p \in R THEN "run" ELSE st[p]]
     /\ chan' = [p \in All |-> IF p \in R THEN "none" ELSE chan[p]]
     /\ runq' = runq \cup R
     /\ time' = [p \in All |-> IF p \in W /\ ~load[p] THEN 0 ELSE tm[p]]
     /\ runout' = (runout /\ ~heard)

Sleepers(c) == {p \in All : stat[p] = "sleep" /\ chan[p] = c}

(* The end of xswap(): a swapper that waits for runnable processes looks   *)
(* again.  rq is the run queue before.                                     *)
RouseSwapper(rq, tm) ==
  LET W == IF runout THEN Sleepers("runout") ELSE {}
  IN /\ stat' = [p \in All |-> IF p \in W THEN "run" ELSE stat[p]]
     /\ chan' = [p \in All |-> IF p \in W THEN "none" ELSE chan[p]]
     /\ runq' = rq \cup W
     /\ time' = tm
     /\ runout' = FALSE

(* psignal() makes the sleepers at a bad priority runnable. *)
Roused(T) == {p \in T : stat[p] = "sleep" /\ bad[p]}

(* swtch() of a process that sleeps; one at a bad priority first tells the *)
(* swapper that it may be swapped out.                                     *)
SwitchOut ==
  /\ cpu # Idle /\ dozing
  /\ cpu' = Idle /\ dozing' = FALSE
  /\ IF bad[cpu] /\ runin
     THEN runin' = FALSE /\ Rouse(Sleepers("runin"), stat, time)
     ELSE UNCHANGED <<runin, queues>>
  /\ UNCHANGED <<pc, arg, memory, signals, bad, outage, xq, xw>>

(* Mutant: swtch() takes the first of the run queue. *)
DispatchAny(p) ==
  /\ cpu = Idle
  /\ p \in runq
  /\ runq' = runq \ {p}
  /\ cpu' = p
  /\ UNCHANGED <<stat, chan, time, runout, dozing, pc, arg, memory, signals, others, bad>>

Dispatch(p) ==
  /\ cpu = Idle
  /\ p \in runq /\ load[p]
  /\ runq' = runq \ {p}
  /\ cpu' = p
  /\ UNCHANGED <<stat, chan, time, runout, dozing, pc, arg, memory, signals, others, bad>>

At(p, l) == cpu = p /\ ~dozing /\ pc[p] = l

------------------------------------------------------------------------------
(* Users.                                                                  *)

(* qswtch(): the clock has set runrun. *)
Preempt(p) ==
  /\ At(p, "user")
  /\ runq' = runq \cup {p}
  /\ cpu' = Idle
  /\ UNCHANGED <<stat, chan, time, runout, dozing, pc, arg, memory, signals, others, bad>>

(* A sleep for a terminal is at a bad priority: issig() looks for signals, *)
(* and drops SIGCLD.                                                       *)
Await(p, c) ==
  /\ At(p, "user")
  /\ c \in Events
  /\ c = "tty" => "other" \notin sig[p]
  /\ sig' = IF c = "tty" THEN [sig EXCEPT ![p] = {}] ELSE sig
  /\ Sleeps(p, c, c = "tty", "user")
  /\ UNCHANGED <<arg, memory, parent, runout, others>>

(* issig() and psig() on the way back to user mode. *)
TakeSignal(p) ==
  /\ At(p, "user")
  /\ sig[p] # {}
  /\ sig' = [sig EXCEPT ![p] = {}]
  /\ UNCHANGED <<queues, control, memory, parent, others, bad>>

(* mmuexpand(): there is memory for a copy of the segment, or xsched has   *)
(* to swap the process out.                                                *)
Grow(p) ==
  /\ At(p, "user")
  /\ Free = 0
  /\ xq' = Append(xq, p)
  /\ xw' = FALSE
  /\ Rouse(IF xw THEN Sleepers("xw") ELSE {}, [stat EXCEPT ![p] = "xbrk"], time)
  /\ cpu' = Idle
  /\ UNCHANGED <<dozing, pc, arg, memory, signals, bad, outage, runin>>

Children(p) == {q \in User : stat[q] # "free" /\ parent[q] = p}
Zombies(T)  == {q \in T : stat[q] = "zomb"}
IsFirst(q, T) == q \in T /\ \A r \in T : q <= r

(* newproc() in the first free slot. *)
NewSlot(p, r) ==
  /\ At(p, "user")
  /\ IsFirst(r, {q \in User : stat[q] = "free"})
  /\ parent' = [parent EXCEPT ![r] = p]
  /\ load' = [load EXCEPT ![r] = TRUE]
  /\ time' = [time EXCEPT ![r] = 0]
  /\ UNCHANGED sig

(* mmufork() finds memory for the child. *)
ForkInCore(p, r) ==
  /\ NewSlot(p, r)
  /\ Free >= 2
  /\ seg' = [seg EXCEPT ![r] = Both]
  /\ stat' = [stat EXCEPT ![r] = "run"]
  /\ runq' = runq \cup {r}
  /\ UNCHANGED <<chan, runout, control, lock, others, bad>>

(* mmucreate(): the process goes on as its own child, which sleeps in      *)
(* swap() while the parent's memory is written out as the child's image;   *)
(* the parent stays runnable and unlocked, and is on no queue.             *)
ForkToSwap(p, r) ==
  /\ NewSlot(p, r)
  /\ Free < 2
  /\ stat' = [stat EXCEPT ![r] = "sleep"]
  /\ chan' = [chan EXCEPT ![r] = "io"]
  /\ bad' = [bad EXCEPT ![r] = FALSE]
  /\ lock' = [lock EXCEPT ![r] = TRUE]
  /\ cpu' = r
  /\ dozing' = TRUE
  /\ pc' = [pc EXCEPT ![p] = "forking", ![r] = "copy data"]
  /\ arg' = [arg EXCEPT ![r] = p]
  /\ UNCHANGED <<runq, runout, seg, others>>

CopyData(r) ==
  /\ At(r, "copy data")
  /\ Sleeps(r, "io", FALSE, "copy stack")
  /\ UNCHANGED <<arg, memory, signals, runout, others>>

(* Mutant: the child is made runnable, and put on no queue. *)
CopyStackUnqueued(r) ==
  /\ At(r, "copy stack")
  /\ load' = [load EXCEPT ![r] = FALSE]
  /\ lock' = [lock EXCEPT ![r] = FALSE]
  /\ RouseSwapper(runq, [time EXCEPT ![r] = 0])
  /\ cpu' = arg[r]
  /\ pc' = [pc EXCEPT ![r] = "user", ![arg[r]] = "user"]
  /\ arg' = [arg EXCEPT ![r] = None]
  /\ UNCHANGED <<dozing, seg, signals, others, bad>>

(* The rest of xswap(), mmucreate() and newproc(): the child is runnable   *)
(* and out, and the process is its parent again.                           *)
CopyStack(r) ==
  /\ At(r, "copy stack")
  /\ load' = [load EXCEPT ![r] = FALSE]
  /\ lock' = [lock EXCEPT ![r] = FALSE]
  /\ RouseSwapper(runq \cup {r}, [time EXCEPT ![r] = 0])
  /\ cpu' = arg[r]
  /\ pc' = [pc EXCEPT ![r] = "user", ![arg[r]] = "user"]
  /\ arg' = [arg EXCEPT ![r] = None]
  /\ UNCHANGED <<dozing, seg, signals, others, bad>>

(* Mutant: only init is told, of the zombies it inherits. *)
ExitQuiet(p) ==
  /\ At(p, "user") /\ p # 1
  /\ seg' = [seg EXCEPT ![p] = {}]
  /\ parent' = [q \in User |-> IF q \in Children(p) THEN 1 ELSE parent[q]]
  /\ LET told == IF Zombies(Children(p)) # {} THEN {1} ELSE {}
     IN /\ sig' = [q \in User |-> IF q \in told THEN sig[q] \cup {"cld"} ELSE sig[q]]
        /\ Rouse(Roused(told), [stat EXCEPT ![p] = "zomb"], time)
  /\ cpu' = Idle
  /\ UNCHANGED <<dozing, pc, arg, load, lock, others, bad>>

(* exit(): init inherits the children, and the parent, and init for a      *)
(* zombie, get SIGCLD.                                                     *)
Exit(p) ==
  /\ At(p, "user") /\ p # 1
  /\ seg' = [seg EXCEPT ![p] = {}]
  /\ parent' = [q \in User |-> IF q \in Children(p) THEN 1 ELSE parent[q]]
  /\ LET told == {parent[p]} \cup IF Zombies(Children(p)) # {} THEN {1} ELSE {}
     IN /\ sig' = [q \in User |-> IF q \in told THEN sig[q] \cup {"cld"} ELSE sig[q]]
        /\ Rouse(Roused(told), [stat EXCEPT ![p] = "zomb"], time)
  /\ cpu' = Idle
  /\ UNCHANGED <<dozing, pc, arg, load, lock, others, bad>>

(* wait(): the first dead child is freed (freeproc); with children that    *)
(* live the caller sleeps until a signal comes.                            *)
Reap(p) ==
  /\ cpu = p /\ ~dozing /\ pc[p] \in {"user", "wait"}
  /\ pc[p] = "wait" => "other" \notin sig[p]
  /\ \E q \in Zombies(Children(p)) :
       /\ IsFirst(q, Zombies(Children(p)))
       /\ stat' = [stat EXCEPT ![q] = "free"]
       /\ load' = [load EXCEPT ![q] = FALSE]
       /\ parent' = [parent EXCEPT ![q] = None]
       /\ sig' = [sig EXCEPT ![q] = {}]
  /\ pc' = [pc EXCEPT ![p] = "user"]
  /\ UNCHANGED <<chan, runq, time, runout, cpu, dozing, arg, lock, seg, others, bad>>

Wait(p) ==
  /\ cpu = p /\ ~dozing /\ pc[p] \in {"user", "wait"}
  /\ Children(p) # {} /\ Zombies(Children(p)) = {}
  /\ "other" \notin sig[p]
  /\ sig' = [sig EXCEPT ![p] = {}]
  /\ Sleeps(p, "wait", TRUE, "wait")
  /\ UNCHANGED <<arg, memory, parent, runout, others>>

(* A signal ends wait(). *)
WaitInterrupted(p) ==
  /\ At(p, "wait")
  /\ "other" \in sig[p] \/ Children(p) = {}
  /\ pc' = [pc EXCEPT ![p] = "user"]
  /\ UNCHANGED <<queues, cpu, dozing, arg, memory, signals, others, bad>>

------------------------------------------------------------------------------
(* xswap() of process arg[t] by sched or xsched: one segment after the     *)
(* other is written and its memory freed.                                  *)

SwapOut(t, q) ==
  /\ lock' = [lock EXCEPT ![q] = TRUE]
  /\ arg' = [arg EXCEPT ![t] = q]
  /\ Sleeps(t, "io", FALSE, "out data")
  /\ UNCHANGED <<seg, signals, runout>>

OutData(t) ==
  /\ At(t, "out data")
  /\ seg' = [seg EXCEPT ![arg[t]] = @ \ {"data"}]
  /\ Sleeps(t, "io", FALSE, "out stack")
  /\ UNCHANGED <<arg, load, lock, signals, runout, others>>

OutStack(t) ==
  LET q == arg[t] IN
  /\ At(t, "out stack")
  /\ seg' = [seg EXCEPT ![q] = {}]
  /\ load' = [load EXCEPT ![q] = FALSE]
  /\ lock' = [lock EXCEPT ![q] = FALSE]
  /\ RouseSwapper(runq, [time EXCEPT ![q] = 0])
  /\ pc' = [pc EXCEPT ![t] = IF t = X THEN "done" ELSE "loop"]
  /\ UNCHANGED <<cpu, dozing, arg, signals, others, bad>>

(* xsched(). *)
XLoop ==
  /\ At(X, "loop")
  /\ IF xq = <<>>
     THEN xw' = TRUE /\ Sleeps(X, "xw", FALSE, "loop") /\ UNCHANGED <<arg, lock, seg, signals, runout>>
     ELSE SwapOut(X, Head(xq)) /\ UNCHANGED xw
  /\ UNCHANGED <<load, outage, runin, xq>>

XDone ==
  /\ At(X, "done")
  /\ xq' = Tail(xq)
  /\ Rouse({arg[X]}, stat, time)
  /\ pc' = [pc EXCEPT ![X] = "loop"]
  /\ arg' = [arg EXCEPT ![X] = None]
  /\ UNCHANGED <<cpu, dozing, memory, signals, bad, outage, runin, xw>>

------------------------------------------------------------------------------
(* sched().                                                                *)

Wanting == {p \in User : stat[p] = "run" /\ ~load[p]}

(* The one that has been out longest, the first of these in the table. *)
Longest(p, T) == p \in T /\ \A q \in T : time[q] < time[p] \/ (time[q] = time[p] /\ p <= q)

Look ==
  /\ At(S, "loop")
  /\ \/ /\ Wanting = {}
        /\ runout' = TRUE
        /\ Sleeps(S, "runout", FALSE, "loop")
        /\ UNCHANGED <<arg, outage>>
     \/ \E p \in Wanting :
        /\ Longest(p, Wanting)
        /\ arg' = [arg EXCEPT ![S] = p]
        /\ outage' = time[p]
        /\ pc' = [pc EXCEPT ![S] = "in data"]
        /\ UNCHANGED <<queues, cpu, dozing, bad>>
  /\ UNCHANGED <<memory, signals, runin, xq, xw>>

(* swapin(): memory for the data, then for the stack; if there is none for *)
(* the stack, the data is written out again.                               *)
InData ==
  /\ At(S, "in data")
  /\ IF Free >= 1
     THEN /\ seg' = [seg EXCEPT ![arg[S]] = {"data"}]
          /\ Sleeps(S, "io", FALSE, "in stack")
     ELSE /\ pc' = [pc EXCEPT ![S] = "victim"]
          /\ UNCHANGED <<seg, stat, chan, runq, time, cpu, dozing, bad>>
  /\ UNCHANGED <<arg, load, lock, signals, runout, others>>

InStack ==
  /\ At(S, "in stack")
  /\ IF Free >= 1
     THEN seg' = [seg EXCEPT ![arg[S]] = Both] /\ Sleeps(S, "io", FALSE, "in done")
     ELSE UNCHANGED seg /\ Sleeps(S, "io", FALSE, "in undo")
  /\ UNCHANGED <<arg, load, lock, signals, runout, others>>

InUndo ==
  /\ At(S, "in undo")
  /\ seg' = [seg EXCEPT ![arg[S]] = {}]
  /\ pc' = [pc EXCEPT ![S] = "victim"]
  /\ UNCHANGED <<queues, cpu, dozing, arg, load, lock, signals, others, bad>>

InDone ==
  /\ At(S, "in done")
  /\ load' = [load EXCEPT ![arg[S]] = TRUE]
  /\ time' = [time EXCEPT ![arg[S]] = 0]
  /\ pc' = [pc EXCEPT ![S] = "loop"]
  /\ arg' = [arg EXCEPT ![S] = None]
  /\ UNCHANGED <<stat, chan, runq, runout, cpu, dozing, lock, seg, signals, others, bad>>

(* p_pri - PZERO + p_time: positive at a bad priority, and at a good one   *)
(* after a long time.                                                      *)
Badness(q) == IF bad[q] THEN time[q] + 1 ELSE time[q] - MaxTime + 1

CanGo     == {q \in User \ {arg[S]} : load[q] /\ ~lock[q]}
Asleep    == {q \in CanGo : stat[q] = "sleep" /\ Badness(q) > 0}
Worst(q)  == q \in Asleep /\ \A r \in Asleep : Badness(r) < Badness(q) \/ (Badness(r) = Badness(q) /\ q <= r)
Runnable  == {q \in CanGo : stat[q] = "run"}

(* Somebody else goes out: a sleeper, or one that has run two seconds if   *)
(* the other has been out two seconds; otherwise sched waits a second.     *)
Victim ==
  /\ At(S, "victim")
  /\ \/ \E q \in CanGo :
          /\ Worst(q) \/ (Asleep = {} /\ Longest(q, Runnable) /\ time[q] >= 2 /\ outage >= 2)
          /\ load' = [load EXCEPT ![q] = FALSE]
          /\ SwapOut(S, q)
     \/ /\ Asleep = {}
        /\ outage < 2 \/ \A q \in Runnable : time[q] < 2
        /\ pc' = [pc EXCEPT ![S] = "pause"]
        /\ UNCHANGED <<queues, cpu, dozing, arg, memory, signals, bad>>
  /\ UNCHANGED others

Pause ==
  /\ At(S, "pause")
  /\ runin' = TRUE
  /\ Sleeps(S, "runin", FALSE, "loop")
  /\ UNCHANGED <<arg, memory, signals, runout, outage, xq, xw>>

------------------------------------------------------------------------------
(* Interrupts, which may come between any two of the steps above.          *)

SwapDone(t) ==
  /\ t \in Sleepers("io")
  /\ Rouse({t}, stat, time)
  /\ UNCHANGED <<control, memory, signals, others, bad>>

Happens(c) ==
  /\ Sleepers(c) # {}
  /\ Rouse(Sleepers(c), stat, time)
  /\ UNCHANGED <<control, memory, signals, others, bad>>

(* Mutant: a process that is out is not made runnable. *)
SignalLoaded(q) ==
  /\ stat[q] \notin {"free", "zomb"}
  /\ sig' = [sig EXCEPT ![q] = @ \cup {"other"}]
  /\ Rouse(Roused({r \in {q} : load[r]}), stat, time)
  /\ UNCHANGED <<control, memory, parent, others, bad>>

(* psignal(), from the keyboard or from another process. *)
Signal(q) ==
  /\ stat[q] \notin {"free", "zomb"}
  /\ sig' = [sig EXCEPT ![q] = @ \cup {"other"}]
  /\ Rouse(Roused({q}), stat, time)
  /\ UNCHANGED <<control, memory, parent, others, bad>>

(* clock(), once a second: the processes grow older, and the swapper looks *)
(* again.                                                                  *)
Second ==
  LET older == [p \in All |-> IF p \in User /\ stat[p] # "free" /\ time[p] < MaxTime
                              THEN time[p] + 1 ELSE time[p]]
  IN /\ Rouse(IF runin /\ stat[S] = "sleep" THEN {S} ELSE {}, stat, older)
     /\ runin' = FALSE
     /\ UNCHANGED <<control, memory, signals, bad, outage, xq, xw>>

Interrupt == \/ Second
             \/ \E t \in All : SwapDone(t)
             \/ \E c \in Events : Happens(c)
             \/ \E q \in Sent : Signal(q)

UserStep(p) == \/ Preempt(p) \/ TakeSignal(p) \/ Grow(p) \/ Exit(p) \/ Reap(p) \/ Wait(p)
               \/ WaitInterrupted(p)
               \/ \E c \in Events : Await(p, c)
               \/ \E r \in User : ForkInCore(p, r) \/ ForkToSwap(p, r)

Copy(r) == CopyData(r) \/ CopyStack(r)
Swapper == \/ Look \/ InData \/ InStack \/ InUndo \/ InDone \/ Victim \/ Pause
           \/ OutData(S) \/ OutStack(S)
Grower  == XLoop \/ XDone \/ OutData(X) \/ OutStack(X)

Next == /\ \/ Interrupt \/ SwitchOut \/ Swapper \/ Grower
           \/ \E p \in All : Dispatch(p)
           \/ \E p \in User : UserStep(p) \/ Copy(p)
        /\ UNCHANGED mem

Spec == Init /\ [][Next]_vars

------------------------------------------------------------------------------
(* Every variable keeps its type. *)
TypeOK ==
  /\ stat \in [All -> {"free", "run", "sleep", "zomb", "xbrk"}]
  /\ chan \in [All -> Chans]
  /\ bad \in [All -> BOOLEAN] /\ load \in [All -> BOOLEAN] /\ lock \in [All -> BOOLEAN]
  /\ time \in [All -> 0 .. MaxTime]
  /\ seg \in [User -> SUBSET Both]
  /\ sig \in [User -> SUBSET {"cld", "other"}]
  /\ parent \in [User -> User \cup {None}]
  /\ runq \subseteq All
  /\ cpu \in All \cup {Idle}
  /\ arg \in [All -> User \cup {None}]
  /\ xq \in Seq(User)

(* The run queue holds the runnable processes, but for the one that runs   *)
(* and the parent of a child that is being copied to swap; a process that  *)
(* was woken before it left the processor is on it too, and none sleeps    *)
(* without a channel to be woken on.                                       *)
QueuesExact ==
  /\ TypeOK
  /\ \A p \in All : p \in runq <=> stat[p] = "run" /\ pc[p] # "forking" /\ (cpu = p => dozing)
  /\ \A p \in All : stat[p] = "sleep" <=> chan[p] # "none"

(* The swapper sleeps for work only while nobody is runnable and out, and  *)
(* its flags say where it sleeps: a wakeup of a process that is out, its   *)
(* end of growth, its signal and its creation on swap all reach it.        *)
SwapperHears ==
  /\ S \in Sleepers("runout") <=> runout
  /\ S \in Sleepers("runin") <=> runin
  /\ runout => Wanting = {}

(* Memory suffices for what is in it, the one that runs is in memory, and  *)
(* who is loaded and not on the way out has both segments there.  It does  *)
(* not hold when a parent is swapped out in the middle of a fork:          *)
(* SchedMemory says how far it does.                                       *)
InCore ==
  /\ Free >= 0
  /\ cpu \in User => load[cpu]
  /\ \A p \in User : load[p] /\ ~lock[p] /\ stat[p] \notin {"free", "zomb"} => seg[p] = Both

(* The new process is created by copying: while a segment of the parent is *)
(* written to swap as the child's, it is in memory.  The code breaks this: *)
(* SIDL is set on the child, and the swapper may take the parent.          *)
CopyWhole ==
  \A r \in User : stat[r] = "sleep" =>
    /\ pc[r] = "copy data" => "data" \in seg[arg[r]]
    /\ pc[r] = "copy stack" => "stack" \in seg[arg[r]]

(* No signal waits for a process that sleeps at a bad priority. *)
NoSignalSlept == \A p \in User : stat[p] = "sleep" /\ bad[p] => sig[p] = {}

(* A process asleep in wait() has a child to wait for, and none that is    *)
(* dead: every way to become its dead child wakes it.                      *)
WaitSeesZombies ==
  \A p \in User : p \in Sleepers("wait") => Children(p) # {} /\ Zombies(Children(p)) = {}
=============================================================================
