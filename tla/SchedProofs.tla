------------------------------ MODULE SchedProofs ------------------------------
(***************************************************************************)
(* The scheduler for any number of users, events and units of memory: the  *)
(* run queue, the flags of the swapper, signals and dead children, and who *)
(* is in memory, until a parent returns from a fork without its memory.    *)
(***************************************************************************)
EXTENDS SchedMemory, FiniteSetTheorems, TLAPS

(* Where the two system processes and the users go on. *)
SPlaces == {"loop", "in data", "in stack", "in undo", "in done", "victim", "pause",
            "out data", "out stack"}
XPlaces == {"loop", "out data", "out stack", "done"}
UPlaces == {"user", "wait", "forking", "copy data", "copy stack"}

Copies(r) == pc[r] \in {"copy data", "copy stack"}

Places ==
  /\ DOMAIN pc = All /\ pc[S] \in SPlaces /\ pc[X] \in XPlaces
  /\ \A p \in User : pc[p] \in UPlaces
  /\ \A p \in User : stat[p] \in {"free", "zomb", "xbrk"} => pc[p] = "user"
  /\ \A p \in User : pc[p] = "forking" => stat[p] = "run"

(* Nobody has the processor who could not have it. *)
Running ==
  /\ dozing \in BOOLEAN /\ runout \in BOOLEAN /\ runin \in BOOLEAN /\ xw \in BOOLEAN
  /\ dozing => cpu # Idle
  /\ cpu # Idle => stat[cpu] \in {"run", "sleep"} /\ pc[cpu] # "forking"
  /\ cpu # Idle /\ ~dozing => stat[cpu] = "run"

Queues ==
  /\ \A p \in All : p \in runq <=> stat[p] = "run" /\ pc[p] # "forking" /\ (cpu = p => dozing)
  /\ \A p \in All : stat[p] = "sleep" <=> chan[p] # "none"
  /\ stat[S] \in {"run", "sleep"} /\ stat[X] \in {"run", "sleep"} /\ stat[1] \notin {"free", "zomb"}

(* Where one sleeps follows from where he goes on, and at which priority   *)
(* from the channel.                                                       *)
Fits(p, c, b, l) ==
  /\ c = "runout" => p = S /\ l = "loop"
  /\ c = "runin" => p = S /\ l = "loop"
  /\ c = "xw" => p = X /\ l = "loop"
  /\ c = "wait" => p \in User /\ l = "wait"
  /\ c \in Events => p \in User /\ l = "user"
  /\ b <=> c \in {"wait", "tty"}

Sleeping == \A p \in All : stat[p] = "sleep" => Fits(p, chan[p], bad[p], pc[p])

(* A child that is written to swap has a parent of its own that waits.     *)
Forking ==
  /\ \A r \in User : Copies(r) => arg[r] \in User /\ arg[r] # r /\ pc[arg[r]] = "forking"
  /\ \A q, r \in User : Copies(q) /\ Copies(r) /\ arg[q] = arg[r] => q = r

(* Who waits for memory is in the list of xsched, once.                    *)
Growing ==
  /\ \A p \in User : stat[p] = "xbrk" <=> \E i \in 1 .. Len(xq) : xq[i] = p
  /\ \A i, j \in 1 .. Len(xq) : xq[i] = xq[j] => i = j
  /\ pc[X] # "loop" => xq # <<>> /\ arg[X] = xq[1]

Targets == pc[S] \in {"in data", "in stack", "in undo", "in done", "out data", "out stack"}
             => arg[S] \in User

(* Everybody in use but init has a parent, who is somebody else. *)
Family ==
  /\ parent[1] = None
  /\ \A p \in User \ {1} : stat[p] # "free" => parent[p] \in User /\ parent[p] # p

SchedInv ==
  /\ TypeOK /\ Places /\ Running /\ Queues /\ Sleeping /\ Forking /\ Growing /\ Targets /\ Family
  /\ SwapperHears /\ NoSignalSlept /\ WaitSeesZombies

(* Whom the swapper takes out, or puts in. *)
HeldS ==
  /\ pc[S] \in {"out data", "out stack"} =>
       ~load[arg[S]] /\ lock[arg[S]] /\ stat[arg[S]] \in {"run", "sleep"}
  /\ pc[S] \in {"in data", "in stack", "in undo", "in done", "victim"} =>
       arg[S] \in User /\ stat[arg[S]] = "run" /\ ~load[arg[S]]
  /\ pc[S] = "in stack" => seg[arg[S]] = {"data"}
  /\ pc[S] = "in done" => seg[arg[S]] = Both

(* Whom xsched takes out, and who waits for it. *)
HeldX ==
  /\ pc[X] \in {"out data", "out stack"} => lock[arg[X]]
  /\ \A p \in User : stat[p] = "xbrk" => load[p] \/ (pc[X] = "done" /\ arg[X] = p)

HeldC == \A r \in User : Copies(r) => load[r] /\ lock[r]

MemInv == mem \in Mems /\ HeldS /\ HeldX /\ HeldC /\ InCore

------------------------------------------------------------------------------
(* The places in the table: proc[0], the users, xsched. *)
LEMMA Table ==
  /\ S \in All /\ X \in All /\ 1 \in User /\ User \subseteq All /\ All = User \cup {S, X}
  /\ S \notin User /\ X \notin User /\ S # X
  /\ Idle \notin All /\ None \notin All
BY SchedAssumption DEF S, X, User, All

(* At first everybody is where he starts. *)
LEMMA InitInv == Init => SchedInv
<1> SUFFICES ASSUME Init PROVE SchedInv
  OBVIOUS
<1> USE Table, SchedAssumption DEF Init
<1>1. TypeOK
  BY DEF TypeOK, Chans, Both, User
<1>2. Places /\ Running
  BY DEF Places, Running, SPlaces, XPlaces, UPlaces
<1>3. Queues /\ Sleeping
  BY DEF Queues, Sleeping
<1>4. Forking /\ Growing /\ Targets /\ Family
  BY DEF Forking, Growing, Targets, Family, Copies
<1>5. SwapperHears /\ NoSignalSlept /\ WaitSeesZombies
  BY DEF SwapperHears, NoSignalSlept, WaitSeesZombies, Sleepers, Wanting
<1> QED
  BY <1>1, <1>2, <1>3, <1>4, <1>5 DEF SchedInv

(***************************************************************************)
(* What a wakeup does to the processes R that it makes runnable, st being  *)
(* p_stat before.                                                          *)
Woken(R, st) ==
  /\ stat' = [p \in All |-> IF p \in R THEN "run" ELSE st[p]]
  /\ chan' = [p \in All |-> IF p \in R THEN "none" ELSE chan[p]]
  /\ runq' = runq \cup R

(* Mortal: p_time stays within its bound. *)
InTime(tm) == \A p \in All : tm[p] \in 0 .. MaxTime

(* wakeup() and setrun() make the swapper runnable too when it waits for   *)
(* that and one of the others is out.                                      *)
LEMMA RouseWakes ==
  ASSUME SchedInv, NEW W \in SUBSET All, NEW st, NEW tm,
         st[S] = stat[S], InTime(tm), Rouse(W, st, tm)
  PROVE  \E R \in SUBSET All :
           /\ W \subseteq R /\ R \subseteq W \cup {S} /\ Woken(R, st)
           /\ runout' = (runout /\ \A p \in W : load[p])
           /\ S \in R \ W => runout /\ ~runout' /\ stat[S] = "sleep"
           /\ runout /\ ~runout' => S \in R
           /\ time' \in [All -> 0 .. MaxTime]
<1> DEFINE heard == runout /\ \E p \in W : ~load[p]
           R == IF heard /\ st[S] # "run" THEN W \cup {S} ELSE W
<1>1. Woken(R, st) /\ runout' = (runout /\ ~heard)
  BY DEF Rouse, Woken
<1>2. time' \in [All -> 0 .. MaxTime]
  <2>1. time' = [p \in All |-> IF p \in W /\ ~load[p] THEN 0 ELSE tm[p]]
    BY DEF Rouse
  <2>2. 0 \in 0 .. MaxTime
    BY SchedAssumption
  <2> QED
    BY <2>1, <2>2 DEF InTime
<1>3. runout => stat[S] = "sleep"
  BY DEF SchedInv, SwapperHears, Sleepers
<1>4. R \in SUBSET All /\ W \subseteq R /\ R \subseteq W \cup {S}
  BY Table
<1>5. S \in R \ W => runout /\ ~runout' /\ stat[S] = "sleep"
  BY <1>1, <1>3
<1>6. runout /\ ~runout' => S \in R
  BY <1>1, <1>3
<1>7. runout' = (runout /\ \A p \in W : load[p])
  BY <1>1
<1> HIDE DEF R
<1> QED
  BY <1>1, <1>2, <1>4, <1>5, <1>6, <1>7

(* The same of the end of xswap(). *)
LEMMA RouseSwapperWakes ==
  ASSUME SchedInv, NEW rq, NEW tm, RouseSwapper(rq, tm)
  PROVE  \E R \in SUBSET {S} :
           /\ stat' = [p \in All |-> IF p \in R THEN "run" ELSE stat[p]]
           /\ chan' = [p \in All |-> IF p \in R THEN "none" ELSE chan[p]]
           /\ runq' = rq \cup R /\ runout' = FALSE /\ time' = tm
           /\ runout <=> S \in R
           /\ runout => stat[S] = "sleep"
<1> DEFINE R == IF runout THEN Sleepers("runout") ELSE {}
<1>1. /\ stat' = [p \in All |-> IF p \in R THEN "run" ELSE stat[p]]
      /\ chan' = [p \in All |-> IF p \in R THEN "none" ELSE chan[p]]
      /\ runq' = rq \cup R /\ runout' = FALSE /\ time' = tm
  BY DEF RouseSwapper
<1>2. runout => S \in R /\ stat[S] = "sleep"
  BY DEF SchedInv, SwapperHears, Sleepers
<1>3. R \subseteq {S}
  BY DEF SchedInv, Sleeping, Fits, Sleepers
<1>4. runout <=> S \in R
  BY <1>2, Table
<1> HIDE DEF R
<1> QED
  BY <1>1, <1>2, <1>3, <1>4

(* Interrupts, and a process that leaves the processor, do no more than    *)
(* make sleepers runnable, and the flags of the swapper follow.            *)
LEMMA WakeInv ==
  ASSUME SchedInv, NEW R \in SUBSET All, Woken(R, stat), \A p \in R : stat[p] = "sleep",
         time' \in [All -> 0 .. MaxTime],
         runin' = (runin /\ S \notin R), runout' = (runout /\ S \notin R),
         runout' => \A p \in R : load[p],
         UNCHANGED <<pc, arg, load, lock, seg, parent, bad, xq, xw>>,
         UNCHANGED <<cpu, dozing>> \/ (dozing /\ cpu' = Idle /\ dozing' = FALSE),
         sig' \in [User -> SUBSET {"cld", "other"}],
         \A p \in User : stat[p] = "sleep" /\ bad[p] /\ p \notin R => sig'[p] = sig[p]
  PROVE  SchedInv'
<1>1. TypeOK /\ Places /\ Running /\ Queues /\ Sleeping /\ Forking /\ Growing /\ Targets /\ Family
      /\ SwapperHears /\ NoSignalSlept /\ WaitSeesZombies
  BY DEF SchedInv
<1>s. /\ stat' = [p \in All |-> IF p \in R THEN "run" ELSE stat[p]]
      /\ chan' = [p \in All |-> IF p \in R THEN "none" ELSE chan[p]]
      /\ runq' = runq \cup R
  BY DEF Woken
<1>p. \A p \in All : /\ p \in R => stat'[p] = "run" /\ chan'[p] = "none"
                     /\ p \notin R => stat'[p] = stat[p] /\ chan'[p] = chan[p]
  BY <1>s
<1>2. TypeOK'
  <2>1. stat' \in [All -> {"free", "run", "sleep", "zomb", "xbrk"}] /\ chan' \in [All -> Chans]
    BY <1>1, <1>s DEF TypeOK, Chans
  <2>2. runq' \subseteq All /\ cpu' \in All \cup {Idle}
    BY <1>1, <1>s DEF TypeOK
  <2> QED
    BY <1>1, <2>1, <2>2 DEF TypeOK
<1>3. Places'
  BY <1>1, <1>p, Table DEF Places
<1>4. Running'
  <2>1. CASE UNCHANGED <<cpu, dozing>>
    <3>1. cpu # Idle => cpu \in All
      BY <1>1 DEF TypeOK
    <3>2. cpu # Idle => stat'[cpu] \in {"run", "sleep"} /\ (~dozing => stat'[cpu] = "run")
      BY <1>1, <1>p, <3>1 DEF Running
    <3> QED
      BY <1>1, <2>1, <3>2 DEF Running
  <2>2. CASE dozing /\ cpu' = Idle /\ dozing' = FALSE
    BY <1>1, <2>2 DEF Running
  <2> QED
    BY <2>1, <2>2
<1>5. Queues'
  <2>1. \A p \in All : p \in runq' <=> stat'[p] = "run" /\ pc'[p] # "forking" /\ (cpu' = p => dozing')
    <3> SUFFICES ASSUME NEW p \in All
                 PROVE  p \in runq' <=> stat'[p] = "run" /\ pc[p] # "forking" /\ (cpu' = p => dozing')
      OBVIOUS
    <3>1. (cpu' = p => dozing') <=> (cpu = p => dozing)
      BY Table
    <3>2. p \in R => pc[p] # "forking" /\ (cpu = p => dozing)
      BY <1>1, Table DEF Running, Places, SPlaces, XPlaces
    <3> QED
      BY <1>1, <1>s, <1>p, <3>1, <3>2 DEF Queues
  <2>2. \A p \in All : stat'[p] = "sleep" <=> chan'[p] # "none"
    BY <1>1, <1>p DEF Queues
  <2>3. stat'[S] \in {"run", "sleep"} /\ stat'[X] \in {"run", "sleep"} /\ stat'[1] \notin {"free", "zomb"}
    BY <1>1, <1>p, Table DEF Queues
  <2> QED
    BY <2>1, <2>2, <2>3 DEF Queues
<1>6. Sleeping'
  BY <1>1, <1>p DEF Sleeping
<1>7. Forking' /\ Targets'
  BY <1>1 DEF Forking, Targets, Copies
<1>8. Growing'
  BY <1>1, <1>p, Table DEF Growing
<1>9. Family'
  BY <1>1, <1>p, Table DEF Family
<1>10. SwapperHears'
  <2>1. S \in Sleepers("runout")' <=> runout'
    BY <1>1, <1>p, Table DEF SwapperHears, Sleepers
  <2>2. S \in Sleepers("runin")' <=> runin'
    BY <1>1, <1>p, Table DEF SwapperHears, Sleepers
  <2>3. runout' => Wanting' = {}
    BY ZenonT(60), <1>1, <1>p, Table DEF SwapperHears, Wanting
  <2> QED
    BY <2>1, <2>2, <2>3 DEF SwapperHears
<1>11. NoSignalSlept'
  BY <1>1, <1>p, Table DEF NoSignalSlept
<1>12. WaitSeesZombies'
  BY <1>1, <1>p, Table DEF WaitSeesZombies, Sleepers, Children, Zombies
<1> QED
  BY <1>2, <1>3, <1>4, <1>5, <1>6, <1>7, <1>8, <1>9, <1>10, <1>11, <1>12 DEF SchedInv

LEMMA RouseInv ==
  ASSUME SchedInv, NEW W \in SUBSET All, NEW tm, InTime(tm), Rouse(W, stat, tm),
         \A p \in W : stat[p] = "sleep" /\ chan[p] # "runout",
         runin' = (runin /\ S \notin W),
         UNCHANGED <<pc, arg, load, lock, seg, parent, bad, xq, xw>>,
         UNCHANGED <<cpu, dozing>> \/ (dozing /\ cpu' = Idle /\ dozing' = FALSE),
         sig' \in [User -> SUBSET {"cld", "other"}],
         \A p \in User : stat[p] = "sleep" /\ bad[p] /\ p \notin W => sig'[p] = sig[p]
  PROVE  SchedInv'
<1>1. PICK R \in SUBSET All :
           /\ W \subseteq R /\ R \subseteq W \cup {S} /\ Woken(R, stat)
           /\ runout' = (runout /\ \A p \in W : load[p])
           /\ S \in R \ W => runout /\ ~runout' /\ stat[S] = "sleep"
           /\ runout /\ ~runout' => S \in R
           /\ time' \in [All -> 0 .. MaxTime]
  BY RouseWakes
<1>2. \A p \in R : stat[p] = "sleep"
  BY <1>1
<1>3. (runout => chan[S] = "runout") /\ (runin => chan[S] = "runin")
  BY DEF SchedInv, SwapperHears, Sleepers
<1>4. runout' = (runout /\ S \notin R)
  BY <1>1, <1>3 DEF SchedInv, Running
<1>5. runin' = (runin /\ S \notin R)
  BY <1>1, <1>3
<1>6. runout' => \A p \in R : load[p]
  BY <1>1, <1>4
<1>7. \A p \in User : stat[p] = "sleep" /\ bad[p] /\ p \notin R => sig'[p] = sig[p]
  BY <1>1
<1> QED
  BY <1>1, <1>2, <1>4, <1>5, <1>6, <1>7, WakeInv

(* p_time of everybody, and what an interrupt leaves as it is. *)
LEMMA Times == SchedInv => InTime(time)
BY DEF SchedInv, TypeOK, InTime

LEMMA SwapDoneInv == ASSUME SchedInv, NEW t \in All, SwapDone(t) PROVE SchedInv'
<1>1. stat[t] = "sleep" /\ chan[t] = "io" /\ Rouse({t}, stat, time)
  BY DEF SwapDone, Sleepers
<1>2. UNCHANGED <<cpu, dozing, pc, arg, load, lock, seg, sig, parent, bad, xq, xw, runin>>
  BY DEF SwapDone, control, memory, signals, others
<1>3. runin => chan[S] = "runin"
  BY DEF SchedInv, SwapperHears, Sleepers
<1>4. runin' = (runin /\ S \notin {t})
  BY <1>1, <1>2, <1>3 DEF SchedInv, Running
<1>5. sig' \in [User -> SUBSET {"cld", "other"}]
  BY <1>2 DEF SchedInv, TypeOK
<1>6. {t} \in SUBSET All /\ \A p \in {t} : stat[p] = "sleep" /\ chan[p] # "runout"
  BY <1>1
<1>7. \A p \in User : sig'[p] = sig[p]
  BY <1>2
<1> QED
  BY <1>1, <1>2, <1>4, <1>5, <1>6, <1>7, Times, RouseInv

LEMMA HappensInv == ASSUME SchedInv, NEW c \in Events, Happens(c) PROVE SchedInv'
<1>1. Sleepers(c) \in SUBSET All /\ Rouse(Sleepers(c), stat, time)
  BY DEF Happens, Sleepers
<1>2. UNCHANGED <<cpu, dozing, pc, arg, load, lock, seg, sig, parent, bad, xq, xw, runin>>
  BY DEF Happens, control, memory, signals, others
<1>3. \A p \in Sleepers(c) : stat[p] = "sleep" /\ chan[p] # "runout" /\ p # S
  BY SchedAssumption, Table DEF SchedInv, Sleeping, Fits, Sleepers
<1>4. runin' = (runin /\ S \notin Sleepers(c))
  BY <1>2, <1>3 DEF SchedInv, Running
<1>5. sig' \in [User -> SUBSET {"cld", "other"}]
  BY <1>2 DEF SchedInv, TypeOK
<1> QED
  BY <1>1, <1>2, <1>3, <1>4, <1>5, Times, RouseInv

LEMMA SignalInv == ASSUME SchedInv, NEW q \in Sent, Signal(q) PROVE SchedInv'
<1>1. q \in User
  BY SchedAssumption DEF User
<1>2. UNCHANGED <<cpu, dozing, pc, arg, load, lock, seg, parent, bad, xq, xw, runin>>
  BY DEF Signal, control, memory, others
<1>3. Roused({q}) \in SUBSET All /\ Rouse(Roused({q}), stat, time)
  BY <1>1, Table DEF Signal, Roused
<1>4. \A p \in Roused({q}) : p = q /\ stat[p] = "sleep" /\ bad[p]
  BY DEF Roused
<1>5. \A p \in Roused({q}) : chan[p] # "runout"
  BY <1>1, <1>4, Table DEF SchedInv, Sleeping, Fits
<1>6. runin' = (runin /\ S \notin Roused({q}))
  BY <1>1, <1>2, <1>4, Table DEF SchedInv, Running
<1>7. sig' = [sig EXCEPT ![q] = @ \cup {"other"}]
  BY DEF Signal
<1>8. sig' \in [User -> SUBSET {"cld", "other"}]
  BY <1>1, <1>7 DEF SchedInv, TypeOK
<1>9. \A p \in User : stat[p] = "sleep" /\ bad[p] /\ p \notin Roused({q}) => sig'[p] = sig[p]
  BY <1>7 DEF Roused, SchedInv, TypeOK
<1> QED
  BY <1>2, <1>3, <1>4, <1>5, <1>6, <1>8, <1>9, Times, RouseInv

LEMMA SecondInv == ASSUME SchedInv, Second PROVE SchedInv'
<1> DEFINE W == IF runin /\ stat[S] = "sleep" THEN {S} ELSE {}
           older == [p \in All |-> IF p \in User /\ stat[p] # "free" /\ time[p] < MaxTime
                                   THEN time[p] + 1 ELSE time[p]]
<1>1. Rouse(W, stat, older) /\ runin' = FALSE
  BY DEF Second
<1>2. UNCHANGED <<cpu, dozing, pc, arg, load, lock, seg, sig, parent, bad, xq, xw>>
  BY DEF Second, control, memory, signals
<1>3. InTime(older)
  BY SchedAssumption DEF SchedInv, TypeOK, InTime
<1>4. runin => chan[S] = "runin" /\ stat[S] = "sleep"
  BY DEF SchedInv, SwapperHears, Sleepers
<1>5. W \in SUBSET All /\ \A p \in W : stat[p] = "sleep" /\ chan[p] # "runout"
  BY <1>4, Table
<1>6. runin' = (runin /\ S \notin W)
  BY <1>1, <1>4
<1>7. sig' \in [User -> SUBSET {"cld", "other"}] /\ \A p \in User : sig'[p] = sig[p]
  BY <1>2 DEF SchedInv, TypeOK
<1> HIDE DEF W, older
<1> QED
  BY <1>1, <1>2, <1>3, <1>5, <1>6, <1>7, RouseInv

LEMMA SwitchOutInv == ASSUME SchedInv, SwitchOut PROVE SchedInv'
<1>1. UNCHANGED <<pc, arg, load, lock, seg, sig, parent, bad, xq, xw>>
      /\ dozing /\ cpu' = Idle /\ dozing' = FALSE
  BY DEF SwitchOut, memory, signals
<1>2. sig' \in [User -> SUBSET {"cld", "other"}] /\ \A p \in User : sig'[p] = sig[p]
  BY <1>1 DEF SchedInv, TypeOK
<1>3. CASE bad[cpu] /\ runin
  <2>1. runin' = FALSE /\ Rouse(Sleepers("runin"), stat, time)
    BY <1>3 DEF SwitchOut
  <2>2. S \in Sleepers("runin") /\ Sleepers("runin") \in SUBSET All
    BY <1>3 DEF SchedInv, SwapperHears, Sleepers
  <2>3. \A p \in Sleepers("runin") : stat[p] = "sleep" /\ chan[p] # "runout"
    BY DEF Sleepers
  <2>4. runin' = (runin /\ S \notin Sleepers("runin"))
    BY <2>1, <2>2
  <2> QED
    BY <1>1, <1>2, <2>1, <2>2, <2>3, <2>4, Times, RouseInv
<1>4. CASE ~(bad[cpu] /\ runin)
  <2>1. UNCHANGED <<runin, stat, chan, runq, time, runout>>
    BY <1>4 DEF SwitchOut, queues
  <2>2. Woken({}, stat)
    BY <2>1 DEF Woken, SchedInv, TypeOK
  <2>3. time' \in [All -> 0 .. MaxTime] /\ runin' = (runin /\ S \notin {}) /\ runout' = (runout /\ S \notin {})
    BY <2>1 DEF SchedInv, TypeOK, Running
  <2>4. /\ {} \in SUBSET All
        /\ \A p \in {} : stat[p] = "sleep"
        /\ \A p \in {} : load[p]
    OBVIOUS
  <2> QED
    BY <1>1, <1>2, <2>2, <2>3, <2>4, WakeInv
<1> QED
  BY <1>3, <1>4

------------------------------------------------------------------------------
(* Where a process that goes to sleep has come to, and where it will go    *)
(* on.                                                                     *)
MaySleep(t, c, b, next) ==
  /\ t \in All /\ cpu = t /\ ~dozing /\ c \in Chans \ {"none"} /\ b \in BOOLEAN
  /\ c = "runout" => t = S /\ next = "loop" /\ Wanting = {}
  /\ c = "runin" => t = S /\ next = "loop"
  /\ c = "xw" => t = X /\ next = "loop"
  /\ c = "wait" => t \in User /\ next = "wait" /\ Children(t) # {} /\ Zombies(Children(t)) = {}
  /\ c \in Events => t \in User /\ next = "user"
  /\ b <=> c \in {"wait", "tty"}
  /\ t = S => next \in SPlaces
  /\ t = X => next \in XPlaces
  /\ t \in User => next \in {"user", "wait"} \/ (Copies(t) /\ next = "copy stack")

(* What else may change when it does. *)
Aside(t, c, b, next) ==
  /\ UNCHANGED <<parent, xq>>
  /\ runout' = (runout \/ c = "runout") /\ runin' = (runin \/ c = "runin") /\ xw' \in BOOLEAN
  /\ t # S \/ c = "runout" => UNCHANGED load
  /\ load' \in [All -> BOOLEAN] /\ lock' \in [All -> BOOLEAN]
  /\ seg' \in [User -> SUBSET Both]
  /\ sig' \in [User -> SUBSET {"cld", "other"}]
  /\ b => sig'[t] = {}
  /\ \A p \in User : p # t => sig'[p] = sig[p]
  /\ arg' \in [All -> User \cup {None}]
  /\ \A p \in All : p = t \/ arg'[p] = arg[p]
  /\ t \in User => arg'[t] = arg[t]
  /\ t = X /\ next # "loop" => xq # <<>> /\ arg'[X] = xq[1]
  /\ t = S /\ next # "loop" => arg'[S] \in User

LEMMA SleepInv ==
  ASSUME SchedInv, NEW t, NEW c, NEW b, NEW next, Sleeps(t, c, b, next),
         MaySleep(t, c, b, next), Aside(t, c, b, next)
  PROVE  SchedInv'
<1>1. TypeOK /\ Places /\ Running /\ Queues /\ Sleeping /\ Forking /\ Growing /\ Targets /\ Family
      /\ SwapperHears /\ NoSignalSlept /\ WaitSeesZombies
  BY DEF SchedInv
<1>t. t \in All /\ cpu = t /\ ~dozing /\ c \in Chans /\ c # "none" /\ b \in BOOLEAN
  BY DEF MaySleep
<1>s. /\ stat' = [stat EXCEPT ![t] = "sleep"]
      /\ chan' = [chan EXCEPT ![t] = c]
      /\ bad' = [bad EXCEPT ![t] = b]
      /\ dozing' = TRUE
      /\ pc' = [pc EXCEPT ![t] = next]
      /\ UNCHANGED <<runq, time, cpu>>
  BY DEF Sleeps
<1>p. /\ stat'[t] = "sleep" /\ chan'[t] = c /\ bad'[t] = b /\ pc'[t] = next
      /\ \A p \in All : p # t => stat'[p] = stat[p] /\ chan'[p] = chan[p] /\ bad'[p] = bad[p] /\ pc'[p] = pc[p]
      /\ DOMAIN pc' = All
  BY <1>1, <1>s, <1>t DEF TypeOK, Places
<1>r. stat[t] = "run" /\ t \notin runq
  BY <1>1, <1>t, Table DEF Running, Queues
<1>w. ~Copies(t) => next # "copy stack" /\ next # "copy data"
  BY <1>t, Table DEF MaySleep, SPlaces, XPlaces
<1>2. TypeOK'
  <2>1. stat' \in [All -> {"free", "run", "sleep", "zomb", "xbrk"}] /\ chan' \in [All -> Chans]
        /\ bad' \in [All -> BOOLEAN]
    BY <1>1, <1>s, <1>t DEF TypeOK
  <2> QED
    BY <1>1, <1>s, <2>1 DEF TypeOK, Aside
<1>3. Places'
  <2>1. pc'[S] \in SPlaces /\ pc'[X] \in XPlaces
    BY <1>1, <1>p, Table DEF MaySleep, Places
  <2>2. \A p \in User : pc'[p] \in UPlaces
    BY <1>1, <1>p, Table DEF MaySleep, Places, UPlaces
  <2>3. \A p \in User : stat'[p] \in {"free", "zomb", "xbrk"} => pc'[p] = "user"
    BY <1>1, <1>p, Table DEF Places
  <2>4. \A p \in User : pc'[p] = "forking" => stat'[p] = "run"
    BY <1>1, <1>p, Table DEF MaySleep, Places
  <2> QED
    BY <1>p, <2>1, <2>2, <2>3, <2>4 DEF Places
<1>n. next # "forking"
  BY <1>t, Table DEF MaySleep, SPlaces, XPlaces
<1>4. Running'
  <2>1. dozing' = TRUE /\ cpu' = t /\ t # Idle /\ stat'[t] = "sleep" /\ pc'[t] # "forking"
    BY <1>p, <1>s, <1>t, <1>n, Table
  <2>2. runout' \in BOOLEAN /\ runin' \in BOOLEAN /\ xw' \in BOOLEAN
    BY DEF Aside
  <2> QED
    BY <2>1, <2>2 DEF Running
<1>5. Queues'
  <2>1. \A p \in All : p \in runq' <=> stat'[p] = "run" /\ pc'[p] # "forking" /\ (cpu' = p => dozing')
    BY <1>1, <1>s, <1>t, <1>p, <1>r, Table DEF Queues
  <2>2. \A p \in All : stat'[p] = "sleep" <=> chan'[p] # "none"
    BY <1>1, <1>p, <1>t DEF Queues
  <2>3. stat'[S] \in {"run", "sleep"} /\ stat'[X] \in {"run", "sleep"} /\ stat'[1] \notin {"free", "zomb"}
    BY <1>1, <1>p, Table DEF Queues
  <2> QED
    BY <2>1, <2>2, <2>3 DEF Queues
<1>6. Sleeping'
  <2>1. Fits(t, c, b, next)
    BY DEF MaySleep, Fits
  <2> QED
    BY <1>1, <1>p, <2>1 DEF Sleeping
<1>7. Forking'
  <2>1. \A r \in User : Copies(r)' => Copies(r) /\ arg'[r] = arg[r]
    BY <1>p, <1>w, Table DEF Copies, Aside
  <2>2. \A r \in User : Copies(r) => pc'[arg[r]] = "forking"
    <3>1. pc[t] # "forking"
      BY <1>1, <1>t, Table DEF Running
    <3> QED
      BY <1>1, <1>p, <3>1, Table DEF Forking
  <2> QED
    BY <1>1, <2>1, <2>2 DEF Forking
<1>8. Growing'
  <2>1. \A p \in User : stat'[p] = "xbrk" <=> stat[p] = "xbrk"
    BY <1>p, <1>r, Table
  <2>2. pc'[X] # "loop" => xq # <<>> /\ arg'[X] = xq[1]
    BY <1>1, <1>p, Table DEF Growing, Aside
  <2>3. xq' = xq
    BY DEF Aside
  <2> QED
    BY <1>1, <2>1, <2>2, <2>3 DEF Growing
<1>9. Targets'
  BY <1>1, <1>p, Table DEF Targets, Aside
<1>10. Family'
  BY <1>1, <1>p, <1>r, Table DEF Family, Aside
<1>11. SwapperHears'
  <2>1. t = S => ~runout /\ ~runin
    BY <1>1, <1>r DEF SwapperHears, Sleepers
  <2>2. S \in Sleepers("runout")' <=> runout'
    BY <1>1, <1>p, <2>1, Table DEF SwapperHears, Sleepers, Aside, MaySleep
  <2>3. S \in Sleepers("runin")' <=> runin'
    BY <1>1, <1>p, <2>1, Table DEF SwapperHears, Sleepers, Aside, MaySleep
  <2>4. runout' => Wanting' = {}
    <3>1. runout' => load' = load
      BY <2>1 DEF Aside
    <3>2. runout' => Wanting = {}
      BY <1>1, <2>1 DEF Aside, MaySleep, SwapperHears
    <3> QED
      BY <1>p, <3>1, <3>2, Table DEF Wanting
  <2> QED
    BY <2>2, <2>3, <2>4 DEF SwapperHears
<1>12. NoSignalSlept'
  BY <1>1, <1>p, Table DEF NoSignalSlept, Aside
<1>13. WaitSeesZombies'
  <2>1. \A p \in User : Children(p)' = Children(p) /\ Zombies(Children(p))' = Zombies(Children(p))
    BY <1>p, <1>r, Table DEF Children, Zombies, Aside
  <2>2. \A p \in User : p \in Sleepers("wait")' => p \in Sleepers("wait") \/ (p = t /\ c = "wait")
    BY <1>p, Table DEF Sleepers
  <2> QED
    BY <1>1, <2>1, <2>2 DEF WaitSeesZombies, MaySleep
<1> QED
  BY <1>2, <1>3, <1>4, <1>5, <1>6, <1>7, <1>8, <1>9, <1>10, <1>11, <1>12, <1>13 DEF SchedInv

(* The types that go to sleep with everybody. *)
LEMMA Typed ==
  ASSUME SchedInv
  PROVE  /\ load \in [All -> BOOLEAN] /\ lock \in [All -> BOOLEAN] /\ seg \in [User -> SUBSET Both]
         /\ sig \in [User -> SUBSET {"cld", "other"}] /\ arg \in [All -> User \cup {None}]
         /\ runout \in BOOLEAN /\ runin \in BOOLEAN /\ xw \in BOOLEAN
         /\ pc[S] \in SPlaces /\ pc[X] \in XPlaces /\ \A p \in User : pc[p] \in UPlaces
BY DEF SchedInv, TypeOK, Running, Places

LEMMA AwaitInv == ASSUME SchedInv, NEW p \in User, NEW c \in Events, Await(p, c) PROVE SchedInv'
<1>1. /\ cpu = p /\ ~dozing /\ Sleeps(p, c, c = "tty", "user")
      /\ sig' = IF c = "tty" THEN [sig EXCEPT ![p] = {}] ELSE sig
      /\ UNCHANGED <<arg, load, lock, seg, parent, runout, runin, xq, xw>>
  BY DEF Await, At, memory, others
<1>2. c \in {"tty", "disk"} /\ c \in Chans \ {"none"}
  BY SchedAssumption DEF Chans
<1>3. MaySleep(p, c, c = "tty", "user")
  BY <1>1, <1>2, Table DEF MaySleep
<1>4. Aside(p, c, c = "tty", "user")
  BY <1>1, <1>2, Table, Typed DEF Aside
<1> QED
  BY <1>1, <1>3, <1>4, SleepInv

LEMMA CopyDataInv == ASSUME SchedInv, NEW r \in User, CopyData(r) PROVE SchedInv'
<1>1. /\ cpu = r /\ ~dozing /\ pc[r] = "copy data" /\ Sleeps(r, "io", FALSE, "copy stack")
      /\ UNCHANGED <<arg, load, lock, seg, sig, parent, runout, runin, xq, xw>>
  BY DEF CopyData, At, memory, signals, others
<1>2. "io" \in Chans \ {"none"} /\ "io" \notin Events
  BY SchedAssumption DEF Chans
<1>3. MaySleep(r, "io", FALSE, "copy stack")
  BY <1>1, <1>2, Table DEF MaySleep, Copies
<1>4. Aside(r, "io", FALSE, "copy stack")
  BY <1>1, Table, Typed DEF Aside
<1> QED
  BY <1>1, <1>3, <1>4, SleepInv

LEMMA WaitInv == ASSUME SchedInv, NEW p \in User, Wait(p) PROVE SchedInv'
<1>1. /\ cpu = p /\ ~dozing /\ Sleeps(p, "wait", TRUE, "wait")
      /\ Children(p) # {} /\ Zombies(Children(p)) = {}
      /\ sig' = [sig EXCEPT ![p] = {}]
      /\ UNCHANGED <<arg, load, lock, seg, parent, runout, runin, xq, xw>>
  BY DEF Wait, memory, others
<1>2. "wait" \in Chans \ {"none"} /\ "wait" \notin Events
  BY SchedAssumption DEF Chans
<1>3. MaySleep(p, "wait", TRUE, "wait")
  BY <1>1, <1>2, Table DEF MaySleep
<1>4. Aside(p, "wait", TRUE, "wait")
  BY <1>1, Table, Typed DEF Aside
<1> QED
  BY <1>1, <1>3, <1>4, SleepInv

(* A system process sleeps for a device. *)
LEMMA SystemSleepInv ==
  ASSUME SchedInv, NEW t \in {S, X}, NEW next, cpu = t, ~dozing, Sleeps(t, "io", FALSE, next),
         t = S => next \in SPlaces, t = X => next \in XPlaces,
         UNCHANGED <<parent, xq, sig, runout, runin>>, xw' \in BOOLEAN,
         t # S => UNCHANGED load,
         load' \in [All -> BOOLEAN], lock' \in [All -> BOOLEAN], seg' \in [User -> SUBSET Both],
         arg' \in [All -> User \cup {None}],
         \A p \in All : p = t \/ arg'[p] = arg[p],
         t = X /\ next # "loop" => xq # <<>> /\ arg'[X] = xq[1],
         t = S /\ next # "loop" => arg'[S] \in User
  PROVE  SchedInv'
<1>2. "io" \in Chans \ {"none"} /\ "io" \notin Events
  BY SchedAssumption DEF Chans
<1>3. MaySleep(t, "io", FALSE, next)
  BY <1>2, Table DEF MaySleep
<1>4. Aside(t, "io", FALSE, next)
  BY Table, Typed DEF Aside
<1> QED
  BY <1>3, <1>4, SleepInv

LEMMA OutDataInv == ASSUME SchedInv, NEW t \in {S, X}, OutData(t) PROVE SchedInv'
<1>1. /\ cpu = t /\ ~dozing /\ pc[t] = "out data" /\ Sleeps(t, "io", FALSE, "out stack")
      /\ seg' = [seg EXCEPT ![arg[t]] = @ \ {"data"}]
      /\ UNCHANGED <<arg, load, lock, sig, parent, runout, runin, xq, xw>>
  BY DEF OutData, At, signals, others
<1>2. arg[t] \in User
  <2>1. t = X => arg[X] = xq[1] /\ xq # <<>>
    BY <1>1, Table DEF SchedInv, Growing
  <2>2. t = X => xq[1] \in User
    BY <2>1 DEF SchedInv, TypeOK
  <2> QED
    BY <1>1, <2>1, <2>2 DEF SchedInv, Targets
<1>3. seg' \in [User -> SUBSET Both]
  BY <1>1, <1>2, Typed
<1>4. t = X => xq # <<>> /\ arg'[X] = xq[1]
  BY <1>1 DEF SchedInv, Growing
<1>5. t = S => arg'[S] \in User
  BY <1>1, <1>2
<1>6. (t = S => "out stack" \in SPlaces) /\ (t = X => "out stack" \in XPlaces)
  BY DEF SPlaces, XPlaces
<1> QED
  BY <1>1, <1>3, <1>4, <1>5, <1>6, Typed, SystemSleepInv

LEMMA XLoopInv == ASSUME SchedInv, XLoop PROVE SchedInv'
<1>1. cpu = X /\ ~dozing /\ UNCHANGED <<load, outage, runin, xq>>
  BY DEF XLoop, At
<1>2. CASE xq = <<>>
  <2>1. xw' = TRUE /\ Sleeps(X, "xw", FALSE, "loop") /\ UNCHANGED <<arg, lock, seg, sig, parent, runout>>
    BY <1>2 DEF XLoop, signals
  <2>2. "xw" \in Chans \ {"none"} /\ "xw" \notin Events
    BY SchedAssumption DEF Chans
  <2>3. MaySleep(X, "xw", FALSE, "loop")
    BY <1>1, <2>2, Table DEF MaySleep, XPlaces
  <2>4. Aside(X, "xw", FALSE, "loop")
    BY <1>1, <2>1, Table, Typed DEF Aside
  <2> QED
    BY <2>1, <2>3, <2>4, SleepInv
<1>3. CASE xq # <<>>
  <2>1. /\ lock' = [lock EXCEPT ![Head(xq)] = TRUE] /\ arg' = [arg EXCEPT ![X] = Head(xq)]
        /\ Sleeps(X, "io", FALSE, "out data") /\ UNCHANGED <<seg, sig, parent, runout, xw>>
    BY <1>3 DEF XLoop, SwapOut, signals
  <2>2. Head(xq) = xq[1] /\ Head(xq) \in User
    BY <1>3 DEF SchedInv, TypeOK
  <2>3. lock' \in [All -> BOOLEAN] /\ arg' \in [All -> User \cup {None}]
    BY <2>1, <2>2, Table, Typed
  <2>4. arg'[X] = xq[1] /\ \A p \in All : p = X \/ arg'[p] = arg[p]
    BY <2>1, <2>2, Table, Typed
  <2>5. "out data" \in XPlaces
    BY DEF XPlaces
  <2> QED
    BY <1>1, <1>3, <2>1, <2>3, <2>4, <2>5, Table, Typed, SystemSleepInv
<1> QED
  BY <1>2, <1>3

LEMMA InStackInv == ASSUME SchedInv, InStack PROVE SchedInv'
<1>1. /\ cpu = S /\ ~dozing /\ pc[S] = "in stack" /\ seg' \in {seg, [seg EXCEPT ![arg[S]] = Both]}
      /\ Sleeps(S, "io", FALSE, "in done") \/ Sleeps(S, "io", FALSE, "in undo")
      /\ UNCHANGED <<arg, load, lock, sig, parent, runout, runin, xq, xw>>
  BY DEF InStack, At, signals, others
<1>2. arg[S] \in User
  BY <1>1 DEF SchedInv, Targets
<1>3. seg' \in [User -> SUBSET Both]
  BY <1>1, <1>2, Typed
<1>4. "in done" \in SPlaces /\ "in undo" \in SPlaces
  BY DEF SPlaces
<1> QED
  BY <1>1, <1>2, <1>3, <1>4, Table, Typed, SystemSleepInv

LEMMA PauseInv == ASSUME SchedInv, Pause PROVE SchedInv'
<1>1. /\ cpu = S /\ ~dozing /\ Sleeps(S, "runin", FALSE, "loop") /\ runin' = TRUE
      /\ UNCHANGED <<arg, load, lock, seg, sig, parent, runout, xq, xw>>
  BY DEF Pause, At, memory, signals
<1>2. "runin" \in Chans \ {"none"} /\ "runin" \notin Events
  BY SchedAssumption DEF Chans
<1>3. MaySleep(S, "runin", FALSE, "loop")
  BY <1>1, <1>2, Table DEF MaySleep, SPlaces
<1>4. Aside(S, "runin", FALSE, "loop")
  BY <1>1, Table, Typed DEF Aside
<1> QED
  BY <1>1, <1>3, <1>4, SleepInv

------------------------------------------------------------------------------
(* The process on the processor goes on, and the queues stay as they are.  *)
LEMMA MoveInv ==
  ASSUME SchedInv, NEW t \in All, cpu = t, ~dozing, NEW next,
         pc' = [pc EXCEPT ![t] = next] \/ (pc' = pc /\ pc[t] = next),
         UNCHANGED <<stat, chan, bad, runq, cpu, dozing, parent, xq, xw, runout, runin>>,
         t = S => next \in SPlaces, t = X => next = pc[X], t \in User => next = "user",
         t # S => UNCHANGED load,
         time' \in [All -> 0 .. MaxTime],
         load' \in [All -> BOOLEAN], lock' \in [All -> BOOLEAN], seg' \in [User -> SUBSET Both],
         arg' \in [All -> User \cup {None}],
         \A p \in All : p = S \/ arg'[p] = arg[p],
         t # S => arg'[S] = arg[S], t = S /\ next # "loop" => arg'[S] \in User \/ next \in {"victim", "pause"},
         sig' \in [User -> SUBSET {"cld", "other"}],
         \A p \in User : p # t => sig'[p] = sig[p]
  PROVE  SchedInv'
<1>1. TypeOK /\ Places /\ Running /\ Queues /\ Sleeping /\ Forking /\ Growing /\ Targets /\ Family
      /\ SwapperHears /\ NoSignalSlept /\ WaitSeesZombies
  BY DEF SchedInv
<1>p. /\ pc'[t] = next /\ DOMAIN pc' = All
      /\ \A p \in All : p # t => pc'[p] = pc[p]
  BY <1>1 DEF Places
<1>r. stat[t] = "run" /\ t \notin runq /\ pc[t] # "forking"
  BY <1>1, Table DEF Running, Queues
<1>n. next \notin {"forking", "copy data", "copy stack"} \/ next = pc[t]
  BY Table DEF SPlaces
<1>2. TypeOK'
  BY <1>1 DEF TypeOK
<1>3. Places'
  <2>1. pc'[S] \in SPlaces /\ pc'[X] \in XPlaces
    BY <1>1, <1>p, Table DEF Places
  <2>2. \A p \in User : pc'[p] \in UPlaces
    BY <1>1, <1>p, Table DEF Places, UPlaces
  <2>3. \A p \in User : stat'[p] \in {"free", "zomb", "xbrk"} => pc'[p] = "user"
    BY <1>1, <1>p, Table DEF Places
  <2>4. \A p \in User : pc'[p] = "forking" => stat'[p] = "run"
    BY <1>1, <1>p, <1>r, Table DEF Places
  <2> QED
    BY <1>p, <2>1, <2>2, <2>3, <2>4 DEF Places
<1>4. Running'
  <2>1. pc'[t] # "forking" /\ t # Idle
    BY <1>p, <1>n, <1>r, Table
  <2> QED
    BY <1>1, <1>r, <2>1 DEF Running
<1>5. Queues'
  <2>1. \A p \in All : p \in runq' <=> stat'[p] = "run" /\ pc'[p] # "forking" /\ (cpu' = p => dozing')
    BY <1>1, <1>p, <1>r DEF Queues
  <2> QED
    BY <1>1, <2>1 DEF Queues
<1>6. Sleeping'
  BY <1>1, <1>p, <1>r DEF Sleeping
<1>7. Forking'
  <2>1. \A r \in User : Copies(r)' => Copies(r) /\ arg'[r] = arg[r]
    BY <1>p, <1>n, Table DEF Copies
  <2>2. \A r \in User : Copies(r) => pc'[arg[r]] = "forking"
    BY <1>1, <1>p, <1>r, Table DEF Forking
  <2> QED
    BY <1>1, <2>1, <2>2 DEF Forking
<1>8. Growing'
  <2>1. pc'[X] = pc[X] /\ arg'[X] = arg[X]
    BY <1>p, Table
  <2> QED
    BY <1>1, <2>1 DEF Growing
<1>9. Targets'
  BY <1>1, <1>p, Table DEF Targets
<1>10. Family' /\ WaitSeesZombies'
  BY <1>1 DEF Family, WaitSeesZombies, Sleepers, Children, Zombies
<1>11. SwapperHears'
  <2>1. t = S => ~runout
    BY <1>1, <1>r DEF SwapperHears, Sleepers
  <2> QED
    BY <1>1, <2>1 DEF SwapperHears, Sleepers, Wanting
<1>12. NoSignalSlept'
  BY <1>1, <1>r DEF NoSignalSlept
<1> QED
  BY <1>2, <1>3, <1>4, <1>5, <1>6, <1>7, <1>8, <1>9, <1>10, <1>11, <1>12 DEF SchedInv

LEMMA TakeSignalInv == ASSUME SchedInv, NEW p \in User, TakeSignal(p) PROVE SchedInv'
<1>1. /\ cpu = p /\ ~dozing /\ pc[p] = "user" /\ sig' = [sig EXCEPT ![p] = {}]
      /\ UNCHANGED <<stat, chan, bad, runq, time, cpu, dozing, pc, arg, load, lock, seg, parent,
                     runout, runin, xq, xw>>
  BY DEF TakeSignal, At, queues, control, memory, others
<1>3. time' \in [All -> 0 .. MaxTime]
  BY <1>1 DEF SchedInv, TypeOK
<1> QED
  BY <1>1, <1>3, Table, Typed, MoveInv

LEMMA WaitInterruptedInv == ASSUME SchedInv, NEW p \in User, WaitInterrupted(p) PROVE SchedInv'
<1>1. /\ cpu = p /\ ~dozing /\ pc' = [pc EXCEPT ![p] = "user"]
      /\ UNCHANGED <<stat, chan, bad, runq, time, cpu, dozing, arg, load, lock, seg, sig, parent,
                     runout, runin, xq, xw>>
  BY DEF WaitInterrupted, At, queues, memory, signals, others
<1>3. time' \in [All -> 0 .. MaxTime]
  BY <1>1 DEF SchedInv, TypeOK
<1> QED
  BY <1>1, <1>3, Table, Typed, MoveInv

LEMMA LookInv == ASSUME SchedInv, Look PROVE SchedInv'
<1>1. cpu = S /\ ~dozing /\ pc[S] = "loop" /\ UNCHANGED <<load, lock, seg, sig, parent, runin, xq, xw>>
  BY DEF Look, At, memory, signals
<1>2. CASE /\ Wanting = {} /\ runout' = TRUE /\ Sleeps(S, "runout", FALSE, "loop")
           /\ UNCHANGED <<arg, outage>>
  <2>2. "runout" \in Chans \ {"none"} /\ "runout" \notin Events
    BY SchedAssumption DEF Chans
  <2>3. MaySleep(S, "runout", FALSE, "loop")
    BY <1>1, <1>2, <2>2, Table DEF MaySleep, SPlaces
  <2>4. Aside(S, "runout", FALSE, "loop")
    BY <1>1, <1>2, Table, Typed DEF Aside
  <2> QED
    BY <1>2, <2>3, <2>4, SleepInv
<1>3. ASSUME NEW p \in Wanting, arg' = [arg EXCEPT ![S] = p],
             pc' = [pc EXCEPT ![S] = "in data"], UNCHANGED <<queues, cpu, dozing, bad>>
      PROVE  SchedInv'
  <2>1. UNCHANGED <<stat, chan, bad, runq, time, cpu, dozing, runout>>
    BY <1>3 DEF queues
  <2>2. p \in User
    BY DEF Wanting
  <2>3. arg' \in [All -> User \cup {None}] /\ arg'[S] = p /\ \A q \in All : q = S \/ arg'[q] = arg[q]
    BY <1>3, <2>2, Table, Typed
  <2>4. time' \in [All -> 0 .. MaxTime]
    BY <2>1 DEF SchedInv, TypeOK
  <2>5. "in data" \in SPlaces
    BY DEF SPlaces
  <2> QED
    BY <1>1, <1>3, <2>1, <2>2, <2>3, <2>4, <2>5, Table, Typed, MoveInv
<1> QED
  BY <1>2, <1>3 DEF Look

LEMMA InDataInv == ASSUME SchedInv, InData PROVE SchedInv'
<1>1. /\ cpu = S /\ ~dozing /\ pc[S] = "in data"
      /\ UNCHANGED <<arg, load, lock, sig, parent, runout, runin, xq, xw>>
  BY DEF InData, At, signals, others
<1>2. arg[S] \in User
  BY <1>1 DEF SchedInv, Targets
<1>3. CASE Free >= 1
  <2>1. seg' = [seg EXCEPT ![arg[S]] = {"data"}] /\ Sleeps(S, "io", FALSE, "in stack")
    BY <1>3 DEF InData
  <2>2. seg' \in [User -> SUBSET Both]
    BY <1>2, <2>1, Typed DEF Both
  <2>3. "in stack" \in SPlaces
    BY DEF SPlaces
  <2> QED
    BY <1>1, <1>2, <2>1, <2>2, <2>3, Table, Typed, SystemSleepInv
<1>4. CASE ~(Free >= 1)
  <2>1. pc' = [pc EXCEPT ![S] = "victim"] /\ UNCHANGED <<seg, stat, chan, runq, time, cpu, dozing, bad>>
    BY <1>4 DEF InData
  <2>2. time' \in [All -> 0 .. MaxTime]
    BY <2>1 DEF SchedInv, TypeOK
  <2>3. "victim" \in SPlaces
    BY DEF SPlaces
  <2> QED
    BY <1>1, <2>1, <2>2, <2>3, Table, Typed, MoveInv
<1> QED
  BY <1>3, <1>4

LEMMA InUndoInv == ASSUME SchedInv, InUndo PROVE SchedInv'
<1>1. /\ cpu = S /\ ~dozing /\ pc[S] = "in undo" /\ pc' = [pc EXCEPT ![S] = "victim"]
      /\ seg' = [seg EXCEPT ![arg[S]] = {}]
      /\ UNCHANGED <<stat, chan, bad, runq, time, cpu, dozing, arg, load, lock, sig, parent,
                     runout, runin, xq, xw>>
  BY DEF InUndo, At, queues, signals, others
<1>2. arg[S] \in User
  BY <1>1 DEF SchedInv, Targets
<1>3. seg' \in [User -> SUBSET Both] /\ time' \in [All -> 0 .. MaxTime]
  BY <1>1, <1>2 DEF SchedInv, TypeOK
<1>4. "victim" \in SPlaces
  BY DEF SPlaces
<1> QED
  BY <1>1, <1>3, <1>4, Table, Typed, MoveInv

LEMMA InDoneInv == ASSUME SchedInv, InDone PROVE SchedInv'
<1>1. /\ cpu = S /\ ~dozing /\ pc[S] = "in done" /\ pc' = [pc EXCEPT ![S] = "loop"]
      /\ load' = [load EXCEPT ![arg[S]] = TRUE] /\ time' = [time EXCEPT ![arg[S]] = 0]
      /\ arg' = [arg EXCEPT ![S] = None]
      /\ UNCHANGED <<stat, chan, bad, runq, cpu, dozing, lock, seg, sig, parent, runout, runin, xq, xw>>
  BY DEF InDone, At, signals, others
<1>2. load' \in [All -> BOOLEAN] /\ time' \in [All -> 0 .. MaxTime]
  <2>1. arg[S] \in All
    BY <1>1, Table DEF SchedInv, Targets
  <2>2. 0 \in 0 .. MaxTime
    BY SchedAssumption
  <2> QED
    BY <1>1, <2>1, <2>2 DEF SchedInv, TypeOK
<1>3. arg' \in [All -> User \cup {None}] /\ \A p \in All : p = S \/ arg'[p] = arg[p]
  BY <1>1, Table, Typed
<1>4. "loop" \in SPlaces
  BY DEF SPlaces
<1> QED
  BY <1>1, <1>2, <1>3, <1>4, Table, Typed, MoveInv

LEMMA VictimInv == ASSUME SchedInv, Victim PROVE SchedInv'
<1>1. cpu = S /\ ~dozing /\ UNCHANGED <<outage, runin, xq, xw>>
  BY DEF Victim, At, others
<1>2. ASSUME NEW q \in CanGo, load' = [load EXCEPT ![q] = FALSE], SwapOut(S, q)
      PROVE  SchedInv'
  <2>1. q \in User
    BY DEF CanGo
  <2>2. /\ lock' = [lock EXCEPT ![q] = TRUE] /\ arg' = [arg EXCEPT ![S] = q]
        /\ Sleeps(S, "io", FALSE, "out data") /\ UNCHANGED <<seg, sig, parent, runout>>
    BY <1>2 DEF SwapOut, signals
  <2>3. load' \in [All -> BOOLEAN] /\ lock' \in [All -> BOOLEAN] /\ arg' \in [All -> User \cup {None}]
    BY <1>2, <2>1, <2>2, Table, Typed
  <2>4. arg'[S] = q /\ \A p \in All : p = S \/ arg'[p] = arg[p]
    BY <2>1, <2>2, Table, Typed
  <2>5. "out data" \in SPlaces
    BY DEF SPlaces
  <2> QED
    BY <1>1, <2>1, <2>2, <2>3, <2>4, <2>5, Table, Typed, SystemSleepInv
<1>3. CASE pc' = [pc EXCEPT ![S] = "pause"] /\ UNCHANGED <<queues, cpu, dozing, arg, memory, signals, bad>>
  <2>1. UNCHANGED <<stat, chan, bad, runq, time, cpu, dozing, arg, load, lock, seg, sig, parent, runout>>
    BY <1>3 DEF queues, memory, signals
  <2>2. time' \in [All -> 0 .. MaxTime]
    BY <2>1 DEF SchedInv, TypeOK
  <2>3. "pause" \in SPlaces
    BY DEF SPlaces
  <2> QED
    BY <1>1, <1>3, <2>1, <2>2, <2>3, Table, Typed, MoveInv
<1> QED
  BY <1>2, <1>3 DEF Victim

------------------------------------------------------------------------------
(* The steps by which processes come and go. *)
LEMMA Parts ==
  SchedInv => /\ TypeOK /\ Places /\ Running /\ Queues /\ Sleeping /\ Forking /\ Growing /\ Targets
              /\ Family /\ SwapperHears /\ NoSignalSlept /\ WaitSeesZombies
BY DEF SchedInv

(* A step that changes no more than who is on the run queue and on the     *)
(* processor keeps the rest.                                               *)
LEMMA SwitchInv ==
  ASSUME SchedInv, Queues', Running', runq' \subseteq All, cpu' \in All \cup {Idle},
         UNCHANGED <<stat, chan, time, runout, pc, arg, load, lock, seg, sig, parent, runin, xq, xw, bad>>
  PROVE  SchedInv'
<1>1. TypeOK'
  BY Parts DEF TypeOK
<1>2. Places' /\ Sleeping'
  BY Parts DEF Places, Sleeping
<1>5. Forking'
  BY Parts DEF Forking, Copies
<1>6. Growing'
  BY Parts DEF Growing
<1>3. Targets' /\ Family'
  BY Parts DEF Targets, Family
<1>4. SwapperHears' /\ NoSignalSlept' /\ WaitSeesZombies'
  BY Parts DEF SwapperHears, NoSignalSlept, WaitSeesZombies, Sleepers, Wanting, Children, Zombies
<1> QED
  BY <1>1, <1>2, <1>3, <1>4, <1>5, <1>6 DEF SchedInv

LEMMA PreemptInv == ASSUME SchedInv, NEW p \in User, Preempt(p) PROVE SchedInv'
<1>1. /\ cpu = p /\ ~dozing /\ pc[p] = "user" /\ runq' = runq \cup {p} /\ cpu' = Idle
      /\ UNCHANGED <<stat, chan, time, runout, dozing, pc, arg, load, lock, seg, sig, parent, runin,
                     xq, xw, bad>>
  BY DEF Preempt, At, memory, signals, others
<1>2. stat[p] = "run"
  BY <1>1, Parts, Table DEF Running
<1>3. \A q \in All : q \in runq' <=> stat'[q] = "run" /\ pc'[q] # "forking" /\ (cpu' = q => dozing')
  BY <1>1, <1>2, Parts, Table DEF Queues
<1>4. Queues' /\ Running'
  BY <1>1, <1>3, Parts DEF Queues, Running
<1>5. runq' \subseteq All /\ cpu' \in All \cup {Idle}
  BY <1>1, Parts, Table DEF TypeOK
<1> QED
  BY <1>1, <1>4, <1>5, SwitchInv

LEMMA DispatchInv == ASSUME SchedInv, NEW p \in All, Dispatch(p) PROVE SchedInv'
<1>1. /\ cpu = Idle /\ p \in runq /\ runq' = runq \ {p} /\ cpu' = p
      /\ UNCHANGED <<stat, chan, time, runout, dozing, pc, arg, load, lock, seg, sig, parent, runin,
                     xq, xw, bad>>
  BY DEF Dispatch, memory, signals, others
<1>2. ~dozing /\ stat[p] = "run" /\ pc[p] # "forking"
  BY <1>1, Parts DEF Running, Queues
<1>3. \A q \in All : q \in runq' <=> stat'[q] = "run" /\ pc'[q] # "forking" /\ (cpu' = q => dozing')
  BY <1>1, <1>2, Parts, Table DEF Queues
<1>4. Queues' /\ Running'
  BY <1>1, <1>2, <1>3, Parts DEF Queues, Running
<1>5. runq' \subseteq All /\ cpu' \in All \cup {Idle}
  BY <1>1, Parts, Table DEF TypeOK
<1> QED
  BY <1>1, <1>4, <1>5, SwitchInv

LEMMA ReapInv == ASSUME SchedInv, NEW p \in User, Reap(p) PROVE SchedInv'
<1>1. PICK q \in Zombies(Children(p)) :
           /\ stat' = [stat EXCEPT ![q] = "free"]
           /\ load' = [load EXCEPT ![q] = FALSE]
           /\ parent' = [parent EXCEPT ![q] = None]
           /\ sig' = [sig EXCEPT ![q] = {}]
  BY DEF Reap
<1>2. /\ cpu = p /\ ~dozing /\ pc[p] \in {"user", "wait"} /\ pc' = [pc EXCEPT ![p] = "user"]
      /\ UNCHANGED <<chan, runq, time, runout, cpu, dozing, arg, lock, seg, runin, xq, xw, bad>>
  BY DEF Reap, others
<1>3. q \in User /\ stat[q] = "zomb" /\ parent[q] = p /\ q # 1 /\ q # S /\ q # X
  BY Parts, Table DEF Children, Zombies, Queues
<1>4. stat[p] = "run" /\ p # q
  BY <1>2, <1>3, Parts, Table DEF Running
<1>s. /\ stat'[q] = "free" /\ \A r \in All : r # q => stat'[r] = stat[r]
      /\ parent'[q] = None /\ \A r \in User : r # q => parent'[r] = parent[r]
      /\ \A r \in All : r # q => load'[r] = load[r]
      /\ \A r \in User : r # q => sig'[r] = sig[r]
      /\ pc'[p] = "user" /\ DOMAIN pc' = All /\ \A r \in All : r # p => pc'[r] = pc[r]
  BY <1>1, <1>2, <1>3, Parts, Table DEF TypeOK, Places
<1>5. TypeOK'
  <2>1. stat' \in [All -> {"free", "run", "sleep", "zomb", "xbrk"}] /\ load' \in [All -> BOOLEAN]
    BY <1>1, <1>3, Parts, Table DEF TypeOK
  <2>2. parent' \in [User -> User \cup {None}] /\ sig' \in [User -> SUBSET {"cld", "other"}]
    BY <1>1, <1>3, Parts DEF TypeOK
  <2> QED
    BY <1>2, <2>1, <2>2, Parts DEF TypeOK
<1>6. Places'
  <2>1. pc[q] = "user"
    BY <1>3, Parts DEF Places
  <2> QED
    BY ZenonT(60), <1>3, <1>4, <1>s, <2>1, Parts, Table DEF Places, UPlaces
<1>7. Running'
  BY <1>2, <1>4, <1>s, Parts, Table DEF Running
<1>8. Queues'
  <2>1. \A r \in All : r \in runq' <=> stat'[r] = "run" /\ pc'[r] # "forking" /\ (cpu' = r => dozing')
    BY <1>2, <1>3, <1>4, <1>s, Parts, Table DEF Queues
  <2>2. \A r \in All : stat'[r] = "sleep" <=> chan'[r] # "none"
    BY <1>2, <1>3, <1>s, Parts, Table DEF Queues
  <2>3. stat'[S] \in {"run", "sleep"} /\ stat'[X] \in {"run", "sleep"} /\ stat'[1] \notin {"free", "zomb"}
    BY <1>3, <1>s, Parts, Table DEF Queues
  <2> QED
    BY <2>1, <2>2, <2>3 DEF Queues
<1>9. Sleeping'
  BY <1>2, <1>3, <1>4, <1>s, Parts, Table DEF Sleeping
<1>10. Forking'
  <2>1. \A r \in User : Copies(r)' => Copies(r)
    BY <1>s, Table DEF Copies
  <2>2. \A r \in User : Copies(r) => pc'[arg[r]] = "forking"
    BY <1>2, <1>s, Parts, Table DEF Forking
  <2> QED
    BY <1>2, <2>1, <2>2, Parts DEF Forking
<1>11. Growing' /\ Targets'
  <2>1. pc'[X] = pc[X] /\ pc'[S] = pc[S]
    BY <1>s, Table
  <2>2. \A r \in User : stat'[r] = "xbrk" <=> stat[r] = "xbrk"
    BY <1>3, <1>s, Table
  <2> QED
    BY ZenonT(60), <1>2, <2>1, <2>2, Parts DEF Growing, Targets
<1>12. Family'
  BY <1>3, <1>s, Parts, Table DEF Family
<1>13. SwapperHears'
  BY <1>2, <1>3, <1>s, Parts, Table DEF SwapperHears, Sleepers, Wanting
<1>14. NoSignalSlept'
  BY <1>2, <1>3, <1>s, Parts, Table DEF NoSignalSlept
<1>15. WaitSeesZombies'
  <2>1. \A r \in User : r # p => Children(r)' = Children(r) /\ Zombies(Children(r))' = Zombies(Children(r))
    BY <1>3, <1>s, Table DEF Children, Zombies
  <2>2. \A r \in User : r \in Sleepers("wait")' => r \in Sleepers("wait") /\ r # p
    BY <1>2, <1>3, <1>4, <1>s, Table DEF Sleepers
  <2> QED
    BY <2>1, <2>2, Parts DEF WaitSeesZombies
<1> QED
  BY <1>5, <1>6, <1>7, <1>8, <1>9, <1>10, <1>11, <1>12, <1>13, <1>14, <1>15 DEF SchedInv

(* A new process: what newproc() sets in its slot, whether the image is    *)
(* made in memory or on swap.  fresh are the processes whose place or      *)
(* state changes.                                                          *)
LEMMA SlotOf ==
  ASSUME SchedInv, NEW p \in User, NEW r \in User, NewSlot(p, r)
  PROVE  /\ cpu = p /\ ~dozing /\ pc[p] = "user" /\ stat[p] = "run"
         /\ stat[r] = "free" /\ p # r /\ r # 1 /\ pc[r] = "user" /\ chan[r] = "none" /\ r \notin runq
         /\ parent' = [parent EXCEPT ![r] = p] /\ load' = [load EXCEPT ![r] = TRUE]
         /\ time' = [time EXCEPT ![r] = 0] /\ sig' = sig
<1>1. /\ cpu = p /\ ~dozing /\ pc[p] = "user" /\ stat[r] = "free"
      /\ parent' = [parent EXCEPT ![r] = p] /\ load' = [load EXCEPT ![r] = TRUE]
      /\ time' = [time EXCEPT ![r] = 0] /\ sig' = sig
  BY DEF NewSlot, At, IsFirst
<1>2. stat[p] = "run" /\ p # r
  BY <1>1, Parts, Table DEF Running
<1>3. r # 1 /\ chan[r] = "none" /\ r \notin runq /\ pc[r] = "user"
  BY <1>1, Parts, Table DEF Queues, Places
<1> QED
  BY <1>1, <1>2, <1>3

LEMMA SlotTypes ==
  ASSUME SchedInv, NEW p \in User, NEW r \in User, NewSlot(p, r)
  PROVE  /\ parent' \in [User -> User \cup {None}] /\ load' \in [All -> BOOLEAN]
         /\ time' \in [All -> 0 .. MaxTime] /\ sig' \in [User -> SUBSET {"cld", "other"}]
<1>1. 0 \in 0 .. MaxTime
  BY SchedAssumption
<1>2. /\ parent' = [parent EXCEPT ![r] = p] /\ load' = [load EXCEPT ![r] = TRUE]
      /\ time' = [time EXCEPT ![r] = 0] /\ sig' = sig
  BY SlotOf
<1>3. parent' \in [User -> User \cup {None}] /\ sig' \in [User -> SUBSET {"cld", "other"}]
  BY <1>2, Parts DEF TypeOK
<1>4. load' \in [All -> BOOLEAN] /\ time' \in [All -> 0 .. MaxTime]
  BY <1>1, <1>2, Parts, Table DEF TypeOK
<1> QED
  BY <1>3, <1>4

LEMMA ForkInCoreInv ==
  ASSUME SchedInv, NEW p \in User, NEW r \in User, ForkInCore(p, r) PROVE SchedInv'
<1>1. /\ NewSlot(p, r) /\ seg' = [seg EXCEPT ![r] = Both] /\ stat' = [stat EXCEPT ![r] = "run"]
      /\ runq' = runq \cup {r}
      /\ UNCHANGED <<chan, runout, cpu, dozing, pc, arg, lock, runin, xq, xw, bad>>
  BY DEF ForkInCore, control, others
<1>2. /\ cpu = p /\ ~dozing /\ pc[p] = "user" /\ stat[p] = "run"
      /\ stat[r] = "free" /\ p # r /\ r # 1 /\ pc[r] = "user" /\ chan[r] = "none" /\ r \notin runq
      /\ sig' = sig
  BY <1>1, SlotOf
<1>s. /\ stat'[r] = "run" /\ \A q \in All : q # r => stat'[q] = stat[q]
      /\ parent'[r] = p /\ \A q \in User : q # r => parent'[q] = parent[q]
      /\ load'[r] = TRUE /\ \A q \in All : q # r => load'[q] = load[q]
      /\ r # S /\ r # X /\ r \in All
  BY <1>1, SlotOf, Parts, Table DEF TypeOK
<1>3. TypeOK'
  <2>1. stat' \in [All -> {"free", "run", "sleep", "zomb", "xbrk"}] /\ seg' \in [User -> SUBSET Both]
        /\ runq' \subseteq All
    BY <1>1, Parts, Table DEF TypeOK
  <2> QED
    BY <1>1, <2>1, SlotTypes, Parts DEF TypeOK
<1>4. Places'
  BY <1>1, <1>2, <1>s, Parts, Table DEF Places
<1>5. Running'
  BY <1>1, <1>2, <1>s, Parts, Table DEF Running
<1>6. Queues'
  <2>1. \A q \in All : q \in runq' <=> stat'[q] = "run" /\ pc'[q] # "forking" /\ (cpu' = q => dozing')
    BY <1>1, <1>2, <1>s, Parts, Table DEF Queues
  <2>2. \A q \in All : stat'[q] = "sleep" <=> chan'[q] # "none"
    BY <1>1, <1>2, <1>s, Parts, Table DEF Queues
  <2>3. stat'[S] \in {"run", "sleep"} /\ stat'[X] \in {"run", "sleep"} /\ stat'[1] \notin {"free", "zomb"}
    BY <1>2, <1>s, Parts, Table DEF Queues
  <2> QED
    BY <2>1, <2>2, <2>3 DEF Queues
<1>7. Sleeping'
  BY <1>1, <1>s, Parts DEF Sleeping
<1>8. Forking' /\ Targets'
  BY <1>1, Parts DEF Forking, Targets, Copies
<1>9. Growing'
  <2>1. \A q \in User : stat'[q] = "xbrk" <=> stat[q] = "xbrk"
    BY <1>2, <1>s, Table
  <2> QED
    BY <1>1, <2>1, Parts DEF Growing
<1>10. Family'
  BY <1>2, <1>s, Parts, Table DEF Family
<1>11. SwapperHears'
  BY <1>1, <1>s, Parts, Table DEF SwapperHears, Sleepers, Wanting
<1>12. NoSignalSlept'
  BY <1>1, <1>2, <1>s, Parts, Table DEF NoSignalSlept
<1>13. WaitSeesZombies'
  <2>1. \A q \in User : q # p => Children(q)' = Children(q) /\ Zombies(Children(q))' = Zombies(Children(q))
    BY <1>2, <1>s, Table DEF Children, Zombies
  <2>2. \A q \in User : q \in Sleepers("wait")' => q \in Sleepers("wait") /\ q # p
    BY <1>1, <1>2, <1>s, Table DEF Sleepers
  <2> QED
    BY <2>1, <2>2, Parts DEF WaitSeesZombies
<1> QED
  BY <1>3, <1>4, <1>5, <1>6, <1>7, <1>8, <1>9, <1>10, <1>11, <1>12, <1>13 DEF SchedInv

LEMMA ForkToSwapInv ==
  ASSUME SchedInv, NEW p \in User, NEW r \in User, ForkToSwap(p, r) PROVE SchedInv'
<1>1. /\ NewSlot(p, r) /\ stat' = [stat EXCEPT ![r] = "sleep"] /\ chan' = [chan EXCEPT ![r] = "io"]
      /\ bad' = [bad EXCEPT ![r] = FALSE] /\ lock' = [lock EXCEPT ![r] = TRUE]
      /\ cpu' = r /\ dozing' = TRUE /\ pc' = [pc EXCEPT ![p] = "forking", ![r] = "copy data"]
      /\ arg' = [arg EXCEPT ![r] = p]
      /\ UNCHANGED <<runq, runout, seg, runin, xq, xw>>
  BY DEF ForkToSwap, others
<1>2. /\ cpu = p /\ ~dozing /\ pc[p] = "user" /\ stat[p] = "run"
      /\ stat[r] = "free" /\ p # r /\ r # 1 /\ pc[r] = "user" /\ chan[r] = "none" /\ r \notin runq
      /\ sig' = sig
  BY <1>1, SlotOf
<1>s. /\ stat'[r] = "sleep" /\ \A q \in All : q # r => stat'[q] = stat[q]
      /\ chan'[r] = "io" /\ \A q \in All : q # r => chan'[q] = chan[q]
      /\ bad'[r] = FALSE /\ \A q \in All : q # r => bad'[q] = bad[q]
      /\ r # S /\ r # X /\ r \in All
  BY <1>1, Parts, Table DEF TypeOK
<1>f. /\ parent'[r] = p /\ \A q \in User : q # r => parent'[q] = parent[q]
      /\ \A q \in All : q # r => load'[q] = load[q]
  <2>1. parent' = [parent EXCEPT ![r] = p] /\ load' = [load EXCEPT ![r] = TRUE]
    BY <1>1, SlotOf
  <2> QED
    BY <2>1, Parts, Table DEF TypeOK
<1>a. arg'[r] = p /\ \A q \in All : q # r => arg'[q] = arg[q]
  BY <1>1, Parts, Table DEF TypeOK
<1>p. /\ pc'[p] = "forking" /\ pc'[r] = "copy data" /\ DOMAIN pc' = All
      /\ \A q \in All : q # p /\ q # r => pc'[q] = pc[q]
  BY <1>1, <1>2, Parts, Table DEF Places
<1>3. TypeOK'
  <2>1. stat' \in [All -> {"free", "run", "sleep", "zomb", "xbrk"}] /\ chan' \in [All -> Chans]
    BY <1>1, Parts, Table DEF TypeOK, Chans
  <2>2. bad' \in [All -> BOOLEAN] /\ lock' \in [All -> BOOLEAN] /\ arg' \in [All -> User \cup {None}]
        /\ cpu' \in All
    BY <1>1, Parts, Table DEF TypeOK
  <2> QED
    BY <1>1, <2>1, <2>2, SlotTypes, Parts DEF TypeOK
<1>4. Places'
  <2>1. pc'[S] \in SPlaces /\ pc'[X] \in XPlaces
    BY <1>p, <1>s, Parts, Table DEF Places
  <2>2. \A q \in User : pc'[q] \in UPlaces
    BY <1>p, Parts, Table DEF Places, UPlaces
  <2>3. \A q \in User : stat'[q] \in {"free", "zomb", "xbrk"} => pc'[q] = "user"
    BY ZenonT(60), <1>p, <1>s, <1>2, Parts, Table DEF Places
  <2>4. \A q \in User : pc'[q] = "forking" => stat'[q] = "run"
    BY ZenonT(60), <1>p, <1>s, <1>2, Parts, Table DEF Places
  <2> QED
    BY <1>p, <2>1, <2>2, <2>3, <2>4 DEF Places
<1>5. Running'
  BY <1>1, <1>p, <1>s, Parts, Table DEF Running
<1>6. Queues'
  <2>1. \A q \in All : q \in runq' <=> stat'[q] = "run" /\ pc'[q] # "forking" /\ (cpu' = q => dozing')
    <3>1. p \notin runq
      BY <1>2, Parts, Table DEF Queues
    <3>2. \A q \in All : q \in runq <=> stat[q] = "run" /\ pc[q] # "forking" /\ (cpu = q => dozing)
      BY Parts DEF Queues
    <3>3. ASSUME NEW q \in All
          PROVE  q \in runq <=> stat'[q] = "run" /\ pc'[q] # "forking" /\ (r = q => TRUE)
      <4>1. CASE q = p \/ q = r
        BY <1>2, <1>p, <1>s, <3>1, <4>1
      <4>2. CASE q # p /\ q # r
        BY <1>2, <1>p, <1>s, <3>2, <4>2
      <4> QED
        BY <4>1, <4>2
    <3> QED
      BY <1>1, <3>3
  <2>2. \A q \in All : stat'[q] = "sleep" <=> chan'[q] # "none"
    BY <1>2, <1>s, Parts, Table DEF Queues
  <2>3. stat'[S] \in {"run", "sleep"} /\ stat'[X] \in {"run", "sleep"} /\ stat'[1] \notin {"free", "zomb"}
    BY <1>2, <1>s, Parts, Table DEF Queues
  <2> QED
    BY <2>1, <2>2, <2>3 DEF Queues
<1>7. Sleeping'
  <2>1. Fits(r, "io", FALSE, "copy data")
    BY SchedAssumption DEF Fits
  <2> QED
    BY <1>2, <1>p, <1>s, <2>1, Parts, Table DEF Sleeping
<1>8. Forking'
  <2>1. \A q \in User : Copies(q)' <=> q = r \/ Copies(q)
    BY <1>2, <1>p, Table DEF Copies
  <2>2. \A q \in User : Copies(q) => q # r /\ arg'[q] = arg[q] /\ arg[q] # p /\ arg[q] # r
                                     /\ pc'[arg[q]] = "forking"
    <3>1. \A q \in User : Copies(q) => arg[q] \in User /\ pc[arg[q]] = "forking" /\ q # r
      BY <1>2, Parts DEF Forking, Copies
    <3>2. ASSUME NEW q \in User, Copies(q)
          PROVE  q # r /\ arg'[q] = arg[q] /\ arg[q] # p /\ arg[q] # r /\ pc'[arg[q]] = "forking"
      <4>1. arg[q] # p /\ arg[q] # r /\ arg[q] \in All /\ q \in All /\ q # r
        BY <1>2, <3>1, <3>2, Table
      <4> QED
        BY <1>a, <1>p, <3>1, <3>2, <4>1
    <3> QED
      BY <3>2
  <2>3. \A q \in User : Copies(q)' => arg'[q] \in User /\ arg'[q] # q /\ pc'[arg'[q]] = "forking"
    <3>1. arg'[r] \in User /\ arg'[r] # r /\ pc'[arg'[r]] = "forking"
      BY <1>2, <1>a, <1>p
    <3>2. \A q \in User : Copies(q) => arg[q] \in User /\ arg[q] # q
      BY Parts DEF Forking
    <3> QED
      BY <2>1, <2>2, <3>1, <3>2
  <2>4. \A q, k \in User : Copies(q)' /\ Copies(k)' /\ arg'[q] = arg'[k] => q = k
    BY <1>2, <1>a, <2>1, <2>2, Parts DEF Forking
  <2> QED
    BY <2>3, <2>4 DEF Forking
<1>9. Growing' /\ Targets'
  <2>1. \A q \in User : stat'[q] = "xbrk" <=> stat[q] = "xbrk"
    BY <1>2, <1>s, Table
  <2>2. pc'[X] = pc[X] /\ pc'[S] = pc[S] /\ arg'[X] = arg[X] /\ arg'[S] = arg[S]
    BY <1>a, <1>p, <1>s, Table
  <2> QED
    BY <1>1, <2>1, <2>2, Parts DEF Growing, Targets
<1>10. Family'
  BY <1>2, <1>f, <1>s, Parts, Table DEF Family
<1>11. SwapperHears'
  <2>1. Wanting' = Wanting
    BY <1>2, <1>f, <1>s, Table DEF Wanting
  <2> QED
    BY <1>1, <1>s, <2>1, Parts, Table DEF SwapperHears, Sleepers
<1>12. NoSignalSlept'
  BY <1>2, <1>s, Parts, Table DEF NoSignalSlept
<1>13. WaitSeesZombies'
  <2>1. \A q \in User : q # p => Children(q)' = Children(q) /\ Zombies(Children(q))' = Zombies(Children(q))
    BY <1>2, <1>f, <1>s, Table DEF Children, Zombies
  <2>2. \A q \in User : q \in Sleepers("wait")' => q \in Sleepers("wait") /\ q # p
    BY <1>2, <1>s, Table DEF Sleepers
  <2> QED
    BY <2>1, <2>2, Parts DEF WaitSeesZombies
<1> QED
  BY <1>3, <1>4, <1>5, <1>6, <1>7, <1>8, <1>9, <1>10, <1>11, <1>12, <1>13 DEF SchedInv

(* The one on the processor gives it up for good, or until it is swapped   *)
(* in again larger, and some that slept become runnable.                   *)
LEMMA LeaveInv ==
  ASSUME SchedInv, NEW p \in User, At(p, "user"), NEW s \in {"xbrk", "zomb"}, NEW R \in SUBSET All,
         Woken(R, [stat EXCEPT ![p] = s]), \A q \in R : stat[q] = "sleep",
         time' \in [All -> 0 .. MaxTime],
         runin' = (runin /\ S \notin R), runout' = (runout /\ S \notin R),
         runout' => \A q \in R : load[q],
         cpu' = Idle, UNCHANGED <<dozing, pc, arg, load, lock, bad>>,
         seg' \in [User -> SUBSET Both], xw' \in BOOLEAN, xq' \in Seq(User), Growing',
         parent' \in [User -> User \cup {None}], s = "zomb" => p # 1, Family', WaitSeesZombies',
         sig' \in [User -> SUBSET {"cld", "other"}],
         \A q \in User : stat[q] = "sleep" /\ bad[q] /\ q \notin R => sig'[q] = sig[q]
  PROVE  SchedInv'
<1>a. cpu = p /\ ~dozing /\ pc[p] = "user" /\ stat[p] = "run" /\ p \notin R /\ p \notin runq
  BY Parts, Table DEF At, Running, Queues
<1>s. /\ stat' = [q \in All |-> IF q \in R THEN "run" ELSE [stat EXCEPT ![p] = s][q]]
      /\ chan' = [q \in All |-> IF q \in R THEN "none" ELSE chan[q]]
      /\ runq' = runq \cup R
  BY DEF Woken
<1>p. /\ stat'[p] = s /\ chan'[p] = chan[p]
      /\ \A q \in All : /\ q \in R => stat'[q] = "run" /\ chan'[q] = "none"
                        /\ q \notin R /\ q # p => stat'[q] = stat[q] /\ chan'[q] = chan[q]
  BY <1>a, <1>s, Parts, Table DEF TypeOK
<1>2. TypeOK'
  <2>1. stat' \in [All -> {"free", "run", "sleep", "zomb", "xbrk"}]
    BY <1>s, Parts, Table DEF TypeOK
  <2>2. chan' \in [All -> Chans]
    BY <1>s, Parts DEF TypeOK, Chans
  <2>3. runq' \subseteq All /\ cpu' \in All \cup {Idle}
    BY <1>s, Parts DEF TypeOK
  <2> QED
    BY <2>1, <2>2, <2>3, Parts DEF TypeOK
<1>3. Places'
  <2>1. \A q \in User : stat'[q] \in {"free", "zomb", "xbrk"} => pc'[q] = "user"
    BY <1>a, <1>p, Parts, Table DEF Places
  <2>2. \A q \in User : pc'[q] = "forking" => stat'[q] = "run"
    BY <1>a, <1>p, Parts, Table DEF Places
  <2> QED
    BY <2>1, <2>2, Parts DEF Places
<1>4. Running'
  BY <1>a, Parts DEF Running
<1>5. Queues'
  <2>1. ASSUME NEW q \in All
        PROVE  q \in runq' <=> stat'[q] = "run" /\ pc'[q] # "forking" /\ (cpu' = q => dozing')
    <3>1. q \in runq <=> stat[q] = "run" /\ pc[q] # "forking" /\ (cpu = q => dozing)
      BY Parts DEF Queues
    <3>2. q # Idle
      BY Table
    <3>3. q \in R => pc[q] # "forking"
      BY Parts, Table DEF Places, SPlaces, XPlaces
    <3> QED
      BY <1>a, <1>p, <1>s, <3>1, <3>2, <3>3
  <2>2. ASSUME NEW q \in All
        PROVE  stat'[q] = "sleep" <=> chan'[q] # "none"
    <3>1. stat[q] = "sleep" <=> chan[q] # "none"
      BY Parts DEF Queues
    <3>2. CASE q = p
      BY <1>a, <1>p, <3>1, <3>2
    <3>3. CASE q # p
      BY <1>p, <3>1, <3>3
    <3> QED
      BY <3>2, <3>3
  <2>3. stat'[S] \in {"run", "sleep"} /\ stat'[X] \in {"run", "sleep"} /\ stat'[1] \notin {"free", "zomb"}
    BY <1>p, Parts, Table DEF Queues
  <2> QED
    BY <2>1, <2>2, <2>3 DEF Queues
<1>6. Sleeping'
  BY <1>p, Parts, Table DEF Sleeping
<1>7. Forking' /\ Targets'
  BY Parts DEF Forking, Targets, Copies
<1>8. SwapperHears'
  <2>1. S \in Sleepers("runout")' <=> runout'
    BY <1>p, Parts, Table DEF SwapperHears, Sleepers
  <2>2. S \in Sleepers("runin")' <=> runin'
    BY <1>p, Parts, Table DEF SwapperHears, Sleepers
  <2>3. runout' => Wanting' = {}
    BY ZenonT(60), <1>p, Parts, Table DEF SwapperHears, Wanting
  <2> QED
    BY <2>1, <2>2, <2>3 DEF SwapperHears
<1>9. NoSignalSlept'
  BY ZenonT(60), <1>p, Parts, Table DEF NoSignalSlept
<1> QED
  BY <1>2, <1>3, <1>4, <1>5, <1>6, <1>7, <1>8, <1>9 DEF SchedInv

(* What LeaveInv asks of the swapper's flags follows from RouseWakes. *)
LEMMA FlagsFollow ==
  ASSUME SchedInv, NEW W \in SUBSET All, NEW R, S \notin W,
         R \subseteq W \cup {S}, W \subseteq R,
         runout' = (runout /\ \A p \in W : load[p]),
         S \in R \ W => runout /\ ~runout' /\ stat[S] = "sleep",
         runout /\ ~runout' => S \in R,
         UNCHANGED runin
  PROVE  /\ runin' = (runin /\ S \notin R) /\ runout' = (runout /\ S \notin R)
         /\ runout' => \A q \in R : load[q]
<1>1. (runout => chan[S] = "runout") /\ (runin => chan[S] = "runin")
  BY DEF SchedInv, SwapperHears, Sleepers
<1>2. runout' = (runout /\ S \notin R)
  BY Parts DEF Running
<1>3. runin' = (runin /\ S \notin R)
  BY <1>1, Parts DEF Running
<1>4. runout' => \A q \in R : load[q]
  BY <1>2
<1> QED
  BY <1>2, <1>3, <1>4

(* One more in the list of xsched. *)
LEMMA AppendGrowing ==
  ASSUME SchedInv, NEW p \in User, stat[p] = "run", xq' = Append(xq, p), UNCHANGED <<pc, arg>>,
         stat'[p] = "xbrk", \A q \in User : q # p => (stat'[q] = "xbrk" <=> stat[q] = "xbrk")
  PROVE  Growing' /\ xq' \in Seq(User)
<1>1. xq \in Seq(User) /\ Growing
  BY Parts DEF TypeOK
<1>2. Len(xq) \in Nat
  BY <1>1
<1>3. Len(xq') = Len(xq) + 1 /\ xq'[Len(xq) + 1] = p /\ \A i \in 1 .. Len(xq) : xq'[i] = xq[i]
  BY <1>1
<1>4. xq' \in Seq(User)
  BY <1>1
<1>5. \A i \in 1 .. Len(xq) : xq[i] # p /\ xq[i] \in User
  BY <1>1 DEF Growing
<1>6. \A i \in 1 .. Len(xq') : i \in 1 .. Len(xq) \/ i = Len(xq) + 1
  BY <1>2, <1>3
<1>7. \A i \in 1 .. Len(xq) : i \in 1 .. Len(xq')
  BY <1>2, <1>3
<1>8. Len(xq) + 1 \in 1 .. Len(xq')
  BY <1>2, <1>3
<1>9. \A q \in User : stat'[q] = "xbrk" <=> \E i \in 1 .. Len(xq') : xq'[i] = q
  BY <1>1, <1>3, <1>5, <1>6, <1>7, <1>8 DEF Growing
<1>10. \A i, j \in 1 .. Len(xq') : xq'[i] = xq'[j] => i = j
  BY <1>1, <1>3, <1>5, <1>6 DEF Growing
<1>11. pc'[X] # "loop" => xq' # <<>> /\ arg'[X] = xq'[1]
  <2>1. xq # <<>> => 1 \in 1 .. Len(xq)
    BY <1>1, <1>2
  <2>2. xq' # <<>>
    BY <1>2, <1>3
  <2> QED
    BY <1>1, <1>3, <2>1, <2>2 DEF Growing
<1> QED
  BY <1>4, <1>9, <1>10, <1>11 DEF Growing

LEMMA GrowInv == ASSUME SchedInv, NEW p \in User, Grow(p) PROVE SchedInv'
<1> DEFINE W == IF xw THEN Sleepers("xw") ELSE {}
           st == [stat EXCEPT ![p] = "xbrk"]
<1>1. /\ At(p, "user") /\ xq' = Append(xq, p) /\ xw' = FALSE /\ Rouse(W, st, time) /\ cpu' = Idle
      /\ UNCHANGED <<dozing, pc, arg, load, lock, seg, sig, parent, bad, runin>>
  BY DEF Grow, memory, signals
<1>2. stat[p] = "run" /\ pc[p] = "user"
  BY <1>1, Parts, Table DEF At, Running
<1>3. W \in SUBSET All /\ (\A q \in W : q = X /\ stat[q] = "sleep")
  BY Parts DEF Sleepers, Sleeping, Fits
<1>4. st[S] = stat[S]
  BY Parts, Table DEF TypeOK
<1> HIDE DEF W
<1>5. PICK R \in SUBSET All :
           /\ W \subseteq R /\ R \subseteq W \cup {S} /\ Woken(R, st)
           /\ runout' = (runout /\ \A q \in W : load[q])
           /\ S \in R \ W => runout /\ ~runout' /\ stat[S] = "sleep"
           /\ runout /\ ~runout' => S \in R
           /\ time' \in [All -> 0 .. MaxTime]
  <2> HIDE DEF st
  <2> QED
    BY <1>1, <1>3, <1>4, RouseWakes, Times
<1>6. \A q \in R : stat[q] = "sleep" /\ q \notin User
  BY <1>3, <1>5, Table
<1>7. /\ runin' = (runin /\ S \notin R) /\ runout' = (runout /\ S \notin R)
      /\ runout' => \A q \in R : load[q]
  <2>1. S \notin W
    BY <1>3, Table
  <2> QED
    BY <1>1, <1>3, <1>5, <2>1, FlagsFollow
<1>8. /\ stat'[p] = "xbrk" /\ \A q \in User : q # p => stat'[q] = stat[q]
  BY <1>2, <1>5, <1>6, Parts, Table DEF Woken, TypeOK
<1>9. Growing' /\ xq' \in Seq(User)
  BY <1>1, <1>2, <1>8, AppendGrowing
<1>10. Family'
  BY <1>1, <1>2, <1>8, Parts, Table DEF Family
<1>11. WaitSeesZombies'
  <2>1. \A q \in User : Children(q)' = Children(q) /\ Zombies(Children(q))' = Zombies(Children(q))
    BY <1>1, <1>2, <1>8, Table DEF Children, Zombies
  <2>2. \A q \in User : q \in Sleepers("wait")' => q \in Sleepers("wait")
    BY <1>2, <1>5, <1>6, <1>8, Table DEF Sleepers, Woken
  <2> QED
    BY <2>1, <2>2, Parts DEF WaitSeesZombies
<1>12. seg' \in [User -> SUBSET Both] /\ parent' \in [User -> User \cup {None}]
       /\ sig' \in [User -> SUBSET {"cld", "other"}]
  BY <1>1, Parts DEF TypeOK
<1>13. \A q \in User : stat[q] = "sleep" /\ bad[q] /\ q \notin R => sig'[q] = sig[q]
  BY <1>1
<1> QED
  BY <1>1, <1>5, <1>6, <1>7, <1>9, <1>10, <1>11, <1>12, <1>13, LeaveInv

LEMMA ExitInv == ASSUME SchedInv, NEW p \in User, Exit(p) PROVE SchedInv'
<1> DEFINE told == {parent[p]} \cup IF Zombies(Children(p)) # {} THEN {1} ELSE {}
           W == Roused(told)
           st == [stat EXCEPT ![p] = "zomb"]
<1>1. /\ At(p, "user") /\ p # 1 /\ seg' = [seg EXCEPT ![p] = {}]
      /\ parent' = [q \in User |-> IF q \in Children(p) THEN 1 ELSE parent[q]]
      /\ sig' = [q \in User |-> IF q \in told THEN sig[q] \cup {"cld"} ELSE sig[q]]
      /\ Rouse(W, st, time) /\ cpu' = Idle
      /\ UNCHANGED <<dozing, pc, arg, load, lock, bad, xq, xw, runin>>
  BY DEF Exit, others
<1>2. stat[p] = "run" /\ pc[p] = "user"
  BY <1>1, Parts, Table DEF At, Running
<1>3. parent[p] \in User /\ parent[p] # p
  BY <1>1, <1>2, Parts DEF Family
<1>4. told \in SUBSET User
  BY <1>3, Table
<1>5. st[S] = stat[S]
  BY Parts, Table DEF TypeOK
<1>w. /\ parent[p] \in told
      /\ Zombies(Children(p)) # {} => 1 \in told
  OBVIOUS
<1> HIDE DEF told
<1>6. W \in SUBSET All /\ S \notin W /\ (\A q \in W : stat[q] = "sleep" /\ q \in told)
  BY <1>4, Table DEF Roused
<1>7. PICK R \in SUBSET All :
           /\ W \subseteq R /\ R \subseteq W \cup {S} /\ Woken(R, st)
           /\ runout' = (runout /\ \A q \in W : load[q])
           /\ S \in R \ W => runout /\ ~runout' /\ stat[S] = "sleep"
           /\ runout /\ ~runout' => S \in R
           /\ time' \in [All -> 0 .. MaxTime]
  <2> HIDE DEF st, W
  <2> QED
    BY <1>1, <1>5, <1>6, RouseWakes, Times
<1>8. \A q \in R : stat[q] = "sleep"
  BY <1>6, <1>7
<1>9. /\ runin' = (runin /\ S \notin R) /\ runout' = (runout /\ S \notin R)
      /\ runout' => \A q \in R : load[q]
  <2> HIDE DEF W
  <2> QED
    BY <1>1, <1>6, <1>7, FlagsFollow
<1>10. /\ stat'[p] = "zomb"
       /\ \A q \in User : q # p => stat'[q] = IF q \in R THEN "run" ELSE stat[q]
  BY <1>2, <1>7, <1>8, Parts, Table DEF Woken, TypeOK
<1>11. /\ \A q \in User : stat'[q] = "free" <=> stat[q] = "free"
       /\ \A q \in User : stat'[q] = "zomb" <=> q = p \/ stat[q] = "zomb"
       /\ \A q \in User : stat'[q] = "xbrk" <=> stat[q] = "xbrk"
  BY <1>2, <1>8, <1>10
<1>12. Growing' /\ xq' \in Seq(User)
  BY <1>1, <1>11, Parts DEF Growing, TypeOK
<1>13. \A q \in User : parent'[q] = IF q \in Children(p) THEN 1 ELSE parent[q]
  BY <1>1
<1>14. Family'
  <2>1. 1 \notin Children(p)
    BY Parts, Table DEF Children, Family
  <2> QED
    BY <1>11, <1>13, <2>1, Parts, Table DEF Family
<1>15. WaitSeesZombies'
  <2> SUFFICES ASSUME NEW w \in User, w \in Sleepers("wait")'
               PROVE  Children(w)' # {} /\ Zombies(Children(w))' = {}
    BY DEF WaitSeesZombies
  <2>1. w \in Sleepers("wait") /\ w \notin R /\ w # p
    BY <1>2, <1>7, <1>10, Table DEF Sleepers, Woken
  <2>2. bad[w] /\ stat[w] = "sleep"
    BY <2>1, Parts, Table DEF Sleepers, Sleeping, Fits
  <2>3. w \notin told
    BY <1>7, <2>1, <2>2 DEF Roused
  <2>4. w # parent[p] /\ (w = 1 => Zombies(Children(p)) = {})
    BY <1>w, <2>3
  <2>5. Children(w) # {} /\ Zombies(Children(w)) = {}
    BY <2>1, Parts DEF WaitSeesZombies
  <2>6. Children(w) \subseteq Children(w)'
    BY <1>11, <1>13, <2>1 DEF Children
  <2>7. \A k \in Children(w)' : k \in Children(w) \/ (w = 1 /\ k \in Children(p))
    BY <1>11, <1>13 DEF Children
  <2>8. p \notin Children(w) /\ p \notin Children(p)
    BY <1>3, <2>4 DEF Children
  <2>9. \A k \in Children(w)' : stat'[k] # "zomb"
    <3> SUFFICES ASSUME NEW k \in Children(w)' PROVE stat'[k] # "zomb"
      OBVIOUS
    <3>1. k \in User /\ k # p
      BY <2>7, <2>8 DEF Children
    <3>2. stat[k] # "zomb"
      BY <2>4, <2>5, <2>7 DEF Zombies
    <3> QED
      BY <1>11, <3>1, <3>2
  <2> QED
    BY <2>5, <2>6, <2>9 DEF Zombies
<1>16. seg' \in [User -> SUBSET Both] /\ parent' \in [User -> User \cup {None}] /\ xw' \in BOOLEAN
  BY <1>1, Parts, Table DEF TypeOK, Running
<1>17. sig' \in [User -> SUBSET {"cld", "other"}]
  BY <1>1, Parts DEF TypeOK
<1>18. \A q \in User : stat[q] = "sleep" /\ bad[q] /\ q \notin R => sig'[q] = sig[q]
  BY <1>1, <1>7 DEF Roused
<1> HIDE DEF W
<1> QED
  BY <1>1, <1>7, <1>8, <1>9, <1>12, <1>14, <1>15, <1>16, <1>17, <1>18, LeaveInv

(* The end of xswap(), by t for the process q: q is out, and the swapper   *)
(* looks again.  Others whose place changes are those of the fork.         *)
LEMMA OutStackInv == ASSUME SchedInv, NEW t \in {S, X}, OutStack(t) PROVE SchedInv'
<1> DEFINE q == arg[t]
           next == IF t = X THEN "done" ELSE "loop"
<1>1. /\ cpu = t /\ ~dozing /\ pc[t] = "out stack" /\ seg' = [seg EXCEPT ![q] = {}]
      /\ load' = [load EXCEPT ![q] = FALSE] /\ lock' = [lock EXCEPT ![q] = FALSE]
      /\ RouseSwapper(runq, [time EXCEPT ![q] = 0])
      /\ pc' = [pc EXCEPT ![t] = next]
      /\ UNCHANGED <<cpu, dozing, arg, sig, parent, outage, runin, xq, xw, bad>>
  BY DEF OutStack, At, signals, others
<1>2. q \in User
  <2>1. t = X => arg[X] = xq[1] /\ xq # <<>>
    BY <1>1, Parts, Table DEF Growing
  <2>2. t = X => xq[1] \in User
    BY <2>1, Parts DEF TypeOK
  <2> QED
    BY <1>1, <2>1, <2>2, Parts DEF Targets
<1> HIDE DEF q, next
<1>3. PICK R \in SUBSET {S} :
           /\ stat' = [p \in All |-> IF p \in R THEN "run" ELSE stat[p]]
           /\ chan' = [p \in All |-> IF p \in R THEN "none" ELSE chan[p]]
           /\ runq' = runq \cup R /\ runout' = FALSE /\ time' = [time EXCEPT ![q] = 0]
           /\ runout <=> S \in R
           /\ runout => stat[S] = "sleep"
  BY <1>1, RouseSwapperWakes
<1>p. \A p \in All : /\ p \in R => stat'[p] = "run" /\ chan'[p] = "none"
                     /\ p \notin R => stat'[p] = stat[p] /\ chan'[p] = chan[p]
  BY <1>3
<1>4. stat[t] = "run" /\ t \notin R /\ t \in All /\ t # Idle
  BY <1>1, <1>3, Parts, Table DEF Running
<1>n. pc'[t] = next /\ DOMAIN pc' = All /\ \A p \in All : p # t => pc'[p] = pc[p]
  BY <1>1, <1>4, Parts DEF Places
<1>l. next \in {"loop", "done"} /\ (t = S => next = "loop")
  BY Table DEF next
<1>5. TypeOK'
  <2>1. load' \in [All -> BOOLEAN] /\ lock' \in [All -> BOOLEAN] /\ seg' \in [User -> SUBSET Both]
    BY <1>1, <1>2, Parts, Table DEF TypeOK
  <2>2. stat' \in [All -> {"free", "run", "sleep", "zomb", "xbrk"}] /\ chan' \in [All -> Chans]
    BY <1>3, Parts DEF TypeOK, Chans
  <2>3. 0 \in 0 .. MaxTime
    BY SchedAssumption
  <2>4. time' \in [All -> 0 .. MaxTime]
    BY <1>2, <1>3, <2>3, Parts, Table DEF TypeOK
  <2>5. runq' \subseteq All
    BY <1>3, Parts, Table DEF TypeOK
  <2> QED
    BY <1>1, <2>1, <2>2, <2>4, <2>5, Parts DEF TypeOK
<1>6. Places'
  <2>1. pc'[S] \in SPlaces /\ pc'[X] \in XPlaces
    BY <1>l, <1>n, Parts, Table DEF Places, SPlaces, XPlaces
  <2>2. \A p \in User : pc'[p] = pc[p] /\ stat'[p] = stat[p]
    BY <1>n, <1>p, Table
  <2> QED
    BY <1>n, <2>1, <2>2, Parts DEF Places
<1>7. Running'
  <2>1. pc'[t] # "forking" /\ stat'[t] = "run"
    BY <1>4, <1>l, <1>n, <1>p
  <2> QED
    BY <1>1, <1>3, <1>4, <2>1, Parts DEF Running
<1>8. Queues'
  <2>1. ASSUME NEW p \in All
        PROVE  p \in runq' <=> stat'[p] = "run" /\ pc'[p] # "forking" /\ (cpu' = p => dozing')
    <3>1. p \in runq <=> stat[p] = "run" /\ pc[p] # "forking" /\ (cpu = p => dozing)
      BY Parts DEF Queues
    <3>2. CASE p = t
      BY <1>1, <1>3, <1>4, <3>1, <3>2
    <3>3. CASE p # t /\ p \in R
      <4>1. p = S /\ pc[S] # "forking"
        BY <3>3, Parts DEF Places, SPlaces
      <4> QED
        BY <1>1, <1>3, <1>n, <1>p, <3>3, <4>1
    <3>4. CASE p # t /\ p \notin R
      BY <1>1, <1>3, <1>n, <1>p, <3>1, <3>4
    <3> QED
      BY <3>2, <3>3, <3>4
  <2>2. \A p \in All : stat'[p] = "sleep" <=> chan'[p] # "none"
    BY <1>p, Parts DEF Queues
  <2>3. stat'[S] \in {"run", "sleep"} /\ stat'[X] \in {"run", "sleep"} /\ stat'[1] \notin {"free", "zomb"}
    BY <1>p, Parts, Table DEF Queues
  <2> QED
    BY <2>1, <2>2, <2>3 DEF Queues
<1>9. Sleeping'
  <2>1. \A p \in All : stat'[p] = "sleep" => p # t /\ p \notin R
    BY <1>4, <1>p
  <2>2. bad' = bad /\ Sleeping
    BY <1>1, Parts
  <2> QED
    BY <1>n, <1>p, <2>1, <2>2 DEF Sleeping
<1>10. Forking'
  <2>1. \A p \in User : pc'[p] = pc[p]
    BY <1>n, Table
  <2> QED
    BY <1>1, <2>1, Parts DEF Forking, Copies
<1>11. Growing'
  <2>1. \A p \in User : stat'[p] = stat[p]
    BY <1>p, Table
  <2>2. pc'[X] # "loop" => pc[X] # "loop"
    BY <1>1, <1>n, Table
  <2> QED
    BY <1>1, <2>1, <2>2, Parts DEF Growing
<1>12. Targets'
  BY <1>1, <1>l, <1>n, Parts, Table DEF Targets
<1>13. Family' /\ WaitSeesZombies'
  <2>1. \A p \in User : stat'[p] = stat[p] /\ chan'[p] = chan[p]
    BY <1>p, Table
  <2>2. Family'
    BY <1>1, <2>1, Parts DEF Family
  <2>3. \A p \in User : Children(p)' = Children(p) /\ Zombies(Children(p))' = Zombies(Children(p))
    BY <1>1, <2>1 DEF Children, Zombies
  <2>4. \A p \in User : p \in Sleepers("wait")' => p \in Sleepers("wait")
    BY <2>1, Table DEF Sleepers
  <2> QED
    BY <2>2, <2>3, <2>4, Parts DEF WaitSeesZombies
<1>14. SwapperHears'
  <2>1. S \notin Sleepers("runout")'
    BY <1>3, <1>p, Parts, Table DEF SwapperHears, Sleepers
  <2>2. S \in Sleepers("runin")' <=> runin'
    BY <1>1, <1>3, <1>p, Parts, Table DEF SwapperHears, Sleepers
  <2> QED
    BY <1>3, <2>1, <2>2 DEF SwapperHears
<1>15. NoSignalSlept'
  BY <1>1, <1>p, Parts, Table DEF NoSignalSlept
<1> QED
  BY <1>5, <1>6, <1>7, <1>8, <1>9, <1>10, <1>11, <1>12, <1>13, <1>14, <1>15 DEF SchedInv

(* The first leaves the list of xsched. *)
LEMMA TailGrowing ==
  ASSUME SchedInv, xq # <<>>, xq' = Tail(xq), pc'[X] = "loop", stat'[xq[1]] # "xbrk",
         \A q \in User : q # xq[1] => (stat'[q] = "xbrk" <=> stat[q] = "xbrk")
  PROVE  Growing' /\ xq' \in Seq(User)
<1>1. xq \in Seq(User) /\ Growing
  BY Parts DEF TypeOK
<1>2. Len(xq) \in Nat /\ Len(xq) >= 1
  BY <1>1
<1>3. Len(xq') = Len(xq) - 1 /\ \A i \in 1 .. Len(xq) - 1 : xq'[i] = xq[i + 1]
  BY <1>1
<1>4. xq' \in Seq(User)
  BY <1>1
<1>5. \A i \in 1 .. Len(xq') : i + 1 \in 1 .. Len(xq) /\ i + 1 # 1 /\ xq'[i] = xq[i + 1]
  BY <1>2, <1>3
<1>6. \A i \in 1 .. Len(xq) : i = 1 \/ i - 1 \in 1 .. Len(xq')
  BY <1>2, <1>3
<1>7. \A i \in 1 .. Len(xq) : i = 1 \/ xq'[i - 1] = xq[i]
  BY <1>2, <1>3
<1>8. 1 \in 1 .. Len(xq) /\ xq[1] \in User
  BY <1>1, <1>2
<1>9. \A q \in User : stat'[q] = "xbrk" <=> \E i \in 1 .. Len(xq') : xq'[i] = q
  <2> SUFFICES ASSUME NEW q \in User
               PROVE  stat'[q] = "xbrk" <=> \E i \in 1 .. Len(xq') : xq'[i] = q
    OBVIOUS
  <2>1. CASE q = xq[1]
    <3>1. \A i \in 1 .. Len(xq') : xq'[i] # q
      BY <1>1, <1>5, <1>8, <2>1 DEF Growing
    <3> QED
      BY <2>1, <3>1
  <2>2. CASE q # xq[1]
    <3>1. ASSUME NEW i \in 1 .. Len(xq), xq[i] = q
          PROVE  \E j \in 1 .. Len(xq') : xq'[j] = q
      <4>1. i # 1
        BY <2>2, <3>1
      <4>2. i - 1 \in 1 .. Len(xq') /\ xq'[i - 1] = q
        BY <1>6, <1>7, <3>1, <4>1
      <4> QED
        BY <4>2
    <3>2. ASSUME NEW j \in 1 .. Len(xq'), xq'[j] = q
          PROVE  \E i \in 1 .. Len(xq) : xq[i] = q
      <4>1. j + 1 \in 1 .. Len(xq) /\ xq[j + 1] = q
        BY <1>5, <3>2
      <4> QED
        BY <4>1
    <3> QED
      BY <1>1, <2>2, <3>1, <3>2 DEF Growing
  <2> QED
    BY <2>1, <2>2
<1>10. \A i, j \in 1 .. Len(xq') : xq'[i] = xq'[j] => i = j
  <2> SUFFICES ASSUME NEW i \in 1 .. Len(xq'), NEW j \in 1 .. Len(xq'), xq'[i] = xq'[j] PROVE i = j
    OBVIOUS
  <2>1. i + 1 = j + 1
    BY <1>1, <1>5 DEF Growing
  <2> QED
    BY <2>1
<1> QED
  BY <1>4, <1>9, <1>10 DEF Growing

LEMMA XDoneInv == ASSUME SchedInv, XDone PROVE SchedInv'
<1>1. /\ cpu = X /\ ~dozing /\ pc[X] = "done" /\ xq' = Tail(xq) /\ Rouse({arg[X]}, stat, time)
      /\ pc' = [pc EXCEPT ![X] = "loop"] /\ arg' = [arg EXCEPT ![X] = None]
      /\ UNCHANGED <<cpu, dozing, load, lock, seg, sig, parent, bad, runin, xw>>
  BY DEF XDone, At, memory, signals
<1>2. xq # <<>> /\ arg[X] = xq[1] /\ arg[X] \in User /\ stat[arg[X]] = "xbrk"
  <2>1. xq # <<>> /\ arg[X] = xq[1] /\ xq \in Seq(User)
    BY <1>1, Parts DEF Growing, TypeOK
  <2>2. 1 \in 1 .. Len(xq) /\ xq[1] \in User
    BY <2>1
  <2> QED
    BY <2>1, <2>2, Parts DEF Growing
<1> DEFINE q == arg[X]
<1> HIDE DEF q
<1>q. q = arg[X] /\ q \in User /\ stat[q] = "xbrk" /\ q # S /\ q # X /\ q = xq[1]
  BY <1>2, Table DEF q
<1>3. PICK R \in SUBSET All :
           /\ {q} \subseteq R /\ R \subseteq {q} \cup {S} /\ Woken(R, stat)
           /\ runout' = (runout /\ \A p \in {q} : load[p])
           /\ S \in R \ {q} => runout /\ ~runout' /\ stat[S] = "sleep"
           /\ runout /\ ~runout' => S \in R
           /\ time' \in [All -> 0 .. MaxTime]
  <2>1. {q} \in SUBSET All /\ Rouse({q}, stat, time)
    BY <1>1, <1>q, Table
  <2> QED
    BY <2>1, RouseWakes, Times
<1>4. /\ runin' = (runin /\ S \notin R) /\ runout' = (runout /\ S \notin R)
      /\ runout' => \A p \in R : load[p]
  <2>1. {q} \in SUBSET All /\ S \notin {q}
    BY <1>q, Table
  <2> QED
    BY <1>1, <1>3, <2>1, FlagsFollow
<1>s. /\ stat' = [p \in All |-> IF p \in R THEN "run" ELSE stat[p]]
      /\ chan' = [p \in All |-> IF p \in R THEN "none" ELSE chan[p]]
      /\ runq' = runq \cup R
  BY <1>3 DEF Woken
<1>p. \A p \in All : /\ p \in R => stat'[p] = "run" /\ chan'[p] = "none"
                     /\ p \notin R => stat'[p] = stat[p] /\ chan'[p] = chan[p]
  BY <1>s
<1>n. pc'[X] = "loop" /\ DOMAIN pc' = All /\ \A p \in All : p # X => pc'[p] = pc[p]
  BY <1>1, Parts, Table DEF Places
<1>a. arg' \in [All -> User \cup {None}] /\ \A p \in All : p # X => arg'[p] = arg[p]
  BY <1>1, Parts, Table DEF TypeOK
<1>r. /\ q \in R /\ \A p \in R : p = q \/ (p = S /\ stat[S] = "sleep")
      /\ X \notin R /\ stat[X] = "run" /\ pc[q] = "user"
  BY <1>1, <1>3, <1>q, Parts, Table DEF Running, Places
<1>5. Growing' /\ xq' \in Seq(User)
  <2>1. stat'[xq[1]] # "xbrk" /\ \A p \in User : p # xq[1] => (stat'[p] = "xbrk" <=> stat[p] = "xbrk")
    BY <1>p, <1>q, <1>r, Table
  <2> QED
    BY <1>1, <1>2, <1>n, <2>1, TailGrowing
<1>6. TypeOK'
  <2>1. stat' \in [All -> {"free", "run", "sleep", "zomb", "xbrk"}] /\ chan' \in [All -> Chans]
    BY <1>s, Parts DEF TypeOK, Chans
  <2>2. runq' \subseteq All
    BY <1>s, Parts DEF TypeOK
  <2> QED
    BY <1>1, <1>3, <1>5, <1>a, <2>1, <2>2, Parts DEF TypeOK
<1>7. Places'
  <2>1. pc'[S] \in SPlaces /\ pc'[X] \in XPlaces
    BY <1>n, Parts, Table DEF Places, XPlaces
  <2>2. \A p \in User : pc'[p] = pc[p]
    BY <1>n, Table
  <2>3. \A p \in User : stat'[p] \in {"free", "zomb", "xbrk"} => stat'[p] = stat[p]
    BY <1>p, Table
  <2>4. \A p \in User : stat[p] = "run" => stat'[p] = "run"
    BY <1>p, Table
  <2> QED
    BY <1>n, <2>1, <2>2, <2>3, <2>4, Parts DEF Places
<1>8. Running'
  <2>1. stat'[X] = "run" /\ X # Idle
    BY <1>p, <1>r, Table
  <2> QED
    BY <1>1, <1>4, <1>n, <2>1, Parts DEF Running
<1>9. Queues'
  <2>1. ASSUME NEW p \in All
        PROVE  p \in runq' <=> stat'[p] = "run" /\ pc'[p] # "forking" /\ (cpu' = p => dozing')
    <3>1. p \in runq <=> stat[p] = "run" /\ pc[p] # "forking" /\ (cpu = p => dozing)
      BY Parts DEF Queues
    <3>2. CASE p = X
      BY <1>1, <1>n, <1>r, <1>s, <3>1, <3>2
    <3>3. CASE p # X /\ p \in R
      <4>1. pc[p] # "forking"
        BY <1>r, <3>3, Parts DEF Places, SPlaces
      <4> QED
        BY <1>1, <1>n, <1>p, <1>s, <3>3, <4>1
    <3>4. CASE p # X /\ p \notin R
      BY <1>1, <1>n, <1>p, <1>s, <3>1, <3>4
    <3> QED
      BY <3>2, <3>3, <3>4
  <2>2. \A p \in All : stat'[p] = "sleep" <=> chan'[p] # "none"
    BY <1>p, Parts DEF Queues
  <2>3. stat'[S] \in {"run", "sleep"} /\ stat'[X] \in {"run", "sleep"} /\ stat'[1] \notin {"free", "zomb"}
    BY <1>p, Parts, Table DEF Queues
  <2> QED
    BY <2>1, <2>2, <2>3 DEF Queues
<1>10. Sleeping'
  <2>1. \A p \in All : stat'[p] = "sleep" => p # X /\ p \notin R
    BY <1>p, <1>r, Table
  <2>2. bad' = bad /\ Sleeping
    BY <1>1, Parts
  <2> QED
    BY <1>n, <1>p, <2>1, <2>2 DEF Sleeping
<1>11. Forking' /\ Targets'
  <2>1. \A p \in User : pc'[p] = pc[p] /\ arg'[p] = arg[p]
    BY <1>a, <1>n, Table
  <2>2. pc'[S] = pc[S] /\ arg'[S] = arg[S]
    BY <1>a, <1>n, Table
  <2>3. Forking'
    BY ZenonT(60), <2>1, Parts DEF Forking, Copies
  <2> QED
    BY <2>2, <2>3, Parts DEF Targets
<1>12. \A p \in User : /\ stat'[p] = "free" <=> stat[p] = "free"
                       /\ stat'[p] = "zomb" <=> stat[p] = "zomb"
  BY <1>p, <1>q, <1>r, Table
<1>13. Family'
  BY <1>1, <1>12, Parts DEF Family
<1>14. SwapperHears'
  <2>1. S \in Sleepers("runout")' <=> runout'
    BY <1>4, <1>p, Parts, Table DEF SwapperHears, Sleepers
  <2>2. S \in Sleepers("runin")' <=> runin'
    BY <1>4, <1>p, Parts, Table DEF SwapperHears, Sleepers
  <2>3. runout' => Wanting' = {}
    BY <1>1, <1>4, <1>p, Parts, Table DEF SwapperHears, Wanting
  <2> QED
    BY <2>1, <2>2, <2>3 DEF SwapperHears
<1>15. NoSignalSlept'
  BY <1>1, <1>p, Parts, Table DEF NoSignalSlept
<1>16. WaitSeesZombies'
  <2>1. \A p \in User : Children(p)' = Children(p) /\ Zombies(Children(p))' = Zombies(Children(p))
    BY <1>1, <1>12 DEF Children, Zombies
  <2>2. \A p \in User : p \in Sleepers("wait")' => p \in Sleepers("wait")
    BY <1>p, Table DEF Sleepers
  <2> QED
    BY <2>1, <2>2, Parts DEF WaitSeesZombies
<1> QED
  BY <1>5, <1>6, <1>7, <1>8, <1>9, <1>10, <1>11, <1>13, <1>14, <1>15, <1>16 DEF SchedInv

(* The parent goes on when its child has been written to swap. *)
LEMMA CopyStackInv == ASSUME SchedInv, NEW r \in User, CopyStack(r) PROVE SchedInv'
<1> DEFINE p == arg[r]
<1>1. /\ cpu = r /\ ~dozing /\ pc[r] = "copy stack"
      /\ load' = [load EXCEPT ![r] = FALSE] /\ lock' = [lock EXCEPT ![r] = FALSE]
      /\ RouseSwapper(runq \cup {r}, [time EXCEPT ![r] = 0])
      /\ cpu' = p /\ pc' = [pc EXCEPT ![r] = "user", ![p] = "user"]
      /\ arg' = [arg EXCEPT ![r] = None]
      /\ UNCHANGED <<dozing, seg, sig, parent, outage, runin, xq, xw, bad>>
  BY DEF CopyStack, At, signals, others
<1>2. p \in User /\ p # r /\ pc[p] = "forking" /\ stat[p] = "run" /\ stat[r] = "run"
      /\ p \notin runq /\ r \notin runq /\ Copies(r)
  <2>1. Copies(r) /\ p \in User /\ p # r /\ pc[p] = "forking"
    BY <1>1, Parts DEF Forking, Copies
  <2>2. stat[p] = "run" /\ p \notin runq /\ p \in All
    BY <2>1, Parts, Table DEF Places, Queues
  <2>3. stat[r] = "run" /\ r \notin runq
    BY <1>1, Parts, Table DEF Running, Queues
  <2> QED
    BY <2>1, <2>2, <2>3
<1>i. \A q \in User : Copies(q) /\ q # r => arg[q] # p
  BY <1>2, Parts DEF Forking
<1> HIDE DEF p
<1>3. PICK R \in SUBSET {S} :
           /\ stat' = [q \in All |-> IF q \in R THEN "run" ELSE stat[q]]
           /\ chan' = [q \in All |-> IF q \in R THEN "none" ELSE chan[q]]
           /\ runq' = (runq \cup {r}) \cup R /\ runout' = FALSE /\ time' = [time EXCEPT ![r] = 0]
           /\ runout <=> S \in R
           /\ runout => stat[S] = "sleep"
  BY <1>1, RouseSwapperWakes
<1>p. \A q \in All : /\ q \in R => stat'[q] = "run" /\ chan'[q] = "none"
                     /\ q \notin R => stat'[q] = stat[q] /\ chan'[q] = chan[q]
  BY <1>3
<1>u. \A q \in User : q \notin R /\ q \in All /\ stat'[q] = stat[q] /\ chan'[q] = chan[q]
  BY <1>p, Table
<1>n. pc'[r] = "user" /\ pc'[p] = "user" /\ DOMAIN pc' = All
      /\ \A q \in All : q # p /\ q # r => pc'[q] = pc[q]
  BY <1>1, <1>2, Parts, Table DEF Places
<1>a. arg' \in [All -> User \cup {None}] /\ \A q \in All : q # r => arg'[q] = arg[q]
  BY <1>1, Parts, Table DEF TypeOK
<1>b. p # S /\ p # X /\ r # S /\ r # X /\ p # Idle /\ p \in All /\ r \in All
  BY <1>2, Table
<1>5. TypeOK'
  <2>1. load' \in [All -> BOOLEAN] /\ lock' \in [All -> BOOLEAN]
    BY <1>1, <1>b, Parts DEF TypeOK
  <2>2. stat' \in [All -> {"free", "run", "sleep", "zomb", "xbrk"}] /\ chan' \in [All -> Chans]
    BY <1>3, Parts DEF TypeOK, Chans
  <2>3. 0 \in 0 .. MaxTime
    BY SchedAssumption
  <2>4. time' \in [All -> 0 .. MaxTime]
    BY <1>b, <1>3, <2>3, Parts DEF TypeOK
  <2>5. runq' \subseteq All /\ cpu' \in All
    BY <1>1, <1>3, <1>b, Parts, Table DEF TypeOK
  <2> QED
    BY <1>1, <1>a, <2>1, <2>2, <2>4, <2>5, Parts DEF TypeOK
<1>6. Places'
  <2>1. pc'[S] = pc[S] /\ pc'[X] = pc[X]
    BY <1>b, <1>n, Table
  <2>2. \A q \in User : pc'[q] = pc[q] \/ pc'[q] = "user"
    BY <1>n, Table
  <2> QED
    BY <1>n, <1>u, <2>1, <2>2, Parts DEF Places, UPlaces
<1>7. Running'
  <2>1. stat'[p] = "run" /\ pc'[p] # "forking"
    BY <1>2, <1>n, <1>u
  <2> QED
    BY <1>1, <1>3, <2>1, Parts DEF Running
<1>8. Queues'
  <2>1. ASSUME NEW q \in All
        PROVE  q \in runq' <=> stat'[q] = "run" /\ pc'[q] # "forking" /\ (cpu' = q => dozing')
    <3>1. q \in runq <=> stat[q] = "run" /\ pc[q] # "forking" /\ (cpu = q => dozing)
      BY Parts DEF Queues
    <3>2. CASE q = r \/ q = p
      BY <1>1, <1>2, <1>3, <1>b, <1>n, <1>u, <3>1, <3>2
    <3>3. CASE q # r /\ q # p /\ q \in R
      <4>1. q = S /\ pc[S] # "forking"
        BY <3>3, Parts DEF Places, SPlaces
      <4> QED
        BY <1>1, <1>3, <1>n, <1>p, <3>3, <4>1
    <3>4. CASE q # r /\ q # p /\ q \notin R
      BY <1>1, <1>3, <1>n, <1>p, <3>1, <3>4
    <3> QED
      BY <3>2, <3>3, <3>4
  <2>2. \A q \in All : stat'[q] = "sleep" <=> chan'[q] # "none"
    BY <1>p, Parts DEF Queues
  <2>3. stat'[S] \in {"run", "sleep"} /\ stat'[X] \in {"run", "sleep"} /\ stat'[1] \notin {"free", "zomb"}
    BY <1>p, Parts, Table DEF Queues
  <2> QED
    BY <2>1, <2>2, <2>3 DEF Queues
<1>9. Sleeping'
  <2>1. \A q \in All : stat'[q] = "sleep" => q # p /\ q # r /\ q \notin R
    BY <1>2, <1>b, <1>p, <1>u
  <2>2. bad' = bad /\ Sleeping
    BY <1>1, Parts
  <2> QED
    BY <1>n, <1>p, <2>1, <2>2 DEF Sleeping
<1>10. Forking'
  <2>1. \A q \in User : Copies(q)' => Copies(q) /\ q # r /\ q # p
    BY <1>n, Table DEF Copies
  <2>2. ASSUME NEW q \in User, Copies(q), q # r
        PROVE  arg'[q] = arg[q] /\ pc'[arg[q]] = "forking"
    <3>1. arg[q] \in User /\ pc[arg[q]] = "forking" /\ arg[q] # p
      BY <1>i, <2>2, Parts DEF Forking
    <3>2. arg[q] # r /\ arg[q] \in All /\ q \in All
      BY <1>1, <2>2, <3>1, Table
    <3> QED
      BY <1>a, <1>n, <2>2, <3>1, <3>2
  <2> QED
    BY <2>1, <2>2, Parts DEF Forking
<1>11. Growing' /\ Targets'
  <2>1. pc'[S] = pc[S] /\ pc'[X] = pc[X] /\ arg'[S] = arg[S] /\ arg'[X] = arg[X]
    BY <1>a, <1>b, <1>n, Table
  <2>2. Growing'
    BY ZenonT(60), <1>1, <1>u, <2>1, Parts DEF Growing
  <2> QED
    BY <2>1, <2>2, Parts DEF Targets
<1>13. Family' /\ WaitSeesZombies'
  <2>2. Family'
    BY <1>1, <1>u, Parts DEF Family
  <2>3. \A q \in User : Children(q)' = Children(q) /\ Zombies(Children(q))' = Zombies(Children(q))
    BY <1>1, <1>u DEF Children, Zombies
  <2>4. \A q \in User : q \in Sleepers("wait")' => q \in Sleepers("wait")
    BY <1>u DEF Sleepers
  <2> QED
    BY <2>2, <2>3, <2>4, Parts DEF WaitSeesZombies
<1>14. SwapperHears'
  <2>1. S \notin Sleepers("runout")'
    BY <1>3, <1>p, Parts, Table DEF SwapperHears, Sleepers
  <2>2. S \in Sleepers("runin")' <=> runin'
    BY <1>1, <1>3, <1>p, Parts, Table DEF SwapperHears, Sleepers
  <2> QED
    BY <1>3, <2>1, <2>2 DEF SwapperHears
<1>15. NoSignalSlept'
  BY <1>1, <1>u, Parts DEF NoSignalSlept
<1> QED
  BY <1>5, <1>6, <1>7, <1>8, <1>9, <1>10, <1>11, <1>13, <1>14, <1>15 DEF SchedInv

------------------------------------------------------------------------------
(* Every step keeps the invariant. *)
LEMMA StepInv == SchedInv /\ Next => SchedInv'
<1> SUFFICES ASSUME SchedInv, Next PROVE SchedInv'
  OBVIOUS
<1>1. CASE Interrupt
  BY <1>1, SecondInv, SwapDoneInv, HappensInv, SignalInv DEF Interrupt
<1>2. CASE SwitchOut
  BY <1>2, SwitchOutInv
<1>3. CASE Swapper
  BY <1>3, LookInv, InDataInv, InStackInv, InUndoInv, InDoneInv, VictimInv, PauseInv, OutDataInv,
     OutStackInv DEF Swapper
<1>4. CASE Grower
  BY <1>4, XLoopInv, XDoneInv, OutDataInv, OutStackInv DEF Grower
<1>5. ASSUME NEW p \in All, Dispatch(p) PROVE SchedInv'
  BY <1>5, DispatchInv
<1>6. ASSUME NEW p \in User, UserStep(p) PROVE SchedInv'
  BY <1>6, PreemptInv, TakeSignalInv, GrowInv, ExitInv, ReapInv, WaitInv, WaitInterruptedInv, AwaitInv,
     ForkInCoreInv, ForkToSwapInv DEF UserStep
<1>7. ASSUME NEW p \in User, Copy(p) PROVE SchedInv'
  BY <1>7, CopyDataInv, CopyStackInv DEF Copy
<1> QED
  BY <1>1, <1>2, <1>3, <1>4, <1>5, <1>6, <1>7 DEF Next

(* A step in which nothing happens keeps it, too. *)
LEMMA StutterInv == SchedInv /\ UNCHANGED vars => SchedInv'
<1> SUFFICES ASSUME SchedInv, UNCHANGED vars PROVE SchedInv'
  OBVIOUS
<1>1. UNCHANGED <<stat, chan, time, runout, pc, arg, load, lock, seg, sig, parent, runin, xq, xw, bad>>
  BY DEF vars, queues, control, memory, signals, others
<1>2. UNCHANGED <<runq, cpu, dozing>>
  BY DEF vars, queues, control
<1>3. Queues' /\ Running' /\ runq' \subseteq All /\ cpu' \in All \cup {Idle}
  BY <1>1, <1>2, Parts DEF Queues, Running, TypeOK
<1> QED
  BY <1>1, <1>3, SwitchInv

(* Whatever users do, and in whatever order interrupts come: the run queue *)
(* holds exactly who can run, the flags of the swapper say where it        *)
(* sleeps, and signals and dead children wake who waits for them.          *)
THEOREM SchedInvariance == Spec => []SchedInv
<1>1. SchedInv /\ [Next]_vars => SchedInv'
  BY StepInv, StutterInv
<1> QED
  BY InitInv, <1>1, PTL DEF Spec

(* sleep(), wakeup(), setrun(), swtch(): on the run queue are exactly the  *)
(* runnable processes that nobody is running.                              *)
THEOREM RunQueue == Spec => []QueuesExact
<1>1. SchedInv => QueuesExact
  BY Parts DEF QueuesExact, Queues
<1> QED
  BY <1>1, SchedInvariance, PTL

(* sched(): it does not sleep for work while a runnable process is out.    *)
THEOREM SwapperAwake == Spec => []SwapperHears
<1>1. SchedInv => SwapperHears
  BY Parts
<1> QED
  BY <1>1, SchedInvariance, PTL

(* psignal(), issig(): a signal finds its process awake, or wakes it.      *)
THEOREM SignalsHeard == Spec => []NoSignalSlept
<1>1. SchedInv => NoSignalSlept
  BY Parts
<1> QED
  BY <1>1, SchedInvariance, PTL

(* exit(), wait(): nobody sleeps in wait() over a dead child.              *)
THEOREM ZombiesSeen == Spec => []WaitSeesZombies
<1>1. SchedInv => WaitSeesZombies
  BY Parts
<1> QED
  BY <1>1, SchedInvariance, PTL

------------------------------------------------------------------------------
(* Memory.  The segments that are in it are finitely many, and a step that *)
(* adds at most so many takes at most so much of it.                       *)
Owned(sg) == {x \in User \X Both : x[2] \in sg[x[1]]}

LEMMA AddTo ==
  ASSUME NEW T, IsFiniteSet(T), NEW U, NEW a, NEW b, U \subseteq T \cup {a, b}
  PROVE  /\ IsFiniteSet(U) /\ Cardinality(U) \in Nat /\ Cardinality(T) \in Nat
         /\ Cardinality(U) <= Cardinality(T) + 2
         /\ U \subseteq T \cup {a} => Cardinality(U) <= Cardinality(T) + 1
         /\ U \subseteq T => Cardinality(U) <= Cardinality(T)
<1>1. IsFiniteSet(T \cup {a}) /\ Cardinality(T \cup {a}) \in Nat /\ Cardinality(T) \in Nat
      /\ Cardinality(T \cup {a}) <= Cardinality(T) + 1
  BY FS_AddElement, FS_CardinalityType
<1>2. /\ IsFiniteSet((T \cup {a}) \cup {b}) /\ Cardinality((T \cup {a}) \cup {b}) \in Nat
      /\ Cardinality((T \cup {a}) \cup {b}) <= Cardinality(T \cup {a}) + 1
  <2> DEFINE V == T \cup {a}
  <2>1. IsFiniteSet(V) /\ Cardinality(V) \in Nat
    BY <1>1
  <2> HIDE DEF V
  <2>2. IsFiniteSet(V \cup {b})
        /\ Cardinality(V \cup {b}) = IF b \in V THEN Cardinality(V) ELSE Cardinality(V) + 1
    BY <2>1, FS_AddElement
  <2>3. Cardinality(V \cup {b}) \in Nat /\ Cardinality(V \cup {b}) <= Cardinality(V) + 1
    BY <2>1, <2>2
  <2> QED
    BY <2>2, <2>3 DEF V
<1>3. IsFiniteSet(U) /\ Cardinality(U) \in Nat /\ Cardinality(U) <= Cardinality((T \cup {a}) \cup {b})
  BY <1>2, FS_Subset, FS_CardinalityType
<1>4. U \subseteq T \cup {a} => Cardinality(U) <= Cardinality(T \cup {a})
  BY <1>1, FS_Subset
<1>5. U \subseteq T => Cardinality(U) <= Cardinality(T)
  BY FS_Subset
<1> QED
  BY <1>1, <1>2, <1>3, <1>4, <1>5

LEMMA OwnedFinite == \A sg : IsFiniteSet(Owned(sg))
<1>1. IsFiniteSet(User)
  BY SchedAssumption, FS_Interval DEF User
<1>2. IsFiniteSet({}) /\ Both = ({} \cup {"data"}) \cup {"stack"}
  BY FS_EmptySet DEF Both
<1>3. IsFiniteSet(Both)
  BY <1>2, FS_AddElement
<1>4. IsFiniteSet(User \X Both)
  BY <1>1, <1>3, FS_Product
<1> QED
  BY <1>4, FS_Subset DEF Owned

LEMMA FreeOf ==
  ASSUME mem \in Mems
  PROVE  Free = mem - Cardinality(Owned(seg)) /\ mem \in Nat /\ mem >= 2 /\ Cardinality(Owned(seg)) \in Nat
         /\ Free \in Int
<1>1. Cardinality(Owned(seg)) \in Nat
  BY OwnedFinite, FS_CardinalityType
<1>2. mem \in Nat /\ mem # 0 /\ mem # 1
  BY SchedAssumption
<1>3. Free = mem - Cardinality(Owned(seg))
  BY DEF Free, Owned
<1> QED
  BY <1>1, <1>2, <1>3

(* A process gets the segments A, all of which it has but one, or two.     *)
LEMMA SegChange ==
  ASSUME mem \in Mems, seg \in [User -> SUBSET Both], NEW q \in User, NEW A \in SUBSET Both,
         seg' = [seg EXCEPT ![q] = A], UNCHANGED mem
  PROVE  /\ Free' \in Int /\ Free' >= Free - 2
         /\ \A b \in Both : A \subseteq seg[q] \cup {b} => Free' >= Free - 1
         /\ A \subseteq seg[q] => Free' >= Free
<1>1. Free = mem - Cardinality(Owned(seg)) /\ mem \in Nat /\ Cardinality(Owned(seg)) \in Nat /\ Free \in Int
  BY FreeOf
<1>2. Free' = mem - Cardinality(Owned(seg')) /\ Cardinality(Owned(seg')) \in Nat /\ Free' \in Int
  <2>1. IsFiniteSet(Owned(seg')) /\ Free' = mem' - Cardinality(Owned(seg'))
    BY OwnedFinite DEF Free, Owned
  <2>2. Cardinality(Owned(seg')) \in Nat
    BY <2>1, FS_CardinalityType
  <2> QED
    BY <1>1, <2>1, <2>2
<1>3. \A x \in Owned(seg') : x \in Owned(seg) \/ (x[1] = q /\ x[2] \in A /\ x = <<q, x[2]>>)
  BY DEF Owned
<1>4. Owned(seg') \subseteq Owned(seg) \cup {<<q, "data">>, <<q, "stack">>}
  BY <1>3 DEF Both
<1>5. \A b \in Both : A \subseteq seg[q] \cup {b} => Owned(seg') \subseteq Owned(seg) \cup {<<q, b>>}
  BY <1>3 DEF Owned
<1>6. A \subseteq seg[q] => Owned(seg') \subseteq Owned(seg)
  BY <1>3 DEF Owned
<1>7. Cardinality(Owned(seg')) <= Cardinality(Owned(seg)) + 2
      /\ (Owned(seg') \subseteq Owned(seg) => Cardinality(Owned(seg')) <= Cardinality(Owned(seg)))
  BY <1>4, OwnedFinite, AddTo
<1>8. Free' \in Int /\ Free' >= Free - 2
  BY <1>1, <1>2, <1>7
<1>9. ASSUME NEW b \in Both, A \subseteq seg[q] \cup {b} PROVE Free' >= Free - 1
  <2>1. Owned(seg') \subseteq Owned(seg) \cup {<<q, b>>, <<q, b>>}
        /\ Owned(seg') \subseteq Owned(seg) \cup {<<q, b>>}
    BY <1>5, <1>9
  <2>2. Cardinality(Owned(seg')) <= Cardinality(Owned(seg)) + 1
    BY <2>1, OwnedFinite, AddTo
  <2> QED
    BY <1>1, <1>2, <2>2
<1>10. ASSUME A \subseteq seg[q] PROVE Free' >= Free
  <2>1. Cardinality(Owned(seg')) <= Cardinality(Owned(seg))
    BY <1>6, <1>7, <1>10
  <2> QED
    BY <1>1, <1>2, <2>1
<1> QED
  BY <1>8, <1>9, <1>10

(* Whom xsched works for is a user that waits for it. *)
LEMMA XTarget == SchedInv /\ pc[X] # "loop" => arg[X] \in User /\ stat[arg[X]] = "xbrk"
<1> SUFFICES ASSUME SchedInv, pc[X] # "loop" PROVE arg[X] \in User /\ stat[arg[X]] = "xbrk"
  OBVIOUS
<1>1. xq \in Seq(User) /\ xq # <<>> /\ arg[X] = xq[1]
  BY Parts DEF TypeOK, Growing
<1>2. 1 \in 1 .. Len(xq) /\ arg[X] \in User
  BY <1>1
<1> QED
  BY <1>1, <1>2, Parts DEF Growing

(* The state of a process as far as memory is concerned: it may be woken,  *)
(* and it may go to sleep, or wait for memory, while it is in.             *)
Calm == \A p \in User : \/ stat'[p] = stat[p]
                        \/ stat[p] = "sleep" /\ stat'[p] = "run"
                        \/ load[p] /\ stat[p] = "run" /\ stat'[p] \in {"sleep", "xbrk"}

LEMMA CalmCore ==
  ASSUME SchedInv, MemInv, Calm, UNCHANGED <<load, lock, seg, mem>>, cpu' \in User => load[cpu']
  PROVE  mem' \in Mems /\ InCore'
<1>1. mem' \in Mems /\ Free' >= 0
  BY DEF MemInv, InCore, Free
<1>2. \A p \in User : stat'[p] \notin {"free", "zomb"} => stat[p] \notin {"free", "zomb"}
  BY DEF Calm
<1> QED
  BY <1>1, <1>2 DEF MemInv, InCore

LEMMA CalmS ==
  ASSUME SchedInv, MemInv, Calm, UNCHANGED <<load, lock, seg>>, pc'[S] = pc[S], arg'[S] = arg[S]
  PROVE  HeldS'
<1>1. HeldS
  BY DEF MemInv
<1>2. pc[S] \in {"out data", "out stack"} => arg[S] \in User
  BY Parts DEF Targets
<1> QED
  BY <1>1, <1>2 DEF HeldS, Calm

LEMMA CalmX ==
  ASSUME SchedInv, MemInv, Calm, UNCHANGED <<load, lock, seg>>, pc'[X] = pc[X], arg'[X] = arg[X]
  PROVE  HeldX'
BY DEF MemInv, HeldX, Calm

LEMMA CalmC ==
  ASSUME MemInv, UNCHANGED <<load, lock>>, \A p \in User : Copies(p)' => Copies(p)
  PROVE  HeldC'
BY DEF MemInv, HeldC

LEMMA CalmMem ==
  ASSUME SchedInv, MemInv, Calm, UNCHANGED <<load, lock, seg, mem>>,
         pc'[S] = pc[S], arg'[S] = arg[S], pc'[X] = pc[X], arg'[X] = arg[X],
         \A p \in User : Copies(p)' => Copies(p), cpu' \in User => load[cpu']
  PROVE  MemInv'
BY CalmCore, CalmS, CalmX, CalmC DEF MemInv

(* A wakeup is calm. *)
LEMMA RouseCalm ==
  ASSUME SchedInv, NEW W \in SUBSET All, NEW st, NEW tm, st[S] = stat[S], InTime(tm), Rouse(W, st, tm)
  PROVE  \A p \in User : stat'[p] = IF p \in W THEN "run" ELSE st[p]
<1>1. PICK R \in SUBSET All : W \subseteq R /\ R \subseteq W \cup {S} /\ Woken(R, st)
  BY RouseWakes
<1>2. stat' = [p \in All |-> IF p \in R THEN "run" ELSE st[p]]
  BY <1>1 DEF Woken
<1>3. \A p \in User : p \in All /\ (p \in R <=> p \in W)
  BY <1>1, Table
<1> QED
  BY <1>2, <1>3

(* Who is on the processor is in memory and runs or goes to sleep. *)
LEMMA OnCpu ==
  ASSUME SchedInv, MemInv, NEW p \in User, cpu = p
  PROVE  load[p] /\ (~dozing => stat[p] = "run")
<1>1. p # Idle
  BY Table
<1> QED
  BY <1>1, Parts DEF MemInv, InCore, Running

LEMMA InterruptMem == ASSUME SchedInv, MemInv, Interrupt, UNCHANGED mem PROVE MemInv'
<1>1. UNCHANGED <<cpu, pc, arg, load, lock, seg>>
  BY DEF Interrupt, SwapDone, Happens, Signal, Second, control, memory
<1>2. Calm
  <2>1. ASSUME NEW t \in All, SwapDone(t) PROVE Calm
    <3>1. stat[t] = "sleep" /\ Rouse({t}, stat, time)
      BY <2>1 DEF SwapDone, Sleepers
    <3>2. \A p \in User : stat'[p] = IF p \in {t} THEN "run" ELSE stat[p]
      BY <3>1, Times, RouseCalm
    <3> QED
      BY <3>1, <3>2 DEF Calm
  <2>2. ASSUME NEW c \in Events, Happens(c) PROVE Calm
    <3>1. Rouse(Sleepers(c), stat, time) /\ Sleepers(c) \in SUBSET All /\ \A t \in Sleepers(c) : stat[t] = "sleep"
      BY <2>2 DEF Happens, Sleepers
    <3>2. \A p \in User : stat'[p] = IF p \in Sleepers(c) THEN "run" ELSE stat[p]
      BY <3>1, Times, RouseCalm
    <3> QED
      BY <3>1, <3>2 DEF Calm
  <2>3. ASSUME NEW q \in Sent, Signal(q) PROVE Calm
    <3>1. Rouse(Roused({q}), stat, time) /\ Roused({q}) \in SUBSET All /\ \A t \in Roused({q}) : stat[t] = "sleep"
      BY <2>3, SchedAssumption, Table DEF Signal, Roused, User
    <3>2. \A p \in User : stat'[p] = IF p \in Roused({q}) THEN "run" ELSE stat[p]
      BY <3>1, Times, RouseCalm
    <3> QED
      BY <3>1, <3>2 DEF Calm
  <2>4. ASSUME Second PROVE Calm
    <3> DEFINE W == IF runin /\ stat[S] = "sleep" THEN {S} ELSE {}
               older == [p \in All |-> IF p \in User /\ stat[p] # "free" /\ time[p] < MaxTime
                                       THEN time[p] + 1 ELSE time[p]]
    <3>1. Rouse(W, stat, older) /\ W \in SUBSET All
      BY <2>4, Table DEF Second
    <3>2. InTime(older)
      BY SchedAssumption, Parts DEF TypeOK, InTime
    <3> HIDE DEF older
    <3>3. \A p \in User : stat'[p] = IF p \in W THEN "run" ELSE stat[p]
      BY <3>1, <3>2, RouseCalm
    <3> QED
      BY <3>3, Table DEF Calm
  <2> QED
    BY <2>1, <2>2, <2>3, <2>4 DEF Interrupt
<1>3. cpu' \in User => load[cpu']
  BY <1>1 DEF MemInv, InCore
<1> QED
  BY <1>1, <1>2, <1>3, CalmMem DEF Copies

LEMMA SwitchMem ==
  ASSUME SchedInv, MemInv, SwitchOut \/ \E p \in All : Dispatch(p), UNCHANGED mem PROVE MemInv'
<1>1. UNCHANGED <<pc, arg, load, lock, seg>>
  BY DEF SwitchOut, Dispatch, memory
<1>2. CASE SwitchOut
  <2>1. cpu' \notin User
    BY <1>2, Table DEF SwitchOut
  <2>2. CASE UNCHANGED queues
    BY <1>1, <2>1, <2>2, CalmMem DEF queues, Calm, Copies
  <2>3. CASE Rouse(Sleepers("runin"), stat, time)
    <3>1. Sleepers("runin") \in SUBSET All /\ \A t \in Sleepers("runin") : stat[t] = "sleep"
      BY DEF Sleepers
    <3>2. \A p \in User : stat'[p] = IF p \in Sleepers("runin") THEN "run" ELSE stat[p]
      BY <2>3, <3>1, Times, RouseCalm
    <3>3. Calm
      BY <3>1, <3>2 DEF Calm
    <3> QED
      BY <1>1, <2>1, <3>3, CalmMem DEF Copies
  <2> QED
    BY <1>2, <2>2, <2>3 DEF SwitchOut
<1>3. ASSUME NEW p \in All, Dispatch(p) PROVE MemInv'
  <2>1. cpu' = p /\ load[p] /\ stat' = stat
    BY <1>3 DEF Dispatch
  <2> QED
    BY <1>1, <2>1, CalmMem DEF Calm, Copies
<1> QED
  BY <1>2, <1>3

(* What a user does with neither the table nor memory but to sleep, or to  *)
(* leave the processor.                                                    *)
LEMMA QuietMem ==
  ASSUME SchedInv, MemInv, NEW p \in User, cpu = p, ~dozing, cpu' \in {p, Idle},
         UNCHANGED <<arg, load, lock, seg, mem>>,
         \A q \in All : q # p => pc'[q] = pc[q], Copies(p)' => Copies(p),
         \A q \in User : q # p => stat'[q] = stat[q] \/ (stat[q] = "sleep" /\ stat'[q] = "run"),
         stat'[p] \in {"run", "sleep", "xbrk"}
  PROVE  MemInv'
<1>1. load[p] /\ stat[p] = "run"
  BY OnCpu
<1>2. Calm
  BY <1>1 DEF Calm
<1>3. pc'[S] = pc[S] /\ pc'[X] = pc[X] /\ \A q \in User : Copies(q)' => Copies(q)
  BY Table DEF Copies
<1>4. cpu' \in User => load[cpu']
  BY <1>1, Table
<1> QED
  BY <1>2, <1>3, <1>4, CalmMem

(* A process that sleeps, as far as the table tells. *)
LEMMA SleepsOnly ==
  ASSUME SchedInv, NEW t \in All, NEW c, NEW b, NEW l, Sleeps(t, c, b, l)
  PROVE  /\ stat'[t] = "sleep" /\ pc'[t] = l /\ cpu' = cpu
         /\ \A q \in All : q # t => stat'[q] = stat[q] /\ pc'[q] = pc[q]
BY Parts DEF Sleeps, TypeOK, Places

LEMMA UserMem ==
  ASSUME SchedInv, MemInv, NEW p \in User, UNCHANGED mem,
         \/ Preempt(p) \/ TakeSignal(p) \/ Grow(p) \/ Wait(p) \/ WaitInterrupted(p)
         \/ (\E c \in Events : Await(p, c)) \/ CopyData(p)
  PROVE  MemInv'
<1>0. p \in All
  BY Table
<1>1. CASE Preempt(p) \/ TakeSignal(p)
  <2>1. cpu = p /\ ~dozing /\ UNCHANGED <<stat, pc, arg, load, lock, seg>> /\ cpu' \in {p, Idle}
    BY <1>1 DEF Preempt, TakeSignal, At, queues, control, memory
  <2> QED
    BY <2>1, OnCpu, QuietMem DEF Copies
<1>2. CASE WaitInterrupted(p)
  <2>1. cpu = p /\ ~dozing /\ pc' = [pc EXCEPT ![p] = "user"] /\ UNCHANGED <<stat, arg, load, lock, seg, cpu>>
    BY <1>2 DEF WaitInterrupted, At, queues, memory
  <2>2. pc'[p] = "user" /\ \A q \in All : q # p => pc'[q] = pc[q]
    BY <1>0, <2>1, Parts DEF Places
  <2> QED
    BY <2>1, <2>2, OnCpu, QuietMem DEF Copies
<1>3. ASSUME NEW c, NEW b, NEW l, Sleeps(p, c, b, l), cpu = p, ~dozing,
             l \in {"user", "wait"} \/ Copies(p), UNCHANGED <<arg, load, lock, seg>>
      PROVE  MemInv'
  <2>1. /\ stat'[p] = "sleep" /\ pc'[p] = l /\ cpu' = cpu
        /\ \A q \in All : q # p => stat'[q] = stat[q] /\ pc'[q] = pc[q]
    BY <1>0, <1>3, SleepsOnly
  <2>2. \A q \in User : q # p => stat'[q] = stat[q]
    BY <2>1, Table
  <2>3. Copies(p)' => Copies(p)
    BY <1>3, <2>1 DEF Copies
  <2> QED
    BY <1>3, <2>1, <2>2, <2>3, QuietMem
<1>4. CASE Wait(p)
  <2>1. Sleeps(p, "wait", TRUE, "wait") /\ cpu = p /\ ~dozing /\ UNCHANGED <<arg, load, lock, seg>>
    BY <1>4 DEF Wait, memory
  <2> QED
    BY <2>1, <1>3
<1>5. ASSUME NEW c \in Events, Await(p, c) PROVE MemInv'
  <2>1. Sleeps(p, c, c = "tty", "user") /\ cpu = p /\ ~dozing /\ UNCHANGED <<arg, load, lock, seg>>
    BY <1>5 DEF Await, At, memory
  <2> QED
    BY <2>1, <1>3
<1>6. CASE CopyData(p)
  <2>1. Sleeps(p, "io", FALSE, "copy stack") /\ cpu = p /\ ~dozing /\ UNCHANGED <<arg, load, lock, seg>>
        /\ Copies(p)
    BY <1>6 DEF CopyData, At, memory, Copies
  <2> QED
    BY <2>1, <1>3
<1>7. CASE Grow(p)
  <2> DEFINE W == IF xw THEN Sleepers("xw") ELSE {}
             st == [stat EXCEPT ![p] = "xbrk"]
  <2>1. /\ cpu = p /\ ~dozing /\ cpu' = Idle /\ Rouse(W, st, time) /\ UNCHANGED <<pc, arg, load, lock, seg>>
    BY <1>7 DEF Grow, At, memory
  <2>2. W \in SUBSET All /\ \A q \in W : stat[q] = "sleep"
    BY DEF Sleepers
  <2>3. st[S] = stat[S] /\ st[p] = "xbrk" /\ \A q \in All : q # p => st[q] = stat[q]
    BY <1>0, Table, Parts DEF TypeOK
  <2>4. stat[p] = "run"
    BY <2>1, OnCpu
  <2> HIDE DEF W, st
  <2>5. \A q \in User : stat'[q] = IF q \in W THEN "run" ELSE st[q]
    BY <2>1, <2>2, <2>3, Times, RouseCalm
  <2>6. stat'[p] = "xbrk"
    BY <2>2, <2>3, <2>4, <2>5
  <2>7. \A q \in User : q # p => stat'[q] = stat[q] \/ (stat[q] = "sleep" /\ stat'[q] = "run")
    BY <2>2, <2>3, <2>5, Table
  <2> QED
    BY <2>1, <2>6, <2>7, QuietMem DEF Copies
<1> QED
  BY <1>1, <1>2, <1>4, <1>5, <1>6, <1>7

(* Memory that is given back is free. *)
LEMMA SegLess ==
  ASSUME SchedInv, MemInv, NEW q \in User, NEW A \in SUBSET seg[q],
         seg' = [seg EXCEPT ![q] = A], UNCHANGED mem
  PROVE  Free' >= 0
<1>1. seg \in [User -> SUBSET Both] /\ mem \in Mems /\ Free >= 0
  BY Typed DEF MemInv, InCore
<1>2. A \in SUBSET Both /\ A \subseteq seg[q]
  BY <1>1
<1>3. Free' \in Int /\ Free' >= Free
  BY <1>1, <1>2, SegChange
<1>4. Free \in Int
  BY <1>1, FreeOf
<1> QED
  BY <1>1, <1>3, <1>4

(* The parts of MemInv, and whom the swapper and xsched work for. *)
LEMMA MemParts ==
  SchedInv /\ MemInv =>
    /\ mem \in Mems /\ HeldS /\ HeldX /\ HeldC /\ InCore /\ Free \in Int /\ Free >= 0
    /\ pc[S] \in SPlaces \ {"loop", "pause"} =>
         arg[S] \in User /\ ~load[arg[S]] /\ stat[arg[S]] \in {"run", "sleep"}
    /\ pc[X] # "loop" => arg[X] \in User /\ stat[arg[X]] = "xbrk"
    /\ load \in [All -> BOOLEAN] /\ lock \in [All -> BOOLEAN] /\ seg \in [User -> SUBSET Both]
<1> SUFFICES ASSUME SchedInv, MemInv
             PROVE  /\ mem \in Mems /\ HeldS /\ HeldX /\ HeldC /\ InCore /\ Free \in Int /\ Free >= 0
                    /\ pc[S] \in SPlaces \ {"loop", "pause"} =>
                         arg[S] \in User /\ ~load[arg[S]] /\ stat[arg[S]] \in {"run", "sleep"}
                    /\ pc[X] # "loop" => arg[X] \in User /\ stat[arg[X]] = "xbrk"
                    /\ load \in [All -> BOOLEAN] /\ lock \in [All -> BOOLEAN] /\ seg \in [User -> SUBSET Both]
  OBVIOUS
<1>1. mem \in Mems /\ HeldS /\ HeldX /\ HeldC /\ InCore /\ Free >= 0
  BY DEF MemInv, InCore
<1>2. Free \in Int
  BY <1>1, FreeOf
<1>3. pc[S] \in SPlaces \ {"loop", "pause"} =>
        arg[S] \in User /\ ~load[arg[S]] /\ stat[arg[S]] \in {"run", "sleep"}
  BY <1>1, Parts DEF HeldS, Targets, SPlaces
<1> QED
  BY <1>1, <1>2, <1>3, XTarget, Typed

LEMMA ExitMem == ASSUME SchedInv, MemInv, NEW p \in User, Exit(p), UNCHANGED mem PROVE MemInv'
<1> DEFINE told == {parent[p]} \cup IF Zombies(Children(p)) # {} THEN {1} ELSE {}
           st == [stat EXCEPT ![p] = "zomb"]
<1>1. /\ cpu = p /\ ~dozing /\ cpu' = Idle /\ seg' = [seg EXCEPT ![p] = {}] /\ p # 1
      /\ Rouse(Roused(told), st, time) /\ UNCHANGED <<pc, arg, load, lock>>
  BY DEF Exit, At
<1>2. load[p] /\ stat[p] = "run" /\ p \in All
  BY <1>1, OnCpu, Table
<1>3. told \subseteq User
  BY <1>1, <1>2, Parts, Table DEF Family
<1> HIDE DEF told
<1>4. Roused(told) \in SUBSET All /\ \A q \in Roused(told) : stat[q] = "sleep"
  BY <1>3, Table DEF Roused
<1>5. st[S] = stat[S] /\ st[p] = "zomb" /\ \A q \in All : q # p => st[q] = stat[q]
  BY <1>2, Table, Parts DEF TypeOK
<1> HIDE DEF st
<1>6. \A q \in User : stat'[q] = IF q \in Roused(told) THEN "run" ELSE st[q]
  BY <1>1, <1>4, <1>5, Times, RouseCalm
<1>7. stat'[p] = "zomb"
  BY <1>2, <1>4, <1>5, <1>6
<1>8. \A q \in User : q # p => stat'[q] = stat[q] \/ (stat[q] = "sleep" /\ stat'[q] = "run")
  BY <1>4, <1>5, <1>6, Table
<1>9. seg'[p] = {} /\ \A q \in User : q # p => seg'[q] = seg[q]
  BY <1>1, MemParts
<1>10. Free' >= 0
  <2> DEFINE A == {}
  <2>1. A \in SUBSET seg[p] /\ seg' = [seg EXCEPT ![p] = A]
    BY <1>1
  <2> HIDE DEF A
  <2> QED
    BY <2>1, SegLess
<1>11. pc[S] \in SPlaces \ {"loop", "pause"} =>
         arg[S] # p /\ seg'[arg[S]] = seg[arg[S]] /\ stat'[arg[S]] \in {stat[arg[S]], "run"}
  BY <1>2, <1>8, <1>9, MemParts
<1>12. HeldS'
  BY <1>1, <1>11, MemParts DEF HeldS, SPlaces
<1>13. HeldX' /\ HeldC'
  BY ZenonT(60), <1>1, <1>7, <1>8, MemParts DEF HeldX, HeldC, Copies
<1>14. InCore'
  BY <1>1, <1>7, <1>8, <1>9, <1>10, MemParts, Table DEF InCore
<1> QED
  BY <1>12, <1>13, <1>14, MemParts DEF MemInv

LEMMA ReapMem == ASSUME SchedInv, MemInv, NEW p \in User, Reap(p), UNCHANGED mem PROVE MemInv'
<1>1. /\ cpu = p /\ ~dozing /\ pc' = [pc EXCEPT ![p] = "user"]
      /\ UNCHANGED <<cpu, arg, lock, seg>>
  BY DEF Reap
<1>2. PICK q \in Zombies(Children(p)) :
           stat' = [stat EXCEPT ![q] = "free"] /\ load' = [load EXCEPT ![q] = FALSE]
  BY DEF Reap
<1>3. load[p] /\ stat[p] = "run" /\ p \in All
  BY <1>1, OnCpu, Table
<1>4. q \in User /\ q \in All /\ stat[q] = "zomb" /\ q # p
  BY <1>3, Table DEF Zombies, Children
<1>5. /\ stat'[q] = "free" /\ ~load'[q]
      /\ \A r \in User : r # q => stat'[r] = stat[r] /\ load'[r] = load[r]
  BY <1>2, <1>4, Table, Parts DEF TypeOK
<1>6. pc'[p] = "user" /\ pc'[S] = pc[S] /\ pc'[X] = pc[X] /\ \A r \in User : r # p => pc'[r] = pc[r]
  BY <1>1, <1>3, Table, Parts DEF Places
<1>7. HeldS'
  <2>1. pc[S] \in SPlaces \ {"loop", "pause"} =>
          arg[S] # q /\ stat'[arg[S]] = stat[arg[S]] /\ load'[arg[S]] = load[arg[S]]
    BY <1>4, <1>5, MemParts
  <2> QED
    BY <1>1, <1>6, <2>1, MemParts DEF HeldS, SPlaces
<1>8. HeldX'
  BY ZenonT(60), <1>1, <1>5, <1>6, MemParts DEF HeldX
<1>9. HeldC'
  <2>1. pc[q] = "user"
    BY <1>4, Parts DEF Places
  <2> QED
    BY <1>1, <1>4, <1>5, <1>6, <2>1, MemParts DEF HeldC, Copies
<1>10. InCore'
  <2>1. Free' = Free
    BY <1>1 DEF Free
  <2> QED
    BY <1>1, <1>3, <1>4, <1>5, <2>1, MemParts DEF InCore
<1> QED
  BY <1>7, <1>8, <1>9, <1>10, MemParts DEF MemInv

LEMMA ForkInCoreMem ==
  ASSUME SchedInv, MemInv, NEW p \in User, NEW r \in User, ForkInCore(p, r), UNCHANGED mem PROVE MemInv'
<1>1. /\ NewSlot(p, r) /\ seg' = [seg EXCEPT ![r] = Both] /\ stat' = [stat EXCEPT ![r] = "run"]
      /\ UNCHANGED <<cpu, pc, arg, lock>>
  BY DEF ForkInCore, control
<1>2. Free >= 2
  BY DEF ForkInCore
<1>3. /\ cpu = p /\ stat[r] = "free" /\ p # r /\ pc[r] = "user" /\ r \in All
      /\ load' = [load EXCEPT ![r] = TRUE]
  BY <1>1, SlotOf, Table
<1>4. /\ stat'[r] = "run" /\ load'[r] /\ seg'[r] = Both
      /\ \A q \in User : q # r => stat'[q] = stat[q] /\ load'[q] = load[q] /\ seg'[q] = seg[q]
  BY <1>1, <1>3, Table, Parts DEF TypeOK
<1>5. HeldS'
  <2>1. pc[S] \in SPlaces \ {"loop", "pause"} =>
          /\ arg[S] # r /\ stat'[arg[S]] = stat[arg[S]] /\ load'[arg[S]] = load[arg[S]]
          /\ seg'[arg[S]] = seg[arg[S]]
    BY <1>3, <1>4, MemParts
  <2> QED
    BY <1>1, <2>1, MemParts DEF HeldS, SPlaces
<1>6. HeldX' /\ HeldC'
  <2>1. HeldX /\ HeldC
    BY MemParts
  <2>2. HeldX'
    BY <1>1, <1>4, <2>1 DEF HeldX
  <2>3. HeldC'
    BY <1>1, <1>3, <1>4, <2>1 DEF HeldC, Copies
  <2> QED
    BY <2>2, <2>3
<1>7. Free' >= 0
  <2>1. Both \in SUBSET Both
    OBVIOUS
  <2>2. Free' \in Int /\ Free' >= Free - 2
    BY <1>1, <2>1, MemParts, SegChange
  <2> QED
    BY <1>2, <2>2, MemParts
<1>8. InCore'
  BY <1>1, <1>3, <1>4, <1>7, MemParts DEF InCore
<1> QED
  BY <1>5, <1>6, <1>8, MemParts DEF MemInv

LEMMA ForkToSwapMem ==
  ASSUME SchedInv, MemInv, NEW p \in User, NEW r \in User, ForkToSwap(p, r), UNCHANGED mem PROVE MemInv'
<1>1. /\ NewSlot(p, r) /\ cpu' = r /\ stat' = [stat EXCEPT ![r] = "sleep"]
      /\ lock' = [lock EXCEPT ![r] = TRUE]
      /\ pc' = [pc EXCEPT ![p] = "forking", ![r] = "copy data"]
      /\ arg' = [arg EXCEPT ![r] = p]
      /\ UNCHANGED seg
  BY DEF ForkToSwap
<1>3. /\ cpu = p /\ stat[r] = "free" /\ p # r /\ pc[r] = "user" /\ p \in All /\ r \in All
      /\ load' = [load EXCEPT ![r] = TRUE]
  BY <1>1, SlotOf, Table
<1>4. /\ stat'[r] = "sleep" /\ load'[r] /\ lock'[r]
      /\ \A q \in User : q # r => stat'[q] = stat[q] /\ load'[q] = load[q] /\ lock'[q] = lock[q]
  BY <1>1, <1>3, Table, Parts DEF TypeOK
<1>5. /\ pc'[p] = "forking" /\ pc'[S] = pc[S] /\ pc'[X] = pc[X] /\ arg'[S] = arg[S] /\ arg'[X] = arg[X]
      /\ \A q \in User : q # p /\ q # r => pc'[q] = pc[q]
  BY <1>1, <1>3, Table, Parts DEF TypeOK, Places
<1>6. HeldS'
  <2>1. pc[S] \in SPlaces \ {"loop", "pause"} =>
          /\ arg[S] # r /\ stat'[arg[S]] = stat[arg[S]] /\ load'[arg[S]] = load[arg[S]]
          /\ lock'[arg[S]] = lock[arg[S]]
    BY <1>3, <1>4, MemParts
  <2> QED
    BY <1>1, <1>5, <2>1, MemParts DEF HeldS, SPlaces
<1>7. HeldX'
  <2>1. pc[X] # "loop" => arg[X] # r /\ lock'[arg[X]] = lock[arg[X]]
    BY <1>3, <1>4, MemParts
  <2>2. HeldX
    BY MemParts
  <2> QED
    BY <1>4, <1>5, <2>1, <2>2 DEF HeldX
<1>8. HeldC'
  BY <1>4, <1>5, MemParts DEF HeldC, Copies
<1>9. InCore'
  <2>1. Free' = Free
    BY <1>1 DEF Free
  <2> QED
    BY ZenonT(60), <1>1, <1>3, <1>4, <2>1, MemParts DEF InCore
<1> QED
  BY <1>6, <1>7, <1>8, <1>9, MemParts DEF MemInv

(* The end of xswap() leaves the users as they are. *)
LEMMA RouseSwapperCalm ==
  ASSUME SchedInv, NEW rq, NEW tm, RouseSwapper(rq, tm)
  PROVE  \A p \in User : stat'[p] = stat[p]
<1>1. PICK R \in SUBSET {S} : stat' = [p \in All |-> IF p \in R THEN "run" ELSE stat[p]]
  BY RouseSwapperWakes
<1> QED
  BY <1>1, Table

(* The parent is in memory when it goes on: this is where it matters. *)
LEMMA CopyStackMem ==
  ASSUME SchedInv, MemInv, NEW r \in User, CopyStack(r), load[arg[r]], UNCHANGED mem PROVE MemInv'
<1> DEFINE p == arg[r]
<1>1. /\ cpu = r /\ ~dozing /\ pc[r] = "copy stack" /\ cpu' = p
      /\ load' = [load EXCEPT ![r] = FALSE] /\ lock' = [lock EXCEPT ![r] = FALSE]
      /\ RouseSwapper(runq \cup {r}, [time EXCEPT ![r] = 0])
      /\ pc' = [pc EXCEPT ![r] = "user", ![p] = "user"]
      /\ arg' = [arg EXCEPT ![r] = None] /\ UNCHANGED seg
  BY DEF CopyStack, At
<1>2. p \in User /\ p # r /\ load[p] /\ Copies(r) /\ r \in All /\ p \in All
  BY <1>1, Parts, Table DEF Forking, Copies
<1> HIDE DEF p
<1>3. load[r] /\ stat[r] = "run"
  BY <1>1, OnCpu
<1>4. /\ ~load'[r] /\ ~lock'[r]
      /\ \A q \in User : q # r => load'[q] = load[q] /\ lock'[q] = lock[q]
  BY <1>1, <1>2, Table, Parts DEF TypeOK
<1>5. \A q \in User : stat'[q] = stat[q]
  BY <1>1, RouseSwapperCalm
<1>6. /\ pc'[S] = pc[S] /\ pc'[X] = pc[X] /\ arg'[S] = arg[S] /\ arg'[X] = arg[X]
      /\ pc'[r] = "user" /\ pc'[p] = "user" /\ \A q \in User : q # p /\ q # r => pc'[q] = pc[q]
  BY <1>1, <1>2, Table, Parts DEF TypeOK, Places
<1>7. HeldS'
  <2>1. pc[S] \in SPlaces \ {"loop", "pause"} =>
          /\ arg[S] # r /\ stat'[arg[S]] = stat[arg[S]] /\ load'[arg[S]] = load[arg[S]]
          /\ lock'[arg[S]] = lock[arg[S]]
    BY <1>3, <1>4, <1>5, MemParts
  <2> QED
    BY <1>1, <1>6, <2>1, MemParts DEF HeldS, SPlaces
<1>8. HeldX'
  <2>1. pc[X] # "loop" => arg[X] # r /\ lock'[arg[X]] = lock[arg[X]]
    BY <1>3, <1>4, MemParts
  <2>2. \A q \in User : stat'[q] = "xbrk" => q # r
    BY <1>3, <1>5
  <2>3. HeldX
    BY MemParts
  <2> QED
    BY <1>4, <1>5, <1>6, <2>1, <2>2, <2>3 DEF HeldX
<1>9. HeldC'
  BY <1>4, <1>6, MemParts DEF HeldC, Copies
<1>10. InCore'
  <2>1. Free' = Free
    BY <1>1 DEF Free
  <2> QED
    BY <1>1, <1>2, <1>4, <1>5, <2>1, MemParts DEF InCore
<1> QED
  BY <1>7, <1>8, <1>9, <1>10, MemParts DEF MemInv

(* What xswap() works on: it is locked, and no child that is copied. *)
LEMMA OutTarget ==
  ASSUME SchedInv, MemInv, NEW t \in {S, X}, pc[t] \in {"out data", "out stack"}
  PROVE  /\ arg[t] \in User /\ lock[arg[t]] /\ ~Copies(arg[t])
         /\ t = S /\ pc[X] # "loop" => arg[X] # arg[S]
         /\ t = X /\ pc[S] \in SPlaces \ {"loop", "pause"} => arg[S] # arg[X]
         /\ t = S => ~load[arg[S]] /\ stat[arg[S]] # "xbrk"
<1>1. CASE t = S
  BY <1>1, MemParts DEF HeldS, HeldC, SPlaces
<1>2. CASE t = X
  <2>1. arg[X] \in User /\ lock[arg[X]] /\ stat[arg[X]] = "xbrk"
    BY <1>2, MemParts DEF HeldX
  <2>2. ~Copies(arg[X])
    BY <2>1, Parts DEF Places, Copies
  <2> QED
    BY <1>2, <2>1, <2>2, MemParts, Table
<1> QED
  BY <1>1, <1>2

LEMMA OutDataMem == ASSUME SchedInv, MemInv, NEW t \in {S, X}, OutData(t), UNCHANGED mem PROVE MemInv'
<1> DEFINE q == arg[t]
<1>1. /\ cpu = t /\ ~dozing /\ pc[t] = "out data" /\ Sleeps(t, "io", FALSE, "out stack")
      /\ seg' = [seg EXCEPT ![q] = @ \ {"data"}]
      /\ UNCHANGED <<arg, load, lock>>
  BY DEF OutData, At
<1>2. /\ q \in User /\ lock[q] /\ t \in All /\ t \notin User
      /\ t = S /\ pc[X] # "loop" => arg[X] # q
      /\ t = X /\ pc[S] \in SPlaces \ {"loop", "pause"} => arg[S] # q
  BY <1>1, OutTarget, Table
<1>3. /\ pc'[t] = "out stack" /\ cpu' = cpu
      /\ \A p \in All : p # t => stat'[p] = stat[p] /\ pc'[p] = pc[p]
  BY <1>1, <1>2, SleepsOnly
<1>4. \A p \in User : stat'[p] = stat[p] /\ pc'[p] = pc[p]
  BY <1>2, <1>3, Table
<1> HIDE DEF q
<1>5. Free' >= 0
  <2>1. seg[q] \ {"data"} \in SUBSET seg[q] /\ seg' = [seg EXCEPT ![q] = seg[q] \ {"data"}]
    BY <1>1
  <2> QED
    BY <1>2, <2>1, SegLess
<1>6. \A p \in User : p # q => seg'[p] = seg[p]
  BY <1>1, MemParts
<1>7. HeldS'
  <2>1. HeldS
    BY MemParts
  <2>2. CASE t = S
    BY <1>1, <1>2, <1>3, <1>4, <2>1, <2>2 DEF HeldS, q
  <2>3. CASE t = X
    <3>1. pc'[S] = pc[S]
      BY <1>3, <2>3, Table
    <3>2. pc[S] \in SPlaces \ {"loop", "pause"} => arg[S] \in User /\ arg[S] # q
      BY <1>2, <2>3, MemParts
    <3> QED
      BY <1>1, <1>4, <1>6, <2>1, <3>1, <3>2 DEF HeldS, SPlaces
  <2> QED
    BY <2>2, <2>3
<1>8. HeldX'
  <2>1. HeldX
    BY MemParts
  <2>2. t = X => pc[X] = "out data" /\ pc'[X] = "out stack"
    BY <1>1, <1>3
  <2>3. t = S => pc'[X] = pc[X]
    BY <1>3, Table
  <2> QED
    BY <1>1, <1>4, <2>1, <2>2, <2>3 DEF HeldX
<1>9. HeldC'
  BY <1>1, <1>4, MemParts, CalmC DEF Copies
<1>10. InCore'
  <2>1. cpu' \notin User
    BY <1>1, <1>2, <1>3
  <2> QED
    BY <1>1, <1>2, <1>4, <1>5, <1>6, <2>1, MemParts DEF InCore
<1> QED
  BY <1>7, <1>8, <1>9, <1>10, MemParts DEF MemInv

LEMMA OutStackMem == ASSUME SchedInv, MemInv, NEW t \in {S, X}, OutStack(t), UNCHANGED mem PROVE MemInv'
<1> DEFINE q == arg[t]
           next == IF t = X THEN "done" ELSE "loop"
           none == {}
<1>1. /\ cpu = t /\ cpu' = t /\ pc[t] = "out stack" /\ seg' = [seg EXCEPT ![q] = none]
      /\ load' = [load EXCEPT ![q] = FALSE] /\ lock' = [lock EXCEPT ![q] = FALSE]
      /\ RouseSwapper(runq, [time EXCEPT ![q] = 0])
      /\ pc' = [pc EXCEPT ![t] = next] /\ UNCHANGED arg
  BY DEF OutStack, At
<1>2. /\ q \in User /\ ~Copies(q) /\ t \in All /\ t \notin User /\ q \in All /\ q # S /\ q # X
      /\ t = S /\ pc[X] # "loop" => arg[X] # q
      /\ t = X /\ pc[S] \in SPlaces \ {"loop", "pause"} => arg[S] # q
      /\ t = S => stat[q] # "xbrk"
  BY <1>1, OutTarget, Table
<1>3. pc'[t] = next /\ \A p \in All : p # t => pc'[p] = pc[p]
  BY <1>1, <1>2, Parts DEF Places
<1>4. \A p \in User : stat'[p] = stat[p] /\ pc'[p] = pc[p]
  BY <1>1, <1>2, <1>3, RouseSwapperCalm, Table
<1>5. Free' >= 0
  <2>1. none \in SUBSET seg[q]
    OBVIOUS
  <2> HIDE DEF none, q
  <2> QED
    BY <1>1, <1>2, <2>1, SegLess
<1>f. q = arg[t]
  OBVIOUS
<1>l. next = IF t = X THEN "done" ELSE "loop"
  OBVIOUS
<1> HIDE DEF q, next, none
<1>6. /\ ~load'[q] /\ ~lock'[q]
      /\ \A p \in User : p # q => seg'[p] = seg[p] /\ load'[p] = load[p] /\ lock'[p] = lock[p]
  BY <1>1, <1>2, MemParts, Table
<1>7. HeldS'
  <2>1. CASE t = S
    BY <1>3, <1>l, <2>1, Table DEF HeldS
  <2>2. CASE t = X
    <3>1. pc'[S] = pc[S]
      BY <1>3, <2>2, Table
    <3>2. pc[S] \in SPlaces \ {"loop", "pause"} => arg[S] \in User /\ arg[S] # q
      BY <1>2, <2>2, MemParts
    <3>3. HeldS
      BY MemParts
    <3> QED
      BY <1>1, <1>4, <1>6, <3>1, <3>2, <3>3 DEF HeldS, SPlaces
  <2> QED
    BY <2>1, <2>2
<1>8. HeldX'
  <2>1. HeldX
    BY MemParts
  <2>2. CASE t = S
    <3>1. pc'[X] = pc[X]
      BY <1>3, <2>2, Table
    <3>2. pc[X] # "loop" => arg[X] \in User /\ arg[X] # q
      BY <1>2, <2>2, MemParts
    <3> QED
      BY ZenonT(60), <1>1, <1>2, <1>4, <1>6, <2>1, <2>2, <3>1, <3>2 DEF HeldX
  <2>3. CASE t = X
    <3>1. pc'[X] = "done" /\ arg'[X] = q /\ pc[X] = "out stack"
      BY <1>1, <1>3, <1>f, <1>l, <2>3
    <3> QED
      BY <1>4, <1>6, <2>1, <3>1 DEF HeldX
  <2> QED
    BY <2>2, <2>3
<1>9. HeldC'
  BY <1>2, <1>4, <1>6, MemParts DEF HeldC, Copies
<1>10. InCore'
  BY <1>1, <1>2, <1>4, <1>5, <1>6, MemParts DEF InCore
<1> QED
  BY <1>7, <1>8, <1>9, <1>10, MemParts DEF MemInv

(* A step of xsched that takes nobody's memory. *)
LEMMA XLoopMem == ASSUME SchedInv, MemInv, XLoop, UNCHANGED mem PROVE MemInv'
<1>1. cpu = X /\ ~dozing /\ pc[X] = "loop" /\ UNCHANGED load
  BY DEF XLoop, At
<1>2. ASSUME NEW c, NEW l, Sleeps(X, c, FALSE, l)
      PROVE  /\ pc'[X] = l /\ pc'[S] = pc[S] /\ cpu' = X
             /\ \A p \in User : stat'[p] = stat[p] /\ pc'[p] = pc[p]
  <2>0. X \in All
    BY Table
  <2>1. /\ pc'[X] = l /\ cpu' = cpu /\ \A q \in All : q # X => stat'[q] = stat[q] /\ pc'[q] = pc[q]
    BY <1>2, <2>0, SleepsOnly
  <2> QED
    BY <1>1, <2>1, Table
<1>3. CASE xq = <<>>
  <2>1. Sleeps(X, "xw", FALSE, "loop") /\ UNCHANGED <<arg, lock, seg>>
    BY <1>3 DEF XLoop
  <2>2. Calm /\ \A p \in User : Copies(p)' => Copies(p)
    BY <1>2, <2>1 DEF Calm, Copies
  <2>3. pc'[S] = pc[S] /\ pc'[X] = pc[X] /\ cpu' \notin User
    BY <1>1, <1>2, <2>1, Table
  <2> QED
    BY <1>1, <2>1, <2>2, <2>3, CalmMem
<1>4. CASE xq # <<>>
  <2> DEFINE q == Head(xq)
  <2>1. /\ lock' = [lock EXCEPT ![q] = TRUE] /\ arg' = [arg EXCEPT ![X] = q]
        /\ Sleeps(X, "io", FALSE, "out data") /\ UNCHANGED seg
    BY <1>4 DEF XLoop, SwapOut
  <2>2. q \in User
    BY <1>4, Parts DEF TypeOK
  <2> HIDE DEF q
  <2>3. lock'[q] /\ (\A p \in User : lock[p] => lock'[p]) /\ arg'[X] = q /\ arg'[S] = arg[S]
        /\ \A p \in User : arg'[p] = arg[p]
    BY <2>1, <2>2, Table, Parts DEF TypeOK
  <2>4. /\ pc'[X] = "out data" /\ pc'[S] = pc[S] /\ cpu' = X
        /\ \A p \in User : stat'[p] = stat[p] /\ pc'[p] = pc[p]
    BY <1>2, <2>1
  <2>5. HeldS'
    <3>1. pc[S] \in SPlaces \ {"loop", "pause"} => arg[S] \in User
      BY MemParts
    <3>2. HeldS
      BY MemParts
    <3> QED
      BY <1>1, <2>1, <2>3, <2>4, <3>1, <3>2 DEF HeldS, SPlaces
  <2>6. HeldX'
    <3>1. HeldX
      BY MemParts
    <3> QED
      BY <1>1, <2>3, <2>4, <3>1 DEF HeldX
  <2>7. HeldC'
    BY <1>1, <2>3, <2>4, MemParts DEF HeldC, Copies
  <2>8. InCore'
    <3>1. Free' = Free /\ InCore /\ Free >= 0
      BY <2>1, MemParts DEF Free
    <3> QED
      BY <1>1, <2>1, <2>3, <2>4, <3>1, Table DEF InCore
  <2> QED
    BY <2>5, <2>6, <2>7, <2>8, MemParts DEF MemInv
<1> QED
  BY <1>3, <1>4

LEMMA XDoneMem == ASSUME SchedInv, MemInv, XDone, UNCHANGED mem PROVE MemInv'
<1> DEFINE q == arg[X]
<1>1. /\ cpu = X /\ cpu' = X /\ pc[X] = "done" /\ Rouse({q}, stat, time)
      /\ pc' = [pc EXCEPT ![X] = "loop"] /\ arg' = [arg EXCEPT ![X] = None]
      /\ UNCHANGED <<load, lock, seg>>
  BY DEF XDone, At, memory
<1>2. q \in User /\ stat[q] = "xbrk" /\ q = arg[X]
  BY <1>1, MemParts
<1> HIDE DEF q
<1>3. \A p \in User : stat'[p] = IF p = q THEN "run" ELSE stat[p]
  <2>1. {q} \in SUBSET All
    BY <1>2, Table
  <2>2. \A p \in User : stat'[p] = IF p \in {q} THEN "run" ELSE stat[p]
    BY <1>1, <2>1, Times, RouseCalm
  <2> QED
    BY <2>2
<1>4. pc'[X] = "loop" /\ pc'[S] = pc[S] /\ arg'[S] = arg[S] /\ \A p \in User : pc'[p] = pc[p]
  BY <1>1, Table, Parts DEF TypeOK, Places
<1>5. HeldS'
  <2>1. pc[S] \in SPlaces \ {"loop", "pause"} => arg[S] # q /\ stat'[arg[S]] = stat[arg[S]]
    BY <1>2, <1>3, MemParts
  <2> QED
    BY <1>1, <1>4, <2>1, MemParts DEF HeldS, SPlaces
<1>6. HeldX'
  BY ZenonT(60), <1>1, <1>2, <1>3, <1>4, MemParts DEF HeldX
<1>7. HeldC'
  BY <1>1, <1>4, MemParts, CalmC DEF Copies
<1>8. InCore'
  <2>1. Free' = Free
    BY <1>1 DEF Free
  <2>2. \A p \in User : stat'[p] \notin {"free", "zomb"} => stat[p] \notin {"free", "zomb"}
    BY <1>2, <1>3
  <2> QED
    BY <1>1, <2>1, <2>2, MemParts, Table DEF InCore
<1> QED
  BY <1>5, <1>6, <1>7, <1>8, MemParts DEF MemInv

(* What a step of the swapper that takes nobody out does to the users: it  *)
(* may give memory to the one that it brings in, and load him last.        *)
LEMMA SwapperMem ==
  ASSUME SchedInv, MemInv, cpu' \notin User, Free' >= 0, UNCHANGED <<lock, mem>>, HeldS',
         pc'[X] = pc[X], arg'[X] = arg[X],
         \A p \in User : stat'[p] = stat[p] /\ pc'[p] = pc[p] /\ (load[p] => load'[p]),
         \A p \in User : load'[p] => seg'[p] = seg[p] /\ (load[p] \/ seg[p] = Both)
  PROVE  MemInv'
<1>1. HeldX'
  <2>1. HeldX
    BY MemParts
  <2> QED
    BY <2>1 DEF HeldX
<1>2. HeldC'
  <2>1. HeldC
    BY MemParts
  <2> QED
    BY <2>1 DEF HeldC, Copies
<1>3. InCore'
  <2>1. InCore
    BY MemParts
  <2> QED
    BY <2>1 DEF InCore
<1> QED
  BY <1>1, <1>2, <1>3, MemParts DEF MemInv

LEMMA LookMem == ASSUME SchedInv, MemInv, Look, UNCHANGED mem PROVE MemInv'
<1>1. cpu = S /\ pc[S] = "loop" /\ UNCHANGED <<load, lock, seg>>
  BY DEF Look, At, memory
<1>2. Free' >= 0
  BY <1>1, MemParts DEF Free
<1>3. CASE Sleeps(S, "runout", FALSE, "loop") /\ UNCHANGED <<arg, outage>>
  <2>0. S \in All
    BY Table
  <2>1. /\ pc'[S] = "loop" /\ cpu' = cpu /\ \A q \in All : q # S => stat'[q] = stat[q] /\ pc'[q] = pc[q]
    BY <1>3, <2>0, SleepsOnly
  <2>2. HeldS'
    BY <2>1 DEF HeldS
  <2> QED
    BY <1>1, <1>2, <1>3, <2>1, <2>2, SwapperMem, MemParts, Table
<1>4. ASSUME NEW p \in Wanting, arg' = [arg EXCEPT ![S] = p],
             pc' = [pc EXCEPT ![S] = "in data"], UNCHANGED <<queues, cpu, dozing, bad>>
      PROVE  MemInv'
  <2>1. p \in User /\ stat[p] = "run" /\ ~load[p] /\ stat' = stat
    BY <1>4 DEF Wanting, queues
  <2>2. pc'[S] = "in data" /\ \A q \in All : q # S => pc'[q] = pc[q] /\ arg'[q] = arg[q]
    BY <1>4, Table, Parts DEF Places, TypeOK
  <2>3. arg'[S] = p
    BY <1>4, Table, Parts DEF TypeOK
  <2>4. HeldS'
    BY <1>1, <2>1, <2>2, <2>3 DEF HeldS
  <2>5. pc'[X] = pc[X] /\ arg'[X] = arg[X] /\ \A q \in User : pc'[q] = pc[q]
    BY <2>2, Table
  <2> QED
    BY <1>1, <1>2, <1>4, <2>1, <2>4, <2>5, SwapperMem, MemParts, Table
<1> QED
  BY <1>3, <1>4 DEF Look

LEMMA PauseMem == ASSUME SchedInv, MemInv, Pause, UNCHANGED mem PROVE MemInv'
<1>1. cpu = S /\ Sleeps(S, "runin", FALSE, "loop") /\ UNCHANGED <<arg, load, lock, seg>>
  BY DEF Pause, At, memory
<1>2. Free' >= 0
  BY <1>1, MemParts DEF Free
<1>0. S \in All
  BY Table
<1>3. /\ pc'[S] = "loop" /\ cpu' = cpu /\ \A q \in All : q # S => stat'[q] = stat[q] /\ pc'[q] = pc[q]
  BY <1>0, <1>1, SleepsOnly
<1>4. HeldS'
  BY <1>3 DEF HeldS
<1> QED
  BY <1>1, <1>2, <1>3, <1>4, SwapperMem, MemParts, Table

(* Memory that is handed out was free. *)
LEMMA SegMore ==
  ASSUME SchedInv, MemInv, NEW q \in User, NEW A \in SUBSET Both, NEW b \in Both,
         A \subseteq seg[q] \cup {b}, Free >= 1, seg' = [seg EXCEPT ![q] = A], UNCHANGED mem
  PROVE  Free' >= 0
<1>0. mem \in Mems /\ seg \in [User -> SUBSET Both]
  BY MemParts
<1>1. Free' \in Int /\ Free' >= Free - 1
  BY <1>0, SegChange
<1> QED
  BY <1>1, MemParts

LEMMA InDataMem == ASSUME SchedInv, MemInv, InData, UNCHANGED mem PROVE MemInv'
<1> DEFINE q == arg[S]
<1>1. cpu = S /\ pc[S] = "in data" /\ UNCHANGED <<arg, load, lock>> /\ S \in All
  BY Table DEF InData, At
<1>2. q \in User /\ stat[q] = "run" /\ ~load[q] /\ q = arg[S]
  BY <1>1, MemParts DEF HeldS
<1>3. CASE Free >= 1
  <2> DEFINE A == {"data"}
  <2>1. seg' = [seg EXCEPT ![q] = A] /\ Sleeps(S, "io", FALSE, "in stack")
    BY <1>3 DEF InData
  <2>2. A \in SUBSET Both /\ "data" \in Both /\ A \subseteq seg[q] \cup {"data"}
    BY DEF Both
  <2>a. A = {"data"}
    OBVIOUS
  <2> HIDE DEF A, q
  <2>3. Free' >= 0
    BY <1>2, <1>3, <2>1, <2>2, SegMore
  <2>4. /\ pc'[S] = "in stack" /\ cpu' = cpu /\ \A p \in All : p # S => stat'[p] = stat[p] /\ pc'[p] = pc[p]
    BY <1>1, <2>1, SleepsOnly
  <2>5. \A p \in User : stat'[p] = stat[p] /\ pc'[p] = pc[p]
    BY <2>4, Table
  <2>6. seg'[q] = {"data"} /\ \A p \in User : load[p] => seg'[p] = seg[p]
    BY <1>2, <2>1, <2>a, MemParts
  <2>7. HeldS'
    BY <1>1, <1>2, <2>4, <2>5, <2>6 DEF HeldS
  <2>8. pc'[X] = pc[X] /\ cpu' \notin User
    BY <1>1, <2>4, Table
  <2> QED
    BY <1>1, <2>3, <2>5, <2>6, <2>7, <2>8, SwapperMem
<1>4. CASE ~(Free >= 1)
  <2>1. pc' = [pc EXCEPT ![S] = "victim"] /\ UNCHANGED <<seg, stat, cpu>>
    BY <1>4 DEF InData
  <2>2. pc'[S] = "victim" /\ pc'[X] = pc[X] /\ cpu' \notin User /\ \A p \in User : pc'[p] = pc[p]
    BY <1>1, <2>1, Table, Parts DEF Places
  <2>3. Free' >= 0
    BY <2>1, MemParts DEF Free
  <2>4. HeldS'
    BY <1>1, <1>2, <2>1, <2>2 DEF HeldS
  <2> QED
    BY <1>1, <2>1, <2>2, <2>3, <2>4, SwapperMem
<1> QED
  BY <1>3, <1>4

LEMMA InStackMem == ASSUME SchedInv, MemInv, InStack, UNCHANGED mem PROVE MemInv'
<1> DEFINE q == arg[S]
<1>1. cpu = S /\ pc[S] = "in stack" /\ UNCHANGED <<arg, load, lock>> /\ S \in All
  BY Table DEF InStack, At
<1>2. q \in User /\ stat[q] = "run" /\ ~load[q] /\ q = arg[S] /\ seg[q] = {"data"}
  BY <1>1, MemParts DEF HeldS
<1>3. ASSUME NEW l, Sleeps(S, "io", FALSE, l)
      PROVE  /\ pc'[S] = l /\ pc'[X] = pc[X] /\ cpu' \notin User
             /\ \A p \in User : stat'[p] = stat[p] /\ pc'[p] = pc[p]
  <2>1. /\ pc'[S] = l /\ cpu' = cpu /\ \A p \in All : p # S => stat'[p] = stat[p] /\ pc'[p] = pc[p]
    BY <1>1, <1>3, SleepsOnly
  <2> QED
    BY <1>1, <2>1, Table
<1>4. CASE Free >= 1
  <2>1. seg' = [seg EXCEPT ![q] = Both] /\ Sleeps(S, "io", FALSE, "in done")
    BY <1>4 DEF InStack
  <2>2. Both \in SUBSET Both /\ "stack" \in Both /\ Both \subseteq seg[q] \cup {"stack"}
    BY <1>2 DEF Both
  <2> HIDE DEF q
  <2>3. Free' >= 0
    BY <1>2, <1>4, <2>1, <2>2, SegMore
  <2>6. seg'[q] = Both /\ \A p \in User : load[p] => seg'[p] = seg[p]
    BY <1>2, <2>1, MemParts
  <2>4. /\ pc'[S] = "in done" /\ pc'[X] = pc[X] /\ cpu' \notin User
        /\ \A p \in User : stat'[p] = stat[p] /\ pc'[p] = pc[p]
    BY <1>3, <2>1
  <2>5. stat'[q] = "run" /\ arg'[S] = q /\ ~load'[q]
    BY <1>1, <1>2, <2>4
  <2>7. HeldS'
    BY <1>2, <2>4, <2>5, <2>6 DEF HeldS
  <2> QED
    BY <1>1, <2>1, <2>3, <2>4, <2>6, <2>7, SwapperMem
<1>5. CASE ~(Free >= 1)
  <2>1. UNCHANGED seg /\ Sleeps(S, "io", FALSE, "in undo")
    BY <1>5 DEF InStack
  <2>3. Free' >= 0
    BY <2>1, MemParts DEF Free
  <2> HIDE DEF q
  <2>4. /\ pc'[S] = "in undo" /\ pc'[X] = pc[X] /\ cpu' \notin User
        /\ \A p \in User : stat'[p] = stat[p] /\ pc'[p] = pc[p]
    BY <1>3, <2>1
  <2>5. stat'[q] = "run" /\ arg'[S] = q /\ ~load'[q]
    BY <1>1, <1>2, <2>4
  <2>6. HeldS'
    BY <1>2, <2>4, <2>5 DEF HeldS
  <2> QED
    BY <1>1, <2>1, <2>3, <2>4, <2>6, SwapperMem
<1> QED
  BY <1>4, <1>5

LEMMA InUndoMem == ASSUME SchedInv, MemInv, InUndo, UNCHANGED mem PROVE MemInv'
<1> DEFINE q == arg[S]
           none == {}
<1>1. /\ cpu = S /\ pc[S] = "in undo" /\ pc' = [pc EXCEPT ![S] = "victim"] /\ seg' = [seg EXCEPT ![q] = none]
      /\ UNCHANGED <<stat, cpu, arg, load, lock>>
  BY DEF InUndo, At, queues
<1>2. q \in User /\ stat[q] = "run" /\ ~load[q] /\ q = arg[S]
  BY <1>1, MemParts DEF HeldS
<1>3. none \in SUBSET seg[q]
  OBVIOUS
<1> HIDE DEF q, none
<1>4. Free' >= 0
  BY <1>1, <1>2, <1>3, SegLess
<1>5. pc'[S] = "victim" /\ pc'[X] = pc[X] /\ cpu' \notin User /\ \A p \in User : pc'[p] = pc[p]
  BY <1>1, Table, Parts DEF Places
<1>6. \A p \in User : load[p] => seg'[p] = seg[p]
  BY <1>1, <1>2, MemParts
<1>7. HeldS'
  BY <1>1, <1>2, <1>5 DEF HeldS
<1> QED
  BY <1>1, <1>4, <1>5, <1>6, <1>7, SwapperMem

LEMMA InDoneMem == ASSUME SchedInv, MemInv, InDone, UNCHANGED mem PROVE MemInv'
<1> DEFINE q == arg[S]
<1>1. /\ cpu = S /\ pc[S] = "in done" /\ pc' = [pc EXCEPT ![S] = "loop"]
      /\ load' = [load EXCEPT ![q] = TRUE] /\ arg' = [arg EXCEPT ![S] = None]
      /\ UNCHANGED <<stat, cpu, lock, seg>>
  BY DEF InDone, At
<1>2. q \in User /\ seg[q] = Both
  BY <1>1, MemParts DEF HeldS
<1> HIDE DEF q
<1>3. Free' >= 0
  BY <1>1, MemParts DEF Free
<1>4. /\ pc'[S] = "loop" /\ pc'[X] = pc[X] /\ arg'[X] = arg[X] /\ cpu' \notin User
      /\ \A p \in User : pc'[p] = pc[p]
  BY <1>1, Table, Parts DEF Places, TypeOK
<1>5. \A p \in User : (load[p] => load'[p]) /\ (load'[p] => load[p] \/ p = q)
  BY <1>1, Table, MemParts
<1>6. HeldS'
  BY <1>4 DEF HeldS
<1> QED
  BY <1>1, <1>2, <1>3, <1>4, <1>5, <1>6, SwapperMem

LEMMA VictimMem == ASSUME SchedInv, MemInv, Victim, UNCHANGED mem PROVE MemInv'
<1>1. cpu = S /\ pc[S] = "victim" /\ S \in All
  BY Table DEF Victim, At
<1>2. ASSUME NEW q \in CanGo, stat[q] \in {"sleep", "run"}, load' = [load EXCEPT ![q] = FALSE],
             SwapOut(S, q)
      PROVE  MemInv'
  <2>1. q \in User /\ load[q] /\ ~lock[q]
    BY DEF CanGo
  <2>2. /\ lock' = [lock EXCEPT ![q] = TRUE] /\ arg' = [arg EXCEPT ![S] = q]
        /\ Sleeps(S, "io", FALSE, "out data") /\ UNCHANGED seg
    BY <1>2 DEF SwapOut
  <2>3. /\ pc'[S] = "out data" /\ cpu' = cpu /\ \A p \in All : p # S => stat'[p] = stat[p] /\ pc'[p] = pc[p]
    BY <1>1, <2>2, SleepsOnly
  <2>4. /\ pc'[X] = pc[X] /\ cpu' \notin User /\ arg'[S] = q /\ arg'[X] = arg[X]
        /\ \A p \in User : stat'[p] = stat[p] /\ pc'[p] = pc[p]
    BY <1>1, <2>1, <2>2, <2>3, Table, Parts DEF TypeOK
  <2>5. /\ ~load'[q] /\ lock'[q]
        /\ \A p \in User : p # q => load'[p] = load[p] /\ lock'[p] = lock[p]
    BY <1>2, <2>1, <2>2, Table, MemParts
  <2>6. HeldS'
    BY <1>2, <2>1, <2>3, <2>4, <2>5 DEF HeldS
  <2>7. HeldX'
    <3>1. HeldX /\ (pc[X] # "loop" => arg[X] \in User)
      BY MemParts
    <3> QED
      BY ZenonT(60), <1>2, <2>4, <2>5, <3>1 DEF HeldX
  <2>8. HeldC'
    <3>1. HeldC
      BY MemParts
    <3> QED
      BY <2>1, <2>4, <2>5, <3>1 DEF HeldC, Copies
  <2>9. InCore'
    <3>1. Free' = Free
      BY <2>2 DEF Free
    <3>2. InCore /\ Free >= 0
      BY MemParts
    <3> QED
      BY <2>2, <2>4, <2>5, <3>1, <3>2 DEF InCore
  <2> QED
    BY <2>6, <2>7, <2>8, <2>9, MemParts DEF MemInv
<1>3. CASE pc' = [pc EXCEPT ![S] = "pause"] /\ UNCHANGED <<queues, cpu, dozing, arg, memory, signals, bad>>
  <2>1. UNCHANGED <<stat, cpu, arg, load, lock, seg>>
    BY <1>3 DEF queues, memory
  <2>2. pc'[S] = "pause" /\ pc'[X] = pc[X] /\ cpu' \notin User /\ \A p \in User : pc'[p] = pc[p]
    BY <1>1, <1>3, <2>1, Table, Parts DEF Places
  <2>3. Free' >= 0
    BY <2>1, MemParts DEF Free
  <2>4. HeldS'
    BY <2>2 DEF HeldS
  <2> QED
    BY <2>1, <2>2, <2>3, <2>4, SwapperMem, MemParts
<1>4. ASSUME NEW q \in CanGo, Worst(q) \/ Longest(q, Runnable) PROVE stat[q] \in {"sleep", "run"}
  BY <1>4 DEF Worst, Asleep, Longest, Runnable
<1>5. CASE \E q \in CanGo :
              /\ Worst(q) \/ (Asleep = {} /\ Longest(q, Runnable) /\ time[q] >= 2 /\ outage >= 2)
              /\ load' = [load EXCEPT ![q] = FALSE]
              /\ SwapOut(S, q)
  BY <1>2, <1>4, <1>5
<1> QED
  BY <1>3, <1>5 DEF Victim

(* Every step keeps what is said of memory, but for the return of a parent *)
(* that was swapped out.                                                   *)
LEMMA MemStep == SchedInv /\ MemInv /\ Next /\ ~ParentLost => MemInv'
<1> SUFFICES ASSUME SchedInv, MemInv, Next, ~ParentLost PROVE MemInv'
  OBVIOUS
<1>0. UNCHANGED mem
  BY DEF Next
<1>1. CASE Interrupt
  BY <1>0, <1>1, InterruptMem
<1>2. CASE SwitchOut \/ \E p \in All : Dispatch(p)
  BY <1>0, <1>2, SwitchMem
<1>3. CASE Swapper
  BY <1>0, <1>3, LookMem, InDataMem, InStackMem, InUndoMem, InDoneMem, VictimMem, PauseMem, OutDataMem,
     OutStackMem DEF Swapper
<1>4. CASE Grower
  BY <1>0, <1>4, XLoopMem, XDoneMem, OutDataMem, OutStackMem DEF Grower
<1>5. ASSUME NEW p \in User, UserStep(p) PROVE MemInv'
  <2>1. CASE \E r \in User : ForkInCore(p, r) \/ ForkToSwap(p, r)
    BY <1>0, <2>1, ForkInCoreMem, ForkToSwapMem
  <2>2. CASE Exit(p) \/ Reap(p)
    BY <1>0, <2>2, ExitMem, ReapMem
  <2> QED
    BY <1>0, <1>5, <2>1, <2>2, UserMem DEF UserStep
<1>6. ASSUME NEW p \in User, Copy(p) PROVE MemInv'
  <2>1. CASE CopyStack(p)
    <3>1. /\ pc[p] = "copy stack" /\ pc' = [pc EXCEPT ![p] = "user", ![arg[p]] = "user"]
      BY <2>1 DEF CopyStack, At
    <3>2. pc'[p] = "user"
      BY <3>1, Table, Parts DEF Places
    <3>3. load[arg[p]]
      BY <3>1, <3>2 DEF ParentLost
    <3> QED
      BY <1>0, <2>1, <3>3, CopyStackMem
  <2> QED
    BY <1>0, <1>6, <2>1, UserMem DEF Copy
<1> QED
  BY <1>1, <1>2, <1>3, <1>4, <1>5, <1>6 DEF Next

(* There is memory for init. *)
LEMMA MemInit == Init => MemInv
<1> SUFFICES ASSUME Init PROVE MemInv
  OBVIOUS
<1>1. mem \in Mems /\ pc[S] = "loop" /\ pc[X] = "loop"
  BY Table DEF Init
<1>2. HeldS /\ HeldX /\ HeldC
  BY <1>1, Table DEF Init, HeldS, HeldX, HeldC, Copies
<1>3. Free >= 0
  <2> DEFINE T == {}
             a == <<1, "data">>
             b == <<1, "stack">>
  <2>1. Owned(seg) \subseteq T \cup {a, b}
    BY DEF Init, Owned, Both
  <2>2. IsFiniteSet(T) /\ Cardinality(T) = 0
    BY FS_EmptySet
  <2> HIDE DEF T, a, b
  <2>3. Cardinality(Owned(seg)) <= Cardinality(T) + 2 /\ Cardinality(Owned(seg)) \in Nat
    BY <2>1, <2>2, AddTo
  <2>4. Free = mem - Cardinality(Owned(seg)) /\ mem \in Nat /\ mem >= 2
    BY <1>1, FreeOf
  <2> QED
    BY <2>2, <2>3, <2>4
<1>4. InCore
  <2>1. cpu \notin User
    BY Table DEF Init
  <2>2. \A p \in User : stat[p] \notin {"free", "zomb"} => seg[p] = Both
    BY Table DEF Init
  <2> QED
    BY <1>3, <2>1, <2>2 DEF InCore
<1> QED
  BY <1>1, <1>2, <1>4 DEF MemInv

LEMMA MemStutter == MemInv /\ UNCHANGED vars => MemInv'
<1> SUFFICES ASSUME MemInv, UNCHANGED vars PROVE MemInv'
  OBVIOUS
<1>1. UNCHANGED <<stat, cpu, pc, arg, load, lock, seg, mem>>
  BY DEF vars, queues, control, memory
<1>2. Free' = Free
  BY <1>1 DEF Free
<1>3. HeldS' /\ HeldX' /\ HeldC'
  BY <1>1 DEF MemInv, HeldS, HeldX, HeldC, Copies
<1> QED
  BY <1>1, <1>2, <1>3 DEF MemInv, InCore

(* swapin(), xswap(), mmufork(), mmuexpand(): for any number of users no   *)
(* unit of memory is given to two processes, who runs is in memory, and    *)
(* who is loaded has both his segments, also while parents are swapped out *)
(* in the middle of a fork, until one of these returns.                    *)
THEOREM MemoryOfLoaded == MemorySpec => []InCoreUntilLost
<1> DEFINE I == SchedInv /\ (lost \/ MemInv)
<1>1. MemoryInit => I
  BY InitInv, MemInit DEF MemoryInit
<1>2. I /\ [MemoryNext]_<<vars, lost>> => I'
  <2> SUFFICES ASSUME SchedInv, lost \/ MemInv, [MemoryNext]_<<vars, lost>> PROVE I'
    OBVIOUS
  <2>1. CASE ~lost /\ Next /\ lost' = ParentLost
    BY <2>1, StepInv, MemStep
  <2>2. CASE UNCHANGED <<vars, lost>>
    BY <2>2, StutterInv, MemStutter
  <2> QED
    BY <2>1, <2>2 DEF MemoryNext
<1>3. I => InCoreUntilLost
  BY DEF InCoreUntilLost, MemInv
<1> HIDE DEF I
<1> QED
  BY <1>1, <1>2, <1>3, PTL DEF MemorySpec
=============================================================================
