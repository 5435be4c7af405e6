------------------------------ MODULE MCSched ------------------------------
(* An instance of SchedMemory for TLC. *)
EXTENDS SchedMemory

(* Two users with events, signals and growth; a third only while there are   *)
(* none of these.                                                            *)
Quiet   == xq = <<>> /\ \A p \in User : chan[p] \notin Events /\ "other" \notin sig[p]
Bounded == Quiet \/ \A p \in User : p > 2 => stat[p] = "free"

(* The state without the values that are set again before any step reads     *)
(* them, so that TLC takes states that differ only in these for one: the     *)
(* p_pri of a process that neither sleeps nor is on the way to swtch(), the  *)
(* p_time of a slot that is free or dead, and outage while sched() is in its *)
(* search.                                                                   *)
Kept ==
  <<stat, chan, runq, runout, control, memory, signals, runin, xq, xw, mem, lost,
    {p \in All : bad[p] /\ (stat[p] = "sleep" \/ (cpu = p /\ dozing))},
    [p \in User |-> IF stat[p] \in {"free", "zomb"} THEN 0 ELSE time[p]],
    IF pc[S] = "loop" THEN 0 ELSE outage>>
=============================================================================
