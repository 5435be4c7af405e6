------------------------------- MODULE Callout -------------------------------
(***************************************************************************)
(* The callout table of uts/m68k/os/clock.c: timeout(), timein() and the   *)
(* part of clock() that counts ticks.                                      *)
(*                                                                         *)
(* The clock interrupts at level 6 (cf/dfile.m4).  timein(), called by     *)
(* clock(), calls the functions that are due at level 5, and so a clock    *)
(* interrupt that comes before they are done runs another timein() inside  *)
(* the first.  Whether that happens is the constant Overrun: it takes      *)
(* functions that together last longer than a tick.                        *)
(*                                                                         *)
(* The c_time of an entry without function is 0 here: the code changes it, *)
(* and never uses it without having looked at c_func.                      *)
(***************************************************************************)
EXTENDS Integers, FiniteSetsExt, SequencesExt

CONSTANTS Func,     \* functions with their argument, each asked for once at a time
          Ticks,    \* the delays asked for; no caller asks for less than a tick
          NCALL,    \* v.v_call, entries of the table
          Overrun,  \* the functions called by one timein() may outlast a tick
          MaxNest,  \* bound on timein() inside timein()
          NoFunc, Idle

ASSUME CalloutAssumption ==
  /\ NCALL \in Nat /\ NCALL >= 2 /\ MaxNest \in Nat \ {0}
  /\ Ticks \subseteq Nat \ {0} /\ Overrun \in BOOLEAN
  /\ NoFunc \notin Func /\ Idle \notin Nat

VARIABLES callout,  \* the table
          timein    \* for each timein() under way, the innermost first: p1, the
                    \* number of entries it has called or is calling

vars == <<callout, timein>>

Entry == [time : Int, func : Func \cup {NoFunc}]
Null  == [time |-> 0, func |-> NoFunc]

Init == /\ callout = [i \in 0 .. NCALL - 1 |-> Null]
        /\ timein = <<>>

(* The first entry without function, and the ticks until entry i is due. *)
End    == Min({i \in 0 .. NCALL - 1 : callout[i].func = NoFunc})
Due(i) == MapThenSumSet(LAMBDA j : callout[j].time, 0 .. i)

Overflow == callout[NCALL - 2].func # NoFunc     \* panic("Timeout table overflow")

(* Mutant: the entry that follows keeps its time. *)
TimeoutShifts(f, t) ==
  LET p1 == Min({i \in 0 .. End : i = End \/ Due(i) > t})
      rest == t - (IF p1 = 0 THEN 0 ELSE Due(p1 - 1))
  IN /\ ~Overflow
     /\ callout' = [i \in 0 .. NCALL - 1 |->
          CASE i = p1                    -> [time |-> rest, func |-> f]
            [] i \in p1 + 1 .. End + 1   -> callout[i - 1]
            [] OTHER                     -> callout[i]]
     /\ UNCHANGED timein

(* timeout(f, , t): the entry goes before the first one that is due later, *)
(* whose time becomes relative to it; the others move up.                  *)
Timeout(f, t) ==
  LET p1 == Min({i \in 0 .. End : i = End \/ Due(i) > t})
      rest == t - (IF p1 = 0 THEN 0 ELSE Due(p1 - 1))
      later == IF p1 = End THEN Null ELSE [callout[p1] EXCEPT !.time = @ - rest]
  IN /\ ~Overflow
     /\ callout' = [i \in 0 .. NCALL - 1 |->
          CASE i = p1                    -> [time |-> rest, func |-> f]
            [] i = p1 + 1                -> later
            [] i \in p1 + 2 .. End + 1   -> callout[i - 1]
            [] OTHER                     -> callout[i]]
     /\ UNCHANGED timein

(* clock(): the first entry with time to go is counted down, and timein()  *)
(* is entered if the first entry is due.                                   *)
Clock ==
  LET cp == Min({i \in 0 .. NCALL - 1 : callout[i].func = NoFunc \/ callout[i].time > 0})
      c == IF callout[cp].func = NoFunc THEN callout
           ELSE [callout EXCEPT ![cp].time = @ - 1]
  IN /\ timein = <<>> \/ (Overrun /\ Len(timein) < MaxNest)
     /\ callout' = c
     /\ timein' = IF c[0].func # NoFunc /\ c[0].time <= 0 THEN <<0>> \o timein ELSE timein

P1 == Head(timein)

(* Mutant: an entry is called a tick too late. *)
IsDueLate(i) == callout[i].func # NoFunc /\ callout[i].time < 0

IsDue(i) == callout[i].func # NoFunc /\ callout[i].time <= 0

(* The loop of timein() goes on to entry p1: the call before has returned, *)
(* the function of p1 is called.  The function may call timeout().   *)
Call == /\ timein # <<>> /\ IsDue(P1)
        /\ timein' = [timein EXCEPT ![1] = @ + 1]
        /\ UNCHANGED callout

(* No more entry is due: the ones from p1 on are moved to the front. *)
Compact ==
  LET moved == Min({i \in P1 .. NCALL - 1 : callout[i].func = NoFunc}) - P1
  IN /\ timein # <<>> /\ ~IsDue(P1)
     /\ callout' = [i \in 0 .. NCALL - 1 |->
                      IF i < moved THEN callout[i + P1]
                      ELSE IF i = moved THEN Null ELSE callout[i]]
     /\ timein' = Tail(timein)

(* Who asks waits until the function was called before he asks for it      *)
(* again, as delay() does.                                                 *)
Asked(f) == \E i \in 0 .. End - 1 : callout[i].func = f

Next == \/ \E f \in Func, t \in Ticks : ~Asked(f) /\ Timeout(f, t)
        \/ Clock \/ Call \/ Compact

(* Ticks come, and timein() goes on when it is not interrupted. *)
Fairness == WF_vars(Clock) /\ WF_vars(Call \/ Compact)
Spec == Init /\ [][Next]_vars
FairSpec == Spec /\ Fairness

------------------------------------------------------------------------------
(* Every variable keeps its type; the last entry never has a function, so  *)
(* that every loop over the table ends in it (timeout, "v.v_call-2").      *)
TypeOK == /\ callout \in [0 .. NCALL - 1 -> Entry]
          /\ callout[NCALL - 1].func = NoFunc
          /\ Len(timein) <= MaxNest /\ \A i \in DOMAIN timein : timein[i] \in 0 .. NCALL - 1
          /\ \A i \in 0 .. NCALL - 1 : callout[i].time >= 0

(* The ticks left to each function that is still to be called. *)
Called(i) == timein # <<>> /\ i < P1
Left == [f \in Func |->
           LET I == {i \in 0 .. End - 1 : callout[i].func = f /\ ~Called(i)}
           IN IF I = {} THEN Idle ELSE Due(Min(I))]

Timers == INSTANCE Timer WITH left <- Left

(* Each function is called once, at the tick it was asked for and before   *)
(* the next one, whatever other functions ask for meanwhile (timeout's     *)
(* comment, "arrange that fun(arg) is called in tim/HZ seconds").          *)
ImplementsTimer == Timers!Spec /\ []TypeOK

(* Each function is called once for each time it was asked for, early or   *)
(* late.                                                                   *)
CalledOnce == Timers!LateSpec

(* A function that is asked for is called. *)
AskedIsCalled == \A f \in Func : Left[f] # Idle ~> Left[f] = Idle
=============================================================================
