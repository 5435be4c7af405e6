-------------------------------- MODULE Timer --------------------------------
(***************************************************************************)
(* What timeout(fun, arg, tim) promises: fun(arg) is called once, at the   *)
(* tick that is tim ticks away.                                            *)
(***************************************************************************)
EXTENDS Integers

CONSTANTS Func, Ticks, Idle
VARIABLE left    \* the ticks until each function is due, Idle if it is not asked for

Init == left = [f \in Func |-> Idle]

Ask(f, t) == left[f] = Idle /\ left' = [left EXCEPT ![f] = t]

(* The next tick comes when what was due at the last one has been called. *)
Tick == /\ \A f \in Func : left[f] # 0
        /\ left' = [f \in Func |-> IF left[f] = Idle THEN Idle ELSE left[f] - 1]

Call(f) == left[f] = 0 /\ left' = [left EXCEPT ![f] = Idle]

Next == Tick \/ \E f \in Func : Call(f) \/ \E t \in Ticks : Ask(f, t)

Spec == Init /\ [][Next]_left

(* The same without the promise of when: ticks may pass over what is due. *)
LateTick == left' = [f \in Func |-> IF left[f] \in {Idle, 0} THEN left[f] ELSE left[f] - 1]

LateSpec == Init /\ [][LateTick \/ Next]_left
=============================================================================
