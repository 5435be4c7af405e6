-------------------------------- MODULE Pool --------------------------------
(***************************************************************************)
(* What a resource map promises: runs of units are handed out and come     *)
(* back, no unit is held twice, and a request waits only while there is no *)
(* run of free units as long as it asks for.                               *)
(***************************************************************************)
EXTENDS Integers

CONSTANTS Proc, Units, Sizes, Nothing
VARIABLES free,   \* the free units
          held,   \* the runs that are held, records of addr and size
          need    \* the size each process waits for, or Nothing

vars == <<free, held, need>>

Run(a, n) == a .. a + n - 1
Runs(n)   == {a \in Units : Run(a, n) \subseteq free}

Init == free = Units /\ held = {} /\ need = [p \in Proc |-> Nothing]

Take(p, a, n) ==
  /\ a \in Runs(n)
  /\ need[p] \in {Nothing, n}
  /\ free' = free \ Run(a, n)
  /\ held' = held \cup {[addr |-> a, size |-> n]}
  /\ need' = [need EXCEPT ![p] = Nothing]

Wait(p, n) ==
  /\ Runs(n) = {}
  /\ need[p] = Nothing
  /\ need' = [need EXCEPT ![p] = n]
  /\ UNCHANGED <<free, held>>

GiveUp(p) ==
  /\ need' = [need EXCEPT ![p] = Nothing]
  /\ UNCHANGED <<free, held>>

(* A run comes back, or is lost when the map cannot record it. *)
Return(r) ==
  /\ held' = held \ {r}
  /\ free' \in {free, free \cup Run(r.addr, r.size)}
  /\ UNCHANGED need

Next == \/ \E p \in Proc, n \in Sizes :
             Wait(p, n) \/ GiveUp(p) \/ \E a \in Units : Take(p, a, n)
        \/ \E r \in held : Return(r)

Spec == Init /\ [][Next]_vars
=============================================================================
