----------------------------- MODULE FreeBlocks -----------------------------
(***************************************************************************)
(* What the allocation of disk blocks promises: a block that is taken was  *)
(* free, a block that is given back is free again, and who is told that    *)
(* there is no space is told so when no block is free, or because the rest *)
(* of the free list cannot be read, and then it is lost.                   *)
(***************************************************************************)
EXTENDS Naturals

CONSTANTS Proc, Block, Lossy
VARIABLES free,    \* the free blocks
          held,    \* the blocks each process has
          told     \* who is told that there is no space

vars == <<told, held, free>>

Init ==
  /\ held \in [Proc -> SUBSET Block]
  /\ \A p, q \in Proc : p # q => held[p] \cap held[q] = {}
  /\ free = Block \ UNION {held[p] : p \in Proc}
  /\ told = [p \in Proc |-> FALSE]

Back(p) ==
  /\ told' = [told EXCEPT ![p] = FALSE]
  /\ UNCHANGED <<held, free>>

Take(p) == \E b \in Block \ held[p] :
  /\ held' = [held EXCEPT ![p] = @ \cup {b}]
  /\ UNCHANGED told
  /\ b \in free
  /\ free' = free \ {b}

Refuse(p) ==
  /\ told' = [told EXCEPT ![p] = TRUE]
  /\ UNCHANGED <<held, free>>
  /\ free = {}

Lose(p) ==
  /\ Lossy
  /\ told' = [told EXCEPT ![p] = TRUE]
  /\ UNCHANGED held
  /\ free' = {}

Give(p) == \E b \in held[p] :
  /\ held' = [held EXCEPT ![p] = @ \ {b}]
  /\ UNCHANGED told
  /\ free' = free \cup {b}

Next == \E p \in Proc : Back(p) \/ Take(p) \/ Refuse(p) \/ Lose(p) \/ Give(p)

Spec == Init /\ [][Next]_vars
=============================================================================
