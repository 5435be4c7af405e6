----------------------------- MODULE SchedMemory -----------------------------
(***************************************************************************)
(* Who is in memory, for any number of users.  mmucreate() means to keep   *)
(* the swapper away from a parent whose child is being written to swap,    *)
(* but sets SIDL on the child (io/mmu1.c:239), so that the parent may be   *)
(* taken; see CopyWhole in Sched.  lost says that such a parent has        *)
(* returned from newproc() without its memory.  From then on anything may  *)
(* happen to it, and the behaviour is not followed any further.            *)
(***************************************************************************)
EXTENDS Sched

VARIABLE lost

MemoryInit == Init /\ lost = FALSE

ParentLost == \E r \in User : pc[r] = "copy stack" /\ pc'[r] = "user" /\ ~load[arg[r]]

MemoryNext == \/ ~lost /\ Next /\ lost' = ParentLost
              \/ lost /\ UNCHANGED <<vars, lost>>

MemorySpec == MemoryInit /\ [][MemoryNext]_<<vars, lost>>

(* Memory suffices for what is in it, the one that runs is in memory, and  *)
(* who is loaded and not on the way out has both segments there: no other  *)
(* process was given one of them, also while parents are swapped out in    *)
(* the middle of a fork.  Excluded is what comes after such a parent has   *)
(* returned, where the code fails.                                         *)
InCoreUntilLost == lost \/ InCore
=============================================================================
