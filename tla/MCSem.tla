-------------------------------- MODULE MCSem --------------------------------
(* Instances of Sem for TLC.  An operation is (sem_num, sem_op, sem_flg). *)
EXTENDS Sem

O(num, op)   == [num |-> num, op |-> op, undo |-> FALSE, nowait |-> FALSE]
U(num, op)   == [num |-> num, op |-> op, undo |-> TRUE,  nowait |-> FALSE]
NW(num, op)  == [num |-> num, op |-> op, undo |-> TRUE,  nowait |-> TRUE]

(* Vectors over two semaphores with undo, that are taken back half done. *)
TwoSems == { <<U(0, -1), U(1, -1)>>, <<U(1, 1), O(0, 1)>>, <<O(1, 0), U(0, 2)>>,
             <<U(0, 1), NW(1, -2)>>, <<U(0, 1)>> }

=============================================================================
