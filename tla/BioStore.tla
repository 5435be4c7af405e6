------------------------------- MODULE BioStore -------------------------------
(***************************************************************************)
(* The buffer cache implements the block store with write-behind, for the  *)
(* blocks of the devices that do not fail.                                 *)
(***************************************************************************)
EXTENDS Bio

(* A buffer speaks for its block when its transfer is done without an error, *)
(* or when it is being written.                                              *)
Valid(b) == \/ "DONE" \in flags[b] /\ "ERROR" \notin flags[b]
            \/ b \in ioq /\ "READ" \notin flags[b]

Kept == {k \in Block : DevOf[k] \notin FailDev}

Contents(k) == LET V == {b \in Match(k) : Valid(b)} IN
               IF V = {} THEN disk[k] ELSE data[CHOOSE b \in V : TRUE]

UserBlock(p) == IF pc[p] = "hold" /\ blk[frame[p].bp] \in Kept THEN blk[frame[p].bp] ELSE NoBlk
UserSees(p)  == IF UserBlock(p) # NoBlk /\ Valid(frame[p].bp) /\ ~ frame[p].uerror
                THEN data[frame[p].bp] ELSE Garbage

Store == INSTANCE BlockStore WITH
           Block   <- Kept,
           current <- [k \in Kept |-> Contents(k)],
           durable <- [k \in Kept |-> disk[k]],
           user    <- [p \in Proc |-> UserBlock(p)],
           seen    <- [p \in Proc |-> UserSees(p)]

(* Whatever the interleaving of processes, evictions, read-aheads, flushes   *)
(* and interrupts, a process that gets a block sees what was last written to *)
(* it, alone, and nothing written is lost; the errors of the devices that    *)
(* fail, whose own blocks are excluded (see BlockRead), do not change that.  *)
ImplementsStore == Store!Spec
=============================================================================
