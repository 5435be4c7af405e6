------------------------------ MODULE InodeNames ------------------------------
(***************************************************************************)
(* What i_nlink says of the names, for any calls.  The kernel is not       *)
(* preempted: where the code cannot sleep the process that runs goes on,   *)
(* also when it holds no lock (Inode lets others run there too).           *)
(*                                                                         *)
(* namei() releases the directory before it calls iget() (os/nami.c:       *)
(* 219-220), which may sleep for the inode.  link() may get one then whose *)
(* last name was removed in between, and which iput() has freed, and enter *)
(* a name for it.  late says that this has happened.                       *)
(***************************************************************************)
EXTENDS Inode

VARIABLES run,   \* who goes on: nobody (0), or the process that made the last step
          late

NamesInit == Init /\ run = 0 /\ late = FALSE

(* From a release into the next call, without a sleep.                     *)
GoesOn(p) ==
  \/ pc'[p] \in {"iget", "out"} /\ pc[p] # pc'[p]
  \/ pc'[p] = "namei" /\ pc[p] = "isync"
  \/ pc'[p] \in {"ialloc", "sync"} /\ pc[p] \in {"iput", "iput2", "iget"}

Runs == run' = IF \E p \in Proc : GoesOn(p) THEN CHOOSE p \in Proc : GoesOn(p) ELSE 0

(* link() counts a name of an inode that is free. *)
LateLink == \E p \in Proc : /\ pc[p] = "got" /\ pc'[p] = "isync" /\ u[p].op = "link"
                            /\ inode[u[p].ip].mode = 0

NamesNext ==
  \/ /\ \E p \in Proc : (run = 0 \/ run = p) /\ (Step(p) \/ User(p))
     /\ Runs
     /\ late' = (late \/ LateLink)
  \/ Flush /\ UNCHANGED <<run, late>>

NamesSpec == NamesInit /\ [][NamesNext]_<<vars, run, late>>

(* Every block of inodes can be read. *)
Readable == \A f \in Flaky : f[1] # may

(* Whoever links, unlinks, creates and opens, a crash leaves a name only   *)
(* of an inode that is allocated and counts it.  Excluded is what comes    *)
(* after link() has got a free inode, and after a block of inodes could    *)
(* not be read, where the code fails.                                      *)
RobustUnlessLate == Readable /\ ~late => Robust

(* Likewise i_nlink is the number of directory entries: unlink() of the    *)
(* file while link() has it unlocked, the race of the comment at           *)
(* os/sys2.c:266-268, does not change that.                                *)
LinksUnlessLate == Readable /\ ~late => LinksExact
===============================================================================
