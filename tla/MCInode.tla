------------------------------- MODULE MCInode -------------------------------
(* Instances of Inode for TLC. *)
EXTENDS InodeNames

Names == <<1, 0, 3>>

On(C, N) == {<<c, n>> \in C \X (Name \cup {0}) : IF c \in {"close", "sync", "pipe"} THEN n = 0 ELSE n \in N}

(* One process that opens a file. *)
Opens == {<<On({"open"}, {1})>>}

(* The calls that meet, each pair of processes a workload. *)
Pairs ==
  {<<On({"creat", "unlink"}, {1}), On({"pipe", "close"}, {})>>,
   <<On({"unlink"}, {1}), On({"creat", "open", "close"}, {1})>>,
   <<On({"creat", "unlink", "close"}, {1}), On({"sync"}, {})>>,
   <<On({"link", "unlink"}, {1, 2}), On({"open", "close", "sync"}, {1})>>,
   <<On({"open", "close"}, {1, 3}), On({"pipe", "open", "close"}, {1, 3})>>}

(* One process links a file that the other removes or creates. *)
Races ==
  {<<On({"link", "unlink"}, {1, 2}), On({"link", "unlink"}, {1, 2})>>,
   <<On({"link"}, {1, 2}), On({"unlink", "creat"}, {1})>>}

(* Calls that go on after the block of the first inode could not be read.  *)
Faulty ==
  {<<On({"creat"}, {1}), On({"pipe"}, {})>>,
   <<On({"creat", "close"}, {1}), On({"unlink"}, {1})>>,
   <<On({"link", "unlink"}, {1, 2}), On({"open", "sync"}, {1})>>}

All        == Pairs \cup Races \cup Faulty
FaultyAt   == Faulty \X {0}
OpensAt    == Opens \X {0, 1, 2}
=============================================================================
