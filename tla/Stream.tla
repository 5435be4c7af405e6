-------------------------------- MODULE Stream --------------------------------
(***************************************************************************)
(* What a pipe promises: one stream of bytes.  A write of up to Cap bytes   *)
(* goes in at one moment, a longer one in pieces; bytes come out once, in  *)
(* the order they went in; a reader is told of the end only when all is    *)
(* read and nobody can write, a writer of a broken pipe only when nobody   *)
(* can read.                                                               *)
(***************************************************************************)
EXTENDS Naturals, Sequences

CONSTANTS Proc, Cap

VARIABLES q,        \* the bytes that are in the pipe
          todo,     \* what is left of the write of each process
          got,      \* what the read of each process has got
          told,     \* how the last call of each process ended
          readers, writers

vars == <<q, todo, got, told, readers, writers>>

Init ==
  /\ q = <<>>
  /\ todo = [p \in Proc |-> <<>>]
  /\ got = [p \in Proc |-> <<>>]
  /\ told = [p \in Proc |-> "none"]
  /\ readers = writers /\ readers \in {0, 1}

Begin(p) ==
  /\ todo[p] = <<>>
  /\ todo' = [todo EXCEPT ![p] = todo'[p]]
  /\ got' = [got EXCEPT ![p] = <<>>]
  /\ told' = [told EXCEPT ![p] = "none"]
  /\ UNCHANGED <<q, readers, writers>>

Send(p, k) ==
  /\ k \in 1 .. Len(todo[p])
  /\ Len(todo[p]) <= Cap => k = Len(todo[p])
  /\ Len(q) + k <= Cap
  /\ q' = q \o SubSeq(todo[p], 1, k)
  /\ todo' = [todo EXCEPT ![p] = SubSeq(@, k + 1, Len(@))]
  /\ told' \in {told, [told EXCEPT ![p] = IF todo'[p] = <<>> THEN "done" ELSE @]}
  /\ UNCHANGED <<got, readers, writers>>

Receive(p, k) ==
  /\ k \in 1 .. Len(q)
  /\ got' = [got EXCEPT ![p] = @ \o SubSeq(q, 1, k)]
  /\ q' = SubSeq(q, k + 1, Len(q))
  /\ UNCHANGED <<todo, told, readers, writers>>

End(p, how) ==
  /\ how = "eof" => q = <<>> /\ writers = 0
  /\ how = "pipe" => readers = 0
  /\ how = "done" => todo[p] = <<>>
  /\ told' = [told EXCEPT ![p] = how]
  /\ todo' = [todo EXCEPT ![p] = <<>>]
  /\ got' = [got EXCEPT ![p] = <<>>]
  /\ UNCHANGED <<q, readers, writers>>

(* An open or a close; the last close empties the pipe. *)
Recount ==
  /\ q' = IF readers' + writers' = 0 THEN <<>> ELSE q
  /\ \E p \in Proc : told' = [told EXCEPT ![p] = "none"]
  /\ UNCHANGED <<todo, got>>

Next == \/ \E p \in Proc : Begin(p)
        \/ \E p \in Proc : \E k \in 1 .. Len(todo[p]) : Send(p, k)
        \/ \E p \in Proc : \E k \in 1 .. Len(q) : Receive(p, k)
        \/ \E p \in Proc, how \in {"none", "done", "eof", "pipe"} : End(p, how)
        \/ Recount

Spec == Init /\ [][Next]_vars
=============================================================================
