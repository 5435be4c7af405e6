------------------------------ MODULE BlockStore ------------------------------
(***************************************************************************)
(* What the buffer cache promises to the file system: a store of blocks    *)
(* with write-behind.  A process acquires a block, alone, sees its current *)
(* contents (or sees nothing, of a block it did not ask to read), and      *)
(* replaces them or lets go.  The device follows later.                    *)
(***************************************************************************)
CONSTANTS Proc, Block, Val, NoBlk, Garbage

VARIABLES current,  \* the contents of a block as its next user sees them
          durable,  \* the contents on the device
          user,     \* the block each process has acquired
          seen      \* what it sees in it

store == <<current, durable, user, seen>>

Init ==
  /\ durable \in [Block -> Val]
  /\ current = durable
  /\ user = [p \in Proc |-> NoBlk]
  /\ seen = [p \in Proc |-> Garbage]

LetGo(p) ==
  /\ user' = [user EXCEPT ![p] = NoBlk]
  /\ seen' = [seen EXCEPT ![p] = Garbage]

Acquire(p, k) ==
  /\ user[p] = NoBlk
  /\ \A q \in Proc : user[q] # k
  /\ user' = [user EXCEPT ![p] = k]
  /\ \E v \in {current[k], Garbage} : seen' = [seen EXCEPT ![p] = v]
  /\ UNCHANGED <<current, durable>>

Release(p) ==
  /\ user[p] # NoBlk
  /\ LetGo(p)
  /\ UNCHANGED <<current, durable>>

Update(p, v) ==
  /\ user[p] # NoBlk
  /\ current' = [current EXCEPT ![user[p]] = v]
  /\ LetGo(p)
  /\ UNCHANGED durable

Persist(k) ==
  /\ durable' = [durable EXCEPT ![k] = current[k]]
  /\ UNCHANGED <<current, user, seen>>

Next ==
  \/ \E p \in Proc : Release(p) \/ (\E k \in Block : Acquire(p, k)) \/ (\E v \in Val : Update(p, v))
  \/ \E k \in Block : Persist(k)

Spec == Init /\ [][Next]_store
=============================================================================
