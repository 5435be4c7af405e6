------------------------------ MODULE AtomicSem ------------------------------
(***************************************************************************)
(* What semop(), semctl() and exit() promise of semaphore sets: a vector   *)
(* of operations is performed in one step, all of it or none of it, and    *)
(* the adjustments of the operations with SEM_UNDO are kept for exit.      *)
(* How a process waits is not said here: it wants a request until the      *)
(* request is performed or given up.                                       *)
(***************************************************************************)
EXTENDS Integers, Sequences, Functions

CONSTANTS Proc,     \* processes
          Id,       \* semaphore set identifiers
          SEMMSL,   \* semaphores of a set
          Vector,   \* operation vectors of semop()
          SEMVMX,   \* the largest value of a semaphore
          SEMAEM,   \* the largest adjustment
          NoCall

VARIABLES val,   \* the values of each existing set, val[id][num]
          adj,   \* the nonzero adjustments of each process, adj[p][<<id, num>>]
          want   \* the request <<id, ops>> a process waits for

vars == <<val, adj, want>>

(* The sum of the first k numbers of f, for each k. *)
Sums(f) == LET sum[k \in 0 .. Len(f)] == IF k = 0 THEN 0 ELSE sum[k - 1] + f[k] IN sum

(* What each operation adds to semaphore n, and what it leaves to be undone. *)
Adds(ops, n)  == [i \in DOMAIN ops |-> IF ops[i].num = n THEN ops[i].op ELSE 0]
Undos(ops, n) == [i \in DOMAIN ops |-> IF ops[i].num = n /\ ops[i].undo THEN ops[i].op ELSE 0]

(* Operation i finds the value that the earlier ones on its semaphore left. *)
Found(v, ops, i) == v[ops[i].num] + Sums(Adds(ops, ops[i].num))[i - 1]

Executable(v, ops) ==
  \A i \in DOMAIN ops :
    /\ ops[i].num \in DOMAIN v
    /\ ops[i].op < 0 => Found(v, ops, i) + ops[i].op >= 0
    /\ ops[i].op > 0 => Found(v, ops, i) + ops[i].op <= SEMVMX
    /\ ops[i].op = 0 => Found(v, ops, i) = 0

After(v, ops)  == [n \in DOMAIN v |-> v[n] + Sums(Adds(ops, n))[Len(ops)]]
Undone(ops, n) == Sums(Undos(ops, n))[Len(ops)]

(* Adjustments as a total function, and the nonzero ones of a total one. *)
Amount(a, k)  == IF k \in DOMAIN a THEN a[k] ELSE 0
Nonzero(f)    == Restrict(f, {k \in DOMAIN f : f[k] # 0})

Adjusted(a, id, ops) ==
  Nonzero([k \in DOMAIN a \cup {<<id, ops[i].num>> : i \in DOMAIN ops} |->
             Amount(a, k) - (IF k[1] = id THEN Undone(ops, k[2]) ELSE 0)])

Dropped(a, K) == Restrict(a, DOMAIN a \ K)

Init == /\ val = [id \in {} |-> <<>>]
        /\ adj = [p \in Proc |-> [k \in {} |-> 0]]
        /\ want = [p \in Proc |-> NoCall]

Create(id, n) ==
  /\ id \notin DOMAIN val
  /\ val' = [i \in DOMAIN val \cup {id} |->
               IF i = id THEN [num \in 0 .. n - 1 |-> 0] ELSE val[i]]
  /\ UNCHANGED <<adj, want>>

Destroy(id) ==
  /\ val' = Restrict(val, DOMAIN val \ {id})
  /\ adj' = [p \in Proc |-> Dropped(adj[p], {k \in DOMAIN adj[p] : k[1] = id})]
  /\ UNCHANGED want

(* Setting values forgets what the processes would have undone of them. *)
Set(id, new) ==
  /\ val' = [val EXCEPT ![id] = [n \in DOMAIN @ |-> IF n \in DOMAIN new THEN new[n] ELSE @[n]]]
  /\ adj' = [p \in Proc |-> Dropped(adj[p], {<<id, n>> : n \in DOMAIN new})]
  /\ UNCHANGED want

Perform(p, id, ops) ==
  /\ want[p] \in {NoCall, <<id, ops>>}
  /\ Executable(val[id], ops)
  /\ val' = [val EXCEPT ![id] = After(@, ops)]
  /\ adj' = [adj EXCEPT ![p] = Adjusted(@, id, ops)]
  /\ \A k \in DOMAIN adj'[p] : adj'[p][k] \in -SEMAEM .. SEMAEM
  /\ want' = [want EXCEPT ![p] = NoCall]

Wait(p, id, ops) ==
  /\ want[p] = NoCall
  /\ ~Executable(val[id], ops)
  /\ want' = [want EXCEPT ![p] = <<id, ops>>]
  /\ UNCHANGED <<val, adj>>

GiveUp(p) ==
  /\ want[p] # NoCall
  /\ want' = [want EXCEPT ![p] = NoCall]
  /\ UNCHANGED <<val, adj>>

(* Each adjustment is added to its semaphore unless that leaves its range. *)
Exit(p) ==
  /\ want[p] = NoCall
  /\ LET sum(id, n) == val[id][n] + Amount(adj[p], <<id, n>>) IN
     val' = [id \in DOMAIN val |-> [n \in DOMAIN val[id] |->
               IF sum(id, n) \in 0 .. SEMVMX THEN sum(id, n) ELSE val[id][n]]]
  /\ adj' = [adj EXCEPT ![p] = [k \in {} |-> 0]]
  /\ UNCHANGED want

Next ==
  \/ \E id \in Id : \E n \in 1 .. SEMMSL : Create(id, n)
  \/ \E id \in DOMAIN val :
       \/ Destroy(id)
       \/ \E N \in SUBSET DOMAIN val[id] : \E new \in [N -> 0 .. SEMVMX] : Set(id, new)
       \/ \E p \in Proc, ops \in Vector : Perform(p, id, ops) \/ Wait(p, id, ops)
  \/ \E p \in Proc : GiveUp(p) \/ Exit(p)

Spec == Init /\ [][Next]_vars
=============================================================================
