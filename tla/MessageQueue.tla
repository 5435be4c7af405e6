---------------------------- MODULE MessageQueue ----------------------------
(***************************************************************************)
(* What System V messages promise: each queue keeps its messages in the    *)
(* order they were sent, within its limit; who receives gets the first     *)
(* message of the type asked for, or the first of the least type up to a   *)
(* bound, and only who finds none waits for one.                           *)
(***************************************************************************)
EXTENDS Integers, SequencesExt

CONSTANTS Proc, NoCall,
          Call, Id, Limit   \* the calls, identifiers and limits there are
VARIABLES queue,   \* the messages of each queue there is, [type, size]
          limit,   \* how many bytes each of them may hold
          asks     \* the call each process waits in

vars == <<queue, limit, asks>>

Init == queue = <<>> /\ limit = <<>> /\ asks = [p \in Proc |-> NoCall]

Without(f, x) == [y \in DOMAIN f \ {x} |-> f[y]]
With(f, x, v) == [y \in DOMAIN f \cup {x} |-> IF y = x THEN v ELSE f[y]]

Total(f) == LET Upto[n \in 0 .. Len(f)] == IF n = 0 THEN 0 ELSE Upto[n - 1] + f[n] IN Upto[Len(f)]
Bytes(q) == Total([i \in DOMAIN q |-> q[i].size])

(* Message i of q is the one that is received for typ. *)
Wanted(typ, m) == typ = 0 \/ m.type = typ \/ (typ < 0 /\ m.type <= -typ)

Chosen(q, typ, i) ==
  /\ i \in DOMAIN q /\ Wanted(typ, q[i])
  /\ \A j \in DOMAIN q : Wanted(typ, q[j]) =>
       IF typ < 0 THEN q[i].type < q[j].type \/ (q[i].type = q[j].type /\ i <= j)
                  ELSE i <= j

Asks(p, call) == asks[p] \in {NoCall, call}
Answered(p)   == asks' = [asks EXCEPT ![p] = NoCall]

Send(p, call) ==
  /\ call.op = "send" /\ Asks(p, call) /\ call.id \in DOMAIN queue
  /\ Bytes(queue[call.id]) + call.msg[1] <= limit[call.id]
  /\ queue' = [queue EXCEPT ![call.id] = Append(@, [type |-> call.msg[2], size |-> call.msg[1]])]
  /\ Answered(p)
  /\ UNCHANGED limit

Receive(p, call) ==
  /\ call.op = "receive" /\ Asks(p, call) /\ call.id \in DOMAIN queue
  /\ \E i \in DOMAIN queue[call.id] :
       /\ Chosen(queue[call.id], call.type, i)
       /\ queue' = [queue EXCEPT ![call.id] = RemoveAt(@, i)]
  /\ Answered(p)
  /\ UNCHANGED limit

Wait(p, call) ==
  /\ Asks(p, call) /\ call.id \in DOMAIN queue
  /\ call.op = "receive" => \A i \in DOMAIN queue[call.id] : ~Chosen(queue[call.id], call.type, i)
  /\ asks' = [asks EXCEPT ![p] = call]
  /\ UNCHANGED <<queue, limit>>

(* An error, a signal, a queue that was removed. *)
Return(p) == Answered(p) /\ UNCHANGED <<queue, limit>>

Create(id, n) ==
  /\ id \notin DOMAIN queue
  /\ queue' = With(queue, id, <<>>) /\ limit' = With(limit, id, n)
  /\ UNCHANGED asks

Discard(id) ==
  /\ queue' = Without(queue, id) /\ limit' = Without(limit, id)
  /\ UNCHANGED asks

SetLimit(id, n) ==
  /\ limit' = [limit EXCEPT ![id] = n]
  /\ UNCHANGED <<queue, asks>>

Next ==
  \/ \E p \in Proc : \/ \E call \in Call : Send(p, call) \/ Receive(p, call) \/ Wait(p, call)
                     \/ Return(p)
  \/ \E id \in Id, n \in Limit : Create(id, n)
  \/ \E id \in DOMAIN queue : Discard(id) \/ \E n \in Limit : SetLimit(id, n)

Spec == Init /\ [][Next]_vars
=============================================================================
