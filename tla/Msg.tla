--------------------------------- MODULE Msg ---------------------------------
(***************************************************************************)
(* System V messages, uts/m68k/os/msg.c.                                   *)
(*                                                                         *)
(* A call runs without interruption up to a sleep(): msgsnd() sleeps for   *)
(* room in the queue, for a header and for text, and starts again from the *)
(* first of them each time; msgrcv() sleeps for a message.  So each call   *)
(* is one action, and each new try after a sleep another.                  *)
(*                                                                         *)
(* Abstracted: keys and permissions; times and process numbers; what the   *)
(* text says.  The map of the text is the set of units it has (module      *)
(* ResourceMap shows malloc() and mfree() to implement one, and its table  *)
(* cannot overflow: there are fewer headers than entries).  A call that    *)
(* would sleep and has IPC_NOWAIT, or fails before that, changes nothing.  *)
(* msgget() and msgctl() may be called by anybody.                         *)
(***************************************************************************)
EXTENDS Integers, FiniteSetsExt, SequencesExt

CONSTANTS Proc,
          MSGMNI, MSGTQL,    \* queues, headers
          MSGSEG, MSGSSZ,    \* units of text, and the bytes of one
          MSGMNB,            \* msg_qbytes of a new queue
          Message,           \* what is sent, <<size, type>>
          RType,             \* what msgrcv() is called for
          Limit,             \* the values of IPC_SET for msg_qbytes
          MaxSeq,            \* bound on msg_perm.seq
          NoCall

ASSUME MsgAssumption ==
  /\ MSGMNI \in Nat \ {0} /\ MSGTQL \in Nat \ {0} /\ MSGSEG \in Nat /\ MSGSSZ \in Nat \ {0}
  /\ Message \subseteq Nat \X (Nat \ {0}) /\ RType \subseteq Int
  /\ Limit \subseteq Nat /\ MSGMNB \in Limit
  /\ MaxSeq \in Nat

VARIABLES msgque,   \* the queues
          msgh,     \* the headers
          msgfp,    \* the first free header, or 0
          text,     \* the free units of text
          want,     \* mapwant(msgmap)
          pc,       \* "user", or what a call sleeps for, or slept for last
          asleep, frame,
          raised    \* not the code's: the queues that were given more room
                    \* since their senders were last woken

store == <<msgque, msgh, msgfp, text, want>>
vars  == <<store, pc, asleep, frame, raised>>

Slot == 0 .. MSGMNI - 1
Hdr  == 1 .. MSGTQL
Id   == 0 .. MSGMNI * (MaxSeq + 1) - 1
Unit == 0 .. MSGSEG - 1

btoq(n)    == (n + MSGSSZ - 1) \div MSGSSZ
SlotOf(id) == id % MSGMNI
Live(id)   == msgque[SlotOf(id)].alloc /\ id \div MSGMNI = msgque[SlotOf(id)].seq
IdOf(s)    == msgque[s].seq * MSGMNI + s
LiveIds    == {IdOf(s) : s \in {t \in Slot : msgque[t].alloc}}

Call == [op : {"send"}, id : Id, msg : Message] \cup [op : {"receive"}, id : Id, type : RType]

Init ==
  /\ msgque = [s \in Slot |-> [alloc |-> FALSE, seq |-> 0, first |-> 0, last |-> 0, qnum |-> 0,
                               cbytes |-> 0, qbytes |-> 0, rwait |-> FALSE, wwait |-> FALSE]]
  /\ msgh = [h \in Hdr |-> [next |-> IF h < MSGTQL THEN h + 1 ELSE 0, type |-> 0, ts |-> 0, spot |-> 0]]
  /\ msgfp = 1
  /\ text = Unit /\ want = FALSE
  /\ pc = [p \in Proc |-> "user"]
  /\ asleep = [p \in Proc |-> FALSE]
  /\ frame = [p \in Proc |-> NoCall]
  /\ raised = {}

------------------------------------------------------------------------------
(* The messages of a list that starts at header h. *)
List(h) ==
  LET Walk[n \in 0 .. MSGTQL] ==
        IF n = 0 THEN [at |-> h, ms |-> <<>>]
        ELSE LET l == Walk[n - 1]
             IN IF l.at = 0 THEN l ELSE [at |-> msgh[l.at].next, ms |-> Append(l.ms, l.at)]
  IN Walk[MSGTQL].ms

Queue(s) == List(msgque[s].first)
Units(h) == msgh[h].spot .. msgh[h].spot + btoq(msgh[h].ts) - 1

(* Sleepers: "room" and "message" of a queue, "header" and "text" of all.  *)
InQueue(on, s) == {p \in Proc : pc[p] = on /\ SlotOf(frame[p].id) = s}
AllOf(on)      == {p \in Proc : pc[p] = on}

Wakeup(P) == asleep' = [p \in Proc |-> asleep[p] /\ p \notin P]

(* A process calls, or tries again after a sleep. *)
Tries(p) == IF pc[p] = "user" THEN {c \in Call : c.id \in LiveIds}
            ELSE IF asleep[p] THEN {} ELSE {frame[p]}

(* It returns, and the processes in P are woken. *)
Returns(p, P) ==
  /\ pc' = [pc EXCEPT ![p] = "user"]
  /\ Wakeup(P \cup {p})
  /\ frame' = [frame EXCEPT ![p] = NoCall]

Sleeps(p, c, on) ==
  /\ pc' = [pc EXCEPT ![p] = on]
  /\ asleep' = [asleep EXCEPT ![p] = TRUE]
  /\ frame' = [frame EXCEPT ![p] = c]

(* EIDRM. *)
Removed(p) ==
  /\ pc[p] # "user" /\ ~asleep[p] /\ ~Live(frame[p].id)
  /\ Returns(p, {})
  /\ UNCHANGED <<store, raised>>

------------------------------------------------------------------------------
(* msgsnd().                                                               *)

NoRoom(c) == c.msg[1] + msgque[SlotOf(c.id)].cbytes > msgque[SlotOf(c.id)].qbytes
Spots(n)  == {b \in Unit : b .. b + n - 1 \subseteq text}
NoText(c) == c.msg[1] > 0 /\ Spots(btoq(c.msg[1])) = {}

WaitForRoom(p, c) ==
  /\ c.op = "send" /\ Live(c.id) /\ NoRoom(c)
  /\ msgque' = [msgque EXCEPT ![SlotOf(c.id)].wwait = TRUE]
  /\ Sleeps(p, c, "room")
  /\ UNCHANGED <<msgh, msgfp, text, want, raised>>

WaitForHeader(p, c) ==
  /\ c.op = "send" /\ Live(c.id) /\ ~NoRoom(c) /\ msgfp = 0
  /\ Sleeps(p, c, "header")
  /\ UNCHANGED <<store, raised>>

WaitForText(p, c) ==
  /\ c.op = "send" /\ Live(c.id) /\ ~NoRoom(c) /\ msgfp # 0 /\ NoText(c)
  /\ want' = TRUE
  /\ Sleeps(p, c, "text")
  /\ UNCHANGED <<msgque, msgh, msgfp, text, raised>>

Available(c) == c.op = "send" /\ Live(c.id) /\ ~NoRoom(c) /\ msgfp # 0 /\ ~NoText(c)

(* The text cannot be copied: it is freed at once. *)
SendFault(p, c) ==
  /\ Available(c) /\ c.msg[1] > 0
  /\ want' = FALSE
  /\ Returns(p, IF want THEN AllOf("text") ELSE {})
  /\ UNCHANGED <<msgque, msgh, msgfp, text, raised>>

(* First fit; a message without text has spot -1. *)
Spot(c) == IF c.msg[1] > 0 THEN Min(Spots(btoq(c.msg[1]))) ELSE -1

Send(p, c) ==
  LET s == SlotOf(c.id)
      q == msgque[s]
      mp == msgfp
      m == [next |-> 0, type |-> c.msg[2], ts |-> c.msg[1], spot |-> Spot(c)]
  IN /\ Available(c)
     /\ text' = text \ (Spot(c) .. Spot(c) + btoq(c.msg[1]) - 1)
     /\ msgfp' = msgh[mp].next
     /\ msgh' = [h \in Hdr |-> IF h = mp THEN m
                               ELSE IF q.last # 0 /\ h = q.last THEN [msgh[h] EXCEPT !.next = mp]
                               ELSE msgh[h]]
     /\ msgque' = [msgque EXCEPT ![s] = [q EXCEPT !.qnum = q.qnum + 1, !.cbytes = q.cbytes + c.msg[1], !.last = mp,
                                                  !.first = IF q.last = 0 THEN mp ELSE q.first, !.rwait = FALSE]]
     /\ Returns(p, IF q.rwait THEN InQueue("message", s) ELSE {})
     /\ UNCHANGED <<want, raised>>

------------------------------------------------------------------------------
(* msgrcv() and msgfree().                                                 *)

Matches(t, m) == t = 0 \/ (t > 0 /\ m.type = t) \/ (t < 0 /\ m.type <= -t)

(* Mutant: the first message up to a bound is taken, whatever its type. *)
FoundFirst(c) ==
  LET ms   == Queue(SlotOf(c.id))
      good == {i \in DOMAIN ms : Matches(c.type, msgh[ms[i]])}
  IN IF good = {} THEN 0 ELSE Min(good)

(* Where the message is that findmsg finds, or 0: a later one is taken     *)
(* only if its type is less.                                               *)
Found(c) ==
  LET ms   == Queue(SlotOf(c.id))
      good == {i \in DOMAIN ms : Matches(c.type, msgh[ms[i]])}
      low  == {i \in good : \A j \in good : msgh[ms[i]].type <= msgh[ms[j]].type}
  IN IF good = {} THEN 0 ELSE Min(IF c.type < 0 THEN low ELSE good)

(* Mutant: the last pointer is left on a header that is freed. *)
UnlinkedKeepsLast(q, mp, pmp) ==
  [q EXCEPT !.first = IF pmp = 0 THEN msgh[mp].next ELSE @,
            !.qnum = @ - 1, !.wwait = FALSE]

(* What msgfree() of mp behind pmp, or 0, leaves of the queue.             *)
Unlinked(q, mp, pmp) ==
  [q EXCEPT !.first = IF pmp = 0 THEN msgh[mp].next ELSE @,
            !.last = IF msgh[mp].next = 0 THEN pmp ELSE @,
            !.qnum = @ - 1, !.wwait = FALSE]

(* Mutant: who waits for a header is woken after the list is changed. *)
FreedForLate(s, ms) ==
  (IF msgque[s].wwait THEN InQueue("room", s) ELSE {})
    \cup (IF want /\ \E h \in ms : msgh[h].ts > 0 THEN AllOf("text") ELSE {})

(* Whom msgfree() of the messages ms of a queue wakes.                     *)
FreedFor(s, ms) ==
  (IF msgque[s].wwait THEN InQueue("room", s) ELSE {})
    \cup (IF want /\ \E h \in ms : msgh[h].ts > 0 THEN AllOf("text") ELSE {})
    \cup (IF msgfp = 0 THEN AllOf("header") ELSE {})

Freed(ms) ==
  /\ text' = text \cup UNION {Units(h) : h \in ms}
  /\ want' = (want /\ \A h \in ms : msgh[h].ts = 0)

Receive(p, c) ==
  LET s  == SlotOf(c.id)
      q  == msgque[s]
      ms == Queue(s)
      i  == Found(c)
      mp == ms[i]
      pmp == IF i > 1 THEN ms[i - 1] ELSE 0
  IN /\ c.op = "receive" /\ Live(c.id) /\ i # 0
     /\ msgque' = [msgque EXCEPT ![s] = Unlinked([q EXCEPT !.cbytes = q.cbytes - msgh[mp].ts], mp, pmp)]
     /\ msgh' = [h \in Hdr |-> IF h = mp THEN [msgh[h] EXCEPT !.next = msgfp]
                               ELSE IF h = pmp THEN [msgh[h] EXCEPT !.next = msgh[mp].next]
                               ELSE msgh[h]]
     /\ msgfp' = mp
     /\ Freed({mp})
     /\ Returns(p, FreedFor(s, {mp}))
     /\ raised' = IF msgque[s].wwait THEN raised \ {s} ELSE raised

(* E2BIG, or the copy fails; with MSG_NOERROR what does not fit is lost.   *)
ReceiveFails(p, c) ==
  /\ c.op = "receive" /\ Live(c.id) /\ Found(c) # 0
  /\ Returns(p, {})
  /\ UNCHANGED <<store, raised>>

WaitForMessage(p, c) ==
  /\ c.op = "receive" /\ Live(c.id) /\ Found(c) = 0
  /\ msgque' = [msgque EXCEPT ![SlotOf(c.id)].rwait = TRUE]
  /\ Sleeps(p, c, "message")
  /\ UNCHANGED <<msgh, msgfp, text, want, raised>>

(* A signal, before or after the wakeup: only a wait for room does more    *)
(* than to return, to a queue that may be another one by now.              *)
Interrupted(p) ==
  /\ pc[p] \in {"header", "text", "message"}
  /\ Returns(p, {})
  /\ UNCHANGED <<store, raised>>

InterruptedInRoom(p) ==
  LET s == SlotOf(frame[p].id) IN
  /\ pc[p] = "room"
  /\ msgque' = [msgque EXCEPT ![s].wwait = FALSE]
  /\ Returns(p, InQueue("room", s))
  /\ raised' = raised \ {s}
  /\ UNCHANGED <<msgh, msgfp, text, want>>

------------------------------------------------------------------------------
(* msgget() and msgctl().                                                  *)

Msgget ==
  LET s == Min({t \in Slot : ~msgque[t].alloc})
      q == msgque[s] IN
  /\ \E t \in Slot : ~msgque[t].alloc
  /\ msgque' = [msgque EXCEPT ![s] = [q EXCEPT !.alloc = TRUE, !.first = 0, !.last = 0, !.qnum = 0,
                                               !.qbytes = MSGMNB, !.rwait = FALSE, !.wwait = FALSE]]
  /\ UNCHANGED <<msgh, msgfp, text, want, pc, asleep, frame, raised>>

Rmid(id) ==
  LET s  == SlotOf(id)
      q  == msgque[s]
      ms == Queue(s)
      At(h) == CHOOSE i \in DOMAIN ms : ms[i] = h
  IN /\ Live(id)
     /\ q.seq < MaxSeq
     /\ msgque' = [msgque EXCEPT ![s] = [q EXCEPT !.alloc = FALSE, !.seq = q.seq + 1, !.first = 0, !.last = 0,
                                                  !.qnum = q.qnum - Len(ms), !.cbytes = 0,
                                                  !.rwait = FALSE, !.wwait = FALSE]]
     /\ msgh' = [h \in Hdr |-> IF h \in ToSet(ms)
                               THEN [msgh[h] EXCEPT !.next = IF At(h) = 1 THEN msgfp ELSE ms[At(h) - 1]]
                               ELSE msgh[h]]
     /\ msgfp' = IF ms = <<>> THEN msgfp ELSE Last(ms)
     /\ Freed(ToSet(ms))
     /\ Wakeup((IF ms = <<>> THEN {} ELSE FreedFor(s, ToSet(ms)))
                     \cup (IF msgque[s].wwait THEN InQueue("room", s) ELSE {})
                     \cup (IF msgque[s].rwait THEN InQueue("message", s) ELSE {}))
     /\ raised' = raised \ {s}
     /\ UNCHANGED <<pc, frame>>

(* IPC_SET. *)
SetLimit(id, n) ==
  LET s == SlotOf(id) IN
  /\ Live(id)
  /\ msgque' = [msgque EXCEPT ![s].qbytes = n]
  /\ raised' = IF n > msgque[s].qbytes THEN raised \cup {s} ELSE raised
  /\ UNCHANGED <<msgh, msgfp, text, want, pc, asleep, frame>>

Next ==
  \/ \E p \in Proc :
       \/ \E c \in Tries(p) :
            \/ WaitForRoom(p, c) \/ WaitForHeader(p, c) \/ WaitForText(p, c)
            \/ SendFault(p, c) \/ Send(p, c)
            \/ Receive(p, c) \/ ReceiveFails(p, c) \/ WaitForMessage(p, c)
       \/ Removed(p) \/ Interrupted(p) \/ InterruptedInRoom(p)
  \/ Msgget
  \/ \E id \in LiveIds : Rmid(id) \/ \E n \in Limit : SetLimit(id, n)

Spec == Init /\ [][Next]_vars

------------------------------------------------------------------------------
Total(f)  == LET Upto[n \in 0 .. Len(f)] == IF n = 0 THEN 0 ELSE Upto[n - 1] + f[n] IN Upto[Len(f)]
Sizes(ms) == Total([i \in DOMAIN ms |-> msgh[ms[i]].ts])

Line(k) == IF k = MSGMNI THEN List(msgfp) ELSE Queue(k)
Lines   == 0 .. MSGMNI

(* The lists of the queues and the list of free headers have each header   *)
(* once, msg_last, msg_qnum and msg_cbytes say what is in a queue, and     *)
(* each unit of text is free or of one message: whatever is sent,          *)
(* received out of order, removed, or fails half way.                      *)
ListsExact ==
  /\ \A s \in Slot : LET q == msgque[s] IN
       /\ q.last = IF Queue(s) = <<>> THEN 0 ELSE Last(Queue(s))
       /\ q.qnum = Len(Queue(s)) /\ q.cbytes = Sizes(Queue(s))
  /\ \A k \in Lines : IsInjective(Line(k))
  /\ \A k, l \in Lines : k # l => ToSet(Line(k)) \cap ToSet(Line(l)) = {}
  /\ UNION {ToSet(Line(k)) : k \in Lines} = Hdr
  /\ LET used == Hdr \ ToSet(List(msgfp)) IN
     /\ text \cup UNION {Units(h) : h \in used} = Unit
     /\ \A h \in used : Units(h) \cap text = {} /\ \A g \in used \ {h} : Units(g) \cap Units(h) = {}

(* Nobody sleeps for what is there: for room (but for a limit that         *)
(* IPC_SET raised, which wakes nobody), a header, text, or a message, and  *)
(* the flag is set that makes the next change wake it; the queue it waits  *)
(* on exists.                                                              *)
NobodyStranded == \A p \in Proc :
  LET c == frame[p]
      q == msgque[SlotOf(c.id)]
  IN asleep[p] =>
     /\ pc[p] = "room" => Live(c.id) /\ q.wwait /\ (NoRoom(c) \/ SlotOf(c.id) \in raised)
     /\ pc[p] = "header" => msgfp = 0
     /\ pc[p] = "text" => want /\ NoText(c)
     /\ pc[p] = "message" => Live(c.id) /\ q.rwait /\ Found(c) = 0

Messages(s) == [i \in DOMAIN Queue(s) |-> [type |-> msgh[Queue(s)[i]].type, size |-> msgh[Queue(s)[i]].ts]]

Queues == INSTANCE MessageQueue WITH
  queue <- [id \in LiveIds |-> Messages(SlotOf(id))],
  limit <- [id \in LiveIds |-> msgque[SlotOf(id)].qbytes],
  asks  <- frame

(* Messages are received in the order they were sent, by type: what a      *)
(* process gets after a sleep is chosen from the queue as it is then.      *)
ImplementsQueues == Queues!Spec
==============================================================================
