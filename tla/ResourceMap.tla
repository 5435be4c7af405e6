----------------------------- MODULE ResourceMap -----------------------------
(***************************************************************************)
(* Resource maps, uts/m68k/os/malloc.c: malloc() and mfree(), with the     *)
(* callers that sleep until something is freed, as swapalloc() does for    *)
(* swap space and msgsnd() for message text.                               *)
(*                                                                         *)
(* map is the entries before the one of size 0 that ends the table.  That  *)
(* entry and the ones after it are all zero in the code, so the test of    *)
(* mfree() for a neighbour above that does not look at its size is right.  *)
(***************************************************************************)
EXTENDS Integers, FiniteSets, Sequences

CONSTANTS Proc,      \* processes that allocate
          Top,       \* the units are 1 .. Top
          Entries,   \* entries of the table, the header and the last included
          Sizes,     \* the sizes that are asked for
          Nothing

ASSUME MapAssumption ==
  /\ Top \in Nat \ {0} /\ Entries \in Nat /\ Entries >= 3
  /\ Sizes \subseteq Nat \ {0}
  /\ Nothing \notin Nat

VARIABLES map,    \* the entries, [addr, size]
          room,   \* mapsize(mp): how many more entries fit
          want,   \* mapwant(mp) # 0
          held,   \* the regions handed out
          pc,     \* "run", or "asleep" or "ready" to try again
          need    \* the size a process is waiting for

vars == <<map, room, want, held, pc, need>>

Region == [addr : Nat, size : Nat]
At(a, n) == [addr |-> a, size |-> n]
After(r) == r.addr + r.size

Init == /\ map = <<At(1, Top)>>           \* mapinit(), mfree(mp, Top, 1)
        /\ room = Entries - 3
        /\ want = FALSE
        /\ held = {}
        /\ pc = [p \in Proc |-> "run"]
        /\ need = [p \in Proc |-> Nothing]

------------------------------------------------------------------------------
Inserted(s, i, r) ==
  [j \in 1 .. Len(s) + 1 |-> IF j < i THEN s[j] ELSE IF j = i THEN r ELSE s[j - 1]]
Removed(s, i) == [j \in 1 .. Len(s) - 1 |-> IF j < i THEN s[j] ELSE s[j + 1]]

(* malloc(): first fit. *)
Fits(i, n)     == i \in DOMAIN map /\ map[i].size >= n
FirstFit(i, n) == Fits(i, n) /\ \A j \in 1 .. i - 1 : ~Fits(j, n)
NoFit(n)       == \A i \in DOMAIN map : ~Fits(i, n)

(* Mutant: what is left of an entry keeps its address. *)
MallocAtEnd(i, n) ==
  /\ FirstFit(i, n)
  /\ held' = held \cup {At(map[i].addr, n)}
  /\ \/ /\ map[i].size = n
        /\ map' = Removed(map, i)
        /\ room' = room + 1
     \/ /\ map[i].size > n
        /\ map' = [map EXCEPT ![i].size = @ - n]
        /\ UNCHANGED room

Malloc(i, n) ==
  /\ FirstFit(i, n)
  /\ held' = held \cup {At(map[i].addr, n)}
  /\ \/ /\ map[i].size = n
        /\ map' = Removed(map, i)
        /\ room' = room + 1
     \/ /\ map[i].size > n
        /\ map' = [map EXCEPT ![i] = At(@.addr + n, @.size - n)]
        /\ UNCHANGED room

(* mfree(): i is the first entry above the region, or the one after the    *)
(* last.                                                                   *)
Above(i, r) ==
  /\ i \in 1 .. Len(map) + 1
  /\ \A j \in 1 .. i - 1 : map[j].addr <= r.addr
  /\ i <= Len(map) => map[i].addr > r.addr

(* Mutants: a region is not combined with the entry below, or above. *)
JoinsBelowNever(i, r) == FALSE
JoinsAboveNever(i, r) == FALSE

JoinsBelow(i, r) == i > 1 /\ After(map[i - 1]) = r.addr
JoinsAbove(i, r) == i <= Len(map) /\ After(r) = map[i].addr

Combined(i, r) ==
  \/ /\ JoinsBelow(i, r) /\ JoinsAbove(i, r)
     /\ map' = Removed([map EXCEPT ![i - 1].size = @ + r.size + map[i].size], i)
     /\ room' = room + 1
  \/ /\ JoinsBelow(i, r) /\ ~JoinsAbove(i, r)
     /\ map' = [map EXCEPT ![i - 1].size = @ + r.size]
     /\ UNCHANGED room
  \/ /\ ~JoinsBelow(i, r) /\ JoinsAbove(i, r)
     /\ map' = [map EXCEPT ![i] = At(r.addr, r.size + @.size)]
     /\ UNCHANGED room
  \/ /\ ~JoinsBelow(i, r) /\ ~JoinsAbove(i, r) /\ room > 0
     /\ map' = Inserted(map, i, r)
     /\ room' = room - 1

(* "DANGER: mfree map overflow": the region is lost, and mfree() returns   *)
(* before it wakes anyone.                                                 *)
Overflow(i, r) ==
  /\ ~JoinsBelow(i, r) /\ ~JoinsAbove(i, r) /\ room = 0
  /\ UNCHANGED <<map, room, want, pc>>

(* Mutant: only one of the sleepers is woken. *)
WakeOne ==
  /\ want' = FALSE
  /\ \/ want /\ \E p \in Proc : pc[p] = "asleep" /\ pc' = [pc EXCEPT ![p] = "ready"]
     \/ (~want \/ \A p \in Proc : pc[p] # "asleep") /\ UNCHANGED pc

WakeWanted ==
  /\ want' = FALSE
  /\ pc' = IF want THEN [p \in Proc |-> IF pc[p] = "asleep" THEN "ready" ELSE pc[p]] ELSE pc

Mfree(r) ==
  /\ r \in held
  /\ held' = held \ {r}
  /\ \E i \in 1 .. Len(map) + 1 :
       Above(i, r) /\ ((Combined(i, r) /\ WakeWanted) \/ Overflow(i, r))
  /\ UNCHANGED need

------------------------------------------------------------------------------
(* A process asks for n units, for the first time or again after a wakeup: *)
(* it gets them, returns without, or sleeps on the map.                    *)
Asks(p, n) == (pc[p] = "run" /\ n \in Sizes) \/ (pc[p] = "ready" /\ n = need[p])

Allocate(p, n) ==
  /\ Asks(p, n)
  /\ \E i \in DOMAIN map : Malloc(i, n)
  /\ pc' = [pc EXCEPT ![p] = "run"]
  /\ need' = [need EXCEPT ![p] = Nothing]
  /\ UNCHANGED want

Sleep(p, n) ==
  /\ Asks(p, n)
  /\ NoFit(n)
  /\ want' = TRUE
  /\ pc' = [pc EXCEPT ![p] = "asleep"]
  /\ need' = [need EXCEPT ![p] = n]
  /\ UNCHANGED <<map, room, held>>

(* No wait is asked for, or a signal ends the sleep (msgsnd); want stays.  *)
GiveUp(p) ==
  /\ pc[p] # "run"
  /\ pc' = [pc EXCEPT ![p] = "run"]
  /\ need' = [need EXCEPT ![p] = Nothing]
  /\ UNCHANGED <<map, room, want, held>>

Next == \/ \E p \in Proc :
             \/ GiveUp(p)
             \/ \E n \in Sizes : Allocate(p, n) \/ Sleep(p, n)
        \/ \E r \in held : Mfree(r)

Spec == Init /\ [][Next]_vars

------------------------------------------------------------------------------
InMap(r) == r.size > 0 /\ r.addr > 0 /\ After(r) <= Top + 1
Apart(r, s) == After(r) <= s.addr \/ After(s) <= r.addr

(* Every variable keeps its type; entries and room add up to the table. *)
TypeOK ==
  /\ map \in Seq(Region)
  /\ room \in Nat
  /\ room + Len(map) = Entries - 2
  /\ want \in BOOLEAN
  /\ held \subseteq Region
  /\ pc \in [Proc -> {"run", "asleep", "ready"}]
  /\ need \in [Proc -> Sizes \cup {Nothing}]
  /\ \A p \in Proc : pc[p] = "run" <=> need[p] = Nothing

(* The entries are sorted, not empty and not adjacent: what could be one   *)
(* entry is one (mfree combines on both ends).                             *)
Coalesced ==
  /\ \A i \in DOMAIN map : InMap(map[i])
  /\ \A i, j \in DOMAIN map : i < j => After(map[i]) < map[j].addr

(* No unit is held twice, and none is both held and free, whatever is      *)
(* allocated and freed in whatever order (malloc, mfree).                  *)
HeldOnce ==
  /\ \A r \in held : InMap(r)
  /\ \A r, s \in held : r # s => Apart(r, s)
  /\ \A r \in held, i \in DOMAIN map : Apart(r, map[i])

(* A process sleeps on a map only while no entry is large enough for it,   *)
(* and mapwant is set, so that the next mfree() wakes it.                  *)
SleepersDontFit ==
  \A p \in Proc : pc[p] = "asleep" => want /\ NoFit(need[p])

UnitsOf(r) == r.addr .. After(r) - 1

Allocator == INSTANCE Pool WITH
  Units <- 1 .. Top,
  free  <- UNION {UnitsOf(map[i]) : i \in DOMAIN map}

(* The map implements a pool of units: what is handed out was free, what   *)
(* is freed is free again or lost, and a request waits only if no run of   *)
(* free units is long enough.                                              *)
ImplementsPool == Allocator!Spec
=============================================================================
