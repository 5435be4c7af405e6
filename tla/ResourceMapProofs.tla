-------------------------- MODULE ResourceMapProofs --------------------------
(***************************************************************************)
(* Resource maps of any length, over any number of units, with any number  *)
(* of processes: the invariant of the map and what it gives, and that the  *)
(* map implements the pool of units of module Pool.                        *)
(***************************************************************************)
EXTENDS ResourceMap, SequenceTheorems, TLAPS

Inv == TypeOK /\ Coalesced /\ HeldOnce /\ SleepersDontFit

------------------------------------------------------------------------------
(* The two list operations. *)

LEMMA InsertedSeq ==
  ASSUME NEW S, NEW s \in Seq(S), NEW i \in 1 .. Len(s) + 1, NEW r \in S
  PROVE  /\ Inserted(s, i, r) \in Seq(S)
         /\ Len(Inserted(s, i, r)) = Len(s) + 1
         /\ \A j \in 1 .. Len(s) + 1 :
              Inserted(s, i, r)[j] = IF j < i THEN s[j] ELSE IF j = i THEN r ELSE s[j - 1]
<1>1. Len(s) \in Nat /\ DOMAIN s = 1 .. Len(s) /\ \A j \in 1 .. Len(s) : s[j] \in S
  BY LenProperties
<1>2. Inserted(s, i, r) \in [1 .. Len(s) + 1 -> S]
  BY <1>1 DEF Inserted
<1> QED BY <1>1, <1>2 DEF Inserted

LEMMA RemovedSeq ==
  ASSUME NEW S, NEW s \in Seq(S), NEW i \in 1 .. Len(s)
  PROVE  /\ Removed(s, i) \in Seq(S)
         /\ Len(Removed(s, i)) = Len(s) - 1
         /\ \A j \in 1 .. Len(s) - 1 :
              Removed(s, i)[j] = IF j < i THEN s[j] ELSE s[j + 1]
<1>1. Len(s) \in Nat /\ DOMAIN s = 1 .. Len(s) /\ \A j \in 1 .. Len(s) : s[j] \in S
  BY LenProperties
<1>2. Removed(s, i) \in [1 .. Len(s) - 1 -> S]
  BY <1>1 DEF Removed
<1> QED BY <1>1, <1>2 DEF Removed

(* Replacing an entry of a map. *)
LEMMA ReplacedSeq ==
  ASSUME NEW S, NEW s \in Seq(S), NEW i \in 1 .. Len(s), NEW r \in S
  PROVE  /\ [s EXCEPT ![i] = r] \in Seq(S)
         /\ Len([s EXCEPT ![i] = r]) = Len(s)
         /\ \A j \in 1 .. Len(s) : [s EXCEPT ![i] = r][j] = IF j = i THEN r ELSE s[j]
<1>1. Len(s) \in Nat /\ DOMAIN s = 1 .. Len(s) /\ \A j \in 1 .. Len(s) : s[j] \in S
  BY LenProperties
<1> QED BY <1>1

(* Arithmetic that leaves about regions cite instead of doing it again. *)
LEMMA NatSum == \A a, b \in Nat : a + b \in Nat
OBVIOUS

LEMMA NatLess == \A a, b \in Nat : a <= b /\ a # b => a < b
OBVIOUS

------------------------------------------------------------------------------
(* A step of the map, whatever the processes do: what it makes of a good   *)
(* map with its held regions.                                              *)

Good(m, R, H) ==
  /\ m \in Seq(Region) /\ H \subseteq Region
  /\ R \in Nat /\ R + Len(m) = Entries - 2
  /\ \A i \in 1 .. Len(m) : InMap(m[i])
  /\ \A i, j \in 1 .. Len(m) : i < j => After(m[i]) < m[j].addr
  /\ \A r \in H : InMap(r)
  /\ \A r, s \in H : r # s => Apart(r, s)
  /\ \A r \in H, i \in 1 .. Len(m) : Apart(r, m[i])

(* The units that the entries of a map hold. *)
Inside(u, r) == r.addr <= u /\ u < After(r)
FreeIn(m, u) == \E i \in 1 .. Len(m) : Inside(u, m[i])

LEMMA GoodMap ==
  ASSUME map \in Seq(Region)
  PROVE  Good(map, room, held) <=>
           /\ map \in Seq(Region) /\ held \subseteq Region
           /\ room \in Nat /\ room + Len(map) = Entries - 2
           /\ Coalesced /\ HeldOnce
<1>1. DOMAIN map = 1 .. Len(map)
  BY LenProperties
<1> QED BY <1>1 DEF Good, Coalesced, HeldOnce

LEMMA AtRegion ==
  ASSUME NEW a \in Nat, NEW n \in Nat
  PROVE  At(a, n) \in Region /\ At(a, n).addr = a /\ At(a, n).size = n
BY DEF At, Region

(* malloc() hands out the first units of a free entry. *)
LEMMA MallocGood ==
  ASSUME Good(map, room, held), NEW i, NEW n \in Nat \ {0}, Malloc(i, n)
  PROVE  /\ Good(map', room', held')
         /\ \A k \in 1 .. Len(map') : \E j \in 1 .. Len(map) : map'[k].size <= map[j].size
         /\ \A u \in Int : FreeIn(map', u) <=> FreeIn(map, u) /\ ~Inside(u, At(map[i].addr, n))
<1> DEFINE m == map
           a == map[i].addr
           new == At(a, n)
<1>1. /\ i \in 1 .. Len(m) /\ Len(m) \in Nat /\ DOMAIN m = 1 .. Len(m)
      /\ m \in Seq(Region) /\ \A j \in 1 .. Len(m) : m[j] \in Region
      /\ m[i].size >= n
  BY LenProperties DEF Good, Malloc, FirstFit, Fits
<1>2. /\ \A j \in 1 .. Len(m) : m[j].addr \in Nat /\ m[j].size \in Nat
      /\ \A j \in 1 .. Len(m) : After(m[j]) = m[j].addr + m[j].size
  BY <1>1 DEF Region, After
<1>3. /\ new \in Region /\ new.addr = a /\ new.size = n /\ After(new) = a + n
      /\ held' = held \cup {new}
  BY <1>1, <1>2, AtRegion DEF After, Malloc
<1>4. \A r \in held : r \in Region /\ r.addr \in Nat /\ r.size \in Nat /\ After(r) = r.addr + r.size
  BY DEF Good, Region, After
<1>5. InMap(new) /\ \A r \in held : Apart(r, new) /\ Apart(new, r)
  <2>1. InMap(m[i])
    BY <1>1 DEF Good
  <2>2. After(new) <= After(m[i]) /\ Top \in Nat
    BY <1>1, <1>2, <1>3, MapAssumption
  <2>3. InMap(new)
    BY <1>1, <1>2, <1>3, <2>1, <2>2 DEF InMap
  <2>4. ASSUME NEW r \in held PROVE Apart(r, new) /\ Apart(new, r)
    <3>1. Apart(r, m[i])
      BY <1>1 DEF Good
    <3> QED BY <1>1, <1>2, <1>3, <1>4, <2>2, <3>1 DEF Apart
  <2> QED BY <2>3, <2>4
<1>6. held' \subseteq Region /\ (\A r \in held' : InMap(r)) /\ (\A r, s \in held' : r # s => Apart(r, s))
  BY <1>3, <1>4, <1>5 DEF Good
(* What is handed out is apart from the other entries. *)
<1>ends. After(new) \in Nat /\ After(new) <= After(m[i]) /\ new.addr = m[i].addr /\ new.addr < After(new)
  BY <1>1, <1>2, <1>3
<1>apart. \A j \in 1 .. Len(m) : j # i => Apart(new, m[j])
  <2> SUFFICES ASSUME NEW j \in 1 .. Len(m), j # i PROVE Apart(new, m[j])
    OBVIOUS
  <2>1. /\ m[j].addr \in Nat /\ m[i].addr \in Nat /\ After(m[j]) \in Nat /\ After(m[i]) \in Nat
    BY SMTT(30), <1>1, <1>2
  <2>2. After(m[j]) < m[i].addr \/ After(m[i]) < m[j].addr
    BY <1>1 DEF Good
  <2> HIDE DEF new
  <2> QED BY <1>ends, <2>1, <2>2 DEF Apart
<1>7. CASE m[i].size = n /\ map' = Removed(m, i) /\ room' = room + 1
  <2>1. /\ map' \in Seq(Region) /\ Len(map') = Len(m) - 1
        /\ \A j \in 1 .. Len(m) - 1 : map'[j] = IF j < i THEN m[j] ELSE m[j + 1]
    BY <1>1, <1>7, RemovedSeq
  <2>2. \A k \in 1 .. Len(map') : \E j \in 1 .. Len(m) : j # i /\ map'[k] = m[j]
    <3> SUFFICES ASSUME NEW k \in 1 .. Len(map')
                 PROVE  \E j \in 1 .. Len(m) : j # i /\ map'[k] = m[j]
      OBVIOUS
    <3>1. k \in 1 .. Len(m) /\ k + 1 \in 1 .. Len(m) /\ k \in 1 .. Len(m) - 1
      BY <1>1, <2>1
    <3>2. CASE k < i
      BY <2>1, <3>1, <3>2
    <3>3. CASE ~(k < i)
      <4>1. map'[k] = m[k + 1] /\ k + 1 # i
        BY <1>1, <2>1, <3>1, <3>3
      <4> QED BY <3>1, <4>1
    <3> QED BY <3>2, <3>3
  <2>3. \A j \in 1 .. Len(m) : j # i => Apart(new, m[j])
    BY <1>ends, <1>apart
  <2>4. \A r \in held', k \in 1 .. Len(map') : Apart(r, map'[k])
    BY <1>3, <2>2, <2>3 DEF Good
  <2>5. ASSUME NEW j \in 1 .. Len(map'), NEW k \in 1 .. Len(map'), j < k
        PROVE  After(map'[j]) < map'[k].addr
    <3>1. PICK x \in 1 .. Len(m) : x = (IF j < i THEN j ELSE j + 1) /\ map'[j] = m[x]
      BY <1>1, <2>1
    <3>2. PICK y \in 1 .. Len(m) : y = (IF k < i THEN k ELSE k + 1) /\ map'[k] = m[y]
      BY <1>1, <2>1
    <3>3. x < y
      BY <1>1, <2>1, <2>5, <3>1, <3>2
    <3> QED BY <3>1, <3>2, <3>3 DEF Good
  <2>6. \A k \in 1 .. Len(map') : InMap(map'[k])
    BY <2>2 DEF Good
  <2>7. room' \in Nat /\ room' + Len(map') = Entries - 2
    BY <1>1, <1>7, <2>1, MapAssumption DEF Good
  <2>8. \A k \in 1 .. Len(map') : \E j \in 1 .. Len(m) : map'[k].size <= m[j].size
    BY <1>2, <2>2
  <2>9. ASSUME NEW u \in Int PROVE FreeIn(map', u) <=> FreeIn(m, u) /\ ~Inside(u, new)
    <3>1. Inside(u, new) <=> Inside(u, m[i])
      BY <1>1, <1>2, <1>3, <1>7 DEF Inside
    <3>2. \A j \in 1 .. Len(m) : j # i => ~(Inside(u, m[j]) /\ Inside(u, m[i]))
      BY SMTT(30), <1>1, <1>2 DEF Good, Inside
    <3>3. \A j \in 1 .. Len(m) : j # i => \E k \in 1 .. Len(map') : map'[k] = m[j]
      <4> SUFFICES ASSUME NEW j \in 1 .. Len(m), j # i PROVE \E k \in 1 .. Len(map') : map'[k] = m[j]
        OBVIOUS
      <4>1. CASE j < i
        BY <1>1, <2>1, <4>1
      <4>2. CASE j > i
        <5>1. j - 1 \in 1 .. Len(map') /\ map'[j - 1] = m[j]
          BY <1>1, <2>1, <4>2
        <5> QED BY <5>1
      <4> QED BY <1>1, <4>1, <4>2
    <3> QED BY <1>1, <2>2, <3>1, <3>2, <3>3 DEF FreeIn
  <2> QED BY <1>6, <2>1, <2>4, <2>5, <2>6, <2>7, <2>8, <2>9 DEF Good
<1>8. CASE m[i].size > n /\ map' = [m EXCEPT ![i] = At(@.addr + n, @.size - n)] /\ room' = room
  <2> DEFINE rest == At(a + n, m[i].size - n)
  <2>1. rest \in Region /\ rest.addr = a + n /\ rest.size = m[i].size - n /\ After(rest) = After(m[i])
    <3>1. a + n \in Nat /\ m[i].size - n \in Nat
      BY <1>1, <1>2, <1>8
    <3> QED BY SMTT(30), <1>1, <1>2, <3>1, AtRegion DEF After
  <2>2. /\ map' \in Seq(Region) /\ Len(map') = Len(m)
        /\ \A j \in 1 .. Len(m) : map'[j] = IF j = i THEN rest ELSE m[j]
    BY <1>1, <1>8, <2>1, ReplacedSeq
  <2>3. \A j \in 1 .. Len(m) : Apart(new, map'[j])
    <3>1. After(new) = rest.addr
      BY <1>3, <2>1
    <3> HIDE DEF new, rest
    <3> QED BY <1>ends, <1>3, <1>2, <2>1, <2>2, <3>1, <1>apart DEF Apart
  <2>4. \A r \in held, j \in 1 .. Len(m) : Apart(r, map'[j])
    BY SMTT(30), <1>1, <1>2, <1>4, <2>1, <2>2 DEF Good, Apart, InMap
  <2>5. ASSUME NEW j \in 1 .. Len(m), NEW k \in 1 .. Len(m), j < k
        PROVE  After(map'[j]) < map'[k].addr
    <3>1. After(m[j]) < m[k].addr
      BY <2>5 DEF Good
    <3>2. After(map'[j]) = After(m[j])
      BY <2>1, <2>2
    <3>3. map'[k].addr >= m[k].addr
      BY <1>1, <1>2, <2>1, <2>2
    <3>4. After(m[j]) \in Nat /\ m[k].addr \in Nat /\ map'[k].addr \in Nat
      BY SMTT(30), <1>2, <2>1, <2>2
    <3> QED BY <3>1, <3>2, <3>3, <3>4
  <2>6. \A k \in 1 .. Len(m) : InMap(map'[k])
    BY <1>1, <1>2, <1>8, <2>1, <2>2 DEF Good, InMap
  <2>7. \A k \in 1 .. Len(m) : \E j \in 1 .. Len(m) : map'[k].size <= m[j].size
    BY <1>1, <1>2, <1>8, <2>1, <2>2
  <2>8. ASSUME NEW u \in Int PROVE FreeIn(map', u) <=> FreeIn(m, u) /\ ~Inside(u, new)
    <3>1. Inside(u, rest) <=> Inside(u, m[i]) /\ ~Inside(u, new)
      BY <1>1, <1>2, <1>3, <2>1 DEF Inside
    <3>2. \A j \in 1 .. Len(m) : j # i /\ Inside(u, m[j]) => ~Inside(u, new)
      <4>1. Inside(u, new) => Inside(u, m[i])
        BY <1>1, <1>2, <1>3 DEF Inside
      <4>2. \A j \in 1 .. Len(m) : j # i => ~(Inside(u, m[j]) /\ Inside(u, m[i]))
        BY SMTT(30), <1>1, <1>2 DEF Good, Inside
      <4> QED BY <4>1, <4>2
    <3> HIDE DEF rest, new
    <3> QED BY <1>1, <2>2, <3>1, <3>2 DEF FreeIn
  <2> QED BY <1>3, <1>6, <1>8, <2>2, <2>3, <2>4, <2>5, <2>6, <2>7, <2>8 DEF Good
<1> QED BY <1>1, <1>7, <1>8 DEF Malloc

(* mfree() puts a held region back, into one entry with its neighbours, or *)
(* loses it.                                                               *)
LEMMA MfreeGood ==
  ASSUME Good(map, room, held), NEW i \in 1 .. Len(map) + 1, NEW r \in held, Above(i, r),
         Combined(i, r), held' = held \ {r}
  PROVE  /\ Good(map', room', held')
         /\ \A u \in Int : FreeIn(map', u) <=> FreeIn(map, u) \/ Inside(u, r)
<1> DEFINE m == map
<1>1. /\ Len(m) \in Nat /\ DOMAIN m = 1 .. Len(m)
      /\ m \in Seq(Region) /\ \A j \in 1 .. Len(m) : m[j] \in Region
  BY LenProperties DEF Good
<1>2. /\ \A j \in 1 .. Len(m) : /\ m[j].addr \in Nat /\ m[j].size \in Nat
                                /\ After(m[j]) = m[j].addr + m[j].size
                                /\ m[j].size > 0 /\ m[j].addr > 0 /\ After(m[j]) <= Top + 1
      /\ \A s \in held : /\ s \in Region /\ s.addr \in Nat /\ s.size \in Nat
                         /\ After(s) = s.addr + s.size
                         /\ s.size > 0 /\ s.addr > 0 /\ After(s) <= Top + 1
      /\ Top \in Nat
  BY <1>1, MapAssumption DEF Good, InMap, Region, After
<1>9. /\ r \in Region /\ r.addr \in Nat /\ r.size \in Nat /\ After(r) = r.addr + r.size
      /\ After(r) \in Nat /\ r.size > 0 /\ r.addr > 0 /\ After(r) <= Top + 1
  BY <1>2
<1>10. \A j \in 1 .. Len(m) : After(m[j]) \in Nat
  BY <1>2
<1>bounds. /\ \A j \in 1 .. Len(m) : /\ m[j].addr \in Nat /\ After(m[j]) \in Nat
                                 /\ m[j].addr < After(m[j]) /\ m[j].addr <= After(m[j])
       /\ \A s \in held : s.addr \in Nat /\ After(s) \in Nat /\ After(s) > s.addr
  <2>1. ASSUME NEW j \in 1 .. Len(m)
        PROVE  /\ m[j].addr \in Nat /\ After(m[j]) \in Nat
               /\ m[j].addr < After(m[j]) /\ m[j].addr <= After(m[j])
    BY <1>2
  <2>2. ASSUME NEW s \in held PROVE s.addr \in Nat /\ After(s) \in Nat /\ After(s) > s.addr
    BY <1>2
  <2> QED BY <2>1, <2>2
<1>3. held' \subseteq held /\ \A s \in held' : s \in held /\ s # r /\ Apart(s, r)
  BY DEF Good
<1>4. held' \subseteq Region /\ (\A s \in held' : InMap(s)) /\ \A s, t \in held' : s # t => Apart(s, t)
  BY <1>3 DEF Good
(* The entries below i end at or before r, the ones from i on begin after it. *)
<1>5. \A j \in 1 .. Len(m) : j < i => After(m[j]) <= r.addr
  <2> SUFFICES ASSUME NEW j \in 1 .. Len(m), j < i PROVE After(m[j]) <= r.addr
    OBVIOUS
  <2>1. m[j].addr <= r.addr
    BY <1>1 DEF Above
  <2>2. After(r) <= m[j].addr \/ After(m[j]) <= r.addr
    BY DEF Good, Apart
  <2>3. r.addr < After(r) /\ m[j].addr \in Nat
    BY <1>bounds
  <2> QED BY <1>9, <2>1, <2>2, <2>3
<1>6. \A j \in 1 .. Len(m) : j >= i => After(r) <= m[j].addr
  <2>1. ASSUME NEW j \in 1 .. Len(m), j >= i PROVE m[j].addr > r.addr
    <3>1. i \in 1 .. Len(m) /\ m[i].addr > r.addr
      BY <1>1, <2>1 DEF Above
    <3>2. i = j \/ After(m[i]) < m[j].addr
      BY <1>1, <2>1, <3>1 DEF Good
    <3>3. m[i].addr < After(m[i]) /\ m[i].addr \in Nat /\ After(m[i]) \in Nat /\ m[j].addr \in Nat
      BY <1>bounds, <3>1
    <3> QED BY SMTT(30), <1>9, <3>1, <3>2, <3>3
  <2> SUFFICES ASSUME NEW j \in 1 .. Len(m), j >= i PROVE After(r) <= m[j].addr
    OBVIOUS
  <2>2. m[j].addr > r.addr
    BY <2>1
  <2>3. After(r) <= m[j].addr \/ After(m[j]) <= r.addr
    BY DEF Good, Apart
  <2>4. m[j].addr < After(m[j]) /\ m[j].addr \in Nat /\ After(m[j]) \in Nat
    BY <1>bounds
  <2> QED BY <1>9, <2>2, <2>3, <2>4
<1>7. \A s \in held', j \in 1 .. Len(m) : Apart(s, m[j])
  BY <1>3 DEF Good
<1>8. \A j, k \in 1 .. Len(m) : j < k => After(m[j]) < m[k].addr
  BY DEF Good
<1>11. room \in Nat /\ Entries \in Nat /\ room + Len(m) = Entries - 2
  BY MapAssumption DEF Good
<1>a. CASE JoinsBelow(i, r) /\ JoinsAbove(i, r)
  <2>1. i - 1 \in 1 .. Len(m) /\ i \in 1 .. Len(m) /\ After(m[i - 1]) = r.addr /\ After(r) = m[i].addr
    BY <1>1, <1>a DEF JoinsBelow, JoinsAbove
  <2> PICK k \in 1 .. Len(m) : k = i - 1
    BY <2>1
  <2> DEFINE big == At(m[k].addr, m[k].size + r.size + m[i].size)
             grown == [m EXCEPT ![k] = big]
  <2>2. /\ m[k].addr \in Nat /\ m[k].size \in Nat /\ m[k].addr > 0 /\ m[k].size > 0
        /\ m[k].addr + m[k].size = r.addr
        /\ m[i].addr \in Nat /\ m[i].size \in Nat /\ After(m[i]) = m[i].addr + m[i].size
        /\ r.addr + r.size = m[i].addr /\ After(m[i]) <= Top + 1
    BY <1>2, <1>9, <2>1
  <2>3. /\ big \in Region /\ big.addr = m[k].addr /\ big.size = m[k].size + r.size + m[i].size
        /\ After(big) = After(m[i])
    <3>1. m[k].size + r.size + m[i].size \in Nat
      <4>1. m[k].size + r.size \in Nat
        BY <1>9, <2>2, NatSum
      <4> QED BY <2>2, <4>1, NatSum
    <3>2. big \in Region /\ big.addr = m[k].addr /\ big.size = m[k].size + r.size + m[i].size
      BY <2>2, <3>1, AtRegion
    <3>3. After(big) = big.addr + big.size
      BY DEF After
    <3> HIDE DEF big
    <3>4. /\ m[k].addr \in Nat /\ m[k].size \in Nat /\ m[k].addr + m[k].size = r.addr
          /\ r.addr + r.size = m[i].addr /\ m[i].size \in Nat /\ r.size \in Nat /\ r.addr \in Nat
      BY <1>9, <2>2
    <3>5. m[k].addr + (m[k].size + r.size + m[i].size) = m[i].addr + m[i].size
      BY SMTT(30), <3>4
    <3> QED BY <2>2, <3>2, <3>3, <3>5
  <2>4. map' = Removed(grown, i) /\ room' = room + 1
    <3>1. [m[k] EXCEPT !.size = @ + r.size + m[i].size] = big
      BY <1>1 DEF At, Region
    <3> QED BY <1>1, <1>a, <3>1 DEF Combined
  <2>5. /\ grown \in Seq(Region) /\ Len(grown) = Len(m)
        /\ \A j \in 1 .. Len(m) : grown[j] = IF j = k THEN big ELSE m[j]
    BY <1>1, <2>3, ReplacedSeq
  <2> HIDE DEF big, grown
  <2>6. /\ map' \in Seq(Region) /\ Len(map') = Len(m) - 1
        /\ \A j \in 1 .. Len(m) - 1 : map'[j] = IF j < i THEN grown[j] ELSE grown[j + 1]
    <3>1. i \in 1 .. Len(grown)
      BY <2>1, <2>5
    <3> QED BY <2>4, <2>5, <3>1, RemovedSeq
  <2>7. \A j \in 1 .. Len(m) - 1 : /\ j \in 1 .. Len(m) /\ j + 1 \in 1 .. Len(m)
                                   /\ j < k => map'[j] = m[j]
                                   /\ j = k => map'[j] = big
                                   /\ j > k => map'[j] = m[j + 1]
    <3> SUFFICES ASSUME NEW j \in 1 .. Len(m) - 1
                 PROVE  /\ j \in 1 .. Len(m) /\ j + 1 \in 1 .. Len(m)
                        /\ j < k => map'[j] = m[j]
                        /\ j = k => map'[j] = big
                        /\ j > k => map'[j] = m[j + 1]
      OBVIOUS
    <3>1. j \in 1 .. Len(m) /\ j + 1 \in 1 .. Len(m) /\ i = k + 1 /\ j \in Int /\ k \in Int
      BY <1>1
    <3>2. j < k => j < i /\ j # k
      BY <3>1
    <3>3. j > k => ~(j < i) /\ j + 1 # k
      BY <3>1
    <3>4. j = k => j < i
      BY <3>1
    <3> QED BY <2>5, <2>6, <3>1, <3>2, <3>3, <3>4
  <2>8. InMap(big)
    <3>1. m[k].size + r.size + m[i].size > 0
      <4>1. m[k].size + r.size > 0 /\ m[k].size + r.size \in Nat
        BY SMTT(30), <1>9, <2>2
      <4> QED BY <2>2, <4>1
    <3> QED BY <2>2, <2>3, <3>1 DEF InMap
  <2>9. ASSUME NEW t \in held' PROVE Apart(t, big)
    <3>1. t \in held /\ Apart(t, r) /\ Apart(t, m[k]) /\ Apart(t, m[i])
      BY <1>3, <1>7, <2>1
    <3>2. t.addr \in Nat /\ After(t) \in Nat /\ After(m[k]) = r.addr /\ After(t) > t.addr
      BY SMTT(30), <1>2, <2>1, <3>1
    <3>3. /\ After(t) <= r.addr \/ m[i].addr <= t.addr
          /\ After(t) <= m[k].addr \/ r.addr <= t.addr
          /\ After(t) <= m[i].addr \/ After(m[i]) <= t.addr
      BY <2>1, <3>1, <3>2 DEF Apart
    <3>4. /\ r.addr \in Nat /\ m[k].addr \in Nat /\ m[i].addr \in Nat /\ After(m[i]) \in Nat
          /\ r.addr < m[i].addr
      BY <1>9, <1>10, <1>bounds, <2>1
    <3>5. After(t) <= m[k].addr \/ After(m[i]) <= t.addr
      BY <3>2, <3>3, <3>4
    <3> QED BY <2>3, <3>5 DEF Apart
  <2>10. ASSUME NEW j \in 1 .. Len(m) - 1, NEW l \in 1 .. Len(m) - 1, j < l
         PROVE  After(map'[j]) < map'[l].addr
    (* The entries of m where map'[j] ends and map'[l] begins. *)
    <3>1. PICK x \in 1 .. Len(m) : x = (IF j < k THEN j ELSE j + 1) /\ After(map'[j]) = After(m[x])
      BY <1>1, <2>3, <2>7
    <3>2. PICK y \in 1 .. Len(m) : y = (IF l <= k THEN l ELSE l + 1) /\ map'[l].addr = m[y].addr
      BY SMTT(30), <1>1, <2>3, <2>7
    <3>3. x < y
      BY <1>1, <2>10, <3>1, <3>2
    <3> QED BY <1>8, <3>1, <3>2, <3>3
  <2>11. \A j \in 1 .. Len(m) - 1 : InMap(map'[j])
    BY <1>1, <2>7, <2>8 DEF Good
  <2>12. \A t \in held', j \in 1 .. Len(m) - 1 : Apart(t, map'[j])
    BY <1>1, <1>7, <2>7, <2>9
  <2>13. room' \in Nat /\ room' + Len(map') = Entries - 2
    BY <1>1, <1>11, <2>4, <2>6
  <2>14. ASSUME NEW u \in Int PROVE FreeIn(map', u) <=> FreeIn(m, u) \/ Inside(u, r)
    <3>1. Inside(u, big) <=> Inside(u, m[k]) \/ Inside(u, r) \/ Inside(u, m[i])
      <4>1. After(m[k]) = r.addr
        BY <2>1
      <4>2. /\ m[k].addr \in Nat /\ m[i].addr \in Nat /\ After(m[i]) \in Nat
            /\ m[k].addr <= r.addr /\ r.addr <= m[i].addr /\ m[i].addr <= After(m[i])
        <5>1. m[k].addr <= r.addr
          BY <1>9, <2>2
        <5>2. r.addr <= m[i].addr
          BY <1>9, <2>2
        <5>3. After(m[i]) \in Nat /\ m[i].addr <= After(m[i])
          BY <1>10, <2>1, <2>2
        <5> QED BY <2>2, <5>1, <5>2, <5>3
      <4>3. Inside(u, big) <=> m[k].addr <= u /\ u < After(m[i])
        BY <2>3 DEF Inside
      <4>4. Inside(u, r) <=> r.addr <= u /\ u < m[i].addr
        BY <2>1 DEF Inside
      <4>5. Inside(u, m[k]) <=> m[k].addr <= u /\ u < r.addr
        BY <4>1 DEF Inside
      <4>6. Inside(u, m[i]) <=> m[i].addr <= u /\ u < After(m[i])
        BY DEF Inside
      <4> QED BY SMTT(30), <1>9, <4>2, <4>3, <4>4, <4>5, <4>6
    <3>2. k \in 1 .. Len(m) - 1 /\ map'[k] = big
      BY <1>1, <2>1, <2>7
    <3>3. ASSUME FreeIn(map', u) PROVE FreeIn(m, u) \/ Inside(u, r)
      <4>1. PICK j \in 1 .. Len(m) - 1 : Inside(u, map'[j])
        BY <2>6, <3>3 DEF FreeIn
      <4>2. j \in 1 .. Len(m) /\ j + 1 \in 1 .. Len(m) /\ (map'[j] = m[j] \/ map'[j] = m[j + 1] \/ map'[j] = big)
        BY <1>1, <2>7
      <4> QED BY <2>1, <3>1, <4>1, <4>2 DEF FreeIn
    <3>4. ASSUME NEW j \in 1 .. Len(m), Inside(u, m[j]) PROVE FreeIn(map', u)
      <4>1. CASE j < k
        BY <1>1, <2>6, <2>7, <3>4, <4>1 DEF FreeIn
      <4>2. CASE j = k \/ j = i
        BY <1>1, <2>6, <3>1, <3>2, <3>4, <4>2 DEF FreeIn
      <4>3. CASE j > i
        <5>1. j - 1 \in 1 .. Len(m) - 1 /\ map'[j - 1] = m[j]
          BY SMTT(30), <1>1, <2>7, <4>3
        <5> QED BY <2>6, <3>4, <5>1 DEF FreeIn
      <4> QED BY <1>1, <4>1, <4>2, <4>3
    <3>5. Inside(u, r) => FreeIn(map', u)
      BY <2>6, <3>1, <3>2 DEF FreeIn
    <3> QED BY <3>3, <3>4, <3>5 DEF FreeIn
  <2> QED BY <1>4, <2>6, <2>10, <2>11, <2>12, <2>13, <2>14 DEF Good
<1>b. CASE JoinsBelow(i, r) /\ ~JoinsAbove(i, r)
  <2> PICK k \in 1 .. Len(m) : k = i - 1
    BY <1>1, <1>b DEF JoinsBelow
  <2> DEFINE big == At(m[k].addr, m[k].size + r.size)
  <2>1. k \in 1 .. Len(m) /\ After(m[k]) = r.addr /\ room' = room
        /\ map' = [m EXCEPT ![k].size = @ + r.size]
    BY <1>1, <1>b DEF Combined, JoinsBelow
  <2>2. big \in Region /\ big.addr = m[k].addr /\ big.size = m[k].size + r.size /\ After(big) = After(r)
    <3>1. m[k].size + r.size \in Nat
      BY SMTT(30), <1>2, <1>9, <1>10, <2>1
    <3>2. m[k].addr \in Nat /\ m[k].size \in Nat /\ m[k].addr + m[k].size = r.addr
      BY <1>2, <2>1
    <3>3. big \in Region /\ big.addr = m[k].addr /\ big.size = m[k].size + r.size
      BY <3>1, <3>2, AtRegion
    <3>4. After(big) = big.addr + big.size
      BY DEF After
    <3> HIDE DEF big
    <3> QED BY <1>9, <3>2, <3>3, <3>4
  <2>3. map' = [m EXCEPT ![k] = big]
    <3>1. [m[k] EXCEPT !.size = @ + r.size] = big
      BY <1>1, <2>1 DEF At, Region
    <3> QED BY <1>1, <2>1, <3>1
  <2>4. /\ map' \in Seq(Region) /\ Len(map') = Len(m)
        /\ \A j \in 1 .. Len(m) : map'[j] = IF j = k THEN big ELSE m[j]
    BY <1>1, <2>1, <2>2, <2>3, ReplacedSeq
  <2>5. InMap(big)
    BY SMTT(30), <1>2, <1>9, <1>10, <2>1, <2>2 DEF InMap
  <2>6. ASSUME NEW t \in held' PROVE Apart(t, big)
    <3>1. t \in held /\ Apart(t, r) /\ Apart(t, m[k])
      BY <1>3, <1>7, <2>1
    <3>2. t.addr \in Nat /\ After(t) \in Nat /\ After(t) > t.addr /\ m[k].addr \in Nat
      BY <1>2, <3>1
    <3> HIDE DEF big
    <3> QED BY <1>9, <2>1, <2>2, <3>1, <3>2 DEF Apart
  <2>7. ASSUME NEW j \in 1 .. Len(m), NEW l \in 1 .. Len(m), j < l
        PROVE  After(map'[j]) < map'[l].addr
    <3>1. CASE j = k
      <4>1. After(r) < m[l].addr
        <5>1. i \in 1 .. Len(m) /\ i <= l /\ m[i].addr # After(r)
          BY <1>1, <1>b, <2>1, <2>7, <3>1 DEF JoinsAbove
        <5>2. After(r) < m[i].addr
          <6>1. After(r) <= m[i].addr /\ m[i].addr \in Nat
            BY <1>2, <1>6, <5>1
          <6> QED BY <1>9, <5>1, <6>1, NatLess
        <5>3. i = l \/ After(m[i]) < m[l].addr
          BY <1>8, <5>1
        <5>4. m[i].addr \in Nat /\ m[l].addr \in Nat /\ After(m[i]) \in Nat /\ After(m[i]) > m[i].addr
          BY SMTT(30), <1>2, <5>1
        <5> QED BY <1>9, <5>1, <5>2, <5>3, <5>4
      <4> QED BY <2>2, <2>4, <2>7, <3>1, <4>1
    <3>2. CASE j # k
      BY <1>8, <2>1, <2>2, <2>4, <2>7, <3>2
    <3> QED BY <3>1, <3>2
  <2>8. \A j \in 1 .. Len(m) : InMap(map'[j])
    BY <2>4, <2>5 DEF Good
  <2>9. \A t \in held', j \in 1 .. Len(m) : Apart(t, map'[j])
    BY <1>7, <2>4, <2>6
  <2>10. ASSUME NEW u \in Int PROVE FreeIn(map', u) <=> FreeIn(m, u) \/ Inside(u, r)
    <3>1. Inside(u, big) <=> Inside(u, m[k]) \/ Inside(u, r)
      <4>1. m[k].addr \in Nat /\ m[k].size \in Nat /\ After(m[k]) = m[k].addr + m[k].size
        BY <1>2, <2>1
      <4> HIDE DEF big
      <4> QED BY SMTT(30), <1>9, <2>1, <2>2, <4>1 DEF Inside
    <3> HIDE DEF big
    <3> QED BY <1>1, <2>1, <2>4, <3>1 DEF FreeIn
  <2>11. room' \in Nat /\ room' + Len(map') = Entries - 2
    BY <1>11, <2>1, <2>4
  <2> QED BY <1>4, <2>4, <2>7, <2>8, <2>9, <2>10, <2>11 DEF Good
<1>c. CASE ~JoinsBelow(i, r) /\ JoinsAbove(i, r)
  <2> DEFINE big == At(r.addr, r.size + m[i].size)
  <2>1. i \in 1 .. Len(m) /\ After(r) = m[i].addr /\ room' = room
        /\ map' = [m EXCEPT ![i] = big]
    BY <1>1, <1>c DEF Combined, JoinsAbove
  <2>2. big \in Region /\ big.addr = r.addr /\ big.size = r.size + m[i].size /\ After(big) = After(m[i])
    <3>1. r.size + m[i].size \in Nat
      BY SMTT(30), <1>2, <1>9, <1>10, <2>1
    <3>2. m[i].addr \in Nat /\ m[i].size \in Nat /\ After(m[i]) = m[i].addr + m[i].size
      BY <1>2, <2>1
    <3>3. big \in Region /\ big.addr = r.addr /\ big.size = r.size + m[i].size
      BY <1>9, <3>1, AtRegion
    <3>4. After(big) = big.addr + big.size
      BY DEF After
    <3> HIDE DEF big
    <3> QED BY <1>9, <2>1, <3>2, <3>3, <3>4
  <2>4. /\ map' \in Seq(Region) /\ Len(map') = Len(m)
        /\ \A j \in 1 .. Len(m) : map'[j] = IF j = i THEN big ELSE m[j]
    BY <1>1, <2>1, <2>2, ReplacedSeq
  <2>5. InMap(big)
    BY SMTT(30), <1>2, <1>9, <1>10, <2>1, <2>2 DEF InMap
  <2>6. ASSUME NEW t \in held' PROVE Apart(t, big)
    <3>1. t \in held /\ Apart(t, r) /\ Apart(t, m[i])
      BY <1>3, <1>7, <2>1
    <3>2. /\ t.addr \in Nat /\ After(t) \in Nat /\ After(t) > t.addr
          /\ m[i].addr \in Nat /\ After(m[i]) \in Nat /\ m[i].addr <= After(m[i])
      BY <1>bounds, <2>1, <3>1
    <3> HIDE DEF big
    <3> QED BY <1>9, <2>1, <2>2, <3>1, <3>2 DEF Apart
  <2>7. ASSUME NEW j \in 1 .. Len(m), NEW l \in 1 .. Len(m), j < l
        PROVE  After(map'[j]) < map'[l].addr
    <3>1. CASE l = i
      <4>1. After(m[j]) < r.addr
        <5>1. i - 1 \in 1 .. Len(m) /\ j <= i - 1 /\ After(m[i - 1]) # r.addr
          BY <1>1, <1>c, <2>1, <2>7, <3>1 DEF JoinsBelow
        <5>2. After(m[i - 1]) < r.addr
          <6>1. After(m[i - 1]) <= r.addr /\ After(m[i - 1]) \in Nat
            BY <1>1, <1>5, <1>10, <5>1
          <6> QED BY <1>9, <5>1, <6>1, NatLess
        <5>3. j = i - 1 \/ After(m[j]) < m[i - 1].addr
          BY <1>8, <5>1
        <5>4. m[i - 1].addr \in Nat /\ After(m[i - 1]) \in Nat /\ m[i - 1].addr <= After(m[i - 1])
          BY <1>bounds, <5>1
        <5>5. After(m[j]) \in Nat
          BY <1>10
        <5> QED BY <1>9, <5>2, <5>3, <5>4, <5>5
      <4> QED BY <2>2, <2>4, <2>7, <3>1, <4>1
    <3>2. CASE l # i
      BY <1>8, <2>1, <2>2, <2>4, <2>7, <3>2
    <3> QED BY <3>1, <3>2
  <2>8. \A j \in 1 .. Len(m) : InMap(map'[j])
    BY <2>4, <2>5 DEF Good
  <2>9. \A t \in held', j \in 1 .. Len(m) : Apart(t, map'[j])
    BY <1>7, <2>4, <2>6
  <2>10. ASSUME NEW u \in Int PROVE FreeIn(map', u) <=> FreeIn(m, u) \/ Inside(u, r)
    <3>1. Inside(u, big) <=> Inside(u, m[i]) \/ Inside(u, r)
      <4>1. m[i].addr \in Nat /\ m[i].size \in Nat /\ After(m[i]) = m[i].addr + m[i].size
        BY <1>2, <2>1
      <4> HIDE DEF big
      <4> QED BY SMTT(30), <1>9, <2>1, <2>2, <4>1 DEF Inside
    <3> HIDE DEF big
    <3> QED BY <1>1, <2>1, <2>4, <3>1 DEF FreeIn
  <2>11. room' \in Nat /\ room' + Len(map') = Entries - 2
    BY <1>11, <2>1, <2>4
  <2> QED BY <1>4, <2>4, <2>7, <2>8, <2>9, <2>10, <2>11 DEF Good
<1>d. CASE ~JoinsBelow(i, r) /\ ~JoinsAbove(i, r)
  <2>1. map' = Inserted(m, i, r) /\ room' = room - 1 /\ room > 0
    BY <1>d DEF Combined
  <2>2. /\ map' \in Seq(Region) /\ Len(map') = Len(m) + 1
        /\ \A j \in 1 .. Len(m) + 1 : map'[j] = IF j < i THEN m[j] ELSE IF j = i THEN r ELSE m[j - 1]
    <3>1. m \in Seq(Region) /\ r \in Region /\ i \in 1 .. Len(m) + 1
      BY <1>1, <1>9
    <3>2. /\ Inserted(m, i, r) \in Seq(Region) /\ Len(Inserted(m, i, r)) = Len(m) + 1
          /\ \A j \in 1 .. Len(m) + 1 :
               Inserted(m, i, r)[j] = IF j < i THEN m[j] ELSE IF j = i THEN r ELSE m[j - 1]
      BY <3>1, InsertedSeq, SMTT(60)
    <3> QED BY <2>1, <3>2
  <2>3. \A j \in 1 .. Len(map') : map'[j] = r \/ \E x \in 1 .. Len(m) : map'[j] = m[x]
    BY <1>1, <2>2
  <2>4. \A j \in 1 .. Len(m) : j < i => After(m[j]) < r.addr
    <3> SUFFICES ASSUME NEW j \in 1 .. Len(m), j < i PROVE After(m[j]) < r.addr
      OBVIOUS
    <3>1. i - 1 \in 1 .. Len(m) /\ j <= i - 1 /\ After(m[i - 1]) # r.addr
      BY <1>1, <1>d DEF JoinsBelow
    <3>2. After(m[i - 1]) < r.addr
      <4>1. After(m[i - 1]) <= r.addr /\ After(m[i - 1]) \in Nat
        BY <1>1, <1>5, <1>10, <3>1
      <4> QED BY <1>9, <3>1, <4>1, NatLess
    <3>3. j = i - 1 \/ After(m[j]) < m[i - 1].addr
      BY <1>8, <3>1
    <3>4. /\ m[i - 1].addr \in Nat /\ After(m[i - 1]) \in Nat /\ After(m[j]) \in Nat
          /\ m[i - 1].addr <= After(m[i - 1])
      BY <1>bounds, <3>1
    <3> QED BY <1>9, <3>2, <3>3, <3>4
  <2>5. \A j \in 1 .. Len(m) : j >= i => After(r) < m[j].addr
    <3> SUFFICES ASSUME NEW j \in 1 .. Len(m), j >= i PROVE After(r) < m[j].addr
      OBVIOUS
    <3>1. i \in 1 .. Len(m) /\ m[i].addr # After(r)
      BY <1>1, <1>d DEF JoinsAbove
    <3>2. After(r) < m[i].addr
      <4>1. After(r) <= m[i].addr /\ m[i].addr \in Nat
        BY <1>2, <1>6, <3>1
      <4> QED BY <1>9, <3>1, <4>1, NatLess
    <3>3. j = i \/ After(m[i]) < m[j].addr
      BY <1>8, <3>1
    <3>4. /\ m[i].addr \in Nat /\ After(m[i]) \in Nat /\ m[j].addr \in Nat
          /\ m[i].addr <= After(m[i])
      BY <1>bounds, <3>1
    <3> QED BY <1>9, <3>2, <3>3, <3>4
  <2>6. ASSUME NEW j \in 1 .. Len(map'), NEW l \in 1 .. Len(map'), j < l
        PROVE  After(map'[j]) < map'[l].addr
    <3>1. CASE j < i /\ l < i
      BY <1>1, <1>8, <2>2, <2>6, <3>1
    <3>2. CASE j < i /\ l = i
      BY <1>1, <2>2, <2>4, <2>6, <3>2
    <3>3. CASE j < i /\ l > i
      <4>1. j \in 1 .. Len(m) /\ l - 1 \in 1 .. Len(m) /\ j < l - 1
        BY <1>1, <2>2, <3>3
      <4> QED BY <1>8, <2>2, <3>3, <4>1
    <3>4. CASE j = i
      <4>1. l - 1 \in 1 .. Len(m) /\ l - 1 >= i
        BY <1>1, <2>2, <2>6, <3>4
      <4> QED BY <2>2, <2>5, <2>6, <3>4, <4>1
    <3>5. CASE j > i
      <4>1. j - 1 \in 1 .. Len(m) /\ l - 1 \in 1 .. Len(m) /\ j - 1 < l - 1
        BY <1>1, <2>2, <2>6, <3>5
      <4> QED BY SMTT(30), <1>8, <2>2, <2>6, <3>5, <4>1
    <3> QED BY <2>6, <3>1, <3>2, <3>3, <3>4, <3>5
  <2>7. \A j \in 1 .. Len(map') : InMap(map'[j])
    BY <2>3 DEF Good
  <2>8. \A t \in held', j \in 1 .. Len(map') : Apart(t, map'[j])
    BY <1>3, <1>7, <2>3
  <2>9. room' \in Nat /\ room' + Len(map') = Entries - 2
    BY <1>1, <2>1, <2>2, MapAssumption DEF Good
  <2>10. ASSUME NEW u \in Int PROVE FreeIn(map', u) <=> FreeIn(m, u) \/ Inside(u, r)
    <3>1. map'[i] = r /\ i \in 1 .. Len(map')
      BY <1>1, <2>2
    <3>2. ASSUME NEW j \in 1 .. Len(m), Inside(u, m[j]) PROVE FreeIn(map', u)
      <4>1. CASE j < i
        BY <1>1, <2>2, <3>2, <4>1 DEF FreeIn
      <4>2. CASE j >= i
        <5>1. j + 1 \in 1 .. Len(map') /\ map'[j + 1] = m[j]
          BY <1>1, <2>2, <4>2
        <5> QED BY <3>2, <5>1 DEF FreeIn
      <4> QED BY <1>1, <4>1, <4>2
    <3> QED BY <2>3, <3>1, <3>2 DEF FreeIn
  <2> QED BY <1>4, <2>2, <2>6, <2>7, <2>8, <2>9, <2>10 DEF Good
<1> QED BY <1>a, <1>b, <1>c, <1>d

(* What a good map and its held regions say of the variables. *)
LEMMA GoodNext ==
  ASSUME Good(map', room', held')
  PROVE  /\ DOMAIN map' = 1 .. Len(map')
         /\ map' \in Seq(Region) /\ held' \subseteq Region
         /\ room' \in Nat /\ room' + Len(map') = Entries - 2
         /\ Coalesced' /\ HeldOnce'
<1>1. DOMAIN map' = 1 .. Len(map')
  BY LenProperties DEF Good
<1> QED BY <1>1 DEF Good, Coalesced, HeldOnce

------------------------------------------------------------------------------
LEMMA InitInv == Init => Inv
<1> SUFFICES ASSUME Init PROVE Inv
  OBVIOUS
<1> DEFINE e == At(1, Top)
<1>1. Top \in Nat /\ Top > 0 /\ Entries \in Nat /\ Entries - 3 \in Nat
  BY MapAssumption
<1>2. e \in Region /\ e.addr = 1 /\ e.size = Top
  BY <1>1, AtRegion
<1>3. After(e) = Top + 1
  BY <1>1, <1>2 DEF After
<1>4. InMap(e)
  BY <1>1, <1>2, <1>3 DEF InMap
<1> HIDE DEF e
<1>5. map = <<e>> /\ map \in Seq(Region) /\ Len(map) = 1 /\ DOMAIN map = {1} /\ map[1] = e
  BY <1>2 DEF Init, e
<1>6. TypeOK
  <2>1. room \in Nat /\ room + Len(map) = Entries - 2
    BY <1>1, <1>5 DEF Init
  <2>2. want \in BOOLEAN /\ held \subseteq Region /\ pc \in [Proc -> {"run", "asleep", "ready"}]
    BY DEF Init
  <2>3. need \in [Proc -> Sizes \cup {Nothing}] /\ \A p \in Proc : pc[p] = "run" <=> need[p] = Nothing
    BY DEF Init
  <2> QED BY <1>5, <2>1, <2>2, <2>3 DEF TypeOK
<1>7. Coalesced /\ HeldOnce
  BY <1>4, <1>5 DEF Init, Coalesced, HeldOnce
<1>8. SleepersDontFit
  BY DEF Init, SleepersDontFit
<1> QED BY <1>6, <1>7, <1>8 DEF Inv

LEMMA NextInv == Inv /\ [Next]_vars => Inv'
<1> SUFFICES ASSUME Inv, [Next]_vars PROVE Inv'
  OBVIOUS
<1>1. Good(map, room, held) /\ DOMAIN map = 1 .. Len(map)
  BY GoodMap, LenProperties DEF Inv, TypeOK
<1>2. Sizes \subseteq Nat \ {0} /\ Nothing \notin Sizes
  BY MapAssumption
<1>3. \A q \in Proc : pc[q] = "asleep" => need[q] \in Sizes /\ want /\ NoFit(need[q])
  BY DEF Inv, TypeOK, SleepersDontFit
<1>4. ASSUME NEW p \in Proc, NEW n \in Sizes, Allocate(p, n) PROVE Inv'
  <2>1. PICK i \in DOMAIN map : Malloc(i, n)
    BY <1>4 DEF Allocate
  <2>2. /\ Good(map', room', held')
        /\ \A k \in 1 .. Len(map') : \E j \in 1 .. Len(map) : map'[k].size <= map[j].size
    <3>1. n \in Nat \ {0}
      BY <1>2
    <3> QED BY <1>1, <2>1, <3>1, MallocGood
  <2>3. /\ DOMAIN map' = 1 .. Len(map') /\ map' \in Seq(Region) /\ held' \subseteq Region
        /\ room' \in Nat /\ room' + Len(map') = Entries - 2 /\ Coalesced' /\ HeldOnce'
    BY <2>2, GoodNext
  <2>4. TypeOK'
    BY <1>2, <1>4, <2>3 DEF Inv, TypeOK, Allocate
  <2>5. ASSUME NEW q \in Proc, pc'[q] = "asleep" PROVE want' /\ NoFit(need[q])'
    <3>1. q # p /\ pc[q] = "asleep" /\ need'[q] = need[q] /\ want' = want
      BY <1>4, <2>5 DEF Inv, TypeOK, Allocate
    <3>2. want /\ need[q] \in Nat /\ \A j \in 1 .. Len(map) : ~(map[j].size >= need[q])
      BY <1>1, <1>2, <1>3, <3>1 DEF NoFit, Fits
    <3>3. ASSUME NEW k \in 1 .. Len(map') PROVE ~(map'[k].size >= need[q])
      <4>1. PICK j \in 1 .. Len(map) : map'[k].size <= map[j].size
        BY <2>2
      <4>2. map'[k].size \in Nat /\ map[j].size \in Nat
        <5>1. map'[k] \in Region /\ map[j] \in Region
          BY <1>1, <2>3, <4>1, LenProperties DEF Good
        <5> QED BY <5>1 DEF Region
      <4>3. ~(map[j].size >= need[q])
        BY <3>2, <4>1
      <4> QED BY <3>2, <4>1, <4>2, <4>3
    <3> QED BY <2>3, <3>1, <3>2, <3>3 DEF NoFit, Fits
  <2> QED BY <2>3, <2>4, <2>5 DEF Inv, SleepersDontFit
<1>5. ASSUME NEW p \in Proc, NEW n \in Sizes, Sleep(p, n) PROVE Inv'
  <2>1. TypeOK'
    BY <1>2, <1>5 DEF Inv, TypeOK, Sleep
  <2>2. SleepersDontFit'
    BY <1>3, <1>5 DEF Inv, TypeOK, Sleep, SleepersDontFit, NoFit, Fits
  <2> QED BY <1>5, <2>1, <2>2 DEF Inv, Sleep, Coalesced, HeldOnce
<1>6. ASSUME NEW p \in Proc, GiveUp(p) PROVE Inv'
  <2>1. TypeOK'
    BY <1>2, <1>6 DEF Inv, TypeOK, GiveUp
  <2>2. SleepersDontFit'
    BY <1>3, <1>6 DEF Inv, TypeOK, GiveUp, SleepersDontFit, NoFit, Fits
  <2> QED BY <1>6, <2>1, <2>2 DEF Inv, GiveUp, Coalesced, HeldOnce
<1>7. ASSUME NEW r \in held, Mfree(r) PROVE Inv'
  <2>1. PICK i \in 1 .. Len(map) + 1 :
          Above(i, r) /\ ((Combined(i, r) /\ WakeWanted) \/ Overflow(i, r))
    BY <1>7 DEF Mfree
  <2>2. held' = held \ {r} /\ need' = need
    BY <1>7 DEF Mfree
  <2>3. CASE Combined(i, r) /\ WakeWanted
    <3>1. Good(map', room', held')
      BY <1>1, <2>1, <2>2, <2>3, MfreeGood
    <3>2. /\ map' \in Seq(Region) /\ held' \subseteq Region
          /\ room' \in Nat /\ room' + Len(map') = Entries - 2 /\ Coalesced' /\ HeldOnce'
      BY <3>1, GoodNext
    <3>3. \A q \in Proc : pc'[q] # "asleep" /\ (pc'[q] = "run" <=> pc[q] = "run")
      <4>1. CASE want
        BY <2>3, <4>1 DEF WakeWanted
      <4>2. CASE ~want
        BY <1>3, <2>3, <4>2 DEF WakeWanted
      <4> QED BY <4>1, <4>2
    <3>4. pc' \in [Proc -> {"run", "asleep", "ready"}] /\ want' \in BOOLEAN
      BY <2>3 DEF WakeWanted, Inv, TypeOK
    <3>5. TypeOK'
      BY <2>2, <3>2, <3>3, <3>4 DEF Inv, TypeOK
    <3> QED BY <3>2, <3>3, <3>5 DEF Inv, SleepersDontFit
  <2>4. CASE Overflow(i, r)
    <3>1. UNCHANGED <<map, room, want, pc, need>>
      BY <2>2, <2>4 DEF Overflow
    <3> QED BY <2>2, <3>1 DEF Inv, TypeOK, Coalesced, HeldOnce, SleepersDontFit, NoFit, Fits
  <2> QED BY <2>1, <2>3, <2>4
<1>8. CASE UNCHANGED vars
  BY <1>8 DEF vars, Inv, TypeOK, Coalesced, HeldOnce, SleepersDontFit, NoFit, Fits
<1> QED BY <1>4, <1>5, <1>6, <1>7, <1>8 DEF Next

(* The invariant of the map, the regions and the sleepers: for every       *)
(* history of malloc(), mfree() and the callers' sleeps.                   *)
THEOREM Invariance == Spec => []Inv
<1> QED BY InitInv, NextInv, PTL DEF Spec

(* The type invariant of the resource map. *)
THEOREM TypeCorrect == Spec => []TypeOK
<1>1. Inv => TypeOK
  BY DEF Inv
<1> QED BY <1>1, Invariance, PTL

(* malloc() and mfree() never hand out a unit that is held, and a held     *)
(* unit is in no entry.                                                    *)
THEOREM Exclusive == Spec => []HeldOnce
<1>1. Inv => HeldOnce
  BY DEF Inv
<1> QED BY <1>1, Invariance, PTL

(* mfree() combines on both ends: the entries stay sorted, and no two of   *)
(* them could be one.                                                      *)
THEOREM Combining == Spec => []Coalesced
<1>1. Inv => Coalesced
  BY DEF Inv
<1> QED BY <1>1, Invariance, PTL

(* A caller asleep on a map is always one that no entry could serve, and   *)
(* mapwant is set, so that the next mfree() that frees anything wakes it.  *)
THEOREM NoStrandedSleeper == Spec => []SleepersDontFit
<1>1. Inv => SleepersDontFit
  BY DEF Inv
<1> QED BY <1>1, Invariance, PTL

------------------------------------------------------------------------------
(* The pool of units that the map implements. *)
Free == UNION {UnitsOf(map[i]) : i \in DOMAIN map}

LEMMA FreeUnits ==
  ASSUME Good(map, room, held)
  PROVE  Free \subseteq 1 .. Top /\ \A u \in Int : u \in Free <=> FreeIn(map, u)
<1>1. /\ DOMAIN map = 1 .. Len(map) /\ \A i \in 1 .. Len(map) : map[i] \in Region
  BY LenProperties DEF Good
<1>2. \A i \in 1 .. Len(map) : /\ map[i].addr \in Nat /\ map[i].size \in Nat
                               /\ After(map[i]) = map[i].addr + map[i].size
                               /\ map[i].addr > 0 /\ After(map[i]) <= Top + 1
  BY <1>1 DEF Good, InMap, Region, After
<1>3. Top \in Nat
  BY MapAssumption
<1>4. ASSUME NEW i \in 1 .. Len(map)
      PROVE  UnitsOf(map[i]) = {u \in Int : Inside(u, map[i])} /\ UnitsOf(map[i]) \subseteq 1 .. Top
  <2>1. /\ map[i].addr \in Nat /\ After(map[i]) \in Nat
        /\ map[i].addr > 0 /\ After(map[i]) <= Top + 1
    BY <1>2
  <2> QED BY <1>3, <2>1 DEF UnitsOf, Inside
<1> QED BY <1>1, <1>4 DEF Free, FreeIn

LEMMA FreeUnitsNext ==
  ASSUME Good(map', room', held')
  PROVE  Free' \subseteq 1 .. Top /\ \A u \in Int : u \in Free' <=> FreeIn(map', u)
<1>1. /\ DOMAIN map' = 1 .. Len(map') /\ \A i \in 1 .. Len(map') : map'[i] \in Region
  BY LenProperties DEF Good
<1>2. \A i \in 1 .. Len(map') : /\ map'[i].addr \in Nat /\ map'[i].size \in Nat
                                /\ After(map'[i]) = map'[i].addr + map'[i].size
                                /\ map'[i].addr > 0 /\ After(map'[i]) <= Top + 1
  BY <1>1 DEF Good, InMap, Region, After
<1>3. Top \in Nat
  BY MapAssumption
<1>4. ASSUME NEW i \in 1 .. Len(map')
      PROVE  UnitsOf(map'[i]) = {u \in Int : Inside(u, map'[i])} /\ UnitsOf(map'[i]) \subseteq 1 .. Top
  <2>1. /\ map'[i].addr \in Nat /\ After(map'[i]) \in Nat
        /\ map'[i].addr > 0 /\ After(map'[i]) <= Top + 1
    BY <1>2
  <2> QED BY <1>3, <2>1 DEF UnitsOf, Inside
<1> QED BY <1>1, <1>4 DEF Free, FreeIn

(* If no entry is large enough, no run of free units is either: a run that *)
(* starts in an entry would have to go on in the next, and two entries are *)
(* never adjacent.                                                         *)
LEMMA NoFitNoRun ==
  ASSUME Good(map, room, held), NEW n \in Nat \ {0}, NoFit(n), NEW a \in 1 .. Top,
         a .. a + n - 1 \subseteq Free
  PROVE  FALSE
<1>1. /\ DOMAIN map = 1 .. Len(map) /\ \A i \in 1 .. Len(map) : map[i] \in Region
  BY LenProperties DEF Good
<1>2. \A i \in 1 .. Len(map) : /\ map[i].addr \in Nat /\ map[i].size \in Nat
                               /\ After(map[i]) = map[i].addr + map[i].size
                               /\ map[i].size > 0 /\ ~(map[i].size >= n)
  BY <1>1 DEF Good, InMap, Region, After, NoFit, Fits
<1>3. a \in Int /\ n \in Nat /\ a \in a .. a + n - 1
  BY MapAssumption
<1>4. PICK i \in 1 .. Len(map) : Inside(a, map[i])
  BY <1>3, FreeUnits DEF FreeIn
<1> DEFINE e == After(map[i])
<1>5. e \in Int /\ e \in a .. a + n - 1
  <2>1. /\ map[i].addr \in Nat /\ map[i].size \in Nat /\ e = map[i].addr + map[i].size
        /\ ~(map[i].size >= n) /\ map[i].addr <= a /\ a < e
    BY <1>2, <1>4 DEF Inside
  <2> HIDE DEF e
  <2> QED BY <1>3, <2>1
<1>6. PICK j \in 1 .. Len(map) : Inside(e, map[j])
  BY <1>5, FreeUnits DEF FreeIn
<1>7. map[j].addr <= e /\ e < After(map[j])
  BY <1>6 DEF Inside
<1>8. /\ map[i].addr \in Nat /\ map[j].addr \in Nat /\ After(map[j]) \in Nat /\ e > map[i].addr
  BY SMTT(30), <1>2
<1>9. CASE i < j
  <2>1. e < map[j].addr
    BY <1>9 DEF Good
  <2> HIDE DEF e
  <2> QED BY <1>5, <1>7, <1>8, <2>1
<1>10. CASE j < i
  <2>1. After(map[j]) < map[i].addr
    BY <1>10 DEF Good
  <2> HIDE DEF e
  <2> QED BY <1>5, <1>7, <1>8, <2>1
<1>11. CASE i = j
  BY <1>5, <1>7, <1>11
<1> QED BY <1>9, <1>10, <1>11

LEMMA PoolInit == Init => Allocator!Init
<1> SUFFICES ASSUME Init PROVE Allocator!Init
  OBVIOUS
<1>1. Top \in Nat /\ Top > 0
  BY MapAssumption
<1>2. At(1, Top).addr = 1 /\ At(1, Top).size = Top /\ After(At(1, Top)) = Top + 1
  BY <1>1, AtRegion DEF After
<1>3. UnitsOf(At(1, Top)) = 1 .. Top
  BY <1>1, <1>2 DEF UnitsOf
<1>4. DOMAIN map = {1} /\ map[1] = At(1, Top)
  BY DEF Init
<1>5. Free = 1 .. Top
  BY <1>3, <1>4 DEF Free
<1> QED BY <1>5 DEF Init, Allocator!Init, Free

LEMMA PoolStep == Inv /\ [Next]_vars => [Allocator!Next]_(Allocator!vars)
<1> SUFFICES ASSUME Inv, [Next]_vars PROVE [Allocator!Next]_(Allocator!vars)
  OBVIOUS
<1>1. Good(map, room, held)
  BY GoodMap DEF Inv, TypeOK
<1>2. /\ Sizes \subseteq Nat \ {0} /\ Nothing \notin Sizes
      /\ \A q \in Proc : need[q] \in Sizes \cup {Nothing} /\ (pc[q] = "run" <=> need[q] = Nothing)
  BY MapAssumption DEF Inv, TypeOK
<1>3. Free \subseteq 1 .. Top /\ Free \subseteq Int /\ \A u \in Int : u \in Free <=> FreeIn(map, u)
  BY <1>1, FreeUnits
<1>4. ASSUME NEW p \in Proc, NEW n \in Sizes, Allocate(p, n) PROVE Allocator!Next
  <2>1. PICK i \in DOMAIN map : Malloc(i, n)
    BY <1>4 DEF Allocate
  <2> DEFINE a == map[i].addr
  <2>2. n \in Nat \ {0} /\ i \in 1 .. Len(map) /\ map[i] \in Region /\ map[i].size >= n
    BY <1>1, <1>2, <2>1, LenProperties DEF Good, Malloc, FirstFit, Fits
  <2>3. /\ Good(map', room', held')
        /\ \A u \in Int : FreeIn(map', u) <=> FreeIn(map, u) /\ ~Inside(u, At(a, n))
    BY <1>1, <2>1, <2>2, MallocGood
  <2>4. /\ a \in Nat /\ map[i].size \in Nat /\ After(map[i]) = a + map[i].size
        /\ At(a, n).addr = a /\ After(At(a, n)) = a + n
    BY <2>2, AtRegion DEF Region, After
  <2> HIDE DEF a
  <2>5. \A u \in a .. a + n - 1 : u \in Int /\ Inside(u, At(a, n)) /\ Inside(u, map[i])
    BY <2>2, <2>4 DEF Inside, a
  <2>6. \A u \in Int : Inside(u, At(a, n)) => u \in a .. a + n - 1
    BY <2>2, <2>4 DEF Inside
  <2>7. a .. a + n - 1 \subseteq Free /\ a \in 1 .. Top
    <3>1. a .. a + n - 1 \subseteq Free
      BY <1>3, <2>2, <2>5 DEF FreeIn
    <3>2. a \in a .. a + n - 1
      BY <2>2, <2>4
    <3> QED BY <1>3, <3>1, <3>2
  <2>8. Free' \subseteq Int /\ \A u \in Int : u \in Free' <=> FreeIn(map', u)
    BY <2>3, FreeUnitsNext
  <2>9. Free' = Free \ (a .. a + n - 1)
    BY <1>3, <2>3, <2>5, <2>6, <2>8
  <2>10. held' = held \cup {[addr |-> a, size |-> n]} /\ need' = [need EXCEPT ![p] = Nothing]
    BY <1>4, <2>1 DEF Allocate, Malloc, At, a
  <2>11. need[p] \in {Nothing, n}
    BY <1>2, <1>4 DEF Allocate, Asks
  <2>12. Allocator!Take(p, a, n)
    BY <2>7, <2>9, <2>10, <2>11 DEF Allocator!Take, Allocator!Runs, Allocator!Run, Free
  <2> QED BY <2>7, <2>12 DEF Allocator!Next
<1>5. ASSUME NEW p \in Proc, NEW n \in Sizes, Sleep(p, n) PROVE [Allocator!Next]_(Allocator!vars)
  <2>1. map' = map /\ held' = held /\ need' = [need EXCEPT ![p] = n] /\ NoFit(n)
    BY <1>5 DEF Sleep
  <2>2. Free' = Free
    BY <2>1 DEF Free
  <2>3. CASE pc[p] = "run"
    <3>1. n \in Nat \ {0}
      BY <1>2
    <3>2. \A b \in 1 .. Top : ~(b .. b + n - 1 \subseteq Free)
      BY <1>1, <2>1, <3>1, NoFitNoRun
    <3>3. Allocator!Runs(n) = {}
      BY <3>2 DEF Allocator!Runs, Allocator!Run, Free
    <3>4. Allocator!Wait(p, n)
      BY <1>2, <2>1, <2>2, <2>3, <3>3 DEF Allocator!Wait, Free
    <3> QED BY <3>4 DEF Allocator!Next
  <2>4. CASE pc[p] # "run"
    <3>1. n = need[p]
      BY <1>5, <2>4 DEF Sleep, Asks
    <3>2. need' = need
      BY <2>1, <3>1 DEF Inv, TypeOK
    <3> QED BY <2>1, <2>2, <3>2 DEF Allocator!vars, Free
  <2> QED BY <2>3, <2>4
<1>6. ASSUME NEW p \in Proc, GiveUp(p) PROVE Allocator!Next
  <2>1. need[p] \in Sizes
    BY <1>2, <1>6 DEF GiveUp
  <2>2. Free' = Free /\ held' = held /\ need' = [need EXCEPT ![p] = Nothing]
    BY <1>6 DEF GiveUp, Free
  <2>3. Allocator!GiveUp(p)
    BY <2>2 DEF Allocator!GiveUp, Free
  <2> QED BY <2>1, <2>3 DEF Allocator!Next
<1>7. ASSUME NEW r \in held, Mfree(r) PROVE Allocator!Next
  <2>1. PICK i \in 1 .. Len(map) + 1 :
          Above(i, r) /\ ((Combined(i, r) /\ WakeWanted) \/ Overflow(i, r))
    BY <1>7 DEF Mfree
  <2>2. held' = held \ {r} /\ need' = need
    BY <1>7 DEF Mfree
  <2>3. Free' = Free \/ Free' = Free \cup (r.addr .. r.addr + r.size - 1)
    <3>1. CASE Overflow(i, r)
      BY <3>1 DEF Overflow, Free
    <3>2. CASE Combined(i, r)
      <4>1. /\ Good(map', room', held')
            /\ \A u \in Int : FreeIn(map', u) <=> FreeIn(map, u) \/ Inside(u, r)
        BY <1>1, <2>1, <2>2, <3>2, MfreeGood
      <4>2. Free' \subseteq Int /\ \A u \in Int : u \in Free' <=> FreeIn(map', u)
        BY <4>1, FreeUnitsNext
      <4>3. r.addr \in Nat /\ r.size \in Nat /\ After(r) = r.addr + r.size
        BY <1>1 DEF Good, Region, After
      <4>4. \A u \in Int : Inside(u, r) <=> u \in r.addr .. r.addr + r.size - 1
        BY <4>3 DEF Inside
      <4>5. r.addr .. r.addr + r.size - 1 \subseteq Int
        BY <4>3
      <4> QED BY <1>3, <4>1, <4>2, <4>4, <4>5
    <3> QED BY <2>1, <3>1, <3>2
  <2>4. Allocator!Return(r)
    BY <2>2, <2>3 DEF Allocator!Return, Allocator!Run, Free
  <2> QED BY <2>4 DEF Allocator!Next
<1>8. CASE UNCHANGED vars
  BY <1>8 DEF vars, Allocator!vars
<1> QED BY <1>4, <1>5, <1>6, <1>7, <1>8 DEF Next

(* The resource map implements the pool: malloc() hands out only free      *)
(* units, mfree() gives back what was held, and a caller sleeps only while *)
(* there is no run of free units as long as it needs.                      *)
THEOREM Refinement == Spec => ImplementsPool
<1> QED BY PoolInit, PoolStep, Invariance, PTL DEF Spec, ImplementsPool, Allocator!Spec
=============================================================================
