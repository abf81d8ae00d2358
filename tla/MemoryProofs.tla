---------------------------- MODULE MemoryProofs -----------------------------
(***************************************************************************)
(* The properties of the memory map, of the heap and of the page tables,   *)
(* for every firmware map, every set of modules and every size of header,  *)
(* grain and page; for every number of processes and of entries in a       *)
(* table.                                                                  *)
(*                                                                         *)
(* MapInv says, address by address, what the map and the reservation in    *)
(* progress have to do with the history; TileInv, PairInv and HeldInv say  *)
(* what the list of blocks looks like, also in the middle of free.  Trees  *)
(* says that a table of number n is linked from slot At(n) of table Up(n), *)
(* which makes a walk arithmetic, and CopyOk how far a copy has come.      *)
(***************************************************************************)
EXTENDS Heap, Paging, FiniteSetTheorems, TLAPS

\* Address x is usable memory of entry e.
In(x, e) == e.type = 1 /\ e.addr <= x /\ x < EndOf(e)

Regions == [base : Nat, size : Nat]
Phases == {"boot", "reserve", "search", "done"}

MapTypeOK ==
    /\ map \in [1..MapMax -> Entries] /\ count \in 0..MapMax
    /\ i \in Nat /\ i >= 1 /\ rs \in Nat /\ re \in Nat
    /\ phase \in Phases
    /\ largest \in Regions /\ heap \in Regions
    /\ reserved \subseteq Int /\ original \subseteq Int
    /\ full \in BOOLEAN

\* No usable memory is lost, none is made up, and a reserved address is still
\* usable only in an entry that the loop has not come to yet.
LostNothing == \A x \in original : x \notin reserved => \E k \in 1..count : In(x, map[k])
MadeUpNothing == \A k \in 1..count : \A x \in Int : In(x, map[k]) => x \in original
TakenOut ==
    ~full => \A k \in 1..count : \A x \in Int :
        In(x, map[k]) /\ x \in reserved =>
            phase = "reserve" /\ x \in Interval(rs, re) /\ k >= i
RangeReserved == phase = "reserve" => Interval(rs, re) \subseteq reserved

\* The region memory_init has found so far is memory of one usable entry.
LargestFound ==
    /\ phase \in {"boot", "reserve"} => largest.size = 0
    /\ largest.size = 0 \/ \E k \in 1..count :
          /\ map[k].type = 1 /\ map[k].addr = largest.base /\ map[k].len = largest.size
    /\ phase = "done" => heap.size = 0 \/
          /\ heap.base >= largest.base
          /\ heap.base + heap.size = largest.base + largest.size
          /\ largest.base + largest.size > KernelEnd => heap.base >= KernelEnd

MapInv == MapTypeOK /\ LostNothing /\ MadeUpNothing /\ TakenOut /\ RangeReserved /\ LargestFound

LEMMA UsableIsIn ==
    ASSUME NEW m \in [1..MapMax -> Entries], NEW n \in 0..MapMax, NEW x
    PROVE  x \in Usable(m, n) <=> x \in Int /\ \E k \in 1..n : In(x, m[k])
<1>1. \A k \in 1..n : m[k] \in Entries /\ m[k].addr \in Nat /\ m[k].len \in Nat
  BY MemoryMapAssumption DEF Entries
<1>2. \A k \in 1..n : x \in Interval(m[k].addr, EndOf(m[k])) <=>
                          x \in Int /\ m[k].addr <= x /\ x < EndOf(m[k])
  BY <1>1 DEF Interval, EndOf
<1>3. x \in Usable(m, n) <=>
        \E k \in 1..n : m[k].type = 1 /\ x \in Interval(m[k].addr, EndOf(m[k]))
  BY DEF Usable
<1> QED BY <1>2, <1>3 DEF In

\* What Carve and Rest leave of an entry is the entry without the range.
LEMMA CarveIn ==
    ASSUME NEW e \in Entries, rs \in Nat, re \in Nat
    PROVE  /\ Carve(e) \in Entries
           /\ Inside(e) => Rest(e) \in Entries
           /\ \A x \in Int : In(x, Carve(e)) => In(x, e) /\ ~(rs <= x /\ x < re)
           /\ \A x \in Int : Inside(e) /\ In(x, Rest(e)) => In(x, e) /\ ~(rs <= x /\ x < re)
           /\ \A x \in Int : In(x, e) /\ ~(rs <= x /\ x < re) =>
                 In(x, Carve(e)) \/ (Inside(e) /\ In(x, Rest(e)))
<1>1. CASE ~Overlaps(e)
  BY <1>1 DEF Carve, Rest, Inside, Overlaps, In, EndOf, Entries
<1>2. CASE Overlaps(e) /\ rs <= e.addr /\ re >= EndOf(e)
  BY <1>2 DEF Carve, Rest, Inside, Overlaps, In, EndOf, Entries
<1>3. CASE Overlaps(e) /\ rs <= e.addr /\ ~(re >= EndOf(e))
  <2>1. e.addr \in Nat /\ e.len \in Nat /\ EndOf(e) \in Nat /\ EndOf(e) - re \in Nat
    BY <1>3 DEF EndOf, Entries
  <2>2. Carve(e) = [addr |-> re, len |-> EndOf(e) - re, type |-> 1]
    BY <1>3, <2>1 DEF Carve, Overlaps, Entries
  <2>3. EndOf(Carve(e)) = EndOf(e)
    BY <2>1, <2>2 DEF EndOf
  <2> QED BY <1>3, <2>1, <2>2, <2>3 DEF Inside, Overlaps, In, Entries
<1>4. CASE Overlaps(e) /\ ~(rs <= e.addr)
  BY <1>4 DEF Carve, Rest, Inside, Overlaps, In, EndOf, Entries
<1> QED BY <1>1, <1>2, <1>3, <1>4

LEMMA MapInitInv == MapInit => MapInv
<1> SUFFICES ASSUME MapInit PROVE MapInv
  OBVIOUS
<1>1. PICK f \in Firmware :
        /\ count = IF Len(f) < MapMax THEN Len(f) ELSE MapMax
        /\ map = [k \in 1..MapMax |-> IF k <= Len(f) THEN f[k]
                                      ELSE [addr |-> 0, len |-> 0, type |-> 0]]
  BY DEF MapInit
<1>2. f \in Seq(Entries) /\ Len(f) \in Nat
  BY MemoryMapAssumption
<1>3. map \in [1..MapMax -> Entries] /\ count \in 0..MapMax
  <2>1. \A k \in 1..Len(f) : f[k] \in Entries
    BY <1>2
  <2>2. [addr |-> 0, len |-> 0, type |-> 0] \in Entries
    BY DEF Entries
  <2>3. \A k \in 1..MapMax : map[k] \in Entries
    BY <1>1, <1>2, <2>1, <2>2, MemoryMapAssumption
  <2> QED BY <1>1, <1>2, <2>3, MemoryMapAssumption
<1>4. \A x : x \in original <=> x \in Int /\ \E k \in 1..count : In(x, map[k])
  BY <1>3, UsableIsIn DEF MapInit
<1>5. MapTypeOK
  <2>1. original \subseteq Int
    BY <1>4
  <2>2. i = 1 /\ rs = 0 /\ re = 0 /\ phase = "boot" /\ reserved = {} /\ full = FALSE
    BY DEF MapInit
  <2>3. largest \in Regions /\ heap \in Regions
    BY DEF MapInit, Regions
  <2>4. full \in BOOLEAN /\ reserved \subseteq Int
    BY <2>2
  <2>5. i \in Nat /\ i >= 1 /\ rs \in Nat /\ re \in Nat
    BY <2>2
  <2>6. phase \in Phases
    BY <2>2 DEF Phases
  <2> QED BY <1>3, <2>1, <2>3, <2>4, <2>5, <2>6 DEF MapTypeOK
<1> QED BY <1>4, <1>5 DEF MapInit, MapInv, LostNothing, MadeUpNothing, TakenOut,
                             RangeReserved, LargestFound
\* A turn of the loop that is not the one where the map is full.
LEMMA CarveStep ==
    ASSUME MapInv, ReserveStep, full' = full, phase' = phase
    PROVE  MapInv'
<1>1. /\ phase = "reserve" /\ i \in 1..count /\ map[i] \in Entries
      /\ UNCHANGED <<rs, re, largest, heap, reserved, original, modules, full, phase>>
      /\ i' = i + 1
  BY MemoryMapAssumption DEF MapInv, MapTypeOK, ReserveStep
<1> DEFINE R(x) == rs <= x /\ x < re
           e == map[i]
<1>2. /\ Carve(e) \in Entries
      /\ Inside(e) => Rest(e) \in Entries
      /\ \A x \in Int : In(x, Carve(e)) => In(x, e) /\ ~R(x)
      /\ \A x \in Int : Inside(e) /\ In(x, Rest(e)) => In(x, e) /\ ~R(x)
      /\ \A x \in Int : In(x, e) /\ ~R(x) => In(x, Carve(e)) \/ (Inside(e) /\ In(x, Rest(e)))
  BY <1>1, CarveIn DEF MapInv, MapTypeOK
<1>3. \A x \in Int : x \in Interval(rs, re) <=> R(x)
  BY DEF MapInv, MapTypeOK, Interval
<1>4. /\ map' \in [1..MapMax -> Entries] /\ count' \in 0..MapMax
      /\ count' = IF Inside(e) THEN count + 1 ELSE count
      /\ map'[i] = Carve(e)
      /\ Inside(e) => map'[count'] = Rest(e)
      /\ \A k \in 1..count : k # i => map'[k] = map[k]
  <2>1. CASE ~Inside(e)
    BY <1>1, <1>2, <2>1, MemoryMapAssumption DEF MapInv, MapTypeOK, ReserveStep
  <2>2. CASE Inside(e)
    BY <1>1, <1>2, <2>2, MemoryMapAssumption DEF MapInv, MapTypeOK, ReserveStep
  <2> QED BY <2>1, <2>2
<1> HIDE DEF e, R
<1>5. \A k \in 1..count' : k = i \/ (k \in 1..count /\ k # i) \/ (Inside(e) /\ k = count')
  BY <1>1, <1>4 DEF MapInv, MapTypeOK
<1>6. MapTypeOK'
  BY <1>1, <1>4 DEF MapInv, MapTypeOK
<1>7. LostNothing'
  <2> SUFFICES ASSUME NEW x \in original, x \notin reserved
               PROVE  \E k \in 1..count' : In(x, map'[k])
    BY <1>1 DEF LostNothing, In, EndOf
  <2>1. PICK k \in 1..count : In(x, map[k])
    BY DEF MapInv, LostNothing
  <2>2. x \in Int /\ ~R(x)
    BY <1>1, <1>3 DEF MapInv, MapTypeOK, RangeReserved
  <2>3. CASE k # i
    BY <1>4, <2>1, <2>3 DEF MapInv, MapTypeOK
  <2>4. CASE k = i
    BY <1>1, <1>2, <1>4, <2>1, <2>2, <2>4 DEF MapInv, MapTypeOK, e
  <2> QED BY <2>3, <2>4
<1>8. MadeUpNothing'
  BY <1>1, <1>2, <1>4, <1>5 DEF MapInv, MadeUpNothing, e
<1>9. TakenOut'
  BY <1>1, <1>2, <1>3, <1>4, <1>5 DEF MapInv, MapTypeOK, TakenOut, e
<1>10. LargestFound'
  BY <1>1 DEF MapInv, LargestFound
<1>11. RangeReserved'
  BY <1>1 DEF MapInv, RangeReserved, Interval
<1> QED BY <1>6, <1>7, <1>8, <1>9, <1>10, <1>11 DEF MapInv
LEMMA MapStepInv == MapInv /\ (BootStep \/ SearchEnd \/ UNCHANGED mapVars) => MapInv'
<1> SUFFICES ASSUME MapInv, BootStep \/ SearchEnd \/ UNCHANGED mapVars
             PROVE  MapInv'
  OBVIOUS
<1>0. MapTypeOK /\ count \in Nat
  BY DEF MapInv, MapTypeOK
<1>1. ASSUME NEW m \in Modules, ReserveBegin(m) PROVE MapInv'
  <2>1. m.start \in Nat /\ m.end \in Nat /\ Interval(m.start, m.end) \subseteq Int
    BY MemoryMapAssumption DEF Interval
  <2>2. MapTypeOK'
    <3>1. /\ phase' \in Phases /\ i' \in Nat /\ i' >= 1 /\ rs' \in Nat /\ re' \in Nat
          /\ reserved' \subseteq Int
      <4>1. CASE m.start >= m.end
        BY <1>0, <1>1, <4>1 DEF ReserveBegin, MapTypeOK
      <4>2. CASE ~(m.start >= m.end)
        <5>1. /\ phase' = "reserve" /\ i' = 1 /\ rs' = m.start /\ re' = m.end
              /\ reserved' = reserved \cup Interval(m.start, m.end)
          BY <1>1, <4>2 DEF ReserveBegin
        <5>2. reserved \subseteq Int
          BY <1>0 DEF MapTypeOK
        <5>3. reserved' \subseteq Int
          BY <2>1, <5>1, <5>2
        <5>4. phase' \in Phases
          BY <5>1 DEF Phases
        <5> QED BY <2>1, <5>1, <5>3, <5>4
      <4> QED BY <4>1, <4>2
    <3> QED BY <1>0, <1>1, <3>1 DEF ReserveBegin, MapTypeOK
  <2>3. (LostNothing /\ MadeUpNothing /\ RangeReserved /\ LargestFound)'
    BY <1>1 DEF MapInv, ReserveBegin, LostNothing, MadeUpNothing, RangeReserved, LargestFound
  <2>4. TakenOut'
    <3>1. CASE m.start >= m.end
      BY <1>1, <3>1 DEF MapInv, ReserveBegin, TakenOut
    <3>2. CASE ~(m.start >= m.end)
      <4>1. phase = "boot" /\ phase' = "reserve" /\ i' = 1 /\ rs' = m.start /\ re' = m.end
        BY <1>1, <3>2 DEF ReserveBegin
      <4>2. reserved' = reserved \cup Interval(m.start, m.end) /\ UNCHANGED <<map, count, full>>
        BY <1>1, <3>2 DEF ReserveBegin
      <4>3. ~full => \A k \in 1..count : \A x \in Int : In(x, map[k]) => x \notin reserved
        BY <4>1 DEF MapInv, TakenOut
      <4> QED BY <4>1, <4>2, <4>3, <1>0 DEF TakenOut
    <3> QED BY <3>1, <3>2
  <2> QED BY <2>2, <2>3, <2>4 DEF MapInv
<1>2. CASE ReserveStep
  <2>1. CASE full' = full /\ phase' = phase
    BY <1>2, <2>1, CarveStep
  <2>2. CASE ~(full' = full /\ phase' = phase)
    <3>1. /\ phase = "reserve" /\ phase' = "boot" /\ full' = TRUE
          /\ UNCHANGED <<map, count, i, rs, re, largest, heap, reserved, original>>
      BY <1>2, <2>2 DEF ReserveStep
    <3>2. MapTypeOK'
      BY <1>0, <3>1 DEF MapTypeOK, Phases
    <3> QED BY <3>1, <3>2 DEF MapInv, LostNothing, MadeUpNothing, TakenOut, RangeReserved, LargestFound
  <2> QED BY <2>1, <2>2
<1>3. CASE ReserveEnd
  <2>1. MapTypeOK'
    BY <1>0, <1>3 DEF ReserveEnd, MapTypeOK, Phases
  <2>2. TakenOut'
    BY <1>0, <1>3 DEF MapInv, MapTypeOK, ReserveEnd, TakenOut
  <2> QED BY <1>3, <2>1, <2>2
      DEF MapInv, ReserveEnd, LostNothing, MadeUpNothing, RangeReserved, LargestFound
<1>4. CASE SearchBegin
  <2>1. MapTypeOK'
    BY <1>0, <1>4 DEF SearchBegin, MapTypeOK, Phases
  <2> QED BY <1>4, <2>1
      DEF MapInv, SearchBegin, LostNothing, MadeUpNothing, TakenOut, RangeReserved, LargestFound
<1>5. CASE SearchStep
  <2>1. i \in 1..count /\ i \in 1..MapMax /\ map[i] \in Entries
    BY <1>5, <1>0, MemoryMapAssumption DEF SearchStep, MapTypeOK
  <2>2. MapTypeOK'
    BY <1>0, <1>5, <2>1 DEF SearchStep, MapTypeOK, Phases, Regions, Entries
  <2>3. LargestFound'
    BY <1>5, <2>1 DEF MapInv, SearchStep, LargestFound
  <2> QED BY <1>5, <2>2, <2>3
      DEF MapInv, SearchStep, LostNothing, MadeUpNothing, TakenOut, RangeReserved
<1>6. CASE SearchEnd
  <2>1. MapTypeOK'
    BY <1>0, <1>6, MemoryMapAssumption DEF SearchEnd, MapTypeOK, Phases, Regions
  <2>2. LargestFound'
    BY <1>0, <1>6, MemoryMapAssumption DEF MapInv, SearchEnd, LargestFound, MapTypeOK, Regions
  <2> QED BY <1>6, <2>1, <2>2
      DEF MapInv, SearchEnd, LostNothing, MadeUpNothing, TakenOut, RangeReserved
<1>7. CASE UNCHANGED mapVars
  BY <1>7 DEF mapVars, MapInv, MapTypeOK, LostNothing, MadeUpNothing, TakenOut,
              RangeReserved, LargestFound
<1> QED BY <1>1, <1>2, <1>3, <1>4, <1>5, <1>6, <1>7 DEF BootStep

LEMMA MapInvReserved == MapInv => ReservedExactly
<1> SUFFICES ASSUME MapInv, phase # "reserve"
             PROVE  /\ ~full => Usable(map, count) = original \ reserved
                    /\ original \ reserved \subseteq Usable(map, count)
                    /\ Usable(map, count) \subseteq original
  BY DEF ReservedExactly
<1>1. \A x : x \in Usable(map, count) <=> x \in Int /\ \E k \in 1..count : In(x, map[k])
  BY UsableIsIn DEF MapInv, MapTypeOK
<1>2. original \subseteq Int
  BY DEF MapInv, MapTypeOK
<1>3. original \ reserved \subseteq Usable(map, count)
  BY <1>1, <1>2 DEF MapInv, LostNothing
<1>4. Usable(map, count) \subseteq original
  BY <1>1 DEF MapInv, MadeUpNothing
<1>5. ASSUME ~full PROVE \A x \in Usable(map, count) : x \notin reserved
  BY <1>1, <1>5 DEF MapInv, TakenOut
<1> QED BY <1>3, <1>4, <1>5
-----------------------------------------------------------------------------
(* The list of blocks. *)

Blocks == [size : Nat, next : Nat \cup {Null}, free : BOOLEAN]

\* The headers h tile the addresses from lo to hi.
Tile(h, lo, hi) ==
    /\ DOMAIN h \subseteq Nat /\ h \in [DOMAIN h -> Blocks]
    /\ lo \in DOMAIN h /\ hi \in Nat
    /\ \A a \in DOMAIN h :
          /\ lo <= a /\ End(h, a) <= hi
          /\ IF h[a].next = Null THEN End(h, a) = hi
             ELSE h[a].next = End(h, a) /\ End(h, a) \in DOMAIN h
          /\ \A b \in DOMAIN h : a < b => End(h, a) <= b

NoPairs(h) == \A a \in DOMAIN h : ~FreePair(h, a)

LEMMA RoundUp ==
    ASSUME NEW x \in Nat, NEW p \in Nat \ {0}
    PROVE  /\ (x + p - 1) \div p \in Nat
           /\ ((x + p - 1) \div p) * p \in Nat
           /\ ((x + p - 1) \div p) * p >= x
OBVIOUS

\* The headers s differ from h in that block a was cut after n bytes, at r.
IsCut(s, h, a, n, r, f, g) ==
    /\ a < r /\ r \notin DOMAIN h /\ DOMAIN s = DOMAIN h \cup {r}
    /\ s[a] = Block(n, r, f)
    /\ s[r] = Block(h[a].size - n - HeaderSize, h[a].next, g)
    /\ \A x \in DOMAIN h : x # a => s[x] = h[x]

LEMMA SplitTile ==
    ASSUME NEW h, NEW lo, NEW hi, Tile(h, lo, hi),
           NEW a \in DOMAIN h, NEW n \in Nat, n + HeaderSize <= h[a].size,
           NEW f \in BOOLEAN, NEW g \in BOOLEAN
    PROVE  /\ Tile(Split(h, a, n, f, g), lo, hi)
           /\ IsCut(Split(h, a, n, f, g), h, a, n, Payload(a) + n, f, g)
<1> DEFINE r == Payload(a) + n
           s == Split(h, a, n, f, g)
<1>1. /\ HeaderSize \in Nat /\ HeaderSize > 0 /\ Null \notin Nat
      /\ a \in Nat /\ h[a] \in Blocks /\ h[a].size \in Nat
  BY HeapAssumption DEF Tile, Blocks
<1>2. r \in Nat /\ a < r /\ r < End(h, a)
  BY <1>1 DEF Payload, End
<1>3. r \notin DOMAIN h
  BY <1>1, <1>2 DEF Tile, End, Payload
<1>4. /\ DOMAIN s = DOMAIN h \cup {r}
      /\ s[a] = Block(n, r, f)
      /\ s[r] = Block(h[a].size - n - HeaderSize, h[a].next, g)
      /\ \A x \in DOMAIN h : x # a => s[x] = h[x]
  BY <1>2, <1>3 DEF Split, With
<1>s. s = [x \in DOMAIN s |-> s[x]]
  BY DEF Split, With
<1> HIDE DEF r, s
<1>5. s \in [DOMAIN s -> Blocks] /\ DOMAIN s \subseteq Nat
  <2>2. s[a] \in Blocks /\ s[r] \in Blocks
    BY <1>1, <1>2, <1>4 DEF Block, Blocks
  <2>3. \A x \in DOMAIN s : s[x] \in Blocks
    BY <1>4, <2>2 DEF Tile
  <2> QED BY <1>1, <1>2, <1>4, <1>s, <2>3 DEF Tile
<1>6. /\ End(s, a) = r /\ s[a].next = r
      /\ End(s, r) = End(h, a) /\ s[r].next = h[a].next
      /\ \A x \in DOMAIN h : x # a => End(s, x) = End(h, x)
  BY <1>1, <1>2, <1>4 DEF End, Payload, Block, r
<1>7. \A x \in DOMAIN h : x \in Nat /\ End(h, x) \in Nat /\ x < End(h, x)
  BY <1>1 DEF Tile, End, Payload, Blocks
<1>8. ASSUME NEW x \in DOMAIN s
      PROVE  /\ lo <= x /\ End(s, x) <= hi
             /\ IF s[x].next = Null THEN End(s, x) = hi
                ELSE s[x].next = End(s, x) /\ End(s, x) \in DOMAIN s
  <2>1. CASE x = a
    BY <1>1, <1>2, <1>4, <1>6, <1>7, <2>1 DEF Tile
  <2>2. CASE x = r
    BY <1>1, <1>2, <1>4, <1>6, <2>2 DEF Tile
  <2>3. CASE x # a /\ x # r
    BY <1>4, <1>6, <2>3 DEF Tile
  <2> QED BY <2>1, <2>2, <2>3
<1>9. ASSUME NEW x \in DOMAIN s, NEW y \in DOMAIN s, x < y PROVE End(s, x) <= y
  <2>1. CASE x \in DOMAIN h /\ y \in DOMAIN h
    BY <1>1, <1>2, <1>6, <1>7, <1>9, <2>1 DEF Tile
  <2>2. CASE x = r /\ y \in DOMAIN h
    BY <1>1, <1>2, <1>3, <1>6, <1>7, <1>9, <2>2 DEF Tile
  <2>3. CASE y = r /\ x \in DOMAIN h
    BY <1>1, <1>2, <1>3, <1>6, <1>7, <1>9, <2>3 DEF Tile
  <2> QED BY <1>2, <1>4, <1>9, <2>1, <2>2, <2>3
<1>10. lo \in DOMAIN s
  BY <1>4 DEF Tile
<1>11. Tile(s, lo, hi) /\ IsCut(s, h, a, n, r, f, g)
  BY <1>2, <1>3, <1>4, <1>5, <1>8, <1>9, <1>10 DEF Tile, IsCut
<1> QED BY <1>11 DEF r, s

\* Block a taken for n bytes: it is used, the blocks that appear are free, the
\* others are as they were, and no free block lies beside another.
LEMMA TrimTile ==
    ASSUME NEW h, NEW lo, NEW hi, Tile(h, lo, hi), NoPairs(h),
           NEW a \in DOMAIN h, NEW n \in Nat, n <= h[a].size,
           h[a].next # Null => ~h[h[a].next].free,
           NEW s, s = Trim(h, a, n)
    PROVE  /\ Tile(s, lo, hi) /\ NoPairs(s)
           /\ DOMAIN h \subseteq DOMAIN s
           /\ \A x \in DOMAIN h : x # a => s[x] = h[x]
           /\ ~s[a].free /\ s[a].size >= n
           /\ \A x \in DOMAIN s : x \notin DOMAIN h => s[x].free
<1>1. /\ HeaderSize \in Nat /\ HeaderSize > 0 /\ MinTail \in Nat /\ Null \notin Nat
      /\ a \in Nat /\ h[a] \in Blocks /\ h[a].size \in Nat
  BY HeapAssumption DEF Tile, Blocks
<1>a. \A x \in DOMAIN h : x \in Nat /\ End(h, x) \in Nat /\ x < End(h, x)
  BY <1>1 DEF Tile, End, Payload, Blocks
<1>2. CASE h[a].size >= n + HeaderSize + MinTail
  <2>0. PICK r : r = Payload(a) + n
    OBVIOUS
  <2>1. s = Split(h, a, n, FALSE, TRUE) /\ n + HeaderSize <= h[a].size
    BY <1>1, <1>2 DEF Trim
  <2>2. /\ Tile(s, lo, hi)
        /\ a < r /\ r \notin DOMAIN h /\ DOMAIN s = DOMAIN h \cup {r}
        /\ s[a] = Block(n, r, FALSE)
        /\ s[r] = Block(h[a].size - n - HeaderSize, h[a].next, TRUE)
        /\ \A x \in DOMAIN h : x # a => s[x] = h[x]
    <3>1. FALSE \in BOOLEAN /\ TRUE \in BOOLEAN
      OBVIOUS
    <3>2. Tile(s, lo, hi) /\ IsCut(s, h, a, n, r, FALSE, TRUE)
      BY <2>0, <2>1, <3>1, SplitTile, Zenon
    <3> QED BY <3>2 DEF IsCut
  <2>3. ~s[a].free /\ s[a].size = n /\ s[r].free /\ s[r].next = h[a].next
    BY <2>2 DEF Block
  <2>4. \A x \in DOMAIN h : h[x].next # Null => h[x].next \in DOMAIN h
    BY DEF Tile
  <2>5. h[a].next # a
    BY <1>1, <1>a DEF Tile
  <2>6. ASSUME NEW x \in DOMAIN s PROVE ~FreePair(s, x)
    <3>1. CASE x = a
      BY <2>3, <3>1 DEF FreePair
    <3>2. CASE x = r
      BY <2>2, <2>3, <2>4, <2>5, <3>2 DEF FreePair
    <3>3. CASE x # a /\ x # r
      <4>1. x \in DOMAIN h /\ s[x] = h[x] /\ ~FreePair(h, x)
        BY <2>2, <3>3 DEF NoPairs
      <4>2. CASE h[x].next = a
        BY <2>3, <4>1, <4>2 DEF FreePair
      <4>3. CASE h[x].next # a
        BY <2>2, <2>4, <4>1, <4>3 DEF FreePair
      <4> QED BY <4>2, <4>3
    <3> QED BY <3>1, <3>2, <3>3
  <2>7. \A x \in DOMAIN s : x \notin DOMAIN h => s[x].free
    BY <2>2, <2>3
  <2>8. NoPairs(s)
    BY <2>6 DEF NoPairs
  <2>9. s[a].size >= n
    BY <2>3
  <2>10. DOMAIN h \subseteq DOMAIN s
    BY <2>2
  <2> QED BY <2>2, <2>3, <2>7, <2>8, <2>9, <2>10
<1>3. CASE ~(h[a].size >= n + HeaderSize + MinTail)
  <2>1. s = With(h, a, Block(h[a].size, h[a].next, FALSE))
    BY <1>3 DEF Trim
  <2>2. /\ DOMAIN s = DOMAIN h /\ \A x \in DOMAIN h : x # a => s[x] = h[x]
        /\ s[a] = Block(h[a].size, h[a].next, FALSE)
        /\ s = [x \in DOMAIN s |-> s[x]]
    BY <2>1 DEF With
  <2>3. ~s[a].free /\ s[a].size = h[a].size /\ s[a].next = h[a].next /\ s[a] \in Blocks
    BY <1>1, <2>2 DEF Block, Blocks
  <2>4. \A x \in DOMAIN h : End(s, x) = End(h, x) /\ s[x].next = h[x].next
    BY <2>2, <2>3 DEF End
  <2>5. s \in [DOMAIN s -> Blocks]
    BY <2>2, <2>3 DEF Tile
  <2>6. Tile(s, lo, hi)
    BY <2>2, <2>4, <2>5 DEF Tile
  <2>7. NoPairs(s)
    <3> SUFFICES ASSUME NEW x \in DOMAIN h PROVE ~FreePair(s, x)
      BY <2>2 DEF NoPairs
    <3>1. ~FreePair(h, x) /\ (h[x].next # Null => h[x].next \in DOMAIN h)
      BY DEF NoPairs, Tile
    <3>2. CASE x = a \/ h[x].next = a
      BY <2>2, <2>3, <2>4, <3>2 DEF FreePair
    <3>3. CASE x # a /\ h[x].next # a
      BY <2>2, <2>4, <3>1, <3>3 DEF FreePair
    <3> QED BY <3>2, <3>3
  <2> QED BY <1>1, <2>2, <2>3, <2>6, <2>7
<1> QED BY <1>2, <1>3
-----------------------------------------------------------------------------
(* The inductive invariant. *)

Held == [ptr : Nat, size : Nat, page : BOOLEAN]

\* The pointer ptr stands for a used block of size n at least.
Owns(ptr, n) ==
    \E a \in DOMAIN hdr : ptr = Payload(a) /\ ~hdr[a].free /\ hdr[a].size >= n

Aligned(ptr) == \E k \in 0..ptr : ptr = k * PageSize

NoHeapYet == DOMAIN hdr = {} /\ head = Null /\ curr = Null /\ held = {}

TileInv ==
    /\ Tile(hdr, heap.base, heap.base + heap.size)
    /\ head = heap.base
    /\ curr = Null \/ curr \in DOMAIN hdr

\* Two free blocks side by side lie ahead of the loop of free.
PairInv == \A a \in DOMAIN hdr : FreePair(hdr, a) => curr # Null /\ curr <= a

HeldInv ==
    /\ held \subseteq Held
    /\ \A h \in held : Owns(h.ptr, h.size) /\ (h.page => Aligned(h.ptr))
    /\ \A a \in DOMAIN hdr : ~hdr[a].free => \E h \in held : h.ptr = Payload(a)
    /\ \A g, h \in held : g.ptr = h.ptr => g = h

HeapInv ==
    /\ phase # "done" => NoHeapYet
    /\ phase = "done" => TileInv /\ PairInv /\ HeldInv

Inv == MapInv /\ HeapInv

LEMMA InitInv == Init => Inv
<1> SUFFICES ASSUME Init PROVE Inv
  OBVIOUS
<1>1. MapInv
  BY MapInitInv DEF Init
<1>2. phase # "done" /\ NoHeapYet
  BY DEF Init, MapInit, NoHeapYet
<1> QED BY <1>1, <1>2 DEF Inv, HeapInv

LEMMA MemoryInitInv ==
    ASSUME Inv, MemoryInit
    PROVE  HeapInv'
<1>1. /\ phase = "search" /\ phase' = "done"
      /\ DOMAIN hdr = {} /\ held = {} /\ curr = Null /\ held' = {} /\ curr' = Null
      /\ Null \notin Nat /\ HeaderSize \in Nat
  BY HeapAssumption DEF MemoryInit, SearchEnd, Inv, HeapInv, NoHeapYet
<1>2. MapInv'
  BY MapStepInv DEF Inv, MemoryInit
<1>3. heap' \in Regions /\ heap'.base \in Nat /\ heap'.size \in Nat /\ heap'.size - HeaderSize \in Nat
  BY <1>1, <1>2 DEF MapInv, MapTypeOK, Regions, MemoryInit
<1>4. /\ DOMAIN hdr' = {heap'.base} /\ head' = heap'.base
      /\ hdr' = [a \in {heap'.base} |-> Block(heap'.size - HeaderSize, Null, TRUE)]
      /\ hdr'[heap'.base] = Block(heap'.size - HeaderSize, Null, TRUE)
  BY DEF MemoryInit
<1>5. /\ hdr'[heap'.base].size = heap'.size - HeaderSize
      /\ hdr'[heap'.base].next = Null /\ hdr'[heap'.base].free
      /\ hdr'[heap'.base] \in Blocks
  BY <1>3, <1>4 DEF Block, Blocks
<1>6. Tile(hdr', heap'.base, heap'.base + heap'.size)
  <2>1. hdr' \in [DOMAIN hdr' -> Blocks] /\ DOMAIN hdr' \subseteq Nat
    BY <1>3, <1>4, <1>5
  <2>2. End(hdr', heap'.base) = heap'.base + heap'.size
    BY <1>1, <1>3, <1>5 DEF End, Payload
  <2>3. ASSUME NEW a \in DOMAIN hdr'
        PROVE  /\ heap'.base <= a /\ End(hdr', a) <= heap'.base + heap'.size
               /\ IF hdr'[a].next = Null THEN End(hdr', a) = heap'.base + heap'.size
                  ELSE hdr'[a].next = End(hdr', a) /\ End(hdr', a) \in DOMAIN hdr'
               /\ \A b \in DOMAIN hdr' : a < b => End(hdr', a) <= b
    <3>1. a = heap'.base
      BY <1>4
    <3> QED BY <1>3, <1>4, <1>5, <2>2, <3>1
  <2>4. heap'.base \in DOMAIN hdr'
    BY <1>4
  <2>5. heap'.base + heap'.size \in Nat
    BY <1>3
  <2> QED BY <2>1, <2>3, <2>4, <2>5 DEF Tile
<1>7. TileInv'
  BY <1>1, <1>4, <1>6 DEF TileInv
<1>8. PairInv'
  BY <1>4, <1>5 DEF PairInv, FreePair
<1>9. HeldInv'
  BY <1>1, <1>4, <1>5 DEF HeldInv
<1> QED BY <1>1, <1>7, <1>8, <1>9 DEF HeapInv

\* A caller gets the block at c with n bytes; the other blocks that were used
\* stay as they were, and all new ones are free.
LEMMA TakeInv ==
    ASSUME Inv, phase = "done", phase' = "done", curr = Null,
           UNCHANGED <<head, curr, heap>>,
           Tile(hdr', heap.base, heap.base + heap.size), NoPairs(hdr'),
           NEW c \in DOMAIN hdr', ~hdr'[c].free,
           c \in DOMAIN hdr => hdr[c].free,
           NEW n \in Nat, hdr'[c].size >= n,
           \A x \in DOMAIN hdr : ~hdr[x].free => x \in DOMAIN hdr' /\ hdr'[x] = hdr[x],
           \A x \in DOMAIN hdr' : ~hdr'[x].free /\ x # c => x \in DOMAIN hdr /\ ~hdr[x].free,
           NEW pg \in BOOLEAN, pg => Aligned(Payload(c)),
           held' = held \cup {[ptr |-> Payload(c), size |-> n, page |-> pg]}
    PROVE  HeapInv'
<1>1. /\ HeaderSize \in Nat /\ c \in Nat /\ Payload(c) \in Nat
      /\ DOMAIN hdr \subseteq Nat /\ DOMAIN hdr' \subseteq Nat
  BY HeapAssumption DEF Inv, HeapInv, TileInv, Tile, Payload
<1>2. TileInv /\ HeldInv
  BY DEF Inv, HeapInv
<1>3. TileInv'
  BY <1>2 DEF TileInv
<1>4. PairInv'
  BY DEF PairInv, NoPairs
<1> DEFINE new == [ptr |-> Payload(c), size |-> n, page |-> pg]
<1>5. new \in Held /\ held' = held \cup {new} /\ new.ptr = Payload(c) /\ new.size = n /\ new.page = pg
  BY <1>1 DEF Held
<1> HIDE DEF new
<1>6. \A h \in held : h.ptr # Payload(c)
  BY <1>1, <1>2 DEF HeldInv, Owns, Payload
<1>7. HeldInv'
  <2>1. held' \subseteq Held
    BY <1>2, <1>5 DEF HeldInv
  <2>2. ASSUME NEW h \in held' PROVE Owns(h.ptr, h.size)' /\ (h.page => Aligned(h.ptr)')
    <3>1. CASE h \in held
      BY <1>2, <3>1 DEF HeldInv, Owns, Aligned
    <3>2. CASE h = new
      BY <1>5, <3>2 DEF Owns, Aligned
    <3> QED BY <1>5, <2>2, <3>1, <3>2
  <2>3. ASSUME NEW x \in DOMAIN hdr', ~hdr'[x].free PROVE \E h \in held' : h.ptr = Payload(x)
    <3>1. CASE x = c
      BY <1>5, <3>1
    <3>2. CASE x # c
      BY <1>2, <1>5, <2>3, <3>2 DEF HeldInv
    <3> QED BY <3>1, <3>2
  <2>4. \A g, h \in held' : g.ptr = h.ptr => g = h
    BY <1>2, <1>5, <1>6 DEF HeldInv
  <2> QED BY <2>1, <2>2, <2>3, <2>4 DEF HeldInv, Payload
<1> QED BY <1>3, <1>4, <1>7 DEF HeapInv
\* Between two calls no two free blocks lie side by side.
LEMMA QuietHeap ==
    ASSUME Inv, phase = "done", curr = Null
    PROVE  /\ Tile(hdr, heap.base, heap.base + heap.size) /\ NoPairs(hdr)
           /\ \A a \in DOMAIN hdr : hdr[a].free /\ hdr[a].next # Null => ~hdr[hdr[a].next].free
BY DEF Inv, HeapInv, TileInv, PairInv, NoPairs, FreePair

LEMMA MallocInv ==
    ASSUME Inv, NEW n \in Sizes, Malloc(n)
    PROVE  HeapInv'
<1> DEFINE m == Round(n)
<1>1. n \in Nat /\ m \in Nat /\ m >= n
  BY HeapAssumption, RoundUp DEF Round
<1> HIDE DEF m
<1>2. PICK a \in DOMAIN hdr :
        /\ hdr[a].free /\ hdr[a].size >= m
        /\ hdr' = Trim(hdr, a, m)
        /\ held' = held \cup {[ptr |-> Payload(a), size |-> n, page |-> FALSE]}
  BY DEF Malloc, m
<1>3. phase = "done" /\ curr = Null /\ UNCHANGED <<head, curr, heap, phase>>
  BY DEF Malloc, mapVars
<1>4. /\ Tile(hdr, heap.base, heap.base + heap.size) /\ NoPairs(hdr)
      /\ hdr[a].next # Null => ~hdr[hdr[a].next].free
  BY <1>2, <1>3, QuietHeap
<1>5. hdr[a].size \in Nat /\ m <= hdr[a].size
  BY <1>1, <1>2, <1>4 DEF Tile, Blocks
<1>6. /\ Tile(hdr', heap.base, heap.base + heap.size) /\ NoPairs(hdr')
      /\ DOMAIN hdr \subseteq DOMAIN hdr'
      /\ \A x \in DOMAIN hdr : x # a => hdr'[x] = hdr[x]
      /\ ~hdr'[a].free /\ hdr'[a].size >= m
      /\ \A x \in DOMAIN hdr' : x \notin DOMAIN hdr => hdr'[x].free
  BY <1>1, <1>2, <1>4, <1>5, TrimTile
<1>7. hdr'[a].size >= n
  BY <1>1, <1>2, <1>6 DEF Tile, Blocks
<1>8. PICK pg \in BOOLEAN : pg = FALSE
  OBVIOUS
<1>9. held' = held \cup {[ptr |-> Payload(a), size |-> n, page |-> pg]}
  BY <1>2, <1>8
<1>10. a \in DOMAIN hdr'
  BY <1>6
<1>11. \A x \in DOMAIN hdr : ~hdr[x].free => x \in DOMAIN hdr' /\ hdr'[x] = hdr[x]
  BY <1>2, <1>6
<1>12. \A x \in DOMAIN hdr' : ~hdr'[x].free /\ x # a => x \in DOMAIN hdr /\ ~hdr[x].free
  BY <1>6
<1>13. pg => Aligned(Payload(a))
  BY <1>8
<1> QED BY <1>1, <1>2, <1>3, <1>6, <1>7, <1>9, <1>10, <1>11, <1>12, <1>13, TakeInv

LEMMA PageStartAligned ==
    ASSUME NEW a \in Nat
    PROVE  /\ PageStart(a) \in Nat /\ PageStart(a) >= Payload(a)
           /\ Aligned(PageStart(a))
           /\ PageStart(a) = Payload(a) \/ PageStart(a) - Payload(a) >= HeaderSize + MinTail
<1> DEFINE q == (Payload(a) + PageSize - 1) \div PageSize
<1>1. /\ PageSize \in Nat /\ PageSize >= 1 /\ Payload(a) \in Nat
      /\ HeaderSize \in Nat /\ MinTail \in Nat /\ HeaderSize + MinTail <= PageSize
  BY HeapAssumption DEF Payload
<1>2. q \in Nat /\ q * PageSize \in Nat /\ q * PageSize >= Payload(a)
  BY <1>1, RoundUp, HeapAssumption
<1>3. PageStart(a) = IF q * PageSize - Payload(a) # 0 /\ q * PageSize - Payload(a) < HeaderSize + MinTail
                     THEN q * PageSize + PageSize ELSE q * PageSize
  BY DEF PageStart
<1> HIDE DEF q
<1>4. /\ PageStart(a) \in Nat /\ PageStart(a) >= Payload(a)
      /\ PageStart(a) = Payload(a) \/ PageStart(a) - Payload(a) >= HeaderSize + MinTail
  BY <1>1, <1>2, <1>3
<1>5. \A k \in Nat : k <= k * PageSize
  BY <1>1
<1>6. (q + 1) * PageSize = q * PageSize + PageSize
  BY <1>1, <1>2
<1>7. CASE PageStart(a) = q * PageSize
  BY <1>2, <1>4, <1>5, <1>7 DEF Aligned
<1>8. CASE PageStart(a) = q * PageSize + PageSize
  <2>1. q + 1 \in Nat /\ PageStart(a) = (q + 1) * PageSize
    BY <1>2, <1>6, <1>8
  <2>2. q + 1 <= PageStart(a)
    BY <1>5, <2>1
  <2> QED BY <1>4, <2>1, <2>2 DEF Aligned
<1> QED BY <1>3, <1>4, <1>7, <1>8
\* The block page_alloc takes, with the gap in front of it cut off.
LEMMA PadTile ==
    ASSUME NEW lo, NEW hi, Tile(hdr, lo, hi), NoPairs(hdr),
           NEW a \in DOMAIN hdr, hdr[a].free,
           NEW n \in Nat, hdr[a].size >= n + (PageStart(a) - Payload(a)),
           NEW c, c = PageBlock(a)
    PROVE  /\ Tile(Pad(a), lo, hi) /\ NoPairs(Pad(a))
           /\ DOMAIN Pad(a) = DOMAIN hdr \cup {c}
           /\ \A x \in DOMAIN hdr : x # a => Pad(a)[x] = hdr[x]
           /\ c # a => c \notin DOMAIN hdr /\ Pad(a)[a].free
           /\ n <= Pad(a)[c].size
           /\ Pad(a)[c].next # Null => ~Pad(a)[Pad(a)[c].next].free
           /\ Payload(c) = PageStart(a)
<1>1. /\ HeaderSize \in Nat /\ HeaderSize > 0 /\ MinTail \in Nat /\ MinTail > 0
      /\ Null \notin Nat
      /\ a \in Nat /\ hdr[a] \in Blocks /\ hdr[a].size \in Nat
  BY HeapAssumption DEF Tile, Blocks
<1>2. /\ PageStart(a) \in Nat /\ PageStart(a) >= Payload(a)
      /\ PageStart(a) = Payload(a) \/ PageStart(a) - Payload(a) >= HeaderSize + MinTail
  BY <1>1, PageStartAligned
<1>3. Payload(c) = PageStart(a)
  BY <1>1, <1>2 DEF Payload, PageBlock
<1>4. hdr[a].next # Null => hdr[a].next \in DOMAIN hdr /\ ~hdr[hdr[a].next].free
  BY DEF Tile, NoPairs, FreePair
<1>5. CASE PageStart(a) = Payload(a)
  <2>1. c = a
    BY <1>1, <1>5 DEF PageBlock, Payload
  <2>2. Pad(a) = hdr
    <3>1. ~(PageStart(a) - Payload(a) >= HeaderSize + MinTail)
      BY <1>1, <1>2, <1>5
    <3> QED BY <3>1 DEF Pad
  <2>3. n <= hdr[a].size
    BY <1>1, <1>2, <1>5
  <2> QED BY <1>3, <1>4, <2>1, <2>2, <2>3
<1>6. CASE PageStart(a) - Payload(a) >= HeaderSize + MinTail
  <2> DEFINE p == PageStart(a) - Payload(a) - HeaderSize
             s == Split(hdr, a, p, TRUE, FALSE)
  <2>1. /\ p \in Nat /\ p + HeaderSize <= hdr[a].size
        /\ Payload(a) + p = c
        /\ hdr[a].size - p - HeaderSize >= n
    BY <1>1, <1>2, <1>6 DEF Payload, PageBlock
  <2>2. Pad(a) = s
    BY <1>6 DEF Pad
  <2> HIDE DEF p
  <2>3. Tile(s, lo, hi) /\ IsCut(s, hdr, a, p, c, TRUE, FALSE)
    <3>1. TRUE \in BOOLEAN /\ FALSE \in BOOLEAN
      OBVIOUS
    <3> QED BY <2>1, <3>1, SplitTile, Zenon
  <2> HIDE DEF s
  <2>4. /\ a < c /\ c \notin DOMAIN hdr /\ DOMAIN s = DOMAIN hdr \cup {c}
        /\ \A x \in DOMAIN hdr : x # a => s[x] = hdr[x]
        /\ s[a].free /\ s[a].next = c /\ ~s[c].free /\ s[c].next = hdr[a].next
        /\ s[c].size = hdr[a].size - p - HeaderSize
    BY <2>3 DEF IsCut, Block
  <2>5. hdr[a].next # a
    BY <1>1 DEF Tile, End, Payload
  <2>6. \A x \in DOMAIN hdr : hdr[x].next # Null => hdr[x].next \in DOMAIN hdr
    BY DEF Tile
  <2>7. NoPairs(s)
    <3> SUFFICES ASSUME NEW x \in DOMAIN s PROVE ~FreePair(s, x)
      BY DEF NoPairs
    <3>1. CASE x = a \/ x = c
      BY <2>4, <3>1 DEF FreePair
    <3>2. CASE x # a /\ x # c
      <4>1. x \in DOMAIN hdr /\ s[x] = hdr[x] /\ ~FreePair(hdr, x)
        BY <2>4, <3>2 DEF NoPairs
      <4>2. CASE hdr[x].next = a
        BY <4>1, <4>2 DEF FreePair
      <4>3. CASE hdr[x].next # a
        BY <2>4, <2>6, <4>1, <4>3 DEF FreePair
      <4> QED BY <4>2, <4>3
    <3> QED BY <3>1, <3>2
  <2>8. s[c].next # Null => ~s[s[c].next].free
    BY <1>4, <2>4, <2>5
  <2>9. n <= s[c].size /\ c # a
    BY <1>1, <2>1, <2>4
  <2> QED BY <1>3, <2>2, <2>3, <2>4, <2>7, <2>8, <2>9
<1> QED BY <1>2, <1>5, <1>6

LEMMA PageAllocInv ==
    ASSUME Inv, NEW pages \in PageCounts, PageAlloc(pages)
    PROVE  HeapInv'
<1> DEFINE n == PageSize * pages
<1>1. n \in Nat
  BY HeapAssumption
<1>2. PICK a \in DOMAIN hdr :
        /\ hdr[a].free /\ hdr[a].size >= n + (PageStart(a) - Payload(a))
        /\ hdr' = Trim(Pad(a), PageBlock(a), n)
        /\ held' = held \cup {[ptr |-> PageStart(a), size |-> n, page |-> TRUE]}
  BY DEF PageAlloc
<1> HIDE DEF n
<1>3. curr = Null /\ UNCHANGED <<head, curr, heap, phase>>
  BY DEF PageAlloc, mapVars
<1>4. phase = "done"
  BY <1>2 DEF Inv, HeapInv, NoHeapYet
<1>5. Tile(hdr, heap.base, heap.base + heap.size) /\ NoPairs(hdr)
  BY <1>3, <1>4, QuietHeap
<1>6. PICK c : c = PageBlock(a)
  OBVIOUS
<1>7. /\ Tile(Pad(a), heap.base, heap.base + heap.size) /\ NoPairs(Pad(a))
      /\ DOMAIN Pad(a) = DOMAIN hdr \cup {c}
      /\ \A x \in DOMAIN hdr : x # a => Pad(a)[x] = hdr[x]
      /\ c # a => c \notin DOMAIN hdr /\ Pad(a)[a].free
      /\ n <= Pad(a)[c].size
      /\ Pad(a)[c].next # Null => ~Pad(a)[Pad(a)[c].next].free
      /\ Payload(c) = PageStart(a)
  BY <1>1, <1>2, <1>5, <1>6, PadTile
<1>8. c \in DOMAIN Pad(a)
  BY <1>7
<1>9. /\ Tile(hdr', heap.base, heap.base + heap.size) /\ NoPairs(hdr')
      /\ DOMAIN Pad(a) \subseteq DOMAIN hdr'
      /\ \A x \in DOMAIN Pad(a) : x # c => hdr'[x] = Pad(a)[x]
      /\ ~hdr'[c].free /\ hdr'[c].size >= n
      /\ \A x \in DOMAIN hdr' : x \notin DOMAIN Pad(a) => hdr'[x].free
  BY <1>1, <1>2, <1>6, <1>7, <1>8, TrimTile
<1>10. a \in Nat /\ Aligned(Payload(c))
  BY <1>2, <1>5, <1>7, PageStartAligned DEF Tile
<1>11. PICK pg \in BOOLEAN : pg = TRUE
  OBVIOUS
<1>12. held' = held \cup {[ptr |-> Payload(c), size |-> n, page |-> pg]}
  BY <1>2, <1>7, <1>11
<1>13. c \in DOMAIN hdr' /\ (c \in DOMAIN hdr => hdr[c].free)
  BY <1>2, <1>7, <1>8, <1>9
<1>14. \A x \in DOMAIN hdr : ~hdr[x].free => x \in DOMAIN hdr' /\ hdr'[x] = hdr[x]
  BY <1>2, <1>7, <1>9
<1>15. \A x \in DOMAIN hdr' : ~hdr'[x].free /\ x # c => x \in DOMAIN hdr /\ ~hdr[x].free
  BY <1>7, <1>9
<1>16. pg => Aligned(Payload(c))
  BY <1>10
<1> QED BY <1>1, <1>3, <1>4, <1>9, <1>12, <1>13, <1>14, <1>15, <1>16, TakeInv
LEMMA FreeInv ==
    ASSUME Inv, NEW h \in held, Free(h)
    PROVE  HeapInv'
<1>1. phase = "done" /\ TileInv /\ PairInv /\ HeldInv
  BY DEF Inv, HeapInv, NoHeapYet
<1>2. UNCHANGED <<head, heap, phase>> /\ held' = held \ {h} /\ curr' = head
  BY DEF Free, mapVars
<1>3. /\ HeaderSize \in Nat /\ Null \notin Nat /\ DOMAIN hdr \subseteq Nat
      /\ hdr \in [DOMAIN hdr -> Blocks]
  BY <1>1, HeapAssumption DEF TileInv, Tile
<1>4. PICK a \in DOMAIN hdr : h.ptr = Payload(a) /\ ~hdr[a].free
  BY <1>1 DEF HeldInv, Owns
<1>5. h.ptr - HeaderSize = a
  BY <1>3, <1>4 DEF Payload
<1>6. /\ DOMAIN hdr' = DOMAIN hdr /\ hdr' \in [DOMAIN hdr -> Blocks]
      /\ \A x \in DOMAIN hdr : hdr'[x].size = hdr[x].size /\ hdr'[x].next = hdr[x].next
      /\ hdr'[a].free /\ \A x \in DOMAIN hdr : x # a => hdr'[x] = hdr[x]
  <2>1. hdr' = [hdr EXCEPT ![a].free = TRUE]
    BY <1>5 DEF Free
  <2>2. hdr[a] \in Blocks /\ [hdr[a] EXCEPT !.free = TRUE] \in Blocks
    BY <1>3, <1>4 DEF Blocks
  <2>3. hdr' = [x \in DOMAIN hdr |-> IF x = a THEN [hdr[a] EXCEPT !.free = TRUE] ELSE hdr[x]]
    BY <1>3, <2>1
  <2> QED BY <1>3, <2>2, <2>3 DEF Blocks
<1>7. \A x \in DOMAIN hdr : End(hdr', x) = End(hdr, x)
  BY <1>6 DEF End
<1>8. TileInv'
  <2>1. Tile(hdr', heap.base, heap.base + heap.size)
    BY <1>1, <1>6, <1>7 DEF TileInv, Tile
  <2>2. curr' \in DOMAIN hdr'
    BY <1>1, <1>2, <1>6 DEF TileInv, Tile
  <2> QED BY <1>1, <1>2, <2>1, <2>2 DEF TileInv
<1>9. PairInv'
  <2>1. curr' # Null /\ \A x \in DOMAIN hdr' : curr' <= x
    BY <1>1, <1>2, <1>3, <1>6 DEF TileInv, Tile
  <2> QED BY <2>1 DEF PairInv
<1>10. HeldInv'
  <2>1. ASSUME NEW g \in held' PROVE Owns(g.ptr, g.size)' /\ (g.page => Aligned(g.ptr)')
    <3>1. g \in held /\ g.ptr # h.ptr
      BY <1>1, <1>2 DEF HeldInv
    <3>2. PICK b \in DOMAIN hdr : g.ptr = Payload(b) /\ ~hdr[b].free /\ hdr[b].size >= g.size
      BY <1>1, <3>1 DEF HeldInv, Owns
    <3>3. b # a
      BY <1>4, <3>1, <3>2
    <3> QED BY <1>1, <1>6, <3>1, <3>2, <3>3 DEF HeldInv, Owns, Aligned
  <2>2. ASSUME NEW x \in DOMAIN hdr', ~hdr'[x].free PROVE \E g \in held' : g.ptr = Payload(x)
    <3>1. x \in DOMAIN hdr /\ x # a /\ ~hdr[x].free
      BY <1>6, <2>2
    <3>2. PICK g \in held : g.ptr = Payload(x)
      BY <1>1, <3>1 DEF HeldInv
    <3>3. g # h
      BY <1>3, <1>4, <3>1, <3>2 DEF Payload
    <3> QED BY <1>2, <3>2, <3>3
  <2>3. held' \subseteq Held /\ \A f, g \in held' : f.ptr = g.ptr => f = g
    BY <1>1, <1>2 DEF HeldInv
  <2> QED BY <2>1, <2>2, <2>3 DEF HeldInv, Payload
<1> QED BY <1>1, <1>2, <1>8, <1>9, <1>10 DEF HeapInv

LEMMA FreeStepInv ==
    ASSUME Inv, FreeStep
    PROVE  HeapInv'
<1>1. phase = "done" /\ TileInv /\ PairInv /\ HeldInv
  BY DEF Inv, HeapInv, NoHeapYet, FreeStep
<1>2. UNCHANGED <<head, heap, phase, held>> /\ curr # Null /\ curr \in DOMAIN hdr
  BY <1>1 DEF FreeStep, mapVars, TileInv
<1>3. /\ HeaderSize \in Nat /\ HeaderSize > 0 /\ Null \notin Nat /\ DOMAIN hdr \subseteq Nat
      /\ hdr \in [DOMAIN hdr -> Blocks]
  BY <1>1, HeapAssumption DEF TileInv, Tile
<1>4. \A x \in DOMAIN hdr :
        /\ hdr[x] \in Blocks /\ hdr[x].size \in Nat
        /\ End(hdr, x) \in Nat /\ x < End(hdr, x)
        /\ hdr[x].next # Null => hdr[x].next \in DOMAIN hdr /\ hdr[x].next = End(hdr, x)
        /\ hdr[x].next = Null => End(hdr, x) = heap.base + heap.size
  BY <1>1, <1>3 DEF Blocks, TileInv, Tile, End, Payload
<1>5. CASE ~FreePair(hdr, curr)
  <2>1. hdr' = hdr /\ curr' = hdr[curr].next
    BY <1>5 DEF FreeStep
  <2>2. TileInv'
    BY <1>1, <1>2, <1>4, <2>1 DEF TileInv
  <2>3. PairInv'
    <3> SUFFICES ASSUME NEW x \in DOMAIN hdr, FreePair(hdr, x) PROVE curr' # Null /\ curr' <= x
      BY <2>1 DEF PairInv
    <3>1. curr <= x /\ x # curr
      BY <1>1, <1>5 DEF PairInv
    <3>2. End(hdr, curr) <= x
      BY <1>1, <1>2, <1>3, <3>1 DEF TileInv, Tile
    <3>3. x < heap.base + heap.size
      BY <1>1, <1>2, <1>3, <1>4 DEF FreePair, TileInv, Tile
    <3> QED BY <1>2, <1>3, <1>4, <2>1, <3>2, <3>3
  <2>4. HeldInv'
    BY <1>1, <1>2, <2>1 DEF HeldInv, Owns, Aligned
  <2> QED BY <1>1, <1>2, <2>2, <2>3, <2>4 DEF HeapInv
<1>6. CASE FreePair(hdr, curr)
  <2> DEFINE b == hdr[curr].next
  <2>1. /\ hdr' = Swallow(curr) /\ curr' = curr
        /\ hdr[curr].free /\ b # Null /\ hdr[b].free
    BY <1>6 DEF FreeStep, FreePair
  <2>2. b \in DOMAIN hdr /\ b = End(hdr, curr) /\ curr < b
    BY <1>2, <1>4, <2>1
  <2>3. /\ DOMAIN hdr' = DOMAIN hdr \ {b}
        /\ \A x \in DOMAIN hdr : x # curr /\ x # b => hdr'[x] = hdr[x]
        /\ hdr'[curr] = Block(hdr[curr].size + HeaderSize + hdr[b].size, hdr[b].next, TRUE)
    <3> DEFINE joined == Block(hdr[curr].size + HeaderSize + hdr[b].size, hdr[b].next, TRUE)
    <3>1. hdr' = [x \in DOMAIN hdr \ {b} |-> IF x = curr THEN joined ELSE hdr[x]]
      BY <2>1 DEF Swallow
    <3> HIDE DEF joined, b
    <3>2. curr # b
      BY <1>2, <1>3, <2>2
    <3>3. hdr'[curr] = joined
      BY <1>2, <3>1, <3>2
    <3> QED BY <3>1, <3>3 DEF joined
  <2>f. hdr' = [x \in DOMAIN hdr' |-> hdr'[x]]
    BY <2>1 DEF Swallow
  <2> HIDE DEF b
  <2>4. /\ hdr'[curr].free /\ hdr'[curr].next = hdr[b].next
        /\ hdr'[curr] \in Blocks
        /\ End(hdr', curr) = End(hdr, b)
    BY <1>2, <1>3, <1>4, <2>2, <2>3 DEF Block, Blocks, End, Payload
  <2>5. curr \in DOMAIN hdr' /\ hdr' \in [DOMAIN hdr' -> Blocks] /\ DOMAIN hdr' \subseteq Nat
    <3>1. \A x \in DOMAIN hdr' : hdr'[x] \in Blocks
      BY <1>4, <2>3, <2>4
    <3>2. DOMAIN hdr' \subseteq Nat
      BY <1>3, <2>3
    <3>3. curr \in DOMAIN hdr'
      BY <1>2, <1>3, <2>2, <2>3
    <3> QED BY <2>f, <3>1, <3>2, <3>3
  <2>6. \A x \in DOMAIN hdr : x # curr /\ x # b => End(hdr', x) = End(hdr, x)
    BY <2>3 DEF End
  <2>7. \A x, y \in DOMAIN hdr : x < y => End(hdr, x) <= y
    BY <1>1 DEF TileInv, Tile
  <2>8. \A x \in DOMAIN hdr : x # curr => hdr[x].next # b
    <3> SUFFICES ASSUME NEW x \in DOMAIN hdr, x # curr, hdr[x].next = b PROVE FALSE
      OBVIOUS
    <3>1. x \in Nat /\ curr \in Nat /\ End(hdr, x) = b /\ x < b
      BY <1>2, <1>3, <1>4, <2>1
    <3> QED BY <1>2, <1>4, <2>2, <2>7, <3>1
  <2>9. ASSUME NEW x \in DOMAIN hdr'
        PROVE  /\ heap.base <= x /\ End(hdr', x) <= heap.base + heap.size
               /\ IF hdr'[x].next = Null THEN End(hdr', x) = heap.base + heap.size
                  ELSE hdr'[x].next = End(hdr', x) /\ End(hdr', x) \in DOMAIN hdr'
               /\ \A y \in DOMAIN hdr' : x < y => End(hdr', x) <= y
    <3>0. x \in DOMAIN hdr /\ x # b /\ heap.base <= x /\ End(hdr, x) <= heap.base + heap.size
      BY <1>1, <2>3 DEF TileInv, Tile
    <3>a. End(hdr, b) <= heap.base + heap.size
      BY <1>1, <2>2 DEF TileInv, Tile
    <3>1. CASE x = curr
      <4>1. \A y \in DOMAIN hdr' : x < y => b < y
        BY <1>3, <2>2, <2>3, <2>5, <2>7, <3>1
      <4>2. \A y \in DOMAIN hdr' : x < y => End(hdr', x) <= y
        BY <2>2, <2>3, <2>4, <2>7, <3>1, <4>1
      <4>3. hdr[b].next # b
        BY <1>3, <1>4, <2>2
      <4> QED BY <1>4, <2>2, <2>3, <2>4, <3>0, <3>a, <3>1, <4>2, <4>3
    <3>2. CASE x # curr
      BY <1>4, <2>3, <2>6, <2>7, <2>8, <3>0, <3>2
    <3> QED BY <3>1, <3>2
  <2>10. Tile(hdr', heap.base, heap.base + heap.size)
    <3>1. heap.base \in DOMAIN hdr /\ heap.base # b
      BY <1>1, <1>2, <1>3, <2>2 DEF TileInv, Tile
    <3>2. heap.base \in DOMAIN hdr'
      BY <2>3, <3>1
    <3>3. heap.base + heap.size \in Nat
      BY <1>1 DEF TileInv, Tile
    <3> QED BY <2>5, <2>9, <3>2, <3>3 DEF Tile
  <2>11. TileInv'
    BY <1>1, <1>2, <2>1, <2>5, <2>10 DEF TileInv
  <2>12. PairInv'
    <3> SUFFICES ASSUME NEW x \in DOMAIN hdr', FreePair(hdr', x) PROVE curr <= x
      BY <1>2, <2>1 DEF PairInv
    <3>1. CASE x = curr
      BY <1>2, <1>3, <3>1
    <3>2. CASE x # curr
      <4>1. x \in DOMAIN hdr /\ x # b /\ hdr'[x] = hdr[x] /\ hdr[x].free /\ hdr[x].next # Null
        BY <2>3, <3>2 DEF FreePair
      <4>2. hdr[x].next # b /\ hdr[x].next \in DOMAIN hdr
        BY <1>4, <2>8, <3>2, <4>1
      <4>3. hdr[hdr[x].next].free
        BY <2>1, <2>3, <4>1, <4>2 DEF FreePair
      <4> QED BY <1>1, <4>1, <4>3 DEF PairInv, FreePair
    <3> QED BY <3>1, <3>2
  <2>13. HeldInv'
    <3>1. \A x \in DOMAIN hdr : ~hdr[x].free => x \in DOMAIN hdr' /\ hdr'[x] = hdr[x]
      BY <2>1, <2>3 DEF b
    <3>2. \A x \in DOMAIN hdr' : ~hdr'[x].free => x \in DOMAIN hdr /\ ~hdr[x].free
      BY <2>3, <2>4
    <3> QED BY <1>1, <1>2, <3>1, <3>2 DEF HeldInv, Owns, Aligned
  <2> QED BY <1>1, <1>2, <2>11, <2>12, <2>13 DEF HeapInv
<1> QED BY <1>5, <1>6
LEMMA StepInv == Inv /\ [Next]_vars => Inv'
<1> SUFFICES ASSUME Inv, [Next]_vars PROVE Inv'
  OBVIOUS
<1>1. MapInv'
  <2>1. BootStep \/ SearchEnd \/ UNCHANGED mapVars
    BY DEF Next, vars, MemoryInit, Malloc, PageAlloc, Free, FreeStep
  <2> QED BY <2>1, MapStepInv DEF Inv
<1>2. HeapInv'
  <2>1. CASE BootStep /\ UNCHANGED heapVars
    <3>1. phase # "done" /\ phase' # "done"
      BY <2>1 DEF BootStep, ReserveBegin, ReserveStep, ReserveEnd, SearchBegin, SearchStep
    <3> QED BY <2>1, <3>1 DEF Inv, HeapInv, NoHeapYet, heapVars
  <2>2. CASE MemoryInit
    BY <2>2, MemoryInitInv
  <2>3. CASE \E n \in Sizes : Malloc(n)
    BY <2>3, MallocInv
  <2>4. CASE \E p \in PageCounts : PageAlloc(p)
    BY <2>4, PageAllocInv
  <2>5. CASE \E h \in held : Free(h)
    BY <2>5, FreeInv
  <2>6. CASE FreeStep
    BY <2>6, FreeStepInv
  <2>7. CASE UNCHANGED vars
    BY <2>7 DEF vars, mapVars, heapVars, Inv, HeapInv, NoHeapYet, TileInv, PairInv,
                HeldInv, Owns, Aligned
  <2> QED BY <2>1, <2>2, <2>3, <2>4, <2>5, <2>6, <2>7 DEF Next
<1> QED BY <1>1, <1>2 DEF Inv

LEMMA SpecInv == Spec => []Inv
BY InitInv, StepInv, PTL DEF Spec

\* memory_reserve_range takes out of the map exactly the ranges it is given, for
\* every map of the firmware, every number of modules and every capacity.
THEOREM MapIsExact == Spec => []ReservedExactly
<1>1. Inv => ReservedExactly
  BY MapInvReserved DEF Inv
<1> QED BY <1>1, SpecInv, PTL

LEMMA InvTiles == Inv => BlocksTileHeap
<1> SUFFICES ASSUME Inv, phase = "done" PROVE BlocksTileHeap
  BY DEF BlocksTileHeap
<1>1. TileInv /\ PairInv
  BY DEF Inv, HeapInv
<1>2. curr = Null => \A a \in DOMAIN hdr : ~FreePair(hdr, a)
  BY <1>1 DEF PairInv
<1> QED BY <1>1, <1>2 DEF TileInv, Tile, BlocksTileHeap

\* malloc, page_alloc and free keep the list of blocks in order and without gaps
\* or overlaps, for every region and every size of header, tail and page.
THEOREM HeapIsTiled == Spec => []BlocksTileHeap
BY InvTiles, SpecInv, PTL

LEMMA InvHeld == Inv => HeldMatchesUsed
<1>1. CASE phase = "done"
  <2> SUFFICES ASSUME HeldInv PROVE HeldMatchesUsed
    BY <1>1 DEF Inv, HeapInv
  <2>1. ASSUME NEW h \in held
        PROVE  \E a \in DOMAIN hdr :
                  /\ h.ptr = Payload(a) /\ ~hdr[a].free /\ hdr[a].size >= h.size
                  /\ h.page => \E k \in 0..h.ptr : h.ptr = k * PageSize
    BY DEF HeldInv, Owns, Aligned
  <2> QED BY <2>1 DEF HeldInv, HeldMatchesUsed
<1>2. CASE phase # "done"
  BY <1>2 DEF Inv, HeapInv, NoHeapYet, HeldMatchesUsed
<1> QED BY <1>1, <1>2

\* Whatever malloc and page_alloc handed out belongs to one caller, is as large
\* as asked for, and aligned when it is a page.
THEOREM HeldIsUsed == Spec => []HeldMatchesUsed
BY InvHeld, SpecInv, PTL

LEMMA InvFree == Inv => HeldMemoryIsFree
<1> SUFFICES ASSUME Inv, NEW h \in held,
                    NEW x \in Interval(h.ptr - HeaderSize, h.ptr + h.size)
             PROVE  /\ x \in original
                    /\ ~full => x \notin reserved
                    /\ EndOf([addr |-> largest.base, len |-> largest.size]) > KernelEnd
                         => x \notin Interval(KernelBase, KernelEnd)
  BY DEF HeldMemoryIsFree
<1>1. phase = "done" /\ TileInv /\ HeldInv /\ MapInv
  BY DEF Inv, HeapInv, NoHeapYet
<1>2. PICK a \in DOMAIN hdr : h.ptr = Payload(a) /\ hdr[a].size >= h.size
  BY <1>1 DEF HeldInv, Owns
<1>3. /\ HeaderSize \in Nat /\ a \in Nat /\ hdr[a].size \in Nat /\ h.size \in Nat
      /\ heap.base <= a /\ End(hdr, a) <= heap.base + heap.size
  BY <1>1, <1>2, HeapAssumption DEF TileInv, Tile, Blocks, HeldInv, Held
<1>4. heap.base \in Nat /\ heap.size \in Nat /\ largest.base \in Nat /\ largest.size \in Nat
  BY <1>1 DEF MapInv, MapTypeOK, Regions
<1>5. x \in Int /\ heap.base <= x /\ x < heap.base + heap.size
  BY <1>2, <1>3, <1>4 DEF Interval, Payload, End
<1>6. /\ heap.base >= largest.base
      /\ heap.base + heap.size = largest.base + largest.size
      /\ largest.base + largest.size > KernelEnd => heap.base >= KernelEnd
  BY <1>1, <1>4, <1>5 DEF MapInv, LargestFound
<1>7. PICK k \in 1..count : map[k].type = 1 /\ map[k].addr = largest.base /\ map[k].len = largest.size
  BY <1>1, <1>4, <1>5, <1>6 DEF MapInv, LargestFound
<1>8. In(x, map[k])
  BY <1>4, <1>5, <1>6, <1>7 DEF In, EndOf
<1>9. x \in original
  BY <1>1, <1>5, <1>8 DEF MapInv, MadeUpNothing
<1>10. ~full => x \notin reserved
  BY <1>1, <1>5, <1>8 DEF MapInv, TakenOut
<1>11. largest.base + largest.size > KernelEnd => x \notin Interval(KernelBase, KernelEnd)
  BY <1>4, <1>5, <1>6, MemoryMapAssumption DEF Interval
<1> QED BY <1>9, <1>10, <1>11 DEF EndOf

\* What malloc and page_alloc hand out never overlaps a boot module or the kernel
\* but for the two exceptions HeldMemoryIsFree names, on every machine.
THEOREM AllocationsAreFreeMemory == Spec => []HeldMemoryIsFree
BY InvFree, SpecInv, PTL

-----------------------------------------------------------------------------
(* Page tables. *)

LEMMA DivideFacts ==
    ASSUME NEW a \in Nat, NEW b \in Nat \ {0}
    PROVE  a \div b \in Nat /\ a % b \in 0..(b - 1) /\ a = b * (a \div b) + (a % b)
OBVIOUS

LEMMA DivideUnique ==
    ASSUME NEW a \in Nat, NEW b \in Nat \ {0}, NEW q \in Nat, NEW r \in 0..(b - 1), a = b * q + r
    PROVE  a \div b = q /\ a % b = r
<1>1. PICK d \in Nat, m \in 0..(b - 1) : d = a \div b /\ m = a % b /\ a = b * d + m
  BY DivideFacts
<1>2. CASE d < q
  <2>1. d + 1 <= q /\ d + 1 \in Nat
    BY <1>1, <1>2
  <2>2. b * (d + 1) <= b * q
    BY <2>1
  <2>3. b * (d + 1) = b * d + b
    BY <1>1
  <2> QED
    BY <1>1, <2>2, <2>3
<1>3. CASE q < d
  <2>1. q + 1 <= d /\ q + 1 \in Nat
    BY <1>1, <1>3
  <2>2. b * (q + 1) <= b * d
    BY <2>1, <1>1
  <2>3. b * (q + 1) = b * q + b
    OBVIOUS
  <2> QED
    BY <1>1, <2>2, <2>3
<1> QED
  BY <1>1, <1>2, <1>3

LEMMA DivideLess ==
    ASSUME NEW a \in Nat, NEW b \in Nat \ {0}, NEW c \in Nat
    PROVE  c * b \in Nat /\ (a < c * b <=> a \div b < c)
<1>1. PICK d \in Nat, y \in Nat : d = a \div b /\ a = b * d + y /\ y < b
  <2>1. a \div b \in Nat /\ a % b \in 0..(b - 1) /\ a = b * (a \div b) + (a % b)
    BY DivideFacts
  <2>2. a % b \in Nat /\ a % b < b
    BY <2>1
  <2> QED
    BY <2>1, <2>2
<1>2. c * b \in Nat /\ b * d \in Nat
  OBVIOUS
<1>3. CASE d < c
  <2>1. PICK x \in Nat : c = (d + 1) + x
    <3>1. c - (d + 1) \in Nat /\ c = (d + 1) + (c - (d + 1))
      BY <1>3
    <3> QED
      BY <3>1
  <2>2. c * b = (b * d + b) + x * b /\ x * b \in Nat
    BY <2>1
  <2>3. a < c * b
    BY <2>2, <1>1, <1>2
  <2> QED
    BY <2>3, <1>1, <1>2, <1>3
<1>4. CASE ~(d < c)
  <2>1. PICK x \in Nat : d = c + x
    <3>1. d - c \in Nat /\ d = c + (d - c)
      BY <1>4
    <3> QED
      BY <3>1
  <2>2. b * d = c * b + x * b /\ x * b \in Nat
    BY <2>1
  <2>3. ~(a < c * b)
    BY <2>2, <1>1, <1>2
  <2> QED
    BY <2>3, <1>1, <1>2, <1>4
<1> QED
  BY <1>3, <1>4

LEMMA DivideProduct ==
    ASSUME NEW a \in Nat, NEW b \in Nat \ {0}, NEW c \in Nat \ {0}, NEW d, d = b * c
    PROVE  a \div d = (a \div b) \div c /\ a % d = b * ((a \div b) % c) + (a % b)
<1>1. PICK q \in Nat, r \in 0..(b - 1) : q = a \div b /\ r = a % b /\ a = b * q + r
  BY DivideFacts
<1>2. PICK p \in Nat, s \in 0..(c - 1) : p = q \div c /\ s = q % c /\ q = c * p + s
  BY DivideFacts
<1>3. b * c \in Nat \ {0}
  OBVIOUS
<1>4. b * s + r \in 0..(b * c - 1)
  <2>1. s + 1 <= c /\ s + 1 \in Nat
    BY <1>2
  <2>2. b * (s + 1) <= b * c
    BY <2>1
  <2>3. b * (s + 1) = b * s + b /\ b * s \in Nat
    BY <1>2
  <2> QED
    BY <2>2, <2>3, <1>1, <1>3
<1>5. a = (b * c) * p + (b * s + r)
  <2>1. b * q = b * (c * p) + b * s
    BY <1>2
  <2>2. b * (c * p) = (b * c) * p
    BY <1>2
  <2> DEFINE X == b * (c * p)
             Y == b * s
             Z == (b * c) * p
             Q == b * q
  <2>3. X \in Nat /\ Y \in Nat /\ Z \in Nat /\ Q \in Nat
    <3>1. s \in Nat /\ c * p \in Nat /\ b * c \in Nat
      OBVIOUS
    <3> QED
      BY <3>1
  <2>4. Q = X + Y /\ X = Z /\ a = Q + r
    BY <2>1, <2>2, <1>1
  <2>5. a = Z + (Y + r)
    <3> HIDE DEF X, Y, Z, Q
    <3> QED
      BY <2>3, <2>4
  <2> QED
    BY <2>5
<1>6. d \in Nat \ {0}
  BY <1>3
<1>7. PICK t \in 0..(d - 1) : t = b * s + r /\ a = d * p + t
  BY <1>4, <1>5
<1>8. a \div d = p /\ a % d = t
  BY <1>6, <1>7, DivideUnique
<1>9. a \div d = (a \div b) \div c
  BY <1>8, <1>1, <1>2, Zenon
<1>10. t = b * ((a \div b) % c) + (a % b)
  BY <1>7, <1>1, <1>2, Zenon
<1> QED
  BY <1>8, <1>9, <1>10, Zenon

-----------------------------------------------------------------------------
(* The numbers of tables and entries. *)

Half == Fanout \div 2
AllVa == UserVa \cup KernelVa

\* The numbers that the tables of a level can have; those of level -1 are pages.
Nos(level) == 0..(Span(TopLevel - level) - 1)

LEMMA FanoutFacts ==
    /\ Fanout \in Nat \ {0} /\ Half \in Nat \ {0} /\ Fanout = 2 * Half
    /\ Slots = 0..(Fanout - 1) /\ UserSlots = 0..(Half - 1)
    /\ UserSlots \subseteq Slots
BY PagingAssumption, DivideFacts DEF Half, Slots, UserSlots

LEMMA SpanFacts ==
    /\ Span(0) = 1 /\ Span(1) = Fanout
    /\ \A l \in 0..4 : Span(l) \in Nat \ {0}
    /\ \A l \in 0..3 : Span(l + 1) = Span(l) * Fanout
<1>1. Span(0) = 1 /\ Span(1) = Fanout /\ Span(2) = Fanout * Fanout
      /\ Span(3) = Fanout * Fanout * Fanout /\ Span(4) = Fanout * Fanout * Fanout * Fanout
  BY DEF Span, Spans
<1>2. Fanout \in Nat \ {0}
  BY FanoutFacts
<1>3. Fanout * Fanout \in Nat \ {0}
  BY <1>2
<1>4. (Fanout * Fanout) * Fanout \in Nat \ {0}
  BY <1>2, <1>3
<1>5. ((Fanout * Fanout) * Fanout) * Fanout \in Nat \ {0}
  BY <1>2, <1>4
<1>6. Span(0) \in Nat \ {0} /\ Span(1) \in Nat \ {0} /\ Span(2) \in Nat \ {0} /\ Span(3) \in Nat \ {0}
      /\ Span(4) \in Nat \ {0}
  BY <1>1, <1>2, <1>3, <1>4, <1>5
<1>7. Span(1) = Span(0) * Fanout /\ Span(2) = Span(1) * Fanout /\ Span(3) = Span(2) * Fanout
      /\ Span(4) = Span(3) * Fanout
  BY <1>1, <1>2
<1>8. ASSUME NEW l \in 0..4 PROVE Span(l) \in Nat \ {0}
  <2>1. l = 0 \/ l = 1 \/ l = 2 \/ l = 3 \/ l = 4
    OBVIOUS
  <2> QED
    BY <2>1, <1>6
<1>9. ASSUME NEW l \in 0..3 PROVE Span(l + 1) = Span(l) * Fanout
  <2>1. l = 0 \/ l = 1 \/ l = 2 \/ l = 3
    OBVIOUS
  <2>2. 0 + 1 = 1 /\ 1 + 1 = 2 /\ 2 + 1 = 3 /\ 3 + 1 = 4
    OBVIOUS
  <2> QED
    BY <2>1, <2>2, <1>7
<1> QED
  BY <1>1, <1>8, <1>9

\* b times more tables one level below, and no level has more than Span(4).
LEMMA Grows ==
    ASSUME NEW a \in Nat, NEW b \in Nat \ {0} PROVE a <= a * b
<1>1. PICK c \in Nat : b = c + 1
  <2>1. b - 1 \in Nat /\ b = (b - 1) + 1
    OBVIOUS
  <2> QED
    BY <2>1
<1>2. a * b = a * c + a /\ a * c \in Nat
  BY <1>1
<1> QED
  BY <1>2

LEMMA SpanBound == \A l \in 0..4 : Span(l) <= Span(4)
<1>1. \A l \in 0..3 : Span(l) <= Span(l + 1)
  <2> SUFFICES ASSUME NEW l \in 0..3 PROVE Span(l) <= Span(l + 1)
    OBVIOUS
  <2>0. l \in 0..4
    OBVIOUS
  <2>1. Span(l) \in Nat \ {0} /\ Fanout \in Nat \ {0} /\ Span(l + 1) = Span(l) * Fanout
    BY <2>0, SpanFacts, FanoutFacts, Zenon
  <2> QED
    BY <2>1, Grows
<1>2. Span(0) <= Span(1) /\ Span(1) <= Span(2) /\ Span(2) <= Span(3) /\ Span(3) <= Span(4)
  <2>1. 0 + 1 = 1 /\ 1 + 1 = 2 /\ 2 + 1 = 3 /\ 3 + 1 = 4
    OBVIOUS
  <2> QED
    BY <1>1, <2>1
<1>3. Span(0) \in Nat /\ Span(1) \in Nat /\ Span(2) \in Nat /\ Span(3) \in Nat /\ Span(4) \in Nat
  BY SpanFacts
<1> QED
  <2> SUFFICES ASSUME NEW l \in 0..4 PROVE Span(l) <= Span(4)
    OBVIOUS
  <2>1. l = 0 \/ l = 1 \/ l = 2 \/ l = 3 \/ l = 4
    OBVIOUS
  <2> QED
    BY <2>1, <1>2, <1>3

LEMMA UserFacts ==
    /\ Span(4) \div 2 = Half * Span(3)
    /\ UserVa = 0..(Half * Span(3) - 1)
    /\ AllVa = 0..(Span(4) - 1)
    /\ UserVa \subseteq AllVa
    /\ UserVa \cap KernelVa = {}
<1>1. Span(4) = Span(3) * Fanout /\ Span(3) \in Nat \ {0} /\ Span(4) \in Nat \ {0}
  <2>1. 3 \in 0..3 /\ 3 + 1 = 4 /\ 3 \in 0..4 /\ 4 \in 0..4
    OBVIOUS
  <2> QED
    BY <2>1, SpanFacts
<1>2. Fanout = 2 * Half /\ Half \in Nat \ {0}
  BY FanoutFacts
<1>3. Span(4) = 2 * (Half * Span(3)) /\ Half * Span(3) \in Nat \ {0}
  BY <1>1, <1>2
<1>4. Span(4) \div 2 = Half * Span(3)
  BY <1>1, <1>3
<1>5. TopLevel + 1 = 4
  BY DEF TopLevel
<1> QED
  BY <1>1, <1>3, <1>4, <1>5 DEF UserVa, KernelVa, AllVa

LEMMA NosFacts ==
    /\ 0 \in Nos(3) /\ \A n \in Nos(3) : n = 0
    /\ Nos(2) = Slots /\ Nos(-1) = AllVa
    /\ \A l \in -1..3 : Nos(l) \subseteq 0..(Span(4) - 1)
    /\ \A l \in 0..3 : \A n \in Nos(l), k \in Slots : n * Fanout + k \in Nos(l - 1)
    /\ \A n \in Nat, k \in Slots : (n * Fanout + k) \div Fanout = n /\ (n * Fanout + k) % Fanout = k
    /\ \A l \in -1..2 : \A n \in Nos(l) : n \div Fanout \in Nos(l + 1)
    /\ \A n \in Nat : n % Fanout \in Slots /\ n = (n \div Fanout) * Fanout + (n % Fanout)
<1>1. \A l \in -1..3 : Nos(l) = 0..(Span(3 - l) - 1) /\ 3 - l \in 0..4
  BY DEF Nos, TopLevel
<1>2. Fanout \in Nat \ {0} /\ Slots = 0..(Fanout - 1)
  BY FanoutFacts
<1>3. Nos(3) = 0..0
  <2>1. 3 - 3 = 0 /\ 3 \in -1..3
    OBVIOUS
  <2>2. Nos(3) = 0..(Span(3 - 3) - 1)
    BY <1>1, <2>1
  <2> QED
    BY <2>1, <2>2, SpanFacts
<1>4. Nos(2) = Slots
  <2>1. 3 - 2 = 1 /\ 2 \in -1..3
    OBVIOUS
  <2>2. Nos(2) = 0..(Span(3 - 2) - 1)
    BY <1>1, <2>1
  <2> QED
    BY <2>1, <2>2, SpanFacts, <1>2
<1>5. Nos(-1) = AllVa
  <2>1. 3 - (-1) = 4 /\ -1 \in -1..3
    OBVIOUS
  <2>2. Nos(-1) = 0..(Span(3 - (-1)) - 1)
    BY <1>1, <2>1
  <2> QED
    BY <2>1, <2>2, UserFacts
<1>6. ASSUME NEW l \in -1..3 PROVE Nos(l) \subseteq 0..(Span(4) - 1)
  <2>1. Nos(l) = 0..(Span(3 - l) - 1) /\ 3 - l \in 0..4
    BY <1>1
  <2>2. Span(3 - l) \in Nat /\ Span(4) \in Nat /\ Span(3 - l) <= Span(4)
    BY <2>1, SpanFacts, SpanBound
  <2> QED
    BY <2>1, <2>2
<1>7. ASSUME NEW n \in Nat, NEW k \in Slots
      PROVE  (n * Fanout + k) \div Fanout = n /\ (n * Fanout + k) % Fanout = k
  <2>1. k \in 0..(Fanout - 1) /\ n * Fanout + k \in Nat /\ n * Fanout + k = Fanout * n + k
    BY <1>2
  <2> QED
    BY <2>1, <1>2, DivideUnique
<1>8. ASSUME NEW n \in Nat PROVE n % Fanout \in Slots /\ n = (n \div Fanout) * Fanout + (n % Fanout)
  BY <1>2, DivideFacts
<1>9. ASSUME NEW l \in 0..3, NEW n \in Nos(l), NEW k \in Slots PROVE n * Fanout + k \in Nos(l - 1)
  <2>1. Nos(l) = 0..(Span(3 - l) - 1) /\ Nos(l - 1) = 0..(Span((3 - l) + 1) - 1) /\ 3 - l \in 0..3
        /\ 3 - l \in 0..4
    <3>1. l \in -1..3 /\ l - 1 \in -1..3 /\ 3 - (l - 1) = (3 - l) + 1 /\ 3 - l \in 0..3
      OBVIOUS
    <3> QED
      BY <3>1, <1>1
  <2>2. PICK w \in Nat \ {0} : w = Span(3 - l) /\ Span((3 - l) + 1) = w * Fanout
    BY <2>1, SpanFacts
  <2>3. n \in Nat /\ n + 1 <= w
    BY <2>1, <2>2
  <2>4. (n + 1) * Fanout <= w * Fanout
    BY <2>3, <1>2
  <2>5. (n + 1) * Fanout = n * Fanout + Fanout /\ n * Fanout \in Nat /\ w * Fanout \in Nat
    BY <2>3, <1>2
  <2>6. n * Fanout + k \in 0..(w * Fanout - 1)
    BY <2>4, <2>5, <1>2
  <2> QED
    BY <2>1, <2>2, <2>6
<1>10. ASSUME NEW l \in -1..2, NEW n \in Nos(l) PROVE n \div Fanout \in Nos(l + 1)
  <2>1. Nos(l) = 0..(Span((2 - l) + 1) - 1) /\ Nos(l + 1) = 0..(Span(2 - l) - 1) /\ 2 - l \in 0..3
        /\ 2 - l \in 0..4
    <3>1. l \in -1..3 /\ l + 1 \in -1..3 /\ 3 - (l + 1) = 2 - l /\ 3 - l = (2 - l) + 1 /\ 2 - l \in 0..3
      OBVIOUS
    <3> QED
      BY <3>1, <1>1
  <2>2. PICK w \in Nat \ {0} : w = Span(2 - l) /\ Span((2 - l) + 1) = w * Fanout
    BY <2>1, SpanFacts
  <2>3. n \in 0..(w * Fanout - 1)
    BY <2>1, <2>2
  <2>4. PICK q \in Nat, r \in 0..(Fanout - 1) : q = n \div Fanout /\ n = Fanout * q + r
    <3>1. n \in Nat
      BY <2>3
    <3> QED
      BY <3>1, <1>2, DivideFacts
  <2>5. ~(w <= q)
    <3> SUFFICES ASSUME w <= q PROVE FALSE
      OBVIOUS
    <3>1. w * Fanout <= q * Fanout
      BY <1>2
    <3>2. w * Fanout \in Nat /\ q * Fanout \in Nat /\ q * Fanout = Fanout * q
      BY <1>2
    <3> QED
      BY <3>1, <3>2, <2>3, <2>4
  <2> QED
    BY <2>1, <2>2, <2>4, <2>5
<1>11. 0 \in Nos(3) /\ \A n \in Nos(3) : n = 0
  BY <1>3
<1> QED
  BY <1>11, <1>4, <1>5, <1>6, <1>7, <1>8, <1>9, <1>10, Zenon

LEMMA SpanDown ==
    ASSUME NEW va \in Nat, NEW l \in 0..3
    PROVE  /\ va \div Span(l + 1) = (va \div Span(l)) \div Fanout
           /\ va % Span(l + 1) = Span(l) * ((va \div Span(l)) % Fanout) + (va % Span(l))
<1>1. l \in 0..4
  OBVIOUS
<1>2. Span(l) \in Nat \ {0} /\ Span(l + 1) = Span(l) * Fanout /\ Fanout \in Nat \ {0}
  BY <1>1, SpanFacts, FanoutFacts, Zenon
<1> QED
  BY <1>1, <1>2, DivideProduct, Zenon

\* The table of a level that translates a page, and the slot.
LEMMA VaFacts ==
    ASSUME NEW va \in AllVa, NEW l \in Levels
    PROVE  /\ va \div Span(l + 1) \in Nos(l)
           /\ va \div Span(l) \in Nos(l - 1)
           /\ pt_index(va, l) \in Slots
           /\ va \div Span(l) = (va \div Span(l + 1)) * Fanout + pt_index(va, l)
           /\ va \div Span(l + 1) = (va \div Span(l)) \div Fanout
           /\ pt_index(va, l) = (va \div Span(l)) % Fanout
           /\ va % Span(l + 1) = Span(l) * pt_index(va, l) + (va % Span(l))
<1>1. va \in 0..(Span(4) - 1) /\ va \in Nat /\ l \in 0..3 /\ l \in 0..4 /\ l + 1 \in 0..4
  <2>1. Span(4) \in Nat
    BY SpanFacts
  <2> QED
    BY <2>1, UserFacts DEF Levels, TopLevel
<1>2. Span(l) \in Nat \ {0} /\ Span(l + 1) = Span(l) * Fanout /\ Fanout \in Nat \ {0}
  BY <1>1, SpanFacts, FanoutFacts, Zenon
<1>3. /\ va \div Span(l + 1) = (va \div Span(l)) \div Fanout
      /\ va % Span(l + 1) = Span(l) * ((va \div Span(l)) % Fanout) + (va % Span(l))
  BY <1>1, SpanDown, Zenon
<1>4. va \div Span(l) \in Nat /\ va \div Span(l + 1) \in Nat
  BY <1>1, <1>2, <1>3, DivideFacts
<1>5. pt_index(va, l) = (va \div Span(l)) % Fanout
  BY DEF pt_index
<1>6. /\ pt_index(va, l) \in Slots
      /\ va \div Span(l) = (va \div Span(l + 1)) * Fanout + pt_index(va, l)
  BY <1>3, <1>4, <1>5, NosFacts, Zenon
<1>7. ASSUME NEW j \in 0..4 PROVE va \div Span(j) \in Nos(j - 1)
  <2>1. va \div Span(0) \in Nos(-1)
    <3>1. va \div 1 = va
      BY <1>1
    <3> QED
      BY <3>1, SpanFacts, NosFacts
  <2>2. ASSUME NEW q \in 0..3, va \div Span(q) \in Nos(q - 1) PROVE va \div Span(q + 1) \in Nos(q)
    <3>1. Span(q) \in Nat \ {0} /\ Span(q + 1) = Span(q) * Fanout /\ q - 1 \in -1..2 /\ (q - 1) + 1 = q
      <4>1. q \in 0..4 /\ q - 1 \in -1..2 /\ (q - 1) + 1 = q
        OBVIOUS
      <4> QED
        BY <4>1, SpanFacts, Zenon
    <3>2. va \div Span(q + 1) = (va \div Span(q)) \div Fanout
      BY <1>1, SpanDown, Zenon
    <3>3. (va \div Span(q)) \div Fanout \in Nos((q - 1) + 1)
      BY <2>2, <3>1, NosFacts, Zenon
    <3> QED
      BY <3>1, <3>2, <3>3
  <2>3. 0 \in 0..3 /\ 1 \in 0..3 /\ 2 \in 0..3 /\ 3 \in 0..3 /\ 0 - 1 = -1 /\ 1 - 1 = 0 /\ 2 - 1 = 1 /\ 3 - 1 = 2
        /\ 4 - 1 = 3 /\ 0 + 1 = 1 /\ 1 + 1 = 2 /\ 2 + 1 = 3 /\ 3 + 1 = 4
    OBVIOUS
  <2>4. va \div Span(1) \in Nos(0)
    BY <2>1, <2>2, <2>3
  <2>5. va \div Span(2) \in Nos(1)
    BY <2>4, <2>2, <2>3
  <2>6. va \div Span(3) \in Nos(2)
    BY <2>5, <2>2, <2>3
  <2>7. va \div Span(4) \in Nos(3)
    BY <2>6, <2>2, <2>3
  <2>8. j = 0 \/ j = 1 \/ j = 2 \/ j = 3 \/ j = 4
    OBVIOUS
  <2> QED
    BY <2>1, <2>3, <2>4, <2>5, <2>6, <2>7, <2>8
<1>8. va \div Span(l) \in Nos(l - 1) /\ va \div Span(l + 1) \in Nos(l)
  <2>1. (l + 1) - 1 = l
    BY <1>1
  <2> QED
    BY <1>1, <1>7, <2>1
<1> QED
  BY <1>3, <1>5, <1>6, <1>8

LEMMA HomeFacts ==
    ASSUME NEW s \in Nat, NEW l \in -1..3, NEW n \in Nos(l)
    PROVE  /\ Home(s, l, n) \in Nat /\ Home(s, l, n) >= Span(4)
           /\ \A t \in Nat : \A q \in -1..3 : \A m \in Nos(q) :
                 Home(s, l, n) = Home(t, q, m) => s = t /\ l = q /\ n = m
<1> DEFINE W == Span(4)
<1>1. W \in Nat \ {0}
  BY SpanFacts
<1>2. \A t \in Nat : \A q \in -1..3 : \A m \in Nos(q) :
         /\ m \in 0..(W - 1) /\ t * 5 + q + 2 \in Nat \ {0}
         /\ Home(t, q, m) = W * (t * 5 + q + 2) + m
  <2> SUFFICES ASSUME NEW t \in Nat, NEW q \in -1..3, NEW m \in Nos(q)
               PROVE  /\ m \in 0..(W - 1) /\ t * 5 + q + 2 \in Nat \ {0}
                      /\ Home(t, q, m) = W * (t * 5 + q + 2) + m
    OBVIOUS
  <2>1. m \in 0..(W - 1)
    BY NosFacts
  <2>2. t * 5 + q + 2 \in Nat \ {0}
    OBVIOUS
  <2>3. Home(t, q, m) = (t * 5 + q + 2) * W + m
    BY DEF Home, TopLevel
  <2>4. (t * 5 + q + 2) * W = W * (t * 5 + q + 2)
    BY <1>1, <2>2
  <2> HIDE DEF W
  <2> QED
    BY <2>1, <2>2, <2>3, <2>4
<1> HIDE DEF W
<1>3. PICK x \in Nat \ {0} : x = s * 5 + l + 2 /\ Home(s, l, n) = W * x + n /\ n \in 0..(W - 1)
  BY <1>2
<1>4. W * x \in Nat /\ W * x >= W
  BY <1>1, <1>3, Grows
<1>5. Home(s, l, n) \in Nat /\ Home(s, l, n) >= W
  BY <1>3, <1>4, <1>1
<1>6. ASSUME NEW t \in Nat, NEW q \in -1..3, NEW m \in Nos(q), Home(s, l, n) = Home(t, q, m)
      PROVE  s = t /\ l = q /\ n = m
  <2>1. PICK y \in Nat \ {0} : y = t * 5 + q + 2 /\ Home(t, q, m) = W * y + m /\ m \in 0..(W - 1)
    BY <1>2
  <2>2. x = y /\ n = m
    <3>1. PICK a \in Nat : a = Home(s, l, n)
      BY <1>5
    <3>2. a \div W = x /\ a % W = n
      BY <3>1, <1>1, <1>3, DivideUnique
    <3>3. a \div W = y /\ a % W = m
      BY <3>1, <1>6, <1>1, <2>1, DivideUnique
    <3> QED
      BY <3>2, <3>3
  <2>3. s = t /\ l = q
    BY <2>1, <2>2, <1>3
  <2> QED
    BY <2>2, <2>3
<1> QED
  BY <1>5, <1>6 DEF W

-----------------------------------------------------------------------------
(* Places of tables: the number of a table, its slot in the table above. *)

Sub(n, k) == n * Fanout + k
Up(n) == n \div Fanout
At(n) == n % Fanout

LEMMA Numbers ==
    /\ \A l \in Levels : \A n \in Nos(l), k \in Slots :
          Sub(n, k) \in Nos(l - 1) /\ Up(Sub(n, k)) = n /\ At(Sub(n, k)) = k
    /\ \A l \in 0..2 : \A n \in Nos(l) :
          Up(n) \in Nos(l + 1) /\ At(n) \in Slots /\ Sub(Up(n), At(n)) = n
    /\ 0 \in Nos(3) /\ \A n \in Nos(3) : n = 0
    /\ Nos(2) = Slots /\ \A n \in Nos(2) : Up(n) = 0 /\ At(n) = n
<1>1. \A l \in Levels : l \in 0..3 /\ l \in -1..3
  BY DEF Levels, TopLevel
<1>2. \A l \in -1..3 : Nos(l) \subseteq Nat
  <2>1. \A l \in -1..3 : Nos(l) \subseteq 0..(Span(4) - 1)
    BY NosFacts, Zenon
  <2> QED
    BY <2>1
<1>3. \A l \in Levels : \A n \in Nos(l), k \in Slots :
          Sub(n, k) \in Nos(l - 1) /\ Up(Sub(n, k)) = n /\ At(Sub(n, k)) = k
  BY <1>1, <1>2, NosFacts, Zenon DEF Sub, Up, At
<1>4. \A l \in 0..2 : \A n \in Nos(l) :
          Up(n) \in Nos(l + 1) /\ At(n) \in Slots /\ Sub(Up(n), At(n)) = n
  <2>1. \A l \in 0..2 : l \in -1..2 /\ l \in -1..3
    OBVIOUS
  <2> QED
    BY <2>1, <1>2, NosFacts, Zenon DEF Sub, Up, At
<1>5. 0 \in Nos(3) /\ (\A n \in Nos(3) : n = 0) /\ Nos(2) = Slots
  BY NosFacts, Zenon
<1>6. ASSUME NEW n \in Nos(2) PROVE Up(n) = 0 /\ At(n) = n
  <2>1. Fanout \in Nat \ {0} /\ n \in 0..(Fanout - 1) /\ n \in Nat /\ 0 \in Nat /\ n = Fanout * 0 + n
    BY <1>5, FanoutFacts
  <2> QED
    BY <2>1, DivideUnique DEF Up, At
<1> QED
  BY <1>3, <1>4, <1>5, <1>6

LEMMA Apart ==
    \A s, t \in Nat : \A l, q \in -1..3 : \A n \in Nos(l), m \in Nos(q) :
        Home(s, l, n) = Home(t, q, m) => s = t /\ l = q /\ n = m
<1> SUFFICES ASSUME NEW s \in Nat, NEW t \in Nat, NEW l \in -1..3, NEW q \in -1..3, NEW n \in Nos(l),
                    NEW m \in Nos(q), Home(s, l, n) = Home(t, q, m)
             PROVE  s = t /\ l = q /\ n = m
  BY Zenon
<1>1. \A u \in Nat : \A p \in -1..3 : \A x \in Nos(p) :
         Home(s, l, n) = Home(u, p, x) => s = u /\ l = p /\ n = x
  BY HomeFacts
<1> QED
  BY <1>1, Zenon

\* Entries.
IsEntry(e) ==
    \/ e = Absent
    \/ \E t \in Nat : e = TableEntry(t)
    \/ \E f \in Nat, r \in Rights : e = Leaf(f, r)

LEMMA Kinds ==
    /\ Absent.kind = "absent"
    /\ \A t : TableEntry(t).kind = "table" /\ TableEntry(t).to = t
    /\ \A f, r : Leaf(f, r).kind = "leaf" /\ Leaf(f, r).to = f /\ Leaf(f, r).rights = r
BY DEF Absent, TableEntry, Leaf

LEMMA KindFacts ==
    ASSUME NEW e, IsEntry(e)
    PROVE  /\ e.kind = "absent" <=> e = Absent
           /\ e.kind = "table" => e = TableEntry(e.to)
           /\ e.kind = "leaf" => e = Leaf(e.to, e.rights) /\ e.to \in Nat /\ e.rights \in Rights
           /\ e.kind = "absent" \/ e.kind = "table" \/ e.kind = "leaf"
           /\ e.kind = "absent" => e.kind # "table" /\ e.kind # "leaf"
           /\ e.kind = "leaf" => e.kind # "table"
BY Kinds DEF IsEntry

-----------------------------------------------------------------------------
(* The trees of the spaces live. *)

IsTable(m, s, l, n) == Home(s, l, n) \in DOMAIN m
Ent(m, s, l, n, k) == m[Home(s, l, n)][k]

\* Slot k of a table of level l is not one of those that the kernel lends.
Own(s, l, k) == s = Kernel \/ l # 3 \/ k \in UserSlots

\* The pages that a space may map: what callers hand in, and the copies made for it.
PagesOf(s) == Memory \cup {Home(s, -1, n) : n \in Nos(-1)}

Placed(m, live) ==
    \A f \in DOMAIN m : \E s \in live, l \in Levels : \E n \in Nos(l) : f = Home(s, l, n)
Rooted(m, live) == \A s \in live : IsTable(m, s, 3, 0)
Filled(m) == \A f \in DOMAIN m : DOMAIN m[f] = Slots /\ m[f] = [k \in Slots |-> m[f][k]]
                                 /\ \A k \in Slots : IsEntry(m[f][k])
Downward(m, live) ==
    \A s \in live, l \in Levels, k \in Slots : \A n \in Nos(l) :
        IsTable(m, s, l, n) /\ Ent(m, s, l, n, k).kind = "table" =>
            /\ l # 0
            /\ Own(s, l, k) => /\ Ent(m, s, l, n, k) = TableEntry(Home(s, l - 1, Sub(n, k)))
                               /\ IsTable(m, s, l - 1, Sub(n, k))
Upward(m, live) ==
    \A s \in live, l \in 0..2 : \A n \in Nos(l) :
        IsTable(m, s, l, n) =>
            /\ IsTable(m, s, l + 1, Up(n))
            /\ Ent(m, s, l + 1, Up(n), At(n)) = TableEntry(Home(s, l, n))
            /\ Own(s, l + 1, At(n))
Shared(m, live) ==
    \A s \in live, k \in Slots \ UserSlots : Ent(m, s, 3, 0, k) = Ent(m, Kernel, 3, 0, k)
Plain(m, live) ==
    \A s \in live \ {Kernel}, l \in Levels, k \in Slots : \A n \in Nos(l) :
        IsTable(m, s, l, n) /\ Ent(m, s, l, n, k).kind = "leaf" /\ Own(s, l, k) =>
            l = 0 /\ Ent(m, s, l, n, k).to \in PagesOf(s)

Trees(m, live) ==
    /\ Placed(m, live) /\ Rooted(m, live) /\ Filled(m) /\ Downward(m, live) /\ Upward(m, live)
    /\ Shared(m, live) /\ Plain(m, live)

\* The spaces there can be.
LiveSet(live) == live \subseteq Nat /\ Kernel \in live

\* Frames of different places differ.
LEMMA ApartTables ==
    ASSUME NEW live, LiveSet(live)
    PROVE  \A s, t \in live : \A l, q \in Levels : \A n \in Nos(l), m \in Nos(q) :
              Home(s, l, n) = Home(t, q, m) => s = t /\ l = q /\ n = m
<1>1. \A l \in Levels : l \in -1..3
  BY DEF Levels, TopLevel
<1> QED
  BY <1>1, Apart DEF LiveSet

\* A new table of level q, without tables below it, is linked from slot k.
Linkable(m, live, s, q, n, k, es) ==
    /\ LiveSet(live) /\ Trees(m, live) /\ s \in live /\ q \in 0..2 /\ n \in Nos(q + 1) /\ k \in Slots
    /\ q + 1 = 3 => k \in UserSlots
    /\ IsTable(m, s, q + 1, n) /\ Ent(m, s, q + 1, n, k).kind # "table"
    /\ DOMAIN es = Slots /\ es = [j \in Slots |-> es[j]]
    /\ \A j \in Slots : IsEntry(es[j]) /\ es[j].kind # "table"
    /\ s # Kernel => \A j \in Slots : es[j] = Absent

Linked(m, live, s, q, n, k, es) ==
    LET f == Home(s, q, Sub(n, k))
        r == Link(m, Home(s, q + 1, n), k, f, es)
    IN  /\ f \notin DOMAIN m
        /\ Trees(r, live)
        /\ DOMAIN r = DOMAIN m \cup {f} /\ r[f] = es
        /\ \A t \in live, l \in Levels, j \in Slots : \A p \in Nos(l) :
              IsTable(m, t, l, p) =>
                 Ent(r, t, l, p, j) = IF t = s /\ l = q + 1 /\ p = n /\ j = k
                                      THEN TableEntry(f) ELSE Ent(m, t, l, p, j)

LEMMA LinkKeeps ==
    ASSUME NEW m, NEW live, NEW s, NEW q, NEW n, NEW k, NEW es, Linkable(m, live, s, q, n, k, es)
    PROVE  Linked(m, live, s, q, n, k, es)
<1> USE DEF Linkable
<1> DEFINE f == Home(s, q, Sub(n, k))
           T == Home(s, q + 1, n)
           r == Link(m, T, k, f, es)
<1>1. q \in Levels /\ q + 1 \in Levels /\ (q + 1) - 1 = q /\ q + 1 # 0 /\ q # q + 1
  BY DEF Levels, TopLevel
<1>2. Sub(n, k) \in Nos(q) /\ Up(Sub(n, k)) = n /\ At(Sub(n, k)) = k
  BY <1>1, Numbers
<1>3. T \in DOMAIN m /\ DOMAIN m[T] = Slots /\ m[T] = [j \in Slots |-> m[T][j]]
  BY DEF Trees, Filled, IsTable
<1>4. f \notin DOMAIN m
  <2> SUFFICES ASSUME IsTable(m, s, q, Sub(n, k)) PROVE FALSE
    BY DEF IsTable
  <2>1. Ent(m, s, q + 1, n, k) = TableEntry(Home(s, q, Sub(n, k)))
    BY <1>2 DEF Trees, Upward
  <2> QED
    BY <2>1, Kinds
<1>5. f # T
  BY <1>3, <1>4
<1>6. DOMAIN r = DOMAIN m \cup {f} /\ r[f] = es
  BY DEF Link
<1>7. \A u \in DOMAIN m : u # T => r[u] = m[u]
  BY <1>4 DEF Link
<1>8. r[T] = [m[T] EXCEPT ![k] = TableEntry(f)]
  BY <1>3, <1>5 DEF Link
<1> HIDE DEF r
<1>9. r[T][k] = TableEntry(f) /\ \A j \in Slots : j # k => r[T][j] = m[T][j]
  BY <1>3, <1>8
<1>10. \A t \in live, l \in Levels : \A p \in Nos(l) :
          /\ Home(t, l, p) = T <=> t = s /\ l = q + 1 /\ p = n
          /\ Home(t, l, p) = f <=> t = s /\ l = q /\ p = Sub(n, k)
  BY <1>1, <1>2, ApartTables
<1>11. ASSUME NEW t \in live, NEW l \in Levels, NEW j \in Slots, NEW p \in Nos(l), IsTable(m, t, l, p)
       PROVE  Ent(r, t, l, p, j) = IF t = s /\ l = q + 1 /\ p = n /\ j = k
                                   THEN TableEntry(f) ELSE Ent(m, t, l, p, j)
  <2>1. CASE Home(t, l, p) = T
    BY <2>1, <1>9, <1>10 DEF Ent
  <2>2. CASE Home(t, l, p) # T
    BY <2>2, <1>7, <1>10, <1>11 DEF Ent, IsTable
  <2> QED
    BY <2>1, <2>2
<1>12. \A t \in live, l \in Levels : \A p \in Nos(l) :
          IsTable(r, t, l, p) <=> IsTable(m, t, l, p) \/ (t = s /\ l = q /\ p = Sub(n, k))
  BY <1>6, <1>10 DEF IsTable
<1>13. \A j \in Slots : Ent(r, s, q, Sub(n, k), j) = es[j]
  BY <1>6 DEF Ent
<1> HIDE DEF f, T
<1>14. Placed(r, live)
  BY <1>1, <1>2, <1>6 DEF Trees, Placed, f
<1>15. Rooted(r, live)
  BY <1>6 DEF Trees, Rooted, IsTable
<1>16. Filled(r)
  <2> SUFFICES ASSUME NEW u \in DOMAIN r
               PROVE  DOMAIN r[u] = Slots /\ r[u] = [j \in Slots |-> r[u][j]]
                      /\ \A j \in Slots : IsEntry(r[u][j])
    BY DEF Filled
  <2>1. CASE u = f
    BY <2>1, <1>6
  <2>2. CASE u = T
    <3>1. f \in Nat
      <4>1. q \in -1..3 /\ s \in Nat
        BY DEF LiveSet
      <4> QED
        BY <4>1, <1>2, HomeFacts DEF f
    <3>2. IsEntry(TableEntry(f))
      BY <3>1 DEF IsEntry
    <3> QED
      BY <2>2, <3>2, <1>3, <1>8, <1>9 DEF Trees, Filled
  <2>3. CASE u \in DOMAIN m /\ u # T
    BY <2>3, <1>7 DEF Trees, Filled
  <2> QED
    BY <2>1, <2>2, <2>3, <1>6
<1>17. Downward(r, live)
  <2> SUFFICES ASSUME NEW t \in live, NEW l \in Levels, NEW j \in Slots, NEW p \in Nos(l),
                      IsTable(r, t, l, p), Ent(r, t, l, p, j).kind = "table"
               PROVE  /\ l # 0
                      /\ Own(t, l, j) => /\ Ent(r, t, l, p, j) = TableEntry(Home(t, l - 1, Sub(p, j)))
                                         /\ IsTable(r, t, l - 1, Sub(p, j))
    BY DEF Downward
  <2>1. IsTable(m, t, l, p)
    BY <1>12, <1>13
  <2>2. CASE t = s /\ l = q + 1 /\ p = n /\ j = k
    BY <2>1, <2>2, <1>11, <1>1, <1>2, <1>12 DEF f
  <2>3. CASE ~(t = s /\ l = q + 1 /\ p = n /\ j = k)
    <3>1. Ent(r, t, l, p, j) = Ent(m, t, l, p, j)
      BY <2>1, <2>3, <1>11
    <3>2. /\ l # 0
          /\ Own(t, l, j) => /\ Ent(m, t, l, p, j) = TableEntry(Home(t, l - 1, Sub(p, j)))
                             /\ IsTable(m, t, l - 1, Sub(p, j))
      BY <2>1, <3>1 DEF Trees, Downward
    <3>3. IsTable(m, t, l - 1, Sub(p, j)) => IsTable(r, t, l - 1, Sub(p, j))
      BY <1>6 DEF IsTable
    <3> QED
      BY <3>1, <3>2, <3>3
  <2> QED
    BY <2>2, <2>3
<1>18. Upward(r, live)
  <2> SUFFICES ASSUME NEW t \in live, NEW l \in 0..2, NEW p \in Nos(l), IsTable(r, t, l, p)
               PROVE  /\ IsTable(r, t, l + 1, Up(p))
                      /\ Ent(r, t, l + 1, Up(p), At(p)) = TableEntry(Home(t, l, p))
                      /\ Own(t, l + 1, At(p))
    BY DEF Upward
  <2>1. l \in Levels /\ l + 1 \in Levels /\ Up(p) \in Nos(l + 1) /\ At(p) \in Slots /\ Sub(Up(p), At(p)) = p
    BY Numbers DEF Levels, TopLevel
  <2>2. CASE t = s /\ l = q /\ p = Sub(n, k)
    <3>1. Up(p) = n /\ At(p) = k
      BY <2>2, <1>2
    <3>2. IsTable(r, t, l + 1, Up(p))
      BY <2>2, <3>1, <1>12, <1>1
    <3>3. Ent(r, t, l + 1, Up(p), At(p)) = TableEntry(Home(t, l, p))
      BY <2>1, <2>2, <3>1, <1>11 DEF f
    <3>4. Own(t, l + 1, At(p))
      BY <2>2, <3>1 DEF Own
    <3> QED
      BY <3>2, <3>3, <3>4
  <2>3. CASE ~(t = s /\ l = q /\ p = Sub(n, k))
    <3>1. IsTable(m, t, l, p)
      BY <2>1, <2>3, <1>12
    <3>2. /\ IsTable(m, t, l + 1, Up(p))
          /\ Ent(m, t, l + 1, Up(p), At(p)) = TableEntry(Home(t, l, p))
          /\ Own(t, l + 1, At(p))
      BY <3>1 DEF Trees, Upward
    <3>3. ~(t = s /\ l + 1 = q + 1 /\ Up(p) = n /\ At(p) = k)
      BY <2>1, <2>3
    <3> QED
      BY <3>2, <3>3, <2>1, <1>11, <1>12
  <2> QED
    BY <2>2, <2>3
<1>19. Shared(r, live)
  <2> SUFFICES ASSUME NEW t \in live, NEW j \in Slots \ UserSlots
               PROVE  Ent(r, t, 3, 0, j) = Ent(r, Kernel, 3, 0, j)
    BY DEF Shared
  <2>1. 3 \in Levels /\ 0 \in Nos(3) /\ Kernel \in live
    BY Numbers DEF Levels, TopLevel, LiveSet
  <2>2. Ent(r, t, 3, 0, j) = Ent(m, t, 3, 0, j) /\ Ent(r, Kernel, 3, 0, j) = Ent(m, Kernel, 3, 0, j)
    BY <2>1, <1>11 DEF Trees, Rooted
  <2> QED
    BY <2>2 DEF Trees, Shared
<1>20. Plain(r, live)
  <2> SUFFICES ASSUME NEW t \in live \ {Kernel}, NEW l \in Levels, NEW j \in Slots, NEW p \in Nos(l),
                      IsTable(r, t, l, p), Ent(r, t, l, p, j).kind = "leaf", Own(t, l, j)
               PROVE  l = 0 /\ Ent(r, t, l, p, j).to \in PagesOf(t)
    BY DEF Plain
  <2>1. ~(t = s /\ l = q /\ p = Sub(n, k))
    BY <1>13, Kinds
  <2>2. IsTable(m, t, l, p)
    BY <2>1, <1>12
  <2>3. Ent(r, t, l, p, j) = Ent(m, t, l, p, j)
    BY <2>2, <1>11, Kinds
  <2> QED
    BY <2>2, <2>3 DEF Trees, Plain
<1> QED
  BY <1>4, <1>6, <1>11, <1>14, <1>15, <1>16, <1>17, <1>18, <1>19, <1>20 DEF Trees, Linked, r, f, T

\* An entry of the last level changes.
LEMMA PutKeeps ==
    ASSUME NEW m, NEW live, LiveSet(live), Trees(m, live),
           NEW s \in live, NEW n \in Nos(0), NEW k \in Slots, IsTable(m, s, 0, n),
           NEW e, IsEntry(e), e.kind # "table",
           s # Kernel /\ e.kind = "leaf" => e.to \in PagesOf(s)
    PROVE  LET r == Put(m, Home(s, 0, n), k, e)
           IN  /\ Trees(r, live) /\ DOMAIN r = DOMAIN m
               /\ \A t \in live, l \in Levels, j \in Slots : \A p \in Nos(l) :
                     IsTable(m, t, l, p) =>
                        Ent(r, t, l, p, j) = IF t = s /\ l = 0 /\ p = n /\ j = k
                                             THEN e ELSE Ent(m, t, l, p, j)
<1> DEFINE T == Home(s, 0, n)
           r == Put(m, T, k, e)
<1>1. 0 \in Levels /\ 3 \in Levels /\ 0 # 3 /\ 0 \in Nos(3) /\ Kernel \in live
  BY Numbers DEF Levels, TopLevel, LiveSet
<1>2. T \in DOMAIN m /\ DOMAIN m[T] = Slots /\ m[T] = [j \in Slots |-> m[T][j]]
  BY DEF Trees, Filled, IsTable
<1>3. DOMAIN r = DOMAIN m /\ r[T] = [m[T] EXCEPT ![k] = e] /\ \A u \in DOMAIN m : u # T => r[u] = m[u]
  BY <1>2 DEF Put
<1> HIDE DEF r
<1>4. r[T][k] = e /\ \A j \in Slots : j # k => r[T][j] = m[T][j]
  BY <1>2, <1>3
<1>5. \A t \in live, l \in Levels : \A p \in Nos(l) : Home(t, l, p) = T <=> t = s /\ l = 0 /\ p = n
  BY <1>1, ApartTables
<1>6. \A t, l, p : IsTable(r, t, l, p) <=> IsTable(m, t, l, p)
  BY <1>3 DEF IsTable
<1>7. ASSUME NEW t \in live, NEW l \in Levels, NEW j \in Slots, NEW p \in Nos(l), IsTable(m, t, l, p)
      PROVE  Ent(r, t, l, p, j) = IF t = s /\ l = 0 /\ p = n /\ j = k THEN e ELSE Ent(m, t, l, p, j)
  <2>1. CASE Home(t, l, p) = T
    BY <2>1, <1>4, <1>5 DEF Ent
  <2>2. CASE Home(t, l, p) # T
    BY <2>2, <1>3, <1>5, <1>7 DEF Ent, IsTable
  <2> QED
    BY <2>1, <2>2
<1> HIDE DEF T
<1>8. Placed(r, live) /\ Rooted(r, live)
  BY <1>3, <1>6 DEF Trees, Placed, Rooted
<1>9. Filled(r)
  <2> SUFFICES ASSUME NEW u \in DOMAIN r
               PROVE  DOMAIN r[u] = Slots /\ r[u] = [j \in Slots |-> r[u][j]]
                      /\ \A j \in Slots : IsEntry(r[u][j])
    BY DEF Filled
  <2>1. CASE u = T
    BY <2>1, <1>2, <1>3, <1>4 DEF Trees, Filled
  <2>2. CASE u # T
    BY <2>2, <1>3 DEF Trees, Filled
  <2> QED
    BY <2>1, <2>2
<1>10. Downward(r, live)
  <2> SUFFICES ASSUME NEW t \in live, NEW l \in Levels, NEW j \in Slots, NEW p \in Nos(l),
                      IsTable(m, t, l, p), Ent(r, t, l, p, j).kind = "table"
               PROVE  /\ l # 0
                      /\ Own(t, l, j) => /\ Ent(r, t, l, p, j) = TableEntry(Home(t, l - 1, Sub(p, j)))
                                         /\ IsTable(m, t, l - 1, Sub(p, j))
    BY <1>6 DEF Downward
  <2>1. Ent(r, t, l, p, j) = Ent(m, t, l, p, j)
    BY <1>7
  <2> QED
    BY <2>1 DEF Trees, Downward
<1>11. Upward(r, live)
  <2> SUFFICES ASSUME NEW t \in live, NEW l \in 0..2, NEW p \in Nos(l), IsTable(m, t, l, p)
               PROVE  /\ IsTable(m, t, l + 1, Up(p))
                      /\ Ent(r, t, l + 1, Up(p), At(p)) = TableEntry(Home(t, l, p))
                      /\ Own(t, l + 1, At(p))
    BY <1>6 DEF Upward
  <2>1. l + 1 \in Levels /\ Up(p) \in Nos(l + 1) /\ At(p) \in Slots /\ l + 1 # 0
    BY Numbers DEF Levels, TopLevel
  <2>2. /\ IsTable(m, t, l + 1, Up(p))
        /\ Ent(m, t, l + 1, Up(p), At(p)) = TableEntry(Home(t, l, p))
        /\ Own(t, l + 1, At(p))
    BY DEF Trees, Upward
  <2> QED
    BY <2>1, <2>2, <1>7
<1>12. Shared(r, live)
  BY <1>1, <1>7 DEF Trees, Rooted, Shared
<1>13. Plain(r, live)
  <2> SUFFICES ASSUME NEW t \in live \ {Kernel}, NEW l \in Levels, NEW j \in Slots, NEW p \in Nos(l),
                      IsTable(m, t, l, p), Ent(r, t, l, p, j).kind = "leaf", Own(t, l, j)
               PROVE  l = 0 /\ Ent(r, t, l, p, j).to \in PagesOf(t)
    BY <1>6 DEF Plain
  <2>1. CASE t = s /\ l = 0 /\ p = n /\ j = k
    BY <2>1, <1>7
  <2>2. CASE ~(t = s /\ l = 0 /\ p = n /\ j = k)
    BY <2>2, <1>7 DEF Trees, Plain
  <2> QED
    BY <2>1, <2>2
<1> QED
  BY <1>3, <1>7, <1>8, <1>9, <1>10, <1>11, <1>12, <1>13 DEF Trees, r, T

\* A space comes to be, with the kernel's half of the kernel.
NewTable(m) == [k \in Slots |-> IF k \in UserSlots THEN Absent ELSE Ent(m, Kernel, 3, 0, k)]
AddRoot(m, s) == [u \in DOMAIN m \cup {Home(s, 3, 0)} |-> IF u = Home(s, 3, 0) THEN NewTable(m) ELSE m[u]]

LEMMA RootKeeps ==
    ASSUME NEW m, NEW live, LiveSet(live), Trees(m, live), NEW s \in Nat, s \notin live
    PROVE  /\ LiveSet(live \cup {s}) /\ Trees(AddRoot(m, s), live \cup {s})
           /\ Home(s, 3, 0) \notin DOMAIN m /\ DOMAIN AddRoot(m, s) = DOMAIN m \cup {Home(s, 3, 0)}
           /\ \A u \in DOMAIN m : AddRoot(m, s)[u] = m[u]
           /\ \A k \in Slots : Ent(AddRoot(m, s), s, 3, 0, k) = NewTable(m)[k]
<1> DEFINE f == Home(s, 3, 0)
           r == AddRoot(m, s)
           more == live \cup {s}
<1>1. LiveSet(more) /\ live \subseteq more /\ s \in more /\ s # Kernel
  BY DEF LiveSet
<1>2. 3 \in Levels /\ 0 \in Nos(3) /\ Kernel \in live /\ \A p \in Nos(3) : p = 0
  BY Numbers DEF Levels, TopLevel, LiveSet
<1>3. \A t, u \in more : \A l, q \in Levels : \A n \in Nos(l), p \in Nos(q) :
         Home(t, l, n) = Home(u, q, p) => t = u /\ l = q /\ n = p
  BY <1>1, ApartTables
<1>4. \A l \in Levels : \A n \in Nos(l) : ~IsTable(m, s, l, n)
  BY <1>1, <1>3 DEF Trees, Placed, IsTable
<1>5. f \notin DOMAIN m
  BY <1>2, <1>4 DEF IsTable
<1>6. DOMAIN r = DOMAIN m \cup {f} /\ r[f] = NewTable(m) /\ \A u \in DOMAIN m : r[u] = m[u]
  BY <1>5 DEF AddRoot
<1> HIDE DEF r
<1>7. \A t \in live, l \in Levels : \A n \in Nos(l) : IsTable(r, t, l, n) <=> IsTable(m, t, l, n)
  BY <1>1, <1>2, <1>3, <1>6 DEF IsTable
<1>8. \A l \in Levels : \A n \in Nos(l) : IsTable(r, s, l, n) <=> l = 3
  BY <1>1, <1>2, <1>3, <1>4, <1>6 DEF IsTable
<1>9. \A t \in live, l \in Levels, k \in Slots : \A n \in Nos(l) :
         IsTable(m, t, l, n) => Ent(r, t, l, n, k) = Ent(m, t, l, n, k)
  BY <1>6 DEF IsTable, Ent
<1>10. \A k \in Slots : Ent(r, s, 3, 0, k) = IF k \in UserSlots THEN Absent ELSE Ent(m, Kernel, 3, 0, k)
  BY <1>6 DEF Ent, NewTable
<1>11. Placed(r, more)
  BY <1>1, <1>2, <1>6 DEF Trees, Placed
<1>12. Rooted(r, more)
  BY <1>1, <1>2, <1>7, <1>8 DEF Trees, Rooted
<1>13. Filled(r)
  <2>1. \A k \in Slots : IsEntry(Ent(m, Kernel, 3, 0, k))
    BY <1>2 DEF Trees, Rooted, Filled, IsTable, Ent
  <2>2. \A k \in Slots : IsEntry(NewTable(m)[k])
    BY <2>1 DEF NewTable, IsEntry
  <2>3. DOMAIN NewTable(m) = Slots /\ NewTable(m) = [k \in Slots |-> NewTable(m)[k]]
    BY DEF NewTable
  <2> QED
    BY <2>2, <2>3, <1>6 DEF Trees, Filled
<1>14. Downward(r, more)
  <2> SUFFICES ASSUME NEW t \in more, NEW l \in Levels, NEW j \in Slots, NEW p \in Nos(l),
                      IsTable(r, t, l, p), Ent(r, t, l, p, j).kind = "table"
               PROVE  /\ l # 0
                      /\ Own(t, l, j) => /\ Ent(r, t, l, p, j) = TableEntry(Home(t, l - 1, Sub(p, j)))
                                         /\ IsTable(r, t, l - 1, Sub(p, j))
    BY DEF Downward
  <2>1. CASE t = s
    BY <2>1, <1>1, <1>2, <1>8, <1>10, Kinds DEF Own
  <2>2. CASE t \in live
    <3>1. IsTable(m, t, l, p) /\ Ent(r, t, l, p, j) = Ent(m, t, l, p, j)
      BY <2>2, <1>7, <1>9
    <3>2. /\ l # 0
          /\ Own(t, l, j) => /\ Ent(m, t, l, p, j) = TableEntry(Home(t, l - 1, Sub(p, j)))
                             /\ IsTable(m, t, l - 1, Sub(p, j))
      BY <2>2, <3>1 DEF Trees, Downward
    <3> QED
      BY <3>1, <3>2, <1>6 DEF IsTable
  <2> QED
    BY <2>1, <2>2
<1>15. Upward(r, more)
  <2> SUFFICES ASSUME NEW t \in more, NEW l \in 0..2, NEW p \in Nos(l), IsTable(r, t, l, p)
               PROVE  /\ IsTable(r, t, l + 1, Up(p))
                      /\ Ent(r, t, l + 1, Up(p), At(p)) = TableEntry(Home(t, l, p))
                      /\ Own(t, l + 1, At(p))
    BY DEF Upward
  <2>1. l \in Levels /\ l # 3 /\ l + 1 \in Levels /\ Up(p) \in Nos(l + 1) /\ At(p) \in Slots
    BY Numbers DEF Levels, TopLevel
  <2>2. t \in live
    BY <2>1, <1>8
  <2>3. IsTable(m, t, l, p)
    BY <2>1, <2>2, <1>7
  <2>4. /\ IsTable(m, t, l + 1, Up(p))
        /\ Ent(m, t, l + 1, Up(p), At(p)) = TableEntry(Home(t, l, p))
        /\ Own(t, l + 1, At(p))
    BY <2>2, <2>3 DEF Trees, Upward
  <2> QED
    BY <2>1, <2>2, <2>4, <1>7, <1>9
<1>16. Shared(r, more)
  BY <1>2, <1>9, <1>10 DEF Trees, Rooted, Shared
<1>17. Plain(r, more)
  <2> SUFFICES ASSUME NEW t \in more \ {Kernel}, NEW l \in Levels, NEW j \in Slots, NEW p \in Nos(l),
                      IsTable(r, t, l, p), Ent(r, t, l, p, j).kind = "leaf", Own(t, l, j)
               PROVE  l = 0 /\ Ent(r, t, l, p, j).to \in PagesOf(t)
    BY DEF Plain
  <2>1. CASE t = s
    BY <2>1, <1>1, <1>2, <1>8, <1>10, Kinds DEF Own
  <2>2. CASE t \in live
    BY <2>2, <1>7, <1>9 DEF Trees, Plain
  <2> QED
    BY <2>1, <2>2
<1> QED
  BY <1>1, <1>5, <1>6, <1>11, <1>12, <1>13, <1>14, <1>15, <1>16, <1>17 DEF Trees, Ent, r

\* free_page_table finds the tables of the space, all of them and no others.
LEMMA UserTablesFacts ==
    ASSUME NEW m, NEW live, LiveSet(live), Trees(m, live), NEW s \in live, s # Kernel, NEW f \in DOMAIN m
    PROVE  f \in UserTables(m, Home(s, 3, 0)) <=> \E l \in Levels : \E n \in Nos(l) : f = Home(s, l, n)
<1> DEFINE root == Home(s, 3, 0)
           t2 == Children(m, {root}, UserSlots)
           t1 == Children(m, t2, Slots)
           t0 == Children(m, t1, Slots)
<1>1. UserTables(m, root) = {root} \cup t2 \cup t1 \cup t0
  BY DEF UserTables
<1>2. \A ts, ks, x : x \in Children(m, ts, ks) <=>
         \E t \in ts, k \in ks : m[t][k].kind = "table" /\ x = m[t][k].to
  BY DEF Children
<1>3. 0 \in Levels /\ 1 \in Levels /\ 2 \in Levels /\ 3 \in Levels /\ 3 - 1 = 2 /\ 2 - 1 = 1 /\ 1 - 1 = 0
      /\ 0 \in Nos(3) /\ (\A n \in Nos(3) : n = 0) /\ 2 # 3 /\ 1 # 3 /\ 0 + 1 = 1 /\ 1 + 1 = 2 /\ 2 + 1 = 3
      /\ 0 \in 0..2 /\ 1 \in 0..2 /\ 2 \in 0..2
  BY Numbers DEF Levels, TopLevel
<1>4. UserSlots \subseteq Slots
  BY FanoutFacts
<1>5. ASSUME NEW l \in Levels, NEW n \in Nos(l), NEW k \in Slots, IsTable(m, s, l, n), l = 3 => k \in UserSlots,
             Ent(m, s, l, n, k).kind = "table"
      PROVE  l # 0 /\ Ent(m, s, l, n, k).to = Home(s, l - 1, Sub(n, k)) /\ IsTable(m, s, l - 1, Sub(n, k))
             /\ Sub(n, k) \in Nos(l - 1)
  BY <1>5, Kinds, Numbers DEF Trees, Downward, Own
<1> HIDE DEF t2, t1, t0, root
<1>6. ASSUME NEW x \in t2 PROVE \E n \in Nos(2) : x = Home(s, 2, n) /\ IsTable(m, s, 2, n)
  <2>1. PICK k \in UserSlots : m[root][k].kind = "table" /\ x = m[root][k].to
    BY <1>2, <1>6 DEF t2
  <2>2. IsTable(m, s, 3, 0)
    BY DEF Trees, Rooted
  <2> QED
    BY <2>1, <2>2, <1>3, <1>4, <1>5 DEF root, Ent
<1>7. ASSUME NEW x \in t1 PROVE \E n \in Nos(1) : x = Home(s, 1, n) /\ IsTable(m, s, 1, n)
  <2>1. PICK t \in t2, k \in Slots : m[t][k].kind = "table" /\ x = m[t][k].to
    BY <1>2, <1>7 DEF t1
  <2>2. PICK n \in Nos(2) : t = Home(s, 2, n) /\ IsTable(m, s, 2, n)
    BY <1>6
  <2> QED
    BY <2>1, <2>2, <1>3, <1>5 DEF Ent
<1>8. ASSUME NEW x \in t0 PROVE \E n \in Nos(0) : x = Home(s, 0, n)
  <2>1. PICK t \in t1, k \in Slots : m[t][k].kind = "table" /\ x = m[t][k].to
    BY <1>2, <1>8 DEF t0
  <2>2. PICK n \in Nos(1) : t = Home(s, 1, n) /\ IsTable(m, s, 1, n)
    BY <1>7
  <2> QED
    BY <2>1, <2>2, <1>3, <1>5 DEF Ent
<1>9. ASSUME NEW l \in 0..2, NEW n \in Nos(l), IsTable(m, s, l, n)
      PROVE  /\ Up(n) \in Nos(l + 1) /\ At(n) \in Slots /\ IsTable(m, s, l + 1, Up(n))
             /\ m[Home(s, l + 1, Up(n))][At(n)].kind = "table"
             /\ m[Home(s, l + 1, Up(n))][At(n)].to = Home(s, l, n)
             /\ l + 1 = 3 => At(n) \in UserSlots
  BY <1>9, Numbers, Kinds DEF Trees, Upward, Own, Ent
<1>10. ASSUME NEW n \in Nos(2), IsTable(m, s, 2, n) PROVE Home(s, 2, n) \in t2
  BY <1>2, <1>3, <1>9, <1>10 DEF t2, root
<1>11. ASSUME NEW n \in Nos(1), IsTable(m, s, 1, n) PROVE Home(s, 1, n) \in t1
  BY <1>2, <1>3, <1>9, <1>10, <1>11 DEF t1
<1>12. ASSUME NEW n \in Nos(0), IsTable(m, s, 0, n) PROVE Home(s, 0, n) \in t0
  BY <1>2, <1>3, <1>9, <1>11, <1>12 DEF t0
<1>13. f \in {root} \cup t2 \cup t1 \cup t0 => \E l \in Levels : \E n \in Nos(l) : f = Home(s, l, n)
  BY <1>3, <1>6, <1>7, <1>8 DEF root
<1>14. ASSUME NEW l \in Levels, NEW n \in Nos(l), f = Home(s, l, n) PROVE f \in {root} \cup t2 \cup t1 \cup t0
  <2>1. IsTable(m, s, l, n)
    BY <1>14 DEF IsTable
  <2>2. l = 0 \/ l = 1 \/ l = 2 \/ l = 3
    BY DEF Levels, TopLevel
  <2> QED
    BY <2>1, <2>2, <1>3, <1>10, <1>11, <1>12, <1>14 DEF root
<1> QED
  BY <1>1, <1>13, <1>14 DEF root

LEMMA FreeKeeps ==
    ASSUME NEW m, NEW live, LiveSet(live), Trees(m, live), NEW s \in live, s # Kernel
    PROVE  LET r == free_page_table(m, Home(s, 3, 0))
           IN  /\ LiveSet(live \ {s}) /\ Trees(r, live \ {s})
               /\ DOMAIN r \subseteq DOMAIN m
               /\ \A t \in live \ {s}, l \in Levels : \A n \in Nos(l) :
                     IsTable(m, t, l, n) => IsTable(r, t, l, n) /\ r[Home(t, l, n)] = m[Home(t, l, n)]
<1> DEFINE r == free_page_table(m, Home(s, 3, 0))
           left == live \ {s}
<1>1. DOMAIN r = DOMAIN m \ UserTables(m, Home(s, 3, 0)) /\ \A u \in DOMAIN r : r[u] = m[u]
  BY DEF free_page_table, Restrict
<1> HIDE DEF r
<1>2. LiveSet(left) /\ left \subseteq live /\ s \notin left
  BY DEF LiveSet
<1>3. \A t \in left, l \in Levels : \A n \in Nos(l) : IsTable(r, t, l, n) <=> IsTable(m, t, l, n)
  BY <1>1, <1>2, UserTablesFacts, ApartTables DEF IsTable
<1>4. \A f \in DOMAIN r : f \in DOMAIN m /\ ~\E l \in Levels : \E n \in Nos(l) : f = Home(s, l, n)
  BY <1>1, UserTablesFacts
<1>5. \A t \in left, l \in Levels, k \in Slots : \A n \in Nos(l) :
         IsTable(m, t, l, n) => Ent(r, t, l, n, k) = Ent(m, t, l, n, k)
  BY <1>1, <1>3 DEF IsTable, Ent
<1>6. 3 \in Levels /\ 0 \in Nos(3) /\ Kernel \in left
  BY <1>2, Numbers DEF Levels, TopLevel, LiveSet
<1>7. Placed(r, left)
  BY <1>4 DEF Trees, Placed
<1>8. Rooted(r, left)
  BY <1>3, <1>6 DEF Trees, Rooted
<1>9. Filled(r)
  BY <1>1 DEF Trees, Filled
<1>10. Downward(r, left)
  <2> SUFFICES ASSUME NEW t \in left, NEW l \in Levels, NEW j \in Slots, NEW p \in Nos(l),
                      IsTable(r, t, l, p), Ent(r, t, l, p, j).kind = "table"
               PROVE  /\ l # 0
                      /\ Own(t, l, j) => /\ Ent(r, t, l, p, j) = TableEntry(Home(t, l - 1, Sub(p, j)))
                                         /\ IsTable(r, t, l - 1, Sub(p, j))
    BY DEF Downward
  <2>1. IsTable(m, t, l, p) /\ Ent(r, t, l, p, j) = Ent(m, t, l, p, j)
    BY <1>3, <1>5
  <2>2. /\ l # 0
        /\ Own(t, l, j) => /\ Ent(m, t, l, p, j) = TableEntry(Home(t, l - 1, Sub(p, j)))
                           /\ IsTable(m, t, l - 1, Sub(p, j))
    BY <2>1 DEF Trees, Downward
  <2>3. l - 1 \in Levels /\ Sub(p, j) \in Nos(l - 1)
    BY <2>2, Numbers DEF Levels, TopLevel
  <2> QED
    BY <2>1, <2>2, <2>3, <1>3
<1>11. Upward(r, left)
  <2> SUFFICES ASSUME NEW t \in left, NEW l \in 0..2, NEW p \in Nos(l), IsTable(r, t, l, p)
               PROVE  /\ IsTable(r, t, l + 1, Up(p))
                      /\ Ent(r, t, l + 1, Up(p), At(p)) = TableEntry(Home(t, l, p))
                      /\ Own(t, l + 1, At(p))
    BY DEF Upward
  <2>1. l \in Levels /\ l + 1 \in Levels /\ Up(p) \in Nos(l + 1) /\ At(p) \in Slots
    BY Numbers DEF Levels, TopLevel
  <2>2. /\ IsTable(m, t, l + 1, Up(p))
        /\ Ent(m, t, l + 1, Up(p), At(p)) = TableEntry(Home(t, l, p))
        /\ Own(t, l + 1, At(p))
    BY <2>1, <1>3 DEF Trees, Upward
  <2> QED
    BY <2>1, <2>2, <1>3, <1>5
<1>12. Shared(r, left)
  BY <1>5, <1>6 DEF Trees, Rooted, Shared
<1>13. Plain(r, left)
  BY <1>3, <1>5 DEF Trees, Plain
<1>14. \A t \in left, l \in Levels : \A n \in Nos(l) :
          IsTable(m, t, l, n) => IsTable(r, t, l, n) /\ r[Home(t, l, n)] = m[Home(t, l, n)]
  BY <1>1, <1>3 DEF IsTable
<1> QED
  BY <1>1, <1>2, <1>7, <1>8, <1>9, <1>10, <1>11, <1>12, <1>13, <1>14 DEF Trees, r

-----------------------------------------------------------------------------
(* What a walk finds. *)

\* The number of the table of level l that translates va, and the entry in it.
No(va, l) == va \div Span(l + 1)
Step(m, s, va, l) == Ent(m, s, l, No(va, l), pt_index(va, l))
Seen(m, s, va) == Translate(m, Home(s, 3, 0), va)

LEMMA Path ==
    ASSUME NEW va \in AllVa
    PROVE  /\ \A l \in Levels : No(va, l) \in Nos(l) /\ pt_index(va, l) \in Slots
           /\ \A l \in Levels : va \div Span(l) = Sub(No(va, l), pt_index(va, l))
           /\ \A l \in 0..2 : /\ No(va, l) = Sub(No(va, l + 1), pt_index(va, l + 1))
                              /\ Up(No(va, l)) = No(va, l + 1) /\ At(No(va, l)) = pt_index(va, l + 1)
           /\ No(va, 3) = 0
           /\ va \in UserVa <=> pt_index(va, 3) \in UserSlots
<1>1. \A l \in Levels : l \in 0..3
  BY DEF Levels, TopLevel
<1>2. \A l \in Levels : No(va, l) \in Nos(l) /\ pt_index(va, l) \in Slots
                        /\ va \div Span(l) = Sub(No(va, l), pt_index(va, l))
  BY VaFacts DEF No, Sub
<1>3. ASSUME NEW l \in 0..2
      PROVE  /\ No(va, l) = Sub(No(va, l + 1), pt_index(va, l + 1))
             /\ Up(No(va, l)) = No(va, l + 1) /\ At(No(va, l)) = pt_index(va, l + 1)
  <2>1. l + 1 \in Levels
    BY DEF Levels, TopLevel
  <2> QED
    BY <2>1, VaFacts DEF No, Sub, Up, At
<1>4. No(va, 3) = 0
  <2>1. 3 \in Levels
    BY DEF Levels, TopLevel
  <2> QED
    BY <2>1, <1>2, Numbers
<1>5. va \in UserVa <=> pt_index(va, 3) \in UserSlots
  <2>1. 3 \in Levels /\ 3 \in 0..4 /\ 3 - 1 = 2
    BY DEF Levels, TopLevel
  <2>2. pt_index(va, 3) \in Nat /\ pt_index(va, 3) = va \div Span(3)
    <3>1. va \div Span(3) \in Nos(2) /\ pt_index(va, 3) = At(va \div Span(3))
      BY <2>1, VaFacts DEF At
    <3>2. Slots \subseteq Nat
      BY FanoutFacts
    <3> QED
      BY <3>1, <3>2, <1>2, <2>1, Numbers
  <2>3. Span(3) \in Nat \ {0} /\ Half \in Nat \ {0} /\ va \in Nat /\ UserSlots = 0..(Half - 1)
        /\ UserVa = 0..(Half * Span(3) - 1)
    <3>1. Span(4) \in Nat
      BY SpanFacts
    <3> QED
      BY <2>1, <3>1, SpanFacts, FanoutFacts, UserFacts
  <2>4. Half * Span(3) \in Nat /\ (va < Half * Span(3) <=> va \div Span(3) < Half)
    BY <2>3, DivideLess
  <2> QED
    BY <2>2, <2>3, <2>4
<1> QED
  BY <1>2, <1>3, <1>4, <1>5

\* The walk for a page of the space itself, not of the half it shares.
Walks(s, va) == s = Kernel \/ va \in UserVa

LEMMA Chain ==
    ASSUME NEW m, NEW live, Trees(m, live), NEW s \in live, NEW va \in AllVa, Walks(s, va)
    PROVE  /\ IsTable(m, s, 3, No(va, 3))
           /\ \A l \in 0..2 :
                 /\ IsTable(m, s, l, No(va, l)) => IsTable(m, s, l + 1, No(va, l + 1))
                 /\ IsTable(m, s, l, No(va, l)) =>
                       Step(m, s, va, l + 1) = TableEntry(Home(s, l, No(va, l)))
                 /\ IsTable(m, s, l + 1, No(va, l + 1)) /\ Step(m, s, va, l + 1).kind = "table" =>
                       IsTable(m, s, l, No(va, l)) /\ Step(m, s, va, l + 1).to = Home(s, l, No(va, l))
           /\ IsTable(m, s, 0, No(va, 0)) => Step(m, s, va, 0).kind # "table"
<1>1. IsTable(m, s, 3, No(va, 3))
  BY Path DEF Trees, Rooted
<1>2. ASSUME NEW l \in 0..2
      PROVE  /\ IsTable(m, s, l, No(va, l)) => IsTable(m, s, l + 1, No(va, l + 1))
             /\ IsTable(m, s, l, No(va, l)) => Step(m, s, va, l + 1) = TableEntry(Home(s, l, No(va, l)))
             /\ IsTable(m, s, l + 1, No(va, l + 1)) /\ Step(m, s, va, l + 1).kind = "table" =>
                   IsTable(m, s, l, No(va, l)) /\ Step(m, s, va, l + 1).to = Home(s, l, No(va, l))
  <2>1. l \in Levels /\ l + 1 \in Levels /\ (l + 1) - 1 = l
    BY DEF Levels, TopLevel
  <2>2. /\ No(va, l) \in Nos(l) /\ No(va, l + 1) \in Nos(l + 1) /\ pt_index(va, l + 1) \in Slots
        /\ No(va, l) = Sub(No(va, l + 1), pt_index(va, l + 1))
        /\ Up(No(va, l)) = No(va, l + 1) /\ At(No(va, l)) = pt_index(va, l + 1)
    BY <2>1, Path
  <2>3. Own(s, l + 1, pt_index(va, l + 1))
    BY Path DEF Own, Walks
  <2> QED
    BY <2>1, <2>2, <2>3, Kinds DEF Trees, Upward, Downward, Step
<1>3. IsTable(m, s, 0, No(va, 0)) => Step(m, s, va, 0).kind # "table"
  <2>1. 0 \in Levels
    BY DEF Levels, TopLevel
  <2> QED
    BY <2>1, Path DEF Trees, Downward, Step
<1> QED
  BY <1>1, <1>2, <1>3

\* The walk ends at the first entry that is no table.
LEMMA Reach ==
    ASSUME NEW m, NEW live, Trees(m, live), NEW s \in live, NEW va \in AllVa, Walks(s, va)
    PROVE  /\ \A l \in Levels : IsTable(m, s, l, No(va, l)) /\ Step(m, s, va, l).kind # "table" =>
                                   Seen(m, s, va) = Found(Step(m, s, va, l), va, l)
           /\ \E l \in Levels : IsTable(m, s, l, No(va, l)) /\ Step(m, s, va, l).kind # "table"
<1> DEFINE e3 == m[Home(s, 3, 0)][pt_index(va, 3)]
           e2 == m[e3.to][pt_index(va, 2)]
           e1 == m[e2.to][pt_index(va, 1)]
           e0 == m[e1.to][pt_index(va, 0)]
<1>1. Seen(m, s, va) = IF e3.kind # "table" THEN Found(e3, va, 3)
                       ELSE IF e2.kind # "table" THEN Found(e2, va, 2)
                       ELSE IF e1.kind # "table" THEN Found(e1, va, 1)
                       ELSE Found(e0, va, 0)
  BY DEF Seen, Translate
<1>2. e3 = Step(m, s, va, 3) /\ IsTable(m, s, 3, No(va, 3))
  BY Path, Chain DEF Step, Ent
<1>3. 0 + 1 = 1 /\ 1 + 1 = 2 /\ 2 + 1 = 3 /\ 0 \in 0..2 /\ 1 \in 0..2 /\ 2 \in 0..2
  OBVIOUS
<1> HIDE DEF e3
<1>4. e3.kind = "table" => IsTable(m, s, 2, No(va, 2)) /\ e2 = Step(m, s, va, 2)
  BY <1>2, <1>3, Chain DEF Step, Ent
<1>5. IsTable(m, s, 2, No(va, 2)) => e3.kind = "table"
  BY <1>2, <1>3, Chain, Kinds
<1> HIDE DEF e2
<1>6. e3.kind = "table" /\ e2.kind = "table" => IsTable(m, s, 1, No(va, 1)) /\ e1 = Step(m, s, va, 1)
  BY <1>3, <1>4, Chain DEF Step, Ent
<1>7. IsTable(m, s, 1, No(va, 1)) => e3.kind = "table" /\ e2.kind = "table"
  BY <1>3, <1>4, <1>5, Chain, Kinds
<1> HIDE DEF e1
<1>8. e3.kind = "table" /\ e2.kind = "table" /\ e1.kind = "table" =>
         IsTable(m, s, 0, No(va, 0)) /\ e0 = Step(m, s, va, 0)
  BY <1>3, <1>6, Chain DEF Step, Ent
<1>9. IsTable(m, s, 0, No(va, 0)) => e3.kind = "table" /\ e2.kind = "table" /\ e1.kind = "table"
  BY <1>3, <1>6, <1>7, Chain, Kinds
<1>10. IsTable(m, s, 0, No(va, 0)) => Step(m, s, va, 0).kind # "table"
  BY Chain
<1> HIDE DEF e0
<1>11. 0 \in Levels /\ 1 \in Levels /\ 2 \in Levels /\ 3 \in Levels
       /\ \A l \in Levels : l = 0 \/ l = 1 \/ l = 2 \/ l = 3
  BY DEF Levels, TopLevel
<1>12. ASSUME NEW l \in Levels, IsTable(m, s, l, No(va, l)), Step(m, s, va, l).kind # "table"
       PROVE  Seen(m, s, va) = Found(Step(m, s, va, l), va, l)
  <2>1. CASE l = 3
    BY <2>1, <1>1, <1>2, <1>12
  <2>2. CASE l = 2
    BY <2>2, <1>1, <1>4, <1>5, <1>12
  <2>3. CASE l = 1
    BY <2>3, <1>1, <1>6, <1>7, <1>12
  <2>4. CASE l = 0
    BY <2>4, <1>1, <1>8, <1>9, <1>12
  <2> QED
    BY <2>1, <2>2, <2>3, <2>4, <1>11
<1>13. \E l \in Levels : IsTable(m, s, l, No(va, l)) /\ Step(m, s, va, l).kind # "table"
  <2>1. CASE e3.kind # "table"
    BY <2>1, <1>2, <1>11
  <2>2. CASE e3.kind = "table" /\ e2.kind # "table"
    BY <2>2, <1>4, <1>11
  <2>3. CASE e3.kind = "table" /\ e2.kind = "table" /\ e1.kind # "table"
    BY <2>3, <1>6, <1>11
  <2>4. CASE e3.kind = "table" /\ e2.kind = "table" /\ e1.kind = "table"
    BY <2>4, <1>8, <1>10, <1>11
  <2> QED
    BY <2>1, <2>2, <2>3, <2>4
<1> QED
  BY <1>12, <1>13

\* The half that all spaces share.
LEMMA KernelHalf ==
    ASSUME NEW m, NEW live, LiveSet(live), Trees(m, live), NEW s \in live, NEW va \in AllVa, va \notin UserVa
    PROVE  Seen(m, s, va) = Seen(m, Kernel, va)
<1>1. pt_index(va, 3) \in Slots \ UserSlots
  <2>1. 3 \in Levels
    BY DEF Levels, TopLevel
  <2> QED
    BY <2>1, Path
<1>2. m[Home(s, 3, 0)][pt_index(va, 3)] = m[Home(Kernel, 3, 0)][pt_index(va, 3)]
  BY <1>1 DEF Trees, Shared, Ent
<1> QED
  BY <1>2, Zenon DEF Seen, Translate

LEMMA SameSeen ==
    ASSUME NEW m, NEW r, NEW before, NEW after, Trees(m, before), Trees(r, after),
           NEW s \in before, s \in after, NEW va \in AllVa, Walks(s, va),
           \A l \in Levels : IsTable(m, s, l, No(va, l)) =>
                                IsTable(r, s, l, No(va, l)) /\ Step(r, s, va, l) = Step(m, s, va, l)
    PROVE  Seen(r, s, va) = Seen(m, s, va)
<1>1. PICK l \in Levels : IsTable(m, s, l, No(va, l)) /\ Step(m, s, va, l).kind # "table"
  BY Reach
<1>2. Seen(m, s, va) = Found(Step(m, s, va, l), va, l)
  BY <1>1, Reach
<1>3. IsTable(r, s, l, No(va, l)) /\ Step(r, s, va, l) = Step(m, s, va, l)
  BY <1>1
<1>4. Seen(r, s, va) = Found(Step(r, s, va, l), va, l)
  BY <1>1, <1>3, Reach
<1> QED
  BY <1>2, <1>3, <1>4

\* What stands for the entry e of level q + 1 in a table of level q.
Stands(e, q, es) ==
    \/ e = Absent /\ es = NoEntries
    \/ e.kind = "leaf" /\ es = Parts(e, q + 1)

LEMMA StandsFacts ==
    ASSUME NEW q \in 0..2, NEW e, IsEntry(e), NEW es, Stands(e, q, es), NEW va \in AllVa
    PROVE  /\ DOMAIN es = Slots /\ es = [j \in Slots |-> es[j]] /\ e.kind # "table"
           /\ \A j \in Slots : IsEntry(es[j]) /\ es[j].kind # "table"
           /\ e = Absent => \A j \in Slots : es[j] = Absent
           /\ Found(es[pt_index(va, q)], va, q) = Found(e, va, q + 1)
<1>1. q \in Levels /\ (q + 1) - 1 = q /\ q \in 0..4
  BY DEF Levels, TopLevel
<1>2. pt_index(va, q) \in Slots /\ Slots \subseteq Nat
  BY <1>1, Path, FanoutFacts
<1>3. CASE e = Absent /\ es = NoEntries
  BY <1>2, <1>3, Kinds DEF NoEntries, IsEntry, Found
<1>4. CASE e.kind = "leaf" /\ es = Parts(e, q + 1)
  <2>1. e = Leaf(e.to, e.rights) /\ e.to \in Nat /\ e.rights \in Rights /\ e # Absent
    BY <1>4, KindFacts
  <2>2. PICK w \in Nat \ {0} : w = Span(q)
    BY <1>1, SpanFacts
  <2>3. es = [j \in Slots |-> Leaf(e.to + j * w, e.rights)]
    BY <1>1, <1>4, <2>2 DEF Parts
  <2>4. \A j \in Slots : e.to + j * w \in Nat
    <3>1. \A j \in Slots : j * w \in Nat
      BY <1>2
    <3> QED
      BY <3>1, <2>1
  <2>5. \A j \in Slots : IsEntry(es[j]) /\ es[j].kind = "leaf" /\ es[j].to = e.to + j * w /\ es[j].rights = e.rights
    BY <2>1, <2>3, <2>4, Kinds DEF IsEntry
  <2>6. PICK x \in Nat, y \in Nat : x = pt_index(va, q) /\ y = va % Span(q) /\ va % Span(q + 1) = w * x + y
    <3>1. va % Span(q + 1) = Span(q) * pt_index(va, q) + (va % Span(q))
      BY <1>1, VaFacts
    <3>2. va \in Nat
      <4>1. Span(4) \in Nat
        BY SpanFacts
      <4> QED
        BY <4>1, UserFacts
    <3>3. va % Span(q) \in Nat
      BY <3>2, <2>2, DivideFacts
    <3> QED
      BY <3>1, <3>3, <1>2, <2>2
  <2>7. (e.to + x * w) + y = e.to + (w * x + y)
    <3>1. x * w = w * x /\ w * x \in Nat
      OBVIOUS
    <3> QED
      BY <3>1, <2>1
  <2>8. Found(es[pt_index(va, q)], va, q) = [frame |-> (e.to + x * w) + y, rights |-> e.rights]
    BY <1>2, <2>5, <2>6 DEF Found
  <2>9. Found(e, va, q + 1) = [frame |-> e.to + (w * x + y), rights |-> e.rights]
    BY <1>4, <2>6 DEF Found
  <2> QED
    BY <2>1, <2>3, <2>5, <2>7, <2>8, <2>9, <1>4
<1> QED
  BY <1>3, <1>4 DEF Stands

\* Slot k of a table of level q + 1 may be given a table with the contents es, which
\* stand for what is in the slot; what comes of it.
Splits(m, live, s, q, n, k, es) ==
    /\ LiveSet(live) /\ Trees(m, live) /\ s \in live /\ q \in 0..2 /\ n \in Nos(q + 1) /\ k \in Slots
    /\ q + 1 = 3 => k \in UserSlots
    /\ IsTable(m, s, q + 1, n) /\ Stands(Ent(m, s, q + 1, n, k), q, es)
    /\ s # Kernel => Ent(m, s, q + 1, n, k) = Absent

HasSplit(m, live, s, q, n, k, es) ==
    LET f == Home(s, q, Sub(n, k))
        r == Link(m, Home(s, q + 1, n), k, f, es)
    IN  /\ f \notin DOMAIN m
        /\ Trees(r, live)
        /\ DOMAIN r = DOMAIN m \cup {f} /\ r[f] = es
        /\ \A t \in live, l \in Levels, j \in Slots : \A p \in Nos(l) :
              IsTable(m, t, l, p) =>
                 Ent(r, t, l, p, j) = IF t = s /\ l = q + 1 /\ p = n /\ j = k
                                      THEN TableEntry(f) ELSE Ent(m, t, l, p, j)
        /\ \A t \in live, va \in AllVa : Seen(r, t, va) = Seen(m, t, va)

\* A table takes the place of an absent entry or of a large leaf: nobody sees it.
LEMMA LinkSeen ==
    ASSUME NEW m, NEW live, NEW s, NEW q, NEW n, NEW k, NEW es, Splits(m, live, s, q, n, k, es)
    PROVE  HasSplit(m, live, s, q, n, k, es)
<1> DEFINE f == Home(s, q, Sub(n, k))
           e == Ent(m, s, q + 1, n, k)
           r == Link(m, Home(s, q + 1, n), k, f, es)
<1>0. /\ LiveSet(live) /\ Trees(m, live) /\ s \in live /\ q \in 0..2 /\ n \in Nos(q + 1) /\ k \in Slots
      /\ q + 1 = 3 => k \in UserSlots
      /\ IsTable(m, s, q + 1, n) /\ Stands(e, q, es)
      /\ s # Kernel => e = Absent
  BY DEF Splits
<1> USE <1>0
<1>1. q \in Levels /\ q + 1 \in Levels /\ (q + 1) - 1 = q /\ q + 1 # 0 /\ q # q + 1
  BY DEF Levels, TopLevel
<1>2. Sub(n, k) \in Nos(q) /\ Up(Sub(n, k)) = n /\ At(Sub(n, k)) = k
  BY <1>1, Numbers
<1>3. IsEntry(e)
  BY DEF Trees, Filled, IsTable, Ent
<1>4. 0 \in AllVa
  <2>1. Span(4) \in Nat \ {0}
    BY SpanFacts
  <2>2. 0 \in 0..(Span(4) - 1)
    BY <2>1
  <2> QED
    BY <2>2, UserFacts
<1>5. /\ DOMAIN es = Slots /\ es = [j \in Slots |-> es[j]] /\ e.kind # "table"
      /\ \A j \in Slots : IsEntry(es[j]) /\ es[j].kind # "table"
      /\ e = Absent => \A j \in Slots : es[j] = Absent
  BY <1>3, <1>4, StandsFacts
<1>6. /\ f \notin DOMAIN m
      /\ Trees(r, live)
      /\ DOMAIN r = DOMAIN m \cup {f} /\ r[f] = es
      /\ \A t \in live, l \in Levels, j \in Slots : \A p \in Nos(l) :
            IsTable(m, t, l, p) =>
               Ent(r, t, l, p, j) = IF t = s /\ l = q + 1 /\ p = n /\ j = k
                                    THEN TableEntry(f) ELSE Ent(m, t, l, p, j)
  <2>1. Ent(m, s, q + 1, n, k).kind # "table"
    BY <1>5
  <2>2. s # Kernel => \A j \in Slots : es[j] = Absent
    BY <1>5
  <2>3. DOMAIN es = Slots /\ es = [j \in Slots |-> es[j]]
    BY <1>5
  <2>4. \A j \in Slots : IsEntry(es[j]) /\ es[j].kind # "table"
    BY <1>5
  <2> HIDE DEF e
  <2> QED
    <3>1. Linkable(m, live, s, q, n, k, es)
      BY <2>1, <2>2, <2>3, <2>4, Zenon DEF Linkable
    <3>2. Linked(m, live, s, q, n, k, es)
      BY <3>1, LinkKeeps
    <3> QED
      BY <3>2 DEF Linked
<1> HIDE DEF r, f, e
<1>7. ASSUME NEW t \in live, NEW va \in AllVa, Walks(t, va) PROVE Seen(r, t, va) = Seen(m, t, va)
  <2>1. \A l \in Levels : IsTable(m, t, l, No(va, l)) => IsTable(r, t, l, No(va, l))
    BY <1>6 DEF IsTable
  <2>2. \A l \in Levels : No(va, l) \in Nos(l) /\ pt_index(va, l) \in Slots
    BY Path
  <2>3. CASE ~(t = s /\ No(va, q + 1) = n /\ pt_index(va, q + 1) = k)
    <3>1. \A l \in Levels : IsTable(m, t, l, No(va, l)) => Step(r, t, va, l) = Step(m, t, va, l)
      BY <2>2, <2>3, <1>6 DEF Step
    <3> QED
      BY <2>1, <3>1, <1>6, <1>7, SameSeen
  <2>4. CASE t = s /\ No(va, q + 1) = n /\ pt_index(va, q + 1) = k
    <3>1. IsTable(m, s, q + 1, No(va, q + 1)) /\ Step(m, s, va, q + 1) = e
      BY <2>4 DEF Step, e
    <3>2. Seen(m, s, va) = Found(e, va, q + 1)
      BY <3>1, <2>4, <1>1, <1>5, <1>7, Reach
    <3>3. No(va, q) = Sub(n, k)
      BY <2>4, Path
    <3>4. IsTable(r, s, q, No(va, q)) /\ Step(r, s, va, q) = es[pt_index(va, q)]
      BY <3>3, <1>6 DEF IsTable, Step, Ent, f
    <3>5. es[pt_index(va, q)].kind # "table"
      BY <1>1, <1>5, <2>2
    <3>6. Seen(r, s, va) = Found(es[pt_index(va, q)], va, q)
      BY <3>4, <3>5, <2>4, <1>1, <1>6, <1>7, Reach
    <3>7. Found(es[pt_index(va, q)], va, q) = Found(e, va, q + 1)
      BY <1>3, StandsFacts DEF e
    <3> QED
      BY <3>2, <3>6, <3>7, <2>4
  <2> QED
    BY <2>3, <2>4
<1>8. ASSUME NEW t \in live, NEW va \in AllVa PROVE Seen(r, t, va) = Seen(m, t, va)
  <2>1. CASE Walks(t, va)
    BY <2>1, <1>7
  <2>2. CASE ~Walks(t, va)
    <3>1. Kernel \in live /\ Walks(Kernel, va) /\ va \notin UserVa
      BY <2>2 DEF Walks, LiveSet
    <3> QED
      BY <3>1, <1>6, <1>7, KernelHalf
  <2> QED
    BY <2>1, <2>2
<1> QED
  BY <1>6, <1>8 DEF r, f, HasSplit

\* A change of page va in the tables of space s is seen in space t.
Sees(s, t, va) == t = s \/ va \notin UserVa

\* An entry of the last level changes: one page is seen to change, of one space or of
\* the half that all share.
LEMMA PutSeen ==
    ASSUME NEW m, NEW live, LiveSet(live), Trees(m, live), NEW s \in live, NEW va \in AllVa,
           Walks(s, va), IsTable(m, s, 0, No(va, 0)), NEW e, IsEntry(e), e.kind # "table",
           s # Kernel /\ e.kind = "leaf" => e.to \in PagesOf(s)
    PROVE  LET r == Put(m, Home(s, 0, No(va, 0)), pt_index(va, 0), e)
           IN  /\ Trees(r, live) /\ DOMAIN r = DOMAIN m
               /\ \A t \in live, l \in Levels, j \in Slots : \A p \in Nos(l) :
                     IsTable(m, t, l, p) =>
                        Ent(r, t, l, p, j) = IF t = s /\ l = 0 /\ p = No(va, 0) /\ j = pt_index(va, 0)
                                             THEN e ELSE Ent(m, t, l, p, j)
               /\ \A t \in live : Sees(s, t, va) => Seen(r, t, va) = Found(e, va, 0)
               /\ \A t \in live, wa \in AllVa : ~(Sees(s, t, va) /\ wa = va) => Seen(r, t, wa) = Seen(m, t, wa)
<1> DEFINE n == No(va, 0)
           k == pt_index(va, 0)
           r == Put(m, Home(s, 0, n), k, e)
<1>1. 0 \in Levels
  BY DEF Levels, TopLevel
<1>2. n \in Nos(0) /\ k \in Slots
  BY <1>1, Path
<1>3. /\ Trees(r, live) /\ DOMAIN r = DOMAIN m
      /\ \A t \in live, l \in Levels, j \in Slots : \A p \in Nos(l) :
            IsTable(m, t, l, p) =>
               Ent(r, t, l, p, j) = IF t = s /\ l = 0 /\ p = n /\ j = k THEN e ELSE Ent(m, t, l, p, j)
  BY <1>2, PutKeeps
<1> HIDE DEF r
<1>4. \A t, l, p : IsTable(m, t, l, p) => IsTable(r, t, l, p)
  BY <1>3 DEF IsTable
<1>5. Seen(r, s, va) = Found(e, va, 0)
  <2>1. Step(r, s, va, 0) = e /\ IsTable(r, s, 0, No(va, 0))
    BY <1>1, <1>2, <1>3, <1>4 DEF Step
  <2> QED
    BY <2>1, <1>1, <1>3, Reach
<1>6. ASSUME NEW wa \in AllVa, No(wa, 0) = n, pt_index(wa, 0) = k PROVE wa = va
  <2>1. wa \div Span(0) = va \div Span(0)
    BY <1>1, <1>6, Path
  <2>2. wa \in Nat /\ va \in Nat
    <3>1. Span(4) \in Nat
      BY SpanFacts
    <3> QED
      BY <3>1, <1>1, UserFacts
  <2>3. Span(0) = 1
    BY SpanFacts
  <2>4. wa \div 1 = wa /\ va \div 1 = va
    BY <2>2
  <2> QED
    BY <2>1, <2>3, <2>4
<1>7. ASSUME NEW t \in live, NEW wa \in AllVa, Walks(t, wa), ~(t = s /\ wa = va)
      PROVE  Seen(r, t, wa) = Seen(m, t, wa)
  <2>1. \A l \in Levels : No(wa, l) \in Nos(l) /\ pt_index(wa, l) \in Slots
    BY Path
  <2>2. \A l \in Levels : IsTable(m, t, l, No(wa, l)) => Step(r, t, wa, l) = Step(m, t, wa, l)
    BY <2>1, <1>3, <1>6, <1>7 DEF Step
  <2> QED
    BY <2>2, <1>3, <1>4, <1>7, SameSeen
<1>8. ASSUME NEW t \in live, NEW wa \in AllVa, ~(Sees(s, t, va) /\ wa = va)
      PROVE  Seen(r, t, wa) = Seen(m, t, wa)
  <2>1. CASE Walks(t, wa)
    BY <2>1, <1>7, <1>8 DEF Sees
  <2>2. CASE ~Walks(t, wa)
    <3>1. Kernel \in live /\ Walks(Kernel, wa) /\ wa \notin UserVa /\ wa # va
      BY <2>2, <1>8 DEF Walks, LiveSet, Sees
    <3> QED
      BY <3>1, <1>3, <1>7, KernelHalf
  <2> QED
    BY <2>1, <2>2
<1>9. ASSUME NEW t \in live, Sees(s, t, va) PROVE Seen(r, t, va) = Found(e, va, 0)
  <2>1. CASE t = s
    BY <2>1, <1>5
  <2>2. CASE t # s
    <3>1. va \notin UserVa /\ s = Kernel
      BY <2>2, <1>9 DEF Sees, Walks
    <3> QED
      BY <3>1, <1>3, <1>5, KernelHalf
  <2> QED
    BY <2>1, <2>2
<1> QED
  BY <1>3, <1>8, <1>9 DEF r

\* The tables of the spaces of `keep' are as they were.
Untouched(m, r, keep) ==
    \A t \in keep, l \in Levels : \A n \in Nos(l) :
        IsTable(m, t, l, n) => IsTable(r, t, l, n) /\ r[Home(t, l, n)] = m[Home(t, l, n)]

\* Every space sees the same in m and r; in its user half.
SeesSame(m, r, live) == \A t \in live, va \in AllVa : Seen(r, t, va) = Seen(m, t, va)
SeesUser(m, r, live) == \A t \in live, va \in UserVa : Seen(r, t, va) = Seen(m, t, va)

LEMMA LinkTouches ==
    ASSUME NEW m, NEW live, LiveSet(live), Trees(m, live), NEW s \in live,
           NEW q \in 0..2, NEW n \in Nos(q + 1), NEW k \in Slots, NEW es
    PROVE  Untouched(m, Link(m, Home(s, q + 1, n), k, Home(s, q, Sub(n, k)), es), live \ {s})
<1> DEFINE f == Home(s, q, Sub(n, k))
           h == Home(s, q + 1, n)
           r == Link(m, h, k, f, es)
<1>1. SUFFICES ASSUME NEW t \in live \ {s}, NEW l \in Levels, NEW p \in Nos(l), IsTable(m, t, l, p)
               PROVE  IsTable(r, t, l, p) /\ r[Home(t, l, p)] = m[Home(t, l, p)]
  BY DEF Untouched
<1>2. q + 1 \in Levels /\ q \in Levels /\ (q + 1) - 1 = q
  BY DEF Levels, TopLevel
<1>3. Sub(n, k) \in Nos(q)
  BY <1>2, Numbers
<1>4. Home(t, l, p) # f /\ Home(t, l, p) # h
  BY <1>2, <1>3, ApartTables
<1> HIDE DEF f, h
<1>5. Home(t, l, p) \in DOMAIN m
  BY <1>1 DEF IsTable
<1> QED
  BY <1>4, <1>5 DEF IsTable, Link

-----------------------------------------------------------------------------
\* A walk for page va of space s that began with the tables m and has come to the
\* level, or to None.
WalkAt(w, m, live, s, va, l) ==
    /\ w = [mem |-> w.mem, table |-> w.table, budget |-> w.budget]
    /\ w.budget \in Nat
    /\ Trees(w.mem, live)
    /\ w.table # None => w.table = Home(s, l, No(va, l)) /\ IsTable(w.mem, s, l, No(va, l))
    /\ SeesSame(m, w.mem, live) /\ Untouched(m, w.mem, live \ {s})

\* The kernel half is entered by a root slot that the kernel uses.
Enters(m, s, va) == va \in UserVa \/ m[Home(s, 3, 0)][pt_index(va, 3)].kind = "table"

\* A walk for the process p, by the tables of their owner s.
LEMMA DownKeeps ==
    ASSUME NEW m, NEW live, LiveSet(live), NEW va \in AllVa, NEW p, NEW s \in live, s = Owner(p, va),
           NEW l \in 1..3, NEW w, WalkAt(w, m, live, s, va, l), l = 3 => Enters(w.mem, s, va),
           NEW adds \in BOOLEAN
    PROVE  WalkAt(Down(w, p, va, l, adds), m, live, s, va, l - 1)
<1> DEFINE k == pt_index(va, l)
           n == No(va, l)
           e == w.mem[w.table][k]
           f == Home(s, l - 1, va \div Span(l))
           d == Down(w, p, va, l, adds)
<1>1. CASE w.table = None
  BY <1>1 DEF Down, WalkAt
<1>2. CASE w.table # None
  <2>1. /\ w = [mem |-> w.mem, table |-> w.table, budget |-> w.budget] /\ w.budget \in Nat
        /\ Trees(w.mem, live) /\ w.table = Home(s, l, n) /\ IsTable(w.mem, s, l, n)
        /\ SeesSame(m, w.mem, live) /\ Untouched(m, w.mem, live \ {s})
    BY <1>2 DEF WalkAt
  <2>2. l \in Levels /\ l - 1 \in Levels /\ l - 1 \in 0..2 /\ (l - 1) + 1 = l
    BY DEF Levels, TopLevel
  <2>3. Walks(s, va)
    BY DEF Walks, Owner
  <2>4. /\ n \in Nos(l) /\ k \in Slots /\ va \div Span(l) = Sub(n, k) /\ va \div Span(l) = No(va, l - 1)
        /\ l = 3 => (va \in UserVa <=> k \in UserSlots)
    BY <2>2, Path
  <2>5. e = Ent(w.mem, s, l, n, k) /\ e = Step(w.mem, s, va, l) /\ IsEntry(e)
    BY <2>1, <2>4 DEF Ent, Step, Trees, Filled, IsTable
  <2>6. CASE e.kind = "table"
    <3>1. IsTable(w.mem, s, l - 1, No(va, l - 1)) /\ e.to = Home(s, l - 1, No(va, l - 1))
      BY <2>1, <2>2, <2>3, <2>5, <2>6, Chain
    <3>2. d = [w EXCEPT !.table = e.to]
      BY <1>2, <2>6 DEF Down
    <3> HIDE DEF d, e
    <3>3. d = [mem |-> w.mem, table |-> e.to, budget |-> w.budget]
      BY <3>2, <2>1
    <3> QED
      BY <3>1, <3>3, <2>1 DEF WalkAt, d
  <2>7. CASE e.kind # "table" /\ (w.budget = 0 \/ (e.kind = "absent" /\ ~adds))
    <3>1. d = [w EXCEPT !.table = None]
      BY <1>2, <2>7 DEF Down
    <3> HIDE DEF d, e
    <3>2. d = [mem |-> w.mem, table |-> None, budget |-> w.budget]
      BY <3>1, <2>1
    <3> QED
      BY <3>2, <2>1 DEF WalkAt, d
  <2>8. CASE e.kind # "table" /\ ~(w.budget = 0 \/ (e.kind = "absent" /\ ~adds))
    <3>0. l = 3 => k \in UserSlots
      <4>1. l = 3 => n = 0 /\ w.table = Home(s, 3, 0)
        BY <2>1, Path
      <4> QED
        BY <4>1, <2>4, <2>8 DEF Enters
    <3> DEFINE es == IF e.kind = "leaf" THEN Parts(e, l) ELSE NoEntries
               r == Link(w.mem, Home(s, l, n), k, Home(s, l - 1, Sub(n, k)), es)
    <3>1. d = [mem |-> r, table |-> f, budget |-> w.budget - 1]
      BY <1>2, <2>1, <2>4, <2>8 DEF Down
    <3>2. Stands(e, l - 1, es)
      BY <2>2, <2>5, <2>8, KindFacts DEF Stands
    <3>3. s # Kernel => e = Absent
      <4>1. Own(s, l, k)
        BY <3>0 DEF Own
      <4>2. e.kind = "leaf" /\ s # Kernel => l = 0
        BY <4>1, <2>1, <2>2, <2>4, <2>5 DEF Trees, Plain
      <4> QED
        BY <4>2, <2>5, <2>8, KindFacts
    <3> HIDE DEF es, e
    <3>4. /\ Home(s, l - 1, Sub(n, k)) \notin DOMAIN w.mem
          /\ Trees(r, live)
          /\ DOMAIN r = DOMAIN w.mem \cup {Home(s, l - 1, Sub(n, k))}
          /\ SeesSame(w.mem, r, live)
      <4>1. PICK q \in 0..2 : q = l - 1 /\ q + 1 = l
        BY <2>2
      <4> DEFINE h == Sub(n, k)
                 R == Link(w.mem, Home(s, q + 1, n), k, Home(s, q, h), es)
      <4>2. /\ n \in Nos(q + 1) /\ (q + 1 = 3 => k \in UserSlots)
            /\ IsTable(w.mem, s, q + 1, n) /\ e = Ent(w.mem, s, q + 1, n, k) /\ Stands(e, q, es)
        BY <4>1, <3>0, <3>2, <2>1, <2>4, <2>5
      <4> HIDE DEF n, k
      <4>3. Stands(Ent(w.mem, s, q + 1, n, k), q, es) /\ (s # Kernel => Ent(w.mem, s, q + 1, n, k) = Absent)
        BY <4>2, <3>3
      <4>4. /\ Home(s, q, h) \notin DOMAIN w.mem
            /\ Trees(R, live)
            /\ DOMAIN R = DOMAIN w.mem \cup {Home(s, q, h)}
            /\ \A t \in live, x \in AllVa : Seen(R, t, x) = Seen(w.mem, t, x)
        <5>1. Splits(w.mem, live, s, q, n, k, es)
          BY <4>2, <4>3, <2>1, <2>4 DEF Splits
        <5>2. HasSplit(w.mem, live, s, q, n, k, es)
          BY <5>1, LinkSeen
        <5> QED
          BY <5>2 DEF HasSplit
      <4> QED
        BY <4>1, <4>4 DEF SeesSame
    <3>5. Untouched(w.mem, r, live \ {s})
      BY <2>1, <2>2, <2>4, LinkTouches
    <3> HIDE DEF r, d
    <3>6. SeesSame(m, r, live) /\ Untouched(m, r, live \ {s})
      BY <3>4, <3>5, <2>1 DEF SeesSame, Untouched
    <3>7. f = Home(s, l - 1, No(va, l - 1)) /\ IsTable(r, s, l - 1, No(va, l - 1))
      BY <3>4, <2>4 DEF IsTable
    <3>8. w.budget - 1 \in Nat
      BY <2>1, <2>8
    <3> HIDE DEF f
    <3> QED
      BY <3>1, <3>4, <3>6, <3>7, <3>8 DEF WalkAt, d
  <2> QED
    BY <2>6, <2>7, <2>8
<1> QED
  BY <1>1, <1>2

LEMMA DescendKeeps ==
    ASSUME NEW live, LiveSet(live), Trees(mem, live), NEW p \in live, l4[p] = Home(p, 3, 0),
           NEW va \in AllVa, Enters(mem, Kernel, va), NEW budget \in Nat, NEW adds \in BOOLEAN
    PROVE  WalkAt(Descend(p, va, budget, adds), mem, live, Owner(p, va), va, 0)
<1> DEFINE s == Owner(p, va)
           w3 == [mem |-> mem, table |-> Home(s, 3, 0), budget |-> budget]
           v3 == [mem |-> mem, table |-> Home(p, 3, 0), budget |-> budget]
           w2 == Down(w3, p, va, 3, adds)
           w1 == Down(w2, p, va, 2, adds)
<1>0. s \in live /\ Enters(mem, s, va) /\ (s # p => va \notin UserVa /\ s = Kernel)
  BY DEF Owner, Enters, LiveSet
<1> HIDE DEF s
<1>1. WalkAt(w3, mem, live, s, va, 3)
  <2>1. No(va, 3) = 0
    BY Path
  <2>2. IsTable(mem, s, 3, 0)
    BY <1>0 DEF Trees, Rooted
  <2> QED
    BY <2>1, <2>2 DEF WalkAt, SeesSame, Untouched
\* The root of a process links the tables of the kernel half that the kernel's links.
<1>2. Down(v3, p, va, 3, adds) = w2
  <2>1. CASE s = p
    BY <2>1
  <2>2. CASE s # p
    <3>1. pt_index(va, 3) \in Slots \ UserSlots
      BY <2>2, <1>0, Path DEF Levels, TopLevel
    <3>2. mem[Home(p, 3, 0)][pt_index(va, 3)] = mem[Home(Kernel, 3, 0)][pt_index(va, 3)]
      BY <3>1 DEF Trees, Shared, Ent
    <3>3. mem[Home(Kernel, 3, 0)][pt_index(va, 3)].kind = "table"
      BY <2>2, <1>0 DEF Enters
    <3>4. Home(p, 3, 0) # None /\ Home(s, 3, 0) # None
      <4>1. p \in Nat /\ s \in Nat /\ None \notin Nat
        BY <1>0, PagingAssumption DEF LiveSet
      <4> QED
        BY <4>1, HomeFacts, Numbers
    <3> DEFINE to == mem[Home(Kernel, 3, 0)][pt_index(va, 3)].to
    <3>5. Down(v3, p, va, 3, adds) = [v3 EXCEPT !.table = to]
      BY <3>2, <3>3, <3>4 DEF Down
    <3>6. Down(w3, p, va, 3, adds) = [w3 EXCEPT !.table = to]
      BY <2>2, <1>0, <3>3, <3>4 DEF Down
    <3> QED
      BY <3>5, <3>6
  <2> QED
    BY <2>1, <2>2
<1>3. w3.mem = mem
  OBVIOUS
<1> HIDE DEF w3
<1>4. WalkAt(w2, mem, live, s, va, 2)
  BY <1>0, <1>1, <1>3, DownKeeps, 3 \in 1..3, 3 - 1 = 2 DEF s
<1> HIDE DEF w2
<1>5. WalkAt(w1, mem, live, s, va, 1)
  BY <1>0, <1>4, DownKeeps, 2 \in 1..3, 2 - 1 = 1 DEF s
<1> HIDE DEF w1
<1>6. WalkAt(Down(w1, p, va, 1, adds), mem, live, s, va, 0)
  BY <1>0, <1>5, DownKeeps, 1 \in 1..3, 1 - 1 = 0 DEF s
<1> QED
  BY <1>2, <1>6 DEF Descend, w1, s

-----------------------------------------------------------------------------
\* The same tables are seen the same.
LEMMA UntouchedSeen ==
    ASSUME NEW m, NEW r, NEW before, NEW after, LiveSet(before), LiveSet(after),
           Trees(m, before), Trees(r, after), NEW keep, keep \subseteq before, keep \subseteq after,
           Kernel \in keep, Untouched(m, r, keep)
    PROVE  SeesSame(m, r, keep)
<1>1. ASSUME NEW t \in keep, NEW va \in AllVa, Walks(t, va) PROVE Seen(r, t, va) = Seen(m, t, va)
  <2>1. t \in before /\ t \in after
    OBVIOUS
  <2>2. \A l \in Levels : No(va, l) \in Nos(l)
    BY Path
  <2>3. \A l \in Levels : IsTable(m, t, l, No(va, l)) =>
                             IsTable(r, t, l, No(va, l)) /\ Step(r, t, va, l) = Step(m, t, va, l)
    BY <2>2 DEF Untouched, Step, Ent
  <2> QED
    BY <1>1, <2>1, <2>3, SameSeen
<1>2. ASSUME NEW t \in keep, NEW va \in AllVa PROVE Seen(r, t, va) = Seen(m, t, va)
  <2>1. CASE Walks(t, va)
    BY <2>1, <1>1
  <2>2. CASE ~Walks(t, va)
    <3>1. Walks(Kernel, va) /\ va \notin UserVa
      BY <2>2 DEF Walks
    <3>2. Seen(r, t, va) = Seen(r, Kernel, va)
      BY <3>1, KernelHalf
    <3>3. Seen(m, t, va) = Seen(m, Kernel, va)
      BY <3>1, KernelHalf
    <3>4. Seen(r, Kernel, va) = Seen(m, Kernel, va)
      BY <3>1, <1>1
    <3> QED
      BY <3>2, <3>3, <3>4
  <2> QED
    BY <2>1, <2>2
<1> QED
  BY <1>2 DEF SeesSame

\* A new root: its space has the kernel's pages and no others.
LEMMA RootSeen ==
    ASSUME NEW m, NEW live, LiveSet(live), Trees(m, live), NEW s \in Nat, s \notin live
    PROVE  LET r == AddRoot(m, s)
           IN  /\ LiveSet(live \cup {s}) /\ Trees(r, live \cup {s})
               /\ Untouched(m, r, live) /\ SeesSame(m, r, live)
               /\ \A va \in AllVa : Seen(r, s, va) = IF va \in UserVa THEN None ELSE Seen(m, Kernel, va)
               /\ \A k \in UserSlots : Ent(r, s, 3, 0, k) = Absent
<1> DEFINE f == Home(s, 3, 0)
           r == AddRoot(m, s)
<1>1. /\ LiveSet(live \cup {s}) /\ Trees(r, live \cup {s})
      /\ f \notin DOMAIN m /\ DOMAIN r = DOMAIN m \cup {f}
      /\ \A u \in DOMAIN m : r[u] = m[u]
      /\ \A k \in Slots : Ent(r, s, 3, 0, k) = NewTable(m)[k]
  BY RootKeeps
<1> HIDE DEF r, f
<1>2. Untouched(m, r, live)
  BY <1>1 DEF Untouched, IsTable
<1>3. SeesSame(m, r, live)
  <2>1. live \subseteq live \cup {s} /\ live \subseteq live /\ Kernel \in live
    BY DEF LiveSet
  <2> QED
    BY <2>1, <1>1, <1>2, UntouchedSeen
<1>4. ASSUME NEW k \in UserSlots PROVE Ent(r, s, 3, 0, k) = Absent
  <2>1. k \in Slots
    BY FanoutFacts
  <2>2. Ent(r, s, 3, 0, k) = NewTable(m)[k]
    BY <2>1, <1>1
  <2> QED
    BY <2>1, <2>2 DEF NewTable
<1>5. ASSUME NEW va \in AllVa, va \in UserVa PROVE Seen(r, s, va) = None
  <2>1. 3 \in Levels /\ No(va, 3) = 0 /\ pt_index(va, 3) \in UserSlots /\ Walks(s, va)
    BY <1>5, Path DEF Levels, TopLevel, Walks
  <2>2. Step(r, s, va, 3) = Absent
    BY <2>1, <1>4 DEF Step
  <2>3. IsTable(r, s, 3, No(va, 3))
    BY <2>1, <1>1 DEF Trees, Rooted
  <2>4. Absent.kind # "table" /\ Absent.kind # "leaf"
    BY Kinds
  <2>5. Seen(r, s, va) = Found(Absent, va, 3)
    <3>1. s \in live \cup {s}
      OBVIOUS
    <3> QED
      BY <3>1, <2>1, <2>2, <2>3, <2>4, <1>1, Reach
  <2> QED
    BY <2>4, <2>5 DEF Found
<1>6. ASSUME NEW va \in AllVa, va \notin UserVa PROVE Seen(r, s, va) = Seen(m, Kernel, va)
  <2>1. Kernel \in live /\ s \in live \cup {s}
    BY DEF LiveSet
  <2>2. Seen(r, s, va) = Seen(r, Kernel, va)
    BY <2>1, <1>1, <1>6, KernelHalf
  <2> QED
    BY <2>1, <2>2, <1>3 DEF SeesSame
<1> QED
  BY <1>1, <1>2, <1>3, <1>4, <1>5, <1>6 DEF r

\* The tables of a space are freed: the others keep theirs.
LEMMA FreeSeen ==
    ASSUME NEW m, NEW live, LiveSet(live), Trees(m, live), NEW s \in live, s # Kernel
    PROVE  LET r == free_page_table(m, Home(s, 3, 0))
           IN  /\ LiveSet(live \ {s}) /\ Trees(r, live \ {s}) /\ DOMAIN r \subseteq DOMAIN m
               /\ Untouched(m, r, live \ {s}) /\ SeesSame(m, r, live \ {s})
<1> DEFINE r == free_page_table(m, Home(s, 3, 0))
<1>1. /\ LiveSet(live \ {s}) /\ Trees(r, live \ {s}) /\ DOMAIN r \subseteq DOMAIN m
      /\ Untouched(m, r, live \ {s})
  BY FreeKeeps DEF Untouched
<1> HIDE DEF r
<1>2. SeesSame(m, r, live \ {s})
  <2>1. live \ {s} \subseteq live /\ live \ {s} \subseteq live \ {s} /\ Kernel \in live \ {s}
    BY <1>1 DEF LiveSet
  <2> QED
    BY <2>1, <1>1, UntouchedSeen
<1> QED
  BY <1>1, <1>2 DEF r

\* The spaces that have tables.
Live == {Kernel} \cup {s \in Spaces : l4[s] # None} \cup (IF copy = None THEN {} ELSE {copy.to})

SpacesOk ==
    /\ DOMAIN l4 = Spaces \cup {Kernel} /\ l4 = [s \in Spaces \cup {Kernel} |-> l4[s]]
    /\ l4[Kernel] = Home(Kernel, 3, 0)
    /\ \A s \in Spaces : l4[s] # None => l4[s] = Home(s, 3, 0)

OwnedOk ==
    /\ DOMAIN owned = Spaces
    /\ \A s \in Spaces : owned[s] \subseteq {Home(s, -1, n) : n \in Nos(-1)}

\* The call for a level of the copy stands at a table of either space, with the slots
\* from `lo' on still empty in the new one.
CallOk(m, cp, c, l, lo) ==
    /\ c = [src |-> c.src, dst |-> c.dst, n |-> c.n, i |-> c.i]
    /\ c.n \in Nos(l) /\ c.i \in 0..Last(l)
    /\ c.src = Home(cp.from, l, c.n) /\ IsTable(m, cp.from, l, c.n)
    /\ c.dst = Home(cp.to, l, c.n) /\ IsTable(m, cp.to, l, c.n)
    /\ \A k \in Slots : k >= lo /\ k < Last(l) => Ent(m, cp.to, l, c.n, k) = Absent

\* The calls of the levels above the current one are in the entry that leads down.
NestOk(cp, cl) ==
    \A l \in 0..2 : l >= cp.level => cl[l].n = Number(cl[l + 1]) /\ cl[l + 1].i < Last(l + 1)

\* The page has been copied, or it was left out.
Done(m, cp, va) ==
    IF (SkipLo <= va /\ va < SkipHi) \/ Seen(m, cp.from, va) = None THEN Seen(m, cp.to, va) = None
    ELSE Seen(m, cp.to, va) = [frame |-> Home(cp.to, -1, va), rights |-> Seen(m, cp.from, va).rights]

\* So are the pages before the entry that the copy has come to.
DoneOk(m, cp, cl) ==
    \A va \in UserVa : va \div Span(cp.level) < Number(cl[cp.level]) => Done(m, cp, va)

CopyOk(m, cp, cl) ==
    /\ \A l \in Levels : l >= cp.level => CallOk(m, cp, cl[l], l, IF l = cp.level THEN cl[l].i ELSE cl[l].i + 1)
    /\ NestOk(cp, cl) /\ DoneOk(m, cp, cl)

CopyInv ==
    /\ DOMAIN call = Levels /\ call = [l \in Levels |-> call[l]]
    /\ copy # None => /\ copy \in [from : Spaces, to : Spaces, level : Levels]
                      /\ l4[copy.from] # None /\ l4[copy.to] = None
                      /\ CopyOk(mem, copy, call)

PtInv == SpacesOk /\ OwnedOk /\ Trees(mem, Live) /\ CopyInv /\ view = ViewOf(mem, l4)

-----------------------------------------------------------------------------
(* Views. *)

Everyone == Spaces \cup {Kernel}

\* What the spaces of `has' see.
Sights(m, has) ==
    [s \in Everyone |-> IF s \in has THEN [va \in AllVa |-> Seen(m, s, va)] ELSE None]

Has(roots) == {s \in Everyone : roots[s] # None}

LEMMA ViewIs ==
    ASSUME NEW m, NEW roots, \A s \in Everyone : roots[s] # None => roots[s] = Home(s, 3, 0)
    PROVE  ViewOf(m, roots) = Sights(m, Has(roots))
<1>1. ASSUME NEW s \in Everyone
      PROVE  (IF roots[s] = None THEN None ELSE [va \in UserVa \cup KernelVa |-> Translate(m, roots[s], va)])
             = (IF s \in Has(roots) THEN [va \in AllVa |-> Seen(m, s, va)] ELSE None)
  BY DEF Has, AllVa, Seen
<1> QED
  BY <1>1, Zenon DEF ViewOf, Sights, Everyone

Page == [frame : Nat, rights : Rights]

LEMMA PageFacts ==
    /\ None \notin Page /\ \A g \in [AllVa -> Page \cup {None}] : g # None
    /\ None \notin Nat /\ Spaces \subseteq Nat \ {0} /\ Kernel \in Nat /\ Kernel \notin Spaces
    /\ None \notin [from : Spaces, to : Spaces, level : Levels]
    /\ UserArgs \subseteq AllVa /\ KernelArgs \subseteq UserVa
    /\ Memory \subseteq 0..(Span(4) - 1)
    /\ SkipLo \in Nat /\ SkipHi \in 0..(Span(4) \div 2)
BY PagingAssumption DEF Page, AllVa, Kernel, TopLevel

LEMMA SeenType ==
    ASSUME NEW m, NEW live, LiveSet(live), Trees(m, live), NEW s \in live, NEW va \in AllVa
    PROVE  Seen(m, s, va) \in Page \cup {None}
<1>1. ASSUME NEW t \in live, Walks(t, va) PROVE Seen(m, t, va) \in Page \cup {None}
  <2>1. PICK l \in Levels : /\ IsTable(m, t, l, No(va, l))
                            /\ Seen(m, t, va) = Found(Step(m, t, va, l), va, l)
    BY <1>1, Reach
  <2>2. IsEntry(Step(m, t, va, l))
    <3>1. No(va, l) \in Nos(l) /\ pt_index(va, l) \in Slots
      BY Path
    <3> QED
      BY <2>1, <3>1 DEF Step, Ent, Trees, Filled, IsTable
  <2>3. va \in Nat /\ Span(l) \in Nat \ {0}
    <3>1. l \in 0..4 /\ 4 \in 0..4
      BY DEF Levels, TopLevel
    <3>2. Span(l) \in Nat \ {0} /\ Span(4) \in Nat
      BY <3>1, SpanFacts
    <3>3. va \in 0..(Span(4) - 1)
      BY UserFacts
    <3> QED
      BY <3>2, <3>3
  <2>4. va % Span(l) \in Nat
    BY <2>3, DivideFacts
  <2>5. CASE Step(m, t, va, l).kind = "leaf"
    <3> DEFINE e == Step(m, t, va, l)
    <3>1. e.to \in Nat /\ e.rights \in Rights
      BY <2>2, <2>5, KindFacts
    <3> HIDE DEF e
    <3>2. Seen(m, t, va) = [frame |-> e.to + (va % Span(l)), rights |-> e.rights]
      BY <2>1, <2>5 DEF Found, e
    <3> DEFINE x == va % Span(l)
    <3> HIDE DEF x
    <3>3. e.to + x \in Nat
      BY <3>1, <2>4 DEF x
    <3> QED
      BY <3>1, <3>2, <3>3 DEF Page, x
  <2>6. CASE Step(m, t, va, l).kind # "leaf"
    BY <2>1, <2>6 DEF Found
  <2> QED
    BY <2>5, <2>6
<1>2. CASE Walks(s, va)
  BY <1>1, <1>2
<1>3. CASE ~Walks(s, va)
  <2>1. Kernel \in live /\ Walks(Kernel, va) /\ va \notin UserVa
    BY <1>3 DEF Walks, LiveSet
  <2> QED
    BY <2>1, <1>1, KernelHalf
<1> QED
  BY <1>2, <1>3

\* Nothing is seen to change.
LEMMA SightsSame ==
    ASSUME NEW m, NEW r, NEW has, SeesSame(m, r, has) PROVE Sights(r, has) = Sights(m, has)
BY DEF Sights, SeesSame

\* Nobody in `has' sees a change but the spaces that share page va with s, in it.
OnePage(m, r, has, s, va, page) ==
    /\ va \in AllVa
    /\ \A t \in has : Sees(s, t, va) => Seen(r, t, va) = page
    /\ \A t \in has, wa \in AllVa : ~(Sees(s, t, va) /\ wa = va) => Seen(r, t, wa) = Seen(m, t, wa)

Changed(old, has, s, va, page) ==
    [t \in Everyone |-> IF t \in has /\ Sees(s, t, va) THEN [old[t] EXCEPT ![va] = page] ELSE old[t]]

LEMMA SightsPut ==
    ASSUME NEW m, NEW r, NEW has, NEW s, NEW va, NEW page, OnePage(m, r, has, s, va, page)
    PROVE  Sights(r, has) = Changed(Sights(m, has), has, s, va, page)
<1>1. ASSUME NEW t \in Everyone
      PROVE  Sights(r, has)[t] = IF t \in has /\ Sees(s, t, va) THEN [Sights(m, has)[t] EXCEPT ![va] = page]
                                 ELSE Sights(m, has)[t]
  <2>1. CASE t \in has /\ Sees(s, t, va)
    <3>1. Sights(m, has)[t] = [wa \in AllVa |-> Seen(m, t, wa)]
      BY <2>1 DEF Sights
    <3>2. [Sights(m, has)[t] EXCEPT ![va] = page] = [wa \in AllVa |-> Seen(r, t, wa)]
      BY <2>1, <3>1 DEF OnePage
    <3> QED
      BY <2>1, <3>2 DEF Sights
  <2>2. CASE t \in has /\ ~Sees(s, t, va)
    BY <2>2 DEF Sights, OnePage
  <2>3. CASE t \notin has
    BY <2>3 DEF Sights
  <2> QED
    BY <2>1, <2>2, <2>3
<1> QED
  BY <1>1 DEF Sights, Changed

\* A space appears.
LEMMA SightsNew ==
    ASSUME NEW m, NEW r, NEW has, NEW t \in Everyone, t \notin has, SeesSame(m, r, has)
    PROVE  /\ Sights(r, has \cup {t}) = [Sights(m, has) EXCEPT ![t] = [va \in AllVa |-> Seen(r, t, va)]]
           /\ Sights(m, has)[t] = None
BY DEF Sights, SeesSame

\* A space is dropped.
LEMMA SightsDrop ==
    ASSUME NEW m, NEW r, NEW has, NEW s \in Everyone, SeesSame(m, r, has \ {s})
    PROVE  Sights(r, has \ {s}) = [Sights(m, has) EXCEPT ![s] = None]
BY DEF Sights, SeesSame

LEMMA InvFacts ==
    ASSUME PtInv
    PROVE  /\ LiveSet(Live) /\ Has(l4) \subseteq Live /\ Kernel \in Has(l4)
           /\ \A s \in Everyone : l4[s] # None => l4[s] = Home(s, 3, 0)
           /\ view = Sights(mem, Has(l4))
           /\ Live = Has(l4) \cup (IF copy = None THEN {} ELSE {copy.to})
<1>1. \A s \in Everyone : l4[s] # None => l4[s] = Home(s, 3, 0)
  BY DEF PtInv, SpacesOk, Everyone
<1>2. Kernel \in Nat /\ None \notin Nat /\ Spaces \subseteq Nat
  BY PageFacts
<1>3. Home(Kernel, 3, 0) \in Nat
  BY <1>2, HomeFacts, Numbers
<1>4. l4[Kernel] # None
  BY <1>2, <1>3 DEF PtInv, SpacesOk
<1>5. Live = Has(l4) \cup (IF copy = None THEN {} ELSE {copy.to})
  BY <1>4 DEF Live, Has, Everyone
<1>6. copy # None => copy.to \in Spaces
  BY DEF PtInv, CopyInv
<1>7. LiveSet(Live)
  BY <1>2, <1>4, <1>5, <1>6 DEF LiveSet, Has, Everyone
<1>8. view = Sights(mem, Has(l4))
  BY <1>1, ViewIs DEF PtInv
<1> QED
  BY <1>1, <1>4, <1>5, <1>7, <1>8 DEF Has, Everyone

\* A copy is not disturbed by what happens to the other spaces.
LEMMA CopyOther ==
    ASSUME NEW m, NEW r, NEW cp, NEW cl, CopyOk(m, cp, cl), NEW keep, cp.from \in keep, cp.to \in keep,
           Untouched(m, r, keep), SeesUser(m, r, keep)
    PROVE  CopyOk(r, cp, cl)
<1>1. ASSUME NEW l \in Levels, NEW c, NEW lo, CallOk(m, cp, c, l, lo) PROVE CallOk(r, cp, c, l, lo)
  <2>1. c.n \in Nos(l) /\ IsTable(m, cp.from, l, c.n) /\ IsTable(m, cp.to, l, c.n)
    BY <1>1 DEF CallOk
  <2>2. IsTable(r, cp.from, l, c.n) /\ IsTable(r, cp.to, l, c.n)
    BY <2>1 DEF Untouched
  <2>3. \A k : Ent(r, cp.to, l, c.n, k) = Ent(m, cp.to, l, c.n, k)
    BY <2>1 DEF Untouched, Ent
  <2> QED
    BY <1>1, <2>2, <2>3 DEF CallOk
<1>2. \A va \in UserVa : Done(m, cp, va) => Done(r, cp, va)
  BY DEF Done, SeesUser
<1>3. \A l \in Levels : l >= cp.level =>
         CallOk(r, cp, cl[l], l, IF l = cp.level THEN cl[l].i ELSE cl[l].i + 1)
  <2> SUFFICES ASSUME NEW l \in Levels, l >= cp.level
               PROVE  CallOk(r, cp, cl[l], l, IF l = cp.level THEN cl[l].i ELSE cl[l].i + 1)
    OBVIOUS
  <2> DEFINE lo == IF l = cp.level THEN cl[l].i ELSE cl[l].i + 1
  <2>1. CallOk(m, cp, cl[l], l, lo)
    BY DEF CopyOk
  <2> HIDE DEF lo
  <2>2. CallOk(r, cp, cl[l], l, lo)
    BY <2>1, <1>1
  <2> QED
    BY <2>2 DEF lo
<1>4. NestOk(cp, cl) /\ DoneOk(r, cp, cl)
  BY <1>2 DEF CopyOk, DoneOk
<1> QED
  BY <1>3, <1>4 DEF CopyOk

\* A call that only edits the tables of a space that takes no part in a copy.
LEMMA EditKeeps ==
    ASSUME PtInv, NEW s, Idle(s), Trees(mem', Live),
           Untouched(mem, mem', Live \ {s}), SeesUser(mem, mem', Live \ {s}),
           UNCHANGED <<l4, owned, copy, call>>, view' = ViewOf(mem', l4')
    PROVE  PtInv' /\ view' = Sights(mem', Has(l4))
<1>1. Live' = Live
  BY DEF Live
<1>2. SpacesOk' /\ OwnedOk'
  BY DEF PtInv, SpacesOk, OwnedOk
<1>3. CopyInv'
  <2>1. CASE copy = None
    BY <2>1 DEF PtInv, CopyInv
  <2>2. CASE copy # None
    <3>1. /\ copy \in [from : Spaces, to : Spaces, level : Levels]
          /\ l4[copy.from] # None /\ l4[copy.to] = None /\ CopyOk(mem, copy, call)
      BY <2>2 DEF PtInv, CopyInv
    <3>2. copy.from \in Live \ {s} /\ copy.to \in Live \ {s}
      BY <2>2, <3>1 DEF Idle, Live
    <3>3. CopyOk(mem', copy, call)
      BY <3>1, <3>2, CopyOther
    <3> QED
      BY <3>1, <3>3 DEF PtInv, CopyInv
  <2> QED
    BY <2>1, <2>2
<1>4. Trees(mem', Live')
  BY <1>1
<1>5. PtInv'
  BY <1>2, <1>3, <1>4 DEF PtInv
<1>6. view' = Sights(mem', Has(l4))
  BY InvFacts, ViewIs
<1> QED
  BY <1>5, <1>6

LEMMA PutTouches ==
    ASSUME NEW m, NEW live, LiveSet(live), NEW s \in live, NEW n \in Nos(0), NEW k, NEW e
    PROVE  Untouched(m, Put(m, Home(s, 0, n), k, e), live \ {s})
<1> DEFINE h == Home(s, 0, n)
           r == Put(m, h, k, e)
<1>1. SUFFICES ASSUME NEW t \in live \ {s}, NEW l \in Levels, NEW p \in Nos(l), IsTable(m, t, l, p)
               PROVE  IsTable(r, t, l, p) /\ r[Home(t, l, p)] = m[Home(t, l, p)]
  BY DEF Untouched
<1>2. 0 \in Levels
  BY DEF Levels, TopLevel
<1>3. Home(t, l, p) # h
  BY <1>2, ApartTables
<1> HIDE DEF h
<1> QED
  BY <1>1, <1>3 DEF IsTable, Put

LEMMA FoundFacts ==
    ASSUME NEW va \in AllVa
    PROVE  /\ \A f \in Nat : \A r : Found(Leaf(f, r), va, 0) = [frame |-> f, rights |-> r]
           /\ \A l : Found(Absent, va, l) = None
<1>1. va \in Nat /\ Span(0) = 1
  <2>1. Span(4) \in Nat
    BY SpanFacts
  <2> QED
    BY <2>1, SpanFacts, UserFacts
<1>2. va % Span(0) = 0
  BY <1>1
<1>3. \A f \in Nat : f + (va % Span(0)) = f
  BY <1>2
<1> QED
  BY <1>3, Kinds DEF Found

\* The walk has come to a table of the last level, and its entry for the page is set.
CanSet(w, m, live, s, va, e) ==
    /\ LiveSet(live) /\ s \in live /\ va \in AllVa /\ Walks(s, va)
    /\ WalkAt(w, m, live, s, va, 0) /\ w.table # None
    /\ IsEntry(e) /\ e.kind # "table" /\ (s # Kernel /\ e.kind = "leaf" => e.to \in PagesOf(s))

HasSet(w, m, live, s, va, e, r) ==
    /\ Trees(r, live) /\ Untouched(m, r, live \ {s}) /\ SeesUser(m, r, live \ {s})
    /\ OnePage(m, r, live, s, va, Found(e, va, 0))

LEMMA WalkPut ==
    ASSUME NEW w, NEW m, NEW live, NEW s, NEW va, NEW e, CanSet(w, m, live, s, va, e)
    PROVE  HasSet(w, m, live, s, va, e, Put(w.mem, w.table, pt_index(va, 0), e))
<1> DEFINE r == Put(w.mem, w.table, pt_index(va, 0), e)
<1>0. /\ LiveSet(live) /\ s \in live /\ va \in AllVa /\ Walks(s, va)
      /\ WalkAt(w, m, live, s, va, 0) /\ w.table # None
      /\ IsEntry(e) /\ e.kind # "table" /\ (s # Kernel /\ e.kind = "leaf" => e.to \in PagesOf(s))
  BY DEF CanSet
<1> USE <1>0
<1>1. /\ Trees(w.mem, live) /\ w.table = Home(s, 0, No(va, 0)) /\ IsTable(w.mem, s, 0, No(va, 0))
      /\ SeesSame(m, w.mem, live) /\ Untouched(m, w.mem, live \ {s})
  BY DEF WalkAt
<1>2. No(va, 0) \in Nos(0) /\ pt_index(va, 0) \in Slots
  BY Path DEF Levels, TopLevel
<1>3. /\ Trees(r, live)
      /\ \A t \in live : Sees(s, t, va) => Seen(r, t, va) = Found(e, va, 0)
      /\ \A t \in live, wa \in AllVa : ~(Sees(s, t, va) /\ wa = va) => Seen(r, t, wa) = Seen(w.mem, t, wa)
  BY <1>1, PutSeen
<1>4. Untouched(w.mem, r, live \ {s})
  BY <1>1, <1>2, PutTouches
<1> HIDE DEF r
<1>5. Untouched(m, r, live \ {s})
  BY <1>1, <1>4 DEF Untouched
<1>6. OnePage(m, r, live, s, va, Found(e, va, 0))
  BY <1>1, <1>3 DEF SeesSame, OnePage
<1>7. SeesUser(m, r, live \ {s})
  BY <1>6, UserFacts DEF SeesUser, OnePage, Sees
<1> QED
  BY <1>3, <1>5, <1>6, <1>7 DEF r, HasSet

\* A space that exists is seen by the flat map.
LEMMA Exists ==
    ASSUME PtInv, NEW s \in Everyone
    PROVE  /\ Flat!Exists(s) <=> s \in Has(l4)
           /\ s \in Has(l4) => view[s] = [va \in AllVa |-> Seen(mem, s, va)]
<1>1. CASE s \in Has(l4)
  <2>1. view[s] = [va \in AllVa |-> Seen(mem, s, va)]
    BY <1>1, InvFacts DEF Sights
  <2>2. \A va \in AllVa : Seen(mem, s, va) \in Page \cup {None}
    BY <1>1, InvFacts, SeenType DEF PtInv
  <2>3. view[s] \in [AllVa -> Page \cup {None}]
    BY <2>1, <2>2
  <2> QED
    BY <1>1, <2>1, <2>3, PageFacts DEF Flat!Exists
<1>2. CASE s \notin Has(l4)
  BY <1>2, InvFacts DEF Sights, Flat!Exists
<1> QED
  BY <1>1, <1>2

\* Nothing is seen of a walk that ended at None.
LEMMA WalkNone ==
    ASSUME PtInv, NEW s, Idle(s), NEW va, NEW w, WalkAt(w, mem, Live, s, va, 0),
           mem' = w.mem, UNCHANGED <<l4, owned, copy, call>>, view' = ViewOf(mem', l4')
    PROVE  PtInv' /\ view' = view
<1>1. Trees(mem', Live) /\ SeesSame(mem, mem', Live) /\ Untouched(mem, mem', Live \ {s})
  BY DEF WalkAt
<1>2. SeesUser(mem, mem', Live \ {s}) /\ SeesSame(mem, mem', Has(l4))
  BY <1>1, InvFacts, UserFacts DEF SeesSame, SeesUser
<1>3. PtInv' /\ view' = Sights(mem', Has(l4))
  BY <1>1, <1>2, EditKeeps
<1>4. Sights(mem', Has(l4)) = Sights(mem, Has(l4))
  BY <1>2, SightsSame
<1> QED
  BY <1>3, <1>4, InvFacts

\* An entry is set at the end of a walk: one page is seen to change.
LEMMA WalkSets ==
    ASSUME PtInv, NEW s \in Live, Idle(s), NEW va \in AllVa, Walks(s, va),
           NEW w, WalkAt(w, mem, Live, s, va, 0), w.table # None,
           NEW e, IsEntry(e), e.kind # "table", s # Kernel /\ e.kind = "leaf" => e.to \in PagesOf(s),
           mem' = Put(w.mem, w.table, pt_index(va, 0), e),
           UNCHANGED <<l4, owned, copy, call>>, view' = ViewOf(mem', l4')
    PROVE  PtInv' /\ view' = Changed(view, Has(l4), s, va, Found(e, va, 0))
<1>1. LiveSet(Live) /\ Has(l4) \subseteq Live
  BY InvFacts
<1>2. /\ Trees(mem', Live) /\ Untouched(mem, mem', Live \ {s}) /\ SeesUser(mem, mem', Live \ {s})
      /\ OnePage(mem, mem', Live, s, va, Found(e, va, 0))
  <2>1. CanSet(w, mem, Live, s, va, e)
    BY <1>1 DEF CanSet
  <2>2. HasSet(w, mem, Live, s, va, e, mem')
    BY <2>1, WalkPut
  <2> QED
    BY <2>2 DEF HasSet
<1>3. PtInv' /\ view' = Sights(mem', Has(l4))
  BY <1>2, EditKeeps
<1>4. OnePage(mem, mem', Has(l4), s, va, Found(e, va, 0))
  BY <1>1, <1>2 DEF OnePage
<1>5. Sights(mem', Has(l4)) = Changed(Sights(mem, Has(l4)), Has(l4), s, va, Found(e, va, 0))
  BY <1>4, SightsPut
<1> QED
  BY <1>3, <1>5, InvFacts

\* What a call of space p for page va can rely on; `adds' is whether it adds tables.
Calls(p, va) ==
    /\ l4[p] # None /\ Idle(p) /\ Followed(va)
    /\ UNCHANGED <<l4, owned, copy, call>> /\ view' = ViewOf(mem', l4')

LEMMA CallFacts ==
    ASSUME PtInv, NEW p \in Everyone, NEW va \in AllVa, Calls(p, va), NEW b \in Nat, NEW adds \in BOOLEAN
    PROVE  /\ p \in Has(l4) /\ p \in Live /\ LiveSet(Live) /\ Trees(mem, Live)
           /\ Owner(p, va) \in Live /\ Idle(Owner(p, va)) /\ Walks(Owner(p, va), va)
           /\ WalkAt(Descend(p, va, b, adds), mem, Live, Owner(p, va), va, 0)
<1>1. p \in Has(l4) /\ p \in Live /\ l4[p] = Home(p, 3, 0) /\ LiveSet(Live) /\ Trees(mem, Live)
  BY InvFacts DEF Has, PtInv, Calls
<1>2. Idle(Kernel)
  <2>1. CASE copy # None
    <3>1. copy.from \in Spaces /\ copy.to \in Spaces
      BY <2>1 DEF PtInv, CopyInv
    <3> QED
      BY <3>1, PageFacts DEF Idle
  <2> QED
    BY <2>1 DEF Idle
<1>3. Owner(p, va) \in Live /\ Idle(Owner(p, va)) /\ Walks(Owner(p, va), va)
  BY <1>1, <1>2 DEF Owner, Walks, LiveSet, Calls
<1>4. Enters(mem, Kernel, va)
  BY DEF Calls, Followed, Enters, PtInv, SpacesOk, TopLevel
<1>5. WalkAt(Descend(p, va, b, adds), mem, Live, Owner(p, va), va, 0)
  BY <1>1, <1>4, DescendKeeps
<1> QED
  BY <1>1, <1>3, <1>5

LEMMA SightExists ==
    ASSUME NEW m, NEW live, LiveSet(live), Trees(m, live), NEW s \in live
    PROVE  [va \in AllVa |-> Seen(m, s, va)] # None
<1>1. \A va \in AllVa : Seen(m, s, va) \in Page \cup {None}
  BY SeenType
<1>2. [va \in AllVa |-> Seen(m, s, va)] \in [AllVa -> Page \cup {None}]
  BY <1>1
<1> QED
  BY <1>2, PageFacts

\* The same after a step.
LEMMA InvNow == PtInv => LiveSet(Live) /\ Has(l4) \subseteq Live /\ Trees(mem, Live)
                         /\ view = Sights(mem, Has(l4))
BY InvFacts DEF PtInv

LEMMA InvThen == PtInv' => LiveSet(Live') /\ Has(l4') \subseteq Live' /\ Trees(mem', Live')
                           /\ view' = Sights(mem', Has(l4'))
<1>1. (PtInv => LiveSet(Live) /\ Has(l4) \subseteq Live /\ Trees(mem, Live) /\ view = Sights(mem, Has(l4)))'
  BY InvNow, PTL
<1> QED
  BY <1>1

\* What is seen to change is what the flat map says.
LEMMA FlatChange ==
    ASSUME PtInv, PtInv', Has(l4') = Has(l4), NEW p \in Has(l4), NEW va \in AllVa, NEW page,
           view' = Changed(view, Has(l4), Owner(p, va), va, page)
    PROVE  Flat!Change(p, va) /\ view'[p][va] = page
<1>1. ASSUME NEW t \in Everyone
      PROVE  t \in Flat!Sharers(p, va) <=> t \in Has(l4) /\ Sees(Owner(p, va), t, va)
  <2>1. Flat!Exists(t) <=> t \in Has(l4)
    BY Exists
  <2>2. va \in KernelVa <=> va \notin UserVa
    BY UserFacts DEF AllVa
  <2> QED
    BY <2>1, <2>2 DEF Flat!Sharers, Sees, Owner, Everyone
<1>2. ASSUME NEW t \in Everyone
      PROVE  view'[t] = IF t \in Flat!Sharers(p, va) THEN [view[t] EXCEPT ![va] = page] ELSE view[t]
  BY <1>1 DEF Changed
<1>3. view' = [t \in Everyone |-> view'[t]] /\ Flat!Sharers(p, va) \subseteq Everyone
  BY DEF Changed, Flat!Sharers, Everyone
<1>4. p \in Everyone /\ p \in Flat!Sharers(p, va) /\ Flat!Exists(p)
  <2>1. p \in Everyone
    BY DEF Has
  <2> QED
    BY <2>1, Exists DEF Flat!Sharers, Everyone
<1>5. view[p] = [wa \in AllVa |-> Seen(mem, p, wa)]
  BY <1>4, Exists
<1>6. view'[p][va] = page
  BY <1>2, <1>4, <1>5
<1>7. view'[p] # None
  <2>1. view' = Sights(mem', Has(l4))
    BY InvThen
  <2>2. view'[p] = [wa \in AllVa |-> Seen(mem', p, wa)]
    BY <1>4, <2>1 DEF Sights
  <2>3. LiveSet(Live') /\ Trees(mem', Live') /\ p \in Live'
    BY InvThen
  <2> QED
    BY <2>2, <2>3, SightExists
<1> QED
  BY <1>2, <1>3, <1>4, <1>6, <1>7 DEF Flat!Change, Flat!Exists, Everyone

LEMMA MapStep ==
    ASSUME PtInv, NEW s \in Everyone, NEW va \in AllVa, NEW f \in Memory \cup KernelArgs,
           s # Kernel => f \in Memory, NEW r \in Rights, NEW b \in Nat,
           Followed(va), map_page_4k(s, va, f, r, b), view' = ViewOf(mem', l4')
    PROVE  PtInv' /\ [Flat!Next]_view
<1> DEFINE w == Descend(s, va, b, TRUE)
           e == Leaf(f, r)
           o == Owner(s, va)
<1>1. /\ Calls(s, va)
      /\ mem' = IF w.table = None THEN w.mem ELSE Put(w.mem, w.table, pt_index(va, 0), e)
  BY DEF map_page_4k, Calls
<1>2. /\ s \in Has(l4) /\ o \in Live /\ Idle(o) /\ Walks(o, va) /\ WalkAt(w, mem, Live, o, va, 0)
      /\ UNCHANGED <<l4, owned, copy, call>>
  BY <1>1, CallFacts DEF Calls
<1> HIDE DEF w
<1>4. CASE w.table = None
  <2> HIDE DEF o
  <2> QED
    BY <1>1, <1>2, <1>4, WalkNone
<1>5. CASE w.table # None
  <2>1. f \in Nat
    <3>1. Span(4) \in Nat
      BY SpanFacts
    <3>2. Memory \cup KernelArgs \subseteq 0..(Span(4) - 1)
      BY PageFacts, UserFacts
    <3> QED
      BY <3>1, <3>2
  <2>2. e.to = f /\ e.kind = "leaf" /\ e.kind # "table" /\ IsEntry(e)
    BY <2>1, Kinds DEF IsEntry
  <2>3. o # Kernel /\ e.kind = "leaf" => e.to \in PagesOf(o)
    BY <2>2 DEF PagesOf, Owner
  <2>4. Found(e, va, 0) = [frame |-> f, rights |-> r]
    BY <2>1, FoundFacts
  <2> HIDE DEF e, o
  <2>5. PtInv' /\ view' = Changed(view, Has(l4), o, va, Found(e, va, 0))
    BY <1>1, <1>2, <1>5, <2>2, <2>3, WalkSets
  <2>6. Flat!Change(s, va) /\ Flat!Map(s, va)
    BY <2>4, <2>5, <1>2, FlatChange DEF Flat!Map, o
  <2> QED
    BY <2>5, <2>6 DEF Flat!Next, Everyone, AllVa
<1> QED
  BY <1>4, <1>5

LEMMA UnmapStep ==
    ASSUME PtInv, NEW s \in Spaces, NEW va \in AllVa, NEW b \in Nat,
           Followed(va), unmap_page_4k(s, va, b), view' = ViewOf(mem', l4')
    PROVE  PtInv' /\ [Flat!Next]_view
<1> DEFINE w == Descend(s, va, b, FALSE)
           o == Owner(s, va)
<1>1. /\ Calls(s, va) /\ s \in Everyone
      /\ mem' = IF w.table = None THEN w.mem ELSE Put(w.mem, w.table, pt_index(va, 0), Absent)
  BY DEF unmap_page_4k, Calls, Everyone
<1>2. /\ s \in Has(l4) /\ o \in Live /\ Idle(o) /\ Walks(o, va) /\ WalkAt(w, mem, Live, o, va, 0)
      /\ UNCHANGED <<l4, owned, copy, call>>
  BY <1>1, CallFacts DEF Calls
<1> HIDE DEF w
<1>4. CASE w.table = None
  <2> HIDE DEF o
  <2> QED
    BY <1>1, <1>2, <1>4, WalkNone
<1>5. CASE w.table # None
  <2>1. Absent.kind # "leaf" /\ Absent.kind # "table" /\ IsEntry(Absent)
    BY Kinds DEF IsEntry
  <2>2. Found(Absent, va, 0) = None
    BY FoundFacts
  <2> HIDE DEF o
  <2>3. PtInv' /\ view' = Changed(view, Has(l4), o, va, Found(Absent, va, 0))
    BY <1>1, <1>2, <1>5, <2>1, WalkSets
  <2>4. Flat!Change(s, va) /\ Flat!Unmap(s, va)
    BY <2>2, <2>3, <1>2, FlatChange, PageFacts DEF Flat!Unmap, o
  <2> QED
    BY <2>3, <2>4 DEF Flat!Next, AllVa
<1> QED
  BY <1>4, <1>5

LEMMA ProtectStep ==
    ASSUME PtInv, NEW s \in Spaces, NEW va \in AllVa, NEW r \in Rights, NEW b \in Nat,
           Followed(va), protect_page_4k(s, va, r, b), view' = ViewOf(mem', l4')
    PROVE  PtInv' /\ [Flat!Next]_view
<1> DEFINE w == Descend(s, va, b, FALSE)
           e == w.mem[w.table][pt_index(va, 0)]
           g == Leaf(e.to, r)
           o == Owner(s, va)
<1>1. /\ Calls(s, va) /\ s \in Everyone
      /\ mem' = IF w.table = None \/ e = Absent THEN w.mem ELSE Put(w.mem, w.table, pt_index(va, 0), g)
  BY DEF protect_page_4k, Calls, Everyone
<1>2. /\ s \in Has(l4) /\ s \in Live /\ LiveSet(Live) /\ Trees(mem, Live)
      /\ o \in Live /\ Idle(o) /\ Walks(o, va) /\ WalkAt(w, mem, Live, o, va, 0)
      /\ UNCHANGED <<l4, owned, copy, call>>
  BY <1>1, CallFacts DEF Calls
<1> HIDE DEF w
<1>4. CASE w.table = None \/ e = Absent
  <2> HIDE DEF o
  <2> QED
    BY <1>1, <1>2, <1>4, WalkNone
<1>5. CASE w.table # None /\ e # Absent
  <2>1. /\ Trees(w.mem, Live) /\ w.table = Home(o, 0, No(va, 0)) /\ IsTable(w.mem, o, 0, No(va, 0))
        /\ SeesSame(mem, w.mem, Live)
    BY <1>2, <1>5 DEF WalkAt
  <2>2. 0 \in Levels /\ 0 # 3
    BY DEF Levels, TopLevel
  <2>3. No(va, 0) \in Nos(0) /\ pt_index(va, 0) \in Slots
    BY <2>2, Path
  <2>4. e = Ent(w.mem, o, 0, No(va, 0), pt_index(va, 0)) /\ e = Step(w.mem, o, va, 0) /\ IsEntry(e)
    BY <2>1, <2>3 DEF Ent, Step, Trees, Filled, IsTable
  <2>5. e.kind # "table"
    BY <1>2, <2>1, <2>2, <2>4, Chain
  <2>6. Seen(mem, o, va) = Found(e, va, 0)
    <3>1. Seen(w.mem, o, va) = Found(e, va, 0)
      BY <1>2, <2>1, <2>2, <2>4, <2>5, Reach
    <3> QED
      BY <3>1, <1>2, <2>1 DEF SeesSame
  <2>7. e.kind = "leaf" /\ e.to \in Nat /\ e = Leaf(e.to, e.rights)
    BY <1>5, <2>4, <2>5, KindFacts
  <2>9. o # Kernel => e.to \in PagesOf(o)
    BY <1>2, <2>1, <2>2, <2>3, <2>4, <2>7 DEF Trees, Plain, Own
  <2> DEFINE d == e.to
             q == e.rights
  <2>10. Seen(mem, s, va) = Found(e, va, 0)
    <3>1. CASE o = s
      BY <3>1, <2>6
    <3>2. CASE o # s
      <4>1. va \notin UserVa /\ o = Kernel
        BY <3>2 DEF Owner
      <4>2. Seen(mem, s, va) = Seen(mem, Kernel, va)
        BY <4>1, <1>2, KernelHalf
      <4> QED
        BY <4>1, <4>2, <2>6
    <3> QED
      BY <3>1, <3>2
  <2> HIDE DEF e, d, q, o
  <2>11. Seen(mem, s, va) = [frame |-> d, rights |-> q]
    BY <2>7, <2>10, FoundFacts DEF d, q
  <2>12. g = Leaf(d, r) /\ d \in Nat
    BY <2>7 DEF d
  <2>13. g.kind = "leaf" /\ g.to = d /\ g.kind # "table" /\ IsEntry(g)
    BY <2>12, Kinds DEF IsEntry
  <2>14. o # Kernel /\ g.kind = "leaf" => g.to \in PagesOf(o)
    BY <2>9, <2>13 DEF d
  <2>15. Found(g, va, 0) = [frame |-> d, rights |-> r]
    BY <2>12, FoundFacts
  <2> HIDE DEF g
  <2>16. PtInv' /\ view' = Changed(view, Has(l4), o, va, Found(g, va, 0))
    BY <1>1, <1>2, <1>5, <2>13, <2>14, WalkSets
  <2>17. view[s][va] = [frame |-> d, rights |-> q] /\ Flat!Exists(s)
    <3>1. view[s] = [wa \in AllVa |-> Seen(mem, s, wa)] /\ Flat!Exists(s)
      BY <1>1, <1>2, Exists
    <3>2. view[s][va] = Seen(mem, s, va)
      BY <3>1
    <3> QED
      BY <3>1, <3>2, <2>11
  <2>18. view[s][va] # None
    <3>1. q \in Rights
      BY <2>4, <2>7, KindFacts DEF q
    <3>2. [frame |-> d, rights |-> q] \in Page
      BY <3>1, <2>12 DEF Page
    <3> QED
      BY <3>2, <2>17, PageFacts
  <2>19. Flat!Change(s, va) /\ view'[s][va] = [frame |-> view[s][va].frame, rights |-> r]
    BY <2>15, <2>16, <2>17, <1>2, FlatChange DEF o
  <2>20. Flat!Protect(s, va)
    BY <2>17, <2>18, <2>19, PageFacts DEF Flat!Protect
  <2> QED
    BY <1>1, <2>16, <2>19, <2>20 DEF Flat!Next, AllVa, Everyone
<1> QED
  BY <1>4, <1>5

LEMMA WithRootIs ==
    ASSUME PtInv, NEW s PROVE WithRoot(Home(s, TopLevel, 0)) = AddRoot(mem, s)
BY DEF PtInv, SpacesOk, WithRoot, AddRoot, NewRoot, NewTable, Ent, TopLevel

\* What the invariant says of a space of a process.
LEMMA SpaceFacts ==
    ASSUME PtInv, NEW s \in Spaces
    PROVE  /\ s \in Everyone /\ s \in Nat /\ s # Kernel
           /\ Home(s, TopLevel, 0) = Home(s, 3, 0) /\ Home(s, 3, 0) \in Nat /\ Home(s, 3, 0) # None
           /\ l4[s] # None <=> s \in Has(l4)
           /\ l4[s] = None /\ Idle(s) => s \notin Live
<1>1. s \in Everyone /\ s \in Nat /\ s # Kernel /\ None \notin Nat
  BY PageFacts DEF Everyone
<1>2. Home(s, 3, 0) \in Nat
  BY <1>1, HomeFacts, Numbers
<1>3. l4[s] # None <=> s \in Has(l4)
  BY <1>1 DEF Has
<1>4. l4[s] = None /\ Idle(s) => s \notin Live
  BY <1>3, InvFacts DEF Idle
<1> QED
  BY <1>1, <1>2, <1>3, <1>4 DEF TopLevel

LEMMA CreateStep ==
    ASSUME PtInv, NEW s \in Spaces, clone_page_table(s), view' = ViewOf(mem', l4')
    PROVE  PtInv' /\ [Flat!Next]_view
<1>1. /\ l4[s] = None /\ Idle(s) /\ UNCHANGED <<owned, copy, call>>
      /\ mem' = AddRoot(mem, s) /\ l4' = [l4 EXCEPT ![s] = Home(s, 3, 0)]
  BY WithRootIs, SpaceFacts DEF clone_page_table
<1>2. s \in Everyone /\ s \in Nat /\ s # Kernel /\ Home(s, 3, 0) # None /\ s \notin Live /\ s \notin Has(l4)
  BY <1>1, SpaceFacts
<1>3. LiveSet(Live) /\ Trees(mem, Live) /\ Has(l4) \subseteq Live /\ Kernel \in Has(l4)
  BY InvFacts DEF PtInv
<1>4. /\ LiveSet(Live \cup {s}) /\ Trees(mem', Live \cup {s})
      /\ Untouched(mem, mem', Live) /\ SeesSame(mem, mem', Live)
      /\ \A va \in AllVa : Seen(mem', s, va) = IF va \in UserVa THEN None ELSE Seen(mem, Kernel, va)
  BY <1>1, <1>2, <1>3, RootSeen
<1>5. DOMAIN l4 = Everyone /\ l4 = [t \in Everyone |-> l4[t]]
  BY DEF PtInv, SpacesOk, Everyone
<1>6. Has(l4') = Has(l4) \cup {s}
  BY <1>1, <1>2, <1>5 DEF Has
<1>7. SpacesOk' /\ OwnedOk'
  <2>1. SpacesOk'
    BY <1>1, <1>2, <1>5 DEF PtInv, SpacesOk, Everyone
  <2> QED
    BY <2>1, <1>1 DEF PtInv, OwnedOk
<1>8. Live' = Live \cup {s}
  BY <1>1, <1>2, <1>5 DEF Live, Everyone
<1>9. CopyInv'
  <2>1. CASE copy = None
    BY <2>1, <1>1 DEF PtInv, CopyInv
  <2>2. CASE copy # None
    <3>1. /\ copy \in [from : Spaces, to : Spaces, level : Levels]
          /\ l4[copy.from] # None /\ l4[copy.to] = None /\ CopyOk(mem, copy, call)
      BY <2>2 DEF PtInv, CopyInv
    <3>2. copy.from \in Live /\ copy.to \in Live /\ copy.from # s /\ copy.to # s
      BY <1>1, <2>2, <3>1 DEF Idle, Live
    <3>3. SeesUser(mem, mem', Live)
      BY <1>4, UserFacts DEF SeesSame, SeesUser
    <3>4. CopyOk(mem', copy, call)
      BY <1>4, <3>1, <3>2, <3>3, CopyOther
    <3> QED
      BY <1>1, <1>5, <3>1, <3>2, <3>4 DEF PtInv, CopyInv, Everyone
  <2> QED
    BY <2>1, <2>2
<1>10. PtInv'
  BY <1>4, <1>7, <1>8, <1>9 DEF PtInv
<1>11. view' = Sights(mem', Has(l4) \cup {s})
  <2>1. \A t \in Everyone : l4'[t] # None => l4'[t] = Home(t, 3, 0)
    BY <1>7 DEF SpacesOk, Everyone
  <2> QED
    BY <2>1, <1>6, ViewIs
<1> DEFINE b == [va \in AllVa |-> Seen(mem', s, va)]
<1>12. view' = [view EXCEPT ![s] = b] /\ view[s] = None
  <2>1. SeesSame(mem, mem', Has(l4))
    BY <1>3, <1>4 DEF SeesSame
  <2> QED
    BY <2>1, <1>2, <1>11, InvFacts, SightsNew
<1>13. b # None
  BY <1>4, SightExists
<1>14. view'[s] = b
  BY <1>11, <1>2 DEF Sights
<1>15. view[Kernel] = [va \in AllVa |-> Seen(mem, Kernel, va)]
  BY <1>3, Exists DEF Everyone
<1>16. \A va \in KernelVa : va \in AllVa /\ va \notin UserVa
  BY UserFacts DEF AllVa
<1>17. \A va \in KernelVa : b[va] = view[Kernel][va]
  BY <1>4, <1>15, <1>16
<1>18. \A va \in UserVa : b[va] = None
  BY <1>4, UserFacts
<1> HIDE DEF b
<1>19. Flat!Create(s)
  BY <1>12, <1>13, <1>14, <1>17, <1>18 DEF Flat!Create, Flat!Appears, Flat!Exists
<1> QED
  BY <1>10, <1>19 DEF Flat!Next

LEMMA DropStep ==
    ASSUME PtInv, NEW s \in Spaces, Terminate(s), view' = ViewOf(mem', l4')
    PROVE  PtInv' /\ [Flat!Next]_view
<1>1. /\ s \in Has(l4) /\ Idle(s) /\ UNCHANGED <<copy, call>>
      /\ mem' = free_page_table(mem, Home(s, 3, 0)) /\ l4' = [l4 EXCEPT ![s] = None]
      /\ owned' = [owned EXCEPT ![s] = {}]
  BY SpaceFacts, InvFacts DEF Terminate
<1>2. s \in Everyone /\ s \in Nat /\ s # Kernel
  BY <1>1, SpaceFacts
<1>3. LiveSet(Live) /\ Trees(mem, Live) /\ Has(l4) \subseteq Live
  BY InvFacts DEF PtInv
<1>4. /\ LiveSet(Live \ {s}) /\ Trees(mem', Live \ {s})
      /\ Untouched(mem, mem', Live \ {s}) /\ SeesSame(mem, mem', Live \ {s})
  BY <1>1, <1>2, <1>3, FreeSeen
<1>5. DOMAIN l4 = Everyone /\ l4 = [t \in Everyone |-> l4[t]]
  BY DEF PtInv, SpacesOk, Everyone
<1>6. Has(l4') = Has(l4) \ {s}
  BY <1>1, <1>2, <1>5 DEF Has
<1>7. SpacesOk' /\ OwnedOk'
  <2>1. SpacesOk'
    BY <1>1, <1>2, <1>5 DEF PtInv, SpacesOk, Everyone
  <2>2. OwnedOk'
    BY <1>1 DEF PtInv, OwnedOk
  <2> QED
    BY <2>1, <2>2
<1>8. Live' = Live \ {s}
  BY <1>1, <1>2, <1>5 DEF Live, Everyone, Idle
<1>9. CopyInv'
  <2>1. CASE copy = None
    BY <2>1, <1>1 DEF PtInv, CopyInv
  <2>2. CASE copy # None
    <3>1. /\ copy \in [from : Spaces, to : Spaces, level : Levels]
          /\ l4[copy.from] # None /\ l4[copy.to] = None /\ CopyOk(mem, copy, call)
      BY <2>2 DEF PtInv, CopyInv
    <3>2. copy.from \in Live \ {s} /\ copy.to \in Live \ {s} /\ copy.from # s /\ copy.to # s
      BY <1>1, <2>2, <3>1 DEF Idle, Live
    <3>3. SeesUser(mem, mem', Live \ {s})
      BY <1>4, UserFacts DEF SeesSame, SeesUser
    <3>4. CopyOk(mem', copy, call)
      BY <1>4, <3>1, <3>2, <3>3, CopyOther
    <3> QED
      BY <1>1, <1>5, <3>1, <3>2, <3>4 DEF PtInv, CopyInv, Everyone
  <2> QED
    BY <2>1, <2>2
<1>10. PtInv'
  BY <1>4, <1>7, <1>8, <1>9 DEF PtInv
<1>11. view' = Sights(mem', Has(l4) \ {s})
  <2>1. \A t \in Everyone : l4'[t] # None => l4'[t] = Home(t, 3, 0)
    BY <1>7 DEF SpacesOk, Everyone
  <2> QED
    BY <2>1, <1>6, ViewIs
<1>12. view' = [view EXCEPT ![s] = None]
  <2>1. SeesSame(mem, mem', Has(l4) \ {s})
    BY <1>3, <1>4 DEF SeesSame
  <2> QED
    BY <2>1, <1>2, <1>11, InvFacts, SightsDrop
<1>13. Flat!Drop(s)
  BY <1>1, <1>2, <1>12, Exists DEF Flat!Drop
<1> QED
  BY <1>10, <1>13 DEF Flat!Next

LEMMA LastFacts ==
    /\ Last(3) = Half /\ \A l \in 0..2 : Last(l) = Fanout
    /\ \A l \in Levels : Last(l) \in Nat /\ Last(l) <= Fanout
    /\ \A k \in Slots : k < Last(3) <=> k \in UserSlots
    /\ \A l \in Levels, k \in Nat : k < Last(l) => k \in Slots /\ (l = 3 => k \in UserSlots)
    /\ \A c : Number(c) = Sub(c.n, c.i)
<1>1. Last(3) = Half /\ \A l \in 0..2 : Last(l) = Fanout
  BY DEF Last, TopLevel, Half
<1>2. \A l \in Levels : l = 3 \/ l \in 0..2
  BY DEF Levels, TopLevel
<1>3. \A l \in Levels : Last(l) \in Nat /\ Last(l) <= Fanout
  BY <1>1, <1>2, FanoutFacts
<1>4. \A k \in Nat : k < Half <=> k \in UserSlots
  BY FanoutFacts
<1>5. \A k \in Nat : k < Fanout <=> k \in Slots
  BY FanoutFacts
<1>6. Slots \subseteq Nat
  BY FanoutFacts
<1>7. \A k \in Slots : k < Last(3) <=> k \in UserSlots
  BY <1>1, <1>4, <1>6
<1>8. ASSUME NEW l \in Levels, NEW k \in Nat, k < Last(l)
      PROVE  k \in Slots /\ (l = 3 => k \in UserSlots)
  <2>1. CASE l = 3
    <3>1. k < Half
      BY <1>1, <1>8, <2>1
    <3> QED
      BY <3>1, <1>4, FanoutFacts
  <2>2. CASE l # 3
    <3>1. k < Fanout
      BY <1>1, <1>2, <1>8, <2>2
    <3> QED
      BY <3>1, <2>2, <1>5
  <2> QED
    BY <2>1, <2>2
<1> QED
  BY <1>1, <1>3, <1>7, <1>8 DEF Number, Sub

\* A copy in progress, in the names of the proofs.
LEMMA CopyFacts ==
    ASSUME PtInv, copy # None
    PROVE  /\ copy = [from |-> copy.from, to |-> copy.to, level |-> copy.level]
           /\ copy.from \in Spaces /\ copy.to \in Spaces /\ copy.level \in Levels
           /\ copy.from # copy.to /\ copy.from # Kernel /\ copy.to # Kernel
           /\ l4[copy.from] # None /\ l4[copy.to] = None
           /\ copy.from \in Live /\ copy.to \in Live /\ copy.to \notin Has(l4) /\ Live = Has(l4) \cup {copy.to}
           /\ CopyOk(mem, copy, call) /\ NestOk(copy, call) /\ DoneOk(mem, copy, call)
           /\ \A l \in Levels : l >= copy.level =>
                 CallOk(mem, copy, call[l], l, IF l = copy.level THEN call[l].i ELSE call[l].i + 1)
           /\ DOMAIN call = Levels /\ call = [l \in Levels |-> call[l]]
           /\ LiveSet(Live) /\ Trees(mem, Live)
<1>1. /\ copy \in [from : Spaces, to : Spaces, level : Levels]
      /\ l4[copy.from] # None /\ l4[copy.to] = None /\ CopyOk(mem, copy, call)
      /\ DOMAIN call = Levels /\ call = [l \in Levels |-> call[l]]
  BY DEF PtInv, CopyInv
<1>2. copy.from # Kernel /\ copy.to # Kernel
  BY <1>1, PageFacts
<1>3. /\ NestOk(copy, call) /\ DoneOk(mem, copy, call)
      /\ \A l \in Levels : l >= copy.level =>
            CallOk(mem, copy, call[l], l, IF l = copy.level THEN call[l].i ELSE call[l].i + 1)
  BY <1>1 DEF CopyOk
<1>4. copy.from \in Live /\ copy.to \in Live /\ copy.to \notin Has(l4)
  BY <1>1 DEF Live, Has
<1>5. Live = Has(l4) \cup {copy.to}
  BY InvFacts
<1>6. LiveSet(Live) /\ Trees(mem, Live)
  BY InvFacts DEF PtInv
<1> QED
  BY <1>1, <1>2, <1>3, <1>4, <1>5, <1>6

\* The call that is running.
LEMMA CurrentFacts ==
    ASSUME PtInv, copy # None, NEW l, NEW c, l = copy.level, c = call[l]
    PROVE  /\ l \in Levels /\ CallOk(mem, copy, c, l, c.i)
           /\ c = [src |-> c.src, dst |-> c.dst, n |-> c.n, i |-> c.i]
           /\ c.n \in Nos(l) /\ c.n \in Nat /\ c.i \in 0..Last(l) /\ c.i \in Nat
           /\ c.src = Home(copy.from, l, c.n) /\ IsTable(mem, copy.from, l, c.n)
           /\ c.dst = Home(copy.to, l, c.n) /\ IsTable(mem, copy.to, l, c.n)
           /\ EntryOf(c) = Ent(mem, copy.from, l, c.n, c.i)
           /\ c.i < Last(l) => /\ c.i \in Slots /\ (l = 3 => c.i \in UserSlots)
                               /\ IsEntry(EntryOf(c)) /\ Own(copy.from, l, c.i) /\ Own(copy.to, l, c.i)
                               /\ Ent(mem, copy.to, l, c.n, c.i) = Absent
<1>1. l \in Levels /\ l >= l
  BY CopyFacts DEF Levels, TopLevel
<1>2. CallOk(mem, copy, c, l, c.i)
  BY <1>1, CopyFacts
<1>3. /\ c = [src |-> c.src, dst |-> c.dst, n |-> c.n, i |-> c.i]
      /\ c.n \in Nos(l) /\ c.i \in 0..Last(l)
      /\ c.src = Home(copy.from, l, c.n) /\ IsTable(mem, copy.from, l, c.n)
      /\ c.dst = Home(copy.to, l, c.n) /\ IsTable(mem, copy.to, l, c.n)
  BY <1>2 DEF CallOk
<1>4. Last(l) \in Nat
  BY <1>1, LastFacts
<1>5. c.i \in Nat /\ c.i >= c.i
  BY <1>3, <1>4
<1>6. c.n \in Nat
  BY <1>3 DEF Nos
<1>7. EntryOf(c) = Ent(mem, copy.from, l, c.n, c.i)
  BY <1>3 DEF EntryOf, Ent
<1>8. ASSUME c.i < Last(l)
      PROVE  /\ c.i \in Slots /\ (l = 3 => c.i \in UserSlots)
             /\ IsEntry(EntryOf(c)) /\ Own(copy.from, l, c.i) /\ Own(copy.to, l, c.i)
             /\ Ent(mem, copy.to, l, c.n, c.i) = Absent
  <2>1. c.i \in Slots /\ (l = 3 => c.i \in UserSlots)
    BY <1>1, <1>5, <1>8, LastFacts
  <2>2. IsEntry(EntryOf(c))
    BY <2>1, <1>3, <1>7, CopyFacts DEF Trees, Filled, IsTable, Ent
  <2>3. Ent(mem, copy.to, l, c.n, c.i) = Absent
    BY <2>1, <1>2, <1>5, <1>8 DEF CallOk
  <2> QED
    BY <2>1, <2>2, <2>3 DEF Own
<1> QED
  BY <1>1, <1>2, <1>3, <1>5, <1>6, <1>7, <1>8

\* The pages below slot k of a table are the ones whose walk comes there.
LEMMA BelowEntry ==
    ASSUME NEW l \in Levels, NEW n \in Nos(l), NEW k \in Slots, NEW va \in AllVa, va \div Span(l) = Sub(n, k)
    PROVE  No(va, l) = n /\ pt_index(va, l) = k
<1>1. va \div Span(l) = Sub(No(va, l), pt_index(va, l)) /\ No(va, l) \in Nos(l) /\ pt_index(va, l) \in Slots
  BY Path
<1> QED
  BY <1>1, Numbers

\* Nothing is found through an entry that is absent.
LEMMA AbsentEntry ==
    ASSUME NEW m, NEW live, Trees(m, live), NEW s \in live, NEW l \in Levels, NEW n \in Nos(l), NEW k \in Slots,
           IsTable(m, s, l, n), Ent(m, s, l, n, k) = Absent,
           NEW va \in UserVa, va \div Span(l) = Sub(n, k)
    PROVE  Seen(m, s, va) = None
<1>1. va \in AllVa /\ Walks(s, va)
  BY UserFacts DEF Walks
<1>2. No(va, l) = n /\ pt_index(va, l) = k
  BY <1>1, BelowEntry
<1>3. Step(m, s, va, l) = Absent /\ Absent.kind # "table"
  BY <1>2, Kinds DEF Step
<1>4. Seen(m, s, va) = Found(Absent, va, l)
  BY <1>1, <1>2, <1>3, Reach
<1> QED
  BY <1>1, <1>4, FoundFacts

\* The loop of the running call goes on to the next entry.
LEMMA CopyAdvances ==
    ASSUME PtInv, Visiting, NEW r,
           \A l \in Levels : l >= copy.level => CallOk(r, copy, call[l], l, call[l].i + 1),
           \A va \in UserVa : va \div Span(copy.level) <= Number(call[copy.level]) => Done(r, copy, va)
    PROVE  CopyOk(r, copy, Continue) /\ DOMAIN Continue = Levels /\ Continue = [l \in Levels |-> Continue[l]]
<1> DEFINE q == copy.level
           c == call[q]
           d == [c EXCEPT !.i = @ + 1]
<1>1. copy # None /\ c.i < Last(q)
  BY DEF Visiting
<1>2. q \in Levels /\ NestOk(copy, call) /\ DOMAIN call = Levels /\ call = [l \in Levels |-> call[l]]
  BY <1>1, CopyFacts
<1>3. /\ c = [src |-> c.src, dst |-> c.dst, n |-> c.n, i |-> c.i]
      /\ c.n \in Nat /\ c.i \in Nat
  BY <1>1, CurrentFacts
<1> HIDE DEF c
<1>4. d = [src |-> c.src, dst |-> c.dst, n |-> c.n, i |-> c.i + 1]
  BY <1>3
<1>5. Continue = [call EXCEPT ![q] = d]
  BY DEF Continue, c
<1>6. Continue[q] = d /\ \A l \in Levels : l # q => Continue[l] = call[l]
  BY <1>2, <1>5
<1>7. DOMAIN Continue = Levels /\ Continue = [l \in Levels |-> Continue[l]]
  BY <1>2, <1>5
<1> HIDE DEF d
<1>8. Last(q) \in Nat
  BY <1>2, LastFacts
<1>9. CallOk(r, copy, d, q, d.i)
  <2>1. CallOk(r, copy, c, q, c.i + 1)
    BY <1>2 DEF Levels, TopLevel, c
  <2>2. d.i \in 0..Last(q)
    BY <1>1, <1>3, <1>4, <1>8 DEF c
  <2> QED
    BY <2>1, <2>2, <1>4 DEF CallOk
<1>10. ASSUME NEW l \in Levels, l >= q
       PROVE  CallOk(r, copy, Continue[l], l, IF l = q THEN Continue[l].i ELSE Continue[l].i + 1)
  <2>1. CASE l = q
    BY <2>1, <1>6, <1>9
  <2>2. CASE l # q
    BY <2>2, <1>6, <1>10
  <2> QED
    BY <2>1, <2>2
<1>11. NestOk(copy, Continue)
  <2> SUFFICES ASSUME NEW l \in 0..2, l >= q
               PROVE  Continue[l].n = Number(Continue[l + 1]) /\ Continue[l + 1].i < Last(l + 1)
    BY DEF NestOk
  <2>1. call[l].n = Number(call[l + 1]) /\ call[l + 1].i < Last(l + 1)
    BY <1>2 DEF NestOk
  <2>2. l \in Levels /\ l + 1 \in Levels /\ l + 1 # q
    BY <1>2 DEF Levels, TopLevel
  <2>3. Continue[l + 1] = call[l + 1]
    BY <2>2, <1>6
  <2>4. Continue[l].n = call[l].n
    BY <2>2, <1>4, <1>6 DEF c
  <2> QED
    BY <2>1, <2>3, <2>4
<1>12. DoneOk(r, copy, Continue)
  <2> SUFFICES ASSUME NEW va \in UserVa, va \div Span(q) < Number(d) PROVE Done(r, copy, va)
    BY <1>6 DEF DoneOk
  <2>1. va \in AllVa /\ va \div Span(q) \in Nat
    <3>1. va \div Span(q) \in Nos(q - 1)
      BY <1>2, VaFacts, UserFacts
    <3> QED
      BY <3>1, UserFacts DEF Nos
  <2>2. Number(c) = c.n * Fanout + c.i /\ Number(d) = c.n * Fanout + (c.i + 1)
    BY <1>4 DEF Number
  <2>3. c.n * Fanout \in Nat
    BY <1>3, FanoutFacts
  <2> DEFINE x == c.n * Fanout
             y == va \div Span(q)
  <2> HIDE DEF x, y
  <2>4. y < x + (c.i + 1) => y <= x + c.i
    BY <2>1, <2>3, <1>3 DEF x, y
  <2>5. va \div Span(q) <= Number(c)
    BY <2>2, <2>4 DEF x, y
  <2> QED
    BY <2>5 DEF c
<1> QED
  BY <1>7, <1>10, <1>11, <1>12 DEF CopyOk

\* A slot of the running call is finished with.
LEMMA Finished ==
    ASSUME PtInv, Visiting
    PROVE  \A l \in Levels : l >= copy.level => CallOk(mem, copy, call[l], l, call[l].i + 1)
<1>1. copy # None
  BY DEF Visiting
<1>2. SUFFICES ASSUME NEW l \in Levels, l >= copy.level PROVE CallOk(mem, copy, call[l], l, call[l].i + 1)
  OBVIOUS
<1>3. CASE l = copy.level
  <2>1. CallOk(mem, copy, call[l], l, call[l].i) /\ call[l].i \in Nat
    BY <1>1, <1>3, CurrentFacts
  <2>2. \A k \in Slots : k >= call[l].i + 1 => k >= call[l].i
    BY <2>1, FanoutFacts
  <2> QED
    BY <2>1, <2>2 DEF CallOk
<1>4. CASE l # copy.level
  BY <1>1, <1>2, <1>4, CopyFacts
<1> QED
  BY <1>3, <1>4

\* A step of the copy that nobody sees, because the copy has no root in l4 yet.
LEMMA CopyUnseen ==
    ASSUME PtInv, copy # None, copy' # None, copy'.from = copy.from, copy'.to = copy.to, l4' = l4, OwnedOk',
           copy' \in [from : Spaces, to : Spaces, level : Levels],
           Trees(mem', Live), SeesSame(mem, mem', Live \ {copy.to}),
           CopyOk(mem', copy', call'), DOMAIN call' = Levels, call' = [l \in Levels |-> call'[l]],
           view' = ViewOf(mem', l4')
    PROVE  PtInv' /\ view' = view
<1>1. Live' = Live
  BY DEF Live
<1>2. SpacesOk'
  BY DEF PtInv, SpacesOk
<1>3. CopyInv'
  BY CopyFacts DEF CopyInv
<1>4. PtInv'
  BY <1>1, <1>2, <1>3 DEF PtInv
<1>5. view' = Sights(mem', Has(l4))
  BY InvFacts, ViewIs
<1>6. SeesSame(mem, mem', Has(l4))
  BY CopyFacts DEF SeesSame
<1>7. Sights(mem', Has(l4)) = Sights(mem, Has(l4))
  BY <1>6, SightsSame
<1> QED
  BY <1>4, <1>5, <1>7, InvFacts

\* The pages below an entry that is left out are left out.
LEMMA SkippedPages ==
    ASSUME NEW l \in Levels, NEW c, c.n \in Nat, c.i \in Nat, Skipped(c, l), NEW va \in UserVa,
           va \div Span(l) = Number(c)
    PROVE  SkipLo <= va /\ va < SkipHi
<1> DEFINE b == Span(l)
           a == Number(c)
<1>1. b \in Nat \ {0} /\ a \in Nat /\ va \in Nat
  <2>1. l \in 0..4 /\ 4 \in 0..4
    BY DEF Levels, TopLevel
  <2>2. b \in Nat \ {0} /\ Span(4) \in Nat
    BY <2>1, SpanFacts
  <2>3. va \in 0..(Span(4) - 1)
    BY UserFacts
  <2>4. c.n * Fanout \in Nat
    BY FanoutFacts
  <2>5. c.n * Fanout + c.i \in Nat
    BY <2>4
  <2> QED
    BY <2>2, <2>3, <2>5 DEF Number
<1>2. SkipLo <= a * b /\ a * b + b <= SkipHi
  BY DEF Skipped
<1>3. va = b * (va \div b) + (va % b) /\ va % b \in 0..(b - 1)
  BY <1>1, DivideFacts
<1>4. va \div b = a
  OBVIOUS
<1> HIDE DEF a, b
<1>5. va = b * a + (va % b)
  BY <1>3, <1>4
<1>6. b * a \in Nat /\ b * a = a * b
  BY <1>1
<1> DEFINE x == b * a
           y == va % b
<1>7. va = x + y /\ x \in Nat /\ y \in 0..(b - 1) /\ SkipLo <= x /\ x + b <= SkipHi
  BY <1>2, <1>3, <1>5, <1>6
<1>8. SkipLo \in Nat /\ SkipHi \in Nat
  <2>1. Span(4) \div 2 \in Nat
    <3>1. Span(4) \in Nat
      BY SpanFacts
    <3> QED
      BY <3>1
  <2> QED
    BY <2>1, PageFacts
<1> HIDE DEF x, y
<1> QED
  BY <1>1, <1>7, <1>8

LEMMA CopySkipsStep ==
    ASSUME PtInv, CopySkips, view' = ViewOf(mem', l4')
    PROVE  PtInv' /\ view' = view
<1> DEFINE l == copy.level
           c == call[l]
<1>1. /\ Visiting /\ copy # None /\ c.i < Last(l) /\ call' = Continue /\ UNCHANGED <<mem, l4, owned, copy>>
      /\ EntryOf(c).kind = "absent" \/ Skipped(c, l)
  BY DEF CopySkips, Visiting
<1>2. /\ l \in Levels /\ c.n \in Nos(l) /\ c.n \in Nat /\ c.i \in Nat /\ c.i \in Slots
      /\ IsTable(mem, copy.from, l, c.n) /\ IsTable(mem, copy.to, l, c.n) /\ IsEntry(EntryOf(c))
      /\ EntryOf(c) = Ent(mem, copy.from, l, c.n, c.i) /\ Ent(mem, copy.to, l, c.n, c.i) = Absent
  BY <1>1, CurrentFacts
<1>3. copy.from \in Live /\ copy.to \in Live /\ Trees(mem, Live) /\ DoneOk(mem, copy, call)
  BY <1>1, CopyFacts
<1> HIDE DEF c, l
<1>4. Number(c) = Sub(c.n, c.i)
  BY LastFacts
<1>5. ASSUME NEW va \in UserVa, va \div Span(l) = Number(c) PROVE Done(mem, copy, va)
  <2>1. Seen(mem, copy.to, va) = None
    BY <1>2, <1>3, <1>4, <1>5, AbsentEntry
  <2>2. CASE EntryOf(c).kind = "absent"
    <3>1. Ent(mem, copy.from, l, c.n, c.i) = Absent
      BY <2>2, <1>2, KindFacts
    <3>2. Seen(mem, copy.from, va) = None
      BY <3>1, <1>2, <1>3, <1>4, <1>5, AbsentEntry
    <3> QED
      BY <2>1, <3>2 DEF Done
  <2>3. CASE Skipped(c, l)
    <3>1. SkipLo <= va /\ va < SkipHi
      BY <2>3, <1>2, <1>5, SkippedPages
    <3> QED
      BY <2>1, <3>1 DEF Done
  <2> QED
    BY <1>1, <2>2, <2>3
<1>6. ASSUME NEW va \in UserVa, va \div Span(l) <= Number(c) PROVE Done(mem, copy, va)
  <2>1. va \div Span(l) \in Nat
    <3>1. va \div Span(l) \in Nos(l - 1)
      BY <1>2, VaFacts, UserFacts
    <3> QED
      BY <3>1 DEF Nos
  <2>2. Number(c) \in Nat
    <3>1. Sub(c.n, c.i) \in Nos(l - 1)
      BY <1>2, Numbers
    <3> QED
      BY <3>1, <1>4 DEF Nos
  <2>3. va \div Span(l) < Number(c) \/ va \div Span(l) = Number(c)
    BY <2>1, <2>2, <1>6
  <2>4. va \div Span(l) < Number(c) => Done(mem, copy, va)
    BY <1>3 DEF DoneOk, c, l
  <2> QED
    BY <2>3, <2>4, <1>5
<1>7. CopyOk(mem, copy, Continue) /\ DOMAIN Continue = Levels /\ Continue = [q \in Levels |-> Continue[q]]
  BY <1>1, <1>6, Finished, CopyAdvances DEF c, l
<1>8. OwnedOk'
  BY <1>1 DEF PtInv, OwnedOk
<1>9. copy' # None /\ copy'.from = copy.from /\ copy'.to = copy.to /\ copy' \in [from : Spaces, to : Spaces, level : Levels]
  BY <1>1 DEF PtInv, CopyInv
<1>10. Trees(mem', Live) /\ SeesSame(mem, mem', Live \ {copy.to}) /\ CopyOk(mem', copy', call')
  BY <1>1, <1>3, <1>7 DEF SeesSame
<1> QED
  BY <1>1, <1>7, <1>8, <1>9, <1>10, CopyUnseen

\* The tables of a process are those of the user half.
LEMMA UserTable ==
    ASSUME NEW m, NEW live, Trees(m, live), NEW s \in live, s # Kernel, NEW va \in AllVa,
           IsTable(m, s, 0, No(va, 0))
    PROVE  va \in UserVa
<1>1. /\ \A l \in 0..2 : /\ No(va, l) \in Nos(l) /\ Up(No(va, l)) = No(va, l + 1)
                         /\ At(No(va, l)) = pt_index(va, l + 1)
      /\ va \in UserVa <=> pt_index(va, 3) \in UserSlots
  BY Path DEF Levels, TopLevel
<1>2. \A l \in 0..2 : IsTable(m, s, l, No(va, l)) =>
                         IsTable(m, s, l + 1, No(va, l + 1)) /\ Own(s, l + 1, pt_index(va, l + 1))
  BY <1>1 DEF Trees, Upward
<1>3. IsTable(m, s, 1, No(va, 1))
  BY <1>2, 0 \in 0..2, 0 + 1 = 1
<1>4. IsTable(m, s, 2, No(va, 2))
  BY <1>2, <1>3, 1 \in 0..2, 1 + 1 = 2
<1>5. Own(s, 3, pt_index(va, 3))
  BY <1>2, <1>4, 2 \in 0..2, 2 + 1 = 3
<1> QED
  BY <1>1, <1>5 DEF Own

LEMMA CopyPageStep ==
    ASSUME PtInv, CopyPage, view' = ViewOf(mem', l4')
    PROVE  PtInv' /\ view' = view
<1> DEFINE c == call[0]
           n == c.n
           k == c.i
           s == copy.from
           t == copy.to
           va == Number(c)
           f == Home(t, -1, va)
           e == EntryOf(c)
           g == Leaf(f, e.rights)
<1>1. /\ Visiting /\ copy # None /\ copy.level = 0 /\ k < Last(0) /\ e.kind = "leaf" /\ ~Skipped(c, 0)
      /\ mem' = Put(mem, c.dst, k, g) /\ owned' = [owned EXCEPT ![t] = @ \cup {f}]
      /\ call' = Continue /\ UNCHANGED <<l4, copy>>
  BY DEF CopyPage, Needed, Visiting, Copied
<1>2. /\ 0 \in Levels /\ n \in Nos(0) /\ n \in Nat /\ k \in Nat /\ k \in Slots
      /\ IsTable(mem, s, 0, n) /\ IsTable(mem, t, 0, n) /\ c.dst = Home(t, 0, n)
      /\ IsEntry(e) /\ Own(s, 0, k) /\ e = Ent(mem, s, 0, n, k)
  BY <1>1, CurrentFacts
<1>3. /\ s \in Live /\ t \in Live /\ s # t /\ t # Kernel /\ s # Kernel /\ t \in Spaces
      /\ Trees(mem, Live) /\ LiveSet(Live) /\ DoneOk(mem, copy, call)
      /\ copy \in [from : Spaces, to : Spaces, level : Levels]
  BY <1>1, CopyFacts DEF PtInv, CopyInv
<1>4. e.to \in Nat /\ e.rights \in Rights /\ e = Leaf(e.to, e.rights)
  BY <1>1, <1>2, KindFacts
<1> HIDE DEF e
<1>5. va = Sub(n, k) /\ va \in Nos(-1) /\ va \in AllVa /\ va \in Nat /\ Span(0) = 1 /\ va \div Span(0) = va
  <2>1. va = Sub(n, k)
    BY LastFacts
  <2>2. Sub(n, k) \in Nos(0 - 1) /\ 0 - 1 = -1
    BY <1>2, Numbers
  <2>3. va \in Nos(-1)
    BY <2>1, <2>2
  <2>4. va \in AllVa /\ Span(0) = 1
    BY <2>3, NosFacts, SpanFacts
  <2>5. va \in Nat
    BY <2>3 DEF Nos
  <2>6. va \div 1 = va
    BY <2>5
  <2> QED
    BY <2>1, <2>3, <2>4, <2>5, <2>6
<1>6. No(va, 0) = n /\ pt_index(va, 0) = k
  BY <1>2, <1>5, BelowEntry
<1>7. va \in UserVa
  BY <1>2, <1>3, <1>5, <1>6, UserTable
<1>8. f \in Nat /\ f \in PagesOf(t) /\ f \in {Home(t, -1, p) : p \in Nos(-1)}
  <2>1. t \in Nat
    BY <1>3, PageFacts
  <2>2. Home(t, -1, va) \in Nat
    BY <2>1, <1>5, HomeFacts
  <2> QED
    BY <2>2, <1>5 DEF PagesOf
<1> HIDE DEF va, f
<1>9. IsEntry(g) /\ g.kind = "leaf" /\ g.kind # "table" /\ g.to = f /\ g = Leaf(f, e.rights)
  BY <1>4, <1>8, Kinds DEF IsEntry
<1> HIDE DEF g
<1>10. /\ Trees(mem', Live) /\ DOMAIN mem' = DOMAIN mem
       /\ \A u \in Live, l \in Levels, j \in Slots : \A p \in Nos(l) :
             IsTable(mem, u, l, p) =>
                Ent(mem', u, l, p, j) = IF u = t /\ l = 0 /\ p = n /\ j = k THEN g ELSE Ent(mem, u, l, p, j)
       /\ Seen(mem', t, va) = Found(g, va, 0)
       /\ \A u \in Live, wa \in AllVa : ~(u = t /\ wa = va) => Seen(mem', u, wa) = Seen(mem, u, wa)
  <2>1. mem' = Put(mem, Home(t, 0, No(va, 0)), pt_index(va, 0), g)
    BY <1>1, <1>2, <1>6
  <2>2. IsTable(mem, t, 0, No(va, 0)) /\ (t # Kernel /\ g.kind = "leaf" => g.to \in PagesOf(t))
    BY <1>2, <1>6, <1>8, <1>9
  <2>3. /\ Trees(mem', Live) /\ DOMAIN mem' = DOMAIN mem
        /\ \A u \in Live, l \in Levels, j \in Slots : \A p \in Nos(l) :
              IsTable(mem, u, l, p) =>
                 Ent(mem', u, l, p, j) = IF u = t /\ l = 0 /\ p = No(va, 0) /\ j = pt_index(va, 0)
                                         THEN g ELSE Ent(mem, u, l, p, j)
        /\ Seen(mem', t, va) = Found(g, va, 0)
        /\ \A u \in Live, wa \in AllVa : ~(u = t /\ wa = va) => Seen(mem', u, wa) = Seen(mem, u, wa)
    <3>1. va \in AllVa /\ Walks(t, va) /\ \A u : Sees(t, u, va) <=> u = t
      BY <1>7, UserFacts DEF Walks, Sees
    <3> QED
      BY <3>1, <2>1, <2>2, <1>3, <1>9, PutSeen
  <2> QED
    BY <2>3, <1>6
<1>11. \A wa \in UserVa : wa \in AllVa
  BY UserFacts
<1>12. ASSUME NEW wa \in UserVa, wa # va, Done(mem, copy, wa) PROVE Done(mem', copy, wa)
  BY <1>3, <1>10, <1>11, <1>12 DEF Done
<1>13. Done(mem', copy, va)
  <2>1. ~(SkipLo <= va /\ va < SkipHi)
    <3>1. SkipHi \in Nat
      <4>1. Span(4) \in Nat
        BY SpanFacts
      <4>2. Span(4) \div 2 \in Nat
        BY <4>1
      <4> QED
        BY <4>2, PageFacts
    <3>2. ~(SkipLo <= va * 1 /\ va * 1 + 1 <= SkipHi)
      BY <1>1, <1>5 DEF Skipped, va
    <3> QED
      BY <3>1, <3>2, <1>5
  <2>2. Seen(mem', s, va) = Seen(mem, s, va)
    BY <1>3, <1>5, <1>10
  <2>3. Seen(mem, s, va) = Found(e, va, 0)
    <3>1. Walks(s, va) /\ IsTable(mem, s, 0, No(va, 0)) /\ Step(mem, s, va, 0) = e /\ e.kind # "table"
      BY <1>1, <1>2, <1>6, <1>7 DEF Walks, Step
    <3> QED
      BY <3>1, <1>2, <1>3, <1>5, Reach
  <2>4. Found(e, va, 0) = [frame |-> e.to, rights |-> e.rights]
    BY <1>4, <1>5, FoundFacts
  <2>5. Seen(mem', s, va).rights = e.rights
    BY <2>2, <2>3, <2>4
  <2>6. Seen(mem', t, va) = [frame |-> f, rights |-> e.rights]
    BY <1>5, <1>8, <1>9, <1>10, FoundFacts
  <2>7. Seen(mem', s, va) # None
    <3>1. [frame |-> e.to, rights |-> e.rights] \in Page
      BY <1>4 DEF Page
    <3> QED
      BY <3>1, <2>2, <2>3, <2>4, PageFacts
  <2> QED
    BY <2>1, <2>5, <2>6, <2>7 DEF Done, f
<1>14. ASSUME NEW wa \in UserVa, wa \div Span(0) <= va PROVE Done(mem', copy, wa)
  <2>1. wa \in Nat
    <3>1. Span(4) \in Nat
      BY SpanFacts
    <3> QED
      BY <3>1, <1>11, UserFacts
  <2>2. wa \div Span(0) = wa
    <3>1. wa \div 1 = wa
      BY <2>1
    <3> QED
      BY <3>1, <1>5
  <2>3. CASE wa = va
    BY <2>3, <1>13
  <2>4. CASE wa # va
    <3>1. wa \div Span(0) < va
      BY <2>1, <2>2, <2>4, <1>5, <1>14
    <3>2. Done(mem, copy, wa)
      BY <3>1, <1>1, <1>3 DEF DoneOk, va
    <3> QED
      BY <3>2, <2>4, <1>12
  <2> QED
    BY <2>3, <2>4
<1>15. ASSUME NEW l \in Levels, l >= copy.level PROVE CallOk(mem', copy, call[l], l, call[l].i + 1)
  <2>1. CallOk(mem, copy, call[l], l, call[l].i + 1)
    BY <1>1, <1>15, Finished
  <2>2. /\ call[l].n \in Nos(l) /\ IsTable(mem, s, l, call[l].n) /\ IsTable(mem, t, l, call[l].n)
    BY <2>1 DEF CallOk
  <2>3. IsTable(mem', s, l, call[l].n) /\ IsTable(mem', t, l, call[l].n)
    BY <2>2, <1>10 DEF IsTable
  <2>4. ASSUME NEW j \in Slots, j >= call[l].i + 1
        PROVE  Ent(mem', t, l, call[l].n, j) = Ent(mem, t, l, call[l].n, j)
    <3>1. ~(l = 0 /\ j = k)
      BY <2>4, <1>2 DEF c
    <3> QED
      BY <3>1, <2>2, <1>3, <1>10
  <2> QED
    BY <2>1, <2>3, <2>4 DEF CallOk
<1>16. CopyOk(mem', copy, Continue) /\ DOMAIN Continue = Levels /\ Continue = [q \in Levels |-> Continue[q]]
  BY <1>1, <1>14, <1>15, CopyAdvances DEF va, c
<1>17. OwnedOk'
  BY <1>1, <1>3, <1>8 DEF PtInv, OwnedOk
<1>18. SeesSame(mem, mem', Live \ {copy.to})
  BY <1>10 DEF SeesSame
<1> QED
  BY <1>1, <1>3, <1>10, <1>16, <1>17, <1>18, CopyUnseen

\* A table stands for as many pages as the entry that links it.
LEMMA EntryPages ==
    ASSUME NEW l \in 0..2, NEW a \in Nat, NEW va \in UserVa
    PROVE  va \div Span(l) < a * Fanout <=> va \div Span(l + 1) < a
<1>1. Span(4) \in Nat /\ Span(l) \in Nat \ {0} /\ l \in 0..3 /\ Fanout \in Nat \ {0}
  <2>1. l \in 0..3 /\ l \in 0..4 /\ 4 \in 0..4
    OBVIOUS
  <2> QED
    BY <2>1, SpanFacts, FanoutFacts
<1>2. va \in Nat
  BY <1>1, UserFacts
<1>3. va \div Span(l + 1) = (va \div Span(l)) \div Fanout
  BY <1>1, <1>2, SpanDown
<1>4. va \div Span(l) \in Nat
  BY <1>1, <1>2, DivideFacts
<1> DEFINE x == va \div Span(l)
<1> HIDE DEF x
<1>5. x < a * Fanout <=> x \div Fanout < a
  BY <1>1, <1>4, DivideLess DEF x
<1> QED
  BY <1>3, <1>5 DEF x

LEMMA CopyTableStep ==
    ASSUME PtInv, CopyTable, view' = ViewOf(mem', l4')
    PROVE  PtInv' /\ view' = view
<1> DEFINE l == copy.level
           c == call[l]
           n == c.n
           k == c.i
           s == copy.from
           t == copy.to
           h == Number(c)
           f == Home(t, l - 1, h)
           d == [src |-> EntryOf(c).to, dst |-> f, n |-> h, i |-> 0]
<1>1. /\ Visiting /\ copy # None /\ l > 0 /\ k < Last(l) /\ EntryOf(c).kind = "table"
      /\ mem' = Link(mem, c.dst, k, f, NoEntries) /\ copy' = [copy EXCEPT !.level = @ - 1]
      /\ call' = [call EXCEPT ![l - 1] = d] /\ UNCHANGED <<l4, owned>>
  BY DEF CopyTable, Needed, Visiting, Copied
<1>2. /\ l \in Levels /\ n \in Nos(l) /\ n \in Nat /\ k \in Nat /\ k \in Slots /\ (l = 3 => k \in UserSlots)
      /\ IsTable(mem, s, l, n) /\ IsTable(mem, t, l, n) /\ c.dst = Home(t, l, n)
      /\ Own(s, l, k) /\ EntryOf(c) = Ent(mem, s, l, n, k) /\ Ent(mem, t, l, n, k) = Absent
  BY <1>1, CurrentFacts
<1>3. /\ s \in Live /\ t \in Live /\ s # t /\ t # Kernel /\ s \in Spaces /\ t \in Spaces
      /\ copy = [from |-> s, to |-> t, level |-> l]
      /\ Trees(mem, Live) /\ LiveSet(Live) /\ DoneOk(mem, copy, call) /\ NestOk(copy, call)
      /\ DOMAIN call = Levels /\ call = [q \in Levels |-> call[q]]
  BY <1>1, CopyFacts
<1>4. PICK q \in 0..2 : q = l - 1 /\ q + 1 = l /\ q \in Levels /\ q + 1 \in Levels /\ q # q + 1
  BY <1>1, <1>2 DEF Levels, TopLevel
<1>5. h = Sub(n, k) /\ h \in Nos(q) /\ h \in Nat
  <2>1. h = Sub(n, k)
    BY LastFacts
  <2>2. Sub(n, k) \in Nos(l - 1)
    BY <1>2, Numbers
  <2> QED
    BY <2>1, <2>2, <1>4 DEF Nos
<1>6. EntryOf(c).to = Home(s, q, h) /\ IsTable(mem, s, q, h)
  BY <1>1, <1>2, <1>3, <1>4, <1>5, Kinds DEF Trees, Downward
<1>7. /\ d = [src |-> Home(s, q, h), dst |-> Home(t, q, h), n |-> h, i |-> 0]
      /\ copy' = [from |-> s, to |-> t, level |-> q]
      /\ call' = [call EXCEPT ![q] = d]
  BY <1>1, <1>3, <1>4, <1>6
<1> HIDE DEF d, h
<1>8. HasSplit(mem, Live, t, q, n, k, NoEntries)
  <2>1. Splits(mem, Live, t, q, n, k, NoEntries)
    BY <1>2, <1>3, <1>4 DEF Splits, Stands
  <2> QED
    BY <2>1, LinkSeen
<1>9. mem' = Link(mem, Home(t, q + 1, n), k, Home(t, q, Sub(n, k)), NoEntries)
  BY <1>1, <1>2, <1>4, <1>5
<1>10. /\ Trees(mem', Live) /\ DOMAIN mem' = DOMAIN mem \cup {Home(t, q, h)} /\ mem'[Home(t, q, h)] = NoEntries
       /\ \A u \in Live, m \in Levels, j \in Slots : \A p \in Nos(m) :
             IsTable(mem, u, m, p) =>
                Ent(mem', u, m, p, j) = IF u = t /\ m = q + 1 /\ p = n /\ j = k
                                        THEN TableEntry(Home(t, q, h)) ELSE Ent(mem, u, m, p, j)
       /\ \A u \in Live, va \in AllVa : Seen(mem', u, va) = Seen(mem, u, va)
  BY <1>5, <1>8, <1>9 DEF HasSplit
<1>11. call'[q] = d /\ \A m \in Levels : m # q => call'[m] = call[m]
  BY <1>3, <1>4, <1>7
<1>12. DOMAIN call' = Levels /\ call' = [m \in Levels |-> call'[m]]
  BY <1>3, <1>7
<1>13. CallOk(mem', copy', d, q, 0)
  <2>1. 0 \in 0..Last(q)
    <3>1. Last(q) \in Nat
      BY <1>4, LastFacts
    <3> QED
      BY <3>1
  <2>2. \A j \in Slots : Ent(mem', t, q, h, j) = Absent
    BY <1>10 DEF Ent, NoEntries
  <2>3. IsTable(mem', s, q, h) /\ IsTable(mem', t, q, h)
    BY <1>6, <1>10 DEF IsTable
  <2> QED
    BY <2>1, <2>2, <2>3, <1>5, <1>7 DEF CallOk
<1>14. ASSUME NEW m \in Levels, m >= l PROVE CallOk(mem', copy', call'[m], m, call'[m].i + 1)
  <2>1. CallOk(mem, copy, call[m], m, call[m].i + 1)
    BY <1>1, <1>14, Finished
  <2>2. call'[m] = call[m]
    <3>1. m # q
      BY <1>4, <1>14 DEF Levels, TopLevel
    <3> QED
      BY <3>1, <1>11
  <2>3. call[m].n \in Nos(m) /\ IsTable(mem, s, m, call[m].n) /\ IsTable(mem, t, m, call[m].n)
    BY <2>1 DEF CallOk
  <2>4. IsTable(mem', s, m, call[m].n) /\ IsTable(mem', t, m, call[m].n)
    BY <2>3, <1>10 DEF IsTable
  <2>5. ASSUME NEW j \in Slots, j >= call[m].i + 1
        PROVE  Ent(mem', t, m, call[m].n, j) = Ent(mem, t, m, call[m].n, j)
    <3>1. ~(m = l /\ j = k)
      BY <2>5, <1>2 DEF c, k
    <3> QED
      BY <3>1, <2>3, <1>3, <1>4, <1>10
  <2>6. copy'.from = s /\ copy'.to = t
    BY <1>7
  <2> QED
    BY <2>1, <2>2, <2>4, <2>5, <2>6 DEF CallOk
<1>15. ASSUME NEW m \in Levels, m >= copy'.level
       PROVE  CallOk(mem', copy', call'[m], m, IF m = copy'.level THEN call'[m].i ELSE call'[m].i + 1)
  <2>1. copy'.level = q
    BY <1>7
  <2>2. CASE m = q
    <3>1. d.i = 0
      BY <1>7
    <3> QED
      BY <2>1, <2>2, <3>1, <1>11, <1>13
  <2>3. CASE m # q
    <3>1. m >= l
      BY <2>1, <2>3, <1>4, <1>15 DEF Levels, TopLevel
    <3> QED
      BY <2>1, <2>3, <3>1, <1>14
  <2> QED
    BY <2>2, <2>3
<1>16. NestOk(copy', call')
  <2> SUFFICES ASSUME NEW m \in 0..2, m >= q
               PROVE  call'[m].n = Number(call'[m + 1]) /\ call'[m + 1].i < Last(m + 1)
    BY <1>7 DEF NestOk
  <2>1. m \in Levels /\ m + 1 \in Levels /\ m + 1 # q
    BY <1>4 DEF Levels, TopLevel
  <2>2. call'[m + 1] = call[m + 1]
    BY <2>1, <1>11
  <2>3. CASE m = q
    <3>1. call'[m].n = h
      BY <2>3, <1>7, <1>11
    <3>2. call[m + 1] = c
      BY <2>3, <1>4
    <3> QED
      BY <2>2, <2>3, <3>1, <3>2, <1>1, <1>4 DEF h
  <2>4. CASE m # q
    <3>1. m >= l
      BY <2>4, <1>4
    <3>2. call[m].n = Number(call[m + 1]) /\ call[m + 1].i < Last(m + 1)
      BY <3>1, <1>3 DEF NestOk
    <3> QED
      BY <2>1, <2>2, <2>4, <3>2, <1>11
  <2> QED
    BY <2>3, <2>4
<1>17. DoneOk(mem', copy', call')
  <2> SUFFICES ASSUME NEW va \in UserVa, va \div Span(q) < Number(d) PROVE Done(mem', copy', va)
    BY <1>7, <1>11 DEF DoneOk
  <2>1. Number(d) = h * Fanout
    <3>1. Number(d) = h * Fanout + 0
      BY <1>7 DEF Number
    <3>2. h * Fanout \in Nat
      BY <1>5, FanoutFacts
    <3> QED
      BY <3>1, <3>2
  <2>2. va \div Span(q + 1) < h
    BY <2>1, <1>5, EntryPages
  <2>3. Done(mem, copy, va)
    BY <2>2, <1>3, <1>4 DEF DoneOk, h
  <2>4. Seen(mem', s, va) = Seen(mem, s, va) /\ Seen(mem', t, va) = Seen(mem, t, va)
    BY <1>3, <1>10, UserFacts
  <2>5. copy'.from = s /\ copy'.to = t
    BY <1>7
  <2> QED
    BY <2>3, <2>4, <2>5 DEF Done
<1>18. CopyOk(mem', copy', call')
  BY <1>15, <1>16, <1>17 DEF CopyOk
<1>19. OwnedOk'
  BY <1>1 DEF PtInv, OwnedOk
<1>20. copy' \in [from : Spaces, to : Spaces, level : Levels] /\ copy' # None
  BY <1>3, <1>4, <1>7, PageFacts
<1>21. SeesSame(mem, mem', Live \ {copy.to}) /\ copy'.from = s /\ copy'.to = t
  BY <1>7, <1>10 DEF SeesSame
<1> QED
  BY <1>1, <1>10, <1>12, <1>18, <1>19, <1>20, <1>21, CopyUnseen

LEMMA CopyReturnsStep ==
    ASSUME PtInv, CopyReturns, view' = ViewOf(mem', l4')
    PROVE  PtInv' /\ view' = view
<1> DEFINE l == copy.level
           u == call[l + 1]
           d == [u EXCEPT !.i = @ + 1]
<1>1. /\ copy # None /\ l < 3 /\ call[l].i = Fanout /\ UNCHANGED <<mem, l4, owned>>
      /\ copy' = [copy EXCEPT !.level = @ + 1]
      /\ call' = [call EXCEPT ![l + 1].i = @ + 1, ![l] = NoCall]
  BY DEF CopyReturns, TopLevel
<1>2. /\ copy.from \in Spaces /\ copy.to \in Spaces /\ l \in Levels
      /\ copy = [from |-> copy.from, to |-> copy.to, level |-> l]
      /\ Trees(mem, Live) /\ DoneOk(mem, copy, call) /\ NestOk(copy, call)
      /\ DOMAIN call = Levels /\ call = [q \in Levels |-> call[q]]
      /\ \A q \in Levels : q >= l => CallOk(mem, copy, call[q], q, IF q = l THEN call[q].i ELSE call[q].i + 1)
  BY <1>1, CopyFacts
<1>3. l \in 0..2 /\ l + 1 \in Levels /\ l + 1 # l /\ l + 1 > l /\ l >= l
  BY <1>1, <1>2 DEF Levels, TopLevel
<1>4. call[l].n = Number(u) /\ u.i < Last(l + 1)
  BY <1>2, <1>3 DEF NestOk
<1>5. CallOk(mem, copy, u, l + 1, u.i + 1)
  BY <1>2, <1>3
<1>6. u = [src |-> u.src, dst |-> u.dst, n |-> u.n, i |-> u.i] /\ u.i \in 0..Last(l + 1) /\ Last(l + 1) \in Nat
      /\ u.n \in Nat /\ u.i \in Nat
  <2>1. u = [src |-> u.src, dst |-> u.dst, n |-> u.n, i |-> u.i] /\ u.i \in 0..Last(l + 1) /\ u.n \in Nos(l + 1)
    BY <1>5 DEF CallOk
  <2>2. Last(l + 1) \in Nat
    BY <1>3, LastFacts
  <2>3. u.n \in Nat
    BY <2>1 DEF Nos
  <2> QED
    BY <2>1, <2>2, <2>3
<1>7. d = [src |-> u.src, dst |-> u.dst, n |-> u.n, i |-> u.i + 1]
  BY <1>6
<1>8. /\ call'[l + 1] = d /\ DOMAIN call' = Levels /\ call' = [q \in Levels |-> call'[q]]
      /\ \A q \in Levels : q > l + 1 => call'[q] = call[q]
  <2>1. call' = [[call EXCEPT ![l + 1] = d] EXCEPT ![l] = NoCall]
    BY <1>1
  <2> HIDE DEF d, u
  <2>2. \A q \in Levels : q > l + 1 => q # l /\ q # l + 1
    BY <1>3 DEF Levels, TopLevel
  <2> QED
    BY <2>1, <2>2, <1>2, <1>3
<1> HIDE DEF d, u
<1>9. copy' = [from |-> copy.from, to |-> copy.to, level |-> l + 1]
  BY <1>1, <1>2
<1>10. copy'.from = copy.from /\ copy'.to = copy.to /\ copy'.level = l + 1
  BY <1>9
<1>11. CallOk(mem, copy, d, l + 1, d.i)
  <2>1. d.i \in 0..Last(l + 1)
    BY <1>4, <1>6, <1>7
  <2> QED
    BY <2>1, <1>5, <1>7 DEF CallOk
<1>12. ASSUME NEW q \in Levels, q >= l + 1
       PROVE  CallOk(mem, copy', call'[q], q, IF q = l + 1 THEN call'[q].i ELSE call'[q].i + 1)
  <2>1. CASE q = l + 1
    BY <2>1, <1>8, <1>10, <1>11 DEF CallOk
  <2>2. CASE q # l + 1
    <3>1. q > l + 1 /\ q >= l /\ q # l
      BY <2>2, <1>3, <1>12 DEF Levels, TopLevel
    <3>2. CallOk(mem, copy, call[q], q, call[q].i + 1)
      BY <3>1, <1>2
    <3> QED
      BY <2>2, <3>1, <3>2, <1>8, <1>10 DEF CallOk
  <2> QED
    BY <2>1, <2>2
<1>13. NestOk(copy', call')
  <2> SUFFICES ASSUME NEW m \in 0..2, m >= l + 1
               PROVE  call'[m].n = Number(call'[m + 1]) /\ call'[m + 1].i < Last(m + 1)
    BY <1>10 DEF NestOk
  <2>1. m \in Levels /\ m + 1 \in Levels /\ m + 1 > l + 1 /\ m >= l
    BY <1>3 DEF Levels, TopLevel
  <2>2. call'[m + 1] = call[m + 1]
    BY <2>1, <1>8
  <2>3. call'[m].n = call[m].n
    <3>1. CASE m = l + 1
      BY <3>1, <1>7, <1>8 DEF u
    <3>2. CASE m # l + 1
      <4>1. m > l + 1
        BY <3>2, <1>3
      <4> QED
        BY <4>1, <2>1, <1>8
    <3> QED
      BY <3>1, <3>2
  <2>4. call[m].n = Number(call[m + 1]) /\ call[m + 1].i < Last(m + 1)
    BY <2>1, <1>2 DEF NestOk
  <2> QED
    BY <2>2, <2>3, <2>4
<1>14. DoneOk(mem, copy', call')
  <2> SUFFICES ASSUME NEW va \in UserVa, va \div Span(l + 1) < Number(d) PROVE Done(mem, copy', va)
    BY <1>8, <1>10 DEF DoneOk
  <2> DEFINE a == Number(u)
  <2>1. a \in Nat /\ Number(d) = a + 1
    <3>1. u.n * Fanout \in Nat
      BY <1>6, FanoutFacts
    <3> DEFINE x == u.n * Fanout
    <3> HIDE DEF x
    <3>2. x + u.i \in Nat /\ x + (u.i + 1) = (x + u.i) + 1
      BY <3>1, <1>6 DEF x
    <3> QED
      BY <3>2, <1>7 DEF Number, x
  <2>2. Number(call[l]) = (a + 1) * Fanout
    <3>1. Number(call[l]) = a * Fanout + Fanout
      BY <1>1, <1>4 DEF Number
    <3> HIDE DEF a
    <3>2. a * Fanout + Fanout = (a + 1) * Fanout
      BY <2>1, FanoutFacts
    <3> QED
      BY <3>1, <3>2
  <2> HIDE DEF a
  <2>3. va \div Span(l) < (a + 1) * Fanout
    BY <2>1, <1>3, EntryPages, a + 1 \in Nat
  <2>4. Done(mem, copy, va)
    BY <2>2, <2>3, <1>2 DEF DoneOk
  <2> QED
    BY <2>4, <1>10 DEF Done
<1>15. CopyOk(mem', copy', call')
  <2>1. ASSUME NEW q \in Levels, q >= copy'.level
        PROVE  CallOk(mem, copy', call'[q], q, IF q = copy'.level THEN call'[q].i ELSE call'[q].i + 1)
    BY <2>1, <1>10, <1>12
  <2>2. CopyOk(mem, copy', call')
    BY <2>1, <1>13, <1>14 DEF CopyOk
  <2> QED
    BY <2>2, <1>1
<1>16. OwnedOk'
  BY <1>1 DEF PtInv, OwnedOk
<1>17. copy' \in [from : Spaces, to : Spaces, level : Levels] /\ copy' # None
  BY <1>2, <1>3, <1>9, PageFacts
<1>18. SeesSame(mem, mem', Live \ {copy.to}) /\ Trees(mem', Live)
  BY <1>1, <1>2 DEF SeesSame
<1> QED
  BY <1>1, <1>8, <1>10, <1>15, <1>16, <1>17, <1>18, CopyUnseen

\* What a process finds in the user half is one of its pages.
LEMMA SeenPages ==
    ASSUME NEW m, NEW live, Trees(m, live), NEW s \in live, s # Kernel, NEW va \in UserVa, Seen(m, s, va) # None
    PROVE  Seen(m, s, va).frame \in PagesOf(s)
<1>1. va \in AllVa /\ Walks(s, va)
  BY UserFacts DEF Walks
<1>2. PICK l \in Levels : /\ IsTable(m, s, l, No(va, l))
                          /\ Seen(m, s, va) = Found(Step(m, s, va, l), va, l)
  BY <1>1, Reach
<1> DEFINE e == Step(m, s, va, l)
<1>3. No(va, l) \in Nos(l) /\ pt_index(va, l) \in Slots /\ (l = 3 => pt_index(va, l) \in UserSlots)
  BY <1>1, Path
<1>4. e.kind = "leaf"
  BY <1>2 DEF Found
<1>5. IsEntry(e)
  BY <1>2, <1>3 DEF Step, Ent, Trees, Filled, IsTable
<1>6. l = 0 /\ e.to \in PagesOf(s)
  <2>1. Own(s, l, pt_index(va, l))
    BY <1>3 DEF Own
  <2> QED
    BY <2>1, <1>2, <1>3, <1>4 DEF Trees, Plain, Step
<1>7. e = Leaf(e.to, e.rights) /\ e.to \in Nat
  BY <1>4, <1>5, KindFacts
<1> HIDE DEF e
<1>8. Found(e, va, 0) = [frame |-> e.to, rights |-> e.rights]
  BY <1>1, <1>7, FoundFacts
<1>9. Seen(m, s, va) = [frame |-> e.to, rights |-> e.rights]
  BY <1>2, <1>6, <1>8 DEF e
<1> QED
  BY <1>6, <1>9

\* The copies made for a process are no pages of another.
LEMMA CopyApart ==
    ASSUME NEW s \in Spaces, NEW t \in Spaces, s # t, NEW va \in AllVa
    PROVE  /\ Home(t, -1, va) \notin PagesOf(s) /\ Home(t, -1, va) \in Nat
           /\ \A wa \in AllVa : va # wa => Home(t, -1, va) # Home(t, -1, wa)
<1>1. s \in Nat /\ t \in Nat /\ va \in Nos(-1) /\ Nos(-1) = AllVa /\ -1 \in -1..3
  BY PageFacts, NosFacts
<1>2. Home(t, -1, va) \in Nat /\ Home(t, -1, va) >= Span(4)
  BY <1>1, HomeFacts
<1>3. \A wa \in AllVa : Home(t, -1, va) = Home(t, -1, wa) => va = wa
  BY <1>1, Apart
<1>4. \A wa \in AllVa : Home(t, -1, va) # Home(s, -1, wa)
  BY <1>1, Apart
<1>5. Home(t, -1, va) \notin Memory
  <2>1. Span(4) \in Nat
    BY SpanFacts
  <2>2. Memory \subseteq 0..(Span(4) - 1)
    BY PageFacts
  <2> QED
    BY <2>1, <2>2, <1>2
<1> QED
  BY <1>1, <1>2, <1>3, <1>4, <1>5 DEF PagesOf

LEMMA CopyEndsStep ==
    ASSUME PtInv, CopyEnds, view' = ViewOf(mem', l4')
    PROVE  PtInv' /\ [Flat!Next]_view
<1> DEFINE s == copy.from
           t == copy.to
           c == call[3]
           b == [va \in AllVa |-> Seen(mem, t, va)]
<1>1. /\ copy # None /\ copy.level = 3 /\ c.i = Last(3) /\ copy' = None /\ call' = NoCalls
      /\ l4' = [l4 EXCEPT ![t] = c.dst] /\ UNCHANGED <<mem, owned>>
  BY DEF CopyEnds, TopLevel
<1>2. /\ s \in Spaces /\ t \in Spaces /\ s # t /\ s # Kernel /\ t # Kernel /\ l4[s] # None /\ l4[t] = None
      /\ s \in Live /\ t \in Live /\ t \notin Has(l4) /\ Live = Has(l4) \cup {t}
      /\ Trees(mem, Live) /\ LiveSet(Live) /\ DoneOk(mem, copy, call)
  BY <1>1, CopyFacts
<1>3. c.n = 0 /\ c.dst = Home(t, 3, 0)
  <2>1. c.n \in Nos(3) /\ c.dst = Home(t, 3, c.n)
    BY <1>1, CurrentFacts
  <2> QED
    BY <2>1, Numbers
<1>4. ASSUME NEW va \in UserVa PROVE Done(mem, copy, va)
  <2>1. va \div Span(3) = Sub(No(va, 3), pt_index(va, 3)) /\ No(va, 3) = 0 /\ pt_index(va, 3) \in UserSlots
    BY Path, UserFacts DEF Levels, TopLevel
  <2>2. Half \in Nat /\ Fanout \in Nat /\ UserSlots = 0..(Half - 1) /\ Last(3) = Half
    BY FanoutFacts, LastFacts
  <2>3. va \div Span(3) < Half
    BY <2>1, <2>2 DEF Sub
  <2>4. Number(c) = Half
    BY <2>2, <1>1, <1>3 DEF Number
  <2> QED
    BY <2>3, <2>4, <1>1, <1>2 DEF DoneOk
<1> HIDE DEF c
<1>4a. \A va \in AllVa : /\ Home(t, -1, va) \notin PagesOf(s) /\ Home(t, -1, va) \in Nat
                         /\ \A wa \in AllVa : va # wa => Home(t, -1, va) # Home(t, -1, wa)
  BY <1>2, CopyApart
<1>4b. \A va \in AllVa : Seen(mem, s, va) \in Page \cup {None}
  BY <1>2, SeenType
<1>5. DOMAIN l4 = Everyone /\ l4 = [u \in Everyone |-> l4[u]] /\ t \in Everyone /\ s \in Everyone
  BY <1>2 DEF PtInv, SpacesOk, Everyone
<1>6. Home(t, 3, 0) # None
  BY <1>2, SpaceFacts
<1>7. Has(l4') = Has(l4) \cup {t} /\ s \in Has(l4) /\ Kernel \in Has(l4)
  BY <1>1, <1>2, <1>3, <1>5, <1>6, InvFacts DEF Has
<1>8. Live' = Live
  BY <1>1, <1>2, <1>3, <1>5, <1>6 DEF Live, Everyone
<1>9. SpacesOk'
  BY <1>1, <1>2, <1>3, <1>5, <1>6 DEF PtInv, SpacesOk, Everyone
<1>10. OwnedOk' /\ CopyInv' /\ Trees(mem', Live')
  BY <1>1, <1>2, <1>8 DEF PtInv, OwnedOk, CopyInv, NoCalls
<1>11. PtInv'
  BY <1>9, <1>10 DEF PtInv
<1>12. view' = Sights(mem, Has(l4) \cup {t})
  <2>1. \A u \in Everyone : l4'[u] # None => l4'[u] = Home(u, 3, 0)
    BY <1>9 DEF SpacesOk, Everyone
  <2>2. view' = Sights(mem', Has(l4'))
    BY <2>1, ViewIs
  <2> QED
    BY <2>2, <1>1, <1>7
<1>13. view' = [view EXCEPT ![t] = b] /\ view[t] = None
  <2>1. SeesSame(mem, mem, Has(l4))
    BY DEF SeesSame
  <2> QED
    BY <2>1, <1>2, <1>5, <1>12, InvFacts, SightsNew
<1>14. b # None /\ view'[t] = b
  BY <1>2, <1>5, <1>12, SightExists DEF Sights
<1>15. /\ view[Kernel] = [va \in AllVa |-> Seen(mem, Kernel, va)]
       /\ view[s] = [va \in AllVa |-> Seen(mem, s, va)] /\ Flat!Exists(s)
  BY <1>5, <1>7, Exists DEF Everyone
<1>16. \A va \in KernelVa : b[va] = view[Kernel][va]
  <2>1. \A va \in KernelVa : va \in AllVa /\ va \notin UserVa
    BY UserFacts DEF AllVa
  <2>2. \A va \in KernelVa : Seen(mem, t, va) = Seen(mem, Kernel, va)
    BY <2>1, <1>2, KernelHalf
  <2> QED
    BY <2>1, <2>2, <1>15
<1>17. \A va \in UserVa : va \in AllVa /\ b[va] = Seen(mem, t, va) /\ view[s][va] = Seen(mem, s, va)
  BY <1>15, UserFacts
<1>18. ASSUME NEW va \in UserVa \ (SkipLo..(SkipHi - 1)) PROVE Flat!IsCopy(view[s][va], b[va])
  <2>1. ~(SkipLo <= va /\ va < SkipHi)
    <3>1. Span(4) \in Nat
      BY SpanFacts
    <3>2. Span(4) \div 2 \in Nat
      BY <3>1
    <3>3. SkipLo \in Nat /\ SkipHi \in Nat /\ va \in Nat
      BY <3>1, <3>2, PageFacts, UserFacts
    <3> QED
      BY <3>3
  <2>2. CASE Seen(mem, s, va) = None
    BY <2>2, <1>4, <1>17 DEF Done, Flat!IsCopy
  <2>3. CASE Seen(mem, s, va) # None
    <3>1. b[va] = [frame |-> Home(t, -1, va), rights |-> Seen(mem, s, va).rights]
      BY <2>1, <2>3, <1>4, <1>17 DEF Done
    <3>2. Seen(mem, s, va).frame \in PagesOf(s)
      BY <2>3, <1>2, SeenPages
    <3>3. Home(t, -1, va) # Seen(mem, s, va).frame /\ Home(t, -1, va) \in Nat
      BY <3>2, <1>17, <1>4a
    <3>4. b[va] # None
      <4>1. Seen(mem, s, va) \in Page
        BY <2>3, <1>17, <1>4b
      <4>2. Seen(mem, s, va).rights \in Rights
        BY <4>1 DEF Page
      <4>3. b[va] \in Page
        BY <3>1, <3>3, <4>2 DEF Page
      <4> QED
        BY <4>3, PageFacts
    <3> DEFINE p == Seen(mem, s, va)
               q == b[va]
    <3> HIDE DEF b, p
    <3>5. q.rights = p.rights /\ q.frame # p.frame
      BY <3>1, <3>3 DEF p
    <3> QED
      BY <2>3, <3>4, <3>5, <1>17 DEF Flat!IsCopy, p
  <2> QED
    BY <2>2, <2>3
<1>19. ASSUME NEW va \in SkipLo..(SkipHi - 1) PROVE b[va] = None
  <2>1. va \in UserVa /\ SkipLo <= va /\ va < SkipHi
    <3>1. Span(4) \in Nat
      BY SpanFacts
    <3>2. Span(4) \div 2 \in Nat
      BY <3>1
    <3>3. SkipLo \in Nat /\ SkipHi \in 0..(Span(4) \div 2)
      BY PageFacts
    <3>4. UserVa = 0..(Span(4) \div 2 - 1)
      BY DEF UserVa, TopLevel
    <3> DEFINE x == Span(4) \div 2
    <3> HIDE DEF x
    <3>5. va \in 0..(x - 1) /\ SkipLo <= va /\ va < SkipHi
      BY <3>2, <3>3 DEF x
    <3> QED
      BY <3>4, <3>5 DEF x
  <2> QED
    BY <2>1, <1>4, <1>17 DEF Done
<1>20. ASSUME NEW va \in UserVa, NEW wa \in UserVa, va # wa, b[va] # None, b[wa] # None
       PROVE  b[va].frame # b[wa].frame
  <2>1. b[va].frame = Home(t, -1, va) /\ b[wa].frame = Home(t, -1, wa)
    <3>1. ASSUME NEW x \in UserVa, Seen(mem, t, x) # None PROVE Seen(mem, t, x).frame = Home(t, -1, x)
      <4>1. Seen(mem, t, x) = [frame |-> Home(t, -1, x), rights |-> Seen(mem, s, x).rights]
        BY <3>1, <1>4 DEF Done
      <4> QED
        BY <4>1
    <3> QED
      BY <3>1, <1>17, <1>20
  <2>3. Home(t, -1, va) # Home(t, -1, wa)
    BY <1>17, <1>20, <1>4a
  <2> QED
    BY <2>1, <2>3
<1> HIDE DEF b
<1>21. Flat!Copy(s, t)
  BY <1>13, <1>14, <1>15, <1>16, <1>18, <1>19, <1>20 DEF Flat!Copy, Flat!Appears, Flat!Exists
<1> QED
  BY <1>2, <1>11, <1>21 DEF Flat!Next

LEMMA CopyFailsStep ==
    ASSUME PtInv, CopyFails, view' = ViewOf(mem', l4')
    PROVE  PtInv' /\ view' = view
<1> DEFINE t == copy.to
<1>1. /\ copy # None /\ mem' = free_page_table(mem, call[3].dst)
      /\ owned' = [owned EXCEPT ![t] = {}] /\ copy' = None /\ call' = NoCalls /\ l4' = l4
  BY DEF CopyFails, Needed, Visiting, TopLevel
<1>2. /\ t \in Spaces /\ t # Kernel /\ t \in Live /\ t \notin Has(l4) /\ Live = Has(l4) \cup {t}
      /\ Trees(mem, Live) /\ LiveSet(Live) /\ copy.level \in Levels
      /\ \A l \in Levels : l >= copy.level =>
            CallOk(mem, copy, call[l], l, IF l = copy.level THEN call[l].i ELSE call[l].i + 1)
  BY <1>1, CopyFacts
<1>3. call[3].dst = Home(t, 3, 0)
  <2>1. 3 \in Levels /\ 3 >= copy.level
    BY <1>2 DEF Levels, TopLevel
  <2>2. call[3].n \in Nos(3) /\ call[3].dst = Home(t, 3, call[3].n)
    BY <2>1, <1>2 DEF CallOk
  <2> QED
    BY <2>2, Numbers
<1>4. Trees(mem', Live \ {t}) /\ SeesSame(mem, mem', Live \ {t})
  BY <1>1, <1>2, <1>3, FreeSeen
<1>5. Live' = Live \ {t} /\ Has(l4) = Live \ {t}
  <2>1. Live' = Has(l4)
    <3>1. Kernel \in Has(l4)
      BY InvFacts
    <3> QED
      BY <3>1, <1>1 DEF Live, Has, Everyone
  <2> QED
    BY <2>1, <1>2
<1>6. SpacesOk' /\ CopyInv'
  BY <1>1 DEF PtInv, SpacesOk, CopyInv, NoCalls
<1>7. OwnedOk'
  BY <1>1, <1>2 DEF PtInv, OwnedOk
<1>8. PtInv'
  BY <1>4, <1>5, <1>6, <1>7 DEF PtInv
<1>9. view' = Sights(mem', Has(l4))
  BY <1>1, InvFacts, ViewIs
<1>10. Sights(mem', Has(l4)) = Sights(mem, Has(l4))
  BY <1>4, <1>5, SightsSame
<1> QED
  BY <1>8, <1>9, <1>10, InvFacts

LEMMA CopyBeginsStep ==
    ASSUME PtInv, NEW s \in Spaces, NEW t \in Spaces, clone_user_address_space(s, t), view' = ViewOf(mem', l4')
    PROVE  PtInv' /\ view' = view
<1> DEFINE f == Home(t, 3, 0)
           d == [src |-> l4[s], dst |-> f, n |-> 0, i |-> 0]
<1>1. /\ l4[s] # None /\ l4[t] = None /\ copy = None /\ UNCHANGED <<l4, owned>>
      /\ mem' = AddRoot(mem, t) /\ copy' = [from |-> s, to |-> t, level |-> 3]
      /\ call' = [call EXCEPT ![3] = d]
  BY WithRootIs DEF clone_user_address_space, TopLevel
<1>2. s \in Has(l4) /\ t \in Nat /\ t \notin Live
  <2>1. Idle(t)
    BY <1>1 DEF Idle
  <2> QED
    BY <2>1, <1>1, SpaceFacts
<1>3. LiveSet(Live) /\ Trees(mem, Live) /\ Has(l4) \subseteq Live /\ l4[s] = Home(s, 3, 0)
  BY <1>1, InvFacts DEF PtInv, Everyone
<1>4. /\ LiveSet(Live \cup {t}) /\ Trees(mem', Live \cup {t}) /\ SeesSame(mem, mem', Live)
      /\ \A k \in UserSlots : Ent(mem', t, 3, 0, k) = Absent
  BY <1>1, <1>2, <1>3, RootSeen
<1>5. copy' \in [from : Spaces, to : Spaces, level : Levels] /\ 3 \in Levels
  BY <1>1 DEF Levels, TopLevel
<1>6. copy' # None /\ copy'.from = s /\ copy'.to = t /\ copy'.level = 3
  BY <1>1, <1>5, PageFacts
<1>7. Live' = Live \cup {t}
  BY <1>1, <1>6 DEF Live
<1>8. DOMAIN call' = Levels /\ call' = [l \in Levels |-> call'[l]] /\ call'[3] = d
  BY <1>1, <1>5 DEF PtInv, CopyInv
<1>9. CallOk(mem', copy', d, 3, 0)
  <2>1. IsTable(mem', s, 3, 0) /\ IsTable(mem', t, 3, 0)
    BY <1>2, <1>3, <1>4 DEF Trees, Rooted
  <2>2. 0 \in 0..Last(3) /\ 0 \in Nos(3)
    <3>1. Last(3) \in Nat
      BY <1>5, LastFacts
    <3> QED
      BY <3>1, Numbers
  <2>3. \A k \in Slots : k < Last(3) => Ent(mem', t, 3, 0, k) = Absent
    BY <1>4, LastFacts
  <2> QED
    BY <2>1, <2>2, <2>3, <1>3, <1>6 DEF CallOk
<1>10. ASSUME NEW l \in Levels, l >= copy'.level
       PROVE  CallOk(mem', copy', call'[l], l, IF l = copy'.level THEN call'[l].i ELSE call'[l].i + 1)
  <2>1. l = 3
    BY <1>6, <1>10 DEF Levels, TopLevel
  <2> QED
    BY <2>1, <1>6, <1>8, <1>9
<1>11. NestOk(copy', call')
  BY <1>6 DEF NestOk
<1>12. DoneOk(mem', copy', call')
  <2> SUFFICES ASSUME NEW va \in UserVa, va \div Span(3) < Number(d) PROVE FALSE
    BY <1>6, <1>8 DEF DoneOk
  <2>1. Number(d) = 0
    BY FanoutFacts DEF Number
  <2>2. va \div Span(3) \in Nat
    <3>1. va \div Span(3) \in Nos(3 - 1)
      BY <1>5, VaFacts, UserFacts
    <3> QED
      BY <3>1 DEF Nos
  <2> QED
    BY <2>1, <2>2
<1>13. CopyInv'
  BY <1>1, <1>5, <1>6, <1>8, <1>10, <1>11, <1>12 DEF CopyInv, CopyOk
<1>14. SpacesOk' /\ OwnedOk'
  BY <1>1 DEF PtInv, SpacesOk, OwnedOk
<1>15. PtInv'
  BY <1>4, <1>7, <1>13, <1>14 DEF PtInv
<1>16. view' = Sights(mem', Has(l4))
  BY <1>1, InvFacts, ViewIs
<1>17. Sights(mem', Has(l4)) = Sights(mem, Has(l4))
  <2>1. SeesSame(mem, mem', Has(l4))
    BY <1>3, <1>4 DEF SeesSame
  <2> QED
    BY <2>1, SightsSame
<1> QED
  BY <1>15, <1>16, <1>17, InvFacts

-----------------------------------------------------------------------------
(* The tables of the loader. *)

LoaderMem ==
    [t \in {BootRoot, BootLow, BootHigh} |->
        IF t = BootRoot
        THEN [k \in Slots |-> IF k = 0 THEN TableEntry(BootLow)
                              ELSE IF k = Fanout - 1 THEN TableEntry(BootHigh)
                              ELSE Absent]
        ELSE [NoEntries EXCEPT ![0] = Leaf(0, BootRights)]]

LEMMA LoaderFacts ==
    /\ BootRights \in Rights /\ 0 \in Slots /\ Fanout - 1 \in Slots /\ 0 # Fanout - 1 /\ 0 \in UserSlots
    /\ Fanout - 1 \notin UserSlots
    /\ BootRoot = Home(Kernel, 3, 0) /\ BootLow = Home(Kernel, 2, 0) /\ BootHigh = Home(Kernel, 2, Fanout - 1)
    /\ 0 \in Nos(2) /\ Fanout - 1 \in Nos(2)
    /\ \A l \in Levels : \A n \in Nos(l) :
          IsTable(LoaderMem, Kernel, l, n) <=> (l = 3 \/ (l = 2 /\ n \in {0, Fanout - 1}))
    /\ \A k \in Slots : Ent(LoaderMem, Kernel, 3, 0, k) = IF k \in {0, Fanout - 1}
                                                          THEN TableEntry(Home(Kernel, 2, k)) ELSE Absent
    /\ \A n \in {0, Fanout - 1}, k \in Slots :
          Ent(LoaderMem, Kernel, 2, n, k) = IF k = 0 THEN Leaf(0, BootRights) ELSE Absent
    /\ DOMAIN LoaderMem = {Home(Kernel, 3, 0), Home(Kernel, 2, 0), Home(Kernel, 2, Fanout - 1)}
<1>1. BootRights \in Rights
  BY PagingAssumption DEF BootRights
<1>2. 0 \in Slots /\ Fanout - 1 \in Slots /\ 0 # Fanout - 1 /\ 0 \in UserSlots /\ Fanout - 1 \notin UserSlots
  BY FanoutFacts
<1>3. 0 \in Nos(2) /\ Fanout - 1 \in Nos(2) /\ 0 \in Nos(3) /\ \A n \in Nos(3) : n = 0
  BY <1>2, Numbers
<1>4. BootRoot = Home(Kernel, 3, 0) /\ BootLow = Home(Kernel, 2, 0) /\ BootHigh = Home(Kernel, 2, Fanout - 1)
  BY DEF BootRoot, BootLow, BootHigh, TopLevel
<1>5. 3 \in Levels /\ 2 \in Levels /\ LiveSet({Kernel})
  BY PageFacts DEF Levels, TopLevel, LiveSet
<1>6. \A l, q \in Levels : \A n \in Nos(l), m \in Nos(q) :
         Home(Kernel, l, n) = Home(Kernel, q, m) => l = q /\ n = m
  BY <1>5, ApartTables
<1>7. DOMAIN LoaderMem = {Home(Kernel, 3, 0), Home(Kernel, 2, 0), Home(Kernel, 2, Fanout - 1)}
  BY <1>4 DEF LoaderMem
<1>8. \A l \in Levels : \A n \in Nos(l) :
         IsTable(LoaderMem, Kernel, l, n) <=> (l = 3 \/ (l = 2 /\ n \in {0, Fanout - 1}))
  BY <1>3, <1>5, <1>6, <1>7 DEF IsTable
<1>9. Home(Kernel, 3, 0) # Home(Kernel, 2, 0) /\ Home(Kernel, 3, 0) # Home(Kernel, 2, Fanout - 1)
  BY <1>3, <1>5, <1>6
<1>10. /\ LoaderMem[Home(Kernel, 3, 0)] = [k \in Slots |-> IF k = 0 THEN TableEntry(Home(Kernel, 2, 0))
                                              ELSE IF k = Fanout - 1 THEN TableEntry(Home(Kernel, 2, Fanout - 1))
                                              ELSE Absent]
       /\ LoaderMem[Home(Kernel, 2, 0)] = [NoEntries EXCEPT ![0] = Leaf(0, BootRights)]
       /\ LoaderMem[Home(Kernel, 2, Fanout - 1)] = [NoEntries EXCEPT ![0] = Leaf(0, BootRights)]
  BY <1>4, <1>9 DEF LoaderMem
<1>11. \A k \in Slots : Ent(LoaderMem, Kernel, 3, 0, k) = IF k \in {0, Fanout - 1}
                                                          THEN TableEntry(Home(Kernel, 2, k)) ELSE Absent
  BY <1>10 DEF Ent
<1>12. \A n \in {0, Fanout - 1}, k \in Slots :
          Ent(LoaderMem, Kernel, 2, n, k) = IF k = 0 THEN Leaf(0, BootRights) ELSE Absent
  BY <1>10 DEF Ent, NoEntries
<1> QED
  BY <1>1, <1>2, <1>3, <1>4, <1>7, <1>8, <1>11, <1>12

LEMMA LoaderTrees == Trees(LoaderMem, {Kernel})
<1> DEFINE m == LoaderMem
           live == {Kernel}
<1>1. Placed(m, live)
  <2>1. 3 \in Levels /\ 2 \in Levels /\ 0 \in Nos(3)
    BY Numbers DEF Levels, TopLevel
  <2> QED
    BY <2>1, LoaderFacts DEF Placed
<1>2. 3 \in Levels /\ 2 \in Levels /\ 0 \in Nos(3) /\ (\A n \in Nos(3) : n = 0) /\ Nos(2) = Slots
  BY Numbers DEF Levels, TopLevel
<1>3. Rooted(m, live)
  BY <1>2, LoaderFacts DEF Rooted
<1>4. \A l \in Levels, k \in Slots : \A n \in Nos(l) : IsTable(m, Kernel, l, n) => IsEntry(Ent(m, Kernel, l, n, k))
  <2> SUFFICES ASSUME NEW l \in Levels, NEW k \in Slots, NEW n \in Nos(l), IsTable(m, Kernel, l, n)
               PROVE  IsEntry(Ent(m, Kernel, l, n, k))
    OBVIOUS
  <2>1. \A p \in Slots : Home(Kernel, 2, p) \in Nat
    <3>1. Kernel \in Nat /\ 2 \in -1..3
      BY PageFacts
    <3> QED
      BY <3>1, <1>2, HomeFacts
  <2>2. CASE l = 3
    <3>1. n = 0
      BY <2>2, <1>2
    <3>2. Ent(m, Kernel, 3, 0, k) = Absent \/ Ent(m, Kernel, 3, 0, k) = TableEntry(Home(Kernel, 2, k))
      BY LoaderFacts
    <3> QED
      BY <2>1, <2>2, <3>1, <3>2 DEF IsEntry
  <2>3. CASE l = 2 /\ n \in {0, Fanout - 1}
    <3>1. Ent(m, Kernel, 2, n, k) = Absent \/ Ent(m, Kernel, 2, n, k) = Leaf(0, BootRights)
      BY <2>3, LoaderFacts
    <3> QED
      BY <2>3, <3>1, LoaderFacts DEF IsEntry
  <2> QED
    BY <2>2, <2>3, LoaderFacts
<1>5. Filled(m)
  <2>1. \A f \in DOMAIN m : DOMAIN m[f] = Slots /\ m[f] = [k \in Slots |-> m[f][k]]
    BY DEF LoaderMem, NoEntries
  <2>2. \A f \in DOMAIN m, k \in Slots : IsEntry(m[f][k])
    <3> SUFFICES ASSUME NEW f \in DOMAIN m, NEW k \in Slots PROVE IsEntry(m[f][k])
      OBVIOUS
    <3>1. PICK l \in Levels : \E n \in Nos(l) : f = Home(Kernel, l, n)
      BY <1>1 DEF Placed
    <3>2. PICK n \in Nos(l) : f = Home(Kernel, l, n)
      BY <3>1
    <3> HIDE DEF m
    <3> QED
      BY <3>2, <1>4 DEF IsTable, Ent
  <2> QED
    BY <2>1, <2>2 DEF Filled
<1>6. Downward(m, live)
  <2> SUFFICES ASSUME NEW l \in Levels, NEW k \in Slots, NEW n \in Nos(l),
                      IsTable(m, Kernel, l, n), Ent(m, Kernel, l, n, k).kind = "table"
               PROVE  /\ l # 0 /\ Ent(m, Kernel, l, n, k) = TableEntry(Home(Kernel, l - 1, Sub(n, k)))
                      /\ IsTable(m, Kernel, l - 1, Sub(n, k))
    BY DEF Downward
  <2>1. CASE l = 3
    <3>1. n = 0 /\ Sub(n, k) = k /\ 3 - 1 = 2
      <4>1. n = 0
        BY <2>1, <1>2
      <4> QED
        BY <4>1, FanoutFacts DEF Sub
    <3>2. Ent(m, Kernel, 3, 0, k).kind = "table"
      BY <2>1, <3>1
    <3>3. k \in {0, Fanout - 1} /\ Ent(m, Kernel, 3, 0, k) = TableEntry(Home(Kernel, 2, k))
      BY <3>2, LoaderFacts, Kinds
    <3>4. IsTable(m, Kernel, 2, k)
      BY <3>3, <1>2, LoaderFacts
    <3> QED
      BY <2>1, <3>1, <3>3, <3>4
  <2>2. CASE l = 2 /\ n \in {0, Fanout - 1}
    <3>1. Ent(m, Kernel, 2, n, k) = Absent \/ Ent(m, Kernel, 2, n, k) = Leaf(0, BootRights)
      BY <2>2, LoaderFacts
    <3> QED
      BY <2>2, <3>1, Kinds
  <2> QED
    BY <2>1, <2>2, LoaderFacts
<1>7. Upward(m, live)
  <2> SUFFICES ASSUME NEW l \in 0..2, NEW n \in Nos(l), IsTable(m, Kernel, l, n)
               PROVE  /\ IsTable(m, Kernel, l + 1, Up(n))
                      /\ Ent(m, Kernel, l + 1, Up(n), At(n)) = TableEntry(Home(Kernel, l, n))
                      /\ Own(Kernel, l + 1, At(n))
    BY DEF Upward
  <2>1. l \in Levels /\ l # 3
    BY DEF Levels, TopLevel
  <2>2. l = 2 /\ n \in {0, Fanout - 1}
    BY <2>1, LoaderFacts
  <2>3. Up(n) = 0 /\ At(n) = n /\ n \in Slots
    BY <2>2, Numbers
  <2>4. Ent(m, Kernel, 3, 0, n) = TableEntry(Home(Kernel, 2, n)) /\ IsTable(m, Kernel, 3, 0)
    BY <2>2, <2>3, <1>2, LoaderFacts
  <2> QED
    BY <2>2, <2>3, <2>4 DEF Own
<1>8. Shared(m, live) /\ Plain(m, live)
  BY DEF Shared, Plain
<1> QED
  BY <1>1, <1>3, <1>5, <1>6, <1>7, <1>8 DEF Trees

LEMMA LoaderSeen ==
    ASSUME NEW va \in AllVa
    PROVE  Seen(LoaderMem, Kernel, va) =
              IF va \div Span(3) \in {0, Fanout - 1} /\ va % Span(3) < Span(2)
              THEN [frame |-> va % Span(3), rights |-> BootRights] ELSE None
<1> DEFINE m == LoaderMem
           h == pt_index(va, 3)
           k == pt_index(va, 2)
<1>1. /\ 3 \in Levels /\ 2 \in Levels /\ No(va, 3) = 0 /\ No(va, 2) = Sub(0, h) /\ h \in Slots /\ k \in Slots
      /\ va \div Span(3) = Sub(0, h) /\ No(va, 2) \in Nos(2)
  BY Path, 2 \in 0..2, 2 + 1 = 3 DEF Levels, TopLevel
<1>2. Sub(0, h) = h
  BY <1>1, FanoutFacts DEF Sub
<1>3. Walks(Kernel, va) /\ Kernel \in {Kernel} /\ 0 \in Nos(3) /\ IsTable(m, Kernel, 3, 0)
  BY <1>1, Numbers, LoaderFacts DEF Walks
<1>4. Step(m, Kernel, va, 3) = Ent(m, Kernel, 3, 0, h) /\ Step(m, Kernel, va, 2) = Ent(m, Kernel, 2, h, k)
  BY <1>1, <1>2 DEF Step
<1>5. CASE h \notin {0, Fanout - 1}
  <2>1. Step(m, Kernel, va, 3) = Absent /\ Absent.kind # "table"
    BY <1>1, <1>4, <1>5, LoaderFacts, Kinds
  <2>2. Seen(m, Kernel, va) = Found(Absent, va, 3)
    BY <2>1, <1>1, <1>3, LoaderTrees, Reach
  <2> QED
    BY <2>2, <1>1, <1>2, <1>5, FoundFacts
<1>6. CASE h \in {0, Fanout - 1}
  <2>1. IsTable(m, Kernel, 2, No(va, 2))
    BY <1>1, <1>2, <1>6, LoaderFacts
  <2>2. Step(m, Kernel, va, 2) = IF k = 0 THEN Leaf(0, BootRights) ELSE Absent
    BY <1>1, <1>4, <1>6, LoaderFacts
  <2>3. Step(m, Kernel, va, 2).kind # "table"
    BY <2>2, Kinds
  <2>4. Seen(m, Kernel, va) = Found(Step(m, Kernel, va, 2), va, 2)
    BY <2>1, <2>3, <1>1, <1>3, LoaderTrees, Reach
  <2>5. va % Span(3) = Span(2) * k + (va % Span(2)) /\ Span(2) \in Nat \ {0} /\ va % Span(2) \in 0..(Span(2) - 1)
    <3>1. va % Span(2 + 1) = Span(2) * k + (va % Span(2))
      BY <1>1, VaFacts
    <3>2. Span(2) \in Nat \ {0} /\ Span(4) \in Nat
      BY SpanFacts
    <3>3. va \in Nat
      BY <3>2, UserFacts
    <3> QED
      BY <3>1, <3>2, <3>3, DivideFacts, 2 + 1 = 3
  <2> DEFINE x == va % Span(2)
             b == Span(2)
             y == va % Span(3)
  <2>6. y = b * k + x /\ b \in Nat \ {0} /\ x \in 0..(b - 1)
    BY <2>5
  <2> HIDE DEF x, b, y
  <2>7. CASE k = 0
    <3>1. y = x /\ y < b /\ x \in Nat /\ 0 + x = x
      BY <2>6, <2>7
    <3>2. Found(Leaf(0, BootRights), va, 2) = [frame |-> x, rights |-> BootRights]
      BY <3>1, Kinds DEF Found, x
    <3> QED
      BY <2>2, <2>4, <2>7, <3>1, <3>2, <1>1, <1>2, <1>6 DEF b, y
  <2>8. CASE k # 0
    <3>1. k \in Nat \ {0}
      BY <1>1, <2>8, FanoutFacts
    <3> HIDE DEF k
    <3>2. b * k \in Nat /\ b <= b * k
      BY <3>1, <2>6, Grows
    <3>3. ~(y < b)
      <4> DEFINE z == b * k
      <4> HIDE DEF z
      <4>1. z \in Nat /\ b <= z /\ y = z + x
        BY <3>2, <2>6 DEF z
      <4> QED
        BY <4>1, <2>6
    <3>4. Seen(m, Kernel, va) = None
      BY <2>2, <2>4, <2>8, FoundFacts
    <3> QED
      BY <3>3, <3>4 DEF b, y
  <2> QED
    BY <2>7, <2>8
<1> QED
  BY <1>5, <1>6

LEMMA InitKeeps ==
    ASSUME PtInit PROVE PtInv /\ Flat!Init
<1>1. /\ mem = LoaderMem /\ l4 = [s \in Everyone |-> IF s = Kernel THEN Home(Kernel, 3, 0) ELSE None]
      /\ owned = [s \in Spaces |-> {}] /\ copy = None /\ call = NoCalls /\ view = ViewOf(mem, l4)
  BY LoaderFacts DEF PtInit, LoaderMem, Everyone
<1>2. Kernel \notin Spaces /\ Home(Kernel, 3, 0) # None /\ Kernel \in Everyone
  <2>1. Kernel \in Nat /\ None \notin Nat /\ Kernel \notin Spaces
    BY PageFacts
  <2>2. Home(Kernel, 3, 0) \in Nat
    BY <2>1, HomeFacts, Numbers
  <2> QED
    BY <2>1, <2>2 DEF Everyone
<1>3. Live = {Kernel} /\ Has(l4) = {Kernel}
  BY <1>1, <1>2 DEF Live, Has, Everyone
<1>4. SpacesOk /\ OwnedOk /\ CopyInv
  <2>1. SpacesOk
    BY <1>1, <1>2 DEF SpacesOk, Everyone
  <2>2. OwnedOk /\ CopyInv
    BY <1>1 DEF OwnedOk, CopyInv, NoCalls
  <2> QED
    BY <2>1, <2>2
<1>5. PtInv
  BY <1>1, <1>3, <1>4, LoaderTrees DEF PtInv
<1>6. view = Sights(mem, {Kernel})
  BY <1>3, <1>5, InvFacts
<1> DEFINE b == [va \in AllVa |-> IF va \div Span(3) \in {0, Fanout - 1} /\ va % Span(3) < Span(2)
                                  THEN [frame |-> va % Span(3), rights |-> BootRights] ELSE None]
<1>7. [va \in AllVa |-> Seen(mem, Kernel, va)] = b
  BY <1>1, LoaderSeen
<1> HIDE DEF b
<1>8. view = [s \in Everyone |-> IF s = Kernel THEN b ELSE None]
  BY <1>6, <1>7 DEF Sights
<1>9. TopLevel = 3 /\ TopLevel - 1 = 2
  BY DEF TopLevel
<1>10. Flat!Init
  BY <1>8, <1>9 DEF Flat!Init, Everyone, b, AllVa
<1> QED
  BY <1>5, <1>10

-----------------------------------------------------------------------------
(* The theorems. *)

LEMMA StepKeeps ==
    ASSUME PtInv, [PtNext]_ptVars PROVE PtInv' /\ [Flat!Next]_view
<1>1. CASE KernelHit \/ UNCHANGED ptVars
  <2>1. UNCHANGED <<mem, l4, owned, copy, call, view>>
    BY <1>1 DEF ptVars, KernelHit
  <2>2. PtInv'
    BY <2>1 DEF PtInv, SpacesOk, OwnedOk, CopyInv, Live
  <2> QED
    BY <2>1, <2>2
<1>2. CASE Call /\ Looks
  <2>1. view' = ViewOf(mem', l4') /\ Call
    <3>1. CASE UNCHANGED <<mem, l4>>
      <4>1. mem' = mem /\ l4' = l4 /\ view' = view
        BY <1>2, <3>1 DEF Looks
      <4>2. ViewOf(mem', l4') = ViewOf(mem, l4)
        BY <4>1
      <4> QED
        BY <1>2, <4>1, <4>2 DEF PtInv
    <3>2. CASE ~UNCHANGED <<mem, l4>>
      BY <1>2, <3>2 DEF Looks
    <3> QED
      BY <3>1, <3>2
  <2>2. 0..TopLevel \subseteq Nat /\ UserArgs \subseteq AllVa /\ KernelArgs \subseteq AllVa
        /\ Spaces \subseteq Everyone /\ Kernel \in Everyone /\ Kernel \notin Spaces
        /\ \A va \in KernelArgs : Followed(va)
    BY PageFacts, UserFacts DEF TopLevel, Everyone, Followed
  <2>3. ASSUME NEW va \in KernelArgs, NEW r \in Rights, NEW b \in 0..TopLevel, map_page_4k(Kernel, va, va, r, b)
        PROVE  PtInv' /\ [Flat!Next]_view
    BY <2>1, <2>2, <2>3, MapStep
  <2>4. ASSUME NEW s \in Spaces, NEW va \in UserArgs, NEW f \in Memory, NEW r \in Rights, NEW b \in 0..TopLevel,
               Followed(va), map_page_4k(s, va, f, r, b)
        PROVE  PtInv' /\ [Flat!Next]_view
    BY <2>1, <2>2, <2>4, MapStep
  <2>5. ASSUME NEW s \in Spaces, NEW va \in UserArgs, NEW r \in Rights, NEW b \in 0..TopLevel,
               Followed(va), protect_page_4k(s, va, r, b)
        PROVE  PtInv' /\ [Flat!Next]_view
    BY <2>1, <2>2, <2>5, ProtectStep
  <2>6. ASSUME NEW s \in Spaces, NEW va \in UserArgs, NEW b \in 0..TopLevel,
               Followed(va), unmap_page_4k(s, va, b)
        PROVE  PtInv' /\ [Flat!Next]_view
    BY <2>1, <2>2, <2>6, UnmapStep
  <2>7. ASSUME NEW s \in Spaces, clone_page_table(s) \/ Terminate(s)
        PROVE  PtInv' /\ [Flat!Next]_view
    BY <2>1, <2>7, CreateStep, DropStep
  <2>8. ASSUME NEW s \in Spaces, NEW t \in Spaces, clone_user_address_space(s, t)
        PROVE  PtInv' /\ [Flat!Next]_view
    BY <2>1, <2>8, CopyBeginsStep
  <2>9. CASE CopySkips \/ CopyPage \/ CopyTable \/ CopyReturns \/ CopyEnds \/ CopyFails
    BY <2>1, <2>9, CopySkipsStep, CopyPageStep, CopyTableStep, CopyReturnsStep, CopyEndsStep, CopyFailsStep
  <2> QED
    BY <2>1, <2>3, <2>4, <2>5, <2>6, <2>7, <2>8, <2>9 DEF Call
<1> QED
  BY <1>1, <1>2 DEF PtNext

\* PtInv is an invariant: the tables of every space form a tree of which
\* map_page_4k, clone_user_level and free_table_level find every part, at every step
\* of a copy and after calls that ran out of memory half way; the roots share the
\* kernel half, in which the calls of processes add tables of the kernel's, until one
\* changes what the kernel itself uses or what it leaves empty (KernelHit).
THEOREM PagingInvariant == PtSpec => []PtInv
<1>1. PtInit => PtInv
  BY InitKeeps
<1>2. PtInv /\ [PtNext]_ptVars => PtInv'
  BY StepKeeps
<1> QED
  BY <1>1, <1>2, PTL DEF PtSpec

\* FlatMap: map_page_4k, protect_page_4k and unmap_page_4k change the page they
\* name and no other, whatever they split or add on the way, in one space or, in the
\* kernel half, in all of them; clone_user_address_space gives the new space a page of
\* its own for each page outside the range left out, or nothing.
THEOREM FlatMapImplemented == PtSpec => FlatMap
<1>1. PtInit => Flat!Init
  BY InitKeeps
<1>2. PtInv /\ [PtNext]_ptVars => [Flat!Next]_view
  BY StepKeeps
<1> QED
  BY <1>1, <1>2, PagingInvariant, PTL DEF PtSpec, FlatMap, Flat!Spec

LEMMA Accounted == PtInv => TablesAccounted
<1> SUFFICES ASSUME PtInv PROVE TablesAccounted
  OBVIOUS
<1>1. LiveSet(Live) /\ Trees(mem, Live) /\ Kernel \in Live /\ Kernel \in Nat /\ Live \subseteq Nat
  BY InvFacts DEF PtInv, LiveSet
<1>2. Roots = {Home(s, 3, 0) : s \in Live} /\ l4[Kernel] = Home(Kernel, 3, 0)
  <2>1. Range(l4) \ {None} = {Home(s, 3, 0) : s \in Has(l4)}
    <3>1. Range(l4) = {l4[s] : s \in Everyone}
      BY DEF Range, PtInv, SpacesOk, Everyone
    <3>2. \A s \in Everyone : l4[s] # None => l4[s] = Home(s, 3, 0)
      BY InvFacts
    <3> QED
      BY <3>1, <3>2 DEF Has
  <2>2. CASE copy = None
    BY <2>1, <2>2, InvFacts DEF Roots, PtInv, SpacesOk
  <2>3. CASE copy # None
    <3>1. 3 \in Levels /\ 3 >= copy.level
      BY <2>3, CopyFacts DEF Levels, TopLevel
    <3>2. CallOk(mem, copy, call[3], 3, IF 3 = copy.level THEN call[3].i ELSE call[3].i + 1)
      BY <2>3, <3>1, CopyFacts
    <3>3. call[3].dst = Home(copy.to, 3, 0)
      BY <3>2, Numbers DEF CallOk
    <3>4. Live = Has(l4) \cup {copy.to}
      BY <2>3, CopyFacts
    <3> QED
      BY <2>1, <2>3, <3>3, <3>4 DEF Roots, TopLevel, PtInv, SpacesOk
  <2> QED
    BY <2>2, <2>3
<1>3. 3 \in Levels /\ 0 \in Nos(3) /\ \A n \in Nos(3) : n = 0
  BY Numbers DEF Levels, TopLevel
<1>4. \A s, t \in Live : \A l, q \in Levels : \A n \in Nos(l), m \in Nos(q) :
         Home(s, l, n) = Home(t, q, m) => s = t /\ l = q /\ n = m
  BY <1>1, ApartTables
<1>5. ASSUME NEW s \in Live, NEW l \in Levels, NEW n \in Nos(l), NEW k \in Slots
      PROVE  (Home(s, l, n) \in Roots \ {l4[Kernel]} => k \in UserSlots) <=> Own(s, l, k)
  BY <1>1, <1>2, <1>3, <1>4 DEF Own
<1>6. ASSUME NEW f, NEW link \in LinksOf(f)
      PROVE  \E s \in Live, l \in Levels : \E n \in Nos(l) :
                 /\ link = <<Home(s, l, n), link[2]>> /\ link[2] \in Slots
                 /\ l # 0 /\ f = Home(s, l - 1, Sub(n, link[2])) /\ l - 1 \in Levels /\ Sub(n, link[2]) \in Nos(l - 1)
  <2>1. /\ link[1] \in DOMAIN mem /\ link[2] \in Slots /\ link = <<link[1], link[2]>>
        /\ mem[link[1]][link[2]] = TableEntry(f)
        /\ link[1] \in Roots \ {l4[Kernel]} => link[2] \in UserSlots
    BY DEF LinksOf
  <2>2. PICK s \in Live, l \in Levels : \E n \in Nos(l) : link[1] = Home(s, l, n)
    BY <2>1, <1>1 DEF Trees, Placed
  <2>3. PICK n \in Nos(l) : link[1] = Home(s, l, n)
    BY <2>2
  <2> DEFINE k == link[2]
  <2>4. k \in Slots /\ Own(s, l, k) /\ IsTable(mem, s, l, n) /\ Ent(mem, s, l, n, k) = TableEntry(f)
    BY <2>1, <2>3, <1>5 DEF IsTable, Ent
  <2> HIDE DEF k
  <2>5. Ent(mem, s, l, n, k).kind = "table" /\ Ent(mem, s, l, n, k).to = f
    BY <2>4, Kinds
  <2>6. l # 0 /\ Ent(mem, s, l, n, k) = TableEntry(Home(s, l - 1, Sub(n, k)))
    BY <2>4, <2>5, <1>1 DEF Trees, Downward
  <2>7. f = Home(s, l - 1, Sub(n, k))
    BY <2>5, <2>6, Kinds
  <2>8. l - 1 \in Levels /\ Sub(n, k) \in Nos(l - 1)
    BY <2>4, <2>6, Numbers DEF Levels, TopLevel
  <2> QED
    BY <2>1, <2>3, <2>4, <2>6, <2>7, <2>8 DEF k
<1>7. ASSUME NEW f \in Roots PROVE LinksOf(f) = {}
  <2> SUFFICES ASSUME NEW link \in LinksOf(f) PROVE FALSE
    OBVIOUS
  <2>1. PICK s \in Live : f = Home(s, 3, 0)
    BY <1>2
  <2>2. PICK t \in Live, l \in Levels :
           l # 0 /\ l - 1 \in Levels /\ \E p \in Nos(l - 1) : f = Home(t, l - 1, p)
    BY <1>6
  <2>3. 3 = l - 1
    <3> DEFINE q == l - 1
    <3>1. q \in Levels /\ \E p \in Nos(q) : f = Home(t, q, p)
      BY <2>2
    <3> HIDE DEF q
    <3>2. PICK p \in Nos(q) : f = Home(t, q, p)
      BY <3>1
    <3>3. Home(s, 3, 0) = Home(t, q, p)
      BY <2>1, <3>2
    <3>4. 3 = q
      BY <3>1, <3>3, <1>3, <1>4
    <3> QED
      BY <3>4 DEF q
  <2> QED
    BY <2>3 DEF Levels, TopLevel
<1>8. ASSUME NEW f \in DOMAIN mem, f \notin Roots PROVE Cardinality(LinksOf(f)) = 1
  <2>1. PICK s \in Live, l \in Levels : \E n \in Nos(l) : f = Home(s, l, n)
    BY <1>1 DEF Trees, Placed
  <2>2. PICK n \in Nos(l) : f = Home(s, l, n)
    BY <2>1
  <2>3. l # 3 /\ l \in 0..2 /\ l + 1 \in Levels
    <3>1. l # 3
      BY <2>2, <1>2, <1>3, <1>8
    <3> QED
      BY <3>1 DEF Levels, TopLevel
  <2> DEFINE g == Home(s, l + 1, Up(n))
             k == At(n)
             link == <<g, k>>
  <2>4. IsTable(mem, s, l, n)
    BY <2>2 DEF IsTable
  <2>5. /\ IsTable(mem, s, l + 1, Up(n)) /\ Ent(mem, s, l + 1, Up(n), k) = TableEntry(f) /\ Own(s, l + 1, k)
    BY <2>2, <2>3, <2>4, <1>1 DEF Trees, Upward
  <2>6. Up(n) \in Nos(l + 1) /\ k \in Slots
    BY <2>3, Numbers
  <2>7. link \in LinksOf(f)
    <3>1. g \in DOMAIN mem /\ mem[g][k] = TableEntry(f) /\ (g \in Roots \ {l4[Kernel]} => k \in UserSlots)
      BY <2>3, <2>5, <2>6, <1>5 DEF IsTable, Ent
    <3> QED
      BY <3>1, <2>6 DEF LinksOf
  <2>8. ASSUME NEW other \in LinksOf(f) PROVE other = link
    <3>1. PICK t \in Live, q \in Levels : \E p \in Nos(q) :
             /\ other = <<Home(t, q, p), other[2]>> /\ other[2] \in Slots
             /\ q # 0 /\ f = Home(t, q - 1, Sub(p, other[2])) /\ q - 1 \in Levels /\ Sub(p, other[2]) \in Nos(q - 1)
      BY <1>6
    <3>2. PICK p \in Nos(q) :
             /\ other = <<Home(t, q, p), other[2]>> /\ other[2] \in Slots
             /\ q # 0 /\ f = Home(t, q - 1, Sub(p, other[2])) /\ q - 1 \in Levels /\ Sub(p, other[2]) \in Nos(q - 1)
      BY <3>1
    <3>3. t = s /\ q - 1 = l /\ Sub(p, other[2]) = n
      BY <3>2, <2>2, <1>4
    <3>4. Up(Sub(p, other[2])) = p /\ At(Sub(p, other[2])) = other[2]
      BY <3>2, Numbers
    <3>5. q = l + 1
      BY <3>3 DEF Levels, TopLevel
    <3> QED
      BY <3>2, <3>3, <3>4, <3>5
  <2>9. LinksOf(f) = {link}
    BY <2>7, <2>8
  <2> QED
    BY <2>9, FS_Singleton
<1>9. ASSUME NEW t \in DOMAIN mem, NEW k \in Slots, mem[t][k].kind = "table" PROVE mem[t][k].to \in DOMAIN mem
  <2>1. PICK s \in Live, l \in Levels : \E n \in Nos(l) : t = Home(s, l, n)
    BY <1>1 DEF Trees, Placed
  <2>2. PICK n \in Nos(l) : t = Home(s, l, n)
    BY <2>1
  <2>3. ASSUME NEW u \in Live, NEW q \in Levels, NEW p \in Nos(q), IsTable(mem, u, q, p),
               Ent(mem, u, q, p, k).kind = "table", Own(u, q, k)
        PROVE  Ent(mem, u, q, p, k).to \in DOMAIN mem
    <3>1. /\ Ent(mem, u, q, p, k) = TableEntry(Home(u, q - 1, Sub(p, k)))
          /\ IsTable(mem, u, q - 1, Sub(p, k))
      BY <2>3, <1>1 DEF Trees, Downward
    <3> QED
      BY <3>1, Kinds DEF IsTable
  <2>4. CASE Own(s, l, k)
    BY <2>2, <2>3, <2>4, <1>9 DEF IsTable, Ent
  <2>5. CASE ~Own(s, l, k)
    <3>1. l = 3 /\ n = 0 /\ k \in Slots \ UserSlots /\ Own(Kernel, 3, k)
      BY <2>5, <1>3 DEF Own
    <3>2. Ent(mem, s, 3, 0, k) = Ent(mem, Kernel, 3, 0, k) /\ IsTable(mem, Kernel, 3, 0)
      BY <3>1, <1>1 DEF Trees, Shared, Rooted
    <3>3. Ent(mem, s, 3, 0, k).kind = "table" /\ mem[t][k] = Ent(mem, s, 3, 0, k)
      BY <3>1, <2>2, <1>9 DEF Ent
    <3> QED
      BY <2>3, <3>1, <3>2, <3>3, <1>1, <1>3
  <2> QED
    BY <2>4, <2>5
<1>10. DOMAIN mem \cap UNION Range(owned) = {}
  <2> SUFFICES ASSUME NEW f \in DOMAIN mem, NEW s \in Spaces, f \in owned[s] PROVE FALSE
    <3>1. Range(owned) = {owned[s] : s \in Spaces}
      BY DEF Range, PtInv, OwnedOk
    <3> QED
      BY <3>1
  <2>1. PICK n \in Nos(-1) : f = Home(s, -1, n)
    BY DEF PtInv, OwnedOk
  <2>2. PICK t \in Live, l \in Levels : \E m \in Nos(l) : f = Home(t, l, m)
    BY <1>1 DEF Trees, Placed
  <2>3. PICK m \in Nos(l) : f = Home(t, l, m)
    BY <2>2
  <2>4. s \in Nat /\ t \in Nat /\ -1 \in -1..3 /\ l \in -1..3 /\ l # -1
    BY <1>1, PageFacts DEF Levels, TopLevel
  <2> QED
    BY <2>1, <2>3, <2>4, Apart
<1>11. Roots \subseteq DOMAIN mem
  BY <1>1, <1>2 DEF Trees, Rooted, IsTable
<1> QED
  BY <1>7, <1>8, <1>9, <1>10, <1>11 DEF TablesAccounted

\* TablesAccounted: every frame that pt_pool_alloc gave out for a table is a root or
\* is linked from exactly one slot, and no page of a copy is a table as well, until a
\* process changes what of the kernel half the kernel itself uses or leaves empty.
THEOREM TablesAccountedAlways == PtSpec => []TablesAccounted
BY PagingInvariant, Accounted, PTL
=============================================================================
