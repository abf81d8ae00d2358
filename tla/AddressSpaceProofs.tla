-------------------------- MODULE AddressSpaceProofs --------------------------
(***************************************************************************)
(* Proofs about AddressSpace, for any heap, any number of processes and    *)
(* any layout of the user half: every page in use has one holder, user     *)
(* pages are not shared, and the heap below the break is mapped.           *)
(***************************************************************************)
EXTENDS AddressSpace, WellFoundedInduction, TLAPS

-----------------------------------------------------------------------------
(* The allocator *)

LEMMA LowestExists ==
    ASSUME NEW S \in SUBSET Nat, S # {}
    PROVE  \E n \in S : \A m \in S : n <= m
<1> DEFINE R == OpToRel(<, Nat)
<1>1. IsWellFoundedOn(R, Nat)
  BY NatLessThanWellFounded
<1>2. \A m, n \in Nat : m < n => <<m, n>> \in R
  BY DEF OpToRel
<1> HIDE DEF R
<1>3. PICK n \in S : \A m \in S : ~(<<m, n>> \in R)
  BY <1>1, WFMin
<1>4. ASSUME NEW m \in S PROVE n <= m
  <2>1. m \in Nat /\ n \in Nat
    OBVIOUS
  <2>2. ~(m < n)
    BY <1>2, <1>3, <2>1
  <2> QED
    BY <2>1, <2>2
<1> QED
  BY <1>4

LEMMA FreeFrame ==
    ASSUME NEW taken, FreeRuns(taken, 1) # {}
    PROVE  FirstFree(taken) \in Frames \ taken
<1>1. PICK f \in Frames : f..(f + 1 - 1) \subseteq Frames \ taken
  BY DEF FreeRuns
<1>2. f \in Nat /\ f \in f..(f + 1 - 1)
  BY AddressSpaceAssumption
<1>3. Frames \ taken \in SUBSET Nat /\ Frames \ taken # {}
  BY <1>1, <1>2, AddressSpaceAssumption
<1> QED
  BY <1>3, LowestExists DEF FirstFree

LEMMA FreeRun ==
    ASSUME NEW taken, NEW n \in Nat, FreeRuns(taken, n) # {}
    PROVE  /\ FirstRun(taken, n) \subseteq Frames \ taken
           /\ \E lo \in Nat : FirstRun(taken, n) = lo..(lo + n - 1)
<1>1. FreeRuns(taken, n) \in SUBSET Nat
  BY AddressSpaceAssumption DEF FreeRuns
<1>2. PICK low \in FreeRuns(taken, n) : \A g \in FreeRuns(taken, n) : low <= g
  BY <1>1, LowestExists
<1> DEFINE lo == CHOOSE f \in FreeRuns(taken, n) : \A g \in FreeRuns(taken, n) : f <= g
<1>3. lo \in FreeRuns(taken, n)
  BY <1>2
<1>4. FirstRun(taken, n) = lo..(lo + n - 1)
  BY DEF FirstRun
<1> HIDE DEF lo
<1>5. lo..(lo + n - 1) \subseteq Frames \ taken
  BY <1>3 DEF FreeRuns
<1> QED
  BY <1>1, <1>3, <1>4, <1>5

-----------------------------------------------------------------------------
(* The books: every frame in use is tagged with the one place that holds it *)

BookType(us, rt, tb, ow, st, an, bl, lk) ==
    /\ us \subseteq Frames /\ lk \subseteq Frames
    /\ rt \in [Spaces -> Frames \cup {None}]
    /\ tb \in [Spaces -> [Regions -> Frames \cup {None}]]
    /\ ow \in [Spaces -> SUBSET Frames] /\ st \in [Spaces -> SUBSET Frames]
    /\ an \in [Spaces -> SUBSET Frames] /\ bl \in [Actors -> SUBSET Frames]

\* The holder of a frame in us is the one its tag names; the frames in F are not
\* entered yet.
Tagged(us, rt, tb, ow, st, an, bl, lk, F, kind, who, reg) ==
    /\ \A s \in Spaces : rt[s] # None => rt[s] \in us /\ kind[rt[s]] = "root" /\ who[rt[s]] = s
    /\ \A s \in Spaces, r \in Regions : tb[s][r] # None =>
          tb[s][r] \in us /\ kind[tb[s][r]] = "tab" /\ who[tb[s][r]] = s /\ reg[tb[s][r]] = r
    /\ \A s \in Spaces : \A f \in ow[s] : f \in us /\ kind[f] = "owned" /\ who[f] = s
    /\ \A s \in Spaces : \A f \in st[s] : f \in us /\ kind[f] = "stack" /\ who[f] = s
    /\ \A s \in Spaces : \A f \in an[s] : f \in us /\ kind[f] = "anon" /\ who[f] = s
    /\ \A p \in Actors : \A f \in bl[p] : f \in us /\ kind[f] = "block" /\ who[f] = p
    /\ \A f \in lk : f \in us /\ kind[f] = "leaked"
    /\ \A f \in us \ F :
          \/ kind[f] = "root" /\ who[f] \in Spaces /\ rt[who[f]] = f
          \/ kind[f] = "tab" /\ who[f] \in Spaces /\ reg[f] \in Regions /\ tb[who[f]][reg[f]] = f
          \/ kind[f] = "owned" /\ who[f] \in Spaces /\ f \in ow[who[f]]
          \/ kind[f] = "stack" /\ who[f] \in Spaces /\ f \in st[who[f]]
          \/ kind[f] = "anon" /\ who[f] \in Spaces /\ f \in an[who[f]]
          \/ kind[f] = "block" /\ who[f] \in Actors /\ f \in bl[who[f]]
          \/ kind[f] = "leaked" /\ f \in lk

Booked(us, rt, tb, ow, st, an, bl, lk) ==
    /\ BookType(us, rt, tb, ow, st, an, bl, lk)
    /\ \E kind, who, reg : Tagged(us, rt, tb, ow, st, an, bl, lk, {}, kind, who, reg)

\* The frames in F wait to be entered under one tag.
Pending(us, rt, tb, ow, st, an, bl, lk, F, k, w, r) ==
    \E kind, who, reg :
        /\ Tagged(us, rt, tb, ow, st, an, bl, lk, F, kind, who, reg)
        /\ \A f \in F : kind[f] = k /\ who[f] = w /\ reg[f] = r

\* Free frames are tagged for their new holder before it has them.
LEMMA Fresh ==
    ASSUME NEW us, NEW rt, NEW tb, NEW ow, NEW st, NEW an, NEW bl, NEW lk,
           Booked(us, rt, tb, ow, st, an, bl, lk),
           NEW F \in SUBSET (Frames \ us), NEW k, NEW w, NEW r
    PROVE  Pending(us \cup F, rt, tb, ow, st, an, bl, lk, F, k, w, r)
<1>1. BookType(us, rt, tb, ow, st, an, bl, lk) /\ None \notin Frames
  BY AddressSpaceAssumption DEF Booked
<1>2. PICK kind, who, reg : Tagged(us, rt, tb, ow, st, an, bl, lk, {}, kind, who, reg)
  BY DEF Booked
<1> DEFINE kind2 == [f \in Frames |-> IF f \in F THEN k ELSE kind[f]]
           who2 == [f \in Frames |-> IF f \in F THEN w ELSE who[f]]
           reg2 == [f \in Frames |-> IF f \in F THEN r ELSE reg[f]]
<1>3. /\ \A f \in F : kind2[f] = k /\ who2[f] = w /\ reg2[f] = r
      /\ \A f \in us : kind2[f] = kind[f] /\ who2[f] = who[f] /\ reg2[f] = reg[f]
  BY <1>1 DEF BookType
<1> HIDE DEF kind2, who2, reg2
<1>4. Tagged(us \cup F, rt, tb, ow, st, an, bl, lk, F, kind2, who2, reg2)
  <2>1. \A f \in (us \cup F) \ F : f \in us \ {}
    OBVIOUS
  <2>2. \A s \in Spaces : rt[s] # None => kind2[rt[s]] = "root" /\ who2[rt[s]] = s /\ rt[s] \in us
    BY <1>2, <1>3 DEF Tagged
  <2>3. \A s \in Spaces, t \in Regions : tb[s][t] # None =>
           /\ tb[s][t] \in us /\ kind2[tb[s][t]] = "tab" 
           /\ who2[tb[s][t]] = s /\ reg2[tb[s][t]] = t
    BY <1>2, <1>3 DEF Tagged
  <2>4. /\ \A s \in Spaces : \A f \in ow[s] : f \in us /\ kind2[f] = "owned" /\ who2[f] = s
        /\ \A s \in Spaces : \A f \in st[s] : f \in us /\ kind2[f] = "stack" /\ who2[f] = s
        /\ \A s \in Spaces : \A f \in an[s] : f \in us /\ kind2[f] = "anon" /\ who2[f] = s
        /\ \A p \in Actors : \A f \in bl[p] : f \in us /\ kind2[f] = "block" /\ who2[f] = p
        /\ \A f \in lk : f \in us /\ kind2[f] = "leaked"
    BY <1>2, <1>3 DEF Tagged
  <2>5. ASSUME NEW f \in us
        PROVE  \/ kind2[f] = "root" /\ who2[f] \in Spaces /\ rt[who2[f]] = f
               \/ kind2[f] = "tab" /\ who2[f] \in Spaces /\ reg2[f] \in Regions /\ tb[who2[f]][reg2[f]] = f
               \/ kind2[f] = "owned" /\ who2[f] \in Spaces /\ f \in ow[who2[f]]
               \/ kind2[f] = "stack" /\ who2[f] \in Spaces /\ f \in st[who2[f]]
               \/ kind2[f] = "anon" /\ who2[f] \in Spaces /\ f \in an[who2[f]]
               \/ kind2[f] = "block" /\ who2[f] \in Actors /\ f \in bl[who2[f]]
               \/ kind2[f] = "leaked" /\ f \in lk
    BY <1>2, <1>3 DEF Tagged
  <2> QED
    BY <2>1, <2>2, <2>3, <2>4, <2>5 DEF Tagged
<1> QED
  BY <1>3, <1>4 DEF Pending

\* clone_page_table takes a frame for a root.
LEMMA TakeRoot ==
    ASSUME NEW us, NEW rt, NEW tb, NEW ow, NEW st, NEW an, NEW bl, NEW lk,
           Booked(us, rt, tb, ow, st, an, bl, lk),
           NEW s \in Spaces, NEW f0 \in Frames \ us, rt[s] = None
    PROVE  Booked(us \cup {f0}, [rt EXCEPT ![s] = f0], tb, ow, st, an, bl, lk)
<1> DEFINE rt2 == [rt EXCEPT ![s] = f0]
<1>1. BookType(us, rt, tb, ow, st, an, bl, lk) /\ None \notin Frames
  BY AddressSpaceAssumption DEF Booked
<1>2. PICK kind, who, reg :
         /\ Tagged(us \cup {f0}, rt, tb, ow, st, an, bl, lk, {f0}, kind, who, reg)
         /\ \A f \in {f0} : kind[f] = "root" /\ who[f] = s /\ reg[f] = None
  <2>1. {f0} \in SUBSET (Frames \ us)
    OBVIOUS
  <2>2. Pending(us \cup {f0}, rt, tb, ow, st, an, bl, lk, {f0}, "root", s, None)
    BY <2>1, Fresh
  <2> QED
    BY <2>2 DEF Pending
<1>3. BookType(us \cup {f0}, rt2, tb, ow, st, an, bl, lk)
  BY <1>1 DEF BookType
<1>4. rt2[s] = f0 /\ \A t \in Spaces : t # s => rt2[t] = rt[t]
  BY <1>1 DEF BookType
<1> HIDE DEF rt2
<1>5. \A t \in Spaces : rt2[t] # None =>
        rt2[t] \in us \cup {f0} /\ kind[rt2[t]] = "root" /\ who[rt2[t]] = t
  BY <1>1, <1>2, <1>4 DEF Tagged
<1>6. Tagged(us \cup {f0}, rt2, tb, ow, st, an, bl, lk, {}, kind, who, reg)
  <2>1. ASSUME NEW f \in us \cup {f0}
        PROVE  \/ kind[f] = "root" /\ who[f] \in Spaces /\ rt2[who[f]] = f
               \/ kind[f] = "tab" /\ who[f] \in Spaces /\ reg[f] \in Regions /\ tb[who[f]][reg[f]] = f
               \/ kind[f] = "owned" /\ who[f] \in Spaces /\ f \in ow[who[f]]
               \/ kind[f] = "stack" /\ who[f] \in Spaces /\ f \in st[who[f]]
               \/ kind[f] = "anon" /\ who[f] \in Spaces /\ f \in an[who[f]]
               \/ kind[f] = "block" /\ who[f] \in Actors /\ f \in bl[who[f]]
               \/ kind[f] = "leaked" /\ f \in lk
    <3>1. CASE f \in {f0}
      BY <1>2, <1>4, <3>1
    <3>2. CASE f \notin {f0}
      <4>1. f \in (us \cup {f0}) \ {f0}
        BY <3>2
      <4> QED
        BY <1>1, <1>2, <1>4, <4>1 DEF Tagged, BookType
    <3> QED
      BY <3>1, <3>2
  <2> QED
    BY <1>2, <1>5, <2>1 DEF Tagged
<1> QED
  BY <1>3, <1>6 DEF Booked, rt2

\* A table of one region.
LEMMA TakeTable ==
    ASSUME NEW us, NEW rt, NEW tb, NEW ow, NEW st, NEW an, NEW bl, NEW lk,
           Booked(us, rt, tb, ow, st, an, bl, lk),
           NEW s \in Spaces, NEW r0 \in Regions, NEW f0 \in Frames \ us, tb[s][r0] = None
    PROVE  Booked(us \cup {f0}, rt, [tb EXCEPT ![s][r0] = f0], ow, st, an, bl, lk)
<1> DEFINE tb2 == [tb EXCEPT ![s][r0] = f0]
<1>1. BookType(us, rt, tb, ow, st, an, bl, lk) /\ None \notin Frames
  BY AddressSpaceAssumption DEF Booked
<1>2. PICK kind, who, reg :
         /\ Tagged(us \cup {f0}, rt, tb, ow, st, an, bl, lk, {f0}, kind, who, reg)
         /\ \A f \in {f0} : kind[f] = "tab" /\ who[f] = s /\ reg[f] = r0
  <2>1. {f0} \in SUBSET (Frames \ us)
    OBVIOUS
  <2>2. Pending(us \cup {f0}, rt, tb, ow, st, an, bl, lk, {f0}, "tab", s, r0)
    BY <2>1, Fresh
  <2> QED
    BY <2>2 DEF Pending
<1>3. BookType(us \cup {f0}, rt, tb2, ow, st, an, bl, lk)
  BY <1>1 DEF BookType
<1>4. tb2[s][r0] = f0 /\ \A t \in Spaces, r \in Regions : t # s \/ r # r0 => tb2[t][r] = tb[t][r]
  BY <1>1 DEF BookType
<1> HIDE DEF tb2
<1>5. \A t \in Spaces, r \in Regions : tb2[t][r] # None =>
        /\ tb2[t][r] \in us \cup {f0} /\ kind[tb2[t][r]] = "tab"
        /\ who[tb2[t][r]] = t /\ reg[tb2[t][r]] = r
  BY <1>1, <1>2, <1>4 DEF Tagged
<1>6. Tagged(us \cup {f0}, rt, tb2, ow, st, an, bl, lk, {}, kind, who, reg)
  <2>1. ASSUME NEW f \in us \cup {f0}
        PROVE  \/ kind[f] = "root" /\ who[f] \in Spaces /\ rt[who[f]] = f
               \/ kind[f] = "tab" /\ who[f] \in Spaces /\ reg[f] \in Regions /\ tb2[who[f]][reg[f]] = f
               \/ kind[f] = "owned" /\ who[f] \in Spaces /\ f \in ow[who[f]]
               \/ kind[f] = "stack" /\ who[f] \in Spaces /\ f \in st[who[f]]
               \/ kind[f] = "anon" /\ who[f] \in Spaces /\ f \in an[who[f]]
               \/ kind[f] = "block" /\ who[f] \in Actors /\ f \in bl[who[f]]
               \/ kind[f] = "leaked" /\ f \in lk
    <3>1. CASE f \in {f0}
      BY <1>2, <1>4, <3>1
    <3>2. CASE f \notin {f0}
      <4>1. f \in (us \cup {f0}) \ {f0}
        BY <3>2
      <4> QED
        <5>1. f # None
          BY <1>1, <3>2 DEF BookType
        <5>2. kind[f] = "tab" /\ who[f] \in Spaces /\ reg[f] \in Regions /\ tb[who[f]][reg[f]] = f
                => tb2[who[f]][reg[f]] = f
          BY <1>4, <5>1
        <5> QED
          BY <1>2, <4>1, <5>2 DEF Tagged
    <3> QED
      BY <3>1, <3>2
  <2> QED
    BY <1>2, <1>5, <2>1 DEF Tagged
<1> QED
  BY <1>3, <1>6 DEF Booked, tb2

\* Pages entered in owned_pages.
LEMMA TakeOwned ==
    ASSUME NEW us, NEW rt, NEW tb, NEW ow, NEW st, NEW an, NEW bl, NEW lk,
           Booked(us, rt, tb, ow, st, an, bl, lk),
           NEW s \in Spaces, NEW F \in SUBSET (Frames \ us)
    PROVE  Booked(us \cup F, rt, tb, [ow EXCEPT ![s] = @ \cup F], st, an, bl, lk)
<1> DEFINE ow2 == [ow EXCEPT ![s] = @ \cup F]
<1>1. BookType(us, rt, tb, ow, st, an, bl, lk) /\ None \notin Frames
  BY AddressSpaceAssumption DEF Booked
<1>2. PICK kind, who, reg :
         /\ Tagged(us \cup F, rt, tb, ow, st, an, bl, lk, F, kind, who, reg)
         /\ \A f \in F : kind[f] = "owned" /\ who[f] = s /\ reg[f] = None
  <2>1. F \in SUBSET (Frames \ us)
    OBVIOUS
  <2>2. Pending(us \cup F, rt, tb, ow, st, an, bl, lk, F, "owned", s, None)
    BY <2>1, Fresh
  <2> QED
    BY <2>2 DEF Pending
<1>3. BookType(us \cup F, rt, tb, ow2, st, an, bl, lk)
  BY <1>1 DEF BookType
<1>4. ow2[s] = ow[s] \cup F /\ \A t \in Spaces : t # s => ow2[t] = ow[t]
  BY <1>1 DEF BookType
<1> HIDE DEF ow2
<1>5. \A t \in Spaces : \A f \in ow2[t] : f \in us \cup F /\ kind[f] = "owned" /\ who[f] = t
  BY <1>1, <1>2, <1>4 DEF Tagged
<1>6. Tagged(us \cup F, rt, tb, ow2, st, an, bl, lk, {}, kind, who, reg)
  <2>1. ASSUME NEW f \in us \cup F
        PROVE  \/ kind[f] = "root" /\ who[f] \in Spaces /\ rt[who[f]] = f
               \/ kind[f] = "tab" /\ who[f] \in Spaces /\ reg[f] \in Regions /\ tb[who[f]][reg[f]] = f
               \/ kind[f] = "owned" /\ who[f] \in Spaces /\ f \in ow2[who[f]]
               \/ kind[f] = "stack" /\ who[f] \in Spaces /\ f \in st[who[f]]
               \/ kind[f] = "anon" /\ who[f] \in Spaces /\ f \in an[who[f]]
               \/ kind[f] = "block" /\ who[f] \in Actors /\ f \in bl[who[f]]
               \/ kind[f] = "leaked" /\ f \in lk
    <3>1. CASE f \in F
      BY <1>2, <1>4, <3>1
    <3>2. CASE f \notin F
      <4>1. f \in (us \cup F) \ F
        BY <3>2
      <4> QED
        BY <1>1, <1>2, <1>4, <4>1 DEF Tagged, BookType
    <3> QED
      BY <3>1, <3>2
  <2> QED
    BY <1>2, <1>5, <2>1 DEF Tagged
<1> QED
  BY <1>3, <1>6 DEF Booked, ow2

\* The block of a user stack.
LEMMA TakeStack ==
    ASSUME NEW us, NEW rt, NEW tb, NEW ow, NEW st, NEW an, NEW bl, NEW lk,
           Booked(us, rt, tb, ow, st, an, bl, lk),
           NEW s \in Spaces, NEW F \in SUBSET (Frames \ us)
    PROVE  Booked(us \cup F, rt, tb, ow, [st EXCEPT ![s] = @ \cup F], an, bl, lk)
<1> DEFINE st2 == [st EXCEPT ![s] = @ \cup F]
<1>1. BookType(us, rt, tb, ow, st, an, bl, lk) /\ None \notin Frames
  BY AddressSpaceAssumption DEF Booked
<1>2. PICK kind, who, reg :
         /\ Tagged(us \cup F, rt, tb, ow, st, an, bl, lk, F, kind, who, reg)
         /\ \A f \in F : kind[f] = "stack" /\ who[f] = s /\ reg[f] = None
  <2>1. F \in SUBSET (Frames \ us)
    OBVIOUS
  <2>2. Pending(us \cup F, rt, tb, ow, st, an, bl, lk, F, "stack", s, None)
    BY <2>1, Fresh
  <2> QED
    BY <2>2 DEF Pending
<1>3. BookType(us \cup F, rt, tb, ow, st2, an, bl, lk)
  BY <1>1 DEF BookType
<1>4. st2[s] = st[s] \cup F /\ \A t \in Spaces : t # s => st2[t] = st[t]
  BY <1>1 DEF BookType
<1> HIDE DEF st2
<1>5. \A t \in Spaces : \A f \in st2[t] : f \in us \cup F /\ kind[f] = "stack" /\ who[f] = t
  BY <1>1, <1>2, <1>4 DEF Tagged
<1>6. Tagged(us \cup F, rt, tb, ow, st2, an, bl, lk, {}, kind, who, reg)
  <2>1. ASSUME NEW f \in us \cup F
        PROVE  \/ kind[f] = "root" /\ who[f] \in Spaces /\ rt[who[f]] = f
               \/ kind[f] = "tab" /\ who[f] \in Spaces /\ reg[f] \in Regions /\ tb[who[f]][reg[f]] = f
               \/ kind[f] = "owned" /\ who[f] \in Spaces /\ f \in ow[who[f]]
               \/ kind[f] = "stack" /\ who[f] \in Spaces /\ f \in st2[who[f]]
               \/ kind[f] = "anon" /\ who[f] \in Spaces /\ f \in an[who[f]]
               \/ kind[f] = "block" /\ who[f] \in Actors /\ f \in bl[who[f]]
               \/ kind[f] = "leaked" /\ f \in lk
    <3>1. CASE f \in F
      BY <1>2, <1>4, <3>1
    <3>2. CASE f \notin F
      <4>1. f \in (us \cup F) \ F
        BY <3>2
      <4> QED
        BY <1>1, <1>2, <1>4, <4>1 DEF Tagged, BookType
    <3> QED
      BY <3>1, <3>2
  <2> QED
    BY <1>2, <1>5, <2>1 DEF Tagged
<1> QED
  BY <1>3, <1>6 DEF Booked, st2

\* Pages that are mapped but in no list.
LEMMA TakeAnon ==
    ASSUME NEW us, NEW rt, NEW tb, NEW ow, NEW st, NEW an, NEW bl, NEW lk,
           Booked(us, rt, tb, ow, st, an, bl, lk),
           NEW s \in Spaces, NEW F \in SUBSET (Frames \ us)
    PROVE  Booked(us \cup F, rt, tb, ow, st, [an EXCEPT ![s] = @ \cup F], bl, lk)
<1> DEFINE an2 == [an EXCEPT ![s] = @ \cup F]
<1>1. BookType(us, rt, tb, ow, st, an, bl, lk) /\ None \notin Frames
  BY AddressSpaceAssumption DEF Booked
<1>2. PICK kind, who, reg :
         /\ Tagged(us \cup F, rt, tb, ow, st, an, bl, lk, F, kind, who, reg)
         /\ \A f \in F : kind[f] = "anon" /\ who[f] = s /\ reg[f] = None
  <2>1. F \in SUBSET (Frames \ us)
    OBVIOUS
  <2>2. Pending(us \cup F, rt, tb, ow, st, an, bl, lk, F, "anon", s, None)
    BY <2>1, Fresh
  <2> QED
    BY <2>2 DEF Pending
<1>3. BookType(us \cup F, rt, tb, ow, st, an2, bl, lk)
  BY <1>1 DEF BookType
<1>4. an2[s] = an[s] \cup F /\ \A t \in Spaces : t # s => an2[t] = an[t]
  BY <1>1 DEF BookType
<1> HIDE DEF an2
<1>5. \A t \in Spaces : \A f \in an2[t] : f \in us \cup F /\ kind[f] = "anon" /\ who[f] = t
  BY <1>1, <1>2, <1>4 DEF Tagged
<1>6. Tagged(us \cup F, rt, tb, ow, st, an2, bl, lk, {}, kind, who, reg)
  <2>1. ASSUME NEW f \in us \cup F
        PROVE  \/ kind[f] = "root" /\ who[f] \in Spaces /\ rt[who[f]] = f
               \/ kind[f] = "tab" /\ who[f] \in Spaces /\ reg[f] \in Regions /\ tb[who[f]][reg[f]] = f
               \/ kind[f] = "owned" /\ who[f] \in Spaces /\ f \in ow[who[f]]
               \/ kind[f] = "stack" /\ who[f] \in Spaces /\ f \in st[who[f]]
               \/ kind[f] = "anon" /\ who[f] \in Spaces /\ f \in an2[who[f]]
               \/ kind[f] = "block" /\ who[f] \in Actors /\ f \in bl[who[f]]
               \/ kind[f] = "leaked" /\ f \in lk
    <3>1. CASE f \in F
      BY <1>2, <1>4, <3>1
    <3>2. CASE f \notin F
      <4>1. f \in (us \cup F) \ F
        BY <3>2
      <4> QED
        BY <1>1, <1>2, <1>4, <4>1 DEF Tagged, BookType
    <3> QED
      BY <3>1, <3>2
  <2> QED
    BY <1>2, <1>5, <2>1 DEF Tagged
<1> QED
  BY <1>3, <1>6 DEF Booked, an2

\* The block of mmap.
LEMMA TakeBlock ==
    ASSUME NEW us, NEW rt, NEW tb, NEW ow, NEW st, NEW an, NEW bl, NEW lk,
           Booked(us, rt, tb, ow, st, an, bl, lk),
           NEW p \in Actors, NEW F \in SUBSET (Frames \ us)
    PROVE  Booked(us \cup F, rt, tb, ow, st, an, [bl EXCEPT ![p] = @ \cup F], lk)
<1> DEFINE bl2 == [bl EXCEPT ![p] = @ \cup F]
<1>1. BookType(us, rt, tb, ow, st, an, bl, lk) /\ None \notin Frames
  BY AddressSpaceAssumption DEF Booked
<1>2. PICK kind, who, reg :
         /\ Tagged(us \cup F, rt, tb, ow, st, an, bl, lk, F, kind, who, reg)
         /\ \A f \in F : kind[f] = "block" /\ who[f] = p /\ reg[f] = None
  <2>1. F \in SUBSET (Frames \ us)
    OBVIOUS
  <2>2. Pending(us \cup F, rt, tb, ow, st, an, bl, lk, F, "block", p, None)
    BY <2>1, Fresh
  <2> QED
    BY <2>2 DEF Pending
<1>3. BookType(us \cup F, rt, tb, ow, st, an, bl2, lk)
  BY <1>1 DEF BookType
<1>4. bl2[p] = bl[p] \cup F /\ \A q \in Actors : q # p => bl2[q] = bl[q]
  BY <1>1 DEF BookType
<1> HIDE DEF bl2
<1>5. \A q \in Actors : \A f \in bl2[q] : f \in us \cup F /\ kind[f] = "block" /\ who[f] = q
  BY <1>1, <1>2, <1>4 DEF Tagged
<1>6. Tagged(us \cup F, rt, tb, ow, st, an, bl2, lk, {}, kind, who, reg)
  <2>1. ASSUME NEW f \in us \cup F
        PROVE  \/ kind[f] = "root" /\ who[f] \in Spaces /\ rt[who[f]] = f
               \/ kind[f] = "tab" /\ who[f] \in Spaces /\ reg[f] \in Regions /\ tb[who[f]][reg[f]] = f
               \/ kind[f] = "owned" /\ who[f] \in Spaces /\ f \in ow[who[f]]
               \/ kind[f] = "stack" /\ who[f] \in Spaces /\ f \in st[who[f]]
               \/ kind[f] = "anon" /\ who[f] \in Spaces /\ f \in an[who[f]]
               \/ kind[f] = "block" /\ who[f] \in Actors /\ f \in bl2[who[f]]
               \/ kind[f] = "leaked" /\ f \in lk
    <3>1. CASE f \in F
      BY <1>2, <1>4, <3>1
    <3>2. CASE f \notin F
      <4>1. f \in (us \cup F) \ F
        BY <3>2
      <4> QED
        BY <1>1, <1>2, <1>4, <4>1 DEF Tagged, BookType
    <3> QED
      BY <3>1, <3>2
  <2> QED
    BY <1>2, <1>5, <2>1 DEF Tagged
<1> QED
  BY <1>3, <1>6 DEF Booked, bl2

\* A page whose address is dropped.
LEMMA TakeLost ==
    ASSUME NEW us, NEW rt, NEW tb, NEW ow, NEW st, NEW an, NEW bl, NEW lk,
           Booked(us, rt, tb, ow, st, an, bl, lk),
           NEW F \in SUBSET (Frames \ us)
    PROVE  Booked(us \cup F, rt, tb, ow, st, an, bl, lk \cup F)
<1> DEFINE lk2 == lk \cup F
<1>1. BookType(us, rt, tb, ow, st, an, bl, lk) /\ None \notin Frames
  BY AddressSpaceAssumption DEF Booked
<1>2. PICK kind, who, reg :
         /\ Tagged(us \cup F, rt, tb, ow, st, an, bl, lk, F, kind, who, reg)
         /\ \A f \in F : kind[f] = "leaked" /\ who[f] = None /\ reg[f] = None
  <2>1. F \in SUBSET (Frames \ us)
    OBVIOUS
  <2>2. Pending(us \cup F, rt, tb, ow, st, an, bl, lk, F, "leaked", None, None)
    BY <2>1, Fresh
  <2> QED
    BY <2>2 DEF Pending
<1>3. BookType(us \cup F, rt, tb, ow, st, an, bl, lk2)
  BY <1>1 DEF BookType
<1>4. lk2 = lk \cup F
  BY <1>1 DEF BookType
<1> HIDE DEF lk2
<1>5. \A f \in lk2 : f \in us \cup F /\ kind[f] = "leaked"
  BY <1>1, <1>2, <1>4 DEF Tagged
<1>6. Tagged(us \cup F, rt, tb, ow, st, an, bl, lk2, {}, kind, who, reg)
  <2>1. ASSUME NEW f \in us \cup F
        PROVE  \/ kind[f] = "root" /\ who[f] \in Spaces /\ rt[who[f]] = f
               \/ kind[f] = "tab" /\ who[f] \in Spaces /\ reg[f] \in Regions /\ tb[who[f]][reg[f]] = f
               \/ kind[f] = "owned" /\ who[f] \in Spaces /\ f \in ow[who[f]]
               \/ kind[f] = "stack" /\ who[f] \in Spaces /\ f \in st[who[f]]
               \/ kind[f] = "anon" /\ who[f] \in Spaces /\ f \in an[who[f]]
               \/ kind[f] = "block" /\ who[f] \in Actors /\ f \in bl[who[f]]
               \/ kind[f] = "leaked" /\ f \in lk2
    <3>1. CASE f \in F
      BY <1>2, <1>4, <3>1
    <3>2. CASE f \notin F
      <4>1. f \in (us \cup F) \ F
        BY <3>2
      <4> QED
        BY <1>1, <1>2, <1>4, <4>1 DEF Tagged, BookType
    <3> QED
      BY <3>1, <3>2
  <2> QED
    BY <1>2, <1>5, <2>1 DEF Tagged
<1> QED
  BY <1>3, <1>6 DEF Booked, lk2

\* What the tags say about two holders of one frame.
LEMMA OneHolder ==
    ASSUME NEW us, NEW rt, NEW tb, NEW ow, NEW st, NEW an, NEW bl, NEW lk,
           Booked(us, rt, tb, ow, st, an, bl, lk)
    PROVE  /\ \A s, t \in Spaces : rt[s] # None =>
                 /\ rt[s] = rt[t] => s = t
                 /\ rt[s] \notin ow[t] \cup st[t] \cup an[t] \cup lk
                 /\ \A r \in Regions : tb[t][r] # rt[s]
                 /\ \A p \in Actors : rt[s] \notin bl[p]
           /\ \A s, t \in Spaces, r \in Regions : tb[s][r] # None =>
                 /\ \A v \in Regions : tb[s][r] = tb[t][v] => s = t /\ r = v
                 /\ tb[s][r] \notin ow[t] \cup st[t] \cup an[t] \cup lk
                 /\ \A p \in Actors : tb[s][r] \notin bl[p]
           /\ \A s, t \in Spaces :
                 /\ ow[s] \cap st[t] = {} /\ ow[s] \cap an[t] = {} /\ st[s] \cap an[t] = {}
                 /\ s # t => ow[s] \cap ow[t] = {} /\ st[s] \cap st[t] = {} /\ an[s] \cap an[t] = {}
                 /\ (ow[s] \cup st[s] \cup an[s]) \cap lk = {}
           /\ \A s \in Spaces, p \in Actors : bl[p] \cap (ow[s] \cup st[s] \cup an[s]) = {}
           /\ \A p, q \in Actors : p # q => bl[p] \cap bl[q] = {}
           /\ \A p \in Actors : bl[p] \cap lk = {}
<1>1. PICK kind, who, reg : Tagged(us, rt, tb, ow, st, an, bl, lk, {}, kind, who, reg)
  BY DEF Booked
<1>2. /\ \A s \in Spaces : rt[s] # None => kind[rt[s]] = "root" /\ who[rt[s]] = s
      /\ \A s \in Spaces, r \in Regions : tb[s][r] # None =>
            kind[tb[s][r]] = "tab" /\ who[tb[s][r]] = s /\ reg[tb[s][r]] = r
      /\ \A s \in Spaces : \A f \in ow[s] : kind[f] = "owned" /\ who[f] = s
      /\ \A s \in Spaces : \A f \in st[s] : kind[f] = "stack" /\ who[f] = s
      /\ \A s \in Spaces : \A f \in an[s] : kind[f] = "anon" /\ who[f] = s
      /\ \A p \in Actors : \A f \in bl[p] : kind[f] = "block" /\ who[f] = p
      /\ \A f \in lk : kind[f] = "leaked"
  BY <1>1 DEF Tagged
<1>3. ASSUME NEW s \in Spaces, NEW t \in Spaces, rt[s] # None
      PROVE  /\ rt[s] = rt[t] => s = t
             /\ rt[s] \notin ow[t] \cup st[t] \cup an[t] \cup lk
             /\ \A r \in Regions : tb[t][r] # rt[s]
             /\ \A p \in Actors : rt[s] \notin bl[p]
  BY <1>2, <1>3
<1>4. ASSUME NEW s \in Spaces, NEW t \in Spaces, NEW r \in Regions, tb[s][r] # None
      PROVE  /\ \A v \in Regions : tb[s][r] = tb[t][v] => s = t /\ r = v
             /\ tb[s][r] \notin ow[t] \cup st[t] \cup an[t] \cup lk
             /\ \A p \in Actors : tb[s][r] \notin bl[p]
  BY <1>2, <1>4
<1>5. ASSUME NEW s \in Spaces, NEW t \in Spaces
      PROVE  /\ ow[s] \cap st[t] = {} /\ ow[s] \cap an[t] = {} /\ st[s] \cap an[t] = {}
             /\ s # t => ow[s] \cap ow[t] = {} /\ st[s] \cap st[t] = {} /\ an[s] \cap an[t] = {}
             /\ (ow[s] \cup st[s] \cup an[s]) \cap lk = {}
  BY <1>2
<1>6. /\ \A s \in Spaces, p \in Actors : bl[p] \cap (ow[s] \cup st[s] \cup an[s]) = {}
      /\ \A p, q \in Actors : p # q => bl[p] \cap bl[q] = {}
      /\ \A p \in Actors : bl[p] \cap lk = {}
  BY <1>2
<1> QED
  BY <1>3, <1>4, <1>5, <1>6

\* The frames in F disappear from every book.
Erased(F, rt, tb, ow, st, an, bl, lk, rt2, tb2, ow2, st2, an2, bl2) ==
    /\ F \cap lk = {}
    /\ \A s \in Spaces : rt2[s] = IF rt[s] \in F THEN None ELSE rt[s]
    /\ \A s \in Spaces, r \in Regions : tb2[s][r] = IF tb[s][r] \in F THEN None ELSE tb[s][r]
    /\ \A s \in Spaces : ow2[s] = ow[s] \ F /\ st2[s] = st[s] \ F /\ an2[s] = an[s] \ F
    /\ \A p \in Actors : bl2[p] = bl[p] \ F

LEMMA FreeFrames ==
    ASSUME NEW us, NEW rt, NEW tb, NEW ow, NEW st, NEW an, NEW bl, NEW lk,
           Booked(us, rt, tb, ow, st, an, bl, lk),
           NEW F, NEW rt2, NEW tb2, NEW ow2, NEW st2, NEW an2, NEW bl2,
           BookType(us \ F, rt2, tb2, ow2, st2, an2, bl2, lk),
           Erased(F, rt, tb, ow, st, an, bl, lk, rt2, tb2, ow2, st2, an2, bl2)
    PROVE  Booked(us \ F, rt2, tb2, ow2, st2, an2, bl2, lk)
<1>1. PICK kind, who, reg : Tagged(us, rt, tb, ow, st, an, bl, lk, {}, kind, who, reg)
  BY DEF Booked
<1>2. Tagged(us \ F, rt2, tb2, ow2, st2, an2, bl2, lk, {}, kind, who, reg)
  <2>1. /\ \A s \in Spaces : rt2[s] # None =>
              rt2[s] \in us \ F /\ kind[rt2[s]] = "root" /\ who[rt2[s]] = s
        /\ \A s \in Spaces, r \in Regions : tb2[s][r] # None =>
              /\ tb2[s][r] \in us \ F /\ kind[tb2[s][r]] = "tab"
              /\ who[tb2[s][r]] = s /\ reg[tb2[s][r]] = r
    BY <1>1 DEF Tagged, Erased
  <2>2. /\ \A s \in Spaces : \A f \in ow2[s] : f \in us \ F /\ kind[f] = "owned" /\ who[f] = s
        /\ \A s \in Spaces : \A f \in st2[s] : f \in us \ F /\ kind[f] = "stack" /\ who[f] = s
        /\ \A s \in Spaces : \A f \in an2[s] : f \in us \ F /\ kind[f] = "anon" /\ who[f] = s
        /\ \A p \in Actors : \A f \in bl2[p] : f \in us \ F /\ kind[f] = "block" /\ who[f] = p
        /\ \A f \in lk : f \in us \ F /\ kind[f] = "leaked"
    BY <1>1 DEF Tagged, Erased
  <2>3. ASSUME NEW f \in us \ F
        PROVE  \/ kind[f] = "root" /\ who[f] \in Spaces /\ rt2[who[f]] = f
               \/ kind[f] = "tab" /\ who[f] \in Spaces /\ reg[f] \in Regions /\ tb2[who[f]][reg[f]] = f
               \/ kind[f] = "owned" /\ who[f] \in Spaces /\ f \in ow2[who[f]]
               \/ kind[f] = "stack" /\ who[f] \in Spaces /\ f \in st2[who[f]]
               \/ kind[f] = "anon" /\ who[f] \in Spaces /\ f \in an2[who[f]]
               \/ kind[f] = "block" /\ who[f] \in Actors /\ f \in bl2[who[f]]
               \/ kind[f] = "leaked" /\ f \in lk
    BY <1>1 DEF Tagged, Erased
  <2> QED
    BY <2>1, <2>2, <2>3 DEF Tagged
<1> QED
  BY <1>2 DEF Booked

\* The user stack goes.
LEMMA FreeStack ==
    ASSUME NEW us, NEW rt, NEW tb, NEW ow, NEW st, NEW an, NEW bl, NEW lk,
           Booked(us, rt, tb, ow, st, an, bl, lk), NEW s \in Spaces
    PROVE  Booked(us \ st[s], rt, tb, ow, [st EXCEPT ![s] = {}], an, bl, lk)
<1> DEFINE F == st[s]
           st2 == [st EXCEPT ![s] = {}]
<1>1. BookType(us, rt, tb, ow, st, an, bl, lk) /\ None \notin Frames
  BY AddressSpaceAssumption DEF Booked
<1>2. BookType(us \ F, rt, tb, ow, st2, an, bl, lk) /\ F \subseteq Frames
  BY <1>1 DEF BookType
<1>3. st2[s] = {} /\ \A t \in Spaces : t # s => st2[t] = st[t]
  BY <1>1 DEF BookType
<1> HIDE DEF st2
<1>4. /\ \A t \in Spaces : rt[t] \notin F
      /\ \A t \in Spaces, r \in Regions : tb[t][r] \notin F
      /\ F \cap lk = {}
  BY <1>1, <1>2, OneHolder
<1>5. /\ \A t \in Spaces : ow[t] = ow[t] \ F /\ st2[t] = st[t] \ F /\ an[t] = an[t] \ F
      /\ \A q \in Actors : bl[q] = bl[q] \ F
  BY <1>3, OneHolder
<1> HIDE DEF F
<1>6. Erased(F, rt, tb, ow, st, an, bl, lk, rt, tb, ow, st2, an, bl)
  BY <1>4, <1>5 DEF Erased
<1>7. Booked(us \ F, rt, tb, ow, st2, an, bl, lk)
  BY <1>2, <1>6, FreeFrames
<1> QED
  BY <1>7 DEF F, st2

\* The pages that are in no list go.
LEMMA FreeAnon ==
    ASSUME NEW us, NEW rt, NEW tb, NEW ow, NEW st, NEW an, NEW bl, NEW lk,
           Booked(us, rt, tb, ow, st, an, bl, lk), NEW s \in Spaces
    PROVE  Booked(us \ an[s], rt, tb, ow, st, [an EXCEPT ![s] = {}], bl, lk)
<1> DEFINE F == an[s]
           an2 == [an EXCEPT ![s] = {}]
<1>1. BookType(us, rt, tb, ow, st, an, bl, lk) /\ None \notin Frames
  BY AddressSpaceAssumption DEF Booked
<1>2. BookType(us \ F, rt, tb, ow, st, an2, bl, lk) /\ F \subseteq Frames
  BY <1>1 DEF BookType
<1>3. an2[s] = {} /\ \A t \in Spaces : t # s => an2[t] = an[t]
  BY <1>1 DEF BookType
<1> HIDE DEF an2
<1>4. /\ \A t \in Spaces : rt[t] \notin F
      /\ \A t \in Spaces, r \in Regions : tb[t][r] \notin F
      /\ F \cap lk = {}
  BY <1>1, <1>2, OneHolder
<1>5. /\ \A t \in Spaces : ow[t] = ow[t] \ F /\ st[t] = st[t] \ F /\ an2[t] = an[t] \ F
      /\ \A q \in Actors : bl[q] = bl[q] \ F
  BY <1>3, OneHolder
<1> HIDE DEF F
<1>6. Erased(F, rt, tb, ow, st, an, bl, lk, rt, tb, ow, st, an2, bl)
  BY <1>4, <1>5 DEF Erased
<1>7. Booked(us \ F, rt, tb, ow, st, an2, bl, lk)
  BY <1>2, <1>6, FreeFrames
<1> QED
  BY <1>7 DEF F, an2

\* The block of mmap goes.
LEMMA FreeBlock ==
    ASSUME NEW us, NEW rt, NEW tb, NEW ow, NEW st, NEW an, NEW bl, NEW lk,
           Booked(us, rt, tb, ow, st, an, bl, lk), NEW p \in Actors
    PROVE  Booked(us \ bl[p], rt, tb, ow, st, an, [bl EXCEPT ![p] = {}], lk)
<1> DEFINE F == bl[p]
           bl2 == [bl EXCEPT ![p] = {}]
<1>1. BookType(us, rt, tb, ow, st, an, bl, lk) /\ None \notin Frames
  BY AddressSpaceAssumption DEF Booked
<1>2. BookType(us \ F, rt, tb, ow, st, an, bl2, lk) /\ F \subseteq Frames
  BY <1>1 DEF BookType
<1>3. bl2[p] = {} /\ \A q \in Actors : q # p => bl2[q] = bl[q]
  BY <1>1 DEF BookType
<1> HIDE DEF bl2
<1>4. /\ \A t \in Spaces : rt[t] \notin F
      /\ \A t \in Spaces, r \in Regions : tb[t][r] \notin F
      /\ F \cap lk = {}
  BY <1>1, <1>2, OneHolder
<1>5. /\ \A t \in Spaces : ow[t] = ow[t] \ F /\ st[t] = st[t] \ F /\ an[t] = an[t] \ F
      /\ \A q \in Actors : bl2[q] = bl[q] \ F
  BY <1>3, OneHolder
<1> HIDE DEF F
<1>6. Erased(F, rt, tb, ow, st, an, bl, lk, rt, tb, ow, st, an, bl2)
  BY <1>4, <1>5 DEF Erased
<1>7. Booked(us \ F, rt, tb, ow, st, an, bl2, lk)
  BY <1>2, <1>6, FreeFrames
<1> QED
  BY <1>7 DEF F, bl2

\* free_page_table and the lists of one space go.
TablesOf(rt, tb, s) == ({rt[s]} \cup Range(tb[s])) \ {None}

LEMMA FreeSpace ==
    ASSUME NEW us, NEW rt, NEW tb, NEW ow, NEW st, NEW an, NEW bl, NEW lk,
           Booked(us, rt, tb, ow, st, an, bl, lk), NEW s \in Spaces
    PROVE  Booked(us \ (TablesOf(rt, tb, s) \cup ow[s] \cup an[s]),
                  [rt EXCEPT ![s] = None], [tb EXCEPT ![s] = NoTables],
                  [ow EXCEPT ![s] = {}], st, [an EXCEPT ![s] = {}], bl, lk)
<1> DEFINE F == TablesOf(rt, tb, s) \cup ow[s] \cup an[s]
           rt2 == [rt EXCEPT ![s] = None]
           tb2 == [tb EXCEPT ![s] = NoTables]
           ow2 == [ow EXCEPT ![s] = {}]
           an2 == [an EXCEPT ![s] = {}]
<1>1. BookType(us, rt, tb, ow, st, an, bl, lk) /\ None \notin Frames
  BY AddressSpaceAssumption DEF Booked
<1>2. NoTables \in [Regions -> Frames \cup {None}] /\ \A r \in Regions : NoTables[r] = None
  BY DEF NoTables
<1>3. \A f : f \in F <=> f # None /\ (f = rt[s] \/ (\E r \in Regions : tb[s][r] = f) \/ f \in ow[s] \/ f \in an[s])
  <2>1. DOMAIN tb[s] = Regions
    BY <1>1 DEF BookType
  <2>2. None \notin ow[s] /\ None \notin an[s]
    BY <1>1 DEF BookType
  <2> QED
    BY <2>1, <2>2 DEF TablesOf, Range
<1>4. /\ rt2[s] = None /\ tb2[s] = NoTables /\ ow2[s] = {} /\ an2[s] = {}
      /\ \A t \in Spaces : t # s => rt2[t] = rt[t] /\ tb2[t] = tb[t] /\ ow2[t] = ow[t] /\ an2[t] = an[t]
  BY <1>1 DEF BookType
<1>5. BookType(us \ F, rt2, tb2, ow2, st, an2, bl, lk)
  BY <1>1, <1>2 DEF BookType
<1> HIDE DEF F, rt2, tb2, ow2, an2
<1>6. F \cap lk = {}
  BY <1>3, OneHolder
<1>7. \A t \in Spaces : rt2[t] = IF rt[t] \in F THEN None ELSE rt[t]
  BY <1>3, <1>4, OneHolder
<1>8. \A t \in Spaces, r \in Regions : tb2[t][r] = IF tb[t][r] \in F THEN None ELSE tb[t][r]
  BY <1>2, <1>3, <1>4, OneHolder
<1>9. \A t \in Spaces : ow2[t] = ow[t] \ F /\ st[t] = st[t] \ F /\ an2[t] = an[t] \ F
  <2>1. \A t \in Spaces : st[t] \cap F = {} /\ (t # s => ow[t] \cap F = {} /\ an[t] \cap F = {})
    BY <1>3, OneHolder
  <2>2. ow[s] \subseteq F /\ an[s] \subseteq F
    BY <1>1, <1>3 DEF BookType
  <2> QED
    BY <1>4, <2>1, <2>2
<1>10. \A p \in Actors : bl[p] = bl[p] \ F
  BY <1>3, OneHolder
<1>11. Booked(us \ F, rt2, tb2, ow2, st, an2, bl, lk)
  <2>1. Erased(F, rt, tb, ow, st, an, bl, lk, rt2, tb2, ow2, st, an2, bl)
    BY <1>6, <1>7, <1>8, <1>9, <1>10 DEF Erased
  <2> QED
    BY <1>5, <2>1, FreeFrames
<1> QED
  BY <1>11 DEF F, rt2, tb2, ow2, an2

-----------------------------------------------------------------------------
(* The inductive invariant *)

\* Where a process builds an address space, and where elf_load is not done with it.
Building == {"clone", "cloneStack", "load", "loadFailed", "collect", "prepare", "stack", "commit"}
Loading == {"load", "loadFailed", "collect"}

AccountInv == Booked(used, root, tab, owned, stack, anon, block, leaked)

\* Every address space belongs to one thread: to run in or to build.
Distinct ==
    \A p, q \in Actors :
        /\ space[p] # None /\ space[p] = space[q] => p = q
        /\ new[p] # None /\ new[p] = new[q] => p = q
        /\ new[p] # None => space[q] # new[p]

SpaceOf(p) ==
    /\ space[p] # None => (root[space[p]] = None <=> pc[p] = "dead")
    /\ p \in Procs /\ pc[p] \notin {"off", "dead"} => space[p] # None
    /\ pc[p] \in {"grow", "mmap", "clone", "cloneStack"} => space[p] # None
    /\ pc[p] = "off" \/ p = Kmain => space[p] = None
    /\ new[p] # None <=> pc[p] \in Building
    /\ new[p] # None => root[new[p]] # None

\* What the loop variables and the space being built are at each place.
PhaseOf(p) ==
    /\ pc[p] \in {"off", "user", "dead"} => at[p] = 0
    /\ pc[p] = "grow" => goal[p] < 2 * HeapMax
    /\ pc[p] # "mmap" => block[p] = {}
    /\ pc[p] \in Loading \cup {"clone", "prepare"} => stack[new[p]] = {}
    /\ pc[p] \in Loading => owned[new[p]] = {} /\ anon[new[p]] = Leaves(new[p])

\* mmap maps the frames of its block in order: those that belong at at[p] and
\* above are mapped nowhere.
BlockOf(p) ==
    pc[p] = "mmap" =>
        \E lo \in Nat, n \in Nat :
            /\ block[p] = lo..(lo + n - 1)
            /\ n <= goal[p] /\ at[p] \in (goal[p] - n)..goal[p]
            /\ \A va \in Va \ stale[space[p]] : map[space[p]][va] \in block[p] =>
                  map[space[p]][va] + goal[p] < lo + n + at[p]

\* So is the part of the stack.
StackOf(p) ==
    pc[p] \in {"cloneStack", "stack"} =>
        \E lo \in Nat :
            /\ stack[new[p]] = lo..(lo + (StackTop - StackLo) - 1)
            /\ at[p] \in StackLo..StackTop
            /\ \A va \in Va \ stale[new[p]] : map[new[p]][va] \in stack[new[p]] =>
                  va < at[p] /\ map[new[p]][va] + StackLo = lo + va

\* The heap is there, as far as grow_process_brk has come, and a child has it as
\* far as clone_user_level and the stack have come.
HeapOf(p) ==
    /\ p \in Procs /\ pc[p] \notin {"off", "dead"} =>
          \A va \in ImageEnd..(PageAlignUp(brk[space[p]]) - 1) :
              map[space[p]][va] # None \/ va \in holes[space[p]]
    /\ pc[p] = "grow" =>
          \A va \in ImageEnd..(at[p] - 1) : map[space[p]][va] # None \/ va \in holes[space[p]]
    /\ pc[p] \in {"clone", "cloneStack"} =>
          \A va \in Va \ StackPages :
              (pc[p] = "clone" => va < at[p]) /\ map[space[p]][va] # None => map[new[p]][va] # None
    /\ pc[p] = "cloneStack" => \A va \in StackLo..(at[p] - 1) : map[new[p]][va] # None

\* A space without a root is empty.
EmptyOf(s) ==
    root[s] = None =>
        /\ \A r \in Regions : tab[s][r] = None
        /\ \A va \in Va : map[s][va] = None
        /\ owned[s] = {} /\ anon[s] = {}

\* What a space maps is held by that space, and mapped once.
Backed(s, f) ==
    \/ f \in owned[s] \cup stack[s] \cup anon[s]
    \/ \E p \in Actors : pc[p] = "mmap" /\ space[p] = s /\ f \in block[p]

MapOf(s) ==
    \A va \in Va \ stale[s] : map[s][va] # None =>
        /\ Backed(s, map[s][va])
        /\ \A v \in Va \ stale[s] : map[s][v] = map[s][va] => v = va

TabOf(s) == \A va \in Va : map[s][va] # None => tab[s][Region(va)] # None

BrkOf(s) == brk[s] < 2 * HeapMax \/ brk[s] = 2 * ImageEnd

ActorInv(p) == SpaceOf(p) /\ PhaseOf(p) /\ BlockOf(p) /\ StackOf(p) /\ HeapOf(p)
PageInv(s) == EmptyOf(s) /\ MapOf(s) /\ TabOf(s) /\ BrkOf(s)

IInv ==
    /\ TypeOK
    /\ AccountInv
    /\ Distinct
    /\ \A p \in Actors : ActorInv(p)
    /\ \A s \in Spaces : PageInv(s)

-----------------------------------------------------------------------------
(* A step disturbs the threads in P and the spaces in S, and nobody else *)

Local(P, S) ==
    /\ \A q \in Actors \ P :
          /\ pc'[q] = pc[q] /\ at'[q] = at[q] /\ goal'[q] = goal[q] /\ block'[q] = block[q]
          /\ space'[q] = space[q] /\ new'[q] = new[q]
          /\ space[q] \notin S /\ new[q] \notin S
    /\ \A p \in P : pc[p] = "mmap" => space[p] \in S
    /\ \A t \in Spaces \ S :
          /\ root'[t] = root[t] /\ tab'[t] = tab[t] /\ map'[t] = map[t]
          /\ owned'[t] = owned[t] /\ stack'[t] = stack[t] /\ anon'[t] = anon[t]
          /\ stale'[t] = stale[t] /\ holes'[t] = holes[t] /\ brk'[t] = brk[t]

LEMMA OtherThreads ==
    ASSUME IInv, NEW P, NEW S, Local(P, S), NEW q \in Actors \ P
    PROVE  ActorInv(q)'
<1>1. /\ SpaceOf(q) /\ PhaseOf(q) /\ BlockOf(q) /\ StackOf(q) /\ HeapOf(q)
      /\ space[q] \in Spaces \cup {None} /\ new[q] \in Spaces \cup {None}
      /\ None \notin Spaces
  BY AddressSpaceAssumption DEF IInv, ActorInv, TypeOK
<1>2. /\ pc'[q] = pc[q] /\ at'[q] = at[q] /\ goal'[q] = goal[q] /\ block'[q] = block[q]
      /\ space'[q] = space[q] /\ new'[q] = new[q]
  BY DEF Local
<1>3. space[q] # None =>
         /\ root'[space[q]] = root[space[q]] /\ map'[space[q]] = map[space[q]]
         /\ stale'[space[q]] = stale[space[q]] /\ holes'[space[q]] = holes[space[q]]
         /\ brk'[space[q]] = brk[space[q]]
  BY <1>1 DEF Local
<1>4. new[q] # None =>
         /\ root'[new[q]] = root[new[q]] /\ map'[new[q]] = map[new[q]]
         /\ stale'[new[q]] = stale[new[q]] /\ owned'[new[q]] = owned[new[q]]
         /\ stack'[new[q]] = stack[new[q]] /\ anon'[new[q]] = anon[new[q]]
  BY <1>1 DEF Local
<1>5. SpaceOf(q)'
  BY <1>1, <1>2, <1>3, <1>4 DEF SpaceOf
<1>6. PhaseOf(q)'
  BY <1>1, <1>2, <1>4 DEF PhaseOf, SpaceOf, Loading, Building, Leaves
<1>7. BlockOf(q)'
  BY <1>1, <1>2, <1>3 DEF BlockOf, SpaceOf
<1>8. StackOf(q)'
  BY <1>1, <1>2, <1>4 DEF StackOf, SpaceOf, Building
<1>9. HeapOf(q)'
  BY <1>1, <1>2, <1>3, <1>4 DEF HeapOf, SpaceOf, Building
<1> QED
  BY <1>5, <1>6, <1>7, <1>8, <1>9 DEF ActorInv

LEMMA OtherSpaces ==
    ASSUME IInv, NEW P, NEW S, Local(P, S), NEW t \in Spaces \ S
    PROVE  PageInv(t)'
<1>1. EmptyOf(t) /\ MapOf(t) /\ TabOf(t) /\ BrkOf(t)
  BY DEF IInv, PageInv
<1>2. /\ root'[t] = root[t] /\ tab'[t] = tab[t] /\ map'[t] = map[t]
      /\ owned'[t] = owned[t] /\ stack'[t] = stack[t] /\ anon'[t] = anon[t]
      /\ stale'[t] = stale[t] /\ brk'[t] = brk[t]
  BY DEF Local
<1>3. \A f : Backed(t, f) => Backed(t, f)'
  BY <1>2 DEF Local, Backed
<1> QED
  BY <1>1, <1>2, <1>3 DEF PageInv, EmptyOf, MapOf, TabOf, BrkOf

\* What is left to show for a step of the threads in P in the spaces in S.
LEMMA Assemble ==
    ASSUME IInv, NEW P, NEW S, Local(P, S),
           TypeOK', AccountInv', Distinct',
           \A p \in P \cap Actors : ActorInv(p)',
           \A s \in S \cap Spaces : PageInv(s)'
    PROVE  IInv'
<1>1. \A p \in Actors : ActorInv(p)'
  BY OtherThreads
<1>2. \A s \in Spaces : PageInv(s)'
  BY OtherSpaces
<1> QED
  BY <1>1, <1>2 DEF IInv

\* Steps that change nothing but the place of p.
LEMMA QuietStep ==
    ASSUME IInv, NEW p \in Actors, pc[p] # "mmap",
           UNCHANGED <<heap, tables, owned, stack, limits, space, new, block, history>>,
           NEW to \in Locations, NEW a \in Nat, NEW g \in Nat,
           pc' = [pc EXCEPT ![p] = to], at' = [at EXCEPT ![p] = a], goal' = [goal EXCEPT ![p] = g],
           faulted' \in BOOLEAN,
           ActorInv(p)'
    PROVE  IInv'
<1>1. TypeOK'
  BY DEF IInv, TypeOK, heap, tables, limits, history
<1>2. AccountInv'
  BY DEF IInv, AccountInv, heap, tables, history
<1>3. Distinct'
  BY DEF IInv, Distinct
<1>4. Local({p}, {})
  BY DEF Local, IInv, TypeOK, heap, tables, limits, history
<1> QED
  BY <1>1, <1>2, <1>3, <1>4, Assemble

-----------------------------------------------------------------------------
(* map_page_4k *)

LEMMA RegionType == \A va \in Va : Region(va) \in Regions
  BY DEF Regions

LEMMA MapEffect ==
    ASSUME TypeOK, NEW s \in Spaces, NEW va \in Va, NEW f \in Frames, NEW taken \in SUBSET Frames,
           MapPage(s, va, f, taken)
    PROVE  /\ map' \in [Spaces -> [Va -> Frames \cup {None}]]
           /\ tab' \in [Spaces -> [Regions -> Frames \cup {None}]]
           /\ stale' \in [Spaces -> SUBSET Va] /\ holes' \in [Spaces -> SUBSET Va]
           /\ root' = root /\ used' \subseteq Frames
           /\ map'[s][va] = f /\ \A v \in Va : v # va => map'[s][v] = map[s][v]
           /\ \A t \in Spaces : t # s => /\ map'[t] = map[t] /\ tab'[t] = tab[t]
                                         /\ stale'[t] = stale[t] /\ holes'[t] = holes[t]
           /\ stale'[s] = stale[s] \ {va} /\ holes'[s] = holes[s] \ {va}
           /\ tab'[s][Region(va)] # None
           /\ \A r \in Regions : tab[s][r] # None => tab'[s][r] # None
<1>1. /\ map' = [map EXCEPT ![s][va] = f]
      /\ stale' = [stale EXCEPT ![s] = @ \ {va}]
      /\ holes' = [holes EXCEPT ![s] = @ \ {va}]
      /\ root' = root
  BY DEF MapPage
<1>2. Region(va) \in Regions /\ None \notin Frames
  BY RegionType, AddressSpaceAssumption
<1>3. /\ map' \in [Spaces -> [Va -> Frames \cup {None}]]
      /\ stale' \in [Spaces -> SUBSET Va] /\ holes' \in [Spaces -> SUBSET Va]
      /\ map'[s][va] = f /\ \A v \in Va : v # va => map'[s][v] = map[s][v]
      /\ \A t \in Spaces : t # s => map'[t] = map[t] /\ stale'[t] = stale[t] /\ holes'[t] = holes[t]
      /\ stale'[s] = stale[s] \ {va} /\ holes'[s] = holes[s] \ {va}
  BY <1>1 DEF TypeOK
<1>4. CASE tab[s][Region(va)] # None
  BY <1>1, <1>2, <1>3, <1>4 DEF MapPage, TypeOK
<1>5. CASE tab[s][Region(va)] = None
  <2>1. FreeRuns(taken, 1) # {} /\ used' = taken \cup {FirstFree(taken)}
    BY <1>5 DEF MapPage
  <2>2. PICK g : g = FirstFree(taken)
    OBVIOUS
  <2>3. g \in Frames
    BY <2>1, <2>2, FreeFrame
  <2>4. tab' = [tab EXCEPT ![s][Region(va)] = g]
    BY <1>5, <2>2 DEF MapPage
  <2>5. /\ tab' \in [Spaces -> [Regions -> Frames \cup {None}]]
        /\ tab'[s][Region(va)] = g
        /\ \A r \in Regions : r # Region(va) => tab'[s][r] = tab[s][r]
        /\ \A t \in Spaces : t # s => tab'[t] = tab[t]
    BY <1>2, <2>3, <2>4 DEF TypeOK
  <2> QED
    BY <1>1, <1>2, <1>3, <1>5, <2>1, <2>2, <2>3, <2>5
<1> QED
  BY <1>4, <1>5

LEMMA MapBooks ==
    ASSUME NEW s \in Spaces, NEW va \in Va, NEW f, NEW taken, MapPage(s, va, f, taken),
           NEW ow, NEW st, NEW an, NEW bl, NEW lk, Booked(taken, root, tab, ow, st, an, bl, lk)
    PROVE  Booked(used', root', tab', ow, st, an, bl, lk)
<1>1. root' = root /\ Region(va) \in Regions
  BY RegionType DEF MapPage
<1>2. CASE tab[s][Region(va)] # None
  BY <1>1, <1>2 DEF MapPage
<1>3. CASE tab[s][Region(va)] = None
  <2>1. FreeRuns(taken, 1) # {} /\ used' = taken \cup {FirstFree(taken)}
    BY <1>3 DEF MapPage
  <2>2. PICK g : g = FirstFree(taken)
    OBVIOUS
  <2>3. g \in Frames \ taken
    BY <2>1, <2>2, FreeFrame
  <2>4. tab' = [tab EXCEPT ![s][Region(va)] = g]
    BY <1>3, <2>2 DEF MapPage
  <2>5. Booked(taken \cup {g}, root, [tab EXCEPT ![s][Region(va)] = g], ow, st, an, bl, lk)
    BY <1>1, <1>3, <2>3, TakeTable
  <2> QED
    BY <1>1, <2>1, <2>2, <2>4, <2>5
<1> QED
  BY <1>2, <1>3

\* A page nobody has mapped.
LEMMA FreshUnmapped ==
    ASSUME IInv, NEW s \in Spaces, NEW va \in Va \ stale[s], map[s][va] # None
    PROVE  map[s][va] \in used
<1>1. Backed(s, map[s][va])
  BY DEF IInv, PageInv, MapOf
<1>2. PICK kind, who, reg :
         Tagged(used, root, tab, owned, stack, anon, block, leaked, {}, kind, who, reg)
  BY DEF IInv, AccountInv, Booked
<1> QED
  BY <1>1, <1>2 DEF Backed, Tagged

\* A free page is mapped in a space where no mmap is going on, and listed there.
LEMMA FreshMapping ==
    ASSUME IInv, NEW s \in Spaces, NEW va \in Va, NEW f, f \notin used,
           \A q \in Actors : space[q] = s => pc[q] # "mmap",
           map'[s][va] = f, \A v \in Va : v # va => map'[s][v] = map[s][v],
           stale[s] \ {va} \subseteq stale'[s],
           owned[s] \cup stack[s] \cup anon[s] \cup {f} \subseteq owned'[s] \cup stack'[s] \cup anon'[s]
    PROVE  MapOf(s)'
<1>1. ASSUME NEW v \in Va, v \notin stale[s], v # va, map[s][v] # None
      PROVE  /\ map[s][v] \in owned[s] \cup stack[s] \cup anon[s] /\ map[s][v] # f
             /\ \A w \in Va \ stale[s] : map[s][w] = map[s][v] => w = v
  BY <1>1, FreshUnmapped DEF IInv, PageInv, MapOf, Backed
<1>2. ASSUME NEW v \in Va \ stale'[s], map'[s][v] # None
      PROVE  /\ map'[s][v] \in owned'[s] \cup stack'[s] \cup anon'[s]
             /\ \A w \in Va \ stale'[s] : map'[s][w] = map'[s][v] => w = v
  BY <1>1, <1>2
<1> QED
  BY <1>2 DEF MapOf, Backed

\* A page is mapped by map_page_4k and entered in one list.
LEMMA FreshPage ==
    ASSUME IInv, NEW s \in Spaces, NEW va \in Va, root[s] # None, FreeRuns(used, 1) # {},
           NEW f, f = FirstFree(used), MapPage(s, va, f, used \cup {f}),
           \A q \in Actors : space[q] = s => pc[q] # "mmap",
           UNCHANGED <<stack, block, leaked, brk>>,
           \/ owned' = [owned EXCEPT ![s] = @ \cup {f}] /\ UNCHANGED anon
           \/ anon' = [anon EXCEPT ![s] = @ \cup {f}] /\ UNCHANGED owned
    PROVE  /\ AccountInv' /\ PageInv(s)'
           /\ owned' \in [Spaces -> SUBSET Frames] /\ anon' \in [Spaces -> SUBSET Frames]
           /\ \A t \in Spaces : t # s => owned'[t] = owned[t] /\ anon'[t] = anon[t]
<1>1. f \in Frames /\ f \notin used
  BY FreeFrame
<1>2. TypeOK /\ AccountInv /\ EmptyOf(s) /\ MapOf(s) /\ TabOf(s) /\ BrkOf(s)
  BY DEF IInv, PageInv
<1>3. used \cup {f} \in SUBSET Frames
  BY <1>1, <1>2 DEF TypeOK
<1>4. /\ root' = root
      /\ map'[s][va] = f /\ \A v \in Va : v # va => map'[s][v] = map[s][v]
      /\ stale'[s] = stale[s] \ {va}
      /\ tab'[s][Region(va)] # None
      /\ \A r \in Regions : tab[s][r] # None => tab'[s][r] # None
  BY <1>1, <1>2, <1>3, MapEffect
<1>5. /\ owned' \in [Spaces -> SUBSET Frames] /\ anon' \in [Spaces -> SUBSET Frames]
      /\ \A t \in Spaces : t # s => owned'[t] = owned[t] /\ anon'[t] = anon[t]
      /\ owned[s] \subseteq owned'[s] /\ anon[s] \subseteq anon'[s]
      /\ f \in owned'[s] \cup anon'[s]
  <2>1. owned \in [Spaces -> SUBSET Frames] /\ anon \in [Spaces -> SUBSET Frames]
    BY <1>2 DEF TypeOK
  <2>2. CASE owned' = [owned EXCEPT ![s] = @ \cup {f}] /\ UNCHANGED anon
    <3>1. /\ owned' \in [Spaces -> SUBSET Frames] /\ owned'[s] = owned[s] \cup {f}
          /\ \A t \in Spaces : t # s => owned'[t] = owned[t]
      BY <1>1, <2>1, <2>2
    <3> QED
      BY <2>1, <2>2, <3>1
  <2>3. CASE anon' = [anon EXCEPT ![s] = @ \cup {f}] /\ UNCHANGED owned
    <3>1. /\ anon' \in [Spaces -> SUBSET Frames] /\ anon'[s] = anon[s] \cup {f}
          /\ \A t \in Spaces : t # s => anon'[t] = anon[t]
      BY <1>1, <2>1, <2>3
    <3> QED
      BY <2>1, <2>3, <3>1
  <2> QED
    BY <2>2, <2>3
<1>6. AccountInv'
  <2>1. {f} \in SUBSET (Frames \ used)
    BY <1>1
  <2>2. Booked(used \cup {f}, root, tab, owned', stack, anon', block, leaked)
    <3>1. Booked(used, root, tab, owned, stack, anon, block, leaked)
      BY <1>2 DEF AccountInv
    <3>2. /\ Booked(used \cup {f}, root, tab, [owned EXCEPT ![s] = @ \cup {f}], stack, anon, block, leaked)
          /\ Booked(used \cup {f}, root, tab, owned, stack, [anon EXCEPT ![s] = @ \cup {f}], block, leaked)
      BY <2>1, <3>1, TakeOwned, TakeAnon
    <3> QED
      BY <3>2, Zenon
  <2>3. Booked(used', root', tab', owned', stack, anon', block, leaked)
    BY <2>2, MapBooks
  <2> QED
    BY <2>3 DEF AccountInv
<1>7. MapOf(s)'
  BY <1>1, <1>4, <1>5, FreshMapping
<1>8. TabOf(s)'
  BY <1>2, <1>4, RegionType DEF TabOf
<1>9. EmptyOf(s)' /\ BrkOf(s)'
  BY <1>2, <1>4 DEF EmptyOf, BrkOf
<1> QED
  BY <1>5, <1>6, <1>7, <1>8, <1>9 DEF PageInv

-----------------------------------------------------------------------------
(* brk *)

LEMMA AlignType ==
    \A b \in Nat : /\ PageAlignUp(b) \in Nat
                   /\ b < 2 * HeapMax => PageAlignUp(b) <= HeapMax
                   /\ b = 2 * ImageEnd => PageAlignUp(b) = ImageEnd
  BY AddressSpaceAssumption DEF PageAlignUp, Va

\* The heap lies in the user half.
LEMMA HeapInVa ==
    ASSUME TypeOK, NEW s \in Spaces, BrkOf(s)
    PROVE  \A va \in ImageEnd..(PageAlignUp(brk[s]) - 1) : va \in Va
<1>1. brk[s] \in Nat /\ ImageEnd \in Nat /\ HeapMax \in Va /\ UserTop \in Nat
  BY AddressSpaceAssumption DEF TypeOK, Va
<1>2. PageAlignUp(brk[s]) \in Nat /\ (PageAlignUp(brk[s]) <= HeapMax \/ PageAlignUp(brk[s]) = ImageEnd)
  BY <1>1, AlignType DEF BrkOf
<1> QED
  BY <1>1, <1>2 DEF Va

LEMMA BrkMovesStep ==
    ASSUME IInv, NEW p \in Procs, NEW b \in Nat, BrkMoves(p, b)
    PROVE  IInv'
<1> DEFINE s == space[p]
<1>1. /\ TypeOK /\ AccountInv /\ Distinct /\ p \in Actors
      /\ SpaceOf(p) /\ PhaseOf(p) /\ BlockOf(p) /\ StackOf(p) /\ HeapOf(p)
  BY DEF IInv, ActorInv, Actors
<1>2. /\ pc[p] = "user" /\ s # None /\ s \in Spaces /\ b < 2 * HeapMax
      /\ PageAlignUp(b) <= PageAlignUp(brk[s])
      /\ brk' = [brk EXCEPT ![s] = b]
      /\ UNCHANGED <<heap, tables, owned, stack, bump, space, new, pc, locals, faulted, history>>
  BY <1>1 DEF BrkMoves, TypeOK
<1>3. EmptyOf(s) /\ MapOf(s) /\ TabOf(s) /\ BrkOf(s)
  BY <1>2 DEF IInv, PageInv
<1>4. brk'[s] = b /\ (\A t \in Spaces : t # s => brk'[t] = brk[t]) /\ brk' \in [Spaces -> Nat]
  BY <1>1, <1>2 DEF TypeOK
<1>5. TypeOK' /\ AccountInv' /\ Distinct'
  BY <1>1, <1>2, <1>4 DEF TypeOK, AccountInv, Distinct, heap, tables, locals, history
<1>6. Local({p}, {s})
  BY <1>1, <1>2, <1>4 DEF Local, Distinct, SpaceOf, Building, heap, tables, locals, history
<1>7. PageInv(s)'
  BY <1>2, <1>3, <1>4 DEF PageInv, EmptyOf, MapOf, TabOf, BrkOf, Backed, heap, tables, locals, history
<1>8. SpaceOf(p)' /\ PhaseOf(p)' /\ BlockOf(p)' /\ StackOf(p)'
  BY <1>1, <1>2 DEF SpaceOf, PhaseOf, BlockOf, StackOf, Loading, Building, heap, tables, locals, history
<1>9. HeapOf(p)'
  <2>1. PageAlignUp(b) \in Nat /\ PageAlignUp(brk[s]) \in Nat /\ ImageEnd \in Nat
    BY <1>1, <1>2, AlignType, AddressSpaceAssumption DEF TypeOK, Va
  <2> QED
    BY <1>1, <1>2, <1>4, <2>1 DEF HeapOf, tables, history
<1> QED
  BY <1>1, <1>2, <1>5, <1>6, <1>7, <1>8, <1>9, Assemble DEF ActorInv

LEMMA BrkBeginsStep ==
    ASSUME IInv, NEW p \in Procs, NEW b \in Nat, BrkBegins(p, b)
    PROVE  IInv'
<1> DEFINE s == space[p]
<1>1. /\ TypeOK /\ p \in Actors /\ SpaceOf(p) /\ PhaseOf(p) /\ HeapOf(p)
  BY DEF IInv, ActorInv, Actors
<1>2. /\ pc[p] = "user" /\ s # None /\ s \in Spaces /\ b < 2 * HeapMax
      /\ pc' = [pc EXCEPT ![p] = "grow"]
      /\ at' = [at EXCEPT ![p] = PageAlignUp(brk[s])]
      /\ goal' = [goal EXCEPT ![p] = b]
      /\ UNCHANGED <<heap, tables, owned, stack, limits, space, new, block, faulted, history>>
  BY <1>1 DEF BrkBegins, Goto, TypeOK
<1>3. PICK a \in Nat : a = PageAlignUp(brk[s])
  BY <1>1, <1>2, AlignType DEF TypeOK
<1>4. pc'[p] = "grow" /\ at'[p] = a /\ goal'[p] = b /\ "grow" \in Locations
  BY <1>1, <1>2, <1>3 DEF TypeOK, Locations
<1>5. SpaceOf(p)' /\ PhaseOf(p)' /\ BlockOf(p)' /\ StackOf(p)' /\ HeapOf(p)'
  BY <1>1, <1>2, <1>3, <1>4
     DEF SpaceOf, PhaseOf, BlockOf, StackOf, HeapOf, Loading, Building, tables, limits, history
<1> QED
  BY <1>1, <1>2, <1>3, <1>4, <1>5, QuietStep DEF ActorInv, TypeOK

\* A page of grow_process_brk is mapped, whatever becomes of the list.
LEMMA GrowMaps ==
    ASSUME IInv, NEW p \in Procs, NEW s, s = space[p], GrowPage(p) \/ GrowUnlisted(p)
    PROVE  /\ TypeOK' /\ AccountInv' /\ Distinct' /\ Local({p}, {s}) /\ PageInv(s)'
           /\ s \in Spaces /\ pc[p] = "grow" /\ space'[p] = s /\ new'[p] = new[p] /\ root' = root
           /\ brk' = brk /\ block' = block
           /\ at[p] \in Va /\ map'[s][at[p]] # None
           /\ \A v \in Va : map[s][v] # None \/ v \in holes[s] =>
                 map'[s][v] # None \/ v \in holes'[s]
<1>0. PICK f, va : f = FirstFree(used) /\ va = at[p]
  OBVIOUS
<1>1. TypeOK /\ Distinct /\ p \in Actors /\ SpaceOf(p) /\ PhaseOf(p)
  BY DEF IInv, ActorInv, Actors
<1>2. /\ pc[p] = "grow" /\ at[p] < PageAlignUp(goal[p]) /\ FreeRuns(used, 1) # {}
      /\ MapPage(s, va, f, used \cup {f})
      /\ brkPages' = brkPages \cup {f}
      /\ UNCHANGED <<leaked, stack, limits, space, new, block, faulted>>
  BY <1>0 DEF GrowPage, GrowUnlisted, Return, Goto
<1>3. s \in Spaces /\ root[s] # None
  BY <1>1, <1>2 DEF SpaceOf, TypeOK
<1>4. va \in Va
  <2>1. goal[p] \in Nat /\ at[p] \in Nat /\ HeapMax \in Nat /\ UserTop \in Nat /\ HeapMax < UserTop
    BY <1>1, AddressSpaceAssumption DEF TypeOK, Va
  <2>2. PageAlignUp(goal[p]) \in Nat /\ PageAlignUp(goal[p]) <= HeapMax
    BY <1>1, <1>2, <2>1, AlignType DEF PhaseOf
  <2> QED
    BY <1>0, <1>2, <2>1, <2>2 DEF Va
<1>5. \A q \in Actors : space[q] = s => pc[q] # "mmap"
  BY <1>1, <1>2, <1>3, AddressSpaceAssumption DEF Distinct
<1>6. f \in Frames /\ used \cup {f} \in SUBSET Frames
  BY <1>0, <1>1, <1>2, FreeFrame DEF TypeOK
<1>7. \/ owned' = [owned EXCEPT ![s] = @ \cup {f}] /\ UNCHANGED anon
      \/ anon' = [anon EXCEPT ![s] = @ \cup {f}] /\ UNCHANGED owned
  BY <1>0 DEF GrowPage, GrowUnlisted
<1>8. /\ AccountInv' /\ PageInv(s)'
      /\ owned' \in [Spaces -> SUBSET Frames] /\ anon' \in [Spaces -> SUBSET Frames]
      /\ \A t \in Spaces : t # s => owned'[t] = owned[t] /\ anon'[t] = anon[t]
  <2>1. UNCHANGED <<stack, block, leaked, brk>>
    BY <1>2 DEF limits
  <2> QED
    BY <1>0, <1>2, <1>3, <1>4, <1>5, <1>7, <2>1, FreshPage
<1>9. /\ map' \in [Spaces -> [Va -> Frames \cup {None}]]
      /\ tab' \in [Spaces -> [Regions -> Frames \cup {None}]]
      /\ stale' \in [Spaces -> SUBSET Va] /\ holes' \in [Spaces -> SUBSET Va]
      /\ root' = root /\ used' \subseteq Frames
      /\ map'[s][va] = f /\ \A v \in Va : v # va => map'[s][v] = map[s][v]
      /\ \A t \in Spaces : t # s => /\ map'[t] = map[t] /\ tab'[t] = tab[t]
                                    /\ stale'[t] = stale[t] /\ holes'[t] = holes[t]
      /\ stale'[s] = stale[s] \ {va} /\ holes'[s] = holes[s] \ {va}
  BY <1>1, <1>2, <1>3, <1>4, <1>6, MapEffect
<1>10. /\ pc' \in [Actors -> Locations] /\ at' \in [Actors -> Nat] /\ goal' \in [Actors -> Nat]
       /\ \A q \in Actors : q # p => pc'[q] = pc[q] /\ at'[q] = at[q] /\ goal'[q] = goal[q]
  <2>1. CASE GrowPage(p)
    BY <1>1, <2>1 DEF GrowPage, TypeOK
  <2>2. CASE GrowUnlisted(p)
    BY <1>1, <2>2 DEF GrowUnlisted, Return, Goto, TypeOK, Locations
  <2> QED
    BY <2>1, <2>2
<1>11. TypeOK'
  BY <1>1, <1>2, <1>6, <1>8, <1>9, <1>10 DEF TypeOK, limits
<1>12. Distinct'
  BY <1>1, <1>2 DEF Distinct
<1>13. Local({p}, {s})
  BY <1>1, <1>2, <1>3, <1>8, <1>9, <1>10 DEF Local, Distinct, SpaceOf, Building, limits
<1>14. \A v \in Va : map[s][v] # None \/ v \in holes[s] => map'[s][v] # None \/ v \in holes'[s]
  BY <1>6, <1>9, AddressSpaceAssumption
<1> QED
  BY <1>0, <1>2, <1>3, <1>4, <1>6, <1>8, <1>9, <1>11, <1>12, <1>13, <1>14, AddressSpaceAssumption DEF limits

LEMMA GrowPageStep ==
    ASSUME IInv, NEW p \in Procs, GrowPage(p)
    PROVE  IInv'
<1>0. PICK s : s = space[p]
  OBVIOUS
<1>1. /\ TypeOK' /\ AccountInv' /\ Distinct' /\ Local({p}, {s}) /\ PageInv(s)'
      /\ s \in Spaces /\ pc[p] = "grow" /\ space'[p] = s /\ new'[p] = new[p] /\ root' = root
      /\ brk' = brk /\ block' = block
      /\ at[p] \in Va /\ map'[s][at[p]] # None
      /\ \A v \in Va : map[s][v] # None \/ v \in holes[s] => map'[s][v] # None \/ v \in holes'[s]
  BY <1>0, GrowMaps
<1>2. TypeOK /\ p \in Actors /\ SpaceOf(p) /\ PhaseOf(p) /\ HeapOf(p) /\ BrkOf(s)
  BY <1>1 DEF IInv, ActorInv, Actors, PageInv
<1>3. pc' = pc /\ at'[p] = at[p] + 1 /\ goal' = goal /\ at[p] \in Nat
  BY <1>2 DEF GrowPage, TypeOK
<1>4. SpaceOf(p)' /\ PhaseOf(p)' /\ BlockOf(p)' /\ StackOf(p)'
  BY <1>0, <1>1, <1>2, <1>3 DEF SpaceOf, PhaseOf, BlockOf, StackOf, Loading, Building
<1>5. HeapOf(p)'
  <2>1. ASSUME NEW v \in ImageEnd..(at[p] + 1 - 1)
        PROVE  map'[s][v] # None \/ v \in holes'[s]
    <3>1. v = at[p] \/ v \in ImageEnd..(at[p] - 1)
      BY <1>3, AddressSpaceAssumption DEF Va
    <3>2. v \in Va
      BY <1>1, <3>1, AddressSpaceAssumption DEF Va
    <3> QED
      BY <1>0, <1>1, <1>2, <3>1, <3>2 DEF HeapOf
  <2>2. ASSUME NEW v \in ImageEnd..(PageAlignUp(brk[s]) - 1)
        PROVE  map'[s][v] # None \/ v \in holes'[s]
    BY <1>0, <1>1, <1>2, HeapInVa DEF HeapOf
  <2> QED
    BY <1>0, <1>1, <1>3, <2>1, <2>2 DEF HeapOf
<1> QED
  BY <1>1, <1>4, <1>5, Assemble DEF ActorInv

LEMMA GrowUnlistedStep ==
    ASSUME IInv, NEW p \in Procs, GrowUnlisted(p)
    PROVE  IInv'
<1>0. PICK s : s = space[p]
  OBVIOUS
<1>1. /\ TypeOK' /\ AccountInv' /\ Distinct' /\ Local({p}, {s}) /\ PageInv(s)'
      /\ s \in Spaces /\ pc[p] = "grow" /\ space'[p] = s /\ new'[p] = new[p] /\ root' = root
      /\ brk' = brk /\ block' = block
      /\ \A v \in Va : map[s][v] # None \/ v \in holes[s] => map'[s][v] # None \/ v \in holes'[s]
  BY <1>0, GrowMaps
<1>2. TypeOK /\ p \in Actors /\ p # Kmain /\ SpaceOf(p) /\ PhaseOf(p) /\ HeapOf(p) /\ BrkOf(s)
  BY <1>1, AddressSpaceAssumption DEF IInv, ActorInv, Actors, PageInv
<1>3. pc'[p] = "user" /\ at'[p] = 0 /\ goal'[p] = 0
  BY <1>2 DEF GrowUnlisted, Return, Goto, TypeOK
<1>4. SpaceOf(p)' /\ PhaseOf(p)' /\ BlockOf(p)' /\ StackOf(p)'
  BY <1>0, <1>1, <1>2, <1>3 DEF SpaceOf, PhaseOf, BlockOf, StackOf, Loading, Building
<1>5. HeapOf(p)'
  BY <1>0, <1>1, <1>2, <1>3, HeapInVa DEF HeapOf
<1> QED
  BY <1>1, <1>4, <1>5, Assemble DEF ActorInv

LEMMA GrowFailsStep ==
    ASSUME IInv, NEW p \in Procs, GrowFails(p)
    PROVE  IInv'
<1>1. TypeOK /\ p \in Actors /\ p # Kmain /\ SpaceOf(p) /\ PhaseOf(p) /\ HeapOf(p)
  BY AddressSpaceAssumption DEF IInv, ActorInv, Actors
<1>2. /\ pc[p] = "grow" /\ pc' = [pc EXCEPT ![p] = "user"] /\ "user" \in Locations
      /\ at' = [at EXCEPT ![p] = 0] /\ goal' = [goal EXCEPT ![p] = 0]
      /\ UNCHANGED <<heap, tables, owned, stack, limits, space, new, block, faulted, history>>
  BY <1>1 DEF GrowFails, Return, Goto, Locations
<1>3. pc'[p] = "user" /\ at'[p] = 0
  BY <1>1, <1>2 DEF TypeOK
<1>4. SpaceOf(p)' /\ PhaseOf(p)' /\ BlockOf(p)' /\ StackOf(p)' /\ HeapOf(p)'
  BY <1>1, <1>2, <1>3
     DEF SpaceOf, PhaseOf, BlockOf, StackOf, HeapOf, Loading, Building, tables, limits, history
<1> QED
  BY <1>1, <1>2, <1>4, QuietStep DEF ActorInv, TypeOK

LEMMA GrowEndsStep ==
    ASSUME IInv, NEW p \in Procs, GrowEnds(p)
    PROVE  IInv'
<1> DEFINE s == space[p]
<1>1. /\ TypeOK /\ AccountInv /\ Distinct /\ p \in Actors /\ p # Kmain
      /\ SpaceOf(p) /\ PhaseOf(p) /\ HeapOf(p)
  BY AddressSpaceAssumption DEF IInv, ActorInv, Actors
<1>2. /\ pc[p] = "grow" /\ s \in Spaces /\ at[p] = PageAlignUp(goal[p])
      /\ pc' = [pc EXCEPT ![p] = "user"] /\ at' = [at EXCEPT ![p] = 0] /\ goal' = [goal EXCEPT ![p] = 0]
      /\ brk' = [brk EXCEPT ![s] = goal[p]]
      /\ UNCHANGED <<heap, tables, owned, stack, bump, space, new, block, faulted, history>>
  BY <1>1 DEF GrowEnds, Return, Goto, SpaceOf, TypeOK
<1>3. EmptyOf(s) /\ MapOf(s) /\ TabOf(s) /\ BrkOf(s)
  BY <1>2 DEF IInv, PageInv
<1>4. /\ brk'[s] = goal[p] /\ (\A t \in Spaces : t # s => brk'[t] = brk[t]) /\ brk' \in [Spaces -> Nat]
      /\ pc'[p] = "user" /\ at'[p] = 0 /\ \A q \in Actors : q # p => pc'[q] = pc[q] /\ at'[q] = at[q] /\ goal'[q] = goal[q]
      /\ pc' \in [Actors -> Locations] /\ at' \in [Actors -> Nat] /\ goal' \in [Actors -> Nat]
  BY <1>1, <1>2 DEF TypeOK, Locations
<1>5. TypeOK' /\ AccountInv' /\ Distinct'
  BY <1>1, <1>2, <1>4 DEF TypeOK, AccountInv, Distinct, heap, tables, history
<1>6. Local({p}, {s})
  BY <1>1, <1>2, <1>4 DEF Local, Distinct, SpaceOf, Building, heap, tables, history
<1>7. PageInv(s)'
  <2>1. \A f : Backed(s, f) => Backed(s, f)'
    BY <1>2, <1>4 DEF Backed, history
  <2> QED
    BY <1>1, <1>2, <1>3, <1>4, <2>1 DEF PageInv, EmptyOf, MapOf, TabOf, BrkOf, PhaseOf, heap, tables, history
<1>8. SpaceOf(p)' /\ PhaseOf(p)' /\ BlockOf(p)' /\ StackOf(p)'
  BY <1>1, <1>2, <1>4 DEF SpaceOf, PhaseOf, BlockOf, StackOf, Loading, Building, tables
<1>9. HeapOf(p)'
  BY <1>1, <1>2, <1>4 DEF HeapOf, tables, history
<1> QED
  BY <1>1, <1>2, <1>5, <1>6, <1>7, <1>8, <1>9, Assemble DEF ActorInv

-----------------------------------------------------------------------------
(* mmap, munmap *)

LEMMA MmapBeginsStep ==
    ASSUME IInv, NEW p \in Procs, NEW addr \in Hints, NEW n \in 0..MaxLength, MmapBegins(p, addr, n)
    PROVE  IInv'
<1>0. PICK s, B : s = space[p] /\ B = FirstRun(used, n)
  OBVIOUS
<1>1. /\ TypeOK /\ AccountInv /\ Distinct /\ p \in Actors
      /\ SpaceOf(p) /\ PhaseOf(p) /\ HeapOf(p)
  BY DEF IInv, ActorInv, Actors
<1>2. PICK target : target = IF addr = None THEN bump[s] ELSE addr
  OBVIOUS
<1>3. /\ pc[p] = "user" /\ s \in Spaces /\ pc' = [pc EXCEPT ![p] = "mmap"]
      /\ bump' = [bump EXCEPT ![s] = IF addr = None THEN @ + n ELSE @]
      /\ FreeRuns(used, n) # {}
      /\ block' = [block EXCEPT ![p] = B] /\ used' = used \cup B
      /\ at' = [at EXCEPT ![p] = target] /\ goal' = [goal EXCEPT ![p] = target + n]
      /\ UNCHANGED <<leaked, brkPages, tables, owned, stack, brk, space, new, faulted, history>>
  BY <1>0, <1>1, <1>2 DEF MmapBegins, Goto, TypeOK
<1>4. target \in Nat /\ n \in Nat
  BY <1>1, <1>2, <1>3, AddressSpaceAssumption DEF TypeOK, Va
<1>5. PICK lo \in Nat : B = lo..(lo + n - 1) /\ B \subseteq Frames \ used
  BY <1>0, <1>3, <1>4, FreeRun
<1>6. /\ pc'[p] = "mmap" /\ at'[p] = target /\ goal'[p] = target + n /\ block'[p] = B
      /\ \A q \in Actors : q # p =>
            pc'[q] = pc[q] /\ at'[q] = at[q] /\ goal'[q] = goal[q] /\ block'[q] = block[q]
      /\ pc' \in [Actors -> Locations] /\ at' \in [Actors -> Nat] /\ goal' \in [Actors -> Nat]
      /\ block' \in [Actors -> SUBSET Frames] /\ bump' \in [Spaces -> Nat] /\ used' \subseteq Frames
  BY <1>1, <1>3, <1>4, <1>5 DEF TypeOK, Locations
<1>7. TypeOK' /\ Distinct'
  BY <1>1, <1>3, <1>6 DEF TypeOK, Distinct, tables, history
<1>8. AccountInv'
  <2>1. Booked(used, root, tab, owned, stack, anon, block, leaked) /\ B \in SUBSET (Frames \ used)
    BY <1>1, <1>5 DEF AccountInv
  <2>2. Booked(used \cup B, root, tab, owned, stack, anon, [block EXCEPT ![p] = @ \cup B], leaked)
    BY <1>1, <2>1, TakeBlock
  <2>3. block[p] \cup B = B
    BY <1>1, <1>3 DEF PhaseOf
  <2> QED
    BY <1>3, <2>2, <2>3 DEF AccountInv, tables, history
<1>9. Local({p}, {})
  BY <1>1, <1>3, <1>6 DEF Local, tables, history
<1>10. SpaceOf(p)' /\ PhaseOf(p)' /\ StackOf(p)'
  BY <1>1, <1>3, <1>6 DEF SpaceOf, PhaseOf, StackOf, Loading, Building, tables
<1>11. BlockOf(p)'
  <2>1. UNCHANGED <<map, stale, space>> /\ B \cap used = {} /\ None \notin B
    BY <1>3, <1>5, AddressSpaceAssumption DEF tables, history
  <2>2. \A va \in Va \ stale[s] : map[s][va] \notin B
    BY <1>3, <2>1, FreshUnmapped
  <2>3. /\ block'[p] = lo..(lo + n - 1)
        /\ n <= goal'[p] /\ at'[p] \in (goal'[p] - n)..goal'[p]
    BY <1>3, <1>4, <1>5, <1>6
  <2> QED
    BY <1>0, <1>4, <1>5, <1>6, <2>1, <2>2, <2>3 DEF BlockOf
<1>12. HeapOf(p)'
  BY <1>1, <1>3, <1>6 DEF HeapOf, tables, history
<1> QED
  BY <1>7, <1>8, <1>9, <1>10, <1>11, <1>12, Assemble DEF ActorInv

LEMMA MmapRefusedStep ==
    ASSUME IInv, NEW p \in Procs, NEW n \in 0..MaxLength, MmapRefused(p, n)
    PROVE  IInv'
<1>1. /\ space[p] \in Spaces /\ bump' = [bump EXCEPT ![space[p]] = @ + n]
      /\ UNCHANGED <<heap, tables, owned, stack, brk, space, new, pc, locals, faulted, history>>
  BY DEF MmapRefused, IInv, TypeOK, Actors
<1>2. bump' \in [Spaces -> Nat]
  BY <1>1, AddressSpaceAssumption DEF IInv, TypeOK
<1>3. TypeOK' /\ AccountInv' /\ Distinct'
  BY <1>1, <1>2 DEF IInv, TypeOK, AccountInv, Distinct, heap, tables, locals, history
<1>4. Local({}, {})
  BY <1>1 DEF Local, heap, tables, locals, history
<1> QED
  BY <1>3, <1>4, Assemble

\* BlockFrame is the frame at the place of at[p] in the block.
LEMMA BlockFrameIs ==
    ASSUME NEW p, NEW lo \in Nat, NEW n \in Nat, block[p] = lo..(lo + n - 1),
           goal[p] \in Nat, at[p] \in Nat, n <= goal[p], at[p] \in (goal[p] - n)..goal[p], at[p] < goal[p]
    PROVE  BlockFrame(p) \in block[p] /\ BlockFrame(p) + goal[p] = lo + n + at[p]
<1> DEFINE Fits(f) == \E g \in block[p] :
                         (\A h \in block[p] : h <= g) /\ f + goal[p] = g + 1 + at[p]
<1>1. lo + n - 1 \in block[p] /\ \A h \in block[p] : h <= lo + n - 1
  OBVIOUS
<1>2. (lo + n + at[p]) - goal[p] \in block[p]
  OBVIOUS
<1>3. Fits((lo + n + at[p]) - goal[p])
  BY <1>1, <1>2
<1>4. BlockFrame(p) = CHOOSE f \in block[p] : Fits(f)
  BY DEF BlockFrame
<1>5. BlockFrame(p) \in block[p] /\ Fits(BlockFrame(p))
  BY <1>2, <1>3, <1>4
<1>6. PICK g \in block[p] : (\A h \in block[p] : h <= g) /\ BlockFrame(p) + goal[p] = g + 1 + at[p]
  BY <1>5
<1>7. g = lo + n - 1
  <2>1. g \in lo..(lo + n - 1) /\ lo + n - 1 <= g
    BY <1>1, <1>6
  <2> QED
    BY <2>1
<1> QED
  BY <1>5, <1>6, <1>7

\* mmap at a page of the user half.
LEMMA MmapUserStep ==
    ASSUME IInv, NEW p \in Procs, MmapPage(p), Page(at[p]) \in Va
    PROVE  IInv'
<1>0. PICK s, va, f : s = space[p] /\ va = Page(at[p]) /\ f = BlockFrame(p)
  OBVIOUS
<1>1. /\ TypeOK /\ AccountInv /\ Distinct /\ p \in Actors
      /\ SpaceOf(p) /\ PhaseOf(p) /\ BlockOf(p) /\ HeapOf(p) /\ None \notin Frames
  BY AddressSpaceAssumption DEF IInv, ActorInv, Actors
<1>2. /\ pc[p] = "mmap" /\ s \in Spaces /\ at[p] < goal[p]
      /\ MapPage(s, va, f, used)
      /\ at' = [at EXCEPT ![p] = @ + 1]
      /\ UNCHANGED <<leaked, brkPages, owned, stack, limits, space, new, pc, goal, block, faulted, anon>>
  BY <1>0, <1>1 DEF MmapPage, SpaceOf, TypeOK
<1>3. PICK lo \in Nat, n \in Nat :
         /\ block[p] = lo..(lo + n - 1)
         /\ n <= goal[p] /\ at[p] \in (goal[p] - n)..goal[p]
         /\ \A v \in Va \ stale[s] : map[s][v] \in block[p] => map[s][v] + goal[p] < lo + n + at[p]
  BY <1>0, <1>1, <1>2 DEF BlockOf
<1>4. goal[p] \in Nat /\ at[p] \in Nat /\ va \in Va
  BY <1>0, <1>1 DEF TypeOK
<1>5. f \in block[p] /\ f + goal[p] = lo + n + at[p] /\ f \in Frames
  BY <1>0, <1>1, <1>2, <1>3, <1>4, BlockFrameIs DEF TypeOK
<1>6. /\ map' \in [Spaces -> [Va -> Frames \cup {None}]]
      /\ tab' \in [Spaces -> [Regions -> Frames \cup {None}]]
      /\ stale' \in [Spaces -> SUBSET Va] /\ holes' \in [Spaces -> SUBSET Va]
      /\ root' = root /\ used' \subseteq Frames
      /\ map'[s][va] = f /\ \A v \in Va : v # va => map'[s][v] = map[s][v]
      /\ \A t \in Spaces : t # s => /\ map'[t] = map[t] /\ tab'[t] = tab[t]
                                    /\ stale'[t] = stale[t] /\ holes'[t] = holes[t]
      /\ stale'[s] = stale[s] \ {va} /\ holes'[s] = holes[s] \ {va}
      /\ tab'[s][Region(va)] # None
      /\ \A r \in Regions : tab[s][r] # None => tab'[s][r] # None
  <2>1. used \in SUBSET Frames
    BY <1>1 DEF TypeOK
  <2> QED
    BY <1>1, <1>2, <1>4, <1>5, <2>1, MapEffect
<1>7. /\ at'[p] = at[p] + 1 /\ at' \in [Actors -> Nat] /\ \A q \in Actors : q # p => at'[q] = at[q]
  BY <1>0, <1>1, <1>2, <1>4 DEF TypeOK
<1>8. TypeOK' /\ Distinct'
  BY <1>1, <1>2, <1>6, <1>7 DEF TypeOK, Distinct, limits
<1>9. AccountInv'
  <2>1. Booked(used', root', tab', owned, stack, anon, block, leaked)
    BY <1>1, <1>2, <1>4, MapBooks DEF AccountInv
  <2> QED
    BY <1>2, <2>1 DEF AccountInv
<1>10. Local({p}, {s})
  BY <1>0, <1>1, <1>2, <1>6, <1>7 DEF Local, Distinct, SpaceOf, Building, limits
<1>11. PageInv(s)'
  <2>1. EmptyOf(s) /\ MapOf(s) /\ TabOf(s) /\ BrkOf(s) /\ root[s] # None
    BY <1>0, <1>1, <1>2 DEF IInv, PageInv, SpaceOf
  <2>2. \A g : Backed(s, g) => Backed(s, g)'
    BY <1>2 DEF Backed
  <2>3. Backed(s, f)'
    BY <1>0, <1>1, <1>2, <1>5 DEF Backed
  <2>4. \A v \in Va \ stale[s] : v # va => map[s][v] # f
    <3> SUFFICES ASSUME NEW v \in Va \ stale[s], map[s][v] = f
                 PROVE  v = va
      OBVIOUS
    <3>1. f + goal[p] < lo + n + at[p]
      BY <1>3, <1>5
    <3>2. f \in Nat
      BY <1>5, AddressSpaceAssumption
    <3> QED
      BY <1>4, <1>5, <3>1, <3>2
  <2>5. ASSUME NEW v \in Va \ stale'[s], NEW g, g = map'[s][v], g # None
        PROVE  /\ Backed(s, g)'
               /\ \A w \in Va \ stale'[s] : map'[s][w] = map'[s][v] => w = v
    <3>1. CASE v = va
      BY <1>6, <2>3, <2>4, <2>5, <3>1
    <3>2. CASE v # va
      <4>1. v \in Va \ stale[s] /\ map'[s][v] = map[s][v] /\ map[s][v] # None
        BY <1>6, <2>5, <3>2
      <4>2. Backed(s, map[s][v]) /\ \A w \in Va \ stale[s] : map[s][w] = map[s][v] => w = v
        BY <2>1, <4>1 DEF MapOf
      <4> QED
        BY <1>6, <2>2, <2>4, <2>5, <3>2, <4>1, <4>2
    <3> QED
      BY <3>1, <3>2
  <2>6. MapOf(s)'
    BY <2>5 DEF MapOf, Backed
  <2>7. TabOf(s)'
    BY <1>6, <2>1, RegionType DEF TabOf
  <2> QED
    BY <1>2, <1>6, <2>1, <2>6, <2>7 DEF PageInv, EmptyOf, BrkOf, limits
<1>12. SpaceOf(p)' /\ PhaseOf(p)' /\ StackOf(p)'
  BY <1>1, <1>2, <1>6 DEF SpaceOf, PhaseOf, StackOf, Loading, Building
<1>13. BlockOf(p)'
  <2>1. ASSUME NEW v \in Va \ stale'[s], map'[s][v] \in block[p]
        PROVE  map'[s][v] + goal[p] < lo + n + (at[p] + 1)
    <3>1. CASE v = va
      <4>1. map'[s][v] + goal[p] = lo + n + at[p]
        BY <1>5, <1>6, <3>1
      <4> QED
        BY <1>4, <4>1
    <3>2. CASE v # va
      <4>1. v \in Va \ stale[s] /\ map'[s][v] = map[s][v]
        BY <1>6, <2>1, <3>2
      <4>2. map[s][v] + goal[p] < lo + n + at[p] /\ map[s][v] \in lo..(lo + n - 1)
        BY <1>3, <2>1, <4>1
      <4> QED
        BY <1>4, <4>1, <4>2
    <3> QED
      BY <3>1, <3>2
  <2>2. at[p] + 1 \in (goal[p] - n)..goal[p]
    BY <1>2, <1>3, <1>4
  <2> QED
    BY <1>0, <1>2, <1>3, <1>7, <2>1, <2>2 DEF BlockOf
<1>14. HeapOf(p)'
  <2>1. BrkOf(s)
    BY <1>2 DEF IInv, PageInv
  <2>2. \A v \in Va : map[s][v] # None \/ v \in holes[s] => map'[s][v] # None \/ v \in holes'[s]
    BY <1>1, <1>5, <1>6
  <2> QED
    BY <1>0, <1>1, <1>2, <2>1, <2>2, HeapInVa DEF HeapOf, limits
<1> QED
  BY <1>8, <1>9, <1>10, <1>11, <1>12, <1>13, <1>14, Assemble DEF ActorInv

LEMMA MmapPageStep ==
    ASSUME IInv, NEW p \in Procs, MmapPage(p)
    PROVE  IInv'
<1>1. CASE Page(at[p]) \in Va
  BY <1>1, MmapUserStep
<1>2. CASE Page(at[p]) \notin Va
  <2>0. PICK s : s = space[p]
    OBVIOUS
  <2>1. /\ TypeOK /\ SpaceOf(p) /\ PhaseOf(p) /\ BlockOf(p) /\ StackOf(p) /\ HeapOf(p) /\ p \in Actors
    BY DEF IInv, ActorInv, Actors
  <2>2. /\ pc[p] = "mmap" /\ at[p] < goal[p] /\ at' = [at EXCEPT ![p] = @ + 1]
        /\ UNCHANGED <<heap, tables, owned, stack, limits, space, new, pc, goal, block, faulted, history>>
    BY <1>2 DEF MmapPage, heap, history
  <2>3. at'[p] = at[p] + 1 /\ at' \in [Actors -> Nat] /\ \A q \in Actors : q # p => at'[q] = at[q]
    BY <2>1, <2>2 DEF TypeOK
  <2>4. TypeOK' /\ AccountInv' /\ Distinct'
    BY <2>2, <2>3 DEF IInv, TypeOK, AccountInv, Distinct, heap, tables, limits, history
  <2>5. Local({p}, {s})
    BY <2>0, <2>1, <2>2, <2>3 DEF IInv, Local, Distinct, SpaceOf, Building, heap, tables, limits, history
  <2>6. s \in Spaces /\ PageInv(s)'
    <3>1. s \in Spaces /\ PageInv(s)
      BY <2>0, <2>1, <2>2 DEF IInv, SpaceOf, TypeOK
    <3>2. \A f : Backed(s, f) => Backed(s, f)'
      BY <2>2 DEF Backed, history
    <3> QED
      BY <2>2, <3>1, <3>2 DEF PageInv, EmptyOf, MapOf, TabOf, BrkOf, tables, limits, history
  <2>7. SpaceOf(p)' /\ PhaseOf(p)' /\ StackOf(p)' /\ HeapOf(p)'
    BY <2>1, <2>2 DEF SpaceOf, PhaseOf, StackOf, HeapOf, Building, Loading, tables, limits, history
  <2>8. BlockOf(p)'
    <3>1. PICK lo \in Nat, n \in Nat :
             /\ block[p] = lo..(lo + n - 1)
             /\ n <= goal[p] /\ at[p] \in (goal[p] - n)..goal[p]
             /\ \A v \in Va \ stale[space[p]] : map[space[p]][v] \in block[p] =>
                   map[space[p]][v] + goal[p] < lo + n + at[p]
      BY <2>1, <2>2 DEF BlockOf
    <3>2. at[p] \in Nat /\ goal[p] \in Nat
      BY <2>1 DEF TypeOK
    <3>3. at'[p] \in (goal[p] - n)..goal[p]
      BY <2>2, <2>3, <3>1, <3>2
    <3>4. ASSUME NEW v \in Va \ stale[space[p]], map[space[p]][v] \in block[p]
          PROVE  map[space[p]][v] + goal[p] < lo + n + at'[p]
      <4>1. map[space[p]][v] \in Int /\ map[space[p]][v] + goal[p] < lo + n + at[p]
        BY <3>1, <3>4
      <4> QED
        BY <2>3, <3>2, <4>1
    <3> QED
      BY <2>2, <3>1, <3>3, <3>4 DEF BlockOf, tables, history
  <2> QED
    BY <2>1, <2>4, <2>5, <2>6, <2>7, <2>8, Assemble DEF ActorInv
<1> QED
  BY <1>1, <1>2

LEMMA MmapFailsStep ==
    ASSUME IInv, NEW p \in Procs, MmapFails(p)
    PROVE  IInv'
<1>0. PICK s, B : s = space[p] /\ B = block[p]
  OBVIOUS
<1>1. /\ TypeOK /\ AccountInv /\ Distinct /\ p \in Actors /\ p # Kmain
      /\ SpaceOf(p) /\ PhaseOf(p) /\ HeapOf(p)
  BY AddressSpaceAssumption DEF IInv, ActorInv, Actors
<1>2. /\ pc[p] = "mmap" /\ s \in Spaces /\ root[s] # None /\ pc' = [pc EXCEPT ![p] = "user"]
      /\ at' = [at EXCEPT ![p] = 0] /\ goal' = [goal EXCEPT ![p] = 0]
      /\ used' = used \ B /\ block' = [block EXCEPT ![p] = {}]
      /\ stale' = [stale EXCEPT ![s] = @ \cup {va \in Va : map[s][va] \in B}]
      /\ UNCHANGED <<leaked, brkPages, tables, owned, stack, limits, space, new, faulted, anon, holes>>
  BY <1>0, <1>1 DEF MmapFails, Return, Goto, SpaceOf, TypeOK
<1>3. /\ pc'[p] = "user" /\ at'[p] = 0 /\ block'[p] = {}
      /\ \A q \in Actors : q # p =>
            pc'[q] = pc[q] /\ at'[q] = at[q] /\ goal'[q] = goal[q] /\ block'[q] = block[q]
      /\ pc' \in [Actors -> Locations] /\ at' \in [Actors -> Nat] /\ goal' \in [Actors -> Nat]
      /\ block' \in [Actors -> SUBSET Frames] /\ used' \subseteq Frames
  BY <1>1, <1>2 DEF TypeOK, Locations
<1>4. /\ stale' \in [Spaces -> SUBSET Va] /\ stale[s] \subseteq stale'[s]
      /\ \A va \in Va \ stale'[s] : map[s][va] \notin B
      /\ \A t \in Spaces : t # s => stale'[t] = stale[t]
  BY <1>1, <1>2 DEF TypeOK
<1>5. TypeOK' /\ Distinct'
  BY <1>1, <1>2, <1>3, <1>4 DEF TypeOK, Distinct, tables, limits
<1>6. AccountInv'
  BY <1>0, <1>1, <1>2, FreeBlock DEF AccountInv, tables
<1>7. Local({p}, {s})
  BY <1>0, <1>1, <1>2, <1>3, <1>4 DEF Local, Distinct, SpaceOf, Building, tables, limits
<1>8. PageInv(s)'
  <2>1. EmptyOf(s) /\ MapOf(s) /\ TabOf(s) /\ BrkOf(s)
    BY <1>2 DEF IInv, PageInv
  <2>2. \A f : Backed(s, f) /\ f \notin B => Backed(s, f)'
    BY <1>0, <1>2, <1>3 DEF Backed
  <2>3. MapOf(s)'
    BY <1>2, <1>4, <2>1, <2>2 DEF MapOf, tables
  <2> QED
    BY <1>2, <2>1, <2>3 DEF PageInv, EmptyOf, TabOf, BrkOf, tables, limits
<1>9. SpaceOf(p)' /\ PhaseOf(p)' /\ BlockOf(p)' /\ StackOf(p)' /\ HeapOf(p)'
  BY <1>1, <1>2, <1>3
     DEF SpaceOf, PhaseOf, BlockOf, StackOf, HeapOf, Loading, Building, tables, limits
<1> QED
  BY <1>5, <1>6, <1>7, <1>8, <1>9, Assemble DEF ActorInv

\* Frames that a book holds are in use.
LEMMA HeldIsUsed ==
    ASSUME AccountInv
    PROVE  /\ \A p \in Actors : block[p] \subseteq used
           /\ \A s \in Spaces : anon[s] \subseteq used /\ stack[s] \subseteq used /\ owned[s] \subseteq used
<1>1. PICK kind, who, reg :
         Tagged(used, root, tab, owned, stack, anon, block, leaked, {}, kind, who, reg)
  BY DEF AccountInv, Booked
<1> QED
  BY <1>1 DEF Tagged

LEMMA MmapEndsStep ==
    ASSUME IInv, NEW p \in Procs, MmapEnds(p)
    PROVE  IInv'
<1>0. PICK s, B : s = space[p] /\ B = block[p]
  OBVIOUS
<1>1. /\ TypeOK /\ AccountInv /\ Distinct /\ p \in Actors /\ p # Kmain
      /\ SpaceOf(p) /\ PhaseOf(p) /\ HeapOf(p)
  BY AddressSpaceAssumption DEF IInv, ActorInv, Actors
<1>2. /\ pc[p] = "mmap" /\ s \in Spaces /\ root[s] # None /\ pc' = [pc EXCEPT ![p] = "user"]
      /\ at' = [at EXCEPT ![p] = 0] /\ goal' = [goal EXCEPT ![p] = 0]
      /\ anon' = [anon EXCEPT ![s] = @ \cup B] /\ block' = [block EXCEPT ![p] = {}]
      /\ UNCHANGED <<heap, tables, owned, stack, limits, space, new, faulted, stale, holes>>
  BY <1>0, <1>1 DEF MmapEnds, Return, Goto, SpaceOf, TypeOK
<1>3. /\ pc'[p] = "user" /\ at'[p] = 0 /\ block'[p] = {}
      /\ \A q \in Actors : q # p =>
            pc'[q] = pc[q] /\ at'[q] = at[q] /\ goal'[q] = goal[q] /\ block'[q] = block[q]
      /\ pc' \in [Actors -> Locations] /\ at' \in [Actors -> Nat] /\ goal' \in [Actors -> Nat]
      /\ block' \in [Actors -> SUBSET Frames]
  BY <1>1, <1>2 DEF TypeOK, Locations
<1>4. /\ anon' \in [Spaces -> SUBSET Frames] /\ anon'[s] = anon[s] \cup B
      /\ \A t \in Spaces : t # s => anon'[t] = anon[t]
  BY <1>0, <1>1, <1>2 DEF TypeOK
<1>5. TypeOK' /\ Distinct'
  BY <1>1, <1>2, <1>3, <1>4 DEF TypeOK, Distinct, heap, tables, limits
<1>6. AccountInv'
  <2>1. Booked(used \ B, root, tab, owned, stack, anon, [block EXCEPT ![p] = {}], leaked)
    BY <1>0, <1>1, FreeBlock DEF AccountInv
  <2>2. B \subseteq used /\ B \subseteq Frames
    BY <1>0, <1>1, HeldIsUsed DEF TypeOK
  <2>3. (used \ B) \cup B = used /\ B \in SUBSET (Frames \ (used \ B))
    BY <2>2
  <2>4. Booked((used \ B) \cup B, root, tab, owned, stack, [anon EXCEPT ![s] = @ \cup B],
               [block EXCEPT ![p] = {}], leaked)
    BY <1>2, <2>1, <2>3, TakeAnon
  <2> QED
    BY <1>2, <2>3, <2>4 DEF AccountInv, heap, tables
<1>7. Local({p}, {s})
  BY <1>0, <1>1, <1>2, <1>3, <1>4 DEF Local, Distinct, SpaceOf, Building, tables, limits
<1>8. PageInv(s)'
  <2>1. EmptyOf(s) /\ MapOf(s) /\ TabOf(s) /\ BrkOf(s)
    BY <1>2 DEF IInv, PageInv
  <2>2. \A f : Backed(s, f) => Backed(s, f)'
    BY <1>0, <1>1, <1>2, <1>3, <1>4, AddressSpaceAssumption DEF Backed, Distinct
  <2>3. MapOf(s)'
    BY <1>2, <2>1, <2>2 DEF MapOf, tables
  <2> QED
    BY <1>2, <2>1, <2>3 DEF PageInv, EmptyOf, TabOf, BrkOf, tables, limits
<1>9. SpaceOf(p)' /\ PhaseOf(p)' /\ BlockOf(p)' /\ StackOf(p)' /\ HeapOf(p)'
  BY <1>1, <1>2, <1>3
     DEF SpaceOf, PhaseOf, BlockOf, StackOf, HeapOf, Loading, Building, tables, limits
<1> QED
  BY <1>5, <1>6, <1>7, <1>8, <1>9, Assemble DEF ActorInv

LEMMA MunmapStep ==
    ASSUME IInv, NEW p \in Procs, NEW addr, NEW n, Munmap(p, addr, n)
    PROVE  IInv'
<1>0. PICK s, pages : s = space[p] /\ pages = {Page(a) : a \in addr..(addr + n - 1)} \cap Va
  OBVIOUS
<1>1. /\ TypeOK /\ AccountInv /\ Distinct /\ p \in Actors
      /\ SpaceOf(p) /\ PhaseOf(p) /\ HeapOf(p)
  BY DEF IInv, ActorInv, Actors
<1>2. /\ pc[p] = "user" /\ s \in Spaces /\ root[s] # None /\ pages \subseteq Va
      /\ map' = [map EXCEPT ![s] = UnmapPages(@, pages)]
      /\ stale' = [stale EXCEPT ![s] = @ \ pages]
      /\ holes' = [holes EXCEPT ![s] = @ \cup pages]
      /\ UNCHANGED <<heap, root, tab, owned, stack, limits, space, new, pc, locals, faulted, anon>>
  BY <1>0, <1>1 DEF Munmap, SpaceOf, TypeOK
<1>3. /\ map' \in [Spaces -> [Va -> Frames \cup {None}]]
      /\ \A v \in Va : map'[s][v] = IF v \in pages THEN None ELSE map[s][v]
      /\ \A t \in Spaces : t # s => map'[t] = map[t]
  BY <1>1, <1>2 DEF TypeOK, UnmapPages
<1>4. /\ stale' \in [Spaces -> SUBSET Va] /\ holes' \in [Spaces -> SUBSET Va]
      /\ stale'[s] = stale[s] \ pages /\ holes'[s] = holes[s] \cup pages
      /\ \A t \in Spaces : t # s => stale'[t] = stale[t] /\ holes'[t] = holes[t]
  BY <1>1, <1>2 DEF TypeOK
<1>5. TypeOK' /\ AccountInv' /\ Distinct'
  BY <1>1, <1>2, <1>3, <1>4 DEF TypeOK, AccountInv, Distinct, heap, limits, locals
<1>6. Local({p}, {s})
  BY <1>0, <1>1, <1>2, <1>3, <1>4 DEF Local, Distinct, SpaceOf, Building, limits, locals
<1>7. PageInv(s)'
  <2>1. EmptyOf(s) /\ MapOf(s) /\ TabOf(s) /\ BrkOf(s)
    BY <1>2 DEF IInv, PageInv
  <2>2. \A f : Backed(s, f) => Backed(s, f)'
    BY <1>2 DEF Backed, locals
  <2>3. ASSUME NEW v \in Va \ stale'[s], map'[s][v] # None
        PROVE  v \in Va \ stale[s] /\ map'[s][v] = map[s][v]
    BY <1>3, <1>4, <2>3
  <2>4. MapOf(s)'
    BY <2>1, <2>2, <2>3 DEF MapOf
  <2>5. TabOf(s)'
    BY <1>2, <1>3, <2>1 DEF TabOf
  <2> QED
    BY <1>2, <2>1, <2>4, <2>5 DEF PageInv, EmptyOf, BrkOf, limits
<1>8. SpaceOf(p)' /\ PhaseOf(p)' /\ BlockOf(p)' /\ StackOf(p)'
  BY <1>1, <1>2 DEF SpaceOf, PhaseOf, BlockOf, StackOf, Loading, Building, locals
<1>9. HeapOf(p)'
  <2>1. BrkOf(s)
    BY <1>2 DEF IInv, PageInv
  <2>2. \A v \in Va : map[s][v] # None \/ v \in holes[s] => map'[s][v] # None \/ v \in holes'[s]
    BY <1>3, <1>4
  <2> QED
    BY <1>0, <1>1, <1>2, <2>1, <2>2, HeapInVa DEF HeapOf, limits
<1> QED
  BY <1>5, <1>6, <1>7, <1>8, <1>9, Assemble DEF ActorInv

\* A table in the kernel half: the frame is lost, nothing else changes.
LEMMA KernelTableStep ==
    ASSUME IInv, NEW p \in Procs, KernelTable(p)
    PROVE  IInv'
<1>0. PICK f : f = FirstFree(used)
  OBVIOUS
<1>1. /\ FreeRuns(used, 1) # {} /\ used' = used \cup {f} /\ leaked' = leaked \cup {f}
      /\ UNCHANGED <<brkPages, tables, owned, stack, limits, space, new, pc, locals, faulted, history>>
  BY <1>0 DEF KernelTable
<1>2. f \in Frames \ used
  BY <1>0, <1>1, FreeFrame
<1>3. TypeOK' /\ Distinct'
  BY <1>1, <1>2 DEF IInv, TypeOK, Distinct, tables, limits, locals, history
<1>4. AccountInv'
  <2>1. {f} \in SUBSET (Frames \ used)
    BY <1>2
  <2> QED
    BY <1>1, <2>1, TakeLost DEF IInv, AccountInv, tables, locals, history
<1>5. Local({}, {})
  BY <1>1 DEF Local, tables, limits, locals, history
<1> QED
  BY <1>3, <1>4, <1>5, Assemble

LEMMA KernelDisturbedStep ==
    ASSUME IInv, NEW p \in Procs, KernelDisturbed(p)
    PROVE  IInv'
<1>1. /\ faulted' = TRUE
      /\ UNCHANGED <<heap, tables, owned, stack, limits, space, new, pc, locals, history>>
  BY DEF KernelDisturbed
<1>2. TypeOK' /\ AccountInv' /\ Distinct'
  BY <1>1 DEF IInv, TypeOK, AccountInv, Distinct, heap, tables, limits, locals, history
<1>3. Local({}, {})
  BY <1>1 DEF Local, heap, tables, limits, locals, history
<1> QED
  BY <1>2, <1>3, Assemble

-----------------------------------------------------------------------------
(* An address space is built *)

LEMMA BuildBeginsStep ==
    ASSUME IInv, NEW p \in Actors, NEW s \in Spaces, NEW loc \in {"clone", "load"},
           BuildBegins(p, s, loc), loc = "clone" => space[p] # None
    PROVE  IInv'
<1>0. PICK f : f = FirstFree(used)
  OBVIOUS
<1>1. /\ TypeOK /\ AccountInv /\ Distinct /\ SpaceOf(p) /\ PhaseOf(p) /\ HeapOf(p)
      /\ EmptyOf(s) /\ MapOf(s) /\ TabOf(s) /\ BrkOf(s) /\ None \notin Frames /\ None \notin Spaces
  BY AddressSpaceAssumption DEF IInv, ActorInv, PageInv
<1>2. /\ pc[p] = "user" /\ pc' = [pc EXCEPT ![p] = loc]
      /\ root[s] = None /\ stack[s] = {} /\ \A q \in Actors : space[q] # s
      /\ FreeRuns(used, 1) # {}
      /\ root' = [root EXCEPT ![s] = f] /\ used' = used \cup {f}
      /\ new' = [new EXCEPT ![p] = s]
      /\ UNCHANGED <<leaked, brkPages, tab, map, owned, stack, limits, space, locals, faulted, history>>
  BY <1>0 DEF BuildBegins, Goto
<1>3. f \in Frames \ used
  BY <1>0, <1>2, FreeFrame
<1>4. /\ pc'[p] = loc /\ new'[p] = s /\ root'[s] = f
      /\ \A q \in Actors : q # p => pc'[q] = pc[q] /\ new'[q] = new[q]
      /\ \A t \in Spaces : t # s => root'[t] = root[t]
      /\ pc' \in [Actors -> Locations] /\ new' \in [Actors -> Spaces \cup {None}]
      /\ root' \in [Spaces -> Frames \cup {None}] /\ used' \subseteq Frames
  BY <1>1, <1>2, <1>3 DEF TypeOK, Locations
<1>5. \A q \in Actors : new[q] # s
  BY <1>1, <1>2 DEF IInv, ActorInv, SpaceOf
<1>6. TypeOK'
  BY <1>1, <1>2, <1>4 DEF TypeOK, limits, locals, history
<1>7. Distinct'
  BY <1>1, <1>2, <1>4, <1>5 DEF Distinct
<1>8. AccountInv'
  BY <1>1, <1>2, <1>3, TakeRoot DEF AccountInv, locals, history
<1>9. Local({p}, {s})
  BY <1>1, <1>2, <1>4, <1>5 DEF Local, limits, locals, history
<1>10. PageInv(s)'
  BY <1>1, <1>2, <1>3, <1>4 DEF PageInv, EmptyOf, MapOf, TabOf, BrkOf, limits
<1>11. SpaceOf(p)'
  BY <1>1, <1>2, <1>3, <1>4 DEF SpaceOf, Building, TypeOK
<1>12. PhaseOf(p)'
  <2>1. Leaves(s) = {} /\ owned[s] = {} /\ anon[s] = {}
    <3>1. \A va \in Va : map[s][va] = None
      BY <1>1, <1>2 DEF EmptyOf
    <3>2. DOMAIN map[s] = Va
      BY <1>1 DEF TypeOK
    <3> QED
      BY <1>1, <1>2, <3>1, <3>2 DEF EmptyOf, Leaves, Range
  <2>2. Leaves(s)' = {} /\ owned'[s] = {} /\ anon'[s] = {} /\ stack'[s] = {} /\ block'[p] = block[p]
    BY <1>2, <2>1 DEF Leaves, history, locals
  <2>3. Leaves(new[p])' = {}
    BY <1>4, <2>2 DEF Leaves
  <2> QED
    BY <1>1, <1>2, <1>4, <2>2, <2>3 DEF PhaseOf
<1>13. BlockOf(p)' /\ StackOf(p)' /\ HeapOf(p)'
  BY <1>1, <1>2, <1>4 DEF BlockOf, StackOf, HeapOf, PhaseOf, Va, locals, limits, history
<1> QED
  BY <1>6, <1>7, <1>8, <1>9, <1>10, <1>11, <1>12, <1>13, Assemble DEF ActorInv

\* What TearDown leaves of a space.
LEMMA TearDownEffect ==
    ASSUME TypeOK, NEW s \in Spaces, NEW freed, NEW lost \in SUBSET Frames, TearDown(s, freed, lost)
    PROVE  /\ used' = used \ freed
           /\ used' \subseteq Frames /\ leaked' \subseteq Frames /\ brkPages' \subseteq Frames
           /\ root' \in [Spaces -> Frames \cup {None}]
           /\ tab' \in [Spaces -> [Regions -> Frames \cup {None}]]
           /\ map' \in [Spaces -> [Va -> Frames \cup {None}]]
           /\ owned' \in [Spaces -> SUBSET Frames] /\ anon' \in [Spaces -> SUBSET Frames]
           /\ stale' \in [Spaces -> SUBSET Va] /\ holes' \in [Spaces -> SUBSET Va]
           /\ \A t \in Spaces : t # s =>
                 /\ root'[t] = root[t] /\ tab'[t] = tab[t] /\ map'[t] = map[t] /\ owned'[t] = owned[t]
                 /\ anon'[t] = anon[t] /\ stale'[t] = stale[t] /\ holes'[t] = holes[t]
           /\ root'[s] = None
           /\ BrkOf(s)' => PageInv(s)'
<1>1. /\ used' = used \ freed /\ leaked' = leaked \cup lost /\ brkPages' = brkPages \ freed
      /\ root' = [root EXCEPT ![s] = None] /\ tab' = [tab EXCEPT ![s] = NoTables]
      /\ map' = [map EXCEPT ![s] = NoPages] /\ owned' = [owned EXCEPT ![s] = {}]
      /\ anon' = [anon EXCEPT ![s] = {}] /\ stale' = [stale EXCEPT ![s] = {}]
      /\ holes' = [holes EXCEPT ![s] = {}]
  BY DEF TearDown
<1>2. /\ NoTables \in [Regions -> Frames \cup {None}] /\ \A r \in Regions : NoTables[r] = None
      /\ NoPages \in [Va -> Frames \cup {None}] /\ \A va \in Va : NoPages[va] = None
  BY DEF NoTables, NoPages
<1>3. /\ root'[s] = None /\ tab'[s] = NoTables /\ map'[s] = NoPages /\ owned'[s] = {} /\ anon'[s] = {}
      /\ \A t \in Spaces : t # s =>
            /\ root'[t] = root[t] /\ tab'[t] = tab[t] /\ map'[t] = map[t] /\ owned'[t] = owned[t]
            /\ anon'[t] = anon[t] /\ stale'[t] = stale[t] /\ holes'[t] = holes[t]
  BY <1>1 DEF TypeOK
<1>4. /\ used' \subseteq Frames /\ leaked' \subseteq Frames /\ brkPages' \subseteq Frames
      /\ root' \in [Spaces -> Frames \cup {None}]
      /\ tab' \in [Spaces -> [Regions -> Frames \cup {None}]]
      /\ map' \in [Spaces -> [Va -> Frames \cup {None}]]
  BY <1>1, <1>2 DEF TypeOK
<1>5. /\ owned' \in [Spaces -> SUBSET Frames] /\ anon' \in [Spaces -> SUBSET Frames]
      /\ stale' \in [Spaces -> SUBSET Va] /\ holes' \in [Spaces -> SUBSET Va]
  BY <1>1 DEF TypeOK
<1>6. EmptyOf(s)' /\ MapOf(s)' /\ TabOf(s)'
  BY <1>2, <1>3 DEF EmptyOf, MapOf, TabOf
<1> QED
  BY <1>1, <1>3, <1>4, <1>5, <1>6 DEF PageInv

\* Tables and listed pages are freed, the others are lost or freed.
LEMMA TearDownBooks ==
    ASSUME TypeOK, NEW s \in Spaces, NEW F \in SUBSET Frames, NEW lost, lost \subseteq anon[s],
           NEW us, NEW st, Booked(us, root, tab, owned, st, anon, block, leaked),
           TearDown(s, F, lost), used \ F = us \ ((TableFrames(s) \cup owned[s] \cup anon[s]) \ lost)
    PROVE  Booked(used', root', tab', owned', st, anon', block, leaked')
<1> DEFINE all == TablesOf(root, tab, s) \cup owned[s] \cup anon[s]
<1>1. Booked(us \ all, [root EXCEPT ![s] = None], [tab EXCEPT ![s] = NoTables],
             [owned EXCEPT ![s] = {}], st, [anon EXCEPT ![s] = {}], block, leaked)
  BY FreeSpace
<1>2. lost \subseteq us /\ lost \subseteq Frames /\ lost \subseteq all
  <2>1. PICK kind, who, reg : Tagged(us, root, tab, owned, st, anon, block, leaked, {}, kind, who, reg)
    BY DEF Booked
  <2> QED
    BY <2>1 DEF Tagged, TypeOK
<1>3. TablesOf(root, tab, s) = TableFrames(s)
  BY DEF TablesOf, TableFrames
<1> HIDE DEF all
<1>4. lost \in SUBSET (Frames \ (us \ all))
  BY <1>2
<1>5. Booked((us \ all) \cup lost, [root EXCEPT ![s] = None], [tab EXCEPT ![s] = NoTables],
             [owned EXCEPT ![s] = {}], st, [anon EXCEPT ![s] = {}], block, leaked \cup lost)
  BY <1>1, <1>4, TakeLost
<1>6. (us \ all) \cup lost = us \ (all \ lost)
  BY <1>2
<1>7. used' = us \ (all \ lost)
  BY <1>3 DEF TearDown, all
<1> QED
  BY <1>5, <1>6, <1>7 DEF TearDown

\* The same with the stack.
LEMMA TearDownWhole ==
    ASSUME TypeOK, AccountInv, NEW s \in Spaces,
           TearDown(s, TableFrames(s) \cup owned[s] \cup stack[s], anon[s]),
           stack' = [stack EXCEPT ![s] = {}], UNCHANGED block
    PROVE  AccountInv'
<1>1. Booked(used \ stack[s], root, tab, owned, [stack EXCEPT ![s] = {}], anon, block, leaked)
  BY FreeStack DEF AccountInv
<1>2. (TableFrames(s) \cup owned[s]) \cap anon[s] = {}
  <2>1. /\ root[s] # None => root[s] \notin anon[s]
        /\ \A r \in Regions : tab[s][r] # None => tab[s][r] \notin anon[s]
        /\ owned[s] \cap anon[s] = {}
    BY OneHolder DEF AccountInv
  <2>2. DOMAIN tab[s] = Regions
    BY DEF TypeOK
  <2> QED
    BY <2>1, <2>2 DEF TableFrames, Range
<1>3. TableFrames(s) \cup owned[s] \cup stack[s] \in SUBSET Frames
  BY DEF TypeOK, TableFrames, Range
<1>4. used \ (TableFrames(s) \cup owned[s] \cup stack[s])
        = (used \ stack[s]) \ ((TableFrames(s) \cup owned[s] \cup anon[s]) \ anon[s])
  BY <1>2
<1>5. Booked(used', root', tab', owned', [stack EXCEPT ![s] = {}], anon', block, leaked')
  BY <1>1, <1>3, <1>4, TearDownBooks
<1> QED
  BY <1>5 DEF AccountInv

\* The system call fails and what it was building is torn down.
LEMMA BuildOver ==
    ASSUME IInv, NEW p \in Actors, NEW s, s = new[p],
           NEW from \in Building, Return(p, from),
           NEW F, NEW lost \in SUBSET Frames, TearDown(s, F, lost),
           stack' \in {stack, [stack EXCEPT ![s] = {}]},
           new' = [new EXCEPT ![p] = None], UNCHANGED <<limits, space, block, faulted>>,
           AccountInv'
    PROVE  IInv'
<1>1. pc[p] \in Building /\ TypeOK /\ Distinct /\ SpaceOf(p) /\ PhaseOf(p) /\ HeapOf(p) /\ None \notin Spaces
  BY AddressSpaceAssumption DEF IInv, ActorInv, Return, Goto
<1>2. s \in Spaces /\ s # None
  BY <1>1 DEF SpaceOf, TypeOK
<1>3. /\ used' \subseteq Frames /\ leaked' \subseteq Frames /\ brkPages' \subseteq Frames
      /\ root' \in [Spaces -> Frames \cup {None}]
      /\ tab' \in [Spaces -> [Regions -> Frames \cup {None}]]
      /\ map' \in [Spaces -> [Va -> Frames \cup {None}]]
      /\ owned' \in [Spaces -> SUBSET Frames] /\ anon' \in [Spaces -> SUBSET Frames]
      /\ stale' \in [Spaces -> SUBSET Va] /\ holes' \in [Spaces -> SUBSET Va]
      /\ \A t \in Spaces : t # s =>
            /\ root'[t] = root[t] /\ tab'[t] = tab[t] /\ map'[t] = map[t] /\ owned'[t] = owned[t]
            /\ anon'[t] = anon[t] /\ stale'[t] = stale[t] /\ holes'[t] = holes[t]
      /\ BrkOf(s)' => PageInv(s)'
  BY <1>1, <1>2, TearDownEffect
<1>4. BrkOf(s)'
  BY <1>2 DEF IInv, PageInv, BrkOf, limits
<1>5. /\ pc'[p] = IF p = Kmain THEN "dead" ELSE "user"
      /\ at'[p] = 0 /\ new'[p] = None
      /\ \A q \in Actors : q # p =>
            pc'[q] = pc[q] /\ at'[q] = at[q] /\ goal'[q] = goal[q] /\ new'[q] = new[q]
      /\ pc' \in [Actors -> Locations] /\ at' \in [Actors -> Nat] /\ goal' \in [Actors -> Nat]
      /\ new' \in [Actors -> Spaces \cup {None}]
  BY <1>1 DEF Return, Goto, TypeOK, Locations
<1>6. stack' \in [Spaces -> SUBSET Frames] /\ \A t \in Spaces : t # s => stack'[t] = stack[t]
  BY <1>1 DEF TypeOK
<1>7. TypeOK'
  BY <1>1, <1>3, <1>5, <1>6 DEF TypeOK, limits
<1>8. Distinct'
  BY <1>1, <1>5 DEF Distinct
<1>9. Local({p}, {s})
  BY <1>1, <1>2, <1>3, <1>5, <1>6 DEF Local, Distinct, Building, limits
<1>10. space[p] # None => space[p] \in Spaces /\ space[p] # s
  BY <1>1, <1>2 DEF Distinct, TypeOK
<1>11. SpaceOf(p)'
  BY <1>1, <1>3, <1>5, <1>10 DEF SpaceOf, Building
<1>12. PhaseOf(p)' /\ BlockOf(p)' /\ StackOf(p)'
  BY <1>1, <1>5 DEF PhaseOf, BlockOf, StackOf, Building, Loading
<1>13. HeapOf(p)'
  BY <1>1, <1>3, <1>5, <1>10 DEF HeapOf, SpaceOf, Building, limits
<1> QED
  BY <1>3, <1>4, <1>7, <1>8, <1>9, <1>11, <1>12, <1>13, Assemble DEF ActorInv

LEMMA BuildFailsStep ==
    ASSUME IInv, NEW p \in Actors, BuildFails(p)
    PROVE  IInv'
<1>0. PICK s, F, lost, from :
                        /\ s = new[p] /\ lost = anon[s] /\ from = pc[p]
                        /\ F = TableFrames(s) \cup owned[s] \cup stack[s]
  OBVIOUS
<1>1. TypeOK /\ AccountInv /\ SpaceOf(p) /\ None \notin Spaces
  BY AddressSpaceAssumption DEF IInv, ActorInv
<1>2. /\ from \in Building /\ Return(p, from)
      /\ TearDown(s, F, lost)
      /\ stack' = [stack EXCEPT ![s] = {}]
      /\ new' = [new EXCEPT ![p] = None]
      /\ UNCHANGED <<limits, space, block, faulted>>
  BY <1>0 DEF BuildFails, Building
<1>3. s \in Spaces /\ lost \in SUBSET Frames
  BY <1>0, <1>1, <1>2 DEF SpaceOf, TypeOK, Building
<1>4. AccountInv'
  BY <1>0, <1>1, <1>2, <1>3, TearDownWhole
<1> QED
  BY <1>0, <1>2, <1>3, <1>4, BuildOver

-----------------------------------------------------------------------------
(* process_clone *)

LEMMA CloneTableStep ==
    ASSUME IInv, NEW p \in Procs, CloneTable(p)
    PROVE  IInv'
<1>0. PICK s, f, r : s = new[p] /\ f = FirstFree(used) /\ r = Region(at[p])
  OBVIOUS
<1>1. /\ TypeOK /\ AccountInv /\ Distinct /\ p \in Actors
      /\ SpaceOf(p) /\ PhaseOf(p) /\ HeapOf(p) /\ None \notin Spaces
  BY AddressSpaceAssumption DEF IInv, ActorInv, Actors
<1>2. /\ pc[p] = "clone" /\ at[p] < UserTop /\ tab[s][r] = None
      /\ FreeRuns(used, 1) # {}
      /\ used' = used \cup {f} /\ tab' = [tab EXCEPT ![s][r] = f]
      /\ UNCHANGED <<leaked, brkPages, root, map, owned, stack, limits, space, new, pc, locals, faulted, history>>
  BY <1>0 DEF CloneTable
<1>3. s \in Spaces /\ s # None /\ root[s] # None /\ f \in Frames \ used
  BY <1>0, <1>1, <1>2, FreeFrame DEF SpaceOf, Building, TypeOK
<1>4. r \in Regions
  BY <1>0, <1>1, <1>2, RegionType, AddressSpaceAssumption DEF TypeOK, Va
<1>5. /\ tab' \in [Spaces -> [Regions -> Frames \cup {None}]] /\ used' \subseteq Frames
      /\ \A t \in Spaces : t # s => tab'[t] = tab[t]
      /\ \A x \in Regions : tab[s][x] # None => tab'[s][x] # None
  BY <1>1, <1>2, <1>3, <1>4 DEF TypeOK
<1>6. TypeOK' /\ Distinct'
  BY <1>1, <1>2, <1>5 DEF TypeOK, Distinct, limits, locals, history
<1>7. AccountInv'
  BY <1>1, <1>2, <1>3, <1>4, TakeTable DEF AccountInv, locals, history
<1>8. Local({p}, {s})
  BY <1>0, <1>1, <1>2, <1>3, <1>5 DEF Local, Distinct, limits, locals, history
<1>9. PageInv(s)'
  <2>1. MapOf(s) /\ TabOf(s) /\ BrkOf(s)
    BY <1>3 DEF IInv, PageInv
  <2>2. MapOf(s)'
    BY <1>2, <2>1 DEF MapOf, Backed, locals, history
  <2> QED
    BY <1>2, <1>3, <1>5, <2>1, <2>2, RegionType DEF PageInv, EmptyOf, TabOf, BrkOf, limits
<1>10. SpaceOf(p)' /\ PhaseOf(p)' /\ BlockOf(p)' /\ StackOf(p)' /\ HeapOf(p)'
  BY <1>1, <1>2 DEF SpaceOf, PhaseOf, BlockOf, StackOf, HeapOf, Loading, Building, limits, locals, history
<1> QED
  BY <1>6, <1>7, <1>8, <1>9, <1>10, Assemble DEF ActorInv

LEMMA ClonePageStep ==
    ASSUME IInv, NEW p \in Procs, ClonePage(p)
    PROVE  IInv'
<1>0. PICK s, f, va : s = new[p] /\ f = FirstFree(used) /\ va = at[p]
  OBVIOUS
<1>1. /\ TypeOK /\ AccountInv /\ Distinct /\ p \in Actors
      /\ SpaceOf(p) /\ PhaseOf(p) /\ HeapOf(p) /\ None \notin Spaces /\ None \notin Frames
  BY AddressSpaceAssumption DEF IInv, ActorInv, Actors
<1>2. /\ pc[p] = "clone" /\ va < UserTop /\ tab[s][Region(va)] # None
      /\ FreeRuns(used, 1) # {}
      /\ used' = used \cup {f} /\ map' = [map EXCEPT ![s][va] = f]
      /\ owned' = [owned EXCEPT ![s] = @ \cup {f}] /\ at' = [at EXCEPT ![p] = @ + 1]
      /\ UNCHANGED <<leaked, brkPages, root, tab, stack, limits, space, new, pc, goal, block, faulted, history>>
  BY <1>0 DEF ClonePage
<1>3. s \in Spaces /\ s # None /\ root[s] # None /\ f \in Frames \ used
  BY <1>0, <1>1, <1>2, FreeFrame DEF SpaceOf, Building, TypeOK
<1>4. va \in Va /\ va \in Nat
  BY <1>0, <1>1, <1>2, AddressSpaceAssumption DEF TypeOK, Va
<1>5. /\ map' \in [Spaces -> [Va -> Frames \cup {None}]] /\ map'[s][va] = f
      /\ \A v \in Va : v # va => map'[s][v] = map[s][v]
      /\ \A t \in Spaces : t # s => map'[t] = map[t]
  BY <1>1, <1>2, <1>3, <1>4 DEF TypeOK
<1>6. /\ owned' \in [Spaces -> SUBSET Frames] /\ used' \subseteq Frames
      /\ owned'[s] = owned[s] \cup {f} /\ \A t \in Spaces : t # s => owned'[t] = owned[t]
  BY <1>1, <1>2, <1>3 DEF TypeOK
<1>7. at' \in [Actors -> Nat] /\ at'[p] = va + 1 /\ \A q \in Actors : q # p => at'[q] = at[q]
  BY <1>0, <1>1, <1>2 DEF TypeOK
<1>8. TypeOK' /\ Distinct'
  BY <1>1, <1>2, <1>5, <1>6, <1>7 DEF TypeOK, Distinct, limits, history
<1>9. AccountInv'
  <2>1. {f} \in SUBSET (Frames \ used)
    BY <1>3
  <2> QED
    BY <1>1, <1>2, <1>3, <2>1, TakeOwned DEF AccountInv, history
<1>10. Local({p}, {s})
  BY <1>0, <1>1, <1>2, <1>3, <1>5, <1>6, <1>7 DEF Local, Distinct, limits, history
<1>11. PageInv(s)'
  <2>1. TabOf(s) /\ BrkOf(s)
    BY <1>3 DEF IInv, PageInv
  <2>2. \A q \in Actors : space[q] # s
    BY <1>0, <1>1, <1>3 DEF Distinct
  <2>3. stale'[s] = stale[s] /\ stack'[s] = stack[s] /\ anon'[s] = anon[s]
    BY <1>2 DEF history
  <2>4. MapOf(s)'
    BY <1>3, <1>4, <1>5, <1>6, <2>2, <2>3, FreshMapping
  <2> QED
    BY <1>2, <1>3, <1>5, <2>1, <2>4 DEF PageInv, EmptyOf, TabOf, BrkOf, limits
<1>12. SpaceOf(p)' /\ PhaseOf(p)' /\ BlockOf(p)' /\ StackOf(p)'
  BY <1>1, <1>2 DEF SpaceOf, PhaseOf, BlockOf, StackOf, Loading, Building
<1>13. HeapOf(p)'
  <2>1. space[p] \in Spaces /\ space[p] # s
    BY <1>0, <1>1, <1>2, <1>3 DEF SpaceOf, Distinct, TypeOK
  <2>2. map'[space[p]] = map[space[p]] /\ \A v \in Va : map[s][v] # None => map'[s][v] # None
    BY <1>1, <1>3, <1>5, <2>1
  <2>3. \A v \in Va : v < va + 1 => v < va \/ v = va
    BY <1>4 DEF Va
  <2> QED
    BY <1>0, <1>1, <1>2, <1>3, <1>5, <1>7, <2>2, <2>3 DEF HeapOf, limits, history
<1> QED
  BY <1>8, <1>9, <1>10, <1>11, <1>12, <1>13, Assemble DEF ActorInv

LEMMA CloneSkipsStep ==
    ASSUME IInv, NEW p \in Procs, CloneSkips(p)
    PROVE  IInv'
<1>1. /\ TypeOK /\ p \in Actors /\ SpaceOf(p) /\ PhaseOf(p) /\ HeapOf(p)
  BY DEF IInv, ActorInv, Actors
<1>2. /\ pc[p] = "clone" /\ at[p] < UserTop /\ ~PageCopied(p)
      /\ at' = [at EXCEPT ![p] = @ + 1]
      /\ UNCHANGED <<heap, tables, owned, stack, limits, space, new, pc, goal, block, faulted, history>>
  BY DEF CloneSkips
<1>3. PICK a \in Nat : a = at[p] + 1
  BY <1>1 DEF TypeOK
<1>4. /\ pc' = [pc EXCEPT ![p] = "clone"] /\ goal' = [goal EXCEPT ![p] = goal[p]]
      /\ at' = [at EXCEPT ![p] = a] /\ at'[p] = a /\ "clone" \in Locations /\ goal[p] \in Nat
  BY <1>1, <1>2, <1>3 DEF TypeOK, Locations
<1>5. space[p] \in Spaces /\ at[p] \in Va /\ at[p] \in Nat
  BY <1>1, <1>2, AddressSpaceAssumption DEF SpaceOf, TypeOK, Va
<1>6. at[p] \in StackPages \/ map[space[p]][at[p]] = None
  <2> SUFFICES ASSUME at[p] \notin StackPages, map[space[p]][at[p]] # None
               PROVE  FALSE
    OBVIOUS
  <2>1. tab[space[p]][Region(at[p])] # None
    BY <1>5 DEF IInv, PageInv, TabOf
  <2>2. RegionCopied(p)
    BY <1>5, <2>1 DEF RegionCopied
  <2> QED
    BY <1>2, <2>2 DEF PageCopied
<1>7. HeapOf(p)'
  <2>1. \A v \in Va : v < a => v < at[p] \/ v = at[p]
    BY <1>3, <1>5 DEF Va
  <2> QED
    BY <1>1, <1>2, <1>4, <1>6, <2>1 DEF HeapOf, tables, limits, history
<1>8. SpaceOf(p)' /\ PhaseOf(p)' /\ BlockOf(p)' /\ StackOf(p)'
  BY <1>1, <1>2 DEF SpaceOf, PhaseOf, BlockOf, StackOf, Loading, Building, tables, history
<1>9. pc[p] # "mmap" /\ faulted' \in BOOLEAN
  BY <1>1, <1>2 DEF TypeOK
<1> QED
  BY <1>1, <1>2, <1>4, <1>7, <1>8, <1>9, QuietStep DEF ActorInv

\* page_alloc of the user stack.
LEMMA StackAllocStep ==
    ASSUME IInv, NEW p \in Actors, NEW from, NEW to, StackAlloc(p, from, to),
           \/ from = "clone" /\ to = "cloneStack" /\ at[p] = UserTop
           \/ from = "prepare" /\ to = "stack"
    PROVE  IInv'
<1>0. PICK s, n, B : s = new[p] /\ n = StackTop - StackLo /\ B = FirstRun(used, n)
  OBVIOUS
<1>1. /\ TypeOK /\ AccountInv /\ Distinct /\ SpaceOf(p) /\ PhaseOf(p) /\ HeapOf(p)
      /\ None \notin Spaces /\ None \notin Frames
  BY AddressSpaceAssumption DEF IInv, ActorInv
<1>2. /\ pc[p] = from /\ pc' = [pc EXCEPT ![p] = to] /\ FreeRuns(used, n) # {}
      /\ stack' = [stack EXCEPT ![s] = B] /\ used' = used \cup B
      /\ at' = [at EXCEPT ![p] = StackLo] /\ goal' = [goal EXCEPT ![p] = StackTop]
      /\ UNCHANGED <<leaked, brkPages, tables, owned, limits, space, new, block, faulted, history>>
  BY <1>0 DEF StackAlloc, Goto
<1>3. s \in Spaces /\ s # None /\ root[s] # None /\ stack[s] = {} /\ block[p] = {}
  BY <1>0, <1>1, <1>2 DEF SpaceOf, PhaseOf, Building, TypeOK
<1>4. n \in Nat \ {0} /\ StackLo \in Nat /\ StackTop \in Nat /\ StackLo <= StackTop
  BY <1>0, AddressSpaceAssumption
<1>5. PICK lo \in Nat : B = lo..(lo + n - 1) /\ B \subseteq Frames \ used
  BY <1>0, <1>2, <1>4, FreeRun
<1>6. /\ pc'[p] = to /\ at'[p] = StackLo
      /\ \A q \in Actors : q # p => pc'[q] = pc[q] /\ at'[q] = at[q] /\ goal'[q] = goal[q]
      /\ pc' \in [Actors -> Locations] /\ at' \in [Actors -> Nat] /\ goal' \in [Actors -> Nat]
  BY <1>1, <1>2, <1>4 DEF TypeOK, Locations
<1>7. /\ stack' \in [Spaces -> SUBSET Frames] /\ used' \subseteq Frames
      /\ stack'[s] = B /\ \A t \in Spaces : t # s => stack'[t] = stack[t]
  BY <1>1, <1>2, <1>3, <1>5 DEF TypeOK
<1>8. TypeOK' /\ Distinct'
  BY <1>1, <1>2, <1>6, <1>7 DEF TypeOK, Distinct, tables, limits, history
<1>9. AccountInv'
  <2>1. Booked(used, root, tab, owned, stack, anon, block, leaked) /\ B \in SUBSET (Frames \ used)
    BY <1>1, <1>5 DEF AccountInv
  <2>2. Booked(used \cup B, root, tab, owned, [stack EXCEPT ![s] = @ \cup B], anon, block, leaked)
    BY <1>3, <2>1, TakeStack
  <2>3. stack[s] \cup B = B
    BY <1>3
  <2> QED
    BY <1>2, <2>2, <2>3 DEF AccountInv, tables, history
<1>10. Local({p}, {s})
  BY <1>0, <1>1, <1>2, <1>3, <1>6, <1>7 DEF Local, Distinct, tables, limits, history
<1>11. PageInv(s)'
  <2>1. MapOf(s) /\ TabOf(s) /\ BrkOf(s)
    BY <1>3 DEF IInv, PageInv
  <2>2. \A f : Backed(s, f) => Backed(s, f)'
    BY <1>2, <1>3, <1>6, <1>7 DEF Backed, history
  <2>3. MapOf(s)'
    BY <1>2, <2>1, <2>2 DEF MapOf, tables, history
  <2> QED
    BY <1>2, <1>3, <2>1, <2>3 DEF PageInv, EmptyOf, TabOf, BrkOf, tables, limits
<1>12. SpaceOf(p)'
  BY <1>1, <1>2, <1>6 DEF SpaceOf, Building, tables
<1>13. PhaseOf(p)' /\ BlockOf(p)'
  BY <1>2, <1>3, <1>6 DEF PhaseOf, BlockOf, Loading
<1>14. StackOf(p)'
  <2>1. UNCHANGED <<map, stale, new>> /\ B \cap used = {} /\ None \notin B
    BY <1>1, <1>2, <1>5 DEF tables, history
  <2>2. \A va \in Va \ stale[s] : map[s][va] \notin B
    BY <1>3, <2>1, FreshUnmapped
  <2>3. stack'[s] = lo..(lo + (StackTop - StackLo) - 1) /\ at'[p] \in StackLo..StackTop
    BY <1>0, <1>4, <1>5, <1>6, <1>7
  <2> QED
    BY <1>0, <1>7, <2>1, <2>2, <2>3 DEF StackOf
<1>15. HeapOf(p)'
  <2>1. \A va \in Va : va < UserTop
    BY AddressSpaceAssumption DEF Va
  <2>2. \A va \in StackLo..(StackLo - 1) : FALSE
    BY <1>4
  <2> QED
    BY <1>1, <1>2, <1>6, <2>1, <2>2 DEF HeapOf, tables, limits, history
<1> QED
  BY <1>8, <1>9, <1>10, <1>11, <1>12, <1>13, <1>14, <1>15, Assemble DEF ActorInv

LEMMA StackFrameIs ==
    ASSUME NEW p, NEW lo \in Nat, NEW n \in Nat \ {0}, stack[new[p]] = lo..(lo + n - 1)
    PROVE  StackFrame(p) = lo + (at[p] - StackLo)
<1> DEFINE b == lo..(lo + n - 1)
           low == CHOOSE f \in b : \A g \in b : f <= g
<1>1. lo \in b /\ \A g \in b : lo <= g
  OBVIOUS
<1>2. low \in b /\ \A g \in b : low <= g
  BY <1>1
<1>3. low = lo
  BY <1>1, <1>2
<1> QED
  BY <1>3 DEF StackFrame

LEMMA StackPageStep ==
    ASSUME IInv, NEW p \in Actors, StackPage(p)
    PROVE  IInv'
<1>0. PICK s, va, f : s = new[p] /\ va = at[p] /\ f = StackFrame(p)
  OBVIOUS
<1>1. /\ TypeOK /\ AccountInv /\ Distinct /\ SpaceOf(p) /\ PhaseOf(p) /\ StackOf(p) /\ HeapOf(p)
      /\ None \notin Frames /\ None \notin Spaces
  BY AddressSpaceAssumption DEF IInv, ActorInv
<1>2. /\ pc[p] \in {"cloneStack", "stack"} /\ va < StackTop
      /\ MapPage(s, va, f, used)
      /\ at' = [at EXCEPT ![p] = @ + 1]
      /\ UNCHANGED <<leaked, brkPages, owned, stack, limits, space, new, pc, goal, block, faulted, anon>>
  BY <1>0 DEF StackPage
<1>3. s \in Spaces /\ s # None /\ root[s] # None
  BY <1>0, <1>1, <1>2 DEF SpaceOf, Building, TypeOK
<1>4. PICK lo \in Nat :
         /\ stack[s] = lo..(lo + (StackTop - StackLo) - 1)
         /\ at[p] \in StackLo..StackTop
         /\ \A v \in Va \ stale[s] : map[s][v] \in stack[s] => v < at[p] /\ map[s][v] + StackLo = lo + v
  BY <1>0, <1>1, <1>2 DEF StackOf
<1>5. /\ StackLo \in Nat /\ StackTop \in Nat /\ StackTop - StackLo \in Nat \ {0}
      /\ va \in Nat /\ va \in Va /\ va >= StackLo
  BY <1>0, <1>1, <1>2, <1>4, AddressSpaceAssumption DEF TypeOK, Va
<1>6. f \in stack[s] /\ f + StackLo = lo + va /\ f \in Frames /\ f \in Nat
  <2>1. f = lo + (va - StackLo)
    BY <1>0, <1>4, <1>5, StackFrameIs
  <2>2. f \in stack[s]
    BY <1>2, <1>4, <1>5, <2>1
  <2> QED
    BY <1>1, <1>3, <1>5, <2>1, <2>2, AddressSpaceAssumption DEF TypeOK
<1>7. /\ map' \in [Spaces -> [Va -> Frames \cup {None}]]
      /\ tab' \in [Spaces -> [Regions -> Frames \cup {None}]]
      /\ stale' \in [Spaces -> SUBSET Va] /\ holes' \in [Spaces -> SUBSET Va]
      /\ root' = root /\ used' \subseteq Frames
      /\ map'[s][va] = f /\ \A v \in Va : v # va => map'[s][v] = map[s][v]
      /\ \A t \in Spaces : t # s => /\ map'[t] = map[t] /\ tab'[t] = tab[t]
                                    /\ stale'[t] = stale[t] /\ holes'[t] = holes[t]
      /\ stale'[s] = stale[s] \ {va} /\ holes'[s] = holes[s] \ {va}
      /\ tab'[s][Region(va)] # None
      /\ \A r \in Regions : tab[s][r] # None => tab'[s][r] # None
  <2>1. used \in SUBSET Frames
    BY <1>1 DEF TypeOK
  <2> QED
    BY <1>1, <1>2, <1>3, <1>5, <1>6, <2>1, MapEffect
<1>8. at'[p] = va + 1 /\ at' \in [Actors -> Nat] /\ \A q \in Actors : q # p => at'[q] = at[q]
  BY <1>0, <1>1, <1>2, <1>5 DEF TypeOK
<1>9. TypeOK' /\ Distinct'
  BY <1>1, <1>2, <1>7, <1>8 DEF TypeOK, Distinct, limits
<1>10. AccountInv'
  <2>1. Booked(used', root', tab', owned, stack, anon, block, leaked)
    BY <1>1, <1>2, <1>3, <1>5, MapBooks DEF AccountInv
  <2> QED
    BY <1>2, <2>1 DEF AccountInv
<1>11. Local({p}, {s})
  BY <1>0, <1>1, <1>2, <1>3, <1>7, <1>8 DEF Local, Distinct, limits
<1>12. PageInv(s)'
  <2>1. MapOf(s) /\ TabOf(s) /\ BrkOf(s)
    BY <1>3 DEF IInv, PageInv
  <2>2. \A g : Backed(s, g) => Backed(s, g)'
    BY <1>2 DEF Backed
  <2>3. Backed(s, f)'
    BY <1>2, <1>6 DEF Backed
  <2>4. \A v \in Va \ stale[s] : v # va => map[s][v] # f
    <3> SUFFICES ASSUME NEW v \in Va \ stale[s], map[s][v] = f
                 PROVE  v = va
      OBVIOUS
    <3>1. f + StackLo = lo + v /\ v \in Nat
      BY <1>4, <1>6 DEF Va
    <3> QED
      BY <1>5, <1>6, <3>1
  <2>5. ASSUME NEW v \in Va \ stale'[s], NEW g, g = map'[s][v], g # None
        PROVE  Backed(s, g)' /\ \A w \in Va \ stale'[s] : map'[s][w] = map'[s][v] => w = v
    <3>1. CASE v = va
      BY <1>7, <2>3, <2>4, <2>5, <3>1
    <3>2. CASE v # va
      <4>1. v \in Va \ stale[s] /\ map'[s][v] = map[s][v] /\ map[s][v] # None
        BY <1>7, <2>5, <3>2
      <4>2. Backed(s, map[s][v]) /\ \A w \in Va \ stale[s] : map[s][w] = map[s][v] => w = v
        BY <2>1, <4>1 DEF MapOf
      <4> QED
        BY <1>7, <2>2, <2>4, <2>5, <3>2, <4>1, <4>2
    <3> QED
      BY <3>1, <3>2
  <2>6. MapOf(s)'
    BY <2>5 DEF MapOf, Backed
  <2>7. TabOf(s)'
    BY <1>7, <2>1, RegionType DEF TabOf
  <2> QED
    BY <1>2, <1>3, <1>7, <2>1, <2>6, <2>7 DEF PageInv, EmptyOf, BrkOf, limits
<1>13. SpaceOf(p)' /\ PhaseOf(p)' /\ BlockOf(p)'
  BY <1>1, <1>2, <1>7 DEF SpaceOf, PhaseOf, BlockOf, Loading, Building
<1>14. StackOf(p)'
  <2>1. ASSUME NEW v \in Va \ stale'[s], map'[s][v] \in stack[s]
        PROVE  v < va + 1 /\ map'[s][v] + StackLo = lo + v
    <3>1. CASE v = va
      BY <1>5, <1>6, <1>7, <3>1
    <3>2. CASE v # va
      <4>1. v \in Va \ stale[s] /\ map'[s][v] = map[s][v]
        BY <1>7, <2>1, <3>2
      <4> QED
        BY <1>0, <1>4, <1>5, <2>1, <4>1 DEF Va
    <3> QED
      BY <3>1, <3>2
  <2>2. va + 1 \in StackLo..StackTop
    BY <1>2, <1>5
  <2> QED
    BY <1>0, <1>2, <1>4, <1>8, <2>1, <2>2 DEF StackOf
<1>15. HeapOf(p)'
  <2>1. pc[p] = "cloneStack" \/ p \in Procs => space[p] \in Spaces /\ space[p] # s
    BY <1>0, <1>1, <1>2, <1>3 DEF SpaceOf, Distinct, TypeOK
  <2>2. /\ pc[p] = "cloneStack" \/ p \in Procs =>
              map'[space[p]] = map[space[p]] /\ holes'[space[p]] = holes[space[p]]
        /\ \A v \in Va : map[s][v] # None => map'[s][v] # None
        /\ map'[s][va] # None
    BY <1>1, <1>6, <1>7, <2>1
  <2>3. \A v \in StackLo..(va + 1 - 1) : v \in Va /\ (v = va \/ v \in StackLo..(va - 1))
    BY <1>5, AddressSpaceAssumption DEF Va
  <2>4. pc'[p] = pc[p] /\ space'[p] = space[p] /\ new'[p] = s /\ brk' = brk
    BY <1>0, <1>2 DEF limits
  <2>5. p \in Procs =>
           \A v \in ImageEnd..(PageAlignUp(brk[space[p]]) - 1) :
               map'[space[p]][v] # None \/ v \in holes'[space[p]]
    BY <1>1, <1>2, <2>2 DEF HeapOf
  <2>6. pc[p] = "cloneStack" =>
           \A v \in Va \ StackPages : map'[space[p]][v] # None => map'[s][v] # None
    BY <1>0, <1>1, <2>2 DEF HeapOf
  <2>7. pc[p] = "cloneStack" => \A v \in StackLo..(va + 1 - 1) : map'[s][v] # None
    BY <1>0, <1>1, <2>2, <2>3 DEF HeapOf
  <2> QED
    BY <1>2, <1>5, <1>8, <2>4, <2>5, <2>6, <2>7 DEF HeapOf
<1> QED
  BY <1>9, <1>10, <1>11, <1>12, <1>13, <1>14, <1>15, Assemble DEF ActorInv

\* The space p has built goes to q.
LEMMA HandOver ==
    ASSUME Distinct, NEW p \in Actors, NEW q \in Actors, NEW s, s = new[p], s # None,
           space'[q] = s, \A x \in Actors : x # q => space'[x] = space[x],
           new'[p] = None, \A x \in Actors : x # p => new'[x] = new[x]
    PROVE  Distinct'
<1>1. \A x \in Actors : space[x] # s /\ (x # p => new[x] # s)
  BY DEF Distinct
<1>2. ASSUME NEW x \in Actors, NEW y \in Actors, space'[x] # None, space'[x] = space'[y]
      PROVE  x = y
  <2>1. CASE x = q
    BY <1>1, <1>2, <2>1
  <2>2. CASE y = q
    BY <1>1, <1>2, <2>2
  <2>3. CASE x # q /\ y # q
    BY <1>2, <2>3 DEF Distinct
  <2> QED
    BY <2>1, <2>2, <2>3
<1>3. ASSUME NEW x \in Actors, NEW y \in Actors, new'[x] # None
      PROVE  (new'[x] = new'[y] => x = y) /\ space'[y] # new'[x]
  <2>1. x # p /\ new'[x] = new[x]
    BY <1>3
  <2>2. new'[x] = new'[y] => x = y
    BY <1>3, <2>1 DEF Distinct
  <2>3. space'[y] # new'[x]
    BY <1>1, <1>3, <2>1 DEF Distinct
  <2> QED
    BY <2>2, <2>3
<1> QED
  BY <1>2, <1>3 DEF Distinct

\* The child gets the space that was built for it, with the break of its parent.
LEMMA CloneEndsStep ==
    ASSUME IInv, NEW p \in Procs, NEW q \in Procs, CloneEnds(p, q)
    PROVE  IInv'
<1>0. PICK s, t : s = new[p] /\ t = space[p]
  OBVIOUS
<1>1. /\ TypeOK /\ AccountInv /\ Distinct /\ p \in Actors /\ q \in Actors /\ q # Kmain
      /\ SpaceOf(p) /\ PhaseOf(p) /\ HeapOf(p) /\ SpaceOf(q) /\ PhaseOf(q)
      /\ None \notin Spaces
  BY AddressSpaceAssumption DEF IInv, ActorInv, Actors
<1>2. /\ pc[p] = "cloneStack" /\ at[p] = StackTop /\ pc[q] = "off"
      /\ pc' = [pc EXCEPT ![p] = "user", ![q] = "user"]
      /\ space' = [space EXCEPT ![q] = s] /\ new' = [new EXCEPT ![p] = None]
      /\ brk' = [brk EXCEPT ![s] = brk[t]] /\ bump' = [bump EXCEPT ![s] = bump[t]]
      /\ holes' = [holes EXCEPT ![s] = holes[t]]
      /\ at' = [at EXCEPT ![p] = 0] /\ goal' = [goal EXCEPT ![p] = 0]
      /\ UNCHANGED <<heap, tables, owned, stack, block, faulted, anon, stale>>
  BY <1>0 DEF CloneEnds
<1>3. /\ s \in Spaces /\ s # None /\ root[s] # None /\ t \in Spaces /\ t # None /\ s # t /\ p # q
      /\ new[q] = None /\ space[q] = None
  BY <1>0, <1>1, <1>2 DEF SpaceOf, Building, TypeOK, Distinct
<1>4. /\ pc'[p] = "user" /\ pc'[q] = "user" /\ at'[p] = 0 /\ at'[q] = at[q]
      /\ space'[q] = s /\ space'[p] = t /\ new'[p] = None /\ new'[q] = None
      /\ \A x \in Actors : x # p /\ x # q =>
            /\ pc'[x] = pc[x] /\ at'[x] = at[x] /\ goal'[x] = goal[x]
            /\ space'[x] = space[x] /\ new'[x] = new[x]
      /\ pc' \in [Actors -> Locations] /\ at' \in [Actors -> Nat] /\ goal' \in [Actors -> Nat]
      /\ space' \in [Actors -> Spaces \cup {None}] /\ new' \in [Actors -> Spaces \cup {None}]
  BY <1>0, <1>1, <1>2, <1>3 DEF TypeOK, Locations
<1>5. /\ brk' \in [Spaces -> Nat] /\ bump' \in [Spaces -> Nat] /\ holes' \in [Spaces -> SUBSET Va]
      /\ brk'[s] = brk[t] /\ holes'[s] = holes[t]
      /\ \A x \in Spaces : x # s => brk'[x] = brk[x] /\ holes'[x] = holes[x]
  BY <1>1, <1>2, <1>3 DEF TypeOK
<1>6. TypeOK'
  BY <1>1, <1>2, <1>4, <1>5 DEF TypeOK, heap, tables
<1>7. \A x \in Actors : (x # p => new[x] # s) /\ space[x] # s
  BY <1>0, <1>1, <1>3 DEF Distinct
<1>8. Distinct'
  <2>1. /\ \A x \in Actors : x # q => space'[x] = space[x]
        /\ \A x \in Actors : x # p => new'[x] = new[x]
    BY <1>0, <1>3, <1>4
  <2> QED
    BY <1>0, <1>1, <1>3, <1>4, <2>1, HandOver
<1>9. AccountInv'
  BY <1>1, <1>2 DEF AccountInv, heap, tables
<1>10. Local({p, q}, {s})
  BY <1>2, <1>4, <1>5, <1>7 DEF Local, tables
<1>11. PageInv(s)'
  <2>1. MapOf(s) /\ TabOf(s) /\ BrkOf(t)
    BY <1>3 DEF IInv, PageInv
  <2>2. \A f : Backed(s, f) => Backed(s, f)'
    BY <1>2, <1>7 DEF Backed
  <2>3. MapOf(s)'
    BY <1>2, <2>1, <2>2 DEF MapOf, tables
  <2> QED
    BY <1>2, <1>3, <1>5, <2>1, <2>3 DEF PageInv, EmptyOf, TabOf, BrkOf, tables
<1>12. SpaceOf(p)' /\ SpaceOf(q)'
  BY <1>0, <1>1, <1>2, <1>3, <1>4 DEF SpaceOf, Building, tables
<1>13. /\ PhaseOf(p)' /\ BlockOf(p)' /\ StackOf(p)'
       /\ PhaseOf(q)' /\ BlockOf(q)' /\ StackOf(q)'
  BY <1>1, <1>2, <1>4 DEF PhaseOf, BlockOf, StackOf, Loading
<1>14. HeapOf(p)'
  BY <1>0, <1>1, <1>2, <1>3, <1>4, <1>5 DEF HeapOf, tables
<1>15. HeapOf(q)'
  <2>1. ASSUME NEW va \in ImageEnd..(PageAlignUp(brk[t]) - 1)
        PROVE  map[s][va] # None \/ va \in holes[t]
    <3>1. va \in Va
      BY <1>1, <1>3, HeapInVa DEF IInv, PageInv
    <3>2. CASE map[t][va] # None /\ va \in StackPages
      BY <1>0, <1>1, <1>2, <3>2 DEF HeapOf, StackPages
    <3>3. CASE map[t][va] # None /\ va \notin StackPages
      BY <1>0, <1>1, <1>2, <3>1, <3>3 DEF HeapOf
    <3> QED
      BY <1>0, <1>1, <1>2, <3>2, <3>3 DEF HeapOf
  <2> QED
    BY <1>2, <1>4, <1>5, <2>1 DEF HeapOf, tables
<1> QED
  BY <1>6, <1>8, <1>9, <1>10, <1>11, <1>12, <1>13, <1>14, <1>15, Assemble DEF ActorInv

-----------------------------------------------------------------------------
(* elf_load and elf_prepare *)

\* The place of p moves inside elf_prepare.
LEMMA LoadMoves ==
    ASSUME IInv, NEW p \in Actors,
           LoadShared(p) \/ LoadRejects(p) \/ LoadEnds(p) \/ PrepareEnds(p)
    PROVE  IInv'
<1>1. TypeOK /\ SpaceOf(p) /\ PhaseOf(p) /\ StackOf(p) /\ HeapOf(p)
  BY DEF IInv, ActorInv
<1>2. PICK to \in Locations, a \in Nat :
         /\ pc' = [pc EXCEPT ![p] = to] /\ at' = [at EXCEPT ![p] = a]
         /\ \/ pc[p] = "load" /\ to \in Loading
            \/ pc[p] = "stack" /\ to = "commit"
  <2>1. /\ pc = [pc EXCEPT ![p] = pc[p]] /\ at = [at EXCEPT ![p] = at[p]] /\ at[p] \in Nat /\ at[p] + 1 \in Nat
        /\ pc[p] \in Locations /\ Loading \subseteq Locations /\ "commit" \in Locations
    BY <1>1 DEF TypeOK, Locations, Loading
  <2>2. CASE LoadShared(p)
    BY <2>1, <2>2 DEF LoadShared, Loading
  <2>3. CASE LoadRejects(p)
    BY <2>1, <2>3 DEF LoadRejects, Goto, Loading, locals
  <2>4. CASE LoadEnds(p)
    BY <2>1, <2>4 DEF LoadEnds, Goto, Loading, locals
  <2>5. CASE PrepareEnds(p)
    BY <2>1, <2>5 DEF PrepareEnds, Goto, locals
  <2> QED
    BY <2>2, <2>3, <2>4, <2>5
<1>3. /\ goal' = [goal EXCEPT ![p] = goal[p]] /\ goal[p] \in Nat /\ faulted' \in BOOLEAN
      /\ UNCHANGED <<heap, tables, owned, stack, limits, space, new, block, history>>
  BY <1>1 DEF LoadShared, LoadRejects, LoadEnds, PrepareEnds, locals, TypeOK
<1>4. pc'[p] = to /\ pc[p] # "mmap"
  BY <1>1, <1>2 DEF TypeOK
<1>5. SpaceOf(p)'
  BY <1>1, <1>2, <1>3, <1>4 DEF SpaceOf, Building, Loading, tables
<1>6. PhaseOf(p)'
  BY <1>1, <1>2, <1>3, <1>4 DEF PhaseOf, Leaves, Loading, tables, history
<1>7. BlockOf(p)' /\ StackOf(p)' /\ HeapOf(p)'
  BY <1>1, <1>2, <1>3, <1>4 DEF BlockOf, StackOf, HeapOf, Loading, tables, limits, history
<1> QED
  BY <1>2, <1>3, <1>4, <1>5, <1>6, <1>7, QuietStep DEF ActorInv

LEMMA LoadFaultsStep ==
    ASSUME IInv, NEW p \in Actors, LoadFaults(p)
    PROVE  IInv'
<1>1. /\ faulted' = TRUE
      /\ UNCHANGED <<heap, tables, owned, stack, limits, space, new, pc, locals, history>>
  BY DEF LoadFaults
<1>2. TypeOK' /\ AccountInv' /\ Distinct'
  BY <1>1 DEF IInv, TypeOK, AccountInv, Distinct, heap, tables, limits, locals, history
<1>3. Local({}, {})
  BY <1>1 DEF Local, heap, tables, limits, locals, history
<1> QED
  BY <1>2, <1>3, Assemble

LEMMA LoadPageStep ==
    ASSUME IInv, NEW p \in Actors, LoadPage(p)
    PROVE  IInv'
<1>0. PICK s, f, va : s = new[p] /\ f = FirstFree(used) /\ va = NextPage(p)
  OBVIOUS
<1>1. /\ TypeOK /\ AccountInv /\ Distinct /\ SpaceOf(p) /\ PhaseOf(p) /\ HeapOf(p)
      /\ None \notin Spaces /\ None \notin Frames
  BY AddressSpaceAssumption DEF IInv, ActorInv
<1>2. /\ pc[p] = "load" /\ at[p] < Len(Image) /\ map[s][va] = None
      /\ FreeRuns(used, 1) # {} /\ MapPage(s, va, f, used \cup {f})
      /\ anon' = [anon EXCEPT ![s] = @ \cup {f}]
      /\ at' = [at EXCEPT ![p] = @ + 1]
      /\ UNCHANGED <<leaked, brkPages, owned, stack, limits, space, new, pc, goal, block, faulted>>
  BY <1>0 DEF LoadPage
<1>3. s \in Spaces /\ s # None /\ root[s] # None /\ f \in Frames \ used
  BY <1>0, <1>1, <1>2, FreeFrame DEF SpaceOf, Building, TypeOK
<1>4. va \in Va
  <2>1. at[p] \in Nat /\ Image \in Seq(0..(ImageEnd - 1)) /\ ImageEnd \in 0..(UserTop - 1) /\ UserTop \in Nat
    BY <1>1, AddressSpaceAssumption DEF TypeOK, Va
  <2>2. at[p] + 1 \in 1..Len(Image)
    BY <1>2, <2>1
  <2>3. va \in 0..(ImageEnd - 1)
    BY <1>0, <2>1, <2>2 DEF NextPage
  <2> QED
    BY <2>1, <2>3 DEF Va
<1>5. \A q \in Actors : space[q] # s /\ (q # p => new[q] # s)
  BY <1>0, <1>1, <1>3 DEF Distinct
<1>6. /\ AccountInv' /\ PageInv(s)'
      /\ anon' \in [Spaces -> SUBSET Frames]
      /\ \A t \in Spaces : t # s => anon'[t] = anon[t]
  <2>1. UNCHANGED <<stack, block, leaked, brk>> /\ \A q \in Actors : space[q] = s => pc[q] # "mmap"
    BY <1>2, <1>5 DEF limits
  <2> QED
    BY <1>0, <1>2, <1>3, <1>4, <2>1, FreshPage
<1>7. /\ map' \in [Spaces -> [Va -> Frames \cup {None}]]
      /\ tab' \in [Spaces -> [Regions -> Frames \cup {None}]]
      /\ stale' \in [Spaces -> SUBSET Va] /\ holes' \in [Spaces -> SUBSET Va]
      /\ root' = root /\ used' \subseteq Frames
      /\ map'[s][va] = f /\ \A v \in Va : v # va => map'[s][v] = map[s][v]
      /\ \A t \in Spaces : t # s => /\ map'[t] = map[t] /\ tab'[t] = tab[t]
                                    /\ stale'[t] = stale[t] /\ holes'[t] = holes[t]
  <2>1. used \cup {f} \in SUBSET Frames
    BY <1>1, <1>3 DEF TypeOK
  <2> QED
    BY <1>1, <1>2, <1>3, <1>4, <2>1, MapEffect
<1>8. at' \in [Actors -> Nat] /\ \A q \in Actors : q # p => at'[q] = at[q]
  BY <1>1, <1>2 DEF TypeOK
<1>9. TypeOK' /\ Distinct'
  BY <1>1, <1>2, <1>6, <1>7, <1>8 DEF TypeOK, Distinct, limits
<1>10. Local({p}, {s})
  BY <1>2, <1>5, <1>6, <1>7, <1>8 DEF Local, limits
<1>11. SpaceOf(p)' /\ BlockOf(p)' /\ StackOf(p)'
  BY <1>1, <1>2, <1>7 DEF SpaceOf, BlockOf, StackOf, Building
<1>12. PhaseOf(p)'
  <2>1. anon[s] = Leaves(s) /\ owned[s] = {} /\ stack[s] = {} /\ block[p] = {}
    BY <1>0, <1>1, <1>2 DEF PhaseOf, Loading
  <2>2. anon'[s] = anon[s] \cup {f} /\ DOMAIN map[s] = Va /\ DOMAIN map'[s] = Va
    BY <1>1, <1>2, <1>3, <1>7 DEF TypeOK
  <2>3. \A g : g \in Leaves(s) <=> g # None /\ \E v \in Va : map[s][v] = g
    BY <2>2 DEF Leaves, Range
  <2>4. \A g : g \in Range(map'[s]) \ {None} <=> g # None /\ \E v \in Va : map'[s][v] = g
    BY <2>2 DEF Range
  <2>5. \A g : g # None => ((\E v \in Va : map'[s][v] = g) <=> g = f \/ \E v \in Va : map[s][v] = g)
    BY <1>2, <1>3, <1>4, <1>7
  <2>6. anon'[s] = Range(map'[s]) \ {None}
    BY <1>1, <1>3, <2>1, <2>2, <2>3, <2>4, <2>5
  <2> QED
    BY <1>0, <1>2, <2>1, <2>6 DEF PhaseOf, Leaves
<1>13. HeapOf(p)'
  <2>1. p \in Procs => space[p] \in Spaces /\ space[p] # s
    BY <1>1, <1>2, <1>5 DEF SpaceOf, TypeOK
  <2> QED
    BY <1>1, <1>2, <1>7, <2>1 DEF HeapOf, limits
<1> QED
  BY <1>6, <1>9, <1>10, <1>11, <1>12, <1>13, Assemble DEF ActorInv

\* elf_load loses a page it has not mapped.
LEMMA LoadMapFailsStep ==
    ASSUME IInv, NEW p \in Actors, LoadMapFails(p)
    PROVE  IInv'
<1>0. PICK f : f = FirstFree(used)
  OBVIOUS
<1>1. TypeOK /\ AccountInv /\ Distinct /\ SpaceOf(p) /\ PhaseOf(p) /\ HeapOf(p)
  BY DEF IInv, ActorInv
<1>2. /\ pc[p] = "load" /\ pc' = [pc EXCEPT ![p] = "loadFailed"]
      /\ FreeRuns(used, 1) # {} /\ used' = used \cup {f} /\ leaked' = leaked \cup {f}
      /\ UNCHANGED <<brkPages, tables, owned, stack, limits, space, new, locals, faulted, history>>
  BY <1>0 DEF LoadMapFails, Goto
<1>3. f \in Frames \ used
  BY <1>0, <1>2, FreeFrame
<1>4. /\ pc'[p] = "loadFailed" /\ \A q \in Actors : q # p => pc'[q] = pc[q]
      /\ pc' \in [Actors -> Locations]
  BY <1>1, <1>2 DEF TypeOK, Locations
<1>5. TypeOK' /\ Distinct'
  BY <1>1, <1>2, <1>3, <1>4 DEF TypeOK, Distinct, tables, limits, locals, history
<1>6. AccountInv'
  <2>1. {f} \in SUBSET (Frames \ used)
    BY <1>3
  <2> QED
    BY <1>1, <1>2, <2>1, TakeLost DEF AccountInv, tables, locals, history
<1>7. Local({p}, {})
  BY <1>2, <1>4 DEF Local, tables, limits, locals, history
<1>8. SpaceOf(p)' /\ BlockOf(p)' /\ StackOf(p)' /\ HeapOf(p)'
  BY <1>1, <1>2, <1>4 DEF SpaceOf, BlockOf, StackOf, HeapOf, Building, tables, limits, locals, history
<1>9. PhaseOf(p)'
  BY <1>1, <1>2, <1>4 DEF PhaseOf, Leaves, Loading, tables, locals, history
<1> QED
  BY <1>5, <1>6, <1>7, <1>8, <1>9, Assemble DEF ActorInv

\* What elf_prepare frees of a half loaded image, some pages listed, the others lost.
LEMMA LoadOver ==
    ASSUME IInv, NEW p \in Actors, NEW from \in Loading, Return(p, from),
           NEW listed, listed \subseteq Leaves(new[p]),
           TearDown(new[p], TableFrames(new[p]) \cup listed, anon[new[p]] \ listed),
           new' = [new EXCEPT ![p] = None],
           UNCHANGED <<stack, limits, space, block, faulted>>
    PROVE  IInv'
<1>0. PICK s, F, lost : s = new[p] /\ F = TableFrames(s) \cup listed /\ lost = anon[s] \ listed
  OBVIOUS
<1>1. /\ TypeOK /\ AccountInv /\ SpaceOf(p) /\ PhaseOf(p) /\ pc[p] = from /\ from \in Building
      /\ None \notin Spaces
  BY AddressSpaceAssumption DEF IInv, ActorInv, Return, Goto, Building, Loading
<1>2. s \in Spaces /\ owned[s] = {} /\ anon[s] = Leaves(s)
  BY <1>0, <1>1 DEF SpaceOf, PhaseOf, TypeOK
<1>3. anon[s] \subseteq Frames /\ TableFrames(s) \subseteq Frames /\ listed \subseteq anon[s]
  BY <1>0, <1>1, <1>2 DEF TypeOK, TableFrames, Range
<1>4. F \in SUBSET Frames /\ lost \in SUBSET Frames /\ lost \subseteq anon[s]
  BY <1>0, <1>3
<1>5. TearDown(s, F, lost)
  BY <1>0
<1>6. TableFrames(s) \cap anon[s] = {}
  <2>1. /\ root[s] # None => root[s] \notin anon[s]
        /\ \A r \in Regions : tab[s][r] # None => tab[s][r] \notin anon[s]
    BY <1>1, <1>2, OneHolder DEF AccountInv
  <2>2. DOMAIN tab[s] = Regions
    BY <1>1, <1>2 DEF TypeOK
  <2> QED
    BY <2>1, <2>2 DEF TableFrames, Range
<1>7. used \ F = used \ ((TableFrames(s) \cup owned[s] \cup anon[s]) \ lost)
  BY <1>0, <1>2, <1>3, <1>6
<1>8. AccountInv'
  <2>1. Booked(used', root', tab', owned', stack, anon', block, leaked')
    BY <1>1, <1>2, <1>4, <1>5, <1>7, TearDownBooks DEF AccountInv
  <2> QED
    BY <2>1 DEF AccountInv
<1> QED
  BY <1>0, <1>1, <1>4, <1>5, <1>8, BuildOver

LEMMA LoadFailedStep ==
    ASSUME IInv, NEW p \in Actors, LoadFailed(p)
    PROVE  IInv'
<1>1. /\ Return(p, "loadFailed") /\ "loadFailed" \in Loading
      /\ new' = [new EXCEPT ![p] = None] /\ UNCHANGED <<stack, limits, space, block, faulted>>
  BY DEF LoadFailed, Loading
<1>2. anon[new[p]] = Leaves(new[p])
  BY <1>1 DEF IInv, ActorInv, PhaseOf, Return, Goto
<1>3. PICK listed \in {Leaves(new[p]), {}} :
         TearDown(new[p], TableFrames(new[p]) \cup listed, anon[new[p]] \ listed)
  <2>1. anon[new[p]] \ Leaves(new[p]) = {} /\ anon[new[p]] \ {} = anon[new[p]]
        /\ TableFrames(new[p]) \cup {} = TableFrames(new[p])
    BY <1>2
  <2> QED
    BY <2>1 DEF LoadFailed
<1> QED
  BY <1>1, <1>3, LoadOver

LEMMA CollectFailsStep ==
    ASSUME IInv, NEW p \in Actors, NEW va \in Va, CollectFails(p, va)
    PROVE  IInv'
<1>0. PICK listed : listed = {map[new[p]][v] : v \in 0..(va - 1)} \ {None}
  OBVIOUS
<1>1. /\ Return(p, "collect") /\ "collect" \in Loading
      /\ TearDown(new[p], TableFrames(new[p]) \cup listed, anon[new[p]] \ listed)
      /\ new' = [new EXCEPT ![p] = None] /\ UNCHANGED <<stack, limits, space, block, faulted>>
  BY <1>0 DEF CollectFails, Loading
<1>2. new[p] \in Spaces
  BY <1>1, AddressSpaceAssumption DEF IInv, ActorInv, SpaceOf, TypeOK, Return, Goto, Building
<1>3. DOMAIN map[new[p]] = Va
  BY <1>2 DEF IInv, TypeOK
<1>4. 0..(va - 1) \subseteq Va
  BY AddressSpaceAssumption DEF Va
<1>5. listed \subseteq Leaves(new[p])
  BY <1>0, <1>3, <1>4 DEF Leaves, Range
<1> QED
  BY <1>1, <1>5, LoadOver

\* vm_collect_user_pages enters every mapped page in the list.
LEMMA CollectStep ==
    ASSUME IInv, NEW p \in Actors, Collect(p)
    PROVE  IInv'
<1>0. PICK s, A : s = new[p] /\ A = anon[s]
  OBVIOUS
<1>1. /\ TypeOK /\ AccountInv /\ Distinct /\ SpaceOf(p) /\ PhaseOf(p) /\ HeapOf(p)
      /\ None \notin Spaces
  BY AddressSpaceAssumption DEF IInv, ActorInv
<1>2. /\ pc[p] = "collect" /\ pc' = [pc EXCEPT ![p] = "prepare"]
      /\ owned' = [owned EXCEPT ![s] = Leaves(s)] /\ anon' = [anon EXCEPT ![s] = {}]
      /\ UNCHANGED <<heap, tables, stack, limits, space, new, locals, faulted, stale, holes>>
  BY <1>0 DEF Collect, Goto
<1>3. /\ s \in Spaces /\ s # None /\ root[s] # None /\ owned[s] = {} /\ A = Leaves(s)
      /\ stack[s] = {} /\ block[p] = {} /\ A \subseteq Frames
  BY <1>0, <1>1, <1>2 DEF SpaceOf, PhaseOf, Building, Loading, TypeOK
<1>4. /\ pc'[p] = "prepare" /\ \A q \in Actors : q # p => pc'[q] = pc[q]
      /\ pc' \in [Actors -> Locations]
  BY <1>1, <1>2 DEF TypeOK, Locations
<1>5. /\ owned' \in [Spaces -> SUBSET Frames] /\ anon' \in [Spaces -> SUBSET Frames]
      /\ owned'[s] = A /\ anon'[s] = {}
      /\ \A t \in Spaces : t # s => owned'[t] = owned[t] /\ anon'[t] = anon[t]
  BY <1>1, <1>2, <1>3 DEF TypeOK
<1>6. TypeOK' /\ Distinct'
  BY <1>1, <1>2, <1>4, <1>5 DEF TypeOK, Distinct, heap, tables, limits, locals
<1>7. AccountInv'
  <2>1. Booked(used \ A, root, tab, owned, stack, [anon EXCEPT ![s] = {}], block, leaked)
    BY <1>0, <1>1, <1>3, FreeAnon DEF AccountInv
  <2>2. A \subseteq used
    BY <1>0, <1>1, <1>3, HeldIsUsed
  <2>3. (used \ A) \cup A = used /\ A \in SUBSET (Frames \ (used \ A)) /\ owned[s] \cup A = A
    BY <1>3, <2>2
  <2>4. Booked((used \ A) \cup A, root, tab, [owned EXCEPT ![s] = @ \cup A], stack,
               [anon EXCEPT ![s] = {}], block, leaked)
    BY <1>3, <2>1, <2>3, TakeOwned
  <2> QED
    BY <1>2, <1>3, <2>3, <2>4 DEF AccountInv, heap, tables, locals
<1>8. \A q \in Actors : space[q] # s /\ (q # p => new[q] # s)
  BY <1>0, <1>1, <1>3 DEF Distinct
<1>9. Local({p}, {s})
  BY <1>2, <1>4, <1>5, <1>8 DEF Local, tables, limits, locals
<1>10. PageInv(s)'
  <2>1. MapOf(s) /\ TabOf(s) /\ BrkOf(s)
    BY <1>3 DEF IInv, PageInv
  <2>2. \A f : Backed(s, f) => Backed(s, f)'
    BY <1>0, <1>2, <1>3, <1>5, <1>8 DEF Backed
  <2>3. MapOf(s)'
    BY <1>2, <2>1, <2>2 DEF MapOf, tables
  <2> QED
    BY <1>2, <1>3, <2>1, <2>3 DEF PageInv, EmptyOf, TabOf, BrkOf, tables, limits
<1>11. SpaceOf(p)'
  BY <1>1, <1>2, <1>4 DEF SpaceOf, Building, tables
<1>12. PhaseOf(p)' /\ BlockOf(p)' /\ StackOf(p)'
  BY <1>0, <1>2, <1>3, <1>4 DEF PhaseOf, BlockOf, StackOf, Loading, locals
<1>13. HeapOf(p)'
  BY <1>1, <1>2, <1>4 DEF HeapOf, tables, limits
<1> QED
  BY <1>6, <1>7, <1>9, <1>10, <1>11, <1>12, <1>13, Assemble DEF ActorInv

-----------------------------------------------------------------------------
(* What was prepared is put to use; exit *)

LEMMA EmptyHeap == \A va \in ImageEnd..(PageAlignUp(2 * ImageEnd) - 1) : FALSE
<1>1. ImageEnd \in Nat /\ 2 * ImageEnd \in Nat
  BY AddressSpaceAssumption DEF Va
<1>2. PageAlignUp(2 * ImageEnd) = ImageEnd
  BY <1>1, AlignType
<1> QED
  BY <1>1, <1>2

\* process_replace tears the old space down and moves into the new one.
LEMMA ExecCommitsStep ==
    ASSUME IInv, NEW p \in Actors, ExecCommits(p)
    PROVE  IInv'
<1>0. PICK old, s, F, lost : /\ old = space[p] /\ s = new[p] /\ lost = anon[old]
                             /\ F = TableFrames(old) \cup owned[old] \cup stack[old]
  OBVIOUS
<1>1. /\ TypeOK /\ AccountInv /\ Distinct /\ SpaceOf(p) /\ PhaseOf(p) /\ None \notin Spaces
  BY AddressSpaceAssumption DEF IInv, ActorInv
<1>2. /\ old # None /\ p # Kmain /\ pc[p] = "commit" /\ pc' = [pc EXCEPT ![p] = "user"]
      /\ at' = [at EXCEPT ![p] = 0] /\ goal' = [goal EXCEPT ![p] = 0]
      /\ TearDown(old, F, lost) /\ stack' = [stack EXCEPT ![old] = {}]
      /\ space' = [space EXCEPT ![p] = s] /\ new' = [new EXCEPT ![p] = None]
      /\ brk' = [brk EXCEPT ![s] = 2 * ImageEnd] /\ bump' = [bump EXCEPT ![s] = MmapBase]
      /\ UNCHANGED <<block, faulted>>
  BY <1>0, <1>1 DEF ExecCommits, Return, Goto, SpaceOf
<1>3. /\ old \in Spaces /\ s \in Spaces /\ s # None /\ s # old /\ root[s] # None
      /\ block[p] = {} /\ lost \in SUBSET Frames
  BY <1>0, <1>1, <1>2 DEF SpaceOf, PhaseOf, Building, TypeOK, Distinct
<1>4. \A q \in Actors : q # p => space[q] # old /\ space[q] # s /\ new[q] # old /\ new[q] # s
  BY <1>0, <1>1, <1>2, <1>3 DEF Distinct
<1>5. /\ used' \subseteq Frames /\ leaked' \subseteq Frames /\ brkPages' \subseteq Frames
      /\ root' \in [Spaces -> Frames \cup {None}]
      /\ tab' \in [Spaces -> [Regions -> Frames \cup {None}]]
      /\ map' \in [Spaces -> [Va -> Frames \cup {None}]]
      /\ owned' \in [Spaces -> SUBSET Frames] /\ anon' \in [Spaces -> SUBSET Frames]
      /\ stale' \in [Spaces -> SUBSET Va] /\ holes' \in [Spaces -> SUBSET Va]
      /\ \A t \in Spaces : t # old =>
            /\ root'[t] = root[t] /\ tab'[t] = tab[t] /\ map'[t] = map[t] /\ owned'[t] = owned[t]
            /\ anon'[t] = anon[t] /\ stale'[t] = stale[t] /\ holes'[t] = holes[t]
      /\ BrkOf(old)' => PageInv(old)'
  BY <1>1, <1>2, <1>3, TearDownEffect
<1>6. /\ pc'[p] = "user" /\ at'[p] = 0 /\ space'[p] = s /\ new'[p] = None
      /\ \A q \in Actors : q # p =>
            /\ pc'[q] = pc[q] /\ at'[q] = at[q] /\ goal'[q] = goal[q]
            /\ space'[q] = space[q] /\ new'[q] = new[q]
      /\ pc' \in [Actors -> Locations] /\ at' \in [Actors -> Nat] /\ goal' \in [Actors -> Nat]
      /\ space' \in [Actors -> Spaces \cup {None}] /\ new' \in [Actors -> Spaces \cup {None}]
  BY <1>1, <1>2, <1>3 DEF TypeOK, Locations
<1>7. /\ brk' \in [Spaces -> Nat] /\ bump' \in [Spaces -> Nat] /\ stack' \in [Spaces -> SUBSET Frames]
      /\ brk'[s] = 2 * ImageEnd /\ \A t \in Spaces : t # s => brk'[t] = brk[t]
      /\ \A t \in Spaces : t # old => stack'[t] = stack[t]
  <2>1. 2 * ImageEnd \in Nat /\ MmapBase \in Nat
    BY AddressSpaceAssumption DEF Va
  <2> QED
    BY <1>1, <1>2, <1>3, <2>1 DEF TypeOK
<1>8. TypeOK'
  BY <1>1, <1>2, <1>5, <1>6, <1>7 DEF TypeOK
<1>9. Distinct'
  BY <1>0, <1>1, <1>3, <1>6, HandOver
<1>10. AccountInv'
  BY <1>0, <1>1, <1>2, <1>3, TearDownWhole
<1>11. Local({p}, {old, s})
  BY <1>2, <1>4, <1>5, <1>6, <1>7 DEF Local
<1>12. PageInv(old)'
  <2>1. BrkOf(old)'
    BY <1>3, <1>7 DEF IInv, PageInv, BrkOf
  <2> QED
    BY <1>5, <2>1
<1>13. PageInv(s)'
  <2>1. MapOf(s) /\ TabOf(s)
    BY <1>3 DEF IInv, PageInv
  <2>2. \A f : Backed(s, f) => Backed(s, f)'
    BY <1>0, <1>2, <1>3, <1>4, <1>5, <1>7 DEF Backed
  <2>3. MapOf(s)'
    BY <1>3, <1>5, <2>1, <2>2 DEF MapOf
  <2> QED
    BY <1>3, <1>5, <1>7, <2>1, <2>3 DEF PageInv, EmptyOf, TabOf, BrkOf
<1>14. SpaceOf(p)' /\ PhaseOf(p)' /\ BlockOf(p)' /\ StackOf(p)'
  BY <1>2, <1>3, <1>5, <1>6 DEF SpaceOf, PhaseOf, BlockOf, StackOf, Building, Loading
<1>15. HeapOf(p)'
  BY <1>6, <1>7, EmptyHeap DEF HeapOf
<1> QED
  BY <1>8, <1>9, <1>10, <1>11, <1>12, <1>13, <1>14, <1>15, Assemble DEF ActorInv

\* elf_start gives what was prepared to a new process.
LEMMA SpawnCommitsStep ==
    ASSUME IInv, NEW p \in Actors, NEW q \in Procs, SpawnCommits(p, q)
    PROVE  IInv'
<1>0. PICK s, to : s = new[p] /\ to = IF p = Kmain THEN "dead" ELSE "user"
  OBVIOUS
<1>1. /\ TypeOK /\ AccountInv /\ Distinct /\ q \in Actors /\ q # Kmain
      /\ SpaceOf(p) /\ PhaseOf(p) /\ HeapOf(p) /\ SpaceOf(q) /\ PhaseOf(q)
      /\ None \notin Spaces
  BY AddressSpaceAssumption DEF IInv, ActorInv, Actors
<1>2. /\ pc[p] = "commit" /\ pc[q] = "off"
      /\ pc' = [pc EXCEPT ![p] = to, ![q] = "user"]
      /\ space' = [space EXCEPT ![q] = s] /\ new' = [new EXCEPT ![p] = None]
      /\ brk' = [brk EXCEPT ![s] = 2 * ImageEnd] /\ bump' = [bump EXCEPT ![s] = MmapBase]
      /\ at' = [at EXCEPT ![p] = 0] /\ goal' = [goal EXCEPT ![p] = 0]
      /\ UNCHANGED <<heap, tables, owned, stack, block, faulted, history>>
  BY <1>0 DEF SpawnCommits
<1>3. /\ s \in Spaces /\ s # None /\ root[s] # None /\ p # q /\ to \in {"dead", "user"}
      /\ new[q] = None /\ space[q] = None /\ block[p] = {} /\ block[q] = {} /\ at[q] = 0
  BY <1>0, <1>1, <1>2 DEF SpaceOf, PhaseOf, Building, TypeOK
<1>4. /\ pc'[p] = to /\ pc'[q] = "user" /\ at'[p] = 0 /\ at'[q] = at[q]
      /\ space'[q] = s /\ space'[p] = space[p] /\ new'[p] = None /\ new'[q] = None
      /\ \A x \in Actors : x # p /\ x # q =>
            /\ pc'[x] = pc[x] /\ at'[x] = at[x] /\ goal'[x] = goal[x]
            /\ space'[x] = space[x] /\ new'[x] = new[x]
      /\ pc' \in [Actors -> Locations] /\ at' \in [Actors -> Nat] /\ goal' \in [Actors -> Nat]
      /\ space' \in [Actors -> Spaces \cup {None}] /\ new' \in [Actors -> Spaces \cup {None}]
  BY <1>1, <1>2, <1>3 DEF TypeOK, Locations
<1>5. /\ brk' \in [Spaces -> Nat] /\ bump' \in [Spaces -> Nat]
      /\ brk'[s] = 2 * ImageEnd /\ \A x \in Spaces : x # s => brk'[x] = brk[x]
  <2>1. 2 * ImageEnd \in Nat /\ MmapBase \in Nat
    BY AddressSpaceAssumption DEF Va
  <2> QED
    BY <1>1, <1>2, <1>3, <2>1 DEF TypeOK
<1>6. TypeOK'
  BY <1>1, <1>2, <1>4, <1>5 DEF TypeOK, heap, tables, history
<1>7. \A x \in Actors : (x # p => new[x] # s) /\ space[x] # s
  BY <1>0, <1>1, <1>3 DEF Distinct
<1>8. Distinct'
  <2>1. /\ \A x \in Actors : x # q => space'[x] = space[x]
        /\ \A x \in Actors : x # p => new'[x] = new[x]
    BY <1>3, <1>4
  <2> QED
    BY <1>0, <1>1, <1>3, <1>4, <2>1, HandOver
<1>9. AccountInv'
  BY <1>1, <1>2 DEF AccountInv, heap, tables, history
<1>10. Local({p, q}, {s})
  BY <1>2, <1>4, <1>5, <1>7 DEF Local, tables, history
<1>11. PageInv(s)'
  <2>1. MapOf(s) /\ TabOf(s)
    BY <1>3 DEF IInv, PageInv
  <2>2. \A f : Backed(s, f) => Backed(s, f)'
    BY <1>2, <1>7 DEF Backed, history
  <2>3. MapOf(s)'
    BY <1>2, <2>1, <2>2 DEF MapOf, tables, history
  <2> QED
    BY <1>2, <1>3, <1>5, <2>1, <2>3 DEF PageInv, EmptyOf, TabOf, BrkOf, tables
<1>12. SpaceOf(q)'
  BY <1>1, <1>2, <1>3, <1>4 DEF SpaceOf, Building, tables
<1>13. SpaceOf(p)'
  <2>1. p = Kmain => space[p] = None
    BY <1>1 DEF SpaceOf
  <2>2. p # Kmain => to = "user" /\ (space[p] # None => root[space[p]] # None)
        /\ (p \in Procs => space[p] # None)
    BY <1>0, <1>1, <1>2 DEF SpaceOf
  <2>3. p = Kmain => p \notin Procs /\ to = "dead"
    BY <1>0, AddressSpaceAssumption
  <2> QED
    BY <1>2, <1>3, <1>4, <2>1, <2>2, <2>3 DEF SpaceOf, Building, tables
<1>14. /\ PhaseOf(p)' /\ BlockOf(p)' /\ StackOf(p)'
       /\ PhaseOf(q)' /\ BlockOf(q)' /\ StackOf(q)'
  BY <1>2, <1>3, <1>4 DEF PhaseOf, BlockOf, StackOf, Loading
<1>15. HeapOf(p)'
  <2>1. p \in Procs => space[p] \in Spaces /\ space[p] # s
    BY <1>1, <1>2, <1>7 DEF SpaceOf, TypeOK
  <2> QED
    BY <1>1, <1>2, <1>3, <1>4, <1>5, <2>1 DEF HeapOf, tables, history
<1>16. HeapOf(q)'
  BY <1>4, <1>5, EmptyHeap DEF HeapOf
<1> QED
  BY <1>6, <1>8, <1>9, <1>10, <1>11, <1>12, <1>13, <1>14, <1>15, <1>16, Assemble DEF ActorInv

\* process_terminate frees everything but the stack.
LEMMA ExitStep ==
    ASSUME IInv, NEW p \in Procs, Exit(p)
    PROVE  IInv'
<1>0. PICK s, F, lost : s = space[p] /\ lost = anon[s] /\ F = TableFrames(s) \cup owned[s]
  OBVIOUS
<1>1. /\ TypeOK /\ AccountInv /\ Distinct /\ p \in Actors /\ p # Kmain /\ SpaceOf(p) /\ PhaseOf(p)
      /\ None \notin Spaces
  BY AddressSpaceAssumption DEF IInv, ActorInv, Actors
<1>2. /\ s # None /\ pc[p] = "user" /\ pc' = [pc EXCEPT ![p] = "dead"]
      /\ TearDown(s, F, lost)
      /\ UNCHANGED <<stack, limits, space, new, locals, faulted>>
  BY <1>0 DEF Exit, Goto
<1>3. s \in Spaces /\ F \in SUBSET Frames /\ lost \in SUBSET Frames /\ lost \subseteq anon[s]
  <2>1. s \in Spaces
    BY <1>0, <1>1, <1>2 DEF TypeOK
  <2> QED
    BY <1>0, <1>1, <2>1 DEF TypeOK, TableFrames, Range
<1>4. /\ used' \subseteq Frames /\ leaked' \subseteq Frames /\ brkPages' \subseteq Frames
      /\ root' \in [Spaces -> Frames \cup {None}]
      /\ tab' \in [Spaces -> [Regions -> Frames \cup {None}]]
      /\ map' \in [Spaces -> [Va -> Frames \cup {None}]]
      /\ owned' \in [Spaces -> SUBSET Frames] /\ anon' \in [Spaces -> SUBSET Frames]
      /\ stale' \in [Spaces -> SUBSET Va] /\ holes' \in [Spaces -> SUBSET Va]
      /\ \A t \in Spaces : t # s =>
            /\ root'[t] = root[t] /\ tab'[t] = tab[t] /\ map'[t] = map[t] /\ owned'[t] = owned[t]
            /\ anon'[t] = anon[t] /\ stale'[t] = stale[t] /\ holes'[t] = holes[t]
      /\ root'[s] = None
      /\ BrkOf(s)' => PageInv(s)'
  BY <1>1, <1>2, <1>3, TearDownEffect
<1>5. /\ pc'[p] = "dead" /\ \A q \in Actors : q # p => pc'[q] = pc[q]
      /\ pc' \in [Actors -> Locations]
  BY <1>1, <1>2 DEF TypeOK, Locations
<1>6. TypeOK' /\ Distinct'
  BY <1>1, <1>2, <1>4, <1>5 DEF TypeOK, Distinct, limits, locals
<1>7. AccountInv'
  <2>1. (TableFrames(s) \cup owned[s]) \cap anon[s] = {}
    <3>1. /\ root[s] # None => root[s] \notin anon[s]
          /\ \A r \in Regions : tab[s][r] # None => tab[s][r] \notin anon[s]
          /\ owned[s] \cap anon[s] = {}
      BY <1>1, <1>3, OneHolder DEF AccountInv
    <3>2. DOMAIN tab[s] = Regions
      BY <1>1, <1>3 DEF TypeOK
    <3> QED
      BY <3>1, <3>2 DEF TableFrames, Range
  <2>2. used \ F = used \ ((TableFrames(s) \cup owned[s] \cup anon[s]) \ lost)
    BY <1>0, <2>1
  <2>3. Booked(used', root', tab', owned', stack, anon', block, leaked')
    BY <1>1, <1>2, <1>3, <2>2, TearDownBooks DEF AccountInv
  <2> QED
    BY <1>2, <2>3 DEF AccountInv, locals
<1>8. Local({p}, {s})
  BY <1>0, <1>1, <1>2, <1>3, <1>4, <1>5 DEF Local, Distinct, SpaceOf, Building, limits, locals
<1>9. PageInv(s)'
  <2>1. BrkOf(s)'
    BY <1>2, <1>3 DEF IInv, PageInv, BrkOf, limits
  <2> QED
    BY <1>4, <2>1
<1>10. SpaceOf(p)' /\ PhaseOf(p)' /\ BlockOf(p)' /\ StackOf(p)' /\ HeapOf(p)'
  BY <1>0, <1>1, <1>2, <1>4, <1>5
     DEF SpaceOf, PhaseOf, BlockOf, StackOf, HeapOf, Building, Loading, locals
<1> QED
  BY <1>6, <1>7, <1>8, <1>9, <1>10, Assemble DEF ActorInv

\* scheduler_reap frees the stack; nothing is mapped any more.
LEMMA ReapStep ==
    ASSUME IInv, NEW p \in Procs, Reap(p)
    PROVE  IInv'
<1>0. PICK s : s = space[p]
  OBVIOUS
<1>1. /\ TypeOK /\ AccountInv /\ Distinct /\ p \in Actors /\ p # Kmain /\ SpaceOf(p) /\ PhaseOf(p)
      /\ None \notin Spaces
  BY AddressSpaceAssumption DEF IInv, ActorInv, Actors
<1>2. /\ s # None /\ pc[p] = "dead" /\ pc' = [pc EXCEPT ![p] = "off"]
      /\ used' = used \ stack[s] /\ stack' = [stack EXCEPT ![s] = {}]
      /\ space' = [space EXCEPT ![p] = None]
      /\ UNCHANGED <<leaked, brkPages, tables, owned, limits, new, locals, faulted, history>>
  BY <1>0 DEF Reap, Goto
<1>3. s \in Spaces /\ root[s] = None
  BY <1>0, <1>1, <1>2 DEF SpaceOf, TypeOK
<1>4. /\ pc'[p] = "off" /\ space'[p] = None
      /\ \A q \in Actors : q # p => pc'[q] = pc[q] /\ space'[q] = space[q]
      /\ pc' \in [Actors -> Locations] /\ space' \in [Actors -> Spaces \cup {None}]
      /\ stack' \in [Spaces -> SUBSET Frames] /\ used' \subseteq Frames
      /\ \A t \in Spaces : t # s => stack'[t] = stack[t]
  BY <1>1, <1>2 DEF TypeOK, Locations
<1>5. TypeOK'
  BY <1>1, <1>2, <1>4 DEF TypeOK, tables, limits, locals, history
<1>6. Distinct'
  BY <1>1, <1>2, <1>4 DEF Distinct
<1>7. AccountInv'
  BY <1>1, <1>2, <1>3, FreeStack DEF AccountInv, tables, locals, history
<1>8. Local({p}, {s})
  BY <1>0, <1>1, <1>2, <1>3, <1>4 DEF Local, Distinct, tables, limits, locals, history
<1>9. PageInv(s)'
  BY <1>2, <1>3 DEF IInv, PageInv, EmptyOf, MapOf, TabOf, BrkOf, tables, limits, history
<1>10. SpaceOf(p)' /\ PhaseOf(p)' /\ BlockOf(p)' /\ StackOf(p)' /\ HeapOf(p)'
  BY <1>1, <1>2, <1>4 DEF SpaceOf, PhaseOf, BlockOf, StackOf, HeapOf, Building, Loading, locals, tables
<1> QED
  BY <1>5, <1>6, <1>7, <1>8, <1>9, <1>10, Assemble DEF ActorInv

-----------------------------------------------------------------------------
(* The theorems *)

LEMMA InitHolds == Init => IInv
<1> SUFFICES ASSUME Init PROVE IInv
  OBVIOUS
<1>1. /\ NoTables \in [Regions -> Frames \cup {None}] /\ \A r \in Regions : NoTables[r] = None
      /\ NoPages \in [Va -> Frames \cup {None}] /\ \A va \in Va : NoPages[va] = None
  BY DEF NoTables, NoPages
<1>2. 2 * ImageEnd \in Nat /\ MmapBase \in Nat /\ None \notin Spaces /\ Kmain \notin Procs
  BY AddressSpaceAssumption DEF Va
<1>3. TypeOK
  BY <1>1, <1>2 DEF Init, TypeOK, Locations
<1>4. AccountInv
  <2>1. BookType(used, root, tab, owned, stack, anon, block, leaked)
    BY <1>3 DEF TypeOK, BookType
  <2>2. Tagged({}, root, tab, owned, stack, anon, block, {}, {}, <<>>, <<>>, <<>>)
    BY <1>1 DEF Init, Tagged
  <2> QED
    BY <2>1, <2>2 DEF Init, AccountInv, Booked
<1>5. Distinct
  BY DEF Init, Distinct
<1>6. ASSUME NEW p \in Actors PROVE ActorInv(p)
  <2>1. /\ space[p] = None /\ new[p] = None /\ at[p] = 0 /\ block[p] = {}
        /\ pc[p] = IF p = Kmain THEN "user" ELSE "off"
    BY DEF Init
  <2>2. p \in Procs => pc[p] = "off"
    BY <1>2, <2>1
  <2> QED
    BY <2>1, <2>2 DEF ActorInv, SpaceOf, PhaseOf, BlockOf, StackOf, HeapOf, Building, Loading
<1>7. ASSUME NEW s \in Spaces PROVE PageInv(s)
  BY <1>1 DEF Init, PageInv, EmptyOf, MapOf, TabOf, BrkOf
<1> QED
  BY <1>3, <1>4, <1>5, <1>6, <1>7 DEF IInv

LEMMA MemoryStep ==
    ASSUME IInv, NEW p \in Procs, Memory(p)
    PROVE  IInv'
<1>1. (2 * ImageEnd)..(2 * HeapMax) \subseteq Nat /\ 0..MaxLength \subseteq Nat
  BY AddressSpaceAssumption DEF Va
<1>2. CASE \E b \in (2 * ImageEnd)..(2 * HeapMax) : BrkMoves(p, b) \/ BrkBegins(p, b)
  BY <1>1, <1>2, BrkMovesStep, BrkBeginsStep
<1>3. CASE GrowPage(p) \/ GrowUnlisted(p) \/ GrowFails(p) \/ GrowEnds(p)
  BY <1>3, GrowPageStep, GrowUnlistedStep, GrowFailsStep, GrowEndsStep
<1>4. CASE \E addr \in Hints, n \in 0..MaxLength : MmapBegins(p, addr, n)
  BY <1>1, <1>4, MmapBeginsStep
<1>5. CASE \E n \in 0..MaxLength : MmapRefused(p, n)
  BY <1>1, <1>5, MmapRefusedStep
<1>6. CASE MmapPage(p) \/ MmapFails(p) \/ MmapEnds(p)
  BY <1>6, MmapPageStep, MmapFailsStep, MmapEndsStep
<1>7. CASE \E addr \in Hints \ {None}, n \in 0..MaxLength : Munmap(p, addr, n)
  BY <1>7, MunmapStep
<1>8. CASE KernelTable(p) \/ KernelDisturbed(p)
  BY <1>8, KernelTableStep, KernelDisturbedStep
<1> QED
  BY <1>2, <1>3, <1>4, <1>5, <1>6, <1>7, <1>8 DEF Memory

LEMMA CloneStep ==
    ASSUME IInv, NEW p \in Procs, Clone(p)
    PROVE  IInv'
<1>1. p \in Actors
  BY DEF Actors
<1>2. CASE \E s \in Spaces : CloneBegins(p, s)
  BY <1>1, <1>2, BuildBeginsStep DEF CloneBegins
<1>3. CASE CloneTable(p) \/ ClonePage(p) \/ CloneSkips(p)
  BY <1>3, CloneTableStep, ClonePageStep, CloneSkipsStep
<1>4. CASE CloneStack(p)
  BY <1>1, <1>4, StackAllocStep DEF CloneStack
<1>5. CASE \E q \in Procs : CloneEnds(p, q)
  BY <1>5, CloneEndsStep
<1> QED
  BY <1>2, <1>3, <1>4, <1>5 DEF Clone

LEMMA LoadStep ==
    ASSUME IInv, NEW p \in Actors, Load(p)
    PROVE  IInv'
<1>1. CASE \E s \in Spaces : LoadBegins(p, s)
  BY <1>1, BuildBeginsStep DEF LoadBegins
<1>2. CASE LoadShared(p) \/ LoadRejects(p) \/ LoadEnds(p) \/ PrepareEnds(p)
  BY <1>2, LoadMoves
<1>3. CASE LoadPage(p) \/ LoadFaults(p) \/ LoadMapFails(p) \/ LoadFailed(p) \/ Collect(p)
  BY <1>3, LoadPageStep, LoadFaultsStep, LoadMapFailsStep, LoadFailedStep, CollectStep
<1>4. CASE \E va \in Va : CollectFails(p, va)
  BY <1>4, CollectFailsStep
<1>5. CASE PrepareStack(p)
  BY <1>5, StackAllocStep DEF PrepareStack
<1>6. CASE ExecCommits(p) \/ \E q \in Procs : SpawnCommits(p, q)
  BY <1>6, ExecCommitsStep, SpawnCommitsStep
<1> QED
  BY <1>1, <1>2, <1>3, <1>4, <1>5, <1>6 DEF Load

LEMMA NextStep == IInv /\ [Next]_vars => IInv'
<1> SUFFICES ASSUME IInv, [Next]_vars PROVE IInv'
  OBVIOUS
<1>1. CASE \E p \in Procs : Memory(p) \/ Clone(p) \/ Exit(p) \/ Reap(p)
  BY <1>1, MemoryStep, CloneStep, ExitStep, ReapStep
<1>2. CASE \E p \in Actors : Load(p) \/ StackPage(p) \/ BuildFails(p)
  BY <1>2, LoadStep, StackPageStep, BuildFailsStep
<1>3. CASE UNCHANGED vars
  <2>1. TypeOK' /\ AccountInv' /\ Distinct'
    BY <1>3 DEF IInv, TypeOK, AccountInv, Distinct, vars, heap, tables, limits, locals, history
  <2>2. Local({}, {})
    BY <1>3 DEF Local, vars, heap, tables, limits, locals, history
  <2> QED
    BY <2>1, <2>2, Assemble
<1> QED
  BY <1>1, <1>2, <1>3 DEF Next, Halted

LEMMA Inductive == Spec => []IInv
  BY InitHolds, NextStep, PTL DEF Spec

LEMMA HoldersOf ==
    ASSUME TypeOK, NEW f \in Frames, NEW h
    PROVE  h \in Holders(f) <=>
             \/ \E s \in Spaces : root[s] = f /\ h = <<"root", s>>
             \/ \E s \in Spaces, r \in Regions : tab[s][r] = f /\ h = <<"tab", s, r>>
             \/ \E s \in Spaces : f \in owned[s] /\ h = <<"owned", s>>
             \/ \E s \in Spaces : f \in stack[s] /\ h = <<"stack", s>>
             \/ \E s \in Spaces : f \in anon[s] /\ h = <<"anon", s>>
             \/ \E p \in Actors : f \in block[p] /\ h = <<"block", p>>
             \/ f \in leaked /\ h = <<"leaked">>
<1> DEFINE T == {<<"tab", x[1], x[2]>> : x \in {x \in Spaces \X Regions : tab[x[1]][x[2]] = f}}
<1>1. h \in T <=> \E s \in Spaces, r \in Regions : tab[s][r] = f /\ h = <<"tab", s, r>>
  <2>1. ASSUME h \in T
        PROVE  \E s \in Spaces, r \in Regions : tab[s][r] = f /\ h = <<"tab", s, r>>
    <3>1. PICK x \in Spaces \X Regions : tab[x[1]][x[2]] = f /\ h = <<"tab", x[1], x[2]>>
      BY <2>1
    <3>2. x[1] \in Spaces /\ x[2] \in Regions
      OBVIOUS
    <3> QED
      BY <3>1, <3>2
  <2>2. ASSUME NEW s \in Spaces, NEW r \in Regions, tab[s][r] = f, h = <<"tab", s, r>>
        PROVE  h \in T
    <3>1. PICK x : x = <<s, r>>
      OBVIOUS
    <3>2. x \in Spaces \X Regions /\ x[1] = s /\ x[2] = r
      BY <3>1
    <3> QED
      BY <2>2, <3>2
  <2> QED
    BY <2>1, <2>2
<1> HIDE DEF T
<1>2. h \in Holders(f) <=>
        \/ h \in {<<"root", s>> : s \in {s \in Spaces : root[s] = f}}
        \/ h \in T
        \/ h \in {<<"owned", s>> : s \in {s \in Spaces : f \in owned[s]}}
        \/ h \in {<<"stack", s>> : s \in {s \in Spaces : f \in stack[s]}}
        \/ h \in {<<"anon", s>> : s \in {s \in Spaces : f \in anon[s]}}
        \/ h \in {<<"block", p>> : p \in {p \in Actors : f \in block[p]}}
        \/ h \in {<<"leaked">> : x \in {x \in {f} : f \in leaked}}
  BY Zenon DEF Holders, T
<1> QED
  BY <1>1, <1>2

LEMMA Accounted == IInv => FramesAccounted
<1> SUFFICES ASSUME IInv, NEW f \in Frames
             PROVE  IF f \in used THEN \E h \in Holders(f) : Holders(f) = {h} ELSE Holders(f) = {}
  BY DEF FramesAccounted
<1>1. TypeOK /\ None \notin Frames
  BY AddressSpaceAssumption DEF IInv
<1>2. PICK kind, who, reg :
         Tagged(used, root, tab, owned, stack, anon, block, leaked, {}, kind, who, reg)
  BY DEF IInv, AccountInv, Booked
<1>3. /\ \A s \in Spaces : root[s] = f => f \in used /\ kind[f] = "root" /\ who[f] = s
      /\ \A s \in Spaces, r \in Regions : tab[s][r] = f =>
            f \in used /\ kind[f] = "tab" /\ who[f] = s /\ reg[f] = r
      /\ \A s \in Spaces : f \in owned[s] => f \in used /\ kind[f] = "owned" /\ who[f] = s
      /\ \A s \in Spaces : f \in stack[s] => f \in used /\ kind[f] = "stack" /\ who[f] = s
      /\ \A s \in Spaces : f \in anon[s] => f \in used /\ kind[f] = "anon" /\ who[f] = s
      /\ \A p \in Actors : f \in block[p] => f \in used /\ kind[f] = "block" /\ who[f] = p
      /\ f \in leaked => f \in used /\ kind[f] = "leaked"
  BY <1>1, <1>2 DEF Tagged
<1>4. CASE f \notin used
  <2>1. ASSUME NEW h PROVE h \notin Holders(f)
    BY <1>1, <1>3, <1>4, HoldersOf
  <2> QED
    BY <1>4, <2>1
<1>5. CASE f \in used
  <2>1. \/ kind[f] = "root" /\ who[f] \in Spaces /\ root[who[f]] = f
        \/ kind[f] = "tab" /\ who[f] \in Spaces /\ reg[f] \in Regions /\ tab[who[f]][reg[f]] = f
        \/ kind[f] = "owned" /\ who[f] \in Spaces /\ f \in owned[who[f]]
        \/ kind[f] = "stack" /\ who[f] \in Spaces /\ f \in stack[who[f]]
        \/ kind[f] = "anon" /\ who[f] \in Spaces /\ f \in anon[who[f]]
        \/ kind[f] = "block" /\ who[f] \in Actors /\ f \in block[who[f]]
        \/ kind[f] = "leaked" /\ f \in leaked
    BY <1>2, <1>5 DEF Tagged
  <2>2. \E h0 : \A h : h \in Holders(f) <=> h = h0
    <3>1. CASE kind[f] = "root" /\ who[f] \in Spaces /\ root[who[f]] = f
      <4>1. PICK h0 : h0 = <<"root", who[f]>>
        OBVIOUS
      <4>2. ASSUME NEW h PROVE h \in Holders(f) <=> h = h0
        BY <1>1, <1>3, <3>1, HoldersOf, <4>1
      <4> QED
        BY <4>2
    <3>2. CASE kind[f] = "tab" /\ who[f] \in Spaces /\ reg[f] \in Regions /\ tab[who[f]][reg[f]] = f
      <4>1. PICK h0 : h0 = <<"tab", who[f], reg[f]>>
        OBVIOUS
      <4>2. ASSUME NEW h PROVE h \in Holders(f) <=> h = h0
        BY <1>1, <1>3, <3>2, HoldersOf, <4>1
      <4> QED
        BY <4>2
    <3>3. CASE kind[f] = "owned" /\ who[f] \in Spaces /\ f \in owned[who[f]]
      <4>1. PICK h0 : h0 = <<"owned", who[f]>>
        OBVIOUS
      <4>2. ASSUME NEW h PROVE h \in Holders(f) <=> h = h0
        BY <1>1, <1>3, <3>3, HoldersOf, <4>1
      <4> QED
        BY <4>2
    <3>4. CASE kind[f] = "stack" /\ who[f] \in Spaces /\ f \in stack[who[f]]
      <4>1. PICK h0 : h0 = <<"stack", who[f]>>
        OBVIOUS
      <4>2. ASSUME NEW h PROVE h \in Holders(f) <=> h = h0
        BY <1>1, <1>3, <3>4, HoldersOf, <4>1
      <4> QED
        BY <4>2
    <3>5. CASE kind[f] = "anon" /\ who[f] \in Spaces /\ f \in anon[who[f]]
      <4>1. PICK h0 : h0 = <<"anon", who[f]>>
        OBVIOUS
      <4>2. ASSUME NEW h PROVE h \in Holders(f) <=> h = h0
        BY <1>1, <1>3, <3>5, HoldersOf, <4>1
      <4> QED
        BY <4>2
    <3>6. CASE kind[f] = "block" /\ who[f] \in Actors /\ f \in block[who[f]]
      <4>1. PICK h0 : h0 = <<"block", who[f]>>
        OBVIOUS
      <4>2. ASSUME NEW h PROVE h \in Holders(f) <=> h = h0
        BY <1>1, <1>3, <3>6, HoldersOf, <4>1
      <4> QED
        BY <4>2
    <3>7. CASE kind[f] = "leaked" /\ f \in leaked
      <4>1. PICK h0 : h0 = <<"leaked">>
        OBVIOUS
      <4>2. ASSUME NEW h PROVE h \in Holders(f) <=> h = h0
        BY <1>1, <1>3, <3>7, HoldersOf, <4>1
      <4> QED
        BY <4>2
    <3> QED
      BY <2>1, <3>1, <3>2, <3>3, <3>4, <3>5, <3>6, <3>7
  <2> HIDE DEF Holders
  <2> QED
    BY <1>5, <2>2
<1> QED
  BY <1>4, <1>5

\* Frames held by two spaces, or by a space and a table, are different frames.
LEMMA BackedIsOwn ==
    ASSUME IInv, NEW s \in Spaces, NEW f, Backed(s, f)
    PROVE  /\ f \in used
           /\ \A t \in Spaces : f \notin TableFrames(t)
           /\ \A t \in Spaces : Backed(t, f) => t = s
<1>1. TypeOK /\ None \notin Frames /\ None \notin Spaces
  BY AddressSpaceAssumption DEF IInv
<1>2. f \in Frames /\ f \in used
  BY <1>1, HeldIsUsed DEF IInv, Backed, TypeOK
<1>3. PICK kind, who, reg :
         Tagged(used, root, tab, owned, stack, anon, block, leaked, {}, kind, who, reg)
  BY DEF IInv, AccountInv, Booked
<1>4. /\ \A t \in Spaces : f \in owned[t] => kind[f] = "owned" /\ who[f] = t
      /\ \A t \in Spaces : f \in stack[t] => kind[f] = "stack" /\ who[f] = t
      /\ \A t \in Spaces : f \in anon[t] => kind[f] = "anon" /\ who[f] = t
      /\ \A p \in Actors : f \in block[p] => kind[f] = "block" /\ who[f] = p
      /\ \A t \in Spaces : root[t] = f => kind[f] = "root"
      /\ \A t \in Spaces, r \in Regions : tab[t][r] = f => kind[f] = "tab"
  BY <1>1, <1>2, <1>3 DEF Tagged
<1>5. kind[f] \in {"owned", "stack", "anon", "block"}
  BY <1>4 DEF Backed
<1>6. ASSUME NEW t \in Spaces PROVE f \notin TableFrames(t)
  <2>1. root[t] # f /\ \A r \in Regions : tab[t][r] # f
    BY <1>4, <1>5
  <2>2. DOMAIN tab[t] = Regions
    BY <1>1 DEF TypeOK
  <2> QED
    BY <2>1, <2>2 DEF TableFrames, Range
<1>7. ASSUME NEW t \in Spaces, Backed(t, f) PROVE t = s
  BY <1>4, <1>7 DEF Backed
<1> QED
  BY <1>2, <1>6, <1>7

LEMMA NotShared == IInv => Isolated
<1> SUFFICES ASSUME IInv, NEW s \in Spaces, NEW va \in Va \ stale[s], map[s][va] # None,
                    NEW f, f = map[s][va]
             PROVE  /\ f \in used
                    /\ \A t \in Spaces : f \notin TableFrames(t)
                    /\ \A t \in Spaces : \A v \in Va \ stale[t] : map[t][v] = f => t = s /\ v = va
  BY DEF Isolated
<1>1. Backed(s, f)
  BY DEF IInv, PageInv, MapOf
<1>2. ASSUME NEW t \in Spaces, NEW v \in Va \ stale[t], map[t][v] = f
      PROVE  t = s /\ v = va
  <2>1. Backed(t, f)
    BY <1>2 DEF IInv, PageInv, MapOf
  <2>2. t = s
    BY <1>1, <2>1, BackedIsOwn
  <2> QED
    BY <1>2, <2>2 DEF IInv, PageInv, MapOf
<1> QED
  BY <1>1, <1>2, BackedIsOwn

\* The state is of its type at every step of every system call.
THEOREM TypeCorrect == Spec => []TypeOK
<1>1. IInv => TypeOK
  BY DEF IInv
<1> QED
  BY <1>1, Inductive, PTL

\* Whichever allocation of brk, mmap, clone, execve or spawn fails and whatever
\* addresses mmap and munmap are given, a page in use has exactly one holder and a
\* free page has none: none is freed twice.  The tables of the kernel half are
\* held by nobody who would free them.
THEOREM PagesAccounted == Spec => []FramesAccounted
  BY Accounted, Inductive, PTL

\* vmm.c never maps one frame at two places of the user halves, nor a table or a
\* free frame, but for the pages a failed mmap left behind: as long as no system
\* call has changed a page of the kernel's own.
THEOREM PagesIsolated == Spec => []Isolated
  BY NotShared, Inductive, PTL

\* Below brk_current every page is mapped, unless the process unmapped it, also
\* in a child of process_clone.
THEOREM HeapIsMapped == Spec => []HeapMapped
<1>1. IInv => HeapMapped
  BY DEF IInv, ActorInv, HeapOf, HeapMapped, Actors
<1> QED
  BY <1>1, Inductive, PTL

=============================================================================
