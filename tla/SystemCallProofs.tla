-------------------------- MODULE SystemCallProofs --------------------------
(***************************************************************************)
(* Proofs about two system calls' components.                              *)
(*                                                                         *)
(* FileTable, for any number of processes, descriptors, files and          *)
(* directories of any length: all calls agree on which descriptors are     *)
(* open, and what a descriptor delivers is in order.                       *)
(*                                                                         *)
(* Execve, for any argument vectors and any well formed programs: every    *)
(* allocation is freed exactly once, the initial stack fits and its parts  *)
(* do not overlap, and the segments are in memory when the program starts. *)
(*                                                                         *)
(* Init, Next, Spec and vars are those of FileTable; ExecInit, ExecNext,   *)
(* ExecSpec and execVars those of Execve.  Neither uses the other.         *)
(***************************************************************************)
EXTENDS FileTable, Execve, WellFoundedInduction, FiniteSetTheorems, TLAPS

(* FileTable *)

Descriptors == [used : BOOLEAN, vnode : Nodes \cup {None}, offset : Nat]

TypeInv ==
    /\ fds \in [Procs -> [Fds -> Descriptors]]
    /\ live \subseteq Procs
    /\ got \in [Procs -> [Fds -> Seq(Nat)]]
    /\ start \in [Procs -> [Fds -> Nat]]

\* Beyond the console used and vnode say the same, and a process that has exited
\* has no open descriptor.
OpenInv ==
    \A p \in Procs, fd \in 3..(MaxFiles - 1) :
        /\ fds[p][fd].used <=> fds[p][fd].vnode # None
        /\ fds[p][fd].used => p \in live

\* Streams of descriptors are in order; a fault of the kernel changes none of them.
Streams ==
    \A p \in live, fd \in Fds : fds[p][fd].vnode # None =>
        /\ fds[p][fd].offset = start[p][fd] + Len(got[p][fd])
        /\ \A i \in DOMAIN got[p][fd] :
               /\ got[p][fd][i] = start[p][fd] + i - 1
               /\ got[p][fd][i] < Items[fds[p][fd].vnode]

IInv == TypeInv /\ OpenInv /\ Streams

-----------------------------------------------------------------------------
(* The operators *)

LEMMA SizeType == \A n : n \in Nodes => Size(n) \in Nat /\ Items[n] \in Nat
  BY FileTableAssumption DEF Size, Nodes

\* A read and a listing end where the file or the directory ends.
LEMMA ReadBounded ==
    ASSUME NEW n \in Files, NEW count \in Nat, NEW offset \in Nat
    PROVE  /\ TarfsRead(n, count, offset) \in Nat
           /\ ~Overruns(n, count, offset) /\ TarfsRead(n, count, offset) > 0 =>
                  offset + TarfsRead(n, count, offset) <= Items[n]
<1>1. Items[n] \in Nat /\ Size(n) = Items[n]
  BY FileTableAssumption DEF Size, Nodes
<1> DEFINE wraps == (offset + count) % Width > Size(n)
<1>2. TarfsRead(n, count, offset) = IF offset >= Size(n) THEN 0 ELSE IF wraps THEN Size(n) - offset ELSE count
  BY DEF TarfsRead
<1> HIDE DEF wraps
<1> QED
  BY <1>1, <1>2 DEF Overruns

LEMMA ListedBounded ==
    ASSUME NEW n \in Dirs, NEW room \in Nat, NEW offset \in Nat
    PROVE  /\ Listed(n, room, offset) \in Nat
           /\ Listed(n, room, offset) > 0 => offset + Listed(n, room, offset) <= Items[n]
<1>1. Items[n] \in Nat
  BY FileTableAssumption DEF Nodes
<1> QED
  BY <1>1 DEF Listed

\* The lowest free descriptor exists.
LEMMA LowestExists ==
    ASSUME NEW S \in SUBSET Nat, S # {}
    PROVE  \E n \in S : \A m \in S : n <= m
<1> DEFINE R == OpToRel(<, Nat)
<1>1. IsWellFoundedOn(R, Nat)
  BY NatLessThanWellFounded
<1>2. \A m, n \in Nat : m < n => <<m, n>> \in R
  BY DEF OpToRel
<1> HIDE DEF R
<1>3. PICK n \in S : \A m \in S : ~(<<m, n>> \in R)
  BY <1>1, WFMin
<1>4. ASSUME NEW m \in S PROVE n <= m
  <2>1. m \in Nat /\ n \in Nat
    OBVIOUS
  <2>2. ~(m < n)
    BY <1>2, <1>3, <2>1
  <2> QED
    BY <2>1, <2>2
<1> QED
  BY <1>4

\* The items that Deliver appends.
LEMMA Appended ==
    ASSUME NEW s \in Seq(Nat), NEW off \in Nat, NEW n \in Nat
    PROVE  LET t == s \o [i \in 1..n |-> off + i - 1] IN
           /\ t \in Seq(Nat) /\ Len(t) = Len(s) + n
           /\ \A i \in 1..Len(s) : t[i] = s[i]
           /\ \A i \in (Len(s) + 1)..(Len(s) + n) : t[i] = off + (i - Len(s)) - 1
<1> DEFINE e == [i \in 1..n |-> off + i - 1]
<1>1. e \in [1..n -> Nat]
  OBVIOUS
<1>2. e \in Seq(Nat) /\ Len(e) = n /\ \A i \in 1..n : e[i] = off + i - 1
  BY <1>1
<1> HIDE DEF e
<1>3. s \o e \in Seq(Nat) /\ Len(s \o e) = Len(s) + n /\ Len(s) \in Nat
  BY <1>2
<1>4. \A i \in 1..Len(s) : (s \o e)[i] = s[i]
  BY <1>2
<1>5. \A i \in (Len(s) + 1)..(Len(s) + n) : (s \o e)[i] = e[i - Len(s)] /\ i - Len(s) \in 1..n
  BY <1>2, <1>3
<1>6. \A i \in (Len(s) + 1)..(Len(s) + n) : (s \o e)[i] = off + (i - Len(s)) - 1
  BY <1>2, <1>5
<1> QED
  BY <1>3, <1>4, <1>6 DEF e

\* The total of writev over two buffers.
LEMMA SumOfTwo ==
    ASSUME NEW a \in [1..2 -> Int]
    PROVE  FoldSeq(+, 0, a) = a[1] + a[2]
<1> DEFINE Pick(s) == CHOOSE i \in s : TRUE
           Step(sum) == [s \in SUBSET DOMAIN a |-> IF s = {} THEN 0 ELSE a[Pick(s)] + sum[s \ {Pick(s)}]]
           Chosen == CHOOSE sum : sum = Step(sum)
           term(i, s) == IF i \in s THEN a[i] ELSE 0
           total == [s \in SUBSET DOMAIN a |-> term(1, s) + term(2, s)]
<1>1. FoldSeq(+, 0, a) = Chosen[DOMAIN a]
  BY DEF FoldSeq, FoldFunction, FoldFunctionOnSet, MapThenFoldSet
<1>2. DOMAIN a = {1, 2} /\ a[1] \in Int /\ a[2] \in Int
  OBVIOUS
<1>3. ASSUME NEW s \in SUBSET DOMAIN a, s # {}
      PROVE  Pick(s) \in s
  BY <1>3
<1>4. total = Step(total)
  <2>1. ASSUME NEW s \in SUBSET DOMAIN a
        PROVE  total[s] = IF s = {} THEN 0 ELSE a[Pick(s)] + total[s \ {Pick(s)}]
    <3>1. CASE s = {}
      BY <3>1
    <3>2. CASE s # {}
      <4>1. PICK x \in {1, 2} : x = Pick(s) /\ x \in s
        BY <1>2, <1>3, <2>1, <3>2
      <4> HIDE DEF Pick
      <4>2. s \ {x} \in SUBSET DOMAIN a
        BY <2>1
      <4>3. total[s] = term(1, s) + term(2, s) /\ total[s \ {x}] = term(1, s \ {x}) + term(2, s \ {x})
        BY <2>1, <4>2
      <4>4. total[s] = a[x] + total[s \ {x}]
        BY <1>2, <4>1, <4>3
      <4> QED
        BY <3>2, <4>1, <4>4
    <3> QED
      BY <3>1, <3>2
  <2> HIDE DEF Pick, term
  <2> QED
    BY <2>1
<1>5. Chosen = Step(Chosen)
  <2> HIDE DEF Step, total
  <2>1. \E sum : sum = Step(sum)
    BY <1>4
  <2> QED
    BY <2>1
<1>6. ASSUME NEW s \in SUBSET DOMAIN a
      PROVE  Chosen[s] = IF s = {} THEN 0 ELSE a[Pick(s)] + Chosen[s \ {Pick(s)}]
  <2> HIDE DEF Chosen, Pick
  <2> QED
    BY <1>5
<1> HIDE DEF Chosen
<1>7. Chosen[{}] = 0
  BY <1>6
<1>8. \A i \in {1, 2} : Chosen[{i}] = a[i]
  <2> SUFFICES ASSUME NEW i \in {1, 2} PROVE Chosen[{i}] = a[i]
    OBVIOUS
  <2>1. Pick({i}) = i /\ {i} \ {Pick({i})} = {}
    OBVIOUS
  <2>2. Chosen[{i}] = a[Pick({i})] + Chosen[{i} \ {Pick({i})}]
    BY <1>2, <1>6
  <2> HIDE DEF Pick
  <2>3. Chosen[{i}] = a[i] + Chosen[{}]
    BY <2>1, <2>2
  <2>4. a[i] \in Int
    BY <1>2
  <2> QED
    BY <1>7, <2>3, <2>4
<1>9. Chosen[{1, 2}] = a[1] + a[2]
  <2>1. PICK x \in {1, 2} : x = Pick({1, 2})
    OBVIOUS
  <2>2. Chosen[{1, 2}] = a[Pick({1, 2})] + Chosen[{1, 2} \ {Pick({1, 2})}]
    BY <1>2, <1>6
  <2> HIDE DEF Pick
  <2>3. Chosen[{1, 2}] = a[x] + Chosen[{1, 2} \ {x}]
    BY <2>1, <2>2
  <2>4. CASE x = 1
    <3>1. {1, 2} \ {x} = {2}
      BY <2>4
    <3> QED
      BY <1>8, <2>3, <2>4, <3>1
  <2>5. CASE x = 2
    <3>1. {1, 2} \ {x} = {1}
      BY <2>5
    <3>2. Chosen[{1, 2}] = a[2] + Chosen[{1}]
      BY <2>3, <2>5, <3>1
    <3>3. Chosen[{1}] = a[1]
      BY <1>8
    <3> QED
      BY <1>2, <3>2, <3>3
  <2> QED
    BY <2>1, <2>4, <2>5
<1> QED
  BY <1>1, <1>2, <1>9

-----------------------------------------------------------------------------
(* The steps *)

LEMMA UpdateOne ==
    ASSUME NEW D, NEW f \in [Procs -> [Fds -> D]], NEW p \in Procs, NEW fd \in Fds, NEW d \in D
    PROVE  LET g == [f EXCEPT ![p][fd] = d] IN
           /\ g \in [Procs -> [Fds -> D]] /\ g[p][fd] = d
           /\ \A q \in Procs, h \in Fds : q # p \/ h # fd => g[q][h] = f[q][h]
  OBVIOUS

LEMMA UpdateAll ==
    ASSUME NEW D, NEW f \in [Procs -> D], NEW p \in Procs, NEW d \in D
    PROVE  LET g == [f EXCEPT ![p] = d] IN
           g \in [Procs -> D] /\ g[p] = d /\ \A q \in Procs : q # p => g[q] = f[q]
  OBVIOUS

\* What a descriptor that delivered s from offset b on must look like.
InOrder(d, s, b) ==
    d.vnode # None =>
        /\ d.offset = b + Len(s)
        /\ \A i \in DOMAIN s : s[i] = b + i - 1 /\ s[i] < Items[d.vnode]

\* One descriptor of a process changes.
LEMMA OneChanges ==
    ASSUME IInv, NEW p \in live, NEW fd \in Fds,
           NEW d \in Descriptors, NEW s \in Seq(Nat), NEW b \in Nat,
           fds' = [fds EXCEPT ![p][fd] = d],
           got' = [got EXCEPT ![p][fd] = s],
           start' = [start EXCEPT ![p][fd] = b],
           UNCHANGED live,
           fd >= 3 => (d.used <=> d.vnode # None),
           InOrder(d, s, b)
    PROVE  IInv'
<1>0. p \in Procs
  BY DEF IInv, TypeInv
<1>1. /\ fds' \in [Procs -> [Fds -> Descriptors]] /\ fds'[p][fd] = d
      /\ \A q \in Procs, h \in Fds : q # p \/ h # fd => fds'[q][h] = fds[q][h]
  <2>1. fds \in [Procs -> [Fds -> Descriptors]]
    BY DEF IInv, TypeInv
  <2> QED
    BY <1>0, <2>1, UpdateOne
<1>2. /\ got' \in [Procs -> [Fds -> Seq(Nat)]] /\ got'[p][fd] = s
      /\ \A q \in Procs, h \in Fds : q # p \/ h # fd => got'[q][h] = got[q][h]
  <2>1. got \in [Procs -> [Fds -> Seq(Nat)]]
    BY DEF IInv, TypeInv
  <2> QED
    BY <1>0, <2>1, UpdateOne
<1>3. /\ start' \in [Procs -> [Fds -> Nat]] /\ start'[p][fd] = b
      /\ \A q \in Procs, h \in Fds : q # p \/ h # fd => start'[q][h] = start[q][h]
  <2>1. start \in [Procs -> [Fds -> Nat]]
    BY DEF IInv, TypeInv
  <2> QED
    BY <1>0, <2>1, UpdateOne
<1>4. TypeInv'
  BY <1>1, <1>2, <1>3 DEF IInv, TypeInv
<1>5. OpenInv'
  <2> SUFFICES ASSUME NEW q \in Procs, NEW h \in 3..(MaxFiles - 1)
               PROVE  /\ fds'[q][h].used <=> fds'[q][h].vnode # None
                      /\ fds'[q][h].used => q \in live'
    BY DEF OpenInv
  <2>1. h \in Fds /\ h >= 3
    BY FileTableAssumption DEF Fds
  <2>2. CASE q = p /\ h = fd
    BY <1>1, <2>1, <2>2
  <2>3. CASE q # p \/ h # fd
    BY <1>1, <2>1, <2>3 DEF IInv, OpenInv
  <2> QED
    BY <2>2, <2>3
<1>6. Streams'
  <2> SUFFICES ASSUME NEW q \in live, NEW h \in Fds
               PROVE  InOrder(fds'[q][h], got'[q][h], start'[q][h])
    BY DEF Streams, InOrder
  <2>1. q \in Procs
    BY DEF IInv, TypeInv
  <2>2. CASE q = p /\ h = fd
    BY <1>1, <1>2, <1>3, <2>2
  <2>3. CASE q # p \/ h # fd
    <3>1. InOrder(fds[q][h], got[q][h], start[q][h])
      BY DEF IInv, Streams, InOrder
    <3> QED
      BY <1>1, <1>2, <1>3, <2>1, <2>3, <3>1
  <2> QED
    BY <2>2, <2>3
<1> QED
  BY <1>4, <1>5, <1>6 DEF IInv

\* The table of a process is replaced: by that of another one, or by one in which
\* nothing is open beyond the console.
LEMMA TableChanges ==
    ASSUME IInv, NEW p \in Procs, live' \in {live \cup {p}, live \ {p}},
           NEW t \in [Fds -> Descriptors], NEW g \in [Fds -> Seq(Nat)], NEW b \in [Fds -> Nat],
           fds' = [fds EXCEPT ![p] = t],
           got' = [got EXCEPT ![p] = g],
           start' = [start EXCEPT ![p] = b],
           \A fd \in Fds : fd >= 3 => (t[fd].used <=> t[fd].vnode # None) /\ (t[fd].used => p \in live'),
           \A fd \in Fds : InOrder(t[fd], g[fd], b[fd])
    PROVE  IInv'
<1>1. /\ fds' \in [Procs -> [Fds -> Descriptors]] /\ fds'[p] = t
      /\ \A q \in Procs : q # p => fds'[q] = fds[q]
  <2>1. fds \in [Procs -> [Fds -> Descriptors]]
    BY DEF IInv, TypeInv
  <2> QED
    BY <2>1, UpdateAll, Zenon
<1>2. /\ got' \in [Procs -> [Fds -> Seq(Nat)]] /\ got'[p] = g
      /\ \A q \in Procs : q # p => got'[q] = got[q]
  <2>1. got \in [Procs -> [Fds -> Seq(Nat)]]
    BY DEF IInv, TypeInv
  <2> QED
    BY <2>1, UpdateAll, Zenon
<1>3. /\ start' \in [Procs -> [Fds -> Nat]] /\ start'[p] = b
      /\ \A q \in Procs : q # p => start'[q] = start[q]
  <2>1. start \in [Procs -> [Fds -> Nat]]
    BY DEF IInv, TypeInv
  <2> QED
    BY <2>1, UpdateAll, Zenon
<1>4. live' \subseteq Procs /\ \A q \in Procs : q # p => (q \in live' <=> q \in live)
  BY DEF IInv, TypeInv
<1>5. TypeInv'
  BY <1>1, <1>2, <1>3, <1>4 DEF TypeInv
<1>6. OpenInv'
  <2> SUFFICES ASSUME NEW q \in Procs, NEW h \in 3..(MaxFiles - 1)
               PROVE  /\ fds'[q][h].used <=> fds'[q][h].vnode # None
                      /\ fds'[q][h].used => q \in live'
    BY DEF OpenInv
  <2>1. h \in Fds /\ h >= 3
    BY FileTableAssumption DEF Fds
  <2>2. CASE q = p
    <3>1. fds'[q][h] = t[h]
      BY <1>1, <2>2
    <3>2. (t[h].used <=> t[h].vnode # None) /\ (t[h].used => p \in live')
      BY <2>1, Zenon
    <3> QED
      BY <2>2, <3>1, <3>2, Zenon
  <2>3. CASE q # p
    BY <1>1, <1>4, <2>1, <2>3 DEF IInv, OpenInv
  <2> QED
    BY <2>2, <2>3
<1>7. Streams'
  <2> SUFFICES ASSUME NEW q \in live', NEW h \in Fds
               PROVE  InOrder(fds'[q][h], got'[q][h], start'[q][h])
    BY DEF Streams, InOrder
  <2>1. q \in Procs
    BY <1>4
  <2>2. CASE q = p
    BY <1>1, <1>2, <1>3, <2>2
  <2>3. CASE q # p
    <3>1. InOrder(fds[q][h], got[q][h], start[q][h])
      BY <1>4, <2>1, <2>3 DEF IInv, Streams, InOrder
    <3> QED
      BY <1>1, <1>2, <1>3, <2>1, <2>3, <3>1
  <2> QED
    BY <2>2, <2>3
<1> QED
  BY <1>5, <1>6, <1>7 DEF IInv

\* A type for what the calls store.
LEMMA DescriptorType ==
    /\ Closed \in Descriptors /\ ~Closed.used /\ Closed.vnode = None
    /\ \A n \in Nodes, o \in Nat : [used |-> TRUE, vnode |-> n, offset |-> o] \in Descriptors
    /\ \A d \in Descriptors, o \in Nat :
          /\ [d EXCEPT !.offset = o] \in Descriptors
          /\ [d EXCEPT !.offset = o].used = d.used /\ [d EXCEPT !.offset = o].vnode = d.vnode
          /\ [d EXCEPT !.offset = o].offset = o
  BY DEF Descriptors, Closed

LEMMA ProcessType ==
    ASSUME TypeInv, NEW p \in live, NEW fd \in Fds
    PROVE  /\ p \in Procs /\ fds[p][fd] \in Descriptors /\ fds[p][fd].offset \in Nat
           /\ fds[p][fd].vnode \in Nodes \cup {None}
           /\ got[p][fd] \in Seq(Nat) /\ start[p][fd] \in Nat
  BY DEF TypeInv, Descriptors

LEMMA OpenStep ==
    ASSUME IInv, NEW p \in Procs, NEW n \in Nodes, NEW flags, Open(p, n, flags)
    PROVE  IInv'
<1> DEFINE fd == CHOOSE fd \in FreeFds(p) : \A g \in FreeFds(p) : fd <= g
           o == IF "APPEND" \in flags THEN Size(n) ELSE 0
           d == [used |-> TRUE, vnode |-> n, offset |-> o]
<1>1. /\ p \in live /\ FreeFds(p) # {} /\ fds' = [fds EXCEPT ![p][fd] = d] /\ Restart(p, fd, o)
  BY DEF Open
<1>2. fd \in FreeFds(p)
  <2>1. FreeFds(p) \in SUBSET Nat
    BY FileTableAssumption DEF FreeFds
  <2>2. \E x \in FreeFds(p) : \A g \in FreeFds(p) : x <= g
    BY <1>1, <2>1, LowestExists
  <2> QED
    BY <2>2
<1> HIDE DEF fd
<1>3. fd \in Fds
  BY <1>2, FileTableAssumption DEF FreeFds, Fds
<1>4. o \in Nat /\ d \in Descriptors
  BY SizeType, DescriptorType
<1>5. d.used /\ d.vnode # None /\ d.offset = o
  BY FileTableAssumption
<1>6. <<>> \in Seq(Nat) /\ Len(<<>>) = 0 /\ DOMAIN <<>> = {}
  OBVIOUS
<1>7. InOrder(d, <<>>, o)
  BY <1>4, <1>5, <1>6 DEF InOrder
<1> HIDE DEF d, o
<1> QED
  BY <1>1, <1>3, <1>4, <1>5, <1>6, <1>7, OneChanges DEF Restart

LEMMA CloseStep ==
    ASSUME IInv, NEW p \in Procs, NEW fd \in Fds, Close(p, fd)
    PROVE  IInv'
<1>1. InOrder(Closed, <<>>, 0)
  BY DescriptorType DEF InOrder
<1>2. <<>> \in Seq(Nat) /\ 0 \in Nat
  OBVIOUS
<1>3. Closed \in Descriptors /\ (Closed.used <=> Closed.vnode # None)
  BY DescriptorType
<1>4. /\ p \in live /\ fds' = [fds EXCEPT ![p][fd] = Closed]
      /\ got' = [got EXCEPT ![p][fd] = <<>>] /\ start' = [start EXCEPT ![p][fd] = 0] /\ UNCHANGED live
  BY DEF Close, Restart
<1> QED
  BY <1>1, <1>2, <1>3, <1>4, OneChanges

\* Both readers deliver from the offset on, and not beyond the end.
LEMMA DeliverStep ==
    ASSUME IInv, NEW p \in live, NEW fd \in Fds, NEW n \in Nat, Deliver(p, fd, n),
           n > 0 => fds[p][fd].offset + n <= Items[fds[p][fd].vnode]
    PROVE  IInv'
<1> DEFINE off == fds[p][fd].offset
           d == [fds[p][fd] EXCEPT !.offset = off + n]
           s == got[p][fd] \o [i \in 1..n |-> off + i - 1]
           b == start[p][fd]
<1>1. /\ p \in Procs /\ fds[p][fd] \in Descriptors /\ off \in Nat
      /\ fds[p][fd].vnode \in Nodes \cup {None}
      /\ got[p][fd] \in Seq(Nat) /\ b \in Nat
  BY ProcessType DEF IInv
<1>2. fds' = [fds EXCEPT ![p][fd] = d]
  BY DEF Deliver
<1>3. got' = [got EXCEPT ![p][fd] = s]
  BY DEF Deliver
<1>4. start' = [start EXCEPT ![p][fd] = b] /\ UNCHANGED live
  <2>1. start \in [Procs -> [Fds -> Nat]] /\ UNCHANGED <<start, live>>
    BY DEF IInv, TypeInv, Deliver
  <2> QED
    BY <1>1, <2>1
<1>5. d \in Descriptors /\ d.used = fds[p][fd].used /\ d.vnode = fds[p][fd].vnode /\ d.offset = off + n
  BY <1>1 DEF Descriptors
<1>6. /\ s \in Seq(Nat) /\ Len(s) = Len(got[p][fd]) + n
      /\ \A i \in 1..Len(got[p][fd]) : s[i] = got[p][fd][i]
      /\ \A i \in (Len(got[p][fd]) + 1)..(Len(got[p][fd]) + n) : s[i] = off + (i - Len(got[p][fd])) - 1
  BY <1>1, Appended
<1>7. InOrder(fds[p][fd], got[p][fd], b)
  BY DEF IInv, Streams, InOrder
<1>8. fd >= 3 => (d.used <=> d.vnode # None)
  <2>1. fd >= 3 => fd \in 3..(MaxFiles - 1)
    BY FileTableAssumption DEF Fds
  <2>2. fd >= 3 => (fds[p][fd].used <=> fds[p][fd].vnode # None)
    BY <1>1, <2>1 DEF IInv, OpenInv
  <2> HIDE DEF d
  <2> QED
    BY <1>5, <2>2
<1> HIDE DEF d, s
<1>9. InOrder(d, s, b)
  <2> SUFFICES ASSUME d.vnode # None
               PROVE  /\ d.offset = b + Len(s)
                      /\ \A i \in DOMAIN s : s[i] = b + i - 1 /\ s[i] < Items[d.vnode]
    BY DEF InOrder
  <2> DEFINE k == Len(got[p][fd])
             m == Items[d.vnode]
  <2>1. k \in Nat /\ DOMAIN got[p][fd] = 1..k
    BY <1>1
  <2>2. off = b + k /\ \A i \in 1..k : got[p][fd][i] = b + i - 1 /\ got[p][fd][i] < m
    BY <1>5, <1>7, <2>1 DEF InOrder
  <2>3. m \in Nat /\ (n > 0 => off + n <= m)
    BY <1>1, <1>5, SizeType
  <2>4. DOMAIN s = 1..(k + n) /\ Len(s) = k + n
    BY <1>6
  <2> HIDE DEF k, m
  <2>5. ASSUME NEW i \in 1..k PROVE s[i] = b + i - 1 /\ s[i] < m
    BY <1>6, <2>2, <2>5 DEF k
  <2>6. ASSUME NEW i \in (k + 1)..(k + n) PROVE s[i] = b + i - 1 /\ s[i] < m
    <3>1. s[i] = off + (i - k) - 1
      BY <1>6, <2>6 DEF k
    <3>2. n > 0
      BY <2>1, <2>6
    <3>3. i \in Int /\ i >= k + 1 /\ i <= k + n /\ b \in Nat /\ k \in Nat /\ m \in Nat
      BY <1>1, <2>1, <2>3, <2>6
    <3>4. s[i] = b + i - 1
      BY <2>2, <3>1, <3>3
    <3>5. b + k + n <= m
      BY <2>2, <2>3, <3>2
    <3> QED
      BY <3>3, <3>4, <3>5
  <2>7. \A i \in 1..(k + n) : i \in 1..k \/ i \in (k + 1)..(k + n)
    BY <2>1
  <2>8. d.offset = b + Len(s)
    BY <1>1, <1>5, <2>1, <2>2, <2>4
  <2> QED
    BY <2>4, <2>5, <2>6, <2>7, <2>8 DEF m
<1> QED
  BY <1>1, <1>2, <1>3, <1>4, <1>5, <1>6, <1>8, <1>9, OneChanges

\* A fault changes no descriptor.
LEMMA FaultStep ==
    ASSUME IInv, UNCHANGED <<fds, live, got, start>>
    PROVE  IInv'
  BY DEF IInv, TypeInv, OpenInv, Streams

LEMMA ReadStep ==
    ASSUME IInv, NEW p \in Procs, NEW fd \in Fds, NEW c \in Counts,
           Read(p, fd, c) \/ Getdents(p, fd, c), ~Stray(p, fd), ~Fault
    PROVE  IInv'
<1>0. p \in live /\ c \in Nat
  BY FileTableAssumption DEF Read, Readable, Getdents
<1>1. fds[p][fd].offset \in Nat
  BY <1>0, ProcessType DEF IInv
<1>2. CASE Read(p, fd, c)
  <2> DEFINE n == TarfsRead(fds[p][fd].vnode, c, fds[p][fd].offset)
  <2>1. /\ fds[p][fd].vnode \in Files /\ Deliver(p, fd, n)
        /\ ~Overruns(fds[p][fd].vnode, c, fds[p][fd].offset)
    BY <1>2 DEF Read, Readable
  <2>2. n \in Nat /\ (n > 0 => fds[p][fd].offset + n <= Items[fds[p][fd].vnode])
    BY <1>0, <1>1, <2>1, ReadBounded
  <2> QED
    BY <1>0, <2>1, <2>2, DeliverStep
<1>3. CASE Getdents(p, fd, c)
  <2> DEFINE n == Listed(fds[p][fd].vnode, c, fds[p][fd].offset)
  <2>1. fds[p][fd].vnode \in Dirs /\ Deliver(p, fd, n)
    BY <1>3 DEF Getdents
  <2>2. n \in Nat /\ (n > 0 => fds[p][fd].offset + n <= Items[fds[p][fd].vnode])
    BY <1>0, <1>1, <2>1, ListedBounded
  <2> QED
    BY <1>0, <2>1, <2>2, DeliverStep
<1> QED
  BY <1>2, <1>3

\* The calls on a descriptor outside the table change none in it.
LEMMA StrayStep ==
    ASSUME IInv, NEW p \in Procs, NEW fd \in Fds \cup Outside, NEW c \in Counts,
           Read(p, fd, c) \/ Getdents(p, fd, c) \/ Mmap(p, fd)
    PROVE  IInv'
<1>1. CASE Stray(p, fd) \/ Fault
  BY <1>1, FaultStep DEF Stray, Fault
<1>2. CASE ~Stray(p, fd) /\ ~Fault
  <2>1. fd \in Fds /\ ~Mmap(p, fd)
    BY <1>2 DEF Read, Getdents, Mmap, Readable, Found, InTable
  <2> QED
    BY <1>2, <2>1, ReadStep
<1> QED
  BY <1>1, <1>2

LEMMA LseekStep ==
    ASSUME IInv, NEW p \in Procs, NEW fd \in Fds, NEW seek \in Seeks, NEW whence \in {"SET", "CUR", "END"},
           Lseek(p, fd, seek, whence)
    PROVE  IInv'
<1>0. p \in live /\ seek \in Int
  BY FileTableAssumption DEF Lseek
<1>1. PICK o \in Nat : fds' = [fds EXCEPT ![p][fd].offset = o] /\ Restart(p, fd, o)
  <2>1. fds[p][fd].offset \in Nat /\ fds[p][fd].vnode \in Nodes
    BY <1>0, ProcessType DEF IInv, Lseek, Found
  <2>2. Size(fds[p][fd].vnode) \in Nat
    BY <2>1, SizeType
  <2> DEFINE base == CASE whence = "SET" -> 0
                     [] whence = "CUR" -> fds[p][fd].offset
                     [] whence = "END" -> Size(fds[p][fd].vnode)
  <2>3. /\ base + seek >= 0 /\ fds' = [fds EXCEPT ![p][fd].offset = base + seek]
        /\ Restart(p, fd, base + seek)
    BY DEF Lseek
  <2>4. base \in Nat
    BY <2>1, <2>2
  <2> HIDE DEF base
  <2>5. base + seek \in Nat
    BY <1>0, <2>3, <2>4
  <2> QED
    BY <2>3, <2>5
<1> DEFINE d == [fds[p][fd] EXCEPT !.offset = o]
<1>2. fds' = [fds EXCEPT ![p][fd] = d]
  BY <1>1
<1>3. d \in Descriptors /\ d.used = fds[p][fd].used /\ d.vnode = fds[p][fd].vnode /\ d.offset = o
  BY <1>0, ProcessType, DescriptorType DEF IInv
<1>4. fd >= 3 => (d.used <=> d.vnode # None)
  <2>1. fd >= 3 => fd \in 3..(MaxFiles - 1)
    BY FileTableAssumption DEF Fds
  <2>2. fd >= 3 => (fds[p][fd].used <=> fds[p][fd].vnode # None)
    BY <2>1 DEF IInv, OpenInv
  <2> HIDE DEF d
  <2> QED
    BY <1>3, <2>2
<1> HIDE DEF d
<1>5. InOrder(d, <<>>, o)
  BY <1>3 DEF InOrder
<1>6. <<>> \in Seq(Nat)
  OBVIOUS
<1>7. got' = [got EXCEPT ![p][fd] = <<>>] /\ start' = [start EXCEPT ![p][fd] = o] /\ UNCHANGED live
  BY <1>1 DEF Restart
<1> QED
  BY <1>0, <1>2, <1>3, <1>4, <1>5, <1>6, <1>7, OneChanges

LEMMA FreshType ==
    /\ Fresh \in [Fds -> Descriptors]
    /\ \A fd \in Fds : Fresh[fd].vnode = None /\ (fd >= 3 => ~Fresh[fd].used)
<1>1. ASSUME NEW fd \in Fds
      PROVE  Fresh[fd] \in Descriptors /\ Fresh[fd].vnode = None /\ (fd >= 3 => ~Fresh[fd].used)
  <2>1. Fresh[fd] = [Closed EXCEPT !.used = fd \in 0..2]
    BY DEF Fresh
  <2>2. (fd \in 0..2) \in BOOLEAN
    OBVIOUS
  <2>3. PICK b \in BOOLEAN : b = (fd \in 0..2)
    BY <2>2
  <2>4. Fresh[fd] = [Closed EXCEPT !.used = b]
    BY <2>1, <2>3
  <2>5. Fresh[fd] \in Descriptors /\ Fresh[fd].vnode = None /\ Fresh[fd].used = b
    BY <2>4 DEF Closed, Descriptors
  <2>6. fd >= 3 => ~b
    <3>1. fd >= 3 => fd \notin 0..2
      BY FileTableAssumption DEF Fds
    <3> QED
      BY <2>3, <3>1
  <2> QED
    BY <2>5, <2>6
<1>2. Fresh \in [Fds -> Descriptors]
  BY <1>1 DEF Fresh
<1> QED
  BY <1>1, <1>2

\* The child continues where its parent stands.
LEMMA ForkStep ==
    ASSUME IInv, NEW p \in Procs, NEW q \in Procs, Fork(p, q)
    PROVE  IInv'
<1>1. /\ p \in live /\ live' = live \cup {q} /\ q \in live'
      /\ fds' = [fds EXCEPT ![q] = fds[p]] /\ got' = [got EXCEPT ![q] = got[p]]
      /\ start' = [start EXCEPT ![q] = start[p]]
  BY DEF Fork
<1>2. fds[p] \in [Fds -> Descriptors] /\ got[p] \in [Fds -> Seq(Nat)] /\ start[p] \in [Fds -> Nat]
  BY DEF IInv, TypeInv
<1>3. ASSUME NEW fd \in Fds, fd >= 3
      PROVE  (fds[p][fd].used <=> fds[p][fd].vnode # None) /\ (fds[p][fd].used => q \in live')
  <2>1. fd \in 3..(MaxFiles - 1)
    BY <1>3, FileTableAssumption DEF Fds
  <2> QED
    BY <1>1, <2>1 DEF IInv, OpenInv
<1>4. \A fd \in Fds : InOrder(fds[p][fd], got[p][fd], start[p][fd])
  BY <1>1 DEF IInv, Streams, InOrder
<1> QED
  BY <1>1, <1>2, <1>3, <1>4, TableChanges

LEMMA SpawnStep ==
    ASSUME IInv, NEW p \in Procs, NEW q \in Procs, Spawn(p, q)
    PROVE  IInv'
<1> DEFINE g == [fd \in Fds |-> <<>>]
           b == [fd \in Fds |-> 0]
<1>1. /\ live' = live \cup {q} /\ fds' = [fds EXCEPT ![q] = Fresh] /\ got' = [got EXCEPT ![q] = g]
      /\ start' = [start EXCEPT ![q] = b]
  BY DEF Spawn
<1>2. g \in [Fds -> Seq(Nat)] /\ b \in [Fds -> Nat]
  OBVIOUS
<1> HIDE DEF g, b
<1>3. \A fd \in Fds : fd >= 3 =>
         (Fresh[fd].used <=> Fresh[fd].vnode # None) /\ (Fresh[fd].used => q \in live')
  BY FreshType
<1>4. \A fd \in Fds : InOrder(Fresh[fd], g[fd], b[fd])
  BY FreshType DEF InOrder
<1>5. Fresh \in [Fds -> Descriptors]
  BY FreshType
<1> QED
  BY <1>1, <1>2, <1>3, <1>4, <1>5, TableChanges

\* The offsets that process_terminate leaves belong to no node.
LEMMA ExitStep ==
    ASSUME IInv, NEW p \in Procs, Exit(p)
    PROVE  IInv'
<1> DEFINE t == [fd \in Fds |-> [Closed EXCEPT !.offset = fds[p][fd].offset]]
<1>1. live' = live \ {p} /\ fds' = [fds EXCEPT ![p] = t] /\ UNCHANGED <<got, start>>
  BY DEF Exit
<1>2. got[p] \in [Fds -> Seq(Nat)] /\ start[p] \in [Fds -> Nat] /\ fds[p] \in [Fds -> Descriptors]
  BY DEF IInv, TypeInv
<1>3. got' = [got EXCEPT ![p] = got[p]] /\ start' = [start EXCEPT ![p] = start[p]]
  BY <1>1 DEF IInv, TypeInv
<1>4. \A fd \in Fds : t[fd] \in Descriptors /\ ~t[fd].used /\ t[fd].vnode = None
  BY <1>2 DEF Descriptors, Closed
<1>5. t \in [Fds -> Descriptors]
  BY <1>4
<1> HIDE DEF t
<1>6. \A fd \in Fds : InOrder(t[fd], got[p][fd], start[p][fd])
  BY <1>4 DEF InOrder
<1>7. \A fd \in Fds : fd >= 3 => (t[fd].used <=> t[fd].vnode # None) /\ (t[fd].used => p \in live')
  BY <1>4
<1> QED
  BY <1>1, <1>2, <1>3, <1>5, <1>6, <1>7, TableChanges

-----------------------------------------------------------------------------
(* The specification *)

LEMMA InitIInv == Init => IInv
<1> SUFFICES ASSUME Init PROVE IInv
  OBVIOUS
<1> USE FileTableAssumption
<1>1. Closed \in Descriptors /\ ~Closed.used /\ Closed.vnode = None
  BY DescriptorType
<1>2. \A p \in Procs : fds[p] \in [Fds -> Descriptors] /\
         \A fd \in Fds : fds[p][fd].vnode = None /\ (fd >= 3 => ~fds[p][fd].used)
  <2> SUFFICES ASSUME NEW p \in Procs
               PROVE  /\ fds[p] \in [Fds -> Descriptors]
                      /\ \A fd \in Fds : fds[p][fd].vnode = None /\ (fd >= 3 => ~fds[p][fd].used)
    OBVIOUS
  <2>1. CASE p = Root
    <3>1. fds[p] = Fresh
      BY <2>1 DEF Init
    <3> QED
      BY <3>1, FreshType
  <2>2. CASE p # Root
    <3>1. fds[p] = [fd \in Fds |-> Closed]
      BY <2>2 DEF Init
    <3> QED
      BY <1>1, <3>1
  <2> QED
    BY <2>1, <2>2
<1>3. TypeInv
  <2>1. fds \in [Procs -> [Fds -> Descriptors]]
    BY <1>2 DEF Init
  <2>2. live \subseteq Procs /\ got \in [Procs -> [Fds -> Seq(Nat)]] /\ start \in [Procs -> [Fds -> Nat]]
    BY DEF Init
  <2> QED
    BY <2>1, <2>2 DEF TypeInv
<1>4. OpenInv
  <2>1. \A fd \in 3..(MaxFiles - 1) : fd \in Fds /\ fd >= 3
    BY DEF Fds
  <2> QED
    BY <1>2, <2>1 DEF OpenInv
<1>5. Streams
  BY <1>2, <1>3 DEF Streams, TypeInv
<1> QED
  BY <1>3, <1>4, <1>5 DEF IInv

LEMMA NextIInv == IInv /\ [Next]_vars => IInv'
<1> SUFFICES ASSUME IInv, [Next]_vars PROVE IInv'
  OBVIOUS
<1>1. ASSUME UNCHANGED vars PROVE IInv'
  BY <1>1 DEF vars, IInv, TypeInv, OpenInv, Streams
<1>2. ASSUME CallNext PROVE IInv'
  <2>1. PICK p \in Procs :
           \/ \E n \in Nodes, flags \in SUBSET {"APPEND", "DIRECTORY", "CREAT", "EXCL"} : Open(p, n, flags)
           \/ \E fd \in Fds \cup Outside :
                  \/ Mmap(p, fd)
                  \/ \E c \in Counts : Read(p, fd, c) \/ Getdents(p, fd, c)
           \/ \E fd \in Fds :
                  \/ Close(p, fd)
                  \/ \E c \in Counts, offset \in 0..MaxOffset : Pread(p, fd, c, offset)
                  \/ \E s \in Seeks, whence \in {"SET", "CUR", "END"} : Lseek(p, fd, s, whence)
           \/ \E q \in Procs : Fork(p, q) \/ Spawn(p, q)
           \/ Exit(p)
    BY <1>2 DEF CallNext
  <2>2. ASSUME NEW c, NEW fd, NEW offset, Pread(p, fd, c, offset) PROVE IInv'
    BY <1>1, <2>2, FaultStep DEF Pread, Fault
  <2>3. ASSUME NEW fd, Mmap(p, fd) PROVE IInv'
    BY <2>3, FaultStep DEF Mmap, Stray
  <2> QED
    BY <2>1, <2>2, <2>3, OpenStep, CloseStep, StrayStep, LseekStep, ForkStep, SpawnStep, ExitStep
<1> QED
  BY <1>1, <1>2 DEF Next

LEMMA Invariance == Spec => []IInv
  BY InitIInv, NextIInv, PTL DEF Spec

\* What read, getdents64 and lseek leave in the offset of a descriptor, also in a
\* child after process_clone: the bytes of a file and the entries of a directory
\* are delivered one after the other, none twice and none skipped
\* (exec/syscalls/linux/io.c, common.c, fs/tarfs.c).
THEOREM StreamsStayInOrder == Spec => []StreamInOrder
<1>1. IInv => StreamInOrder
  BY DEF IInv, Streams, StreamInOrder
<1> QED
  BY <1>1, Invariance, PTL

\* The calls of exec/syscalls/linux, each with its own test of used and of vnode,
\* have one opinion on which descriptors are open, what is behind them and where
\* it ends, for live and for exited processes.
THEOREM AllCallsAgree == Spec => []CallsAgree
<1>1. IInv => CallsAgree
  <2> SUFFICES ASSUME IInv, NEW p \in Procs, NEW fd \in 3..(MaxFiles - 1) \cup Outside
               PROVE  LET open == p \in live /\ InTable(p, fd)
                          n == fds[p][fd].vnode
                          data == TarfsRead(n, 1, fds[p][fd].offset) > 0
                      IN
                      /\ open <=> "OUT" \in Poll(p, fd)
                      /\ open <=> fd \in Pselect6(p, Fds \cup Outside, MaxFiles)
                      /\ open <=> Fstat(p, fd).type # "EBADF"
                      /\ open <=> Found(p, fd)
                      /\ open <=> fd \in Fds /\ n # None
                      /\ open <=> DoWrite(p, fd, 1) # EBADF
                      /\ open <=> Writev(p, fd, <<1, 1>>) # EBADF
                      /\ open => Fstat(p, fd) = Newfstatat(n)
                      /\ open /\ n \in Files =>
                            /\ data <=> "IN" \in Poll(p, fd)
                            /\ data <=> fds[p][fd].offset < Fstat(p, fd).size
    BY DEF CallsAgree
  <2>1. CASE fd \in 3..(MaxFiles - 1)
    <3> DEFINE d == fds[p][fd]
               open == p \in live /\ InTable(p, fd)
    <3>1. fd \in Fds /\ fd < MaxFiles /\ fd \notin 0..2 /\ fd # 0 /\ fd \notin {1, 2} /\ fd >= 0
      BY <2>1, FileTableAssumption DEF Fds
    <3>2. /\ d \in Descriptors /\ d.offset \in Nat /\ d.vnode \in Nodes \cup {None}
          /\ d.used \in BOOLEAN
      BY <3>1 DEF IInv, TypeInv, Descriptors
    <3>3. (d.used <=> d.vnode # None) /\ (d.used => p \in live) /\ (InTable(p, fd) <=> d.used)
      BY <2>1, <3>1 DEF IInv, OpenInv, InTable
    <3>4. (open <=> d.used) /\ (open <=> d.vnode # None)
      BY <3>3
    <3>5. d.vnode # None => d.vnode \in Files \/ d.vnode \in Dirs
      BY <3>2 DEF Nodes
    <3>6. open <=> "OUT" \in Poll(p, fd)
      <4>1. d.used => "OUT" \in Poll(p, fd)
        BY <3>1, <3>3 DEF Poll
      <4>2. ~d.used => Poll(p, fd) = {"NVAL"}
        BY <3>1, <3>3 DEF Poll
      <4> QED
        BY <3>4, <4>1, <4>2
    <3>7. open <=> fd \in Pselect6(p, Fds \cup Outside, MaxFiles)
      BY <3>1, <3>3, <3>4, FileTableAssumption DEF Pselect6
    <3>8. d.used => Fstat(p, fd) = [type |-> IF d.vnode \in Dirs THEN "dir" ELSE "file", size |-> Size(d.vnode)]
      BY <3>1, <3>3 DEF Fstat
    <3>9. ~d.used => Fstat(p, fd).type = "EBADF"
      BY <3>3 DEF Fstat
    <3>10. open <=> Fstat(p, fd).type # "EBADF"
      BY <3>4, <3>8, <3>9
    <3>11. open <=> Found(p, fd)
      BY <3>3, <3>4 DEF Found
    <3>12. \A len : DoWrite(p, fd, len) = IF d.used THEN (IF d.vnode \in Dirs THEN EISDIR ELSE EPERM) ELSE EBADF
      BY <3>1, <3>3 DEF DoWrite
    <3>13. open <=> DoWrite(p, fd, 1) # EBADF
      BY <3>4, <3>12 DEF EBADF, EISDIR, EPERM
    <3>14. open <=> Writev(p, fd, <<1, 1>>) # EBADF
      <4> DEFINE a == [i \in DOMAIN <<1, 1>> |-> DoWrite(p, fd, <<1, 1>>[i])]
      <4>1. a \in [1..2 -> Int] /\ a[1] = DoWrite(p, fd, 1) /\ a[2] = DoWrite(p, fd, 1)
        BY <3>12 DEF EBADF, EISDIR, EPERM
      <4>2. Writev(p, fd, <<1, 1>>) = IF a[1] = EBADF THEN EBADF ELSE FoldSeq(+, 0, a)
        BY DEF Writev
      <4> HIDE DEF a
      <4>3. FoldSeq(+, 0, a) = a[1] + a[2]
        BY <4>1, SumOfTwo
      <4>4. CASE d.used
        <5>1. a[1] \in {EISDIR, EPERM} /\ a[2] = a[1]
          BY <3>12, <4>1, <4>4
        <5>2. a[1] # EBADF /\ a[1] + a[2] # EBADF
          BY <5>1 DEF EBADF, EISDIR, EPERM
        <5> QED
          BY <3>4, <4>2, <4>3, <4>4, <5>2
      <4>5. CASE ~d.used
        BY <3>4, <3>12, <4>1, <4>2, <4>5
      <4> QED
        BY <4>4, <4>5
    <3>15. open => Fstat(p, fd) = Newfstatat(d.vnode)
      BY <3>4, <3>8 DEF Newfstatat
    <3>16. ASSUME open, d.vnode \in Files
           PROVE  /\ TarfsRead(d.vnode, 1, d.offset) > 0 <=> "IN" \in Poll(p, fd)
                  /\ TarfsRead(d.vnode, 1, d.offset) > 0 <=> d.offset < Fstat(p, fd).size
      <4>1. Size(d.vnode) \in Nat
        BY <3>16, SizeType DEF Nodes
      <4>2. Fstat(p, fd).size = Size(d.vnode)
        BY <3>4, <3>8, <3>16
      <4>3. "IN" \in Poll(p, fd) <=> Size(d.vnode) > d.offset
        BY <3>1, <3>3, <3>4, <3>16 DEF Poll
      <4>4. TarfsRead(d.vnode, 1, d.offset) > 0 <=> d.offset < Size(d.vnode)
        BY <3>2, <4>1 DEF TarfsRead
      <4> QED
        BY <3>2, <4>1, <4>2, <4>3, <4>4
    <3> QED
      BY <3>1, <3>4, <3>6, <3>7, <3>10, <3>11, <3>13, <3>14, <3>15, <3>16
  <2>2. CASE fd \in Outside
    <3>1. fd \in Int /\ fd \notin Fds /\ ~InTable(p, fd)
      BY <2>2, FileTableAssumption DEF InTable
    <3>2. /\ "OUT" \notin Poll(p, fd) /\ ~Found(p, fd)
          /\ fd \notin Pselect6(p, Fds \cup Outside, MaxFiles)
          /\ Fstat(p, fd).type = "EBADF" /\ \A len : DoWrite(p, fd, len) = EBADF
      BY <3>1 DEF Poll, Found, Pselect6, Fstat, DoWrite
    <3>3. Writev(p, fd, <<1, 1>>) = EBADF
      <4> DEFINE a == [i \in DOMAIN <<1, 1>> |-> DoWrite(p, fd, <<1, 1>>[i])]
      <4>1. a[1] = EBADF
        BY <3>2
      <4>2. Writev(p, fd, <<1, 1>>) = IF <<1, 1>> # <<>> /\ a[1] = EBADF THEN EBADF ELSE FoldSeq(+, 0, a)
        BY DEF Writev
      <4> HIDE DEF a
      <4> QED
        BY <4>1, <4>2
    <3> QED
      BY <3>1, <3>2, <3>3
  <2> QED
    BY <2>1, <2>2
<1> QED
  BY <1>1, Invariance, PTL

-----------------------------------------------------------------------------
(* Execve: the allocations. *)

\* Places of execve before the loader, and after it has a stack.
Before == {"begin", "argv", "argv copy", "envp", "envp copy", "lookup", "prepare"}
Locations ==
    Before \cup {"load", "base", "record", "vectors", "build", "replace", "out", "done"}
Preparing == {"record", "vectors", "build", "replace"}
CallTypeInv ==
    /\ pc \in Locations
    /\ call.argv \in Vectors /\ call.envp \in Vectors
    /\ DOMAIN vec = {"argv", "envp"}
    /\ vec["argv"] \in {NULL, "copy", "lone"} /\ vec["envp"] \in {NULL, "copy"}
    /\ at \in Nat \ {0} /\ bad = {}
    /\ img \in {"main", "interp"} /\ (pc \in Before => img = "main")

\* How far the vectors have come.
VecInv ==
    /\ pc \in {"begin", "argv", "argv copy"} => vec["argv"] = NULL
    /\ pc \in {"begin", "argv", "argv copy", "envp", "envp copy"} =>
            vec["envp"] = NULL /\ vec["argv"] # "lone"
    /\ \A w \in {"argv", "envp"} :
        /\ vec[w] = "copy" \/ pc = Copying(w) => call[w] # NULL
        /\ pc = Copying(w) => at - 1 <= Count(w)
    /\ vec["argv"] = "lone" => Count("argv") = 0

\* The vector that exec_copy_strvec is filling.
Pending ==
    IF pc = "argv copy" THEN Named({"argv"}) \cup Copies("argv", at - 1)
    ELSE IF pc = "envp copy" THEN Named({"envp"}) \cup Copies("envp", at - 1)
    ELSE {}

\* What else has been allocated for certain.
Held ==
    Named(IF pc = "begin" THEN {}
          ELSE {"path"}
            \cup (IF pc \in {"prepare", "load", "base"} \cup Preparing THEN {"image"} ELSE {})
            \cup (IF pc \in {"load", "base"} \cup Preparing THEN {"l4"} ELSE {})
            \cup (IF pc = "load" /\ img = "interp" THEN {"interp"} ELSE {})
            \cup (IF pc \in Preparing THEN {"base"} ELSE {})
            \cup (IF pc \in Preparing \ {"record"} THEN {"record"} ELSE {}))

\* The copy of an empty argv, once it may be lost.
Lost == IF call.argv = <<>> /\ pc \notin {"begin", "argv"} THEN Named({"argv"}) ELSE {}

\* What may have been allocated besides.
Possible ==
    (IF pc = "out" THEN Named({"image"}) ELSE {})
    \cup (IF pc = "build" THEN Scratch ELSE {})
    \cup Lost

Owned == VectorFrees("argv") \cup VectorFrees("envp")

HeapInv ==
    IF pc = "done" THEN heap \subseteq Possible
    ELSE /\ Owned \cup Pending \cup Held \subseteq heap
         /\ heap \subseteq Owned \cup Pending \cup Held \cup Possible

CallInv == CallTypeInv /\ VecInv /\ HeapInv

-----------------------------------------------------------------------------

LEMMA NamedIs == \A S, x : x \in Named(S) <=> \E n \in S : x = <<n, 0>>
  BY DEF Named

LEMMA CopiesIs == \A w, n, x : x \in Copies(w, n) <=> \E i \in 1..n : x = <<w, i>>
  BY DEF Copies

\* What the clean-up frees of each vector.
LEMMA VectorFreesIs ==
    ASSUME CallTypeInv, NEW w \in {"argv", "envp"}
    PROVE  /\ vec[w] = NULL => VectorFrees(w) = {}
           /\ vec[w] = "lone" => VectorFrees(w) = Named({"lone"})
           /\ vec[w] = "copy" => VectorFrees(w) = Named({w}) \cup Copies(w, Count(w))
  BY ExecveAssumption DEF CallTypeInv, VectorFrees

LEMMA CountType ==
    ASSUME CallTypeInv, NEW w \in {"argv", "envp"}
    PROVE  /\ Count(w) \in Nat
           /\ call[w] # NULL => call[w] \in Seq(Nat) /\ Count(w) = Len(call[w])
           /\ Count(w) = 0 /\ call[w] # NULL => call[w] = <<>>
<1>1. call[w] \in Vectors
  BY DEF CallTypeInv
<1>2. call[w] = NULL \/ call[w] \in Seq(Nat)
  BY <1>1, ExecveAssumption
<1> QED
  BY <1>2 DEF Count

LEMMA BeginInv == ASSUME CallInv, Begin PROVE CallInv'
<1> USE DEF CallInv
<1>1. pc = "begin" /\ vec["argv"] = NULL /\ vec["envp"] = NULL
  BY DEF Begin, VecInv
<1>2. UNCHANGED <<call, vec, at, img>> /\ bad' = bad /\ pc' \in {"argv", "done"}
  BY DEF Begin, Alloc, Goto, space
<1>3. CallTypeInv'
  BY <1>1, <1>2 DEF CallTypeInv, Before, Locations
<1>4. VecInv'
  BY <1>1, <1>2, <1>3, ExecveAssumption DEF VecInv, Copying
<1>5. Owned = {} /\ Owned' = {}
  BY <1>1, <1>2, <1>3, VectorFreesIs, ExecveAssumption DEF Owned, CallTypeInv, VectorFrees
<1>6. heap = {}
  BY <1>1, <1>5 DEF HeapInv, Pending, Held, Possible, Lost, Named
<1>7. HeapInv'
  <2>1. CASE pc' = "argv"
    <3>1. heap' = Named({"path"})
      BY <1>6, <2>1 DEF Begin, Alloc, Goto
    <3>2. Held' = Named({"path"}) /\ Pending' = {}
      BY <2>1 DEF Held, Pending, Preparing
    <3> QED
      BY <1>5, <2>1, <3>1, <3>2 DEF HeapInv
  <2>2. CASE pc' = "done"
    BY <1>6, <2>2 DEF HeapInv, Begin, Alloc, Goto
  <2> QED
    BY <1>2, <2>1, <2>2
<1> QED
  BY <1>3, <1>4, <1>7

LEMMA Places ==
    ASSUME NEW w \in {"argv", "envp"}
    PROVE  \/ w = "argv" /\ Copying(w) = "argv copy" /\ AfterVector(w) = "envp"
           \/ w = "envp" /\ Copying(w) = "envp copy" /\ AfterVector(w) = "lookup"
  BY DEF Copying, AfterVector

LEMMA OwnedSame == ASSUME UNCHANGED <<call, vec>> PROVE Owned' = Owned
  BY DEF Owned, VectorFrees, Count

\* The vectors' allocations are none of the others.
LEMMA OwnedApart ==
    ASSUME CallTypeInv, NEW x \in Owned
    PROVE  \E n \in {"argv", "envp", "lone"}, i \in Nat : x = <<n, i>>
<1>1. PICK w \in {"argv", "envp"} : x \in VectorFrees(w)
  BY DEF Owned
<1>2. vec[w] \in {NULL, "lone", "copy"}
  BY DEF CallTypeInv
<1>3. x \in Named({"lone"}) \/ x \in Named({w}) \/ x \in Copies(w, Count(w))
  BY <1>1, <1>2, VectorFreesIs
<1> QED
  BY <1>3, NamedIs, CopiesIs, CountType

\* A vector that was not copied has no copies of its strings.
LEMMA NotOwned ==
    ASSUME CallTypeInv, NEW w \in {"argv", "envp"}, vec[w] = NULL
    PROVE  \A i : <<w, i>> \notin Owned
<1>1. VectorFrees(w) = {}
  BY VectorFreesIs
<1> SUFFICES ASSUME NEW v \in {"argv", "envp"}, v # w, NEW i PROVE <<w, i>> \notin VectorFrees(v)
  BY <1>1 DEF Owned
<1>2. vec[v] \in {NULL, "lone", "copy"}
  BY DEF CallTypeInv
<1> QED
  BY <1>2, VectorFreesIs, NamedIs, CopiesIs

LEMMA CopyBeginsInv ==
    ASSUME CallInv, NEW w \in {"argv", "envp"}, CopyBegins(w) PROVE CallInv'
<1> USE DEF CallInv
<1>1. /\ pc = w /\ vec[w] = NULL /\ Pending = {} /\ Held = Named({"path"})
      /\ (w = "argv" => Possible = {})
  BY DEF CopyBegins, VecInv, Pending, Held, Preparing, Possible, Lost
<1>2. UNCHANGED <<call, vec, img>> /\ bad' = bad /\ at' = 1 /\ pc' \in {AfterVector(w), "out", Copying(w)}
  BY DEF CopyBegins, Alloc, Goto, space
<1>3. CallTypeInv'
  <2>1. pc' \in Locations
    BY <1>2, Places DEF Locations, Before
  <2>2. img = "main"
    BY <1>1 DEF CallTypeInv, Before
  <2> QED
    BY <1>2, <2>1, <2>2 DEF CallTypeInv
<1>4. VecInv'
  <2>1. pc' = Copying(w) => call[w] # NULL
    BY DEF CopyBegins, AfterVector, Copying, Goto
  <2>2. Count(w) \in Nat /\ Count(w)' = Count(w)
    BY <1>2, CountType DEF Count
  <2>3. \A v \in {"argv", "envp"} : vec[v] = "copy" => call[v] # NULL
    BY DEF VecInv
  <2> QED
    <3>1. \A v \in {"argv", "envp"} : pc' = Copying(v) => v = w
      BY <1>2, Places
    <3>2. /\ pc' \in {"begin", "argv", "argv copy"} => vec["argv"] = NULL
          /\ pc' \in {"begin", "argv", "argv copy", "envp", "envp copy"} => vec["envp"] = NULL /\ vec["argv"] # "lone"
      BY <1>1, <1>2, Places, ExecveAssumption DEF VecInv
    <3>3. vec["argv"] = "lone" => Count("argv") = 0
      BY DEF VecInv
    <3>4. \A v \in {"argv", "envp"} : pc' = Copying(v) => at' - 1 <= Count(v)'
      BY <1>2, <2>2, <3>1
    <3> QED
      BY <1>2, <2>1, <2>3, <3>1, <3>2, <3>3, <3>4 DEF VecInv, Count, Copying
<1>5. Owned' = Owned /\ Owned \cup Named({"path"}) \subseteq heap
      /\ heap \subseteq Owned \cup Named({"path"}) \cup Possible
  BY <1>1, <1>2, OwnedSame DEF HeapInv
<1>6. Held' = Named({"path"}) /\ Possible \subseteq Possible'
  BY <1>1, <1>2 DEF Held, Preparing, AfterVector, Copying, Possible, Lost
<1>7. HeapInv'
  <2>1. CASE pc' = Copying(w)
    <3>1. heap' = heap \cup Named({w})
      BY <2>1 DEF CopyBegins, Alloc, Goto, AfterVector, Copying
    <3>2. Pending' = Named({w})
      <4>1. Copies(w, 1 - 1) = {}
        BY DEF Copies
      <4> QED
        BY <1>2, <2>1, <4>1, Places DEF Pending
    <3> QED
      BY <1>5, <1>6, <2>1, <3>1, <3>2 DEF HeapInv, Copying
  <2>2. CASE pc' # Copying(w)
    <3>1. heap' = heap
      BY <2>2 DEF CopyBegins, Goto
    <3>2. Pending' = {} /\ pc' # "done"
      BY <1>2, <2>2 DEF Pending, Copying, AfterVector
    <3> QED
      BY <1>5, <1>6, <3>1, <3>2 DEF HeapInv
  <2> QED
    BY <2>1, <2>2
<1> QED
  BY <1>3, <1>4, <1>7

\* The failing exec_copy_strvec frees what it has copied so far.
LEMMA CopyFailsInv ==
    ASSUME CallInv, NEW w \in {"argv", "envp"}, pc = Copying(w), CopyFails(w), UNCHANGED <<call, vec, img>>
    PROVE  CallInv'
<1> USE DEF CallInv
<1> DEFINE gone == Named({w}) \cup Copies(w, at - 1)
<1>1. /\ vec[w] = NULL /\ Pending = gone /\ Held = Named({"path"})
  BY DEF VecInv, Copying, Pending, Held, Preparing
<1>2. at' = at /\ pc' = "out" /\ heap' = heap \ gone /\ bad' = bad \cup (gone \ heap)
  BY DEF CopyFails, Free, Goto
<1>3. gone \cup Owned \cup Named({"path"}) \subseteq heap
      /\ heap \subseteq gone \cup Owned \cup Named({"path"}) \cup Possible
  BY <1>1 DEF HeapInv, Copying
<1>4. bad' = bad
  BY <1>2, <1>3
<1>5. CallTypeInv'
  BY <1>2, <1>4 DEF CallTypeInv, Before, Locations
<1>6. VecInv'
  BY <1>1, <1>2, <1>5 DEF VecInv, Copying, Count
<1>7. Owned' = Owned /\ Held' = Named({"path"}) /\ Pending' = {} /\ Possible \subseteq Possible'
  BY <1>2, OwnedSame DEF Held, Preparing, Pending, Possible, Lost, Copying
<1>8. \A x \in gone : \E i : x = <<w, i>>
  BY NamedIs, CopiesIs
<1>9. gone \cap Owned = {} /\ gone \cap Named({"path"}) = {}
  BY <1>1, <1>8, NotOwned, NamedIs
<1> HIDE DEF gone
<1>10. HeapInv'
  BY <1>2, <1>3, <1>7, <1>9 DEF HeapInv
<1> QED
  BY <1>5, <1>6, <1>10

LEMMA CopyStringInv ==
    ASSUME CallInv, NEW w \in {"argv", "envp"}, CopyString(w) PROVE CallInv'
<1>1. pc = Copying(w) /\ at <= Count(w) /\ UNCHANGED <<call, vec, img>>
  BY DEF CopyString, space
<1>2. CASE CopyFails(w)
  BY <1>1, <1>2, CopyFailsInv
<1>3. CASE ~CopyFails(w)
  <2> USE DEF CallInv
  <2>1. heap' = heap \cup {<<w, at>>} /\ at' = at + 1 /\ UNCHANGED bad /\ UNCHANGED pc
    BY <1>3 DEF CopyString
  <2>2. CallTypeInv'
    BY <1>1, <2>1 DEF CallTypeInv
  <2>3. at \in Nat /\ Count(w) \in Nat /\ Count(w)' = Count(w)
    BY <1>1, CountType DEF CallTypeInv, Count
  <2>4. VecInv'
    <3>1. \A v \in {"argv", "envp"} : pc' = Copying(v) => v = w
      BY <1>1, <2>1, Places
    <3>2. \A v \in {"argv", "envp"} : pc' = Copying(v) => at' - 1 <= Count(v)'
      BY <1>1, <2>1, <2>3, <3>1
    <3> QED
      BY <1>1, <2>1, <3>2 DEF VecInv, Count, Copying
  <2>5. Owned' = Owned /\ Held' = Held /\ Possible' = Possible
    BY <1>1, <2>1, OwnedSame DEF Held, Possible, Lost
  <2>6. Pending' = Pending \cup {<<w, at>>}
    <3>1. Copies(w, at) = Copies(w, at - 1) \cup {<<w, at>>}
      BY <2>3 DEF Copies, CallTypeInv
    <3>2. Pending = Named({w}) \cup Copies(w, at - 1)
      BY <1>1 DEF Pending, Copying
    <3>3. Pending' = Named({w}) \cup Copies(w, at)
      <4>1. at' - 1 = at
        BY <2>1, <2>3
      <4> QED
        BY <1>1, <2>1, <4>1, Places DEF Pending
    <3> QED
      BY <3>1, <3>2, <3>3
  <2>7. HeapInv'
    BY <1>1, <2>1, <2>5, <2>6 DEF HeapInv, Copying
  <2> QED
    BY <2>2, <2>4, <2>7
<1> QED
  BY <1>2, <1>3

LEMMA CopyEndsInv ==
    ASSUME CallInv, NEW w \in {"argv", "envp"}, CopyEnds(w) PROVE CallInv'
<1> USE DEF CallInv
<1>1. /\ pc = Copying(w) /\ at > Count(w) /\ pc' = AfterVector(w)
      /\ vec' = [vec EXCEPT ![w] = "copy"] /\ UNCHANGED <<call, heap, bad, at, img>>
  BY DEF CopyEnds, Goto, space
<1>2. CallTypeInv'
  BY <1>1, Places DEF CallTypeInv, Before, Locations
<1>3. vec[w] = NULL /\ vec'[w] = "copy" /\ call[w] # NULL /\ \A v \in {"argv", "envp"} : v # w => vec'[v] = vec[v]
  BY <1>1 DEF VecInv, Copying, CallTypeInv
<1>4. VecInv'
  BY <1>1, <1>2, <1>3, ExecveAssumption DEF VecInv, Copying, AfterVector, Count
<1>5. at \in Nat /\ Count(w) \in Nat /\ Count(w) = at - 1
  <2>1. at \in Nat /\ Count(w) \in Nat
    BY CountType DEF CallTypeInv
  <2>2. at - 1 <= Count(w)
    BY <1>1 DEF VecInv
  <2> QED
    BY <1>1, <2>1, <2>2
<1>6. Pending = Named({w}) \cup Copies(w, Count(w)) /\ Pending' = {}
  BY <1>1, <1>5 DEF Pending, Copying, AfterVector
<1>7. Owned' = Owned \cup Named({w}) \cup Copies(w, Count(w))
  <2>1. VectorFrees(w) = {} /\ VectorFrees(w)' = Named({w}) \cup Copies(w, Count(w))
    BY <1>1, <1>3, ExecveAssumption DEF VectorFrees, Count
  <2>2. \A v \in {"argv", "envp"} : v # w => VectorFrees(v)' = VectorFrees(v)
    BY <1>1, <1>3 DEF VectorFrees, Count
  <2> QED
    BY <2>1, <2>2 DEF Owned
<1>8. Held' = Held /\ Possible \subseteq Possible'
  BY <1>1 DEF Held, Possible, Lost, Preparing, Copying, AfterVector
<1>9. HeapInv'
  BY <1>1, <1>6, <1>7, <1>8 DEF HeapInv, Copying, AfterVector
<1> QED
  BY <1>2, <1>4, <1>9

-----------------------------------------------------------------------------
(* Once the vectors are copied. *)

Later == {"lookup", "prepare", "load", "base", "out", "done"} \cup Preparing

LEMMA LaterStep ==
    ASSUME CallInv, pc \in Later, pc' \in Later, UNCHANGED <<call, vec>>, bad' = {},
           at' \in Nat \ {0}, img' \in {"main", "interp"}, pc' \in Before => img' = "main"
    PROVE  CallTypeInv' /\ VecInv' /\ Owned' = Owned /\ Pending = {} /\ Pending' = {} /\ Lost' = Lost
<1>1. /\ pc \notin {"begin", "argv", "argv copy", "envp", "envp copy"}
      /\ pc' \notin {"begin", "argv", "argv copy", "envp", "envp copy"}
      /\ pc' \in Locations
  BY DEF Later, Preparing, Locations, Before
<1>2. \A w \in {"argv", "envp"} : pc # Copying(w) /\ pc' # Copying(w)
  BY <1>1, Places
<1>3. CallTypeInv'
  BY <1>1 DEF CallInv, CallTypeInv
<1>4. VecInv'
  BY <1>1, <1>2 DEF CallInv, VecInv, Count, Copying
<1> QED
  BY <1>1, <1>3, <1>4, OwnedSame DEF Pending, Lost

LEMMA ReadImageInv == ASSUME CallInv, ReadImage PROVE CallInv'
<1> USE DEF CallInv
<1>1. /\ pc = "lookup" /\ pc' \in {"prepare", "out"} /\ bad' = bad
      /\ UNCHANGED <<call, vec, at, img>>
  BY DEF ReadImage, Alloc, Goto, space
<1>2. CallTypeInv' /\ VecInv' /\ Owned' = Owned /\ Pending = {} /\ Pending' = {} /\ Lost' = Lost
  BY <1>1, LaterStep DEF Later, CallTypeInv, Before
<1>3. Owned \cup Named({"path"}) \subseteq heap /\ heap \subseteq Owned \cup Named({"path"}) \cup Lost
  BY <1>1, <1>2 DEF HeapInv, Held, Possible, Preparing
<1>4. CASE pc' = "prepare"
  <2>1. heap' = heap \cup Named({"image"})
    BY <1>4 DEF ReadImage, Alloc, Goto
  <2>2. Held' = Named({"path", "image"}) /\ Possible' = Lost'
    BY <1>4 DEF Held, Possible, Preparing
  <2>3. Named({"path", "image"}) = Named({"path"}) \cup Named({"image"})
    BY DEF Named
  <2> QED
    BY <1>2, <1>3, <1>4, <2>1, <2>2, <2>3 DEF HeapInv
<1>5. CASE pc' = "out"
  <2>1. heap' = heap \/ heap' = heap \cup Named({"image"})
    BY <1>5 DEF ReadImage, Alloc, Goto
  <2>2. Held' = Named({"path"}) /\ Possible' = Named({"image"}) \cup Lost'
    BY <1>5 DEF Held, Possible, Preparing
  <2> QED
    BY <1>2, <1>3, <1>5, <2>1, <2>2 DEF HeapInv
<1> QED
  BY <1>1, <1>4, <1>5

LEMMA LoneArgvInv == ASSUME CallInv, LoneArgv PROVE CallInv'
<1> USE DEF CallInv
<1>1. /\ pc = "lookup" /\ pc' \in {"lookup", "out"} /\ bad' = bad /\ Count("argv") = 0
      /\ vec["argv"] # "lone" /\ UNCHANGED <<call, at, img>>
  BY DEF LoneArgv, Alloc, Goto, space
<1>2. \/ vec' = [vec EXCEPT !["argv"] = "lone"] /\ heap' = heap \cup Named({"lone"}) /\ pc' = pc
      \/ vec' = [vec EXCEPT !["argv"] = NULL] /\ heap' = heap /\ pc' = "out"
  BY DEF LoneArgv, Alloc, Goto
<1>3. vec'["envp"] = vec["envp"] /\ vec'["argv"] \in {"lone", NULL} /\ DOMAIN vec' = DOMAIN vec
  BY <1>2 DEF CallTypeInv
<1>4. CallTypeInv'
  BY <1>1, <1>3 DEF CallTypeInv, Before, Locations
<1>5. VecInv'
  BY <1>1, <1>3, ExecveAssumption DEF VecInv, Count, Copying
<1>6. VectorFrees("envp")' = VectorFrees("envp")
  BY <1>1, <1>3 DEF VectorFrees, Count
<1>7. VectorFrees("argv")' = IF vec'["argv"] = "lone" THEN Named({"lone"}) ELSE {}
  BY <1>3, ExecveAssumption DEF VectorFrees
<1>8. VectorFrees("argv") \subseteq Lost
  <2>1. CASE vec["argv"] = "copy"
    <3>1. call.argv = <<>>
      BY <1>1, <2>1, CountType DEF VecInv
    <3>2. Copies("argv", 0) = {}
      BY DEF Copies
    <3> QED
      BY <1>1, <2>1, <3>1, <3>2, VectorFreesIs DEF Lost
  <2> QED
    BY <1>1, <2>1, VectorFreesIs DEF CallTypeInv
<1>9. Pending = {} /\ Pending' = {} /\ Lost' = Lost /\ Held = Named({"path"}) /\ Held' = Named({"path"})
      /\ Possible = Lost /\ Lost' \subseteq Possible'
  BY <1>1 DEF Pending, Lost, Held, Preparing, Possible
<1>10. HeapInv'
  <2>1. vec'["argv"] = "lone" => heap' = heap \cup Named({"lone"})
    BY <1>2, ExecveAssumption DEF CallTypeInv
  <2>2. vec'["argv"] # "lone" => heap' = heap
    BY <1>2, ExecveAssumption DEF CallTypeInv
  <2> QED
    BY <1>1, <1>3, <1>6, <1>7, <1>8, <1>9, <2>1, <2>2 DEF HeapInv, Owned
<1> QED
  BY <1>4, <1>5, <1>10

LEMMA PrepareInv == ASSUME CallInv, Prepare PROVE CallInv'
<1> USE DEF CallInv
<1>1. /\ pc = "prepare" /\ pc' \in {"load", "out"} /\ bad' = bad /\ at' = 1
      /\ UNCHANGED <<call, vec, img>> /\ img = "main"
  BY DEF Prepare, Alloc, Goto, space, CallTypeInv, Before
<1>2. CallTypeInv' /\ VecInv' /\ Owned' = Owned /\ Pending = {} /\ Pending' = {} /\ Lost' = Lost
  BY <1>1, LaterStep DEF Later, CallTypeInv, Before
<1>3. Held = Named({"path"}) \cup Named({"image"}) /\ Possible = Lost
  BY <1>1 DEF Held, Possible, Preparing, Named
<1>4. CASE pc' = "load"
  <2>1. heap' = heap \cup Named({"l4"})
    BY <1>4 DEF Prepare, Alloc, Goto
  <2>2. Held' = Named({"path"}) \cup Named({"image"}) \cup Named({"l4"}) /\ Possible' = Lost'
    BY <1>1, <1>4 DEF Held, Possible, Preparing, Named
  <2> QED
    BY <1>1, <1>2, <1>3, <1>4, <2>1, <2>2 DEF HeapInv
<1>5. CASE pc' = "out"
  <2>1. heap' = heap
    BY <1>5 DEF Prepare, Alloc, Goto
  <2>2. Held' = Named({"path"}) /\ Possible' = Named({"image"}) \cup Lost'
    BY <1>5 DEF Held, Possible, Preparing
  <2> QED
    BY <1>1, <1>2, <1>3, <1>5, <2>1, <2>2 DEF HeapInv
<1> QED
  BY <1>1, <1>2, <1>4, <1>5

\* The names of Held as a set of allocations, and what no vector owns.
Base == Named({"path"}) \cup Named({"image"}) \cup Named({"l4"})
Interp == IF img = "interp" THEN Named({"interp"}) ELSE {}
Block == Named({"base"}) \cup Named({"record"})

LEMMA HeldIs ==
    /\ pc = "load" => Held = Base \cup Interp
    /\ pc = "base" => Held = Base
    /\ pc = "record" => Held = Base \cup Named({"base"})
    /\ pc \in {"vectors", "build", "replace"} => Held = Base \cup Block
    /\ pc = "out" => Held = Named({"path"})
    /\ pc \in Later \ {"out", "build"} => Possible = Lost
    /\ pc = "out" => Possible = Named({"image"}) \cup Lost
    /\ pc = "build" => Possible = Scratch \cup Lost
<1>1. pc = "load" => Held = Base \cup Interp
  BY DEF Held, Base, Interp, Preparing, Named
<1>2. pc = "base" => Held = Base
  BY DEF Held, Base, Preparing, Named
<1>3. pc = "record" => Held = Base \cup Named({"base"})
  BY DEF Held, Base, Preparing, Named
<1>4. pc \in {"vectors", "build", "replace"} => Held = Base \cup Block
  BY DEF Held, Base, Block, Preparing, Named
<1>5. pc = "out" => Held = Named({"path"})
  BY DEF Held, Preparing
<1>6. /\ pc \in Later \ {"out", "build"} => Possible = Lost
      /\ pc = "out" => Possible = Named({"image"}) \cup Lost
      /\ pc = "build" => Possible = Scratch \cup Lost
  BY DEF Possible
<1> QED
  BY <1>1, <1>2, <1>3, <1>4, <1>5, <1>6

\* The allocations of the loader are apart from those of the vectors and from the
\* path and the image.
Loaders == Named({"l4", "interp", "base", "record"}) \cup Scratch

LEMMA LoadersApart ==
    ASSUME CallTypeInv
    PROVE  /\ Loaders \cap Owned = {} /\ Loaders \cap Lost = {}
           /\ Loaders \cap (Named({"path"}) \cup Named({"image"})) = {}
<1>1. ASSUME NEW x \in Loaders
      PROVE  \E n \in {"l4", "interp", "base", "record", "envp_addrs", "argv_addrs", "vec"} : x = <<n, 0>>
  BY NamedIs DEF Loaders, Scratch
<1>2. Loaders \cap Owned = {}
  BY <1>1, OwnedApart
<1>3. Loaders \cap Lost = {}
  BY <1>1, NamedIs DEF Lost
<1>4. Loaders \cap (Named({"path"}) \cup Named({"image"})) = {}
  BY <1>1, NamedIs
<1> QED
  BY <1>2, <1>3, <1>4

\* Every failure of the loader frees what it allocated and nothing else.
LEMMA LoaderFails ==
    ASSUME CallInv, pc \in {"load", "base"} \cup Preparing, pc' = "out",
           UNCHANGED <<call, vec, at, img>>,
           NEW set \in SUBSET Loaders, Free(set), set \subseteq heap, heap \cap Loaders \subseteq set
    PROVE  CallInv'
<1> USE DEF CallInv
<1>1. heap' = heap \ set /\ bad' = bad
  BY DEF Free
<1>2. CallTypeInv' /\ VecInv' /\ Owned' = Owned /\ Pending = {} /\ Pending' = {} /\ Lost' = Lost
  <2>1. pc \in Later /\ pc' \in Later /\ bad' = {} /\ pc' \notin Before
    BY <1>1 DEF Later, CallTypeInv, Before
  <2>2. at' \in Nat \ {0} /\ img' \in {"main", "interp"}
    BY DEF CallTypeInv
  <2> QED
    BY <2>1, <2>2, LaterStep
<1>3. Held' = Named({"path"}) /\ Possible' = Named({"image"}) \cup Lost'
  BY HeldIs DEF Held, Preparing, Possible
<1>4. Named({"path"}) \subseteq Held /\ pc # "done"
  BY NamedIs, HeldIs DEF Base, Preparing
<1>5. Held \cup Possible \subseteq Named({"path"}) \cup Named({"image"}) \cup Lost \cup Loaders
  <2>1. Base \cup Block \cup Interp \subseteq Named({"path"}) \cup Named({"image"}) \cup Loaders
    BY DEF Base, Block, Interp, Loaders, Named
  <2>2. Possible \subseteq Lost \cup Scratch \cup Named({"image"})
    BY DEF Possible
  <2> QED
    BY <2>1, <2>2, HeldIs DEF Preparing, Block, Loaders
<1>6. HeapInv'
  BY <1>1, <1>2, <1>3, <1>4, <1>5, LoadersApart DEF HeapInv
<1> QED
  BY <1>2, <1>6

\* Steps of elf_load that allocate nothing.
LEMMA LoadStepInv ==
    ASSUME CallInv, pc = "load", UNCHANGED <<pc, call, heap, bad, vec, img>>, at' = at + 1
    PROVE  CallInv'
<1> USE DEF CallInv
<1>1. CallTypeInv' /\ VecInv' /\ Owned' = Owned /\ Pending = {} /\ Pending' = {} /\ Lost' = Lost
  BY LaterStep DEF Later, CallTypeInv, Before
<1>2. Held' = Held /\ Possible' = Possible
  BY <1>1 DEF Held, Possible
<1> QED
  BY <1>1, <1>2 DEF HeapInv

LEMMA LoadFailsInv == ASSUME CallInv, LoadFails PROVE CallInv'
<1> DEFINE set == Named({"l4"} \cup (IF img = "interp" THEN {"interp"} ELSE {}))
<1>1. pc = "load" /\ pc' = "out" /\ UNCHANGED <<call, vec, at, img>> /\ Free(set)
  BY DEF LoadFails, Goto, space
<1>2. set = Named({"l4"}) \cup Interp
  BY DEF Interp, Named
<1>3. Pending = {} /\ Owned \cup Held \subseteq heap /\ heap \subseteq Owned \cup Base \cup Interp \cup Lost
      /\ Base \cup Interp \subseteq heap
  BY <1>1, HeldIs DEF CallInv, HeapInv, Pending, Later
<1>4. set \in SUBSET Loaders
  BY DEF Loaders, Named
<1>5. heap \cap Loaders \subseteq set
  BY <1>2, <1>3, LoadersApart DEF CallInv, Base
<1>6. set \subseteq heap
  BY <1>2, <1>3 DEF Base
<1> QED
  BY <1>1, <1>4, <1>5, <1>6, LoaderFails

LEMMA ReadInterpInv == ASSUME CallInv, ReadInterp PROVE CallInv'
<1>1. pc = "load" /\ img = "main" /\ Pending = {} /\ Interp = {} /\ UNCHANGED <<call, vec>>
  BY DEF ReadInterp, Loaded, Pending, Interp
<1>2. Base \subseteq heap /\ heap \subseteq Owned \cup Base \cup Lost /\ Owned \subseteq heap
  BY <1>1, HeldIs DEF CallInv, HeapInv, Later
<1>3. CASE Free(Named({"l4"})) /\ Goto("out") /\ UNCHANGED <<at, img, prev>>
  <2>1. Named({"l4"}) \in SUBSET Loaders
    BY DEF Loaders, Named
  <2>2. heap \cap Loaders \subseteq Named({"l4"})
    BY <1>2, LoadersApart DEF CallInv, Base
  <2>3. Named({"l4"}) \subseteq heap
    BY <1>2 DEF Base
  <2> QED
    BY <1>1, <1>3, <2>1, <2>2, <2>3, LoaderFails DEF Goto
<1>4. CASE Alloc("interp") /\ img' = "interp" /\ at' = 1 /\ prev' = {} /\ UNCHANGED pc
  <2>1. CallTypeInv' /\ VecInv' /\ Owned' = Owned /\ Pending' = {} /\ Lost' = Lost
    BY <1>1, <1>4, LaterStep DEF Later, CallInv, CallTypeInv, Before, Alloc
  <2>2. Held' = Base \cup Named({"interp"})
    BY <1>1, <1>4 DEF Held, Base, Preparing, Named
  <2>3. heap' = heap \cup Named({"interp"}) /\ Possible' = Lost'
    BY <1>1, <1>4 DEF Alloc, Possible
  <2> QED
    BY <1>1, <1>2, <1>4, <2>1, <2>2, <2>3 DEF CallInv, HeapInv
<1> QED
  BY <1>3, <1>4 DEF ReadInterp

LEMMA LoadEndsInv == ASSUME CallInv, LoadEnds PROVE CallInv'
<1>1. pc = "load" /\ pc' = "base" /\ Pending = {} /\ UNCHANGED <<call, vec, at, img>> /\ Free(Interp)
  BY DEF LoadEnds, Loaded, Pending, Interp, Goto, space
<1>2. Base \cup Interp \subseteq heap /\ heap \subseteq Owned \cup Base \cup Interp \cup Lost /\ Owned \subseteq heap
  BY <1>1, HeldIs DEF CallInv, HeapInv, Later
<1>3. heap' = heap \ Interp /\ bad' = bad
  BY <1>1, <1>2 DEF Free
<1>4. CallTypeInv' /\ VecInv' /\ Owned' = Owned /\ Pending' = {} /\ Lost' = Lost
  BY <1>1, <1>3, LaterStep DEF Later, CallInv, CallTypeInv, Before
<1>5. Held' = Base /\ Possible' = Lost'
  BY <1>1 DEF Held, Base, Preparing, Named, Possible
<1>6. Interp \subseteq Loaders /\ Interp \cap Base = {}
  BY DEF Interp, Loaders, Named, Base
<1>7. Interp \cap Owned = {}
  BY <1>6, LoadersApart DEF CallInv
<1> QED
  BY <1>1, <1>2, <1>3, <1>4, <1>5, <1>6, <1>7 DEF CallInv, HeapInv

\* The allocations of the stack: each either succeeds or PrepareFails.
LEMMA PrepareFailsInv ==
    ASSUME CallInv, pc \in {"base", "record", "vectors"}, PrepareFails, UNCHANGED <<call, vec, at, img>>
    PROVE  CallInv'
<1> DEFINE set == Named({"l4"}) \cup (heap \cap Named({"base", "record"}))
<1>1. pc' = "out" /\ Free(set) /\ Pending = {} /\ pc \in Later \ {"out", "build"}
  BY DEF PrepareFails, Goto, Pending, Later, Preparing
<1>2. Base \subseteq heap /\ heap \subseteq Owned \cup Base \cup Block \cup Lost
  BY <1>1, HeldIs DEF CallInv, HeapInv, Block
<1>3. set \in SUBSET Loaders
  BY DEF Loaders, Named
<1>4. Block = Named({"base", "record"})
  BY DEF Block, Named
<1>5. heap \cap Loaders \subseteq set
  BY <1>2, <1>4, LoadersApart DEF CallInv, Base
<1>6. set \subseteq heap
  BY <1>2 DEF Base
<1>7. pc \in {"load", "base"} \cup Preparing
  BY DEF Preparing
<1> HIDE DEF set
<1> QED
  BY <1>1, <1>3, <1>5, <1>6, <1>7, LoaderFails

LEMMA StackBlockInv == ASSUME CallInv, StackBlock PROVE CallInv'
<1>1. pc = "base" /\ Pending = {} /\ UNCHANGED <<call, vec, at, img>>
  BY DEF StackBlock, Pending, space
<1>2. CASE Alloc("base") /\ Goto("record")
  <2>1. CallTypeInv' /\ VecInv' /\ Owned' = Owned /\ Pending' = {} /\ Lost' = Lost
    BY <1>1, <1>2, LaterStep DEF Later, Preparing, CallInv, CallTypeInv, Before, Alloc, Goto
  <2>2. Held = Base /\ Possible = Lost /\ heap' = heap \cup Named({"base"}) /\ pc' = "record"
    BY <1>1, <1>2, HeldIs DEF Later, Alloc, Goto
  <2>3. Held' = Base \cup Named({"base"}) /\ Possible' = Lost'
    BY <2>2 DEF Held, Base, Preparing, Named, Possible
  <2> QED
    BY <1>1, <2>1, <2>2, <2>3 DEF CallInv, HeapInv
<1> QED
  BY <1>1, <1>2, PrepareFailsInv DEF StackBlock

LEMMA StackRecordInv == ASSUME CallInv, StackRecord PROVE CallInv'
<1>1. pc = "record" /\ Pending = {} /\ UNCHANGED <<call, vec, at, img>>
  BY DEF StackRecord, Pending, space
<1>2. CASE Alloc("record") /\ Goto("vectors")
  <2>1. CallTypeInv' /\ VecInv' /\ Owned' = Owned /\ Pending' = {} /\ Lost' = Lost
    BY <1>1, <1>2, LaterStep DEF Later, Preparing, CallInv, CallTypeInv, Before, Alloc, Goto
  <2>2. /\ Held = Base \cup Named({"base"}) /\ Possible = Lost
        /\ heap' = heap \cup Named({"record"}) /\ pc' = "vectors"
    BY <1>1, <1>2, HeldIs DEF Later, Preparing, Alloc, Goto
  <2>3. Held' = Base \cup Block /\ Possible' = Lost'
    BY <2>2 DEF Held, Base, Block, Preparing, Named, Possible
  <2> QED
    BY <1>1, <2>1, <2>2, <2>3 DEF CallInv, HeapInv, Block
<1> QED
  BY <1>1, <1>2, PrepareFailsInv DEF StackRecord

LEMMA StackVectorsInv == ASSUME CallInv, StackVectors PROVE CallInv'
<1>1. pc = "vectors" /\ Pending = {} /\ UNCHANGED <<call, vec, at, img>>
  BY DEF StackVectors, Pending, space
<1>2. CASE PrepareFails
  BY <1>1, <1>2, PrepareFailsInv
<1>3. CASE ~PrepareFails
  <2>1. PICK new \in SUBSET Scratch : heap' = heap \cup new /\ pc' = "build" /\ bad' = bad
    BY <1>3 DEF StackVectors, Goto
  <2>2. CallTypeInv' /\ VecInv' /\ Owned' = Owned /\ Pending' = {} /\ Lost' = Lost
    BY <1>1, <2>1, LaterStep DEF Later, Preparing, CallInv, CallTypeInv, Before
  <2>3. Held = Base \cup Block /\ Possible = Lost
    BY <1>1, HeldIs DEF Later, Preparing
  <2>4. Held' = Base \cup Block /\ Possible' = Scratch \cup Lost'
    BY <2>1 DEF Held, Base, Block, Preparing, Named, Possible
  <2> QED
    BY <1>1, <2>1, <2>2, <2>3, <2>4 DEF CallInv, HeapInv
<1> QED
  BY <1>2, <1>3

LEMMA BuildStackInv == ASSUME CallInv, BuildStack PROVE CallInv'
<1>1. /\ pc = "build" /\ Pending = {} /\ Scratch \subseteq heap /\ UNCHANGED <<call, vec, at, img>>
      /\ heap' = heap \ Scratch /\ bad' = bad /\ pc' = "replace"
  BY DEF BuildStack, Pending, Free, Goto
<1>2. CallTypeInv' /\ VecInv' /\ Owned' = Owned /\ Pending' = {} /\ Lost' = Lost
  BY <1>1, LaterStep DEF Later, Preparing, CallInv, CallTypeInv, Before
<1>3. Held = Base \cup Block /\ Possible = Scratch \cup Lost
  BY <1>1, HeldIs
<1>4. Held' = Base \cup Block /\ Possible' = Lost'
  BY <1>1 DEF Held, Base, Block, Preparing, Named, Possible
<1>5. Scratch \cap Owned = {} /\ Scratch \cap Lost = {}
  BY LoadersApart DEF CallInv, Loaders
<1>6. Scratch \cap (Base \cup Block) = {}
  BY NamedIs DEF Scratch, Base, Block
<1> QED
  BY <1>1, <1>2, <1>3, <1>4, <1>5, <1>6 DEF CallInv, HeapInv

LEMMA BuildFailsInv == ASSUME CallInv, BuildFails PROVE CallInv'
<1> DEFINE set == (heap \cap Scratch) \cup Named({"l4", "base", "record"})
<1>1. /\ pc = "build" /\ Pending = {} /\ UNCHANGED <<call, vec, at, img>> /\ pc' = "out" /\ Free(set)
  BY DEF BuildFails, Pending, Goto, space
<1>2. Base \cup Block \subseteq heap /\ heap \subseteq Owned \cup Base \cup Block \cup Scratch \cup Lost
  BY <1>1, HeldIs DEF CallInv, HeapInv
<1>3. Named({"l4", "base", "record"}) = Named({"l4"}) \cup Block
  BY DEF Block, Named
<1>4. set \in SUBSET Loaders
  BY DEF Loaders, Named
<1>5. heap \cap Loaders \subseteq set
  BY <1>2, <1>3, LoadersApart DEF CallInv, Base
<1>6. set \subseteq heap
  BY <1>2, <1>3 DEF Base
<1>7. pc \in {"load", "base"} \cup Preparing
  BY <1>1 DEF Preparing
<1> HIDE DEF set
<1> QED
  BY <1>1, <1>4, <1>5, <1>6, <1>7, LoaderFails

LEMMA ReplaceInv == ASSUME CallInv, Replace PROVE CallInv'
<1>1. /\ pc = "replace" /\ Pending = {} /\ UNCHANGED <<call, vec, at, img>> /\ pc' = "out"
      /\ heap' = heap \ Named({"l4", "base", "record"}) /\ bad' = bad
  BY DEF Replace, Pending, Goto, space
<1>2. CallTypeInv' /\ VecInv' /\ Owned' = Owned /\ Pending' = {} /\ Lost' = Lost
  BY <1>1, LaterStep DEF Later, Preparing, CallInv, CallTypeInv, Before
<1>3. Held = Base \cup Block /\ Possible = Lost
  BY <1>1, HeldIs DEF Later, Preparing
<1>4. Held' = Named({"path"}) /\ Possible' = Named({"image"}) \cup Lost'
  BY <1>1 DEF Held, Preparing, Possible
<1>5. Named({"l4", "base", "record"}) = Named({"l4"}) \cup Block /\ Named({"l4", "base", "record"}) \subseteq Loaders
  BY DEF Block, Named, Loaders
<1> QED
  BY <1>1, <1>2, <1>3, <1>4, <1>5, LoadersApart DEF CallInv, HeapInv, Base

LEMMA OutInv == ASSUME CallInv, Out PROVE CallInv'
<1> DEFINE last == Named({"path"}) \cup (heap \cap Named({"image"}))
<1>1. /\ pc = "out" /\ Pending = {} /\ UNCHANGED <<call, vec, at, img>> /\ pc' = "done"
      /\ heap' = heap \ (Owned \cup last)
      /\ bad' = bad \cup ((Owned \cup last) \ heap) \cup (Owned \cap last)
  BY DEF Out, Owned, Pending, Goto, space
<1>2. Owned \cup Named({"path"}) \subseteq heap
      /\ heap \subseteq Owned \cup Named({"path"}) \cup Named({"image"}) \cup Lost
  BY <1>1, HeldIs DEF CallInv, HeapInv
<1>3. Owned \cap last = {}
  BY OwnedApart, NamedIs DEF CallInv
<1>4. bad' = bad
  BY <1>1, <1>2, <1>3
<1>5. CallTypeInv' /\ VecInv' /\ Lost' = Lost
  BY <1>1, <1>4, LaterStep DEF Later, CallInv, CallTypeInv, Before
<1>6. heap' \subseteq Lost
  BY <1>1, <1>2
<1>7. Possible' = Lost'
  BY <1>1 DEF Possible
<1> QED
  BY <1>1, <1>5, <1>6, <1>7 DEF CallInv, HeapInv

\* (inductive invariant) At each place of execve the heap holds what the vectors
\* own, the vector being copied and what the loader has allocated by then.
THEOREM CallInvariant == ExecSpec => []CallInv
<1>1. ExecInit => CallInv
  <2> SUFFICES ASSUME ExecInit PROVE CallInv
    OBVIOUS
  <2>1. pc = "begin" /\ heap = {} /\ bad = {} /\ at = 1 /\ img = "main"
        /\ vec = [w \in {"argv", "envp"} |-> NULL] /\ call.argv \in Vectors /\ call.envp \in Vectors
    BY DEF ExecInit
  <2>2. CallTypeInv
    BY <2>1 DEF CallTypeInv, Before, Locations
  <2>3. VecInv
    BY <2>1, ExecveAssumption DEF VecInv, Copying
  <2>4. Owned = {} /\ Pending = {} /\ Held = {}
    BY <2>1, <2>2, VectorFreesIs DEF Owned, Pending, Held, Named
  <2> QED
    BY <2>1, <2>2, <2>3, <2>4 DEF CallInv, HeapInv
<1>2. CallInv /\ [ExecNext]_execVars => CallInv'
  <2> SUFFICES ASSUME CallInv, [ExecNext]_execVars PROVE CallInv'
    OBVIOUS
  <2>1. CASE Begin
    BY <2>1, BeginInv
  <2>2. ASSUME NEW w \in {"argv", "envp"}, CopyBegins(w) \/ CopyString(w) \/ CopyEnds(w) PROVE CallInv'
    BY <2>2, CopyBeginsInv, CopyStringInv, CopyEndsInv
  <2>3. CASE LoneArgv \/ ReadImage \/ Prepare
    BY <2>3, LoneArgvInv, ReadImageInv, PrepareInv
  <2>4. CASE LoadPhdr \/ LoadSegment
    BY <2>4, LoadStepInv DEF LoadPhdr, LoadSegment, Visits
  <2>5. CASE LoadFails \/ ReadInterp \/ LoadEnds
    BY <2>5, LoadFailsInv, ReadInterpInv, LoadEndsInv
  <2>6. CASE StackBlock \/ StackRecord \/ StackVectors
    BY <2>6, StackBlockInv, StackRecordInv, StackVectorsInv
  <2>7. CASE BuildStack \/ BuildFails \/ Replace \/ Out
    BY <2>7, BuildStackInv, BuildFailsInv, ReplaceInv, OutInv
  <2>8. CASE UNCHANGED execVars
    <3>1. UNCHANGED <<pc, call, heap, bad, vec, at, img>>
      BY <2>8 DEF execVars, space
    <3>2. CallTypeInv'
      BY <3>1 DEF CallInv, CallTypeInv
    <3>3. VecInv'
      BY <3>1 DEF CallInv, VecInv, Count
    <3>4. Owned' = Owned /\ Pending' = Pending /\ Held' = Held /\ Possible' = Possible
      BY <3>1, OwnedSame DEF Pending, Held, Possible, Lost
    <3> QED
      BY <3>1, <3>2, <3>3, <3>4 DEF CallInv, HeapInv
  <2> QED
    BY <2>1, <2>2, <2>3, <2>4, <2>5, <2>6, <2>7, <2>8 DEF ExecNext, Returned
<1> QED
  BY <1>1, <1>2, PTL DEF ExecSpec

\* AllocationsBalanced for any vectors, programs and bounds: exec_copy_strvec,
\* elf_prepare and the label out of execve free each allocation exactly once.
THEOREM AllocationsBalancedAlways == ExecSpec => []AllocationsBalanced
<1>1. CallInv => AllocationsBalanced
  BY DEF CallInv, CallTypeInv, HeapInv, Possible, Lost, AllocationsBalanced
<1> QED
  BY <1>1, CallInvariant, PTL

-----------------------------------------------------------------------------
(* Execve: the initial stack. *)

\* A set of numbers that holds 0 and what follows each of its numbers holds all.
LEMMA AllNumbers ==
    ASSUME NEW S, 0 \in S, \A n \in Nat : n \in S => n + 1 \in S
    PROVE  \A n \in Nat : n \in S
<1> SUFFICES ASSUME NEW n \in Nat, n \notin S PROVE FALSE
  OBVIOUS
<1>1. PICK m \in Nat \ S : \A k \in Nat \ S : m <= k
  BY LowestExists
<1>2. m # 0 /\ m - 1 \in Nat
  BY <1>1
<1>3. m - 1 \in S
  BY <1>1, <1>2
<1> QED
  BY <1>1, <1>2, <1>3

-----------------------------------------------------------------------------
(* The bytes of the strings. *)

LEMMA BytesExist ==
    ASSUME NEW v \in Seq(Nat)
    PROVE  \E f : f = [j \in Nat |-> IF j \in DOMAIN v THEN v[j] + f[j + 1] ELSE 0]
<1> DEFINE Good(k, f) == /\ f \in [Nat -> Nat]
                         /\ \A j \in Nat : j \notin DOMAIN v => f[j] = 0
                         /\ \A j \in DOMAIN v : j + k > Len(v) => f[j] = v[j] + f[j + 1]
           S == {k \in Nat : \E f : Good(k, f)}
<1>0. Len(v) \in Nat /\ DOMAIN v = 1..Len(v) /\ \A j \in DOMAIN v : v[j] \in Nat
  OBVIOUS
<1>1. 0 \in S
  <2>1. Good(0, [j \in Nat |-> 0])
    BY <1>0
  <2> QED
    BY <2>1
<1>2. ASSUME NEW k \in Nat, k \in S PROVE k + 1 \in S
  <2>1. PICK f : Good(k, f)
    BY <1>2
  <2> HIDE DEF Good, S
  <2>2. \E f2 : Good(k + 1, f2)
    <3>0. PICK l \in Nat : l = Len(v)
      BY <1>0
    <3>a. l - k \in Int
      OBVIOUS
    <3>1. PICK d \in Int : d = l - k
      BY <3>a
    <3>2. ASSUME NEW j \in DOMAIN v, j + (k + 1) > Len(v) PROVE j \in Nat /\ (j = d \/ j + k > Len(v))
      <4>1. j \in Nat
        BY <1>0
      <4> QED
        BY <3>0, <3>1, <3>2, <4>1
    <3>3. CASE d \notin DOMAIN v
      <4>1. Good(k + 1, f)
        BY <2>1, <3>2, <3>3 DEF Good
      <4> QED
        BY <4>1
    <3>4. CASE d \in DOMAIN v
      <4>1. d \in Nat /\ d + 1 \in Nat /\ v[d] \in Nat
        BY <1>0, <3>4
      <4>2. f[d + 1] \in Nat /\ v[d] + f[d + 1] \in Nat
        <5>1. f[d + 1] \in Nat
          BY <2>1, <4>1 DEF Good
        <5> QED
          BY <4>1, <5>1
      <4>3. PICK g : g = [f EXCEPT ![d] = v[d] + f[d + 1]]
        OBVIOUS
      <4>4. g \in [Nat -> Nat] /\ g[d] = v[d] + f[d + 1] /\ \A j \in Nat : j # d => g[j] = f[j]
        BY <2>1, <4>1, <4>2, <4>3 DEF Good
      <4>5. \A j \in Nat : j \notin DOMAIN v => g[j] = 0
        BY <2>1, <3>4, <4>4 DEF Good
      <4>6. ASSUME NEW j \in DOMAIN v, j + (k + 1) > Len(v) PROVE g[j] = v[j] + g[j + 1]
        <5>1. j \in Nat /\ j + 1 \in Nat /\ j + 1 # d
          BY <1>0, <3>0, <3>1, <3>2, <4>1, <4>6
        <5>2. g[j + 1] = f[j + 1]
          BY <4>4, <5>1
        <5>3. CASE j = d
          BY <4>4, <5>2, <5>3
        <5>4. CASE j # d
          <6>1. f[j] = v[j] + f[j + 1]
            BY <2>1, <3>2, <4>6, <5>4 DEF Good
          <6> QED
            BY <4>4, <5>1, <5>2, <5>4, <6>1
        <5> QED
          BY <5>3, <5>4
      <4>7. Good(k + 1, g)
        BY <4>4, <4>5, <4>6 DEF Good
      <4> QED
        BY <4>7
    <3> QED
      BY <3>3, <3>4
  <2> QED
    BY <2>2 DEF S
<1>3. Len(v) \in S
  <2> HIDE DEF S
  <2> QED
    BY <1>0, <1>1, <1>2, AllNumbers
<1>4. PICK f : Good(Len(v), f)
  BY <1>3
<1>5. ASSUME NEW j \in Nat PROVE f[j] = IF j \in DOMAIN v THEN v[j] + f[j + 1] ELSE 0
  <2>1. CASE j \in DOMAIN v
    <3>1. j + Len(v) > Len(v)
      BY <1>0, <2>1
    <3> QED
      BY <1>4, <2>1, <3>1
  <2>2. CASE j \notin DOMAIN v
    BY <1>4, <2>2
  <2> QED
    BY <2>1, <2>2
<1>6. f = [j \in Nat |-> IF j \in DOMAIN v THEN v[j] + f[j + 1] ELSE 0]
  BY <1>4, <1>5
<1> QED
  BY <1>6

LEMMA BytesStep ==
    ASSUME NEW v \in Seq(Nat), NEW i \in Nat
    PROVE  Bytes(v, i) = IF i \in DOMAIN v THEN v[i] + Bytes(v, i + 1) ELSE 0
<1> DEFINE from == CHOOSE f : f = [j \in Nat |-> IF j \in DOMAIN v THEN v[j] + f[j + 1] ELSE 0]
<1>1. from = [j \in Nat |-> IF j \in DOMAIN v THEN v[j] + from[j + 1] ELSE 0]
  BY BytesExist
<1>2. \A j : Bytes(v, j) = from[j]
  BY DEF Bytes
<1> HIDE DEF from
<1>3. from[i] = IF i \in DOMAIN v THEN v[i] + from[i + 1] ELSE 0
  BY <1>1
<1> QED
  BY <1>2, <1>3

\* Numbers of bytes do not grow towards the end.
LEMMA BytesFall ==
    ASSUME NEW v \in Seq(Nat)
    PROVE  /\ \A i \in Nat : Bytes(v, i) \in Nat
           /\ \A i, j \in Nat \ {0} : i <= j => Bytes(v, j) <= Bytes(v, i)
<1>0. Len(v) \in Nat /\ DOMAIN v = 1..Len(v) /\ \A j \in DOMAIN v : v[j] \in Nat
  OBVIOUS
<1>1. \A i \in Nat : Bytes(v, i) \in Nat
  <2> DEFINE S == {k \in Nat : \A i \in Nat : i + k > Len(v) => Bytes(v, i) \in Nat}
  <2>1. 0 \in S
    BY <1>0, BytesStep
  <2>2. ASSUME NEW k \in Nat, k \in S PROVE k + 1 \in S
    <3> SUFFICES ASSUME NEW i \in Nat, i + (k + 1) > Len(v) PROVE Bytes(v, i) \in Nat
      OBVIOUS
    <3>1. Bytes(v, i + 1) \in Nat
      BY <1>0, <2>2
    <3>2. CASE i \in DOMAIN v
      <4>1. v[i] \in Nat /\ Bytes(v, i) = v[i] + Bytes(v, i + 1)
        BY <1>0, <3>2, BytesStep
      <4> QED
        BY <3>1, <4>1
    <3>3. CASE i \notin DOMAIN v
      BY <3>3, BytesStep
    <3> QED
      BY <3>2, <3>3
  <2>3. Len(v) + 1 \in S
    <3> HIDE DEF S
    <3> QED
      BY <1>0, <2>1, <2>2, AllNumbers
  <2> QED
    BY <1>0, <2>3
<1>2. ASSUME NEW i \in Nat \ {0} PROVE Bytes(v, i + 1) <= Bytes(v, i)
  <2>1. Bytes(v, i) \in Nat /\ Bytes(v, i + 1) \in Nat
    BY <1>1
  <2>2. CASE i \in DOMAIN v
    <3>1. v[i] \in Nat /\ Bytes(v, i) = v[i] + Bytes(v, i + 1)
      BY <1>0, <2>2, BytesStep
    <3> QED
      BY <2>1, <3>1
  <2>3. CASE i \notin DOMAIN v
    <3>1. i + 1 \notin DOMAIN v
      BY <1>0, <2>3
    <3> QED
      BY <2>1, <3>1, BytesStep
  <2> QED
    BY <2>2, <2>3
<1>3. ASSUME NEW i \in Nat \ {0} PROVE \A k \in Nat : Bytes(v, i + k) <= Bytes(v, i)
  <2> DEFINE S == {k \in Nat : Bytes(v, i + k) <= Bytes(v, i)}
  <2>1. 0 \in S
    BY <1>1
  <2>2. ASSUME NEW k \in Nat, k \in S PROVE k + 1 \in S
    <3>1. Bytes(v, (i + k) + 1) <= Bytes(v, i + k) /\ i + k \in Nat \ {0}
      BY <1>2
    <3>2. (i + k) + 1 = i + (k + 1)
      OBVIOUS
    <3>3. Bytes(v, i + (k + 1)) \in Nat /\ Bytes(v, i + k) \in Nat /\ Bytes(v, i) \in Nat
      BY <1>1
    <3> QED
      BY <2>2, <3>1, <3>2, <3>3
  <2> HIDE DEF S
  <2>3. \A k \in Nat : k \in S
    BY <2>1, <2>2, AllNumbers
  <2> QED
    BY <2>3 DEF S
<1>4. ASSUME NEW i \in Nat \ {0}, NEW j \in Nat \ {0}, i <= j PROVE Bytes(v, j) <= Bytes(v, i)
  <2>1. j - i \in Nat /\ i + (j - i) = j
    BY <1>4
  <2> QED
    BY <1>3, <2>1
<1> QED
  BY <1>1, <1>4

-----------------------------------------------------------------------------
(* The strings that exec_copy_strvec accepts. *)

\* Strings of a vector that have been copied.
Done(w) ==
    IF pc = Copying(w) THEN at - 1
    ELSE IF pc \in {"begin", "argv"} \/ (w = "envp" /\ pc \in {"argv copy", "envp"}) THEN 0
    ELSE Count(w)

\* Bytes of the first n strings.
Taken(w, n) == IF call[w] = NULL THEN 0 ELSE Bytes(call[w], 1) - Bytes(call[w], n + 1)

\* The budget is what the strings copied so far leave, none is empty, and a vector
\* whose copy has begun is short enough.
BudgetInv ==
    pc \notin {"out", "done"} =>
        /\ budget \in Nat
        /\ budget = MaxArgBytes - Taken("argv", Done("argv")) - Taken("envp", Done("envp"))
        /\ \A w \in {"argv", "envp"} :
            /\ \A i \in 1..Done(w) : call[w][i] # 0
            /\ Count(w) > MaxArgs =>
                pc \in {"begin", "argv"} \/ (w = "envp" /\ pc \in {"argv copy", "envp"})

Accepted ==
    /\ Taken("argv", Count("argv")) + Taken("envp", Count("envp")) <= MaxArgBytes
    /\ \A w \in {"argv", "envp"} :
        /\ Count(w) <= MaxArgs
        /\ \A i \in 1..Count(w) : call[w][i] # 0

StackInv == stack # NULL => Accepted /\ stack = InitialStack

ArgInv == CallInv /\ BudgetInv /\ StackInv

LEMMA TakenIs ==
    ASSUME CallTypeInv, NEW w \in {"argv", "envp"}
    PROVE  /\ Taken(w, 0) = 0
           /\ \A n \in Nat : Taken(w, n) \in Nat
           /\ \A n \in 1..Count(w) : call[w][n] \in Nat /\ Taken(w, n) = Taken(w, n - 1) + call[w][n]
<1>1. CASE call[w] = NULL
  BY <1>1 DEF Taken, Count
<1>2. CASE call[w] # NULL
  <2>1. call[w] \in Seq(Nat) /\ Count(w) = Len(call[w]) /\ Count(w) \in Nat
    BY <1>2, CountType
  <2>2. PICK v \in Seq(Nat) : v = call[w] /\ Len(v) \in Nat
    BY <2>1
  <2>3. \A n \in Nat : Taken(w, n) = Bytes(v, 1) - Bytes(v, n + 1)
    BY <1>2, <2>2 DEF Taken
  <2>4. \A n \in Nat : Bytes(v, n) \in Nat
    BY BytesFall
  <2>5. ASSUME NEW n \in Nat PROVE Taken(w, n) \in Nat
    <3>1. Bytes(v, n + 1) <= Bytes(v, 1)
      BY BytesFall
    <3>2. Bytes(v, n + 1) \in Nat /\ Bytes(v, 1) \in Nat
      BY <2>4
    <3>3. Taken(w, n) = Bytes(v, 1) - Bytes(v, n + 1)
      BY <2>3
    <3> QED
      BY <3>1, <3>2, <3>3
  <2>6. Taken(w, 0) = 0
    <3>1. Taken(w, 0) = Bytes(v, 1) - Bytes(v, 0 + 1) /\ Bytes(v, 1) \in Nat
      BY <2>3, <2>4
    <3> QED
      BY <3>1
  <2>7. ASSUME NEW n \in 1..Count(w) PROVE call[w][n] \in Nat /\ Taken(w, n) = Taken(w, n - 1) + call[w][n]
    <3>1. n \in Nat /\ n + 1 \in Nat /\ n - 1 \in Nat /\ (n - 1) + 1 = n /\ n \in DOMAIN v
      BY <2>1, <2>2
    <3>2. v[n] \in Nat
      BY <3>1
    <3>3. Bytes(v, n) = v[n] + Bytes(v, n + 1)
      BY <3>1, BytesStep
    <3>4. Taken(w, n) = Bytes(v, 1) - Bytes(v, n + 1) /\ Taken(w, n - 1) = Bytes(v, 1) - Bytes(v, n)
      BY <2>3, <3>1
    <3>5. Bytes(v, 1) \in Nat /\ Bytes(v, n) \in Nat /\ Bytes(v, n + 1) \in Nat
      BY <2>4, <3>1
    <3> QED
      BY <2>2, <3>2, <3>3, <3>4, <3>5
  <2> QED
    BY <2>5, <2>6, <2>7
<1> QED
  BY <1>1, <1>2

\* Steps that end the call, and steps after the copies.
LEMMA BudgetLater ==
    ASSUME CallTypeInv, BudgetInv, UNCHANGED call,
           \/ pc' \in {"out", "done"}
           \/ pc \in Later \ {"out", "done"} /\ pc' \in Later /\ UNCHANGED budget
    PROVE  BudgetInv'
<1>1. CASE pc' \in {"out", "done"}
  BY <1>1 DEF BudgetInv
<1>2. CASE pc' \notin {"out", "done"}
  <2>1. pc \in Later \ {"out", "done"} /\ pc' \in Later \ {"out", "done"} /\ UNCHANGED <<call, budget>>
    BY <1>2
  <2>2. \A w \in {"argv", "envp"} : Done(w) = Count(w) /\ Done(w)' = Count(w)
    BY <2>1 DEF Done, Copying, Later, Preparing, Count
  <2>3. \A w \in {"argv", "envp"} : /\ \A n : Taken(w, n)' = Taken(w, n) 
                                   /\ Count(w)' = Count(w)
    BY <2>1 DEF Taken, Count
  <2>4. \A w \in {"argv", "envp"} : ~(Count(w) > MaxArgs)
    BY <2>1 DEF BudgetInv, Later, Preparing
  <2>5. budget' \in Nat /\ budget' = MaxArgBytes - Taken("argv", Done("argv"))' - Taken("envp", Done("envp"))'
    <3>1. budget \in Nat /\ budget = MaxArgBytes - Taken("argv", Count("argv")) - Taken("envp", Count("envp"))
      BY <2>1, <2>2 DEF BudgetInv
    <3>2. \A w \in {"argv", "envp"} : Taken(w, Done(w))' = Taken(w, Count(w))
      BY <2>1, <2>2 DEF Taken
    <3> QED
      BY <2>1, <3>1, <3>2
  <2>6. \A w \in {"argv", "envp"} : \A i \in 1..Done(w)' : call'[w][i] # 0
    BY <2>1, <2>2 DEF BudgetInv
  <2> QED
    BY <2>3, <2>4, <2>5, <2>6 DEF BudgetInv
<1> QED
  BY <1>1, <1>2

LEMMA BudgetBegin == ASSUME CallTypeInv, BudgetInv, Begin PROVE BudgetInv'
<1>1. pc = "begin" /\ pc' \in {"argv", "done"} /\ UNCHANGED <<call, budget>>
  BY DEF Begin, Goto
<1>2. CASE pc' = "done"
  BY <1>1, <1>2, BudgetLater
<1>3. CASE pc' = "argv"
  <2>1. \A w \in {"argv", "envp"} : Done(w) = 0 /\ Done(w)' = 0
    BY <1>1, <1>3, Places DEF Done
  <2>2. \A w \in {"argv", "envp"} : Taken(w, Done(w))' = Taken(w, Done(w))
    BY <1>1, <2>1 DEF Taken
  <2>3. budget' \in Nat /\ budget' = MaxArgBytes - Taken("argv", Done("argv"))' - Taken("envp", Done("envp"))'
    BY <1>1, <2>2 DEF BudgetInv
  <2>4. \A w \in {"argv", "envp"} : 1..Done(w)' = {}
    BY <2>1
  <2> QED
    BY <1>3, <2>3, <2>4 DEF BudgetInv
<1> QED
  BY <1>1, <1>2, <1>3

LEMMA BudgetCopyBegins ==
    ASSUME CallInv, BudgetInv, NEW w \in {"argv", "envp"}, CopyBegins(w) PROVE BudgetInv'
<1>1. pc = w /\ pc' \in {AfterVector(w), "out", Copying(w)} /\ UNCHANGED <<call, budget>> /\ at' = 1
  BY DEF CopyBegins, Goto
<1>2. CASE pc' = "out"
  BY <1>1, <1>2, BudgetLater DEF CallInv
<1>3. CASE pc' # "out"
  <2>1. Count(w) = 0 \/ (pc' = Copying(w) /\ ~(Count(w) > MaxArgs))
    <3>1. CASE call[w] = NULL
      BY <3>1 DEF Count
    <3>2. CASE call[w] # NULL
      <4>1. Count(w) \in Nat /\ MaxArgs \in Nat
        BY CountType, ExecveAssumption DEF CallInv
      <4> QED
        BY <1>3, <3>2, <4>1 DEF CopyBegins, Goto
    <3> QED
      BY <3>1, <3>2
  <2>2. Done(w)' = 0 /\ Done(w) = 0
    <3>1. Count(w)' = Count(w)
      BY <1>1 DEF Count
    <3>2. Done(w) = 0
      BY <1>1, Places DEF Done
    <3>3. CASE pc' = Copying(w)
      <4>1. Done(w)' = at' - 1 /\ at' - 1 = 0
        <5>1. at' - 1 = 0
          BY <1>1
        <5> QED
          BY <3>3, <5>1 DEF Done
      <4> QED
        BY <3>2, <4>1
    <3>4. CASE pc' = AfterVector(w) /\ pc' # Copying(w)
      BY <2>1, <3>1, <3>2, <3>4, Places DEF Done
    <3> QED
      BY <1>1, <1>3, <3>3, <3>4
  <2>3. \A v \in {"argv", "envp"} : v # w => Done(v)' = Done(v)
    BY <1>1, <1>3, Places DEF Done, Count
  <2>4. \A v \in {"argv", "envp"} : Done(v)' = Done(v)
    BY <2>2, <2>3
  <2>5. \A v \in {"argv", "envp"} : Taken(v, Done(v))' = Taken(v, Done(v)) /\ Count(v)' = Count(v)
    BY <1>1, <2>4 DEF Taken, Count
  <2>6. pc \notin {"out", "done"}
    BY <1>1
  <2>7. budget' \in Nat /\ budget' = MaxArgBytes - Taken("argv", Done("argv"))' - Taken("envp", Done("envp"))'
    BY <1>1, <2>5, <2>6 DEF BudgetInv
  <2>8. \A v \in {"argv", "envp"} : \A i \in 1..Done(v)' : call'[v][i] # 0
    BY <1>1, <2>4, <2>6 DEF BudgetInv
  <2>9. ASSUME NEW v \in {"argv", "envp"}, Count(v) > MaxArgs
        PROVE  pc' \in {"begin", "argv"} \/ (v = "envp" /\ pc' \in {"argv copy", "envp"})
    <3>1. ~(0 > MaxArgs)
      BY ExecveAssumption
    <3>2. v # w
      BY <2>1, <2>9, <3>1
    <3>3. pc \in {"begin", "argv"} \/ (v = "envp" /\ pc \in {"argv copy", "envp"})
      BY <2>6, <2>9 DEF BudgetInv
    <3>4. w = "argv" /\ v = "envp"
      <4>1. CASE w = "envp"
        BY <1>1, <3>2, <3>3, <4>1
      <4>2. CASE w = "argv"
        BY <3>2, <4>2
      <4> QED
        BY <4>1, <4>2
    <3>5. pc' \in {"envp", "argv copy"}
      BY <1>1, <1>3, <3>4, Places
    <3> QED
      BY <3>4, <3>5
  <2> QED
    BY <2>5, <2>7, <2>8, <2>9 DEF BudgetInv
<1> QED
  BY <1>2, <1>3

LEMMA BudgetCopyString ==
    ASSUME CallInv, BudgetInv, NEW w \in {"argv", "envp"}, CopyString(w) PROVE BudgetInv'
<1>1. pc = Copying(w) /\ at <= Count(w) /\ UNCHANGED call
  BY DEF CopyString
<1>2. CASE CopyFails(w)
  BY <1>1, <1>2, BudgetLater DEF CallInv, CopyFails, Goto
<1>3. CASE ~CopyFails(w)
  <2>1. call[w][at] # 0 /\ call[w][at] <= budget /\ budget' = budget - call[w][at] /\ at' = at + 1 /\ UNCHANGED pc
    BY <1>3 DEF CopyString, Fits
  <2>2. at \in 1..Count(w) /\ Count(w) \in Nat /\ at \in Nat /\ at - 1 \in Nat
    BY <1>1, CountType DEF CallInv, CallTypeInv
  <2>3. call[w][at] \in Nat /\ Taken(w, at) = Taken(w, at - 1) + call[w][at]
    BY <2>2, TakenIs DEF CallInv
  <2>4. Done(w) = at - 1 /\ Done(w)' = at
    BY <1>1, <2>1, <2>2 DEF Done
  <2>5. \A v \in {"argv", "envp"} : v # w => Done(v)' = Done(v)
    BY <1>1, <2>1, Places DEF Done, Count
  <2>6. \A v \in {"argv", "envp"} : /\ v # w => Taken(v, Done(v))' = Taken(v, Done(v))
                                    /\ Count(v)' = Count(v)
    BY <1>1, <2>5 DEF Taken, Count
  <2>7. Taken(w, Done(w))' = Taken(w, at)
    BY <1>1, <2>4 DEF Taken
  <2>8. pc \notin {"out", "done"}
    BY <1>1, Places
  <2>9. budget' \in Nat /\ budget' = MaxArgBytes - Taken("argv", Done("argv"))' - Taken("envp", Done("envp"))'
    <3>1. budget \in Nat /\ budget = MaxArgBytes - Taken("argv", Done("argv")) - Taken("envp", Done("envp"))
      BY <2>8 DEF BudgetInv
    <3>2. \A v \in {"argv", "envp"} : Done(v) \in Nat
      BY <2>2, <2>4, CountType DEF Done, CallInv, CallTypeInv
    <3>3. \A v \in {"argv", "envp"} : Taken(v, Done(v)) \in Nat
      BY <3>2, TakenIs DEF CallInv
    <3>4. MaxArgBytes \in Nat
      BY ExecveAssumption
    <3>5. CASE w = "argv"
      <4>1. Taken("argv", Done("argv"))' = Taken("argv", Done("argv")) + call[w][at]
        BY <2>3, <2>4, <2>7, <3>5
      <4>2. Taken("envp", Done("envp"))' = Taken("envp", Done("envp"))
        BY <2>6, <3>5
      <4> QED
        BY <2>1, <2>3, <3>1, <3>3, <3>4, <4>1, <4>2
    <3>6. CASE w = "envp"
      <4>1. Taken("envp", Done("envp"))' = Taken("envp", Done("envp")) + call[w][at]
        BY <2>3, <2>4, <2>7, <3>6
      <4>2. Taken("argv", Done("argv"))' = Taken("argv", Done("argv"))
        BY <2>6, <3>6
      <4> QED
        BY <2>1, <2>3, <3>1, <3>3, <3>4, <4>1, <4>2
    <3> QED
      BY <3>5, <3>6
  <2>10. ASSUME NEW v \in {"argv", "envp"}, NEW i \in 1..Done(v)' PROVE call'[v][i] # 0
    <3>1. CASE v = w
      <4>1. i = at \/ i \in 1..Done(w)
        BY <2>2, <2>4, <2>10, <3>1
      <4> QED
        BY <1>1, <2>1, <2>8, <3>1, <4>1 DEF BudgetInv
    <3>2. CASE v # w
      BY <1>1, <2>5, <2>8, <2>10, <3>2 DEF BudgetInv
    <3> QED
      BY <3>1, <3>2
  <2> QED
    BY <2>1, <2>6, <2>8, <2>9, <2>10 DEF BudgetInv
<1> QED
  BY <1>2, <1>3

LEMMA BudgetCopyEnds ==
    ASSUME CallInv, BudgetInv, NEW w \in {"argv", "envp"}, CopyEnds(w) PROVE BudgetInv'
<1>1. pc = Copying(w) /\ at > Count(w) /\ pc' = AfterVector(w) /\ UNCHANGED <<call, budget>>
  BY DEF CopyEnds, Goto
<1>2. at \in Nat /\ Count(w) \in Nat /\ Count(w) = at - 1
  <2>1. at \in Nat /\ Count(w) \in Nat
    BY CountType DEF CallInv, CallTypeInv
  <2>2. at - 1 <= Count(w)
    BY <1>1 DEF CallInv, VecInv
  <2> QED
    BY <1>1, <2>1, <2>2
<1>3. Done(w) = Count(w)
  BY <1>1, <1>2 DEF Done
<1>4. \A v \in {"argv", "envp"} : Count(v)' = Count(v)
  BY <1>1 DEF Count
<1>5. \A v \in {"argv", "envp"} : Done(v)' = Done(v)
  BY <1>1, <1>3, <1>4, Places DEF Done
<1>6. \A v \in {"argv", "envp"} : Taken(v, Done(v))' = Taken(v, Done(v))
  BY <1>1, <1>5 DEF Taken
<1>7. pc \notin {"out", "done"}
  BY <1>1, Places
<1>8. budget' \in Nat /\ budget' = MaxArgBytes - Taken("argv", Done("argv"))' - Taken("envp", Done("envp"))'
  BY <1>1, <1>6, <1>7 DEF BudgetInv
<1>9. \A v \in {"argv", "envp"} : \A i \in 1..Done(v)' : call'[v][i] # 0
  BY <1>1, <1>5, <1>7 DEF BudgetInv
<1>10. ASSUME NEW v \in {"argv", "envp"}, Count(v) > MaxArgs
       PROVE  pc' \in {"begin", "argv"} \/ (v = "envp" /\ pc' \in {"argv copy", "envp"})
  BY <1>1, <1>7, <1>10, Places DEF BudgetInv
<1> QED
  BY <1>4, <1>8, <1>9, <1>10 DEF BudgetInv

\* What the loader may rely on when it builds the stack.
LEMMA AcceptedLater ==
    ASSUME CallTypeInv, BudgetInv, pc \in Later \ {"out", "done"} PROVE Accepted
<1>1. \A w \in {"argv", "envp"} : Done(w) = Count(w) /\ Count(w) \in Nat
  BY CountType DEF Done, Copying, Later, Preparing
<1>2. \A w \in {"argv", "envp"} : Taken(w, Count(w)) \in Nat
  BY <1>1, TakenIs
<1>3. budget \in Nat /\ budget = MaxArgBytes - Taken("argv", Count("argv")) - Taken("envp", Count("envp"))
  BY <1>1 DEF BudgetInv
<1>4. Taken("argv", Count("argv")) + Taken("envp", Count("envp")) <= MaxArgBytes
  BY <1>2, <1>3, ExecveAssumption
<1>5. \A w \in {"argv", "envp"} : Count(w) <= MaxArgs
  <2>1. \A w \in {"argv", "envp"} : ~(Count(w) > MaxArgs)
    BY DEF BudgetInv, Later, Preparing
  <2> QED
    BY <1>1, <2>1, ExecveAssumption
<1>6. \A w \in {"argv", "envp"} : \A i \in 1..Count(w) : call[w][i] # 0
  BY <1>1 DEF BudgetInv
<1> QED
  BY <1>4, <1>5, <1>6 DEF Accepted

LEMMA AcceptedSame ==
    ASSUME UNCHANGED call PROVE Accepted' = Accepted /\ InitialStack' = InitialStack
<1>1. \A w \in {"argv", "envp"} : Count(w)' = Count(w)
  BY DEF Count
<1>2. \A w \in {"argv", "envp"} : Taken(w, Count(w))' = Taken(w, Count(w))
  BY <1>1 DEF Taken
<1>3. Argv' = Argv /\ Envp' = Envp
  BY <1>1 DEF Argv, Envp
<1> QED
  BY <1>1, <1>2, <1>3 DEF Accepted, InitialStack

LEMMA StackInvStep ==
    ASSUME CallInv, BudgetInv, StackInv, UNCHANGED call, UNCHANGED stack \/ BuildStack
    PROVE  StackInv'
<1>1. CASE UNCHANGED stack
  BY <1>1, AcceptedSame DEF StackInv
<1>2. CASE BuildStack
  <2>1. Accepted
    BY <1>2, AcceptedLater DEF CallInv, BuildStack, Later, Preparing
  <2> QED
    BY <1>2, <2>1, AcceptedSame DEF StackInv, BuildStack
<1> QED
  BY <1>1, <1>2

\* (inductive invariant) With CallInv: the budget of execve accounts for the
\* strings copied, and the initial stack is built from vectors that fit.
THEOREM ArgInvariant == ExecSpec => []ArgInv
<1>1. ExecInit => BudgetInv /\ StackInv
  <2> SUFFICES ASSUME ExecInit PROVE BudgetInv /\ StackInv
    OBVIOUS
  <2>1. pc = "begin" /\ budget = MaxArgBytes /\ stack = NULL /\ at = 1 /\ img = "main" /\ bad = {}
        /\ vec = [w \in {"argv", "envp"} |-> NULL] /\ call.argv \in Vectors /\ call.envp \in Vectors
    BY DEF ExecInit
  <2>2. CallTypeInv
    BY <2>1 DEF CallTypeInv, Before, Locations
  <2>3. \A w \in {"argv", "envp"} : Done(w) = 0 /\ Taken(w, 0) = 0
    BY <2>1, <2>2, TakenIs DEF Done, Copying
  <2>4. budget \in Nat /\ budget = MaxArgBytes - Taken("argv", Done("argv")) - Taken("envp", Done("envp"))
    BY <2>1, <2>3, ExecveAssumption
  <2>5. \A w \in {"argv", "envp"} : 1..Done(w) = {}
    BY <2>3
  <2> QED
    BY <2>1, <2>4, <2>5 DEF BudgetInv, StackInv
<1>2. CallInv /\ CallInv' /\ BudgetInv /\ StackInv /\ [ExecNext]_execVars => BudgetInv' /\ StackInv'
  <2> SUFFICES ASSUME CallInv, BudgetInv, StackInv, [ExecNext]_execVars PROVE BudgetInv' /\ StackInv'
    OBVIOUS
  <2>0. CallTypeInv
    BY DEF CallInv
  <2>1. CASE Begin
    BY <2>0, <2>1, BudgetBegin, StackInvStep DEF Begin, space
  <2>2. ASSUME NEW w \in {"argv", "envp"}, CopyBegins(w) \/ CopyString(w) \/ CopyEnds(w)
        PROVE  BudgetInv' /\ StackInv'
    <3>1. UNCHANGED call /\ UNCHANGED stack
      BY <2>2 DEF CopyBegins, CopyString, CopyEnds, space
    <3> QED
      BY <2>2, <3>1, BudgetCopyBegins, BudgetCopyString, BudgetCopyEnds, StackInvStep
  <2>3. CASE LoneArgv \/ ReadImage \/ Prepare \/ LoadPhdr \/ LoadSegment \/ LoadFails \/ ReadInterp \/ LoadEnds
    <3>1. UNCHANGED <<call, budget, stack>> /\ pc \in {"lookup", "prepare", "load"}
      BY <2>3 DEF LoneArgv, ReadImage, Prepare, LoadPhdr, LoadSegment, LoadFails, ReadInterp, LoadEnds, Loaded,
                  Visits, space
    <3>2. pc' \in {"lookup", "prepare", "load", "base", "out"}
      BY <2>3 DEF LoneArgv, ReadImage, Prepare, LoadPhdr, LoadSegment, LoadFails, ReadInterp, LoadEnds, Loaded,
                  Visits, Goto
    <3> QED
      BY <2>0, <3>1, <3>2, BudgetLater, StackInvStep DEF Later
  <2>4. CASE StackBlock \/ StackRecord \/ StackVectors \/ BuildStack \/ BuildFails \/ Replace \/ Out
    <3>1. UNCHANGED <<call, budget>> /\ pc \in {"base", "out"} \cup Preparing /\ (UNCHANGED stack \/ BuildStack)
      BY <2>4 DEF StackBlock, StackRecord, StackVectors, BuildStack, BuildFails, Replace, Out, Preparing, space
    <3>2. pc' \in {"base", "out", "done"} \cup Preparing /\ (pc = "out" => pc' = "done")
      BY <2>4 DEF StackBlock, StackRecord, StackVectors, BuildStack, BuildFails, Replace, Out, Preparing,
                  PrepareFails, Goto
    <3>3. pc' \in {"out", "done"} \/ (pc \in Later \ {"out", "done"} /\ pc' \in Later)
      BY <3>1, <3>2 DEF Later, Preparing
    <3> QED
      BY <2>0, <3>1, <3>3, BudgetLater, StackInvStep
  <2>5. CASE UNCHANGED execVars
    <3>1. UNCHANGED <<pc, call, budget, at, stack>>
      BY <2>5 DEF execVars, space
    <3>2. \A w \in {"argv", "envp"} : Done(w)' = Done(w) /\ Count(w)' = Count(w) /\ Taken(w, Done(w))' = Taken(w, Done(w))
      BY <3>1 DEF Done, Count, Taken
    <3> QED
      BY <3>1, <3>2, StackInvStep DEF BudgetInv
  <2> QED
    BY <2>1, <2>2, <2>3, <2>4, <2>5 DEF ExecNext, Returned
<1> QED
  BY <1>1, <1>2, CallInvariant, PTL DEF ExecSpec, ArgInv

-----------------------------------------------------------------------------
(* The initial stack. *)

LEMMA AlignUpIs ==
    ASSUME NEW n \in Nat
    PROVE  AlignUp(n, 16) \in Nat /\ AlignUp(n, 16) >= n /\ AlignUp(n, 16) % 16 = 0
  BY DEF AlignUp

LEMMA AlignUpGrows ==
    ASSUME NEW n \in Nat, NEW m \in Nat, n <= m PROVE AlignUp(n, 16) <= AlignUp(m, 16)
  BY DEF AlignUp

\* The place of one string.
LEMMA StringOrder ==
    ASSUME NEW v \in Seq(Nat), NEW i \in DOMAIN v, v[i] # 0
    PROVE  /\ Bytes(v, i + 1) \in Nat /\ Bytes(v, i) \in Nat /\ Bytes(v, i) = v[i] + Bytes(v, i + 1)
           /\ Bytes(v, i + 1) < Bytes(v, i) /\ Bytes(v, i) <= Bytes(v, 1)
           /\ \A j \in DOMAIN v : i < j => Bytes(v, j) <= Bytes(v, i + 1)
<1>1. i \in Nat \ {0} /\ i + 1 \in Nat \ {0} /\ v[i] \in Nat \ {0}
  OBVIOUS
<1>2. Bytes(v, i + 1) \in Nat /\ Bytes(v, i) \in Nat
  BY <1>1, BytesFall
<1>3. Bytes(v, i) = v[i] + Bytes(v, i + 1)
  BY <1>1, BytesStep
<1>4. Bytes(v, i) <= Bytes(v, 1)
  BY <1>1, BytesFall
<1>5. ASSUME NEW j \in DOMAIN v, i < j PROVE Bytes(v, j) <= Bytes(v, i + 1)
  <2>1. j \in Nat \ {0} /\ i + 1 <= j
    BY <1>1, <1>5
  <2> QED
    BY <1>1, <2>1, BytesFall
<1> QED
  BY <1>1, <1>2, <1>3, <1>4, <1>5

LEMMA PartTo ==
    ASSUME NEW depth \in Nat, NEW size \in Nat, NEW low \in Nat, depth = low + size
    PROVE  Part(depth, size) = (low + 1)..depth
<1>1. depth - size + 1 = low + 1
  OBVIOUS
<1> QED
  BY <1>1 DEF Part

\* n intervals (lo, hi] that lie apart.
IntervalSet(lo, hi, n) == {(lo[k] + 1)..hi[k] : k \in 1..n}

\* Intervals that lie apart are as many as their indices.
LEMMA Intervals ==
    ASSUME NEW n \in Nat, NEW lo \in [1..n -> Nat], NEW hi \in [1..n -> Nat],
           \A k \in 1..n : lo[k] < hi[k],
           \A k, l \in 1..n : k # l => hi[k] <= lo[l] \/ hi[l] <= lo[k]
    PROVE  /\ Cardinality(IntervalSet(lo, hi, n)) = n
           /\ \A p, q \in IntervalSet(lo, hi, n) : p = q \/ p \cap q = {}
<1>0. PICK S : S = IntervalSet(lo, hi, n) /\ S = {(lo[k] + 1)..hi[k] : k \in 1..n}
  BY DEF IntervalSet
<1>1. ASSUME NEW k \in 1..n, NEW l \in 1..n, k # l
      PROVE  ((lo[k] + 1)..hi[k]) \cap ((lo[l] + 1)..hi[l]) = {}
  <2>1. lo[k] \in Nat /\ lo[l] \in Nat /\ hi[k] \in Nat /\ hi[l] \in Nat /\ (hi[k] <= lo[l] \/ hi[l] <= lo[k])
    BY <1>1
  <2> QED
    BY <2>1
<1>2. ASSUME NEW k \in 1..n PROVE hi[k] \in (lo[k] + 1)..hi[k]
  <2>1. lo[k] \in Nat /\ hi[k] \in Nat /\ lo[k] < hi[k]
    OBVIOUS
  <2> QED
    BY <2>1
<1> DEFINE f == [k \in 1..n |-> (lo[k] + 1)..hi[k]]
<1>3. f \in Bijection(1..n, S)
  <2>1. f \in [1..n -> S] /\ \A t \in S : \E k \in 1..n : f[k] = t
    BY <1>0
  <2>2. ASSUME NEW k \in 1..n, NEW l \in 1..n, f[k] = f[l] PROVE k = l
    BY <1>1, <1>2, <2>2
  <2> HIDE DEF f
  <2> QED
    BY <2>1, <2>2 DEF Bijection, Injection, Surjection, IsInjective
<1>4. Cardinality(S) = n
  <2>1. ExistsBijection(1..n, S)
    BY <1>3 DEF ExistsBijection
  <2> QED
    BY <2>1, FS_CountingElements
<1>5. \A p, q \in S : p = q \/ p \cap q = {}
  BY <1>0, <1>1
<1> QED
  BY <1>0, <1>4, <1>5

\* The parts of a stack built from two vectors.
PartsOf(e, a, random, sp, size) ==
    {Part(Bytes(e, i), e[i]) : i \in DOMAIN e}
    \cup {Part(Bytes(e, 1) + Bytes(a, i), a[i]) : i \in DOMAIN a}
    \cup {Part(random, 16), Part(sp, size)}

PartsFit(e, a, random, sp, size) ==
    /\ \A i \in DOMAIN e : e[i] # 0
    /\ \A i \in DOMAIN a : a[i] # 0
    /\ Bytes(e, 1) + Bytes(a, 1) + 16 <= random /\ random + size <= sp

LEMMA PartsApart ==
    ASSUME NEW e \in Seq(Nat), NEW a \in Seq(Nat), NEW random \in Nat, NEW sp \in Nat, NEW size \in Nat \ {0},
           PartsFit(e, a, random, sp, size)
    PROVE  LET S == PartsOf(e, a, random, sp, size)
           IN  Cardinality(S) = Len(a) + Len(e) + 2 /\ \A p, q \in S : p = q \/ p \cap q = {}
<1>0. PICK S : S = PartsOf(e, a, random, sp, size)
  OBVIOUS
<1>b. /\ \A i \in DOMAIN e : e[i] # 0
      /\ \A i \in DOMAIN a : a[i] # 0
      /\ Bytes(e, 1) + Bytes(a, 1) + 16 <= random /\ random + size <= sp
  BY DEF PartsFit
<1>a. Len(e) \in Nat /\ DOMAIN e = 1..Len(e) /\ Len(a) \in Nat /\ DOMAIN a = 1..Len(a)
  OBVIOUS
<1>1. PICK n \in Nat : n = Len(e) /\ DOMAIN e = 1..n
  BY <1>a
<1>2. PICK m \in Nat : m = Len(a) /\ DOMAIN a = 1..m
  BY <1>a
<1>3. PICK E \in Nat : E = Bytes(e, 1)
  BY BytesFall
<1>4. Bytes(a, 1) \in Nat
  BY BytesFall
<1>5. PICK lo : lo = [k \in 1..(n + m + 2) |->
                        IF k <= n THEN Bytes(e, k + 1) ELSE IF k <= n + m THEN E + Bytes(a, (k - n) + 1)
                        ELSE IF k = n + m + 1 THEN random - 16 ELSE sp - size]
  OBVIOUS
<1>6. PICK hi : hi = [k \in 1..(n + m + 2) |->
                        IF k <= n THEN Bytes(e, k) ELSE IF k <= n + m THEN E + Bytes(a, k - n)
                        ELSE IF k = n + m + 1 THEN random ELSE sp]
  OBVIOUS
<1>7. ASSUME NEW k \in 1..n
      PROVE  /\ k \in 1..(n + m + 2) /\ lo[k] = Bytes(e, k + 1) /\ hi[k] = Bytes(e, k)
             /\ lo[k] \in Nat /\ hi[k] \in Nat /\ lo[k] < hi[k] /\ hi[k] <= E
             /\ \A l \in 1..n : k < l => hi[l] <= lo[k]
             /\ Part(Bytes(e, k), e[k]) = (lo[k] + 1)..hi[k]
  <2>1. k \in 1..(n + m + 2) /\ k \in DOMAIN e
    BY <1>1
  <2>2. lo[k] = Bytes(e, k + 1) /\ hi[k] = Bytes(e, k)
    BY <1>5, <1>6, <2>1
  <2>3. \A l \in 1..n : hi[l] = Bytes(e, l)
    BY <1>6
  <2>4. /\ Bytes(e, k + 1) \in Nat /\ Bytes(e, k) \in Nat /\ Bytes(e, k) = e[k] + Bytes(e, k + 1)
        /\ Bytes(e, k + 1) < Bytes(e, k) /\ Bytes(e, k) <= Bytes(e, 1)
        /\ \A l \in DOMAIN e : k < l => Bytes(e, l) <= Bytes(e, k + 1)
    BY <1>b, <2>1, StringOrder
  <2>5. \A l \in 1..n : k < l => hi[l] <= lo[k]
    BY <1>1, <2>2, <2>3, <2>4
  <2>6. e[k] \in Nat
    BY <2>1
  <2>7. Part(Bytes(e, k), e[k]) = (Bytes(e, k) - e[k] + 1)..Bytes(e, k)
    BY DEF Part
  <2>8. Bytes(e, k) - e[k] + 1 = Bytes(e, k + 1) + 1
    BY <2>4, <2>6
  <2>9. Part(Bytes(e, k), e[k]) = (lo[k] + 1)..hi[k]
    BY <2>2, <2>7, <2>8
  <2> QED
    BY <1>3, <2>1, <2>2, <2>4, <2>5, <2>9
<1>8. ASSUME NEW i \in 1..m
      PROVE  /\ n + i \in 1..(n + m + 2) /\ lo[n + i] = E + Bytes(a, i + 1) /\ hi[n + i] = E + Bytes(a, i)
             /\ lo[n + i] \in Nat /\ hi[n + i] \in Nat /\ lo[n + i] < hi[n + i] /\ hi[n + i] <= E + Bytes(a, 1)
             /\ E <= lo[n + i] /\ \A j \in 1..m : i < j => hi[n + j] <= lo[n + i]
             /\ Part(E + Bytes(a, i), a[i]) = (lo[n + i] + 1)..hi[n + i]
  <2>1. n + i \in 1..(n + m + 2) /\ i \in DOMAIN a /\ ~(n + i <= n) /\ n + i <= n + m /\ (n + i) - n = i
    BY <1>2
  <2>2. lo[n + i] = E + Bytes(a, i + 1) /\ hi[n + i] = E + Bytes(a, i)
    BY <1>5, <1>6, <2>1
  <2>3. ASSUME NEW j \in 1..m PROVE hi[n + j] = E + Bytes(a, j) /\ Bytes(a, j) \in Nat /\ j \in DOMAIN a
    <3>1. n + j \in 1..(n + m + 2) /\ ~(n + j <= n) /\ n + j <= n + m /\ (n + j) - n = j /\ j \in Nat
      OBVIOUS
    <3>2. hi[n + j] = E + Bytes(a, j)
      BY <1>6, <3>1
    <3> QED
      BY <1>2, <3>1, <3>2, BytesFall
  <2>4. /\ Bytes(a, i + 1) \in Nat /\ Bytes(a, i) \in Nat /\ Bytes(a, i) = a[i] + Bytes(a, i + 1)
        /\ Bytes(a, i + 1) < Bytes(a, i) /\ Bytes(a, i) <= Bytes(a, 1)
        /\ \A j \in DOMAIN a : i < j => Bytes(a, j) <= Bytes(a, i + 1)
    BY <1>b, <2>1, StringOrder
  <2>5. PICK r \in Nat, t \in Nat, all \in Nat : r = Bytes(a, i + 1) /\ t = Bytes(a, i) /\ all = Bytes(a, 1)
    BY <1>4, <2>4
  <2>6. /\ E + r \in Nat /\ E + t \in Nat /\ E + r < E + t /\ E + t <= E + all /\ E <= E + r
    BY <2>4, <2>5
  <2>7. ASSUME NEW j \in 1..m, i < j PROVE hi[n + j] <= lo[n + i]
    <3>1. Bytes(a, j) <= Bytes(a, i + 1) /\ hi[n + j] = E + Bytes(a, j) /\ Bytes(a, j) \in Nat
      BY <2>3, <2>4, <2>7
    <3> QED
      BY <2>2, <2>4, <3>1
  <2>8. a[i] \in Nat
    BY <2>1
  <2>9. Part(E + Bytes(a, i), a[i]) = ((E + Bytes(a, i + 1)) + 1)..(E + Bytes(a, i))
    <3>1. /\ E \in Nat /\ a[i] \in Nat /\ Bytes(a, i + 1) \in Nat /\ Bytes(a, i) \in Nat
          /\ Bytes(a, i) = a[i] + Bytes(a, i + 1)
      BY <2>4, <2>8
    <3>2. PICK depth \in Nat, low \in Nat : depth = E + t /\ low = E + r
      BY <2>6, Zenon
    <3>3. depth = low + a[i]
      <4>1. PICK z \in Nat : z = a[i]
        BY <3>1
      <4>2. t = z + r
        BY <2>5, <3>1, <4>1, Zenon
      <4>3. depth = low + z
        BY <3>2, <4>2
      <4> QED
        BY <4>1, <4>3
    <3>4. Part(depth, a[i]) = (low + 1)..depth
      BY <3>1, <3>3, PartTo, Zenon
    <3> QED
      BY <2>5, <3>2, <3>4, Zenon
  <2>10. Part(E + Bytes(a, i), a[i]) = (lo[n + i] + 1)..hi[n + i]
    BY <2>2, <2>9
  <2> QED
    BY <2>1, <2>2, <2>5, <2>6, <2>7, <2>10
<1>9. /\ n + m + 1 \in 1..(n + m + 2) /\ n + m + 2 \in 1..(n + m + 2)
      /\ lo[n + m + 1] = random - 16 /\ hi[n + m + 1] = random
      /\ lo[n + m + 2] = sp - size /\ hi[n + m + 2] = sp
  <2>1. /\ n + m + 1 \in 1..(n + m + 2) /\ ~(n + m + 1 <= n) /\ ~(n + m + 1 <= n + m)
        /\ n + m + 2 \in 1..(n + m + 2) /\ ~(n + m + 2 <= n) /\ ~(n + m + 2 <= n + m) /\ n + m + 2 # n + m + 1
    OBVIOUS
  <2> QED
    BY <1>5, <1>6, <2>1
<1>10. /\ random - 16 \in Nat /\ sp - size \in Nat /\ E + Bytes(a, 1) <= random - 16 /\ random <= sp - size
       /\ E <= E + Bytes(a, 1) /\ random - 16 < random /\ sp - size < sp
  BY <1>3, <1>4, <1>b
<1>11. ASSUME NEW k \in 1..(n + m + 2)
       PROVE  k \in 1..n \/ (\E i \in 1..m : k = n + i) \/ k = n + m + 1 \/ k = n + m + 2
  <2>1. CASE k > n /\ k <= n + m
    <3>1. k - n \in 1..m /\ k = n + (k - n)
      BY <2>1
    <3> QED
      BY <3>1
  <2>2. CASE ~(k > n /\ k <= n + m)
    BY <2>2
  <2> QED
    BY <2>1, <2>2
<1>12. \A k \in 1..(n + m + 2) : lo[k] \in Nat /\ hi[k] \in Nat /\ lo[k] < hi[k]
  BY <1>7, <1>8, <1>9, <1>10, <1>11
<1>13. ASSUME NEW k \in 1..(n + m + 2), NEW l \in 1..(n + m + 2), k < l
       PROVE  hi[k] <= lo[l] \/ hi[l] <= lo[k]
  <2>0. lo[k] \in Nat /\ hi[k] \in Nat /\ lo[l] \in Nat /\ hi[l] \in Nat
    BY <1>12
  <2>1. CASE k \in 1..n
    <3>1. hi[k] <= E /\ (l \in 1..n => hi[l] <= lo[k])
      BY <1>7, <1>13, <2>1
    <3>2. ASSUME NEW i \in 1..m, l = n + i PROVE E <= lo[l]
      BY <1>8, <3>2
    <3>3. l \in {n + m + 1, n + m + 2} => E <= lo[l]
      <4>1. E <= random - 16 /\ E <= sp - size
        BY <1>4, <1>10
      <4> QED
        BY <1>9, <4>1
    <3> QED
      BY <1>11, <2>0, <3>1, <3>2, <3>3
  <2>2. ASSUME NEW i \in 1..m, k = n + i PROVE hi[k] <= lo[l] \/ hi[l] <= lo[k]
    <3>1. hi[k] <= E + Bytes(a, 1)
      BY <1>8, <2>2
    <3>2. ASSUME NEW j \in 1..m, l = n + j PROVE hi[l] <= lo[k]
      <4>1. i < j
        BY <1>13, <2>2, <3>2
      <4> QED
        BY <1>8, <2>2, <3>2, <4>1
    <3>3. l \notin 1..n
      BY <1>13, <2>2
    <3>4. l \in {n + m + 1, n + m + 2} => E + Bytes(a, 1) <= lo[l]
      <4>1. E + Bytes(a, 1) <= random - 16 /\ E + Bytes(a, 1) <= sp - size
        BY <1>4, <1>10
      <4> QED
        BY <1>9, <4>1
    <3>5. E + Bytes(a, 1) \in Nat
      BY <1>4
    <3> QED
      BY <1>11, <2>0, <3>1, <3>2, <3>3, <3>4, <3>5
  <2>3. CASE k = n + m + 1
    <3>1. l = n + m + 2
      BY <1>13, <2>3
    <3> QED
      BY <1>9, <1>10, <2>3, <3>1
  <2>4. CASE k = n + m + 2
    BY <1>13, <2>4
  <2> QED
    BY <1>11, <2>1, <2>2, <2>3, <2>4
<1>14. \A k, l \in 1..(n + m + 2) : k # l => hi[k] <= lo[l] \/ hi[l] <= lo[k]
  <2> SUFFICES ASSUME NEW k \in 1..(n + m + 2), NEW l \in 1..(n + m + 2), k # l
               PROVE  hi[k] <= lo[l] \/ hi[l] <= lo[k]
    OBVIOUS
  <2>1. k < l \/ l < k
    OBVIOUS
  <2> QED
    BY <1>13, <2>1
<1>15. S = {(lo[k] + 1)..hi[k] : k \in 1..(n + m + 2)}
  <2>1. Part(random, 16) = (lo[n + m + 1] + 1)..hi[n + m + 1] /\ Part(sp, size) = (lo[n + m + 2] + 1)..hi[n + m + 2]
    BY <1>9 DEF Part
  <2>2. ASSUME NEW x \in S PROVE \E k \in 1..(n + m + 2) : x = (lo[k] + 1)..hi[k]
    <3>1. CASE \E i \in 1..n : x = Part(Bytes(e, i), e[i])
      BY <1>7, <3>1
    <3>2. CASE \E i \in 1..m : x = Part(E + Bytes(a, i), a[i])
      BY <1>8, <3>2
    <3>3. CASE x \in {Part(random, 16), Part(sp, size)}
      BY <1>9, <2>1, <3>3
    <3> QED
      BY <1>0, <1>1, <1>2, <1>3, <3>1, <3>2, <3>3 DEF PartsOf
  <2>3. ASSUME NEW k \in 1..(n + m + 2) PROVE (lo[k] + 1)..hi[k] \in S
    <3>1. CASE k \in 1..n
      <4>1. (lo[k] + 1)..hi[k] = Part(Bytes(e, k), e[k]) /\ k \in DOMAIN e
        BY <1>1, <1>7, <3>1
      <4> QED
        BY <1>0, <4>1 DEF PartsOf
    <3>2. ASSUME NEW i \in 1..m, k = n + i PROVE (lo[k] + 1)..hi[k] \in S
      <4>1. (lo[k] + 1)..hi[k] = Part(E + Bytes(a, i), a[i]) /\ i \in DOMAIN a
        BY <1>2, <1>8, <3>2
      <4> QED
        BY <1>0, <1>3, <4>1 DEF PartsOf
    <3>3. CASE k \in {n + m + 1, n + m + 2}
      BY <1>0, <2>1, <3>3 DEF PartsOf
    <3> QED
      BY <1>11, <3>1, <3>2, <3>3
  <2>4. \A x : x \in S <=> x \in {(lo[k] + 1)..hi[k] : k \in 1..(n + m + 2)}
    <3> HIDE DEF PartsOf
    <3> QED
      BY <2>2, <2>3
  <2> QED
    BY <2>4
<1>16. lo \in [1..(n + m + 2) -> Nat] /\ hi \in [1..(n + m + 2) -> Nat]
  <2>1. DOMAIN lo = 1..(n + m + 2) /\ DOMAIN hi = 1..(n + m + 2)
    BY <1>5, <1>6
  <2>2. lo = [k \in 1..(n + m + 2) |-> lo[k]] /\ hi = [k \in 1..(n + m + 2) |-> hi[k]]
    BY <1>5, <1>6
  <2> QED
    BY <1>12, <2>1, <2>2
<1>17. Cardinality(S) = n + m + 2 /\ \A p, q \in S : p = q \/ p \cap q = {}
  <2>1. PICK c \in Nat : c = n + m + 2
    OBVIOUS
  <2>2. /\ lo \in [1..c -> Nat] /\ hi \in [1..c -> Nat] /\ \A k \in 1..c : lo[k] < hi[k]
        /\ \A k, l \in 1..c : k # l => hi[k] <= lo[l] \/ hi[l] <= lo[k]
        /\ S = IntervalSet(lo, hi, c)
    BY <1>12, <1>14, <1>15, <1>16, <2>1 DEF IntervalSet
  <2>3. /\ Cardinality(IntervalSet(lo, hi, c)) = c
        /\ \A p, q \in IntervalSet(lo, hi, c) : p = q \/ p \cap q = {}
    BY <2>2, Intervals, Zenon
  <2> QED
    BY <2>1, <2>2, <2>3
<1> QED
  BY <1>0, <1>1, <1>2, <1>17

LEMMA VectorsType ==
    ASSUME CallTypeInv, Accepted
    PROVE  /\ Envp \in Seq(Nat) /\ Argv \in Seq(Nat)
           /\ \A i \in DOMAIN Envp : Envp[i] # 0
           /\ \A i \in DOMAIN Argv : Argv[i] # 0
           /\ Len(Envp) \in Nat /\ Len(Argv) \in Nat /\ Len(Envp) <= MaxArgs /\ Len(Argv) <= MaxArgs
           /\ Bytes(Envp, 1) \in Nat /\ Bytes(Argv, 1) \in Nat
           /\ Bytes(Envp, 1) + Bytes(Argv, 1) <= MaxArgBytes + PathSize
<1>1. MaxArgBytes \in Nat /\ MaxArgs \in Nat \ {0} /\ PathSize \in Nat \ {0}
  BY ExecveAssumption
<1>2. ASSUME NEW v \in Seq(Nat)
      PROVE  Bytes(v, Len(v) + 1) = 0 /\ Bytes(v, 1) \in Nat /\ Len(v) \in Nat
  <2>1. Len(v) \in Nat /\ Len(v) + 1 \in Nat /\ Len(v) + 1 \notin DOMAIN v
    OBVIOUS
  <2> QED
    BY <2>1, BytesStep, BytesFall
<1>3. ASSUME NEW w \in {"argv", "envp"}, call[w] # NULL
      PROVE  /\ call[w] \in Seq(Nat) /\ Len(call[w]) = Count(w) /\ Len(call[w]) <= MaxArgs
             /\ Bytes(call[w], 1) = Taken(w, Count(w)) /\ \A i \in DOMAIN call[w] : call[w][i] # 0
  <2>1. call[w] \in Seq(Nat) /\ Len(call[w]) = Count(w)
    BY <1>3, CountType
  <2>2. Taken(w, Count(w)) = Bytes(call[w], 1) - 0 /\ Bytes(call[w], 1) \in Nat
    BY <1>2, <1>3, <2>1 DEF Taken
  <2>3. DOMAIN call[w] = 1..Count(w)
    BY <2>1
  <2> QED
    BY <2>1, <2>2, <2>3 DEF Accepted
<1>4. \A w \in {"argv", "envp"} : Taken(w, Count(w)) \in Nat /\ Count(w) \in Nat
  BY CountType, TakenIs
<1>5. /\ Envp \in Seq(Nat) /\ Len(Envp) <= MaxArgs /\ Bytes(Envp, 1) = Taken("envp", Count("envp"))
      /\ \A i \in DOMAIN Envp : Envp[i] # 0
  <2>1. CASE call["envp"] = NULL
    <3>1. Envp = <<>> /\ Len(Envp) = 0 /\ DOMAIN Envp = {} /\ Envp \in Seq(Nat)
      BY <2>1 DEF Envp
    <3>2. Bytes(Envp, 1) = 0
      <4>1. 1 \in Nat /\ 1 \notin DOMAIN Envp
        BY <3>1
      <4> QED
        BY <3>1, <4>1, BytesStep, Zenon
    <3>3. Taken("envp", Count("envp")) = 0
      BY <2>1 DEF Taken
    <3> QED
      BY <1>1, <3>1, <3>2, <3>3
  <2>2. CASE call["envp"] # NULL
    BY <1>3, <2>2 DEF Envp
  <2> QED
    BY <2>1, <2>2
<1>6. /\ Argv \in Seq(Nat) /\ Len(Argv) <= MaxArgs /\ \A i \in DOMAIN Argv : Argv[i] # 0
      /\ Bytes(Argv, 1) = PathSize \/ Bytes(Argv, 1) = Taken("argv", Count("argv"))
  <2>1. CASE Count("argv") = 0
    <3>1. Argv = <<PathSize>>
      BY <2>1 DEF Argv
    <3>2. Argv \in Seq(Nat) /\ Len(Argv) = 1 /\ DOMAIN Argv = {1} /\ Argv[1] = PathSize
      BY <1>1, <3>1
    <3>3. Bytes(Argv, 1) = Argv[1] + Bytes(Argv, 1 + 1)
      BY <3>2, BytesStep
    <3>4. Bytes(Argv, 1 + 1) = 0
      BY <3>2, BytesStep
    <3> QED
      BY <1>1, <3>2, <3>3, <3>4
  <2>2. CASE Count("argv") # 0
    <3>1. call["argv"] # NULL
      BY <2>2 DEF Count
    <3> QED
      BY <1>3, <2>2, <3>1 DEF Argv
  <2> QED
    BY <2>1, <2>2
<1>7. Bytes(Envp, 1) + Bytes(Argv, 1) <= MaxArgBytes + PathSize
  <2>1. Taken("argv", Count("argv")) + Taken("envp", Count("envp")) <= MaxArgBytes
    BY DEF Accepted
  <2> QED
    BY <1>1, <1>4, <1>5, <1>6, <2>1
<1>8. Bytes(Envp, 1) \in Nat /\ Bytes(Argv, 1) \in Nat /\ Len(Envp) \in Nat /\ Len(Argv) \in Nat
  BY <1>2, <1>5, <1>6
<1> QED
  BY <1>5, <1>6, <1>7, <1>8

\* elf_prepare builds a well-formed stack from what exec_copy_strvec accepts.
LEMMA InitialStackFits ==
    ASSUME CallTypeInv, Accepted, stack = InitialStack PROVE StackWellFormed
<1>1. PICK e \in Seq(Nat) : e = Envp
  BY VectorsType
<1>2. PICK a \in Seq(Nat) : a = Argv
  BY VectorsType
<1>3. PICK n \in Nat, m \in Nat : n = Len(e) /\ m = Len(a) /\ n <= MaxArgs /\ m <= MaxArgs
  BY <1>1, <1>2, VectorsType
<1>4. PICK E \in Nat, A \in Nat : E = Bytes(e, 1) /\ A = Bytes(a, 1) /\ E + A <= MaxArgBytes + PathSize
  BY <1>1, <1>2, VectorsType
<1>5. PICK random \in Nat : /\ random = AlignUp(E + A, 16) + 16 /\ E + A + 16 <= random
                            /\ random <= AlignUp(MaxArgBytes + PathSize, 16) + 16
  <2>1. E + A \in Nat /\ MaxArgBytes + PathSize \in Nat
    BY <1>4, ExecveAssumption
  <2>2. AlignUp(E + A, 16) \in Nat /\ AlignUp(E + A, 16) >= E + A
    BY <2>1, AlignUpIs
  <2>3. AlignUp(E + A, 16) <= AlignUp(MaxArgBytes + PathSize, 16) /\ AlignUp(MaxArgBytes + PathSize, 16) \in Nat
    BY <1>4, <2>1, AlignUpGrows, AlignUpIs
  <2> QED
    BY <2>1, <2>2, <2>3
<1>6. PICK words \in Nat : words = 3 + m + n + AuxWords /\ words = m + n + 33 /\ words <= 2 * MaxArgs + 3 + AuxWords
  BY <1>3, ExecveAssumption DEF AuxWords
<1>7. PICK sp \in Nat : /\ sp = AlignUp(random + Word * words, 16) /\ sp % 16 = 0
                        /\ random + Word * words <= sp /\ sp <= StackSize
  <2>1. random + Word * words \in Nat
    BY <1>5, <1>6 DEF Word
  <2>2. PICK most \in Nat : most = AlignUp(MaxArgBytes + PathSize, 16) + 16 + Word * (2 * MaxArgs + 3 + AuxWords)
    <3>1. AlignUp(MaxArgBytes + PathSize, 16) \in Nat
      BY AlignUpIs, ExecveAssumption
    <3> QED
      BY <3>1, ExecveAssumption DEF Word, AuxWords
  <2>3. random + Word * words <= most
    <3>1. Word * words <= Word * (2 * MaxArgs + 3 + AuxWords)
      BY <1>6, ExecveAssumption DEF Word, AuxWords
    <3>2. AlignUp(MaxArgBytes + PathSize, 16) \in Nat
      BY AlignUpIs, ExecveAssumption
    <3>3. Word * words \in Nat /\ Word * (2 * MaxArgs + 3 + AuxWords) \in Nat
      BY <1>6, ExecveAssumption DEF Word, AuxWords
    <3> QED
      BY <1>5, <2>2, <3>1, <3>2, <3>3
  <2>4. /\ AlignUp(random + Word * words, 16) <= AlignUp(most, 16)
        /\ AlignUp(random + Word * words, 16) \in Nat /\ AlignUp(most, 16) \in Nat
        /\ AlignUp(random + Word * words, 16) >= random + Word * words
        /\ AlignUp(random + Word * words, 16) % 16 = 0
    BY <2>1, <2>2, <2>3, AlignUpIs, AlignUpGrows
  <2>5. AlignUp(most, 16) <= StackSize /\ StackSize \in Nat
    BY <2>2, <2>4, ExecveAssumption
  <2> QED
    BY <2>1, <2>4, <2>5
<1>8. /\ stack.envp = [i \in DOMAIN e |-> Bytes(e, i)]
      /\ stack.argv = [i \in DOMAIN a |-> Bytes(e, 1) + Bytes(a, i)]
      /\ stack.random = random /\ stack.words = words /\ stack.sp = sp
  BY <1>1, <1>2, <1>3, <1>4, <1>5, <1>6, <1>7 DEF InitialStack, StackPointer
<1>9. PICK size \in Nat \ {0} : size = Word * words /\ random + size <= sp
  BY <1>6, <1>7 DEF Word
<1>10. StackParts = PartsOf(e, a, random, sp, size)
  <2>1. \A i \in DOMAIN e : Part(stack.envp[i], Envp[i]) = Part(Bytes(e, i), e[i])
    BY <1>1, <1>8
  <2>2. \A i \in DOMAIN a : Part(stack.argv[i], Argv[i]) = Part(Bytes(e, 1) + Bytes(a, i), a[i])
    BY <1>2, <1>8
  <2>3. Part(stack.random, 16) = Part(random, 16) /\ Part(stack.sp, Word * stack.words) = Part(sp, size)
    BY <1>8, <1>9
  <2> QED
    BY <1>1, <1>2, <2>1, <2>2, <2>3 DEF StackParts, PartsOf
<1>11. (\A i \in DOMAIN e : e[i] # 0) /\ (\A i \in DOMAIN a : a[i] # 0)
  BY <1>1, <1>2, VectorsType
<1>12. Bytes(e, 1) + Bytes(a, 1) + 16 <= random /\ random + size <= sp
  BY <1>4, <1>5, <1>9
<1>13. PartsFit(e, a, random, sp, size)
  BY <1>11, <1>12 DEF PartsFit
<1>14. LET S == PartsOf(e, a, random, sp, size)
       IN  Cardinality(S) = Len(a) + Len(e) + 2 /\ \A p, q \in S : p = q \/ p \cap q = {}
  BY <1>13, PartsApart, Zenon
<1>15. stack.words <= Len(Argv) + Len(Envp) + 3 + ELF_MAX_AUX_WORDS
  BY <1>1, <1>2, <1>3, <1>6, <1>8 DEF ELF_MAX_AUX_WORDS
<1> QED
  BY <1>1, <1>2, <1>7, <1>8, <1>10, <1>14, <1>15 DEF StackWellFormed

\* StackWellFormed for vectors of any length and strings of any size: elf_prepare
\* never writes below the stack and no part of the initial stack over another.
THEOREM StackWellFormedAlways == ExecSpec => []StackWellFormed
<1>1. ArgInv => StackWellFormed
  BY InitialStackFits DEF ArgInv, CallInv, StackInv, StackWellFormed
<1> QED
  BY <1>1, ArgInvariant, PTL

-----------------------------------------------------------------------------
(* Execve: the segments. *)

\* Segment k of an image: its address, its part of the file, its memory, its pages.
Lo(i, k) == Bias(i) + File(i).phdrs[k].vaddr
FilePart(i, k) == Lo(i, k)..(Lo(i, k) + File(i).phdrs[k].filesz - 1)
Memory(i, k) == Lo(i, k)..(Lo(i, k) + File(i).phdrs[k].memsz - 1)
Pages(i, k) == SegmentPages(i, File(i).phdrs[k])
Flags(i, k) == File(i).phdrs[k].flags

\* elf_load has copied segment k.
Seen(i, k) ==
    /\ k \in Loads(File(i))
    /\ i = img => k < at
    /\ i = "interp" => img = "interp"

ImageNames == {"main", "interp"}

\* The pages are those of the segments seen, and the memory is their bytes.
PagesInv ==
    \A pg : pg \in DOMAIN rights <=>
        \E i \in ImageNames : \E k \in Loads(File(i)) : Seen(i, k) /\ pg \in Pages(i, k)
BytesInv == \A b : b \in DOMAIN mem <=> b \in Nat /\ b \div PageSize \in DOMAIN rights

\* A segment is where it belongs, and what is no part of a file is zero.
CopiedInv ==
    \A i \in ImageNames : \A k \in Loads(File(i)) : Seen(i, k) =>
        \A b \in FilePart(i, k) : mem[b] = FileByte(i, File(i).phdrs[k].offset + (b - Lo(i, k)))
Unwritten(b) == \A i \in ImageNames : \A k \in Loads(File(i)) : Seen(i, k) => b \notin FilePart(i, k)
ClearInv == \A b \in DOMAIN mem : Unwritten(b) => mem[b] = Zero

ContentInv == PagesInv /\ BytesInv /\ CopiedInv /\ ClearInv

\* A page of one or two segments seen has the rights of each; prev is the
\* flags of the last segment seen.
SeenOn(i, k, pg) == k \in Loads(File(i)) /\ Seen(i, k) /\ pg \in Pages(i, k)
Crowded(pg) ==
    \E i \in ImageNames : \E j, k, l \in Loads(File(i)) :
        j < k /\ k < l /\ SeenOn(i, j, pg) /\ SeenOn(i, k, pg) /\ SeenOn(i, l, pg)
RightsOf(pg) == UNION {Flags(s[1], s[2]) : s \in {t \in ImageNames \X Nat : SeenOn(t[1], t[2], pg)}}
RightsInv == \A pg \in DOMAIN rights : Crowded(pg) \/ rights[pg] = RightsOf(pg)
PrevInv ==
    \/ \A k \in Loads(Image) : k >= at
    \/ \E k \in Loads(Image) : /\ k < at /\ prev = Flags(img, k)
                               /\ \A j \in Loads(Image) : j < at => j <= k

\* Where AT_PHDR may point, and the segments that end where the headers begin.
PhdrPlace(k) == Lo("main", k) + (File("main").phoff - File("main").phdrs[k].offset)
PhdrPlaced == \E k \in Holding(File("main")) : phdr = PhdrPlace(k)
EndsAt(k) ==
    k \in Loads(File("main"))
    /\ File("main").phoff = File("main").phdrs[k].offset + File("main").phdrs[k].filesz
PhdrInv ==
    /\ (\E k \in Holding(File("main")) : Seen("main", k) /\ \A j \in 1..(k - 1) : ~EndsAt(j)) => PhdrPlaced
    /\ (\A k \in Loads(File("main")) : Seen("main", k) => k \notin Holding(File("main")) /\ ~EndsAt(k)) =>
            phdr = 0 \/ (Holding(File("main")) # {} => PhdrPlaced)

FilesInv ==
    /\ call.file \in Executables /\ call.interp \in Interpreters
    /\ pc \in Before => mem = <<>> /\ rights = <<>> /\ phdr = 0
    /\ img = "interp" => call.file.interp = "path"
    /\ stack # NULL => pc \in {"replace", "out", "done"}

Loading == {"load", "base"} \cup Preparing

\* All segments are seen.
Complete ==
    /\ at > Len(Image.phdrs)
    /\ call.file.interp = "path" => img = "interp"

LoadInv ==
    /\ FilesInv
    /\ pc \in Loading \/ stack # NULL => ContentInv /\ RightsInv /\ PrevInv /\ PhdrInv
    /\ pc \in Loading \ {"load"} \/ stack # NULL => Complete

-----------------------------------------------------------------------------
(* Pages and bytes. *)

LEMMA ProductGrows ==
    ASSUME NEW a \in Nat, NEW b \in Nat, NEW p \in Nat \ {0}, a <= b
    PROVE  a * p \in Nat /\ b * p \in Nat /\ a * p <= b * p
<1>1. PICK c \in Nat : b = a + c
  BY SMT
<1>2. b * p = a * p + c * p /\ c * p \in Nat /\ a * p \in Nat
  BY <1>1, SMT
<1> QED
  BY <1>1, <1>2, SMT

LEMMA DivIs ==
    ASSUME NEW n \in Nat, NEW p \in Nat \ {0}
    PROVE  n \div p \in Nat /\ (n \div p) * p <= n /\ n < (n \div p) * p + p
  BY SMT

\* The quotient is the only one.
LEMMA DivOnly ==
    ASSUME NEW n \in Nat, NEW p \in Nat \ {0}, NEW q \in Nat, q * p <= n, n < q * p + p
    PROVE  n \div p = q
<1>1. PICK d \in Nat : d = n \div p /\ d * p <= n /\ n < d * p + p
  BY DivIs
<1>2. CASE d > q
  <2>1. (q + 1) * p <= d * p
    BY <1>2, ProductGrows
  <2>2. (q + 1) * p = q * p + p
    BY SMT
  <2> QED
    BY <1>1, <2>1, <2>2, SMT
<1>3. CASE d < q
  <2>1. (d + 1) * p <= q * p
    BY <1>3, ProductGrows
  <2>2. (d + 1) * p = d * p + p
    BY SMT
  <2> QED
    BY <1>1, <2>1, <2>2, SMT
<1> QED
  BY <1>1, <1>2, <1>3, SMT

LEMMA DivGrows ==
    ASSUME NEW m \in Nat, NEW n \in Nat, NEW p \in Nat \ {0}, m <= n
    PROVE  m \div p <= n \div p
<1>1. PICK d \in Nat : d = m \div p /\ d * p <= m
  BY DivIs
<1>2. PICK e \in Nat : e = n \div p /\ n < e * p + p
  BY DivIs
<1>3. CASE e < d
  <2>1. (e + 1) * p <= d * p /\ d * p \in Nat
    BY <1>3, ProductGrows
  <2>2. (e + 1) * p = e * p + p
    BY SMT
  <2> QED
    BY <1>1, <1>2, <2>1, <2>2, SMT
<1> QED
  BY <1>1, <1>2, <1>3

LEMMA DivNext ==
    ASSUME NEW n \in Nat, NEW p \in Nat \ {0}
    PROVE  (n + p) \div p = n \div p + 1
<1>1. PICK d \in Nat : d = n \div p /\ d * p <= n /\ n < d * p + p
  BY DivIs
<1>2. (d + 1) * p = d * p + p /\ d * p \in Nat
  BY ProductGrows, SMT
<1>3. PICK m \in Nat : m = n + p
  OBVIOUS
<1>4. PICK q \in Nat : q = d + 1
  OBVIOUS
<1>5. q * p <= m /\ m < q * p + p
  BY <1>1, <1>2, <1>3, <1>4
<1>6. m \div p = q
  BY <1>5, DivOnly
<1> QED
  BY <1>1, <1>3, <1>4, <1>6

LEMMA AlignUpDiv ==
    ASSUME NEW n \in Nat, NEW p \in Nat \ {0}
    PROVE  AlignUp(n, p) \div p = (n + p - 1) \div p
<1>1. PICK m \in Nat : m = n + p - 1
  OBVIOUS
<1>2. PICK d \in Nat : d = m \div p
  BY DivIs
<1>3. PICK k \in Nat : k = d * p
  BY ProductGrows
<1>4. k \div p = d
  BY <1>3, DivOnly
<1> QED
  BY <1>1, <1>2, <1>3, <1>4 DEF AlignUp

\* The bytes of a set of pages are those whose page is in the set.
LEMMA BytesOfIs ==
    ASSUME NEW S \in SUBSET Nat, NEW b
    PROVE  b \in BytesOf(S) <=> b \in Nat /\ b \div PageSize \in S
<1>1. PageSize \in Nat \ {0}
  BY ExecveImages
<1>2. ASSUME NEW pg \in S, b \in (pg * PageSize)..(pg * PageSize + PageSize - 1)
      PROVE  b \in Nat /\ b \div PageSize = pg
  <2>1. pg * PageSize \in Nat
    BY <1>1, ProductGrows
  <2>2. b \in Nat /\ pg * PageSize <= b /\ b < pg * PageSize + PageSize
    BY <1>1, <1>2, <2>1
  <2> QED
    BY <1>1, <2>2, DivOnly
<1>3. ASSUME b \in Nat, b \div PageSize \in S
      PROVE  \E pg \in S : b \in (pg * PageSize)..(pg * PageSize + PageSize - 1)
  <2>1. PICK d \in S : d = b \div PageSize
    BY <1>3
  <2>2. d * PageSize <= b /\ b < d * PageSize + PageSize /\ d * PageSize \in Nat
    BY <1>1, <1>3, <2>1, DivIs, ProductGrows
  <2>3. b \in (d * PageSize)..(d * PageSize + PageSize - 1)
    BY <1>1, <1>3, <2>2
  <2> QED
    BY <2>3
<1> QED
  BY <1>2, <1>3 DEF BytesOf

\* The pages of a segment, without AlignUp.
LEMMA PagesAtIs ==
    ASSUME NEW bias \in Nat, NEW ph, ph.vaddr \in Nat, ph.memsz \in Nat
    PROVE  PagesAt(bias, ph) =
             ((bias + ph.vaddr) \div PageSize)..((bias + ph.vaddr + ph.memsz + PageSize - 1) \div PageSize - 1)
<1>1. PICK n \in Nat : n = bias + ph.vaddr + ph.memsz
  OBVIOUS
<1>2. AlignUp(n, PageSize) \div PageSize = (n + PageSize - 1) \div PageSize
  BY AlignUpDiv, ExecveImages
<1> QED
  BY <1>1, <1>2 DEF PagesAt

-----------------------------------------------------------------------------
(* Where segments are. *)

Known == call.file \in Executables /\ call.interp \in Interpreters

LEMMA FileFound ==
    ASSUME Known, NEW i \in ImageNames
    PROVE  WellFormed(File(i)) /\ Bias(i) \in Nat /\ (~File(i).pie \/ Bias(i) > 0)
<1>1. File(i) \in Executables \cup Interpreters
  BY DEF Known, File, ImageNames
<1> QED
  BY <1>1, ExecveImages DEF Bias, BiasOf

LEMMA SegmentType ==
    ASSUME Known, NEW i \in ImageNames, NEW k \in Loads(File(i))
    PROVE  /\ k \in Nat /\ 1 <= k /\ k <= Len(File(i).phdrs) /\ Len(File(i).phdrs) \in Nat
           /\ File(i).phdrs[k].type = "LOAD"
           /\ File(i).phdrs[k].vaddr \in Nat /\ File(i).phdrs[k].offset \in Nat
           /\ File(i).phdrs[k].filesz \in Nat /\ File(i).phdrs[k].memsz \in Nat
           /\ File(i).phdrs[k].filesz <= File(i).phdrs[k].memsz
           /\ Lo(i, k) \in Nat /\ Lo(i, k) > 0
<1>1. WellFormed(File(i)) /\ Bias(i) \in Nat /\ (~File(i).pie \/ Bias(i) > 0)
  BY FileFound
<1>2. File(i).phdrs \in Seq({File(i).phdrs[m] : m \in DOMAIN File(i).phdrs})
  BY <1>1 DEF WellFormed
<1>3. k \in DOMAIN File(i).phdrs /\ File(i).phdrs[k].type = "LOAD"
  BY DEF Loads
<1>4. k \in 1..Len(File(i).phdrs) /\ Len(File(i).phdrs) \in Nat
  BY <1>2, <1>3
<1>5. /\ {File(i).phdrs[k].vaddr, File(i).phdrs[k].offset, File(i).phdrs[k].filesz, File(i).phdrs[k].memsz} \subseteq Nat
      /\ File(i).phdrs[k].filesz <= File(i).phdrs[k].memsz
      /\ File(i).pie \/ File(i).phdrs[k].vaddr > 0
  BY <1>1 DEF WellFormed
<1> QED
  BY <1>1, <1>3, <1>4, <1>5 DEF Lo

LEMMA PagesIs ==
    ASSUME Known, NEW i \in ImageNames, NEW k \in Loads(File(i))
    PROVE  /\ Pages(i, k) \in SUBSET Nat
           /\ Pages(i, k) =
                (Lo(i, k) \div PageSize)..((Lo(i, k) + File(i).phdrs[k].memsz + PageSize - 1) \div PageSize - 1)
<1>1. Bias(i) \in Nat /\ PageSize \in Nat \ {0}
  BY FileFound, ExecveImages
<1>2. File(i).phdrs[k].vaddr \in Nat /\ File(i).phdrs[k].memsz \in Nat
  BY SegmentType
<1>3. Pages(i, k) =
        (Lo(i, k) \div PageSize)..((Lo(i, k) + File(i).phdrs[k].memsz + PageSize - 1) \div PageSize - 1)
  BY <1>1, <1>2, PagesAtIs DEF Pages, SegmentPages, Lo
<1>4. Lo(i, k) \div PageSize \in Nat
  BY <1>1, SegmentType, DivIs
<1>5. PICK e \in Nat : e = (Lo(i, k) + File(i).phdrs[k].memsz + PageSize - 1) \div PageSize
  <2>1. PICK n \in Nat : n = Lo(i, k) + File(i).phdrs[k].memsz + PageSize - 1
    BY <1>1, <1>2, SegmentType
  <2> QED
    BY <1>1, <2>1, DivIs
<1> QED
  BY <1>3, <1>4, <1>5

\* A byte of a segment is in one of its pages.
LEMMA MemoryPage ==
    ASSUME Known, NEW i \in ImageNames, NEW k \in Loads(File(i)), NEW b \in Memory(i, k)
    PROVE  b \in Nat /\ b \div PageSize \in Pages(i, k)
<1>1. PICK p \in Nat \ {0} : p = PageSize
  BY ExecveImages
<1>2. PICK lo \in Nat, size \in Nat : lo = Lo(i, k) /\ size = File(i).phdrs[k].memsz
  BY SegmentType
<1>3. b \in Nat /\ lo <= b /\ b <= lo + size - 1
  BY <1>2 DEF Memory
<1>4. lo \div p <= b \div p
  BY <1>1, <1>3, DivGrows
<1>5. PICK e \in Nat : e = b + p
  BY <1>3
<1>6. PICK f \in Nat : f = lo + size + p - 1
  OBVIOUS
<1>7. e \div p <= f \div p
  BY <1>3, <1>5, <1>6, DivGrows
<1>8. e \div p = b \div p + 1
  BY <1>3, <1>5, DivNext
<1>9. b \div p \in Nat /\ lo \div p \in Nat /\ f \div p \in Nat
  BY <1>3, DivIs
<1>10. b \div p \in (lo \div p)..(f \div p - 1)
  BY <1>4, <1>7, <1>8, <1>9
<1> QED
  BY <1>1, <1>2, <1>3, <1>6, <1>10, PagesIs

LEMMA FilePartIn ==
    ASSUME Known, NEW i \in ImageNames, NEW k \in Loads(File(i))
    PROVE  FilePart(i, k) \subseteq Memory(i, k)
  BY SegmentType DEF FilePart, Memory

LEMMA SegmentOrder ==
    ASSUME Known, NEW i \in ImageNames, NEW k \in Loads(File(i)), NEW l \in Loads(File(i)), k < l
    PROVE  Lo(i, k) + File(i).phdrs[k].memsz <= Lo(i, l)
<1>1. File(i).phdrs[k].vaddr + File(i).phdrs[k].memsz <= File(i).phdrs[l].vaddr
  BY FileFound DEF WellFormed
<1>2. /\ File(i).phdrs[k].vaddr \in Nat /\ File(i).phdrs[k].memsz \in Nat
      /\ File(i).phdrs[l].vaddr \in Nat /\ Bias(i) \in Nat
  BY SegmentType, FileFound
<1> QED
  BY <1>1, <1>2 DEF Lo

\* A page that two segments share is one of each segment between them.
LEMMA SegmentBetween ==
    ASSUME Known, NEW i \in ImageNames, NEW j \in Loads(File(i)), NEW k \in Loads(File(i)),
           NEW l \in Loads(File(i)), j < k, k < l, NEW pg \in Pages(i, j), pg \in Pages(i, l)
    PROVE  pg \in Pages(i, k)
<1>1. PICK p \in Nat \ {0} : p = PageSize
  BY ExecveImages
<1>2. PICK x \in Nat, y \in Nat : x = Lo(i, j) /\ y = File(i).phdrs[j].memsz
  BY SegmentType
<1>3. PICK u \in Nat, v \in Nat : u = Lo(i, k) /\ v = File(i).phdrs[k].memsz
  BY SegmentType
<1>4. PICK w \in Nat : w = Lo(i, l)
  BY SegmentType
<1>5. x + y <= u /\ u + v <= w
  BY <1>2, <1>3, <1>4, SegmentOrder
<1>6. PICK e \in Nat, f \in Nat : e = x + y + p - 1 /\ f = u + v + p - 1
  OBVIOUS
<1>7. u \div p <= w \div p /\ e \div p <= f \div p
  BY <1>5, <1>6, DivGrows
<1>8. u \div p \in Nat /\ w \div p \in Nat /\ e \div p \in Nat /\ f \div p \in Nat
  BY DivIs
<1>9. pg \in Nat /\ pg <= e \div p - 1 /\ w \div p <= pg
  <2>1. pg \in Nat /\ Pages(i, j) = (x \div p)..(e \div p - 1)
    BY <1>1, <1>2, <1>6, PagesIs
  <2>2. PICK g \in Int : Pages(i, l) = (w \div p)..g
    <3>1. PICK s \in Nat : s = w + File(i).phdrs[l].memsz + p - 1
      BY <1>4, SegmentType
    <3>2. s \div p \in Nat
      BY DivIs
    <3> QED
      BY <1>1, <1>4, <3>1, <3>2, PagesIs
  <2>3. x \div p \in Nat
    BY DivIs
  <2> QED
    BY <1>8, <2>1, <2>2, <2>3
<1>10. pg \in (u \div p)..(f \div p - 1)
  BY <1>7, <1>8, <1>9
<1> QED
  BY <1>1, <1>3, <1>6, <1>10, PagesIs

\* A program and its interpreter share no page.
LEMMA ImagesApart ==
    ASSUME Known, call.file.interp = "path",
           NEW k \in Loads(File("main")), NEW l \in Loads(File("interp"))
    PROVE  Pages("main", k) \cap Pages("interp", l) = {}
  BY ExecveImages DEF Known, File, Pages, SegmentPages, Bias

\* No two segments share a byte.
LEMMA MemoryApart ==
    ASSUME Known, NEW i \in ImageNames, NEW k \in Loads(File(i)),
           NEW j \in ImageNames, NEW l \in Loads(File(j)),
           i # j => call.file.interp = "path", i = j => k # l, NEW b \in Memory(i, k)
    PROVE  b \notin Memory(j, l)
<1>1. CASE i = j
  <2>1. k < l \/ l < k
    BY <1>1, SegmentType
  <2>2. k < l => Lo(i, k) + File(i).phdrs[k].memsz <= Lo(i, l)
    BY <1>1, SegmentOrder
  <2>3. l < k => Lo(i, l) + File(i).phdrs[l].memsz <= Lo(i, k)
    BY <1>1, SegmentOrder
  <2>4. Lo(i, k) \in Nat /\ Lo(i, l) \in Nat /\ File(i).phdrs[k].memsz \in Nat /\ File(i).phdrs[l].memsz \in Nat
    BY <1>1, SegmentType
  <2> QED
    BY <1>1, <2>1, <2>2, <2>3, <2>4 DEF Memory
<1>2. CASE i # j
  <2>1. Pages(i, k) \cap Pages(j, l) = {}
    <3>1. (i = "main" /\ j = "interp") \/ (i = "interp" /\ j = "main")
      BY <1>2 DEF ImageNames
    <3> QED
      BY <1>2, <3>1, ImagesApart
  <2> QED
    BY <2>1, MemoryPage
<1> QED
  BY <1>1, <1>2

-----------------------------------------------------------------------------
(* One segment more. *)

LEMMA PlacesSame ==
    ASSUME UNCHANGED call, NEW i, NEW k
    PROVE  /\ File(i)' = File(i) /\ Lo(i, k)' = Lo(i, k) /\ FilePart(i, k)' = FilePart(i, k)
           /\ Memory(i, k)' = Memory(i, k) /\ Pages(i, k)' = Pages(i, k) /\ Flags(i, k)' = Flags(i, k)
<1>1. File(i)' = File(i)
  BY DEF File
<1>2. Bias(i)' = Bias(i)
  BY <1>1 DEF Bias
<1> QED
  BY <1>1, <1>2 DEF Lo, FilePart, Memory, Pages, SegmentPages, Flags

LEMMA VisitsLoad ==
    ASSUME Known, img \in ImageNames, at \in Nat \ {0}, Visits("LOAD")
    PROVE  at \in Loads(File(img))
<1>1. at <= Len(File(img).phdrs) /\ File(img).phdrs[at].type = "LOAD"
  BY DEF Visits, Image
<1>2. File(img).phdrs \in Seq({File(img).phdrs[m] : m \in DOMAIN File(img).phdrs})
  BY FileFound DEF WellFormed
<1>3. at \in DOMAIN File(img).phdrs
  BY <1>1, <1>2
<1> QED
  BY <1>1, <1>3 DEF Loads

LEMMA SeenNext ==
    ASSUME UNCHANGED <<call, img>>, at' = at + 1, at \in Nat, Known, NEW i \in ImageNames, NEW k \in Loads(File(i))
    PROVE  Seen(i, k)' <=> Seen(i, k) \/ (i = img /\ k = at)
<1>1. k \in Nat /\ File(i)' = File(i)
  BY SegmentType, PlacesSame
<1>2. i = "interp" => img = "interp" \/ i # img
  OBVIOUS
<1> QED
  BY <1>1 DEF Seen

\* What LoadSegment does to the pages and their bytes.
LEMMA LoadSegmentIs ==
    ASSUME Known, img \in ImageNames, at \in Nat \ {0}, LoadSegment
    PROVE  /\ at \in Loads(File(img)) /\ UNCHANGED <<call, img, pc>> /\ at' = at + 1
           /\ prev' = Flags(img, at)
           /\ DOMAIN rights' = Pages(img, at) \cup DOMAIN rights
           /\ \A pg \in DOMAIN rights' : rights'[pg] =
                IF pg \notin Pages(img, at) THEN rights[pg]
                ELSE IF pg \in DOMAIN rights THEN Flags(img, at) \cup prev ELSE Flags(img, at)
           /\ DOMAIN mem' = BytesOf(Pages(img, at)) \cup DOMAIN mem
           /\ \A b \in DOMAIN mem' : mem'[b] =
                IF b \notin BytesOf(Pages(img, at)) THEN mem[b]
                ELSE IF b \in FilePart(img, at) THEN FileByte(img, File(img).phdrs[at].offset + (b - Lo(img, at)))
                ELSE IF b \div PageSize \in DOMAIN rights THEN mem[b] ELSE Zero
<1> DEFINE ph == File(img).phdrs[at]
<1>1. at \in Loads(File(img)) /\ UNCHANGED <<call, img, pc>> /\ at' = at + 1
  BY VisitsLoad DEF LoadSegment
<1>2. /\ mem' = Overlay(CopyPages(img, ph), mem) /\ rights' = Overlay(PageRights(img, ph), rights)
      /\ prev' = ph.flags
  BY DEF LoadSegment, Image
<1>3. CopyPages(img, ph) =
        [b \in BytesOf(Pages(img, at)) |->
            IF b \in FilePart(img, at) THEN FileByte(img, File(img).phdrs[at].offset + (b - Lo(img, at)))
            ELSE IF b \div PageSize \in DOMAIN rights THEN mem[b] ELSE Zero]
  BY DEF CopyPages, Pages, FilePart, Lo, Mapped
<1>4. PageRights(img, ph) =
        [pg \in Pages(img, at) |-> IF pg \in DOMAIN rights THEN Flags(img, at) \cup prev ELSE Flags(img, at)]
  BY DEF PageRights, Pages, Flags, Mapped
<1>5. prev' = Flags(img, at)
  BY <1>2 DEF Flags
<1> HIDE DEF ph
<1>6. DOMAIN CopyPages(img, ph) = BytesOf(Pages(img, at)) /\ DOMAIN PageRights(img, ph) = Pages(img, at)
  BY <1>3, <1>4
<1>7. DOMAIN rights' = Pages(img, at) \cup DOMAIN rights /\ DOMAIN mem' = BytesOf(Pages(img, at)) \cup DOMAIN mem
  BY <1>2, <1>6 DEF Overlay
<1>8. ASSUME NEW pg \in DOMAIN rights'
      PROVE  rights'[pg] = IF pg \notin Pages(img, at) THEN rights[pg]
                ELSE IF pg \in DOMAIN rights THEN Flags(img, at) \cup prev ELSE Flags(img, at)
  <2>1. rights'[pg] = IF pg \in Pages(img, at) THEN PageRights(img, ph)[pg] ELSE rights[pg]
    BY <1>2, <1>6, <1>7 DEF Overlay
  <2> QED
    BY <1>4, <2>1
<1>9. ASSUME NEW b \in DOMAIN mem'
      PROVE  mem'[b] =
                IF b \notin BytesOf(Pages(img, at)) THEN mem[b]
                ELSE IF b \in FilePart(img, at) THEN FileByte(img, File(img).phdrs[at].offset + (b - Lo(img, at)))
                ELSE IF b \div PageSize \in DOMAIN rights THEN mem[b] ELSE Zero
  <2>1. mem'[b] = IF b \in BytesOf(Pages(img, at)) THEN CopyPages(img, ph)[b] ELSE mem[b]
    BY <1>2, <1>6, <1>7 DEF Overlay
  <2> QED
    BY <1>3, <2>1
<1> QED
  BY <1>1, <1>5, <1>7, <1>8, <1>9

LEMMA LoadSegmentContent ==
    ASSUME Known, img \in ImageNames, at \in Nat \ {0}, img = "interp" => call.file.interp = "path",
           ContentInv, LoadSegment
    PROVE  ContentInv'
<1>1. /\ at \in Loads(File(img)) /\ UNCHANGED <<call, img>> /\ at' = at + 1 /\ img \in ImageNames
      /\ DOMAIN rights' = Pages(img, at) \cup DOMAIN rights
      /\ DOMAIN mem' = BytesOf(Pages(img, at)) \cup DOMAIN mem
  BY LoadSegmentIs
<1>2. ASSUME NEW i \in ImageNames, NEW k \in Loads(File(i))
      PROVE  Seen(i, k)' <=> Seen(i, k) \/ (i = img /\ k = at)
  BY <1>1, SeenNext
<1>3. ASSUME NEW i
      PROVE  File(i)' = File(i)
  BY <1>1, PlacesSame
<1>4. PagesInv'
  <2> SUFFICES ASSUME NEW pg
               PROVE  pg \in DOMAIN rights' <=>
                        \E i \in ImageNames : \E k \in Loads(File(i)) : Seen(i, k)' /\ pg \in Pages(i, k)
    <3>1. \A i, k : Pages(i, k)' = Pages(i, k)
      BY <1>1, PlacesSame
    <3>2. PagesInv' <=> \A pg : pg \in DOMAIN rights' <=>
            \E i \in ImageNames : \E k \in Loads(File(i)') : Seen(i, k)' /\ pg \in Pages(i, k)'
      BY DEF PagesInv
    <3> QED
      BY <1>3, <3>1, <3>2
  <2>1. pg \in DOMAIN rights <=>
          \E i \in ImageNames : \E k \in Loads(File(i)) : Seen(i, k) /\ pg \in Pages(i, k)
    BY DEF ContentInv, PagesInv
  <2> QED
    BY <1>1, <1>2, <2>1
<1>5. BytesInv'
  <2> SUFFICES ASSUME NEW b
               PROVE  b \in DOMAIN mem' <=> b \in Nat /\ b \div PageSize \in DOMAIN rights'
    BY DEF BytesInv
  <2>1. b \in BytesOf(Pages(img, at)) <=> b \in Nat /\ b \div PageSize \in Pages(img, at)
    BY <1>1, PagesIs, BytesOfIs
  <2>2. b \in DOMAIN mem <=> b \in Nat /\ b \div PageSize \in DOMAIN rights
    BY DEF ContentInv, BytesInv
  <2> QED
    BY <1>1, <2>1, <2>2
<1>6. CopiedInv'
  <2> SUFFICES ASSUME NEW i \in ImageNames, NEW k \in Loads(File(i)), Seen(i, k)', NEW b \in FilePart(i, k)
               PROVE  mem'[b] = FileByte(i, File(i).phdrs[k].offset + (b - Lo(i, k)))
    BY <1>1, <1>3, PlacesSame DEF CopiedInv, FileByte
  <2>1. b \in Memory(i, k) /\ b \in Nat /\ b \div PageSize \in Pages(i, k)
    BY FilePartIn, MemoryPage
  <2>2. CASE i = img /\ k = at
    <3>1. b \in BytesOf(Pages(img, at))
      BY <2>1, <2>2, PagesIs, BytesOfIs
    <3> QED
      BY <1>1, <2>2, <3>1, LoadSegmentIs
  <2>3. CASE ~(i = img /\ k = at)
    <3>1. Seen(i, k)
      BY <1>2, <2>3
    <3>2. b \div PageSize \in DOMAIN rights
      BY <2>1, <3>1 DEF ContentInv, PagesInv
    <3>3. b \in DOMAIN mem
      BY <2>1, <3>2 DEF ContentInv, BytesInv
    <3>4. i # img => call.file.interp = "path"
      BY <3>1 DEF Seen, ImageNames
    <3>5. b \notin Memory(img, at)
      BY <1>1, <2>1, <2>3, <3>4, MemoryApart
    <3>6. b \notin FilePart(img, at)
      BY <1>1, <3>5, FilePartIn
    <3>7. mem'[b] = mem[b]
      BY <1>1, <3>2, <3>3, <3>6, LoadSegmentIs
    <3> QED
      BY <3>1, <3>7 DEF ContentInv, CopiedInv
  <2> QED
    BY <2>2, <2>3
<1>7. ClearInv'
  <2> SUFFICES ASSUME NEW b \in DOMAIN mem', Unwritten(b)'
               PROVE  mem'[b] = Zero
    BY DEF ClearInv, Zero
  <2>1. ASSUME NEW i \in ImageNames, NEW k \in Loads(File(i)), Seen(i, k)'
        PROVE  b \notin FilePart(i, k)
    BY <1>1, <1>3, <2>1, PlacesSame DEF Unwritten
  <2>2. b \notin FilePart(img, at)
    BY <1>1, <1>2, <2>1
  <2>3. Unwritten(b)
    BY <1>2, <2>1 DEF Unwritten
  <2>4. b \in DOMAIN mem => mem[b] = Zero
    BY <2>3 DEF ContentInv, ClearInv
  <2>5. b \in BytesOf(Pages(img, at)) => b \in Nat
    BY <1>1, PagesIs, BytesOfIs
  <2>6. b \in BytesOf(Pages(img, at)) /\ b \div PageSize \in DOMAIN rights => b \in DOMAIN mem
    BY <2>5 DEF ContentInv, BytesInv
  <2> QED
    BY <1>1, <2>2, <2>4, <2>6, LoadSegmentIs
<1> QED
  BY <1>4, <1>5, <1>6, <1>7 DEF ContentInv

LEMMA RightsOfIs ==
    ASSUME Known, NEW pg, NEW r
    PROVE  r \in RightsOf(pg) <=>
             \E i \in ImageNames : \E k \in Loads(File(i)) : SeenOn(i, k, pg) /\ r \in Flags(i, k)
<1>1. ASSUME r \in RightsOf(pg)
      PROVE  \E i \in ImageNames : \E k \in Loads(File(i)) : SeenOn(i, k, pg) /\ r \in Flags(i, k)
  <2>1. PICK s \in ImageNames \X Nat : SeenOn(s[1], s[2], pg) /\ r \in Flags(s[1], s[2])
    BY <1>1 DEF RightsOf
  <2> QED
    BY <2>1 DEF SeenOn
<1>2. ASSUME NEW i \in ImageNames, NEW k \in Loads(File(i)), SeenOn(i, k, pg), r \in Flags(i, k)
      PROVE  r \in RightsOf(pg)
  <2>1. <<i, k>> \in ImageNames \X Nat
    BY SegmentType
  <2>2. <<i, k>>[1] = i /\ <<i, k>>[2] = k
    OBVIOUS
  <2> QED
    BY <1>2, <2>1, <2>2 DEF RightsOf
<1> QED
  BY <1>1, <1>2

LEMMA LoadSegmentRights ==
    ASSUME Known, img \in ImageNames, at \in Nat \ {0}, img = "interp" => call.file.interp = "path",
           ContentInv, RightsInv, PrevInv, LoadSegment
    PROVE  RightsInv' /\ PrevInv'
<1>1. /\ at \in Loads(File(img)) /\ UNCHANGED <<call, img>> /\ at' = at + 1 /\ img \in ImageNames
      /\ prev' = Flags(img, at) /\ DOMAIN rights' = Pages(img, at) \cup DOMAIN rights
  BY LoadSegmentIs
<1> PICK i0 \in ImageNames, k0 \in Nat : i0 = img /\ k0 = at
  OBVIOUS
<1>2. \A i : File(i)' = File(i)
  BY <1>1, PlacesSame
<1>3. \A i, k : Flags(i, k)' = Flags(i, k) /\ Pages(i, k)' = Pages(i, k)
  BY <1>1, PlacesSame
<1>4. ASSUME NEW i \in ImageNames, NEW k \in Loads(File(i)), NEW pg
      PROVE  SeenOn(i, k, pg)' <=> SeenOn(i, k, pg) \/ (i = img /\ k = at /\ pg \in Pages(img, at))
  <2>1. Seen(i, k)' <=> Seen(i, k) \/ (i = img /\ k = at)
    BY <1>1, SeenNext
  <2> QED
    BY <1>2, <1>3, <2>1 DEF SeenOn
<1>5. ASSUME NEW pg, NEW r
      PROVE  r \in RightsOf(pg)' <=>
               \E i \in ImageNames : \E k \in Loads(File(i)) : SeenOn(i, k, pg)' /\ r \in Flags(i, k)
  <2>1. r \in RightsOf(pg)' <=>
          \E s \in ImageNames \X Nat : SeenOn(s[1], s[2], pg)' /\ r \in Flags(s[1], s[2])
    BY <1>3 DEF RightsOf
  <2>2. ASSUME r \in RightsOf(pg)'
        PROVE  \E i \in ImageNames : \E k \in Loads(File(i)) : SeenOn(i, k, pg)' /\ r \in Flags(i, k)
    <3>1. PICK s \in ImageNames \X Nat : SeenOn(s[1], s[2], pg)' /\ r \in Flags(s[1], s[2])
      BY <2>1, <2>2
    <3> QED
      BY <1>2, <3>1 DEF SeenOn
  <2>3. ASSUME NEW i \in ImageNames, NEW k \in Loads(File(i)), SeenOn(i, k, pg)', r \in Flags(i, k)
        PROVE  r \in RightsOf(pg)'
    <3>1. <<i, k>> \in ImageNames \X Nat /\ <<i, k>>[1] = i /\ <<i, k>>[2] = k
      BY SegmentType
    <3> QED
      BY <2>1, <2>3, <3>1
  <2> QED
    BY <2>2, <2>3
<1>6. RightsInv'
  <2> SUFFICES ASSUME NEW pg \in DOMAIN rights'
               PROVE  Crowded(pg)' \/ rights'[pg] = RightsOf(pg)'
    BY DEF RightsInv
  <2>1. CASE pg \notin Pages(img, at)
    <3>1. rights'[pg] = rights[pg] /\ pg \in DOMAIN rights
      BY <1>1, <2>1, LoadSegmentIs
    <3>2. \A i \in ImageNames : \A k \in Loads(File(i)) : SeenOn(i, k, pg)' <=> SeenOn(i, k, pg)
      BY <1>4, <2>1
    <3>3. Crowded(pg) => Crowded(pg)'
      BY <1>2, <3>2 DEF Crowded
    <3>4. RightsOf(pg)' = RightsOf(pg)
      <4>1. \A r : r \in RightsOf(pg)' <=> r \in RightsOf(pg)
        BY <1>5, <3>2, RightsOfIs
      <4>2. \A x \in {RightsOf(pg)'}, y \in {RightsOf(pg)} : (\A r : r \in x <=> r \in y) => x = y
        OBVIOUS
      <4> QED
        BY <4>1, <4>2
    <3> QED
      BY <3>1, <3>3, <3>4 DEF RightsInv
  <2>2. CASE pg \in Pages(img, at) /\ pg \notin DOMAIN rights
    <3>1. rights'[pg] = Flags(img, at)
      BY <2>2, LoadSegmentIs
    <3>2. \A i \in ImageNames : \A k \in Loads(File(i)) : ~SeenOn(i, k, pg)
      BY <2>2 DEF ContentInv, PagesInv, SeenOn
    <3>3. \A i \in ImageNames : \A k \in Loads(File(i)) : SeenOn(i, k, pg)' <=> i = i0 /\ k = k0
      BY <1>4, <2>2, <3>2
    <3>4. ASSUME NEW r PROVE r \in RightsOf(pg)' <=> r \in Flags(i0, k0)
      <4>1. i0 \in ImageNames /\ k0 \in Loads(File(i0)) /\ SeenOn(i0, k0, pg)'
        BY <1>1, <3>3
      <4>2. r \in RightsOf(pg)' <=>
              \E i \in ImageNames : \E k \in Loads(File(i)) : SeenOn(i, k, pg)' /\ r \in Flags(i, k)
        BY <1>5
      <4>3. ASSUME NEW i \in ImageNames, NEW k \in Loads(File(i)), SeenOn(i, k, pg)', r \in Flags(i, k)
            PROVE  r \in Flags(i0, k0)
        BY <3>3, <4>3
      <4> QED
        BY <4>1, <4>2, <4>3
    <3>5. \A x \in {RightsOf(pg)'}, y \in {Flags(img, at)} : (\A r : r \in x <=> r \in y) => x = y
      OBVIOUS
    <3> QED
      BY <3>1, <3>4, <3>5
  <2>3. CASE pg \in Pages(img, at) /\ pg \in DOMAIN rights
    <3>1. rights'[pg] = Flags(img, at) \cup prev
      BY <1>1, <2>3, LoadSegmentIs
    <3>2. ASSUME NEW i \in ImageNames, NEW k \in Loads(File(i)), SeenOn(i, k, pg)
          PROVE  i = img /\ k < at
      <4>1. pg \in Pages(i, k) /\ Seen(i, k)
        BY <3>2 DEF SeenOn
      <4>2. CASE i # img
        <5>1. i = "main" /\ img = "interp"
          BY <1>1, <4>1, <4>2 DEF Seen, ImageNames
        <5> QED
          BY <1>1, <2>3, <4>1, <5>1, ImagesApart
      <4> QED
        BY <4>1, <4>2 DEF Seen
    <3>3. PICK o \in Loads(File(img)) : SeenOn(img, o, pg) /\ o < at
      <4>1. PICK i \in ImageNames : \E k \in Loads(File(i)) : Seen(i, k) /\ pg \in Pages(i, k)
        BY <2>3 DEF ContentInv, PagesInv
      <4>2. PICK k \in Loads(File(i)) : SeenOn(i, k, pg)
        BY <4>1 DEF SeenOn
      <4> QED
        BY <3>2, <4>2
    <3>4. PICK p \in Loads(File(img)) : /\ p < at /\ prev = Flags(img, p)
                                         /\ \A j \in Loads(File(img)) : j < at => j <= p
      <4>1. o \in Nat
        BY SegmentType
      <4> QED
        BY <3>3, <4>1 DEF PrevInv, Image
    <3>5. \A k \in Loads(File(img)) : k \in Nat
      BY SegmentType
    <3>6. ASSUME NEW j \in Loads(File(img)), SeenOn(img, j, pg), j # p
          PROVE  Crowded(pg)'
      <4>1. j < p
        BY <3>2, <3>4, <3>5, <3>6
      <4>2. pg \in Pages(img, j)
        BY <3>6 DEF SeenOn
      <4>3. pg \in Pages(img, p)
        BY <1>1, <2>3, <3>4, <4>1, <4>2, SegmentBetween
      <4>4. SeenOn(img, p, pg)
        <5>1. img = "interp" => img = "interp"
          OBVIOUS
        <5> QED
          BY <3>4, <4>3 DEF SeenOn, Seen
      <4>5. SeenOn(i0, j, pg)' /\ SeenOn(i0, p, pg)' /\ SeenOn(i0, k0, pg)'
        BY <1>1, <1>4, <2>3, <3>6, <4>4
      <4>6. j \in Loads(File(i0)') /\ p \in Loads(File(i0)') /\ k0 \in Loads(File(i0)')
        BY <1>1, <1>2
      <4> QED
        BY <3>4, <4>1, <4>5, <4>6 DEF Crowded
    <3>7. CASE \A j \in Loads(File(img)) : SeenOn(img, j, pg) => j = p
      <4>1. SeenOn(img, p, pg)
        BY <3>3, <3>7
      <4>2. \A i \in ImageNames : \A k \in Loads(File(i)) :
              SeenOn(i, k, pg)' <=> i = img /\ (k = p \/ k = at)
        BY <1>1, <1>4, <2>3, <3>2, <3>7, <4>1
      <4>3. \A r : r \in RightsOf(pg)' <=> r \in Flags(i0, k0) \/ r \in Flags(i0, p)
        BY <1>1, <1>5, <4>2
      <4>4. \A x \in {RightsOf(pg)'}, y \in {Flags(img, at) \cup prev} : (\A r : r \in x <=> r \in y) => x = y
        OBVIOUS
      <4> QED
        BY <3>1, <3>4, <4>3, <4>4
    <3> QED
      BY <3>6, <3>7
  <2> QED
    BY <2>1, <2>2, <2>3
<1>7. PrevInv'
  <2>1. \A j \in Loads(File(img)) : j \in Nat
    BY <1>1, SegmentType
  <2>2. k0 < at' /\ prev' = Flags(i0, k0)' /\ \A j \in Loads(File(i0)) : j < at' => j <= k0
    BY <1>1, <1>3, <2>1
  <2>3. Loads(Image)' = Loads(File(i0))
    BY <1>1, <1>2 DEF Image
  <2>4. PrevInv' <=>
          \/ \A k \in Loads(Image)' : k >= at'
          \/ \E k \in Loads(Image)' : /\ k < at' /\ prev' = Flags(i0, k)'
                                      /\ \A j \in Loads(Image)' : j < at' => j <= k
    BY <1>1 DEF PrevInv
  <2> QED
    BY <1>1, <2>2, <2>3, <2>4
<1> QED
  BY <1>6, <1>7

LEMMA PhdrPlaceIs ==
    ASSUME Known, NEW k \in Holding(File("main"))
    PROVE  /\ k \in Loads(File("main")) /\ PhdrPlace(k) \in FilePart("main", k) /\ PhdrPlace(k) # 0
           /\ File("main").phdrs[k].offset + (PhdrPlace(k) - Lo("main", k)) = File("main").phoff
<1>1. k \in Loads(File("main"))
  BY DEF Holding
<1>2. PICK o \in Nat, z \in Nat, l \in Nat :
        o = File("main").phdrs[k].offset /\ z = File("main").phdrs[k].filesz /\ l = Lo("main", k) /\ l > 0
  BY <1>1, SegmentType DEF ImageNames
<1>3. PICK h \in Nat : h = File("main").phoff /\ h \in o..(o + z - 1)
  <2>1. File("main").phoff \in Nat
    BY FileFound DEF WellFormed, ImageNames
  <2> QED
    BY <1>2, <2>1 DEF Holding
<1>4. PhdrPlace(k) = l + (h - o) /\ FilePart("main", k) = l..(l + z - 1)
  BY <1>2, <1>3 DEF PhdrPlace, FilePart
<1>5. PICK x \in Nat : x = PhdrPlace(k) /\ x = l + (h - o)
  BY <1>3, <1>4
<1>6. x # 0 /\ x \in l..(l + z - 1) /\ o + (x - l) = h
  BY <1>2, <1>3, <1>5
<1>7. PhdrPlace(k) \in FilePart("main", k) /\ PhdrPlace(k) # 0
  BY <1>4, <1>5, <1>6
<1>8. File("main").phdrs[k].offset + (PhdrPlace(k) - Lo("main", k)) = o + (x - l)
  BY <1>2, <1>5
<1> QED
  BY <1>1, <1>3, <1>6, <1>7, <1>8

LEMMA PhdrSame ==
    ASSUME UNCHANGED call
    PROVE  /\ File("main")' = File("main")
           /\ \A k : PhdrPlace(k)' = PhdrPlace(k) /\ (EndsAt(k)' <=> EndsAt(k))
           /\ UNCHANGED phdr => (PhdrPlaced' <=> PhdrPlaced)
<1>1. File("main")' = File("main")
  BY PlacesSame
<1>2. \A k : PhdrPlace(k)' = PhdrPlace(k) /\ (EndsAt(k)' <=> EndsAt(k))
  BY <1>1, PlacesSame DEF PhdrPlace, EndsAt
<1> QED
  BY <1>1, <1>2 DEF PhdrPlaced

LEMMA LoadSegmentPhdr ==
    ASSUME Known, img \in ImageNames, at \in Nat \ {0}, PhdrInv, LoadSegment
    PROVE  PhdrInv'
<1>1. at \in Loads(File(img)) /\ UNCHANGED <<call, img>> /\ at' = at + 1
  BY LoadSegmentIs
<1>2. /\ File("main")' = File("main")
      /\ \A k : PhdrPlace(k)' = PhdrPlace(k) /\ (EndsAt(k)' <=> EndsAt(k))
      /\ UNCHANGED phdr => (PhdrPlaced' <=> PhdrPlaced)
  BY <1>1, PhdrSame
<1>3. \A k \in Loads(File("main")) : Seen("main", k)' <=> Seen("main", k) \/ ("main" = img /\ k = at)
  BY <1>1, SeenNext DEF ImageNames
<1>4. Holding(File("main")) \subseteq Loads(File("main"))
  BY DEF Holding
<1>5. PhdrInv' <=>
        /\ (\E k \in Holding(File("main")) : Seen("main", k)' /\ \A j \in 1..(k - 1) : ~EndsAt(j)) => PhdrPlaced'
        /\ (\A k \in Loads(File("main")) : Seen("main", k)' => k \notin Holding(File("main")) /\ ~EndsAt(k)) =>
              phdr' = 0 \/ (Holding(File("main")) # {} => PhdrPlaced')
  BY <1>2 DEF PhdrInv
<1>6. CASE img # "main"
  <2>1. UNCHANGED phdr
    BY <1>6 DEF LoadSegment
  <2>2. \A k \in Loads(File("main")) : Seen("main", k)' <=> Seen("main", k)
    BY <1>3, <1>6
  <2> QED
    BY <1>2, <1>4, <1>5, <2>1, <2>2 DEF PhdrInv
<1>7. CASE img = "main"
  <2> PICK a \in Loads(File("main")) : a = at
    BY <1>1, <1>7
  <2>1. PICK o \in Nat, z \in Nat, h \in Nat :
          o = File("main").phdrs[a].offset /\ z = File("main").phdrs[a].filesz /\ h = File("main").phoff
    <3>1. File("main").phoff \in Nat
      BY FileFound DEF WellFormed, ImageNames
    <3> QED
      BY <3>1, SegmentType DEF ImageNames
  <2>2. phdr' = IF phdr = 0 /\ h >= o /\ h - o <= z THEN PhdrPlace(a) ELSE phdr
    BY <1>7, <2>1 DEF LoadSegment, PhdrAfter, Image, PhdrPlace, Lo
  <2>3. h >= o /\ h - o <= z <=> a \in Holding(File("main")) \/ EndsAt(a)
    BY <2>1 DEF Holding, EndsAt
  <2>4. phdr # 0 => UNCHANGED phdr
    BY <2>2
  <2>5. PhdrPlaced => phdr # 0
    BY PhdrPlaceIs DEF PhdrPlaced
  <2>6. PhdrPlaced => PhdrPlaced'
    BY <1>2, <2>4, <2>5
  <2>7. ASSUME NEW k \in Holding(File("main")), Seen("main", k)', \A j \in 1..(k - 1) : ~EndsAt(j)
        PROVE  PhdrPlaced'
    <3>1. CASE Seen("main", k)
      BY <2>6, <2>7, <3>1 DEF PhdrInv
    <3>2. CASE k = a
      <4>1. CASE \E l \in Holding(File("main")) : Seen("main", l)
        <5>1. PICK l \in Holding(File("main")) : Seen("main", l)
          BY <4>1
        <5>2. l < k /\ l \in Nat /\ k \in Nat
          BY <1>4, <1>7, <3>2, <5>1, SegmentType DEF Seen, ImageNames
        <5>3. \A j \in 1..(l - 1) : ~EndsAt(j)
          BY <2>7, <5>2
        <5> QED
          BY <2>6, <5>1, <5>3 DEF PhdrInv
      <4>2. CASE \A l \in Holding(File("main")) : ~Seen("main", l)
        <5>1. ASSUME NEW l \in Loads(File("main")), Seen("main", l)
              PROVE  l \notin Holding(File("main")) /\ ~EndsAt(l)
          <6>1. l \in 1..(k - 1)
            BY <1>4, <1>7, <3>2, <5>1, SegmentType DEF Seen, ImageNames
          <6> QED
            BY <2>7, <4>2, <5>1, <6>1
        <5>2. phdr = 0 \/ PhdrPlaced
          BY <5>1 DEF PhdrInv
        <5>3. phdr = 0 => phdr' = PhdrPlace(a)
          BY <2>2, <2>3, <3>2
        <5>4. phdr = 0 => PhdrPlaced'
          BY <1>2, <3>2, <5>3 DEF PhdrPlaced
        <5> QED
          BY <2>6, <5>2, <5>4
      <4> QED
        BY <4>1, <4>2
    <3> QED
      BY <1>3, <1>4, <2>7, <3>1, <3>2
  <2>8. ASSUME \A k \in Loads(File("main")) : Seen("main", k)' => k \notin Holding(File("main")) /\ ~EndsAt(k)
        PROVE  phdr' = 0 \/ (Holding(File("main")) # {} => PhdrPlaced')
    <3>1. a \notin Holding(File("main")) /\ ~EndsAt(a)
      BY <1>3, <1>7, <2>8
    <3>2. UNCHANGED phdr
      BY <2>2, <2>3, <3>1
    <3>3. phdr = 0 \/ (Holding(File("main")) # {} => PhdrPlaced)
      BY <1>3, <2>8 DEF PhdrInv
    <3> QED
      BY <2>6, <3>2, <3>3
  <2> QED
    BY <1>5, <2>7, <2>8
<1> QED
  BY <1>6, <1>7

-----------------------------------------------------------------------------
(* The other steps. *)

\* A step that sees no segment keeps what was seen of the others.
LEMMA SeenSame ==
    ASSUME UNCHANGED <<call, mem, rights>>, ContentInv, RightsInv,
           \A i \in ImageNames : \A k \in Loads(File(i)) : Seen(i, k)' <=> Seen(i, k)
    PROVE  ContentInv' /\ RightsInv'
<1>1. \A i : File(i)' = File(i)
  BY PlacesSame
<1>2. \A i, k : /\ Lo(i, k)' = Lo(i, k) /\ FilePart(i, k)' = FilePart(i, k)
                /\ Pages(i, k)' = Pages(i, k) /\ Flags(i, k)' = Flags(i, k)
  BY PlacesSame
<1>3. PagesInv'
  <2>1. PagesInv' <=> \A pg : pg \in DOMAIN rights <=>
          \E i \in ImageNames : \E k \in Loads(File(i)) : Seen(i, k)' /\ pg \in Pages(i, k)
    BY <1>1, <1>2 DEF PagesInv
  <2> QED
    BY <2>1 DEF ContentInv, PagesInv
<1>4. BytesInv'
  BY DEF ContentInv, BytesInv
<1>5. CopiedInv'
  BY <1>1, <1>2 DEF ContentInv, CopiedInv, FileByte
<1>6. \A b : Unwritten(b)' => Unwritten(b)
  BY <1>1, <1>2 DEF Unwritten
<1>7. ClearInv'
  BY <1>6 DEF ContentInv, ClearInv, Zero
<1>8. \A i \in ImageNames : \A k \in Loads(File(i)) : \A pg : SeenOn(i, k, pg)' <=> SeenOn(i, k, pg)
  BY <1>1, <1>2 DEF SeenOn
<1>9. \A pg : Crowded(pg) => Crowded(pg)'
  BY <1>1, <1>8 DEF Crowded
<1>10. \A s \in ImageNames \X Nat : \A pg : SeenOn(s[1], s[2], pg)' <=> SeenOn(s[1], s[2], pg)
  <2> SUFFICES ASSUME NEW s \in ImageNames \X Nat, NEW pg
               PROVE  SeenOn(s[1], s[2], pg)' <=> SeenOn(s[1], s[2], pg)
    OBVIOUS
  <2>1. PICK i \in ImageNames, k \in Nat : i = s[1] /\ k = s[2]
    OBVIOUS
  <2>2. SeenOn(i, k, pg)' <=> SeenOn(i, k, pg)
    BY <1>1, <1>8 DEF SeenOn
  <2> QED
    BY <2>1, <2>2
<1>11. \A pg : RightsOf(pg)' = RightsOf(pg)
  BY <1>2, <1>10 DEF RightsOf
<1>12. RightsInv'
  BY <1>9, <1>11 DEF RightsInv
<1> QED
  BY <1>3, <1>4, <1>5, <1>7, <1>12 DEF ContentInv

LEMMA PhdrSeenSame ==
    ASSUME UNCHANGED <<call, phdr>>, PhdrInv,
           \A k \in Loads(File("main")) : Seen("main", k)' <=> Seen("main", k)
    PROVE  PhdrInv'
<1>1. /\ File("main")' = File("main") /\ \A k : EndsAt(k)' <=> EndsAt(k)
      /\ PhdrPlaced' <=> PhdrPlaced
  BY PhdrSame
<1>2. Holding(File("main")) \subseteq Loads(File("main"))
  BY DEF Holding
<1> QED
  BY <1>1, <1>2 DEF PhdrInv

\* A PT_PHDR is the address of the program headers.
LEMMA LoadPhdrStep ==
    ASSUME Known, img \in ImageNames, at \in Nat \ {0}, ContentInv, RightsInv, PrevInv, PhdrInv, LoadPhdr
    PROVE  ContentInv' /\ RightsInv' /\ PrevInv' /\ PhdrInv'
<1>1. UNCHANGED <<call, img, mem, rights, prev>> /\ at' = at + 1
  BY DEF LoadPhdr
<1>2. at \in DOMAIN File(img).phdrs /\ File(img).phdrs[at].type = "PHDR"
  <2>1. File(img).phdrs \in Seq({File(img).phdrs[m] : m \in DOMAIN File(img).phdrs})
    BY FileFound DEF WellFormed
  <2> QED
    BY <2>1 DEF LoadPhdr, Visits, Image
<1>3. at \notin Loads(File(img))
  BY <1>2 DEF Loads
<1>4. \A i \in ImageNames : \A k \in Loads(File(i)) : Seen(i, k)' <=> Seen(i, k)
  BY <1>1, <1>3, SeenNext
<1>5. PrevInv'
  <2>1. Image' = Image /\ \A k : Flags(img, k)' = Flags(img, k)
    BY <1>1 DEF Image, Flags, File
  <2>2. \A k \in Loads(Image) : k \in Nat /\ k # at
    BY <1>3, SegmentType DEF Image
  <2>3. \A k \in Loads(Image) : (k < at' <=> k < at) /\ (k >= at' <=> k >= at)
    BY <1>1, <2>2
  <2> QED
    BY <1>1, <2>1, <2>3 DEF PrevInv
<1>6. PhdrInv'
  <2>1. CASE img # "main"
    BY <1>1, <1>4, <2>1, PhdrSeenSame DEF LoadPhdr, ImageNames
  <2>2. CASE img = "main"
    <3>1. ASSUME Holding(File("main")) # {} PROVE PhdrPlaced'
      <4>1. PICK k \in Holding(File("main")) :
              File("main").phdrs[at].vaddr = File("main").phdrs[k].vaddr + (File("main").phoff - File("main").phdrs[k].offset)
        BY <1>2, <2>2, <3>1, FileFound DEF WellFormed, ImageNames
      <4>2. phdr' = Bias("main") + File("main").phdrs[at].vaddr
        BY <2>2 DEF LoadPhdr, Image
      <4>3. k \in Loads(File("main"))
        BY DEF Holding
      <4>4. /\ Bias("main") \in Nat /\ File("main").phdrs[k].vaddr \in Nat
            /\ File("main").phoff \in Nat /\ File("main").phdrs[k].offset \in Nat
        BY <4>3, SegmentType, FileFound DEF ImageNames, WellFormed
      <4>5. phdr' = PhdrPlace(k)
        BY <4>1, <4>2, <4>4 DEF PhdrPlace, Lo
      <4>6. PhdrPlace(k)' = PhdrPlace(k) /\ File("main")' = File("main")
        BY <1>1, PhdrSame
      <4> QED
        BY <4>5, <4>6 DEF PhdrPlaced
    <3>2. File("main")' = File("main")
      BY <1>1, PhdrSame
    <3> QED
      BY <3>1, <3>2 DEF PhdrInv
  <2> QED
    BY <2>1, <2>2
<1> QED
  BY <1>1, <1>4, <1>5, <1>6, SeenSame

LEMMA ReadInterpStep ==
    ASSUME Known, img = "main", at \in Nat, at > Len(File("main").phdrs), UNCHANGED <<call, mem, rights, phdr>>,
           img' = "interp", at' = 1, ContentInv, RightsInv, PhdrInv
    PROVE  ContentInv' /\ RightsInv' /\ PrevInv' /\ PhdrInv'
<1>1. \A i : File(i)' = File(i)
  BY PlacesSame
<1>2. ASSUME NEW i \in ImageNames, NEW k \in Loads(File(i))
      PROVE  Seen(i, k)' <=> Seen(i, k)
  <2>1. k \in Nat /\ 1 <= k /\ k <= Len(File(i).phdrs) /\ Len(File(i).phdrs) \in Nat
    BY SegmentType
  <2>2. CASE i = "main"
    BY <1>1, <2>1, <2>2 DEF Seen
  <2>3. CASE i = "interp"
    BY <1>1, <2>1, <2>3 DEF Seen
  <2> QED
    BY <2>2, <2>3 DEF ImageNames
<1>3. PrevInv'
  <2>1. Loads(Image)' = Loads(File("interp"))
    BY <1>1 DEF Image
  <2>2. \A k \in Loads(File("interp")) : k >= 1
    BY SegmentType DEF ImageNames
  <2> QED
    BY <2>1, <2>2 DEF PrevInv
<1>4. PhdrInv'
  BY <1>2, PhdrSeenSame DEF ImageNames
<1> QED
  BY <1>2, <1>3, <1>4, SeenSame

\* Nothing is in the new address space when elf_load begins.
LEMMA PrepareStep ==
    ASSUME Known, img = "main", at' = 1, UNCHANGED <<call, img, mem, rights, phdr>>,
           mem = <<>>, rights = <<>>, phdr = 0
    PROVE  ContentInv' /\ RightsInv' /\ PrevInv' /\ PhdrInv'
<1>1. \A i : File(i)' = File(i)
  BY PlacesSame
<1>2. ASSUME NEW i \in ImageNames, NEW k \in Loads(File(i))
      PROVE  ~Seen(i, k)' /\ k >= 1
  <2>1. k \in Nat /\ 1 <= k
    BY SegmentType
  <2> QED
    BY <1>1, <2>1 DEF Seen, ImageNames
<1>3. DOMAIN mem' = {} /\ DOMAIN rights' = {}
  OBVIOUS
<1>4. PagesInv' /\ BytesInv' /\ CopiedInv' /\ ClearInv' /\ RightsInv'
  BY <1>1, <1>2, <1>3 DEF PagesInv, BytesInv, CopiedInv, ClearInv, RightsInv
<1>5. PrevInv'
  <2>1. Loads(Image)' = Loads(File("main"))
    BY <1>1 DEF Image
  <2> QED
    BY <1>2, <2>1 DEF PrevInv, ImageNames
<1>6. PhdrInv'
  <2>1. Holding(File("main")) \subseteq Loads(File("main"))
    BY DEF Holding
  <2> QED
    BY <1>1, <1>2, <2>1 DEF PhdrInv, ImageNames
<1> QED
  BY <1>4, <1>5, <1>6 DEF ContentInv

\* A step that does not load keeps LoadInv.
LEMMA LoadKeeps ==
    ASSUME LoadInv, UNCHANGED <<call, space>>, pc' \in Before => pc \in Before,
           pc' \in Loading => pc \in Loading \ {"load"},
           pc' \in Loading \/ stack # NULL => at' = at /\ pc' # "load",
           stack # NULL => pc' \in {"replace", "out", "done"}
    PROVE  LoadInv'
<1>1. UNCHANGED <<img, prev, mem, rights, phdr, stack>>
  BY DEF space
<1>2. FilesInv'
  BY <1>1 DEF LoadInv, FilesInv
<1>3. ASSUME pc' \in Loading \/ stack' # NULL
      PROVE  ContentInv' /\ RightsInv' /\ PrevInv' /\ PhdrInv' /\ Complete'
  <2>1. pc \in Loading \ {"load"} \/ stack # NULL
    BY <1>1, <1>3
  <2>2. ContentInv /\ RightsInv /\ PrevInv /\ PhdrInv /\ Complete /\ at' = at
    BY <1>1, <1>3, <2>1 DEF LoadInv
  <2>3. \A i : File(i)' = File(i)
    BY PlacesSame
  <2>4. \A i, k : Seen(i, k)' <=> Seen(i, k)
    BY <1>1, <2>2, <2>3 DEF Seen
  <2>5. ContentInv' /\ RightsInv' /\ PhdrInv'
    BY <1>1, <2>2, <2>4, SeenSame, PhdrSeenSame
  <2>6. Image' = Image
    BY <1>1, <2>3 DEF Image
  <2>7. PrevInv'
    <3>1. \A k : Flags(img, k)' = Flags(img, k)
      BY <1>1 DEF Flags, File
    <3> QED
      BY <1>1, <2>2, <2>6, <3>1 DEF PrevInv
  <2>8. Complete'
    BY <1>1, <2>2, <2>6 DEF Complete
  <2> QED
    BY <2>5, <2>7, <2>8
<1> QED
  BY <1>1, <1>2, <1>3 DEF LoadInv

LEMMA LoadSteps ==
    ASSUME CallTypeInv, LoadInv, LoadPhdr \/ LoadSegment \/ ReadInterp \/ Prepare
    PROVE  LoadInv'
<1>1. Known /\ img \in ImageNames /\ at \in Nat \ {0} /\ (img = "interp" => call.file.interp = "path")
  BY DEF LoadInv, FilesInv, CallTypeInv, Known, ImageNames
<1>2. CASE LoadPhdr \/ LoadSegment
  <2>1. pc = "load" /\ UNCHANGED <<pc, call, img, stack>>
    BY <1>2 DEF LoadPhdr, LoadSegment, Visits
  <2>2. ContentInv /\ RightsInv /\ PrevInv /\ PhdrInv /\ stack = NULL
    BY <2>1 DEF LoadInv, FilesInv, Loading
  <2>3. ContentInv' /\ RightsInv' /\ PrevInv' /\ PhdrInv'
    BY <1>1, <1>2, <2>2, LoadPhdrStep, LoadSegmentContent, LoadSegmentRights, LoadSegmentPhdr
  <2>4. FilesInv'
    BY <2>1, <2>2 DEF LoadInv, FilesInv, Before
  <2> QED
    BY <2>1, <2>2, <2>3, <2>4 DEF LoadInv
<1>3. CASE ReadInterp
  <2>1. /\ pc = "load" /\ img = "main" /\ at > Len(File("main").phdrs) /\ call.file.interp = "path"
        /\ UNCHANGED <<call, mem, rights, phdr, stack>>
    BY <1>3 DEF ReadInterp, Loaded, Image, File
  <2>2. ContentInv /\ RightsInv /\ PhdrInv /\ stack = NULL
    BY <2>1 DEF LoadInv, FilesInv, Loading
  <2>3. CASE pc' = "out"
    BY <2>1, <2>2, <2>3 DEF LoadInv, FilesInv, Loading, Preparing, Before
  <2>4. CASE pc' # "out"
    <3>1. img' = "interp" /\ at' = 1 /\ pc' = pc
      BY <1>3, <2>4 DEF ReadInterp, Goto
    <3>2. ContentInv' /\ RightsInv' /\ PrevInv' /\ PhdrInv'
      BY <1>1, <2>1, <2>2, <3>1, ReadInterpStep
    <3> QED
      BY <2>1, <2>2, <3>1, <3>2 DEF LoadInv, FilesInv, Before
  <2> QED
    BY <2>3, <2>4
<1>4. CASE Prepare
  <2>1. pc = "prepare" /\ at' = 1 /\ pc' \in {"load", "out"} /\ UNCHANGED <<call, img, prev, mem, rights, phdr, stack>>
    BY <1>4 DEF Prepare, Goto, space
  <2>2. mem = <<>> /\ rights = <<>> /\ phdr = 0 /\ img = "main" /\ stack = NULL
    BY <2>1 DEF LoadInv, FilesInv, CallTypeInv, Before
  <2>3. ContentInv' /\ RightsInv' /\ PrevInv' /\ PhdrInv'
    BY <1>1, <2>1, <2>2, PrepareStep
  <2> QED
    BY <2>1, <2>2, <2>3 DEF LoadInv, FilesInv, Before, Loading, Preparing
<1> QED
  BY <1>2, <1>3, <1>4

LEMMA BuildStackLoads ==
    ASSUME LoadInv, BuildStack
    PROVE  LoadInv'
<1>1. pc = "build" /\ pc' = "replace" /\ UNCHANGED <<call, at, img, prev, mem, rights, phdr>>
  BY DEF BuildStack, Goto
<1>2. ContentInv /\ RightsInv /\ PrevInv /\ PhdrInv /\ Complete
  BY <1>1 DEF LoadInv, Loading, Preparing
<1>3. \A i : File(i)' = File(i)
  BY <1>1, PlacesSame
<1>4. \A i, k : Seen(i, k)' <=> Seen(i, k)
  BY <1>1, <1>3 DEF Seen
<1>5. ContentInv' /\ RightsInv' /\ PhdrInv'
  BY <1>1, <1>2, <1>4, SeenSame, PhdrSeenSame
<1>6. Image' = Image /\ \A k : Flags(img, k)' = Flags(img, k)
  BY <1>1 DEF Image, Flags, File
<1>7. PrevInv' /\ Complete'
  BY <1>1, <1>2, <1>6 DEF PrevInv, Complete
<1> QED
  BY <1>1, <1>5, <1>7 DEF LoadInv, FilesInv, Before

LEMMA LoadEndsLoads ==
    ASSUME LoadInv, CallTypeInv, LoadEnds
    PROVE  LoadInv'
<1>1. pc = "load" /\ pc' = "base" /\ UNCHANGED <<call, at, img, prev, mem, rights, phdr, stack>>
  BY DEF LoadEnds, Loaded, Goto, space
<1>2. ContentInv /\ RightsInv /\ PrevInv /\ PhdrInv /\ stack = NULL
  BY <1>1 DEF LoadInv, Loading, FilesInv
<1>3. Complete
  <2>1. img = "main" => call.file.interp = "none"
    BY DEF LoadEnds, Image, File
  <2> QED
    BY <2>1 DEF LoadEnds, Loaded, Complete, CallTypeInv
<1>4. \A i : File(i)' = File(i)
  BY <1>1, PlacesSame
<1>5. \A i, k : Seen(i, k)' <=> Seen(i, k)
  BY <1>1, <1>4 DEF Seen
<1>6. ContentInv' /\ RightsInv' /\ PhdrInv'
  BY <1>1, <1>2, <1>5, SeenSame, PhdrSeenSame
<1>7. Image' = Image /\ \A k : Flags(img, k)' = Flags(img, k)
  BY <1>1 DEF Image, Flags, File
<1>8. PrevInv' /\ Complete'
  BY <1>1, <1>2, <1>3, <1>7 DEF PrevInv, Complete
<1> QED
  BY <1>1, <1>2, <1>6, <1>8 DEF LoadInv, FilesInv, Before

\* (inductive invariant) While elf_load runs, the new address space holds the
\* segments seen so far, and when the program starts all of them were seen.
THEOREM LoadInvariant == ExecSpec => []LoadInv
<1>1. ExecInit => LoadInv
  BY DEF ExecInit, LoadInv, FilesInv, Loading, Preparing, Before
<1>2. CallInv /\ LoadInv /\ [ExecNext]_execVars => LoadInv'
  <2> SUFFICES ASSUME CallTypeInv, LoadInv, [ExecNext]_execVars PROVE LoadInv'
    BY DEF CallInv
  <2>1. stack # NULL => pc \in {"replace", "out", "done"}
    BY DEF LoadInv, FilesInv
  <2>2. CASE Begin
    <3>1. pc = "begin" /\ pc' \in {"argv", "done"} /\ UNCHANGED <<call, space>>
      BY <2>2 DEF Begin, Goto
    <3> QED
      BY <2>1, <3>1, LoadKeeps DEF Before, Loading, Preparing
  <2>3. ASSUME NEW w \in {"argv", "envp"}, CopyBegins(w) \/ CopyString(w) \/ CopyEnds(w) PROVE LoadInv'
    <3>1. \/ w = "argv" /\ Copying(w) = "argv copy" /\ AfterVector(w) = "envp"
          \/ w = "envp" /\ Copying(w) = "envp copy" /\ AfterVector(w) = "lookup"
      BY Places
    <3>2. pc \in {w, Copying(w)} /\ pc' \in {Copying(w), AfterVector(w), "out"} /\ UNCHANGED <<call, space>>
      BY <2>3 DEF CopyBegins, CopyString, CopyEnds, CopyFails, Goto
    <3> QED
      BY <2>1, <3>1, <3>2, LoadKeeps DEF Before, Loading, Preparing
  <2>4. CASE LoneArgv \/ ReadImage
    <3>1. pc = "lookup" /\ pc' \in {"lookup", "prepare", "out"} /\ UNCHANGED <<call, space>>
      BY <2>4 DEF LoneArgv, ReadImage, Goto
    <3> QED
      BY <2>1, <3>1, LoadKeeps DEF Before, Loading, Preparing
  <2>5. CASE LoadPhdr \/ LoadSegment \/ ReadInterp \/ Prepare
    BY <2>5, LoadSteps
  <2>6. CASE LoadFails
    <3>1. pc = "load" /\ pc' = "out" /\ UNCHANGED <<call, space>>
      BY <2>6 DEF LoadFails, Goto
    <3> QED
      BY <2>1, <3>1, LoadKeeps DEF Before, Loading, Preparing
  <2>7. CASE LoadEnds \/ BuildStack
    BY <2>7, LoadEndsLoads, BuildStackLoads
  <2>8. CASE StackBlock \/ StackRecord \/ StackVectors \/ BuildFails
    <3>1. /\ pc \in {"base", "record", "vectors", "build"} /\ pc' \in {"record", "vectors", "build", "out"}
          /\ UNCHANGED <<call, at, space>>
      BY <2>8 DEF StackBlock, StackRecord, StackVectors, BuildFails, PrepareFails, Goto
    <3> QED
      BY <2>1, <3>1, LoadKeeps DEF Before, Loading, Preparing
  <2>9. CASE Replace \/ Out
    <3>1. pc \in {"replace", "out"} /\ pc' \in {"out", "done"} /\ UNCHANGED <<call, at, space>>
      BY <2>9 DEF Replace, Out, Goto
    <3> QED
      BY <2>1, <3>1, LoadKeeps DEF Before, Loading, Preparing
  <2>10. CASE UNCHANGED execVars
    <3>1. UNCHANGED <<pc, call, at, space>>
      BY <2>10 DEF execVars
    <3>2. pc # "load" => LoadInv'
      BY <2>1, <3>1, LoadKeeps
    <3>3. pc = "load" => LoadInv'
      <4> SUFFICES ASSUME pc = "load" PROVE LoadInv'
        OBVIOUS
      <4>1. UNCHANGED <<img, prev, mem, rights, phdr, stack>>
        BY <3>1 DEF space
      <4>2. ContentInv /\ RightsInv /\ PrevInv /\ PhdrInv /\ stack = NULL
        BY DEF LoadInv, FilesInv, Loading
      <4>3. \A i : File(i)' = File(i)
        BY <3>1, PlacesSame
      <4>4. \A i, k : Seen(i, k)' <=> Seen(i, k)
        BY <3>1, <4>1, <4>3 DEF Seen
      <4>5. ContentInv' /\ RightsInv' /\ PhdrInv'
        BY <3>1, <4>1, <4>2, <4>4, SeenSame, PhdrSeenSame
      <4>6. Image' = Image /\ \A k : Flags(img, k)' = Flags(img, k)
        BY <3>1, <4>1 DEF Image, Flags, File
      <4>7. PrevInv'
        BY <3>1, <4>1, <4>2, <4>6 DEF PrevInv
      <4> QED
        BY <3>1, <4>1, <4>2, <4>5, <4>7 DEF LoadInv, FilesInv
    <3> QED
      BY <3>2, <3>3
  <2> QED
    BY <2>2, <2>3, <2>4, <2>5, <2>6, <2>7, <2>8, <2>9, <2>10 DEF ExecNext, Returned
<1> QED
  BY <1>1, <1>2, CallInvariant, PTL DEF ExecSpec

\* What elf_load has put into memory when all segments are seen.
LEMMA SegmentBytes ==
    ASSUME Known, NEW i \in ImageNames, NEW k \in Loads(File(i)), Seen(i, k), ContentInv,
           img = "interp" => call.file.interp = "path", NEW b \in Memory(i, k)
    PROVE  /\ b \in DOMAIN mem
           /\ mem[b] = IF b < Lo(i, k) + File(i).phdrs[k].filesz
                       THEN FileByte(i, File(i).phdrs[k].offset + (b - Lo(i, k))) ELSE Zero
<1>1. b \in Nat /\ b \div PageSize \in Pages(i, k)
  BY MemoryPage
<1>2. b \in DOMAIN mem
  BY <1>1 DEF ContentInv, PagesInv, BytesInv
<1>3. b \in FilePart(i, k) <=> b < Lo(i, k) + File(i).phdrs[k].filesz
  BY <1>1, SegmentType DEF Memory, FilePart
<1>4. CASE b \in FilePart(i, k)
  BY <1>2, <1>3, <1>4 DEF ContentInv, CopiedInv
<1>5. CASE b \notin FilePart(i, k)
  <2>1. ASSUME NEW j \in ImageNames, NEW l \in Loads(File(j)), Seen(j, l)
        PROVE  b \notin FilePart(j, l)
    <3>1. i # j => call.file.interp = "path"
      BY <2>1 DEF Seen, ImageNames
    <3>2. CASE i = j /\ k = l
      BY <1>5, <3>2
    <3>3. CASE ~(i = j /\ k = l)
      BY <3>1, <3>3, MemoryApart, FilePartIn
    <3> QED
      BY <3>2, <3>3
  <2>2. Unwritten(b)
    BY <2>1 DEF Unwritten
  <2> QED
    BY <1>2, <1>3, <1>5, <2>2 DEF ContentInv, ClearInv
<1> QED
  BY <1>4, <1>5

\* Three segments of a page are more than two.
LEMMA CrowdedCounts ==
    ASSUME NEW on, IsFiniteSet(on), NEW a \in on, NEW b \in on, NEW c \in on, a # b, b # c, a # c
    PROVE  ~(Cardinality(on) <= 2)
<1>1. {a, b, c} \subseteq on
  OBVIOUS
<1>2. IsFiniteSet({a, b, c}) /\ Cardinality({a, b, c}) <= Cardinality(on) /\ Cardinality(on) \in Nat
  BY <1>1, FS_Subset, FS_CardinalityType
<1>3. Cardinality({}) = 0 /\ IsFiniteSet({})
  BY FS_EmptySet
<1>4. Cardinality({a}) = 1 /\ IsFiniteSet({a})
  BY FS_Singleton
<1>5. Cardinality({a} \cup {b}) = 2 /\ IsFiniteSet({a} \cup {b})
  BY <1>4, FS_AddElement
<1>6. Cardinality(({a} \cup {b}) \cup {c}) = 3
  BY <1>5, FS_AddElement
<1>7. ({a} \cup {b}) \cup {c} = {a, b, c}
  OBVIOUS
<1> QED
  BY <1>2, <1>6, <1>7

\* SegmentsInMemory for any well formed program and interpreter: elf_load puts each
\* segment where it belongs, keeps the bytes and the rights of a shared page, and
\* finds the program headers.
THEOREM SegmentsInMemoryAlways == ExecSpec => []SegmentsInMemory
<1>1. CallTypeInv /\ LoadInv => SegmentsInMemory
  <2> SUFFICES ASSUME CallTypeInv, LoadInv, stack # NULL PROVE SegmentsInMemory
    BY DEF SegmentsInMemory
  <2>1. ContentInv /\ RightsInv /\ PhdrInv /\ Complete
    BY DEF LoadInv
  <2>2. Known /\ img \in ImageNames /\ at \in Nat /\ (img = "interp" => call.file.interp = "path")
    BY DEF LoadInv, FilesInv, CallTypeInv, Known, ImageNames
  <2>3. Images \subseteq ImageNames
    BY DEF Images, ImageNames
  <2>4. ASSUME NEW i \in Images, NEW k \in Loads(File(i)) PROVE Seen(i, k)
    <3>1. i = "interp" => img = "interp"
      BY <2>1 DEF Images, Complete
    <3>2. k \in Nat /\ k <= Len(File(i).phdrs) /\ Len(File(i).phdrs) \in Nat
      BY <2>2, <2>3, SegmentType
    <3>3. i = img => k < at
      BY <2>1, <2>2, <3>2 DEF Complete, Image
    <3> QED
      BY <3>1, <3>3 DEF Seen
  <2>5. ASSUME NEW i \in ImageNames, NEW k \in Loads(File(i)), Seen(i, k) PROVE i \in Images
    BY <2>2, <2>5 DEF Seen, Images, ImageNames
  <2>6. \A s : s \in Segments <=> \E i \in Images : \E k \in Loads(File(i)) : s = <<i, k>>
    BY DEF Segments
  <2>7. ASSUME NEW s \in Segments,
               NEW b \in (Bias(s[1]) + Header(s).vaddr)..(Bias(s[1]) + Header(s).vaddr + Header(s).memsz - 1)
        PROVE  /\ b \in DOMAIN mem
               /\ mem[b] = IF b < Bias(s[1]) + Header(s).vaddr + Header(s).filesz
                           THEN FileByte(s[1], Header(s).offset + (b - (Bias(s[1]) + Header(s).vaddr))) ELSE Zero
    <3>1. PICK i \in Images : \E k \in Loads(File(i)) : s = <<i, k>>
      BY <2>6
    <3>2. PICK k \in Loads(File(i)) : s = <<i, k>>
      BY <3>1
    <3>3. s[1] = i /\ s[2] = k /\ Header(s) = File(i).phdrs[k] /\ Bias(s[1]) + Header(s).vaddr = Lo(i, k)
      BY <3>2 DEF Header, Lo
    <3>4. b \in Memory(i, k)
      BY <3>3 DEF Memory
    <3>5. i \in ImageNames /\ Seen(i, k)
      BY <2>3, <2>4
    <3>6. /\ b \in DOMAIN mem
          /\ mem[b] = IF b < Lo(i, k) + File(i).phdrs[k].filesz
                      THEN FileByte(i, File(i).phdrs[k].offset + (b - Lo(i, k))) ELSE Zero
      BY <2>1, <2>2, <3>4, <3>5, SegmentBytes
    <3> QED
      BY <3>3, <3>6
  <2>8. IsFiniteSet(Segments)
    <3>1. ASSUME NEW i \in ImageNames, NEW k \in Loads(File(i))
          PROVE  k \in Nat /\ 1 <= k /\ k <= Len(File(i).phdrs)
      BY <2>2, SegmentType
    <3>2. ASSUME NEW i \in ImageNames PROVE Len(File(i).phdrs) \in Nat
      <4>1. File(i).phdrs \in Seq({File(i).phdrs[m] : m \in DOMAIN File(i).phdrs})
        BY <2>2, FileFound DEF WellFormed
      <4> QED
        BY <4>1
    <3>3. PICK x \in Nat, y \in Nat : x = Len(File("main").phdrs) /\ y = Len(File("interp").phdrs)
      <4>1. "main" \in ImageNames /\ "interp" \in ImageNames
        BY DEF ImageNames
      <4> QED
        BY <3>2, <4>1
    <3> DEFINE n == x + y
    <3>4. ASSUME NEW i \in ImageNames PROVE Len(File(i).phdrs) <= n /\ n \in Nat
      <4>1. Len(File(i).phdrs) \in {x, y}
        BY <3>3, Zenon DEF ImageNames
      <4>2. x <= n /\ y <= n /\ n \in Nat
        OBVIOUS
      <4> HIDE DEF n
      <4> QED
        BY <4>1, <4>2
    <3>5. Segments \subseteq ImageNames \X (1..n)
      BY <2>3, <2>6, <3>1, <3>2, <3>4
    <3>6. IsFiniteSet(1..n)
      BY FS_Interval
    <3>7. IsFiniteSet(ImageNames)
      <4>1. ImageNames = {"main"} \cup {"interp"}
        BY DEF ImageNames
      <4>2. IsFiniteSet({"main"}) /\ IsFiniteSet({"interp"})
        BY FS_Singleton
      <4> QED
        BY <4>1, <4>2, FS_Union
    <3>8. IsFiniteSet(ImageNames \X (1..n))
      BY <3>6, <3>7, FS_Product
    <3> QED
      BY <3>5, <3>8, FS_Subset
  <2>9. ASSUME NEW pg \in DOMAIN rights,
               Cardinality({s \in Segments : pg \in SegmentPages(s[1], Header(s))}) <= 2
        PROVE  rights[pg] = UNION {Header(s).flags : s \in {s \in Segments : pg \in SegmentPages(s[1], Header(s))}}
    <3> DEFINE on == {s \in Segments : pg \in SegmentPages(s[1], Header(s))}
    <3>1. ASSUME NEW i \in ImageNames, NEW k \in Loads(File(i))
          PROVE  SeenOn(i, k, pg) <=> <<i, k>> \in on
      <4>1. <<i, k>>[1] = i /\ Header(<<i, k>>) = File(i).phdrs[k]
        BY DEF Header
      <4>2. <<i, k>> \in Segments <=> Seen(i, k)
        BY <2>3, <2>4, <2>5, <2>6
      <4> QED
        BY <4>1, <4>2 DEF SeenOn, Pages
    <3>2. \A s \in on : \E i \in ImageNames : \E k \in Loads(File(i)) : s = <<i, k>>
      BY <2>3, <2>6
    <3>3. IsFiniteSet(on)
      BY <2>8, FS_Subset
    <3>4. ASSUME NEW i, NEW k PROVE Header(<<i, k>>).flags = Flags(i, k)
      BY DEF Header, Flags
    <3>5. Cardinality(on) <= 2
      BY <2>9
    <3>6. \A r : r \in UNION {Header(s).flags : s \in on} <=> \E s \in on : r \in Header(s).flags
      OBVIOUS
    <3> HIDE DEF on
    <3>7. ~Crowded(pg)
      <4> SUFFICES ASSUME Crowded(pg) PROVE FALSE
        OBVIOUS
      <4>1. PICK i \in ImageNames : \E j, k, l \in Loads(File(i)) :
              j < k /\ k < l /\ SeenOn(i, j, pg) /\ SeenOn(i, k, pg) /\ SeenOn(i, l, pg)
        BY DEF Crowded
      <4>2. PICK j \in Loads(File(i)), k \in Loads(File(i)), l \in Loads(File(i)) :
              j < k /\ k < l /\ SeenOn(i, j, pg) /\ SeenOn(i, k, pg) /\ SeenOn(i, l, pg)
        BY <4>1
      <4>3. j # k /\ k # l /\ j # l
        BY <2>2, <4>2, SegmentType
      <4>4. <<i, j>> \in on /\ <<i, k>> \in on /\ <<i, l>> \in on
        BY <3>1, <4>2
      <4>5. <<i, j>> # <<i, k>> /\ <<i, k>> # <<i, l>> /\ <<i, j>> # <<i, l>>
        BY <4>3
      <4> QED
        BY <3>3, <3>5, <4>4, <4>5, CrowdedCounts
    <3>8. rights[pg] = RightsOf(pg)
      BY <2>1, <3>7 DEF RightsInv
    <3>9. \A r : r \in RightsOf(pg) <=> r \in UNION {Header(s).flags : s \in on}
      <4> SUFFICES ASSUME NEW r PROVE r \in RightsOf(pg) <=> \E s \in on : r \in Header(s).flags
        BY <3>6
      <4>1. r \in RightsOf(pg) <=>
              \E i \in ImageNames : \E k \in Loads(File(i)) : SeenOn(i, k, pg) /\ r \in Flags(i, k)
        BY <2>2, RightsOfIs
      <4>2. ASSUME NEW s \in on, r \in Header(s).flags PROVE r \in RightsOf(pg)
        <5>1. PICK i \in ImageNames : \E k \in Loads(File(i)) : s = <<i, k>>
          BY <3>2
        <5>2. PICK k \in Loads(File(i)) : s = <<i, k>>
          BY <5>1
        <5> QED
          BY <3>1, <3>4, <4>1, <4>2, <5>2
      <4>3. ASSUME NEW i \in ImageNames, NEW k \in Loads(File(i)), SeenOn(i, k, pg), r \in Flags(i, k)
            PROVE  \E s \in on : r \in Header(s).flags
        BY <3>1, <3>4, <4>3
      <4> QED
        BY <4>1, <4>2, <4>3
    <3>10. RightsOf(pg) = UNION {Header(s).flags : s \in on}
      <4>1. \A x \in {RightsOf(pg)}, y \in {UNION {Header(s).flags : s \in on}} : (\A r : r \in x <=> r \in y) => x = y
        OBVIOUS
      <4> QED
        BY <3>9, <4>1
    <3> QED
      BY <3>8, <3>10 DEF on
  <2>10. PhdrInMemory
    <3> SUFFICES ASSUME NEW k \in Holding(File("main")),
                        \A j \in 1..(k - 1) : ~EndsAt(j)
                 PROVE  phdr \in DOMAIN mem /\ mem[phdr] = FileByte("main", File("main").phoff)
      BY DEF PhdrInMemory, EndsAt
    <3>1. "main" \in Images /\ "main" \in ImageNames
      BY DEF Images, ImageNames
    <3>2. Holding(File("main")) \subseteq Loads(File("main"))
      BY DEF Holding
    <3>3. PhdrPlaced
      BY <2>1, <2>4, <3>1, <3>2 DEF PhdrInv
    <3>4. PICK l \in Holding(File("main")) : phdr = PhdrPlace(l)
      BY <3>3 DEF PhdrPlaced
    <3>5. /\ l \in Loads(File("main")) /\ phdr \in FilePart("main", l)
          /\ File("main").phdrs[l].offset + (phdr - Lo("main", l)) = File("main").phoff
      BY <2>2, <3>4, PhdrPlaceIs
    <3>6. Seen("main", l)
      BY <2>4, <3>1, <3>5
    <3>7. mem[phdr] = FileByte("main", File("main").phdrs[l].offset + (phdr - Lo("main", l)))
      BY <2>1, <3>1, <3>5, <3>6 DEF ContentInv, CopiedInv
    <3>8. phdr \in Memory("main", l)
      BY <2>2, <3>1, <3>5, FilePartIn
    <3>9. phdr \in DOMAIN mem
      BY <2>1, <2>2, <3>1, <3>5, <3>6, <3>8, SegmentBytes
    <3> QED
      BY <3>5, <3>7, <3>9
  <2> QED
    BY <2>7, <2>9, <2>10 DEF SegmentsInMemory
<1>2. CallInv => CallTypeInv
  BY DEF CallInv
<1> QED
  BY <1>1, <1>2, CallInvariant, LoadInvariant, PTL
=============================================================================
