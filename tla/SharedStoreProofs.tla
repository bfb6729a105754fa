------------------------- MODULE SharedStoreProofs -------------------------
(***************************************************************************)
(* Proofs about SharedStore, for any number of processes, sessions,        *)
(* messages, crashes and removals: a process sees the messages of each     *)
(* author in the order they were posted, without gap or repetition, while  *)
(* no insert fails; and, for a single process that is not killed, closing  *)
(* and starting it neither loses nor repeats a turn of the user.           *)
(*                                                                         *)
(* The first rests on the order of the table: while no insert fails, every *)
(* message is stored when it is posted, so that the rows of a session are  *)
(* in the order of its messages, and a process has all those up to its     *)
(* watermark and all of its own.                                           *)
(***************************************************************************)
EXTENDS SharedStore, FiniteSetTheorems, SequenceTheorems, WellFoundedInduction, TLAPS

-----------------------------------------------------------------------------
(* Lists and sets of numbers.                                              *)

\* A finite set, a strict order of all its members, and how many are before one.
OrderOf(S, before) ==
    /\ IsFiniteSet(S) /\ before \subseteq S \X S
    /\ \A x \in S : <<x, x>> \notin before
    /\ \A x, y, z \in S : <<x, y>> \in before /\ <<y, z>> \in before => <<x, z>> \in before
    /\ \A x, y \in S : x = y \/ <<x, y>> \in before \/ <<y, x>> \in before
Ahead(S, before, x) == {y \in S : <<y, x>> \in before}

LEMMA AheadGrows ==
    ASSUME NEW S, NEW before, OrderOf(S, before), NEW x \in S, NEW y \in S, <<x, y>> \in before
    PROVE  Cardinality(Ahead(S, before, x)) < Cardinality(Ahead(S, before, y))
<1> DEFINE a == Ahead(S, before, x)  b == Ahead(S, before, y)
<1>1. a \subseteq b /\ x \in b /\ x \notin a
  BY DEF OrderOf, Ahead
<1>2. IsFiniteSet(b)
  BY FS_Subset DEF OrderOf, Ahead
<1>3. IsFiniteSet(a) /\ Cardinality(a) <= Cardinality(b) /\ Cardinality(a) # Cardinality(b)
  BY <1>1, <1>2, FS_Subset
<1>4. Cardinality(a) \in Nat /\ Cardinality(b) \in Nat
  BY <1>2, <1>3, FS_CardinalityType
<1> QED
  BY <1>3, <1>4

LEMMA AheadBound ==
    ASSUME NEW S, NEW before, OrderOf(S, before), NEW x \in S
    PROVE  Cardinality(Ahead(S, before, x)) \in 0 .. Cardinality(S) - 1
<1> DEFINE a == Ahead(S, before, x)
<1>1. a \subseteq S /\ x \notin a
  BY DEF OrderOf, Ahead
<1>2. IsFiniteSet(S)
  BY DEF OrderOf
<1>3. IsFiniteSet(a) /\ Cardinality(a) <= Cardinality(S) /\ Cardinality(a) # Cardinality(S)
  BY <1>1, <1>2, FS_Subset
<1>4. Cardinality(a) \in Nat /\ Cardinality(S) \in Nat
  BY <1>2, <1>3, FS_CardinalityType
<1> QED
  BY <1>3, <1>4

\* Sorting a finite set lists each of its members once, in the order given.
LEMMA SortedLists ==
    ASSUME NEW S, NEW before, OrderOf(S, before)
    PROVE  /\ Sorted(S, before) \in Seq(S)
           /\ Len(Sorted(S, before)) = Cardinality(S)
           /\ \A x \in S : \E i \in 1 .. Cardinality(S) : Sorted(S, before)[i] = x
           /\ \A i, j \in 1 .. Cardinality(S) :
                 i < j => <<Sorted(S, before)[i], Sorted(S, before)[j]>> \in before
<1> DEFINE n == Cardinality(S)
           f == [x \in S |-> Cardinality(Ahead(S, before, x))]
           q == Sorted(S, before)
<1>1. IsFiniteSet(S) /\ n \in Nat
  BY FS_CardinalityType DEF OrderOf
<1>2. f \in [S -> 0 .. n - 1]
  BY AheadBound
<1>3. \A x, y \in S : x # y => f[x] # f[y]
  <2> SUFFICES ASSUME NEW x \in S, NEW y \in S, x # y PROVE f[x] # f[y]
    OBVIOUS
  <2>1. <<x, y>> \in before \/ <<y, x>> \in before
    BY DEF OrderOf
  <2>2. f[x] < f[y] \/ f[y] < f[x]
    BY <2>1, AheadGrows
  <2>3. f[x] \in Int /\ f[y] \in Int
    BY <1>1, <1>2
  <2> QED
    BY <2>2, <2>3
<1>4. IsFiniteSet(0 .. n - 1) /\ Cardinality(0 .. n - 1) = n
  BY <1>1, FS_Interval
<1>5. f \in Injection(S, 0 .. n - 1)
  BY <1>2, <1>3 DEF Injection, IsInjective
<1>6. f \in Surjection(S, 0 .. n - 1)
  BY <1>4, <1>5, FS_Injection
<1>7. \A k \in 0 .. n - 1 : \E x \in S : f[x] = k
  BY <1>6 DEF Surjection
<1>8. \A x \in S : f[x] = Cardinality({y \in S : <<y, x>> \in before})
  BY DEF Ahead
<1>q. q = [i \in 1 .. n |-> CHOOSE x \in S : Cardinality({y \in S : <<y, x>> \in before}) = i - 1]
  BY DEF Sorted
<1> HIDE DEF n, f, q
<1>9. \A i \in 1 .. n : q[i] \in S /\ f[q[i]] = i - 1
  <2> SUFFICES ASSUME NEW i \in 1 .. n PROVE q[i] \in S /\ f[q[i]] = i - 1
    OBVIOUS
  <2>1. \E x \in S : Cardinality({y \in S : <<y, x>> \in before}) = i - 1
    BY <1>1, <1>7, <1>8
  <2>2. q[i] = CHOOSE x \in S : Cardinality({y \in S : <<y, x>> \in before}) = i - 1
    BY <1>q
  <2>3. q[i] \in S /\ Cardinality({y \in S : <<y, q[i]>> \in before}) = i - 1
    BY <2>1, <2>2
  <2> QED
    BY <1>8, <2>3
<1>10. q \in [1 .. n -> S]
  BY <1>q, <1>9
<1>11. q \in Seq(S) /\ Len(q) = n
  BY <1>1, <1>10
<1>12. \A x \in S : \E i \in 1 .. n : q[i] = x
  <2> SUFFICES ASSUME NEW x \in S PROVE \E i \in 1 .. n : q[i] = x
    OBVIOUS
  <2>1. f[x] + 1 \in 1 .. n /\ (f[x] + 1) - 1 = f[x]
    BY <1>1, <1>2
  <2>2. f[q[f[x] + 1]] = f[x] /\ q[f[x] + 1] \in S
    BY <1>9, <2>1
  <2> QED
    BY <1>3, <2>1, <2>2
<1>13. \A i, j \in 1 .. n : i < j => <<q[i], q[j]>> \in before
  <2> SUFFICES ASSUME NEW i \in 1 .. n, NEW j \in 1 .. n, i < j, <<q[i], q[j]>> \notin before
               PROVE  FALSE
    OBVIOUS
  <2>1. q[i] \in S /\ q[j] \in S /\ f[q[i]] = i - 1 /\ f[q[j]] = j - 1
    BY <1>9
  <2>2. q[i] # q[j]
    BY <1>1, <2>1
  <2>3. <<q[j], q[i]>> \in before
    BY <2>1, <2>2 DEF OrderOf
  <2>4. f[q[j]] < f[q[i]]
    BY <2>1, <2>3, AheadGrows DEF f
  <2> QED
    BY <1>1, <2>1, <2>4
<1> QED
  BY <1>11, <1>12, <1>13 DEF n, q

\* A set of numbers with a bound has a greatest one.
LEMMA MaxFound ==
    ASSUME NEW S \in SUBSET Nat, S # {}, NEW n \in Nat, \A x \in S : x <= n
    PROVE  Max(S) \in S /\ \A x \in S : x <= Max(S)
<1> DEFINE D == {n - x : x \in S}
<1>0. \A x \in S : n - x \in Nat
  OBVIOUS
<1>1. D \subseteq Nat /\ D # {}
  <2>1. D \subseteq Nat
    BY ONLY <1>0
  <2>2. D # {}
    BY ONLY S # {}
  <2> QED
    BY <2>1, <2>2
<1>2. PICK d \in D : \A e \in D : <<e, d>> \notin OpToRel(<, Nat)
  BY <1>1, NatLessThanWellFounded, WFMin, Zenon
<1>3. PICK x \in S : d = n - x
  OBVIOUS
<1>4. \A y \in S : y <= x
  <2> SUFFICES ASSUME NEW y \in S PROVE y <= x
    OBVIOUS
  <2>1. n - y \in D /\ n - y \in Nat /\ d \in Nat
    BY <1>1
  <2>2. ~(n - y < d)
    BY <1>2, <2>1 DEF OpToRel
  <2> QED
    BY <1>3, <2>2
<1> QED
  BY <1>4 DEF Max

-----------------------------------------------------------------------------
(* The invariant.                                                          *)

Kinds   == {"user", "merged", "reply", "teammate", "notice"}
Message == [session : Sessions, by : Procs, kind : Kinds]
Row     == [row : Nat \ {0}, msg : Ids, seq : Nat]
Entry   == [msg : Ids, seq : Nat \ {0}]
Turns   == [running : Nat, queued : Seq(Ids)]

\* The messages of a session.
Of(s) == {m \in 1 .. Len(issued) : issued[m].session = s}
Once(list) == \A i, j \in 1 .. Len(list) : i < j => list[i] # list[j]

IssuedInv ==
    /\ issued \in Seq(Message) /\ Len(issued) <= MaxIssued
    /\ crashes \in 0 .. MaxCrashes /\ failures \in 0 .. MaxFailures

\* A row id and a message occur once, and there is a last row.
Unique(R) == \A a, b \in R : a.row = b.row \/ a.msg = b.msg => a = b
Table ==
    /\ rows \in SUBSET Row /\ Unique(rows)
    /\ \E n \in Nat : \A r \in rows : r.row <= n

TableInv == Table /\ \A r \in rows : r.msg <= Len(issued)

\* A list of some members of a set, each once.
Some(M, list) == Once(list) /\ \A i \in 1 .. Len(list) : list[i] \in M

SavedInv ==
    /\ pending \in [Sessions -> Turns]
    /\ \A s \in Sessions : Some(Of(s), pending[s].queued)

MemInv ==
    /\ mem \in [Procs -> [Sessions -> Seq(Entry)]]
    /\ saved \in [Procs -> [Sessions -> Int]]
    /\ synced \in [Procs -> [Sessions -> Nat]]
    /\ \A p \in Procs, s \in Sessions :
         \A i \in 1 .. Len(mem[p][s]) : mem[p][s][i].msg \in Of(s)

TurnInv ==
    /\ queue \in [Procs -> [Sessions -> Seq(Ids)]]
    /\ active \in [Procs -> {0} \cup Ids]
    /\ executed \in [Ids -> 0 .. 2]
    /\ \A p \in Procs :
         /\ active[p] <= Len(issued)
         /\ \A s \in Sessions : Some(Of(s), queue[p][s])
         /\ \A s \in Sessions : queue[p][s] # <<>> => active[p] # 0
         /\ phase[p] = "down" => active[p] = 0
    /\ \A t \in Ids : t > Len(issued) => executed[t] = 0

\* The sessions at the start that nobody removed.
Live == Initial \ removed

\* Which sessions are where.
HomeInv ==
    /\ created \in SUBSET Sessions
    /\ Initial \subseteq created /\ stored \subseteq created /\ removed \subseteq created
    /\ Live \subseteq stored
    /\ phase \in [Procs -> {"down", "idle", "saving", "leaving"}]
    /\ left \in [Procs -> SUBSET Sessions] /\ known \in [Procs -> SUBSET Sessions]
    /\ \A p \in Procs :
         /\ left[p] \subseteq known[p] /\ known[p] \subseteq created
         /\ left[p] # {} => phase[p] \in {"saving", "leaving"}
         /\ phase[p] # "down" => Live \subseteq known[p]
         /\ phase[p] = "down" => known[p] = {}

\* The rows of a session are its messages, in their order.
RowsInOrder(s) ==
    /\ \A m \in Of(s) : Stored(RowsOf(s), m)
    /\ \A r \in RowsOf(s) : r.seq = 0
    /\ \A r, x \in RowsOf(s) : r.row < x.row => r.msg < x.msg

\* A process has its own messages and those up to the watermark of its poll.
Received(p, s) ==
    /\ \A m \in Of(s) : issued[m].by = p => Has(p, s, m)
    /\ \A r \in RowsOf(s) : r.row <= synced[p][s] => Has(p, s, r.msg)

\* What it has of an author is in order and without gap.
InOrder(p, s) ==
    \A i \in 1 .. Len(mem[p][s]) :
        /\ \A k \in 1 .. i - 1 :
             issued[mem[p][s][k].msg].by = issued[mem[p][s][i].msg].by =>
                mem[p][s][k].msg < mem[p][s][i].msg
        /\ \A m \in Of(s) :
             issued[m].by = issued[mem[p][s][i].msg].by /\ m < mem[p][s][i].msg => Has(p, s, m)

\* The watermark is that of a row of the session, whatever other rows there are.
Marked(p, s) == synced[p][s] = 0 \/ \E r \in RowsOf(s) : r.row = synced[p][s]

Sees(p, s) == Marked(p, s) /\ (s \in known[p] => Received(p, s) /\ InOrder(p, s))

Seen(s) == RowsInOrder(s) /\ \A p \in Procs : Sees(p, s)

OrderInv == failures = 0 => \A s \in Live : Seen(s)

Base == IssuedInv /\ TableInv /\ SavedInv /\ MemInv /\ TurnInv /\ HomeInv

-----------------------------------------------------------------------------
(* The table and the lists.                                                *)

LEMMA LastIdFound ==
    ASSUME NEW R \in SUBSET Row, NEW n \in Nat, \A r \in R : r.row <= n
    PROVE  /\ LastId(R) \in Nat
           /\ \A r \in R : r.row <= LastId(R)
           /\ LastId(R) = 0 \/ \E r \in R : r.row = LastId(R)
<1> DEFINE S == {0} \cup {r.row : r \in R}
<1>1. \A r \in R : r.row \in Nat
  BY DEF Row
<1>2. S \in SUBSET Nat /\ S # {}
  BY <1>1
<1>3. \A x \in S : x <= n
  OBVIOUS
<1>4. Max(S) \in S /\ \A x \in S : x <= Max(S)
  BY <1>2, <1>3, MaxFound
<1> QED
  BY <1>2, <1>4 DEF LastId

\* The list of a session with more entries.
LEMMA Added ==
    ASSUME NEW list \in Seq(Entry),
           NEW entries, Len(entries) \in Nat, DOMAIN entries = 1 .. Len(entries),
           \A i \in 1 .. Len(entries) : entries[i].msg \in Ids /\ entries[i].seq \in Nat
    PROVE  /\ Add(list, entries) \in Seq(Entry)
           /\ Len(Add(list, entries)) = Len(list) + Len(entries)
           /\ \A i \in 1 .. Len(list) : Add(list, entries)[i] = list[i]
           /\ \A i \in 1 .. Len(entries) : Add(list, entries)[Len(list) + i].msg = entries[i].msg
<1> DEFINE e == [i \in DOMAIN entries |->
                    [msg |-> entries[i].msg,
                     seq |-> IF entries[i].seq > 0 THEN entries[i].seq ELSE Len(list) + i]]
<1>1. Len(list) \in Nat
  BY LenProperties
<1>2. \A i \in 1 .. Len(entries) : e[i] \in Entry /\ e[i].msg = entries[i].msg
  BY <1>1 DEF Entry
<1>3. e \in Seq(Entry) /\ Len(e) = Len(entries)
  BY <1>1, <1>2
<1>4. Add(list, entries) = list \o e
  BY DEF Add
<1> HIDE DEF e
<1>5. /\ list \o e \in Seq(Entry)
      /\ Len(list \o e) = Len(list) + Len(e)
      /\ \A i \in 1 .. Len(list) + Len(e) :
            (list \o e)[i] = IF i <= Len(list) THEN list[i] ELSE e[i - Len(list)]
  BY <1>3, ConcatProperties
<1>6. \A i \in 1 .. Len(entries) : (list \o e)[Len(list) + i] = e[i]
  BY <1>1, <1>3, <1>5
<1> QED
  BY <1>1, <1>2, <1>3, <1>4, <1>5, <1>6

\* The rows that an insertion adds come last, each for a message that had none.
LEMMA Inserted ==
    ASSUME NEW R \in SUBSET Row, NEW n \in Nat, \A r \in R : r.row <= n, Unique(R),
           NEW list, Len(list) \in Nat,
           \A i \in 1 .. Len(list) : list[i].msg \in Ids /\ list[i].seq \in Nat,
           NEW tried \in SUBSET (1 .. Len(list))
    PROVE  /\ R \subseteq Insert(R, list, tried) /\ Insert(R, list, tried) \in SUBSET Row
           /\ \A r \in Insert(R, list, tried) \ R :
                 /\ \A x \in R : x.row < r.row
                 /\ ~Stored(R, r.msg)
                 /\ \E i \in tried : r.msg = list[i].msg /\ r.seq = list[i].seq
           /\ Unique(Insert(R, list, tried))
           /\ \E m \in Nat : \A r \in Insert(R, list, tried) : r.row <= m
<1> DEFINE new == {i \in tried : /\ ~Stored(R, list[i].msg)
                                 /\ \A k \in tried : k < i => list[k].msg # list[i].msg}
           up(i) == {k \in new : k <= i}
           row(i) == [row |-> LastId(R) + Cardinality(up(i)),
                      msg |-> list[i].msg, seq |-> list[i].seq]
           N == {row(i) : i \in new}
<1>1. Insert(R, list, tried) = R \cup N
  BY DEF Insert
<1>2. /\ LastId(R) \in Nat
      /\ \A r \in R : r.row <= LastId(R)
  BY LastIdFound
<1>3. Len(list) \in Nat
  OBVIOUS
<1>4. IsFiniteSet(new) /\ Cardinality(new) \in Nat
  <2>1. IsFiniteSet(1 .. Len(list))
    BY <1>3, FS_Interval
  <2>2. new \subseteq 1 .. Len(list)
    OBVIOUS
  <2> QED
    BY <2>1, <2>2, FS_Subset, FS_CardinalityType
<1>5. \A i \in new : IsFiniteSet(up(i)) /\ Cardinality(up(i)) \in 1 .. Cardinality(new)
  <2> SUFFICES ASSUME NEW i \in new
               PROVE  IsFiniteSet(up(i)) /\ Cardinality(up(i)) \in 1 .. Cardinality(new)
    OBVIOUS
  <2>1. up(i) \subseteq new /\ i \in up(i)
    BY <1>3
  <2>2. IsFiniteSet(up(i)) /\ Cardinality(up(i)) <= Cardinality(new)
    BY <1>4, <2>1, FS_Subset
  <2>3. Cardinality(up(i)) \in Nat /\ Cardinality(up(i)) # 0
    BY <2>1, <2>2, FS_CardinalityType, FS_EmptySet
  <2> QED
    BY <1>4, <2>2, <2>3
<1>6. \A i, k \in new : i < k => Cardinality(up(i)) # Cardinality(up(k)) /\ list[i].msg # list[k].msg
  <2> SUFFICES ASSUME NEW i \in new, NEW k \in new, i < k
               PROVE  Cardinality(up(i)) # Cardinality(up(k)) /\ list[i].msg # list[k].msg
    OBVIOUS
  <2>1. i \in 1 .. Len(list) /\ k \in 1 .. Len(list)
    OBVIOUS
  <2>2. up(i) \subseteq up(k) /\ k \in up(k) /\ k \notin up(i)
    <3>1. \A x \in new : x \in Nat
      BY <1>3
    <3> HIDE DEF new
    <3> QED
      BY <3>1
  <2>3. up(i) # up(k)
    BY <2>2
  <2>4. Cardinality(up(i)) # Cardinality(up(k))
    BY <1>5, <2>2, <2>3, FS_Subset
  <2> QED
    BY <2>4
<1> HIDE DEF up
<1>7. \A i \in new : /\ row(i) \in Row /\ row(i).row > LastId(R) /\ row(i).row <= LastId(R) + Cardinality(new)
                     /\ row(i).msg = list[i].msg /\ row(i).seq = list[i].seq
                     /\ ~Stored(R, row(i).msg) /\ i \in tried
  BY <1>2, <1>3, <1>4, <1>5 DEF Row
<1>8. \A i, k \in new : i # k => row(i).row # row(k).row /\ row(i).msg # row(k).msg
  <2> SUFFICES ASSUME NEW i \in new, NEW k \in new, i # k
               PROVE  row(i).row # row(k).row /\ row(i).msg # row(k).msg
    OBVIOUS
  <2>1. i < k \/ k < i
    BY <1>3
  <2>2. Cardinality(up(i)) # Cardinality(up(k)) /\ list[i].msg # list[k].msg
    BY <1>6, <2>1
  <2>3. row(i).row = LastId(R) + Cardinality(up(i)) /\ row(k).row = LastId(R) + Cardinality(up(k))
    OBVIOUS
  <2>4. Cardinality(up(i)) \in Int /\ Cardinality(up(k)) \in Int
    BY <1>4, <1>5
  <2>5. row(i).row # row(k).row
    BY <1>2, <2>2, <2>3, <2>4
  <2> QED
    BY <2>2, <2>5
<1> HIDE DEF row, new
<1>9. \A r \in N : /\ r \in Row /\ r.row > LastId(R) /\ r.row <= LastId(R) + Cardinality(new)
                   /\ ~Stored(R, r.msg)
                   /\ \E i \in tried : r.msg = list[i].msg /\ r.seq = list[i].seq
  BY <1>7
<1>10. \A r \in R : r.row \in Nat
  BY DEF Row
<1>11. Unique(R \cup N)
  <2> SUFFICES ASSUME NEW a \in R \cup N, NEW b \in R \cup N, a.row = b.row \/ a.msg = b.msg
               PROVE  a = b
    BY DEF Table, Unique
  <2>1. CASE a \in R /\ b \in R
    BY <2>1 DEF Unique
  <2>2. CASE a \in R /\ b \in N
    <3>1. a.row # b.row
      BY <1>2, <1>9, <1>10, <2>2 DEF Row
    <3>2. a.msg # b.msg
      BY <1>9, <2>2 DEF Stored
    <3> QED
      BY <3>1, <3>2
  <2>3. CASE a \in N /\ b \in R
    <3>1. a.row # b.row
      BY <1>2, <1>9, <1>10, <2>3 DEF Row
    <3>2. a.msg # b.msg
      BY <1>9, <2>3 DEF Stored
    <3> QED
      BY <3>1, <3>2
  <2>4. CASE a \in N /\ b \in N
    <3>1. PICK i \in new, k \in new : a = row(i) /\ b = row(k)
      BY <2>4
    <3> QED
      BY <1>8, <3>1
  <2> QED
    BY <2>1, <2>2, <2>3, <2>4
<1>12. \A r \in R \cup N : r.row <= LastId(R) + Cardinality(new)
  BY <1>2, <1>4, <1>9, <1>10
<1>13. LastId(R) + Cardinality(new) \in Nat
  BY <1>2, <1>4
<1>14. \A r \in N : \A x \in R : x.row < r.row
  BY <1>2, <1>9, <1>10 DEF Row
<1> HIDE DEF N
<1> QED
  BY <1>1, <1>9, <1>11, <1>12, <1>13, <1>14

LEMMA Bounds == MaxIssued \in Nat /\ MaxCrashes \in Nat /\ MaxFailures \in Nat /\ MaxRemovals \in Nat
BY StoreAssumption DEF StoreAssumption

LEMMA RowsFinite ==
    ASSUME Table
    PROVE  IsFiniteSet(rows)
<1> DEFINE f == [r \in rows |-> r.msg]
<1>1. f \in [rows -> Ids]
  BY DEF Table, Row
<1>2. \A a, b \in rows : f[a] = f[b] => a = b
  BY DEF Table, Unique
<1>3. f \in Injection(rows, Ids)
  BY <1>1, <1>2 DEF Injection, IsInjective
<1>4. IsFiniteSet(Ids)
  BY Bounds, FS_Interval DEF Ids
<1> QED
  BY <1>3, <1>4, FS_Injection

\* Rows by their ids.
LEMMA RowsByRow ==
    ASSUME Table, NEW R \in SUBSET rows
    PROVE  /\ ByRow(R) \in Seq(R)
           /\ \A r \in R : \E i \in 1 .. Len(ByRow(R)) : ByRow(R)[i] = r
           /\ \A i, j \in 1 .. Len(ByRow(R)) : i < j => ByRow(R)[i].row < ByRow(R)[j].row
<1> DEFINE before == {w \in R \X R : w[1].row < w[2].row}
<1>1. IsFiniteSet(R)
  BY RowsFinite, FS_Subset
<1>2. \A r \in R : r.row \in Nat
  BY DEF Table, Row
<1>3. \A a, b \in R : <<a, b>> \in before <=> a.row < b.row
  OBVIOUS
<1>4. OrderOf(R, before)
  <2>1. before \subseteq R \X R
    OBVIOUS
  <2> HIDE DEF before
  <2>2. \A x \in R : <<x, x>> \notin before
    BY <1>2, <1>3
  <2>3. \A x, y, z \in R : <<x, y>> \in before /\ <<y, z>> \in before => <<x, z>> \in before
    BY <1>2, <1>3
  <2>4. \A x, y \in R : x = y \/ <<x, y>> \in before \/ <<y, x>> \in before
    <3> SUFFICES ASSUME NEW x \in R, NEW y \in R, x # y
                 PROVE  <<x, y>> \in before \/ <<y, x>> \in before
      OBVIOUS
    <3>1. x.row # y.row
      BY DEF Table, Unique
    <3> QED
      BY <1>2, <1>3, <3>1
  <2> QED
    BY <1>1, <2>1, <2>2, <2>3, <2>4 DEF OrderOf
<1>5. ByRow(R) = Sorted(R, before)
  BY DEF ByRow
<1> HIDE DEF before
<1>6. /\ Sorted(R, before) \in Seq(R)
      /\ Len(Sorted(R, before)) = Cardinality(R)
      /\ \A r \in R : \E i \in 1 .. Cardinality(R) : Sorted(R, before)[i] = r
      /\ \A i, j \in 1 .. Cardinality(R) :
            i < j => <<Sorted(R, before)[i], Sorted(R, before)[j]>> \in before
  BY <1>4, SortedLists
<1>7. \A i \in 1 .. Len(Sorted(R, before)) : Sorted(R, before)[i] \in R
  BY <1>6
<1> QED
  BY <1>3, <1>5, <1>6, <1>7

\* The rows a start reads: all those of the session, by their ids if none has a number.
LEMMA RowsRead ==
    ASSUME Table, NEW s \in Sessions
    PROVE  /\ SessionRows(s) \in Seq(RowsOf(s))
           /\ \A r \in RowsOf(s) : \E i \in 1 .. Len(SessionRows(s)) : SessionRows(s)[i] = r
           /\ (\A r \in RowsOf(s) : r.seq = 0) =>
                 \A i, j \in 1 .. Len(SessionRows(s)) :
                    i < j => SessionRows(s)[i].row < SessionRows(s)[j].row
<1> DEFINE R == RowsOf(s)
           Key(r) == IF r.seq > 0 THEN r.seq ELSE r.row
           before == {w \in R \X R : \/ Key(w[1]) < Key(w[2])
                                     \/ Key(w[1]) = Key(w[2]) /\ w[1].row < w[2].row}
<1>1. IsFiniteSet(R)
  BY RowsFinite, FS_Subset DEF RowsOf
<1>2. \A r \in R : r \in rows /\ r.row \in Nat /\ r.seq \in Nat
  BY DEF Table, Row, RowsOf
<1>3. \A a, b \in R : <<a, b>> \in before <=> \/ Key(a) < Key(b)
                                              \/ Key(a) = Key(b) /\ a.row < b.row
  OBVIOUS
<1>4. \A r \in R : Key(r) \in Nat
  BY <1>2
<1>5. (\A r \in R : r.seq = 0) => \A r \in R : Key(r) = r.row
  BY <1>2
<1>6. SessionRows(s) = Sorted(R, before)
  BY DEF SessionRows
<1>7. before \subseteq R \X R
  OBVIOUS
<1> HIDE DEF before, Key, R
<1>8. OrderOf(R, before)
  <2>2. \A x \in R : <<x, x>> \notin before
    BY <1>2, <1>3, <1>4
  <2>3. \A x, y, z \in R : <<x, y>> \in before /\ <<y, z>> \in before => <<x, z>> \in before
    BY <1>2, <1>3, <1>4
  <2>4. \A x, y \in R : x = y \/ <<x, y>> \in before \/ <<y, x>> \in before
    <3> SUFFICES ASSUME NEW x \in R, NEW y \in R, x # y
                 PROVE  <<x, y>> \in before \/ <<y, x>> \in before
      OBVIOUS
    <3>1. x.row # y.row
      BY <1>2 DEF Table, Unique
    <3> QED
      BY <1>2, <1>3, <1>4, <3>1
  <2> QED
    BY <1>1, <1>7, <2>2, <2>3, <2>4 DEF OrderOf
<1>9. /\ Sorted(R, before) \in Seq(R)
      /\ Len(Sorted(R, before)) = Cardinality(R)
      /\ \A r \in R : \E i \in 1 .. Cardinality(R) : Sorted(R, before)[i] = r
      /\ \A i, j \in 1 .. Cardinality(R) :
            i < j => <<Sorted(R, before)[i], Sorted(R, before)[j]>> \in before
  BY <1>8, SortedLists
<1>10. \A i \in 1 .. Len(Sorted(R, before)) : Sorted(R, before)[i] \in R
  BY <1>9
<1>11. (\A r \in R : r.seq = 0) =>
          \A i, j \in 1 .. Len(Sorted(R, before)) :
             i < j => Sorted(R, before)[i].row < Sorted(R, before)[j].row
  BY <1>2, <1>3, <1>5, <1>9, <1>10
<1> QED
  BY <1>6, <1>9, <1>11 DEF R

\* What a start makes of them.
LEMMA ListLoaded ==
    ASSUME Table, NEW s \in Sessions
    PROVE  /\ Loaded(s) \in Seq(Entry)
           /\ Len(Loaded(s)) = Len(SessionRows(s))
           /\ \A i \in 1 .. Len(SessionRows(s)) : Loaded(s)[i].msg = SessionRows(s)[i].msg
<1> DEFINE R == RowsOf(s)  list == SessionRows(s)
<1>1. \A r \in R : r.msg \in Ids /\ r.seq \in Nat
  BY DEF Table, Row, RowsOf
<1>2. PICK none \in Seq(Entry) : none = <<>> /\ Len(none) = 0
  BY EmptySeq
<1>3. list \in Seq(R)
  BY RowsRead
<1>4. /\ Len(list) \in Nat /\ DOMAIN list = 1 .. Len(list)
      /\ \A i \in 1 .. Len(list) : list[i] \in R
  BY <1>3, LenProperties
<1>5. Loaded(s) = Add(none, list)
  BY <1>2 DEF Loaded
<1> HIDE DEF R, list
<1>6. /\ Add(none, list) \in Seq(Entry)
      /\ Len(Add(none, list)) = Len(none) + Len(list)
      /\ \A i \in 1 .. Len(list) : Add(none, list)[Len(none) + i].msg = list[i].msg
  BY <1>1, <1>4, Added
<1>7. \A i \in 1 .. Len(list) : Len(none) + i = i
  BY <1>2, <1>4
<1> QED
  BY <1>2, <1>4, <1>5, <1>6, <1>7 DEF list

\* Of a list those entries are kept that are asked for, in order.
LEMMA ListKept ==
    ASSUME NEW q \in Seq(Ids), NEW some \in SUBSET (1 .. Len(q))
    PROVE  /\ Kept(q, some) \in Seq(Ids)
           /\ \A i \in 1 .. Len(Kept(q, some)) : \E k \in some : Kept(q, some)[i] = q[k]
           /\ \A k \in some : \E i \in 1 .. Len(Kept(q, some)) : Kept(q, some)[i] = q[k]
           /\ Once(q) => Once(Kept(q, some))
<1> DEFINE before == {w \in some \X some : w[1] < w[2]}
           at == Sorted(some, before)
<1>1. Len(q) \in Nat /\ \A i \in 1 .. Len(q) : q[i] \in Ids
  BY LenProperties
<1>2. IsFiniteSet(some) /\ \A k \in some : k \in Nat
  <2>1. IsFiniteSet(1 .. Len(q))
    BY <1>1, FS_Interval
  <2>2. \A k \in some : k \in Nat
    BY <1>1
  <2>3. IsFiniteSet(some)
    BY <2>1, FS_Subset
  <2> QED
    BY <2>2, <2>3
<1>3. \A a, b \in some : <<a, b>> \in before <=> a < b
  OBVIOUS
<1>4. before \subseteq some \X some
  OBVIOUS
<1>5. Kept(q, some) = [i \in DOMAIN at |-> q[at[i]]]
  BY DEF Kept
<1> HIDE DEF before
<1>6. OrderOf(some, before)
  BY <1>2, <1>3, <1>4 DEF OrderOf
<1>7. /\ at \in Seq(some) /\ Len(at) = Cardinality(some)
      /\ \A k \in some : \E i \in 1 .. Cardinality(some) : at[i] = k
      /\ \A i, j \in 1 .. Cardinality(some) : i < j => <<at[i], at[j]>> \in before
  BY <1>6, SortedLists
<1> HIDE DEF at
<1>8. /\ Len(at) \in Nat /\ DOMAIN at = 1 .. Len(at)
      /\ \A i \in 1 .. Len(at) : at[i] \in some
  BY <1>7, LenProperties
<1>9. \A i \in 1 .. Len(at) : q[at[i]] \in Ids
  BY <1>1, <1>8
<1>10. /\ Kept(q, some) \in Seq(Ids) /\ Len(Kept(q, some)) = Len(at)
       /\ \A i \in 1 .. Len(at) : Kept(q, some)[i] = q[at[i]]
  BY <1>5, <1>8, <1>9
<1>11. ASSUME Once(q) PROVE Once(Kept(q, some))
  <2> SUFFICES ASSUME NEW i \in 1 .. Len(at), NEW j \in 1 .. Len(at), i < j
               PROVE  q[at[i]] # q[at[j]]
    BY <1>10 DEF Once
  <2>1. at[i] \in some /\ at[j] \in some /\ at[i] < at[j]
    BY <1>3, <1>7, <1>8
  <2> QED
    BY <1>11, <2>1 DEF Once
<1>12. \A i \in 1 .. Len(Kept(q, some)) : \E k \in some : Kept(q, some)[i] = q[k]
  BY <1>8, <1>10
<1>13. \A k \in some : \E i \in 1 .. Len(Kept(q, some)) : Kept(q, some)[i] = q[k]
  BY <1>7, <1>10
<1> QED
  BY <1>10, <1>11, <1>12, <1>13

\* A process whose agent is free takes the first turn of a queue, if there is one.
Taken(p, q, q2, a) ==
    \/ q2 = q /\ a = 0 /\ (\A x \in Sessions : q[x] = <<>>) /\ UNCHANGED executed
    \/ \E x \in Sessions :
         /\ q[x] # <<>> /\ a = Head(q[x])
         /\ q2 = [q EXCEPT ![x] = Tail(q[x])]
         /\ executed' = [executed EXCEPT ![a] = IF @ < 2 THEN @ + 1 ELSE @]

LEMMA Started ==
    ASSUME TurnInv, NEW p \in Procs, NEW s \in Sessions, NEW q \in [Sessions -> Seq(Ids)],
           StartNext(p, q, s)
    PROVE  \E q2 \in [Sessions -> Seq(Ids)], a \in {0} \cup Ids :
              /\ queue' = [queue EXCEPT ![p] = q2] /\ active' = [active EXCEPT ![p] = a]
              /\ Taken(p, q, q2, a)
              /\ executed' \in [Ids -> 0 .. 2]
              /\ \A x \in Sessions : q2[x] # <<>> => a # 0
<1> DEFINE waiting == {x \in Sessions : q[x] # <<>>}
           next == IF s \in waiting THEN {s} ELSE waiting
<1>1. next \subseteq waiting /\ (next = {} => \A x \in Sessions : q[x] = <<>>)
  OBVIOUS
<1>2. \/ next = {} /\ queue' = [queue EXCEPT ![p] = q] /\ active' = [active EXCEPT ![p] = 0]
         /\ UNCHANGED executed
      \/ \E x \in next :
           /\ queue' = [queue EXCEPT ![p] = [q EXCEPT ![x] = Tail(@)]]
           /\ active' = [active EXCEPT ![p] = Head(q[x])]
           /\ executed' = [executed EXCEPT ![Head(q[x])] = IF @ < 2 THEN @ + 1 ELSE @]
  BY Zenon DEF StartNext
<1> HIDE DEF next
<1>3. CASE next = {} /\ queue' = [queue EXCEPT ![p] = q] /\ active' = [active EXCEPT ![p] = 0]
           /\ UNCHANGED executed
  BY <1>1, <1>3 DEF Taken, TurnInv
<1>4. ASSUME NEW x \in next,
             queue' = [queue EXCEPT ![p] = [q EXCEPT ![x] = Tail(@)]],
             active' = [active EXCEPT ![p] = Head(q[x])],
             executed' = [executed EXCEPT ![Head(q[x])] = IF @ < 2 THEN @ + 1 ELSE @]
      PROVE  \E q2 \in [Sessions -> Seq(Ids)], a \in {0} \cup Ids :
                /\ queue' = [queue EXCEPT ![p] = q2] /\ active' = [active EXCEPT ![p] = a]
                /\ Taken(p, q, q2, a)
                /\ executed' \in [Ids -> 0 .. 2]
                /\ \A y \in Sessions : q2[y] # <<>> => a # 0
  <2>1. x \in Sessions /\ q[x] \in Seq(Ids) /\ q[x] # <<>>
    BY <1>1
  <2>2. Head(q[x]) \in Ids /\ Tail(q[x]) \in Seq(Ids)
    BY <2>1, HeadTailProperties
  <2>3. [q EXCEPT ![x] = Tail(@)] = [q EXCEPT ![x] = Tail(q[x])]
        /\ [q EXCEPT ![x] = Tail(q[x])] \in [Sessions -> Seq(Ids)]
    BY <2>1, <2>2
  <2>4. Head(q[x]) # 0 /\ executed' \in [Ids -> 0 .. 2]
    BY <1>4, <2>2 DEF TurnInv, Ids
  <2>5. Taken(p, q, [q EXCEPT ![x] = Tail(q[x])], Head(q[x]))
    BY <1>4, <2>1 DEF Taken
  <2> QED
    BY <1>4, <2>2, <2>3, <2>4, <2>5
<1> QED
  BY <1>2, <1>3, <1>4

-----------------------------------------------------------------------------
(* What the steps have in common.                                          *)

\* Messages are made, never changed.
Grows ==
    /\ Len(issued) <= Len(issued') /\ Len(issued') <= Len(issued) + 1
    /\ \A m \in 1 .. Len(issued) : issued'[m] = issued[m]

LEMMA SessionOf == ASSUME IssuedInv, NEW m \in 1 .. Len(issued) PROVE issued[m].session \in Sessions
<1>1. issued[m] \in Message
  BY ElementOfSeq DEF IssuedInv
<1> QED
  BY <1>1 DEF Message

\* A message made by a process.
LEMMA NewMessage ==
    ASSUME IssuedInv, NEW p \in Procs, NEW s \in Sessions, NEW kind, Issue(p, s, kind)
    PROVE  /\ issued' \in Seq(Message) /\ Len(issued') <= MaxIssued
           /\ Len(issued') = Len(issued) + 1 /\ Len(issued) + 1 \in Ids
           /\ issued'[Len(issued) + 1] = [session |-> s, by |-> p, kind |-> kind]
           /\ Grows
<1> DEFINE e == [session |-> s, by |-> p, kind |-> kind]
<1>1. kind \in Kinds
  BY StoreAssumption DEF Issue, Kinds, StoreAssumption
<1>2. e \in Message
  BY <1>1 DEF Message
<1>3. issued' = Append(issued, e) /\ Len(issued) < MaxIssued /\ issued \in Seq(Message)
  BY DEF Issue, IssuedInv
<1>4. Len(issued) \in Nat
  BY <1>3, LenProperties
<1> HIDE DEF e
<1>5. /\ Append(issued, e) \in Seq(Message)
      /\ Len(Append(issued, e)) = Len(issued) + 1
      /\ \A i \in 1 .. Len(issued) : Append(issued, e)[i] = issued[i]
      /\ Append(issued, e)[Len(issued) + 1] = e
  BY <1>2, <1>3, AppendProperties
<1>6. Len(issued) + 1 \in Ids /\ Len(issued) + 1 <= MaxIssued
  BY <1>3, <1>4, Bounds DEF Ids
<1> QED
  BY <1>3, <1>4, <1>5, <1>6 DEF Grows, e

LEMMA OfGrows ==
    ASSUME IssuedInv, Grows
    PROVE  \A s : Of(s) \subseteq Of(s)'
<1>1. issued \in Seq(Message) /\ Len(issued) \in Nat
  BY LenProperties DEF IssuedInv
<1> QED
  BY <1>1 DEF Of, Grows

LEMMA SameIssued == IssuedInv /\ issued' = issued => Grows
<1> SUFFICES ASSUME IssuedInv, issued' = issued PROVE Grows
  OBVIOUS
<1>1. Len(issued) \in Nat
  BY LenProperties DEF IssuedInv
<1> QED
  BY <1>1 DEF Grows

\* Messages are made one at a time, by the handlers that post them.
LEMMA IssuedStep ==
    ASSUME Base, [Next]_vars
    PROVE  IssuedInv' /\ Grows
<1> USE DEF Base
<1>0. crashes \in Nat /\ failures \in Nat /\ Len(issued) \in Nat
  BY LenProperties, Bounds DEF IssuedInv
<1>1. CASE issued' = issued /\ crashes' \in 0 .. MaxCrashes /\ failures' \in 0 .. MaxFailures
  BY <1>1, SameIssued DEF IssuedInv
<1>2. ASSUME NEW p \in Procs, NEW s \in Sessions, NEW kind,
             Issue(p, s, kind), Post(p, s), crashes' = crashes
      PROVE  IssuedInv' /\ Grows
  <2>1. failures' \in 0 .. MaxFailures
    BY <1>0, <1>2, Bounds DEF Post, IssuedInv
  <2> QED
    BY <1>2, <2>1, NewMessage DEF IssuedInv
<1>3. CASE UNCHANGED vars
  BY <1>1, <1>3 DEF vars, IssuedInv, counts
<1>4. ASSUME NEW p \in Procs, Step(p)
      PROVE  IssuedInv' /\ Grows
  <2>1. CASE Load(p) \/ Drop(p) \/ SaveNow(p) \/ Purge(p) \/ Exit(p)
    BY <1>1, <2>1 DEF Load, Drop, SaveNow, Purge, Exit, counts, IssuedInv
  <2>2. CASE Crash(p)
    BY <1>0, <1>1, <2>2, Bounds DEF Crash, IssuedInv
  <2>3. CASE Finish(p)
    <3>1. active[p] \in 1 .. Len(issued) /\ crashes' = crashes
      BY <2>3 DEF Finish, TurnInv, Ids
    <3>2. issued[active[p]].session \in Sessions
      BY <3>1, SessionOf
    <3>3. \/ Issue(p, issued[active[p]].session, "reply") /\ Post(p, issued[active[p]].session)
          \/ issued' = issued /\ failures' = failures
      BY <2>3 DEF Finish
    <3> QED
      BY <1>1, <1>2, <3>1, <3>2, <3>3 DEF IssuedInv
  <2>4. ASSUME NEW s \in Sessions, SendUserMessage(p, s) \/ TeammateReply(p, s) \/ Notify(p, s)
        PROVE  IssuedInv' /\ Grows
    BY <1>2, <2>4 DEF SendUserMessage, TeammateReply, Notify
  <2>5. ASSUME NEW s \in Sessions, CreateSession(p, s) \/ RemoveSession(p, s) \/ Poll(p, s)
        PROVE  IssuedInv' /\ Grows
    BY <1>1, <2>5 DEF CreateSession, RemoveSession, Poll, counts, IssuedInv
  <2>6. ASSUME NEW s \in Sessions, SaveSession(p, s)
        PROVE  IssuedInv' /\ Grows
    <3> DEFINE written == IF saved[p][s] = Len(mem[p][s]) THEN {} ELSE DOMAIN mem[p][s]
    <3>1. PICK lost \in SUBSET written :
             /\ failures + Cardinality(lost) <= MaxFailures
             /\ failures' = failures + Cardinality(lost)
      BY <2>6 DEF SaveSession
    <3>2. mem[p][s] \in Seq(Entry)
      BY DEF MemInv
    <3>3. IsFiniteSet(1 .. Len(mem[p][s])) /\ written \subseteq 1 .. Len(mem[p][s])
      <4>1. Len(mem[p][s]) \in Nat /\ DOMAIN mem[p][s] = 1 .. Len(mem[p][s])
        BY <3>2, LenProperties
      <4> QED
        BY <4>1, FS_Interval
    <3>4. Cardinality(lost) \in Nat
      BY <3>1, <3>3, FS_Subset, FS_CardinalityType
    <3>5. failures' \in 0 .. MaxFailures
      BY <1>0, <3>1, <3>4, Bounds
    <3> QED
      BY <1>1, <2>6, <3>5 DEF SaveSession, IssuedInv
  <2> QED
    BY <1>4, <2>1, <2>2, <2>3, <2>4, <2>5, <2>6 DEF Step
<1> QED
  BY <1>3, <1>4 DEF Next

\* Where the sessions are.
LEMMA HomeStep ==
    ASSUME Base, [Next]_vars
    PROVE  HomeInv'
<1> USE DEF Base
<1>1. CASE UNCHANGED <<stored, phase, left, known, created, removed>>
  BY <1>1 DEF HomeInv, Live
<1>2. ASSUME NEW p \in Procs, NEW how \in {"saving", "leaving"}, phase[p] = "idle",
             BeginSave(p, how, known[p]), UNCHANGED <<stored, known, created, removed>>
      PROVE  HomeInv'
  BY <1>2 DEF BeginSave, HomeInv, Live
<1>3. CASE UNCHANGED vars
  BY <1>1, <1>3 DEF vars, db, loop, local, counts
<1>4. ASSUME NEW p \in Procs, Step(p)
      PROVE  HomeInv'
  <2>1. CASE Load(p)
    BY <2>1 DEF Load, db, counts, HomeInv, Live
  <2>2. CASE Drop(p)
    BY <1>1, <2>2 DEF Drop, db, loop, local, counts
  <2>3. CASE SaveNow(p) \/ Exit(p)
    BY <1>2, <2>3 DEF SaveNow, Exit, Ready, db, local, counts
  <2>4. CASE Purge(p)
    <3>1. /\ phase[p] \in {"saving", "leaving"} /\ left[p] = {}
          /\ stored' = stored \ (stored \ known[p])
          /\ UNCHANGED <<left, created, removed>>
      BY <2>4 DEF Purge, DeleteSessions, counts
    <3>2. \/ phase' = [phase EXCEPT ![p] = "idle"] /\ known' = known
          \/ phase' = [phase EXCEPT ![p] = "down"] /\ known' = [known EXCEPT ![p] = {}]
      BY <2>4 DEF Purge, Forget
    <3> QED
      BY <3>1, <3>2 DEF HomeInv, Live
  <2>5. CASE Crash(p)
    BY <2>5 DEF Crash, BeginSave, Forget, db, HomeInv, Live
  <2>6. CASE Finish(p)
    <3>1. /\ phase[p] = "idle" /\ UNCHANGED <<stored, created, removed>>
          /\ \/ BeginSave(p, "saving", known[p])
             \/ UNCHANGED loop
          /\ known' = known
      BY <2>6 DEF Finish, Post, Ready, local
    <3> QED
      BY <1>1, <1>2, <3>1 DEF loop
  <2>7. ASSUME NEW s \in Sessions, SendUserMessage(p, s) \/ TeammateReply(p, s) \/ Notify(p, s)
        PROVE  HomeInv'
    BY <1>1, <2>7 DEF SendUserMessage, TeammateReply, Notify, Post, loop
  <2>8. ASSUME NEW s \in Sessions, CreateSession(p, s)
        PROVE  HomeInv'
    BY <2>8 DEF CreateSession, BeginSave, Ready, db, HomeInv, Live
  <2>9. ASSUME NEW s \in Sessions, RemoveSession(p, s)
        PROVE  HomeInv'
    <3>1. /\ phase[p] = "idle" /\ s \in known[p]
          /\ known' = [known EXCEPT ![p] = @ \ {s}]
          /\ removed' = removed \cup {s} /\ stored' = stored \ {s}
          /\ phase' = [phase EXCEPT ![p] = "saving"]
          /\ left' = [left EXCEPT ![p] = known'[p]]
          /\ created' = created
      BY <2>9 DEF RemoveSession, Ready, DeleteSessions, BeginSave
    <3> QED
      BY <3>1 DEF HomeInv, Live
  <2>10. ASSUME NEW s \in Sessions, SaveSession(p, s)
         PROVE  HomeInv'
    <3>1. /\ s \in left[p] /\ stored' = stored \cup {s}
          /\ left' = [left EXCEPT ![p] = @ \ {s}]
          /\ UNCHANGED <<phase, known, created, removed>>
      BY <2>10 DEF SaveSession
    <3> QED
      BY <3>1 DEF HomeInv, Live
  <2>11. ASSUME NEW s \in Sessions, Poll(p, s)
         PROVE  HomeInv'
    BY <1>1, <2>11 DEF Poll, db, loop, counts
  <2> QED
    BY <1>4, <2>1, <2>2, <2>3, <2>4, <2>5, <2>6, <2>7, <2>8, <2>9, <2>10, <2>11 DEF Step
<1> QED
  BY <1>3, <1>4 DEF Next

-----------------------------------------------------------------------------
(* The turns.                                                              *)

LEMMA TurnsStay ==
    ASSUME IssuedInv, Grows, NEW s, NEW list, Some(Of(s), list)
    PROVE  Some(Of(s)', list)
BY OfGrows DEF Some

LEMMA HeadTaken ==
    ASSUME NEW s, NEW list \in Seq(Ids), list # <<>>, Some(Of(s)', list)
    PROVE  Some(Of(s)', Tail(list)) /\ Head(list) \in Of(s)' /\ Tail(list) \in Seq(Ids)
<1>1. /\ Head(list) = list[1] /\ Len(list) \in Nat \ {0} /\ Tail(list) \in Seq(Ids)
      /\ Len(Tail(list)) = Len(list) - 1
      /\ \A i \in 1 .. Len(Tail(list)) : Tail(list)[i] = list[i + 1]
  BY HeadTailProperties, EmptySeq
<1>2. \A i \in 1 .. Len(Tail(list)) : i + 1 \in 1 .. Len(list)
  BY <1>1
<1>3. \A i \in 1 .. Len(Tail(list)) : Tail(list)[i] \in Of(s)'
  BY <1>1, <1>2 DEF Some
<1>4. Once(Tail(list))
  <2> SUFFICES ASSUME NEW i \in 1 .. Len(Tail(list)), NEW j \in 1 .. Len(Tail(list)), i < j
               PROVE  Tail(list)[i] # Tail(list)[j]
    BY DEF Once
  <2>1. i + 1 \in 1 .. Len(list) /\ j + 1 \in 1 .. Len(list) /\ i + 1 < j + 1
    BY <1>1, <1>2
  <2> QED
    BY <1>1, <2>1 DEF Some, Once
<1> QED
  BY <1>1, <1>3, <1>4 DEF Some

\* A new turn at the end of a queue.
LEMMA Queued ==
    ASSUME NEW s, NEW list \in Seq(Ids), Some(Of(s), list), IssuedInv, Grows,
           NEW t \in Ids, t \in Of(s)', t > Len(issued)
    PROVE  Append(list, t) \in Seq(Ids) /\ Some(Of(s)', Append(list, t))
<1>1. /\ Append(list, t) \in Seq(Ids) /\ Len(Append(list, t)) = Len(list) + 1
      /\ \A i \in 1 .. Len(list) : Append(list, t)[i] = list[i]
      /\ Append(list, t)[Len(list) + 1] = t /\ Len(list) \in Nat
  BY AppendProperties, LenProperties
<1>2. \A i \in 1 .. Len(list) : list[i] \in Of(s) /\ list[i] # t
  <2>1. Len(issued) \in Nat /\ t \in Nat
    BY LenProperties DEF IssuedInv, Ids
  <2>2. \A m \in Of(s) : m \in Nat /\ m <= Len(issued)
    BY <2>1 DEF Of
  <2> QED
    BY <2>1, <2>2 DEF Some
<1>3. Some(Of(s)', list)
  BY TurnsStay
<1>4. \A i \in 1 .. Len(Append(list, t)) : i \in 1 .. Len(list) \/ i = Len(list) + 1
  BY <1>1
<1>5. \A i \in 1 .. Len(Append(list, t)) : Append(list, t)[i] \in Of(s)'
  BY <1>1, <1>3, <1>4 DEF Some
<1>6. Once(Append(list, t))
  <2> SUFFICES ASSUME NEW i \in 1 .. Len(Append(list, t)), NEW j \in 1 .. Len(Append(list, t)), i < j
               PROVE  Append(list, t)[i] # Append(list, t)[j]
    BY DEF Once
  <2>1. i \in 1 .. Len(list) /\ (j \in 1 .. Len(list) \/ j = Len(list) + 1)
    BY <1>1
  <2> QED
    BY <1>1, <1>2, <2>1 DEF Some, Once
<1> QED
  BY <1>1, <1>5, <1>6 DEF Some

\* What keeps the turns as they should be.
LEMMA TurnsKept ==
    ASSUME Base, Grows, UNCHANGED turns, \A p \in Procs : phase'[p] = "down" => active[p] = 0
    PROVE  TurnInv'
<1>1. \A p \in Procs, s \in Sessions : Some(Of(s)', queue'[p][s])
  BY TurnsStay DEF Base, TurnInv, turns
<1>2. Len(issued) \in Nat
  BY LenProperties DEF Base, IssuedInv
<1>3. Len(issued') \in Nat /\ Len(issued) <= Len(issued')
  <2>1. Len(issued') <= Len(issued) + 1 /\ Len(issued) <= Len(issued')
    BY DEF Grows
  <2> QED
    BY <1>2, <2>1
<1>4. \A t \in {0} \cup Ids : t \in Int
  BY DEF Ids
<1>5. \A p \in Procs : active[p] <= Len(issued')
  <2>1. \A p \in Procs : active[p] <= Len(issued) /\ active[p] \in Int
    BY <1>4 DEF Base, TurnInv
  <2> QED
    BY <1>2, <1>3, <2>1
<1>6. \A t \in Ids : t > Len(issued') => executed[t] = 0
  <2>1. \A t \in Ids : t > Len(issued') => t > Len(issued)
    BY <1>2, <1>3 DEF Ids
  <2> QED
    BY <2>1 DEF Base, TurnInv
<1> QED
  BY <1>1, <1>5, <1>6 DEF Base, TurnInv, turns

LEMMA TurnsTaken ==
    ASSUME Base, Grows, Len(issued') \in Nat, NEW p \in Procs, phase'[p] # "down",
           \A r \in Procs \ {p} : phase'[r] = phase[r],
           NEW q \in [Sessions -> Seq(Ids)], \A s \in Sessions : Some(Of(s)', q[s]),
           NEW s0 \in Sessions, StartNext(p, q, s0)
    PROVE  TurnInv'
<1> USE DEF Base
<1>1. PICK q2 \in [Sessions -> Seq(Ids)], a \in {0} \cup Ids :
          /\ queue' = [queue EXCEPT ![p] = q2] /\ active' = [active EXCEPT ![p] = a]
          /\ Taken(p, q, q2, a)
          /\ executed' \in [Ids -> 0 .. 2]
          /\ \A x \in Sessions : q2[x] # <<>> => a # 0
  BY Started, ZenonT(60)
<1>2. Len(issued) \in Nat /\ Len(issued) <= Len(issued') /\ \A t \in {0} \cup Ids : t \in Int
  BY LenProperties DEF IssuedInv, Grows, Ids
<1>3. /\ \A s \in Sessions : Some(Of(s)', q2[s])
      /\ a <= Len(issued')
      /\ \A t \in Ids : t > Len(issued') => executed'[t] = 0
  <2>0. \A t \in Ids : t > Len(issued') => t > Len(issued)
    BY <1>2 DEF Ids
  <2>1. CASE q2 = q /\ a = 0 /\ UNCHANGED executed
    <3>1. \A t \in Ids : t > Len(issued') => executed'[t] = 0
      BY <2>0, <2>1 DEF TurnInv
    <3> QED
      BY <1>2, <2>1, <3>1
  <2>2. ASSUME NEW x \in Sessions, q[x] # <<>>, a = Head(q[x]), q2 = [q EXCEPT ![x] = Tail(q[x])],
               executed' = [executed EXCEPT ![a] = IF @ < 2 THEN @ + 1 ELSE @]
        PROVE  /\ \A s \in Sessions : Some(Of(s)', q2[s])
               /\ a <= Len(issued')
               /\ \A t \in Ids : t > Len(issued') => executed'[t] = 0
    <3>1. Some(Of(x)', Tail(q[x])) /\ a \in Of(x)'
      BY <2>2, HeadTaken
    <3>2. \A s \in Sessions : Some(Of(s)', q2[s])
      BY <2>2, <3>1
    <3>3. a <= Len(issued')
      BY <3>1 DEF Of
    <3>4. \A t \in Ids : t > Len(issued') => executed[t] = 0 /\ t # a
      BY <1>2, <2>0, <3>3 DEF TurnInv
    <3>5. \A t \in Ids : t # a => executed'[t] = executed[t]
      BY <2>2 DEF TurnInv
    <3> QED
      BY <3>2, <3>3, <3>4, <3>5
  <2> QED
    BY <1>1, <2>1, <2>2 DEF Taken
<1>4. \A r \in Procs \ {p}, s \in Sessions : Some(Of(s)', queue[r][s])
  BY TurnsStay DEF TurnInv
<1>5. \A r \in Procs : r # p => queue'[r] = queue[r] /\ active'[r] = active[r]
  BY <1>1 DEF TurnInv
<1>6. queue'[p] = q2 /\ active'[p] = a
  BY <1>1 DEF TurnInv
<1>7. queue' \in [Procs -> [Sessions -> Seq(Ids)]] /\ active' \in [Procs -> {0} \cup Ids]
  BY <1>1 DEF TurnInv
<1>8. ASSUME NEW r \in Procs
      PROVE  /\ active'[r] <= Len(issued')
             /\ \A s \in Sessions : Some(Of(s)', queue'[r][s])
             /\ \A s \in Sessions : queue'[r][s] # <<>> => active'[r] # 0
             /\ phase'[r] = "down" => active'[r] = 0
  <2>1. CASE r = p
    BY <1>1, <1>3, <1>6, <2>1
  <2>2. CASE r # p
    <3>1. queue'[r] = queue[r] /\ active'[r] = active[r] /\ phase'[r] = phase[r]
      BY <1>5, <2>2
    <3>2. active[r] <= Len(issued) /\ active[r] \in Int
      BY <1>2 DEF TurnInv
    <3>3. active[r] <= Len(issued')
      BY <1>2, <3>2
    <3>4. \A s \in Sessions : Some(Of(s)', queue[r][s])
      BY <1>4, <2>2
    <3> QED
      BY <3>1, <3>3, <3>4 DEF TurnInv
  <2> QED
    BY <2>1, <2>2
<1> QED
  BY <1>1, <1>3, <1>7, <1>8 DEF TurnInv

LEMMA TurnsPut ==
    ASSUME Base, Grows, Len(issued') \in Nat, NEW p \in Procs, active[p] # 0,
           \A r \in Procs : phase'[r] = "down" => phase[r] = "down",
           NEW q \in [Sessions -> Seq(Ids)], \A s \in Sessions : Some(Of(s)', q[s]),
           queue' = [queue EXCEPT ![p] = q], UNCHANGED <<active, executed>>
    PROVE  TurnInv'
<1> USE DEF Base
<1>1. \A r \in Procs, s \in Sessions : Some(Of(s)', queue'[r][s])
  BY TurnsStay DEF TurnInv
<1>2. Len(issued) \in Nat /\ Len(issued) <= Len(issued') /\ \A t \in {0} \cup Ids : t \in Int
  BY LenProperties DEF IssuedInv, Grows, Ids
<1>3. queue' \in [Procs -> [Sessions -> Seq(Ids)]]
  BY DEF TurnInv
<1>4. \A r \in Procs, s \in Sessions : queue'[r][s] # <<>> => active[r] # 0
  BY DEF TurnInv
<1>5. \A r \in Procs : active[r] <= Len(issued')
  <2>1. \A r \in Procs : active[r] <= Len(issued) /\ active[r] \in Int
    BY <1>2 DEF TurnInv
  <2> QED
    BY <1>2, <2>1
<1>6. \A t \in Ids : t > Len(issued') => executed[t] = 0
  <2>1. \A t \in Ids : t > Len(issued') => t > Len(issued)
    BY <1>2 DEF Ids
  <2> QED
    BY <2>1 DEF TurnInv
<1> QED
  BY <1>1, <1>3, <1>4, <1>5, <1>6 DEF TurnInv

LEMMA TurnsForgotten ==
    ASSUME Base, Grows, issued' = issued, executed' = executed, NEW p \in Procs, Forget(p),
           \A r \in Procs \ {p} : phase'[r] = phase[r]
    PROVE  TurnInv'
<1> USE DEF Base
<1>1. \A s : Some(Of(s)', <<>>)
  BY EmptySeq DEF Some, Once
<1>2. \A r \in Procs, s \in Sessions : Some(Of(s)', queue[r][s])
  BY TurnsStay DEF TurnInv
<1>3. /\ queue' = [queue EXCEPT ![p] = [s \in Sessions |-> <<>>]]
      /\ active' = [active EXCEPT ![p] = 0]
  BY DEF Forget
<1>4. queue' \in [Procs -> [Sessions -> Seq(Ids)]] /\ active' \in [Procs -> {0} \cup Ids]
  BY <1>3 DEF TurnInv
<1>5. \A r \in Procs, s \in Sessions :
         queue'[r][s] = IF r = p THEN <<>> ELSE queue[r][s]
  BY <1>3 DEF TurnInv
<1>6. \A r \in Procs : active'[r] = IF r = p THEN 0 ELSE active[r]
  BY <1>3 DEF TurnInv
<1>7. Len(issued) \in Nat
  BY LenProperties DEF IssuedInv
<1>8. ASSUME NEW r \in Procs
      PROVE  /\ active'[r] <= Len(issued')
             /\ \A s \in Sessions : Some(Of(s)', queue'[r][s])
             /\ \A s \in Sessions : queue'[r][s] # <<>> => active'[r] # 0
             /\ phase'[r] = "down" => active'[r] = 0
  <2>1. CASE r = p
    BY <1>1, <1>5, <1>6, <1>7, <2>1
  <2>2. CASE r # p
    <3>1. active'[r] = active[r] /\ \A s \in Sessions : queue'[r][s] = queue[r][s]
      BY <1>5, <1>6, <2>2
    <3> QED
      BY <1>2, <2>2, <3>1 DEF TurnInv
  <2> QED
    BY <2>1, <2>2
<1> QED
  BY <1>4, <1>8 DEF TurnInv

LEMMA TurnQueued ==
    ASSUME Base, NEW p \in Procs, NEW s \in Sessions, NEW kind, phase[p] # "down",
           Issue(p, s, kind), Enqueue(p, s, Len(issued) + 1), phase' = phase
    PROVE  TurnInv'
<1> USE DEF Base
<1> DEFINE t == Len(issued) + 1
           q == [queue[p] EXCEPT ![s] = Append(@, t)]
<1>1. Len(issued') = t /\ t \in Ids /\ Grows /\ issued'[t].session = s
  <2>1. issued'[t] = [session |-> s, by |-> p, kind |-> kind]
    BY NewMessage
  <2>2. Len(issued') = t /\ t \in Ids /\ Grows
    BY NewMessage
  <2> QED
    BY <2>1, <2>2
<1>2. Len(issued) \in Nat
  BY LenProperties DEF IssuedInv
<1>3. t \in Of(s)' /\ t > Len(issued)
  BY <1>1, <1>2 DEF Of
<1> HIDE DEF t
<1>4. queue[p] \in [Sessions -> Seq(Ids)] /\ queue[p][s] \in Seq(Ids)
      /\ \A x \in Sessions : Some(Of(x), queue[p][x])
  BY DEF TurnInv
<1>5. Append(queue[p][s], t) \in Seq(Ids) /\ Some(Of(s)', Append(queue[p][s], t))
  BY <1>1, <1>3, <1>4, Queued
<1>6. q \in [Sessions -> Seq(Ids)]
  BY <1>4, <1>5
<1>7. \A x \in Sessions : Some(Of(x)', q[x])
  <2>1. \A x \in Sessions : Some(Of(x)', queue[p][x])
    BY <1>1, <1>4, TurnsStay
  <2> QED
    BY <1>4, <1>5, <2>1
<1>8. \/ active[p] = 0 /\ StartNext(p, q, s)
      \/ /\ active[p] # 0
         /\ queue' = [queue EXCEPT ![p] = q] /\ UNCHANGED <<active, executed>>
  BY DEF Enqueue, t
<1>9. Len(issued') \in Nat
  BY <1>1, <1>2 DEF t
<1> HIDE DEF q
<1>10. CASE active[p] = 0 /\ StartNext(p, q, s)
  BY <1>1, <1>6, <1>7, <1>9, <1>10, TurnsTaken
<1>11. CASE /\ active[p] # 0
            /\ queue' = [queue EXCEPT ![p] = q] /\ UNCHANGED <<active, executed>>
  BY <1>1, <1>6, <1>7, <1>9, <1>11, TurnsPut
<1> QED
  BY <1>8, <1>10, <1>11

\* The turns that a start restores are those of the user among those that waited.
LEMMA TurnsRestored ==
    ASSUME SavedInv, NEW s \in Sessions
    PROVE  /\ Restored(s) \in Seq(Ids) /\ Some(Of(s), Restored(s))
           /\ \A i \in 1 .. Len(Restored(s)) :
                 \E k \in 1 .. Len(pending[s].queued) :
                    Restored(s)[i] = pending[s].queued[k] /\ issued[Restored(s)[i]].kind = "user"
           /\ \A k \in 1 .. Len(pending[s].queued) :
                 issued[pending[s].queued[k]].kind = "user" =>
                    \E i \in 1 .. Len(Restored(s)) : Restored(s)[i] = pending[s].queued[k]
<1> DEFINE q == pending[s].queued
           mine == {i \in DOMAIN q : issued[q[i]].kind = "user"}
<1>1. q \in Seq(Ids) /\ Some(Of(s), q)
  BY DEF SavedInv, Turns
<1>2. Restored(s) = Kept(q, mine)
  BY DEF Restored
<1> HIDE DEF q
<1>3. DOMAIN q = 1 .. Len(q)
  BY <1>1, LenProperties
<1>4. mine \in SUBSET (1 .. Len(q)) /\ \A i \in 1 .. Len(q) : i \in mine <=> issued[q[i]].kind = "user"
  BY <1>3
<1> HIDE DEF mine
<1>5. /\ Kept(q, mine) \in Seq(Ids)
      /\ \A i \in 1 .. Len(Kept(q, mine)) : \E k \in mine : Kept(q, mine)[i] = q[k]
      /\ \A k \in mine : \E i \in 1 .. Len(Kept(q, mine)) : Kept(q, mine)[i] = q[k]
      /\ Once(q) => Once(Kept(q, mine))
  BY <1>1, <1>4, ListKept
<1>6. Some(Of(s), Kept(q, mine))
  BY <1>1, <1>4, <1>5 DEF Some
<1>7. \A i \in 1 .. Len(Kept(q, mine)) : \E k \in 1 .. Len(q) :
         Kept(q, mine)[i] = q[k] /\ issued[Kept(q, mine)[i]].kind = "user"
  BY <1>4, <1>5
<1>8. \A k \in 1 .. Len(q) : issued[q[k]].kind = "user" =>
         \E i \in 1 .. Len(Kept(q, mine)) : Kept(q, mine)[i] = q[k]
  BY <1>4, <1>5
<1> QED
  BY <1>2, <1>5, <1>6, <1>7, <1>8 DEF q

LEMMA TurnStep ==
    ASSUME Base, [Next]_vars, IssuedInv', Grows
    PROVE  TurnInv'
<1> USE DEF Base
<1>1. Len(issued') \in Nat /\ Len(issued) \in Nat
  BY LenProperties DEF IssuedInv
<1>2. CASE UNCHANGED turns /\ \A p \in Procs : phase'[p] = "down" => phase[p] = "down"
  <2>1. \A p \in Procs : phase'[p] = "down" => active[p] = 0
    BY <1>2 DEF TurnInv
  <2> QED
    BY <1>2, <2>1, TurnsKept
<1>3. CASE UNCHANGED vars
  BY <1>2, <1>3 DEF vars, loop
<1>4. \A p \in Procs :
         /\ queue[p] \in [Sessions -> Seq(Ids)]
         /\ \A s \in Sessions : Some(Of(s)', queue[p][s])
  BY TurnsStay DEF TurnInv
<1>5. ASSUME NEW p \in Procs, NEW how \in {"saving", "leaving"}, NEW S, BeginSave(p, how, S)
      PROVE  /\ phase'[p] # "down" /\ \A r \in Procs \ {p} : phase'[r] = phase[r]
             /\ \A r \in Procs : phase'[r] = "down" => phase[r] = "down"
  BY <1>5 DEF BeginSave, HomeInv
<1>6. ASSUME NEW p \in Procs, Step(p)
      PROVE  TurnInv'
  <2>1. CASE Load(p)
    <3> DEFINE q == [s \in Sessions |-> IF s \in stored THEN Restored(s) ELSE <<>>]
    <3>1. PICK s \in Sessions : StartNext(p, q, s)
      BY <2>1 DEF Load
    <3>2. \A x \in Sessions : q[x] \in Seq(Ids) /\ Some(Of(x)', q[x])
      <4> SUFFICES ASSUME NEW x \in Sessions PROVE q[x] \in Seq(Ids) /\ Some(Of(x)', q[x])
        OBVIOUS
      <4>1. Restored(x) \in Seq(Ids) /\ Some(Of(x), Restored(x))
        BY TurnsRestored
      <4>2. <<>> \in Seq(Ids) /\ Some(Of(x), <<>>)
        BY EmptySeq DEF Some, Once
      <4>3. Some(Of(x)', Restored(x)) /\ Some(Of(x)', <<>>)
        BY <4>1, <4>2, TurnsStay
      <4> QED
        BY <4>1, <4>2, <4>3
    <3>3. q \in [Sessions -> Seq(Ids)]
      BY <3>2
    <3>4. phase'[p] # "down" /\ \A r \in Procs \ {p} : phase'[r] = phase[r]
      BY <2>1 DEF Load, HomeInv
    <3> HIDE DEF q
    <3> QED
      BY <1>1, <3>1, <3>2, <3>3, <3>4, TurnsTaken
  <2>2. CASE Drop(p)
    <3>1. active[p] \in 1 .. Len(issued) /\ phase[p] = "idle" /\ phase' = phase
          /\ StartNext(p, queue[p], issued[active[p]].session)
      BY <2>2 DEF Drop, TurnInv, Ids, Ready, loop
    <3>2. issued[active[p]].session \in Sessions
      BY <3>1, SessionOf
    <3> QED
      BY <1>1, <1>4, <3>1, <3>2, TurnsTaken
  <2>3. CASE SaveNow(p) \/ Exit(p)
    BY <1>2, <1>5, <2>3 DEF SaveNow, Exit
  <2>4. CASE Purge(p)
    <3>1. executed' = executed /\ issued' = issued
          /\ \/ phase' = [phase EXCEPT ![p] = "idle"] /\ UNCHANGED <<queue, active>>
             \/ phase' = [phase EXCEPT ![p] = "down"] /\ Forget(p)
      BY <2>4 DEF Purge
    <3>2. CASE phase' = [phase EXCEPT ![p] = "idle"] /\ UNCHANGED <<queue, active>>
      <4>1. \A r \in Procs : phase'[r] = "down" => phase[r] = "down"
        BY <3>2 DEF HomeInv
      <4> QED
        BY <1>2, <3>1, <3>2, <4>1 DEF turns
    <3>3. CASE phase' = [phase EXCEPT ![p] = "down"] /\ Forget(p)
      <4>1. \A r \in Procs \ {p} : phase'[r] = phase[r]
        BY <3>3 DEF HomeInv
      <4> QED
        BY <3>1, <3>3, <4>1, TurnsForgotten
    <3> QED
      BY <3>1, <3>2, <3>3
  <2>5. CASE Crash(p)
    <3>1. executed' = executed /\ issued' = issued /\ Forget(p)
          /\ phase' = [phase EXCEPT ![p] = "down"]
      BY <2>5 DEF Crash, BeginSave
    <3>2. \A r \in Procs \ {p} : phase'[r] = phase[r]
      BY <3>1 DEF HomeInv
    <3> QED
      BY <3>1, <3>2, TurnsForgotten
  <2>6. CASE Finish(p)
    <3>1. /\ active[p] \in 1 .. Len(issued) /\ phase[p] = "idle"
          /\ StartNext(p, queue[p], issued[active[p]].session)
          /\ BeginSave(p, "saving", known[p]) \/ UNCHANGED loop
      BY <2>6 DEF Finish, TurnInv, Ids, Ready
    <3>2. issued[active[p]].session \in Sessions
      BY <3>1, SessionOf
    <3>3. phase'[p] # "down" /\ \A r \in Procs \ {p} : phase'[r] = phase[r]
      BY <1>5, <3>1 DEF loop
    <3> QED
      BY <1>1, <1>4, <3>1, <3>2, <3>3, TurnsTaken
  <2>7. ASSUME NEW s \in Sessions, SendUserMessage(p, s)
        PROVE  TurnInv'
    <3>1. phase[p] = "idle" /\ phase' = phase
      BY <2>7 DEF SendUserMessage, Ready, loop
    <3>2. \/ Issue(p, s, "user") /\ Enqueue(p, s, Len(issued) + 1)
          \/ UNCHANGED turns
      BY <2>7 DEF SendUserMessage
    <3> QED
      BY <1>2, <3>1, <3>2, TurnQueued
  <2>8. ASSUME NEW s \in Sessions, TeammateReply(p, s)
        PROVE  TurnInv'
    BY <2>8, TurnQueued DEF TeammateReply, Ready, loop
  <2>9. ASSUME NEW s \in Sessions, Notify(p, s) \/ SaveSession(p, s) \/ Poll(p, s)
        PROVE  TurnInv'
    BY <1>2, <2>9 DEF Notify, SaveSession, Poll, loop
  <2>10. ASSUME NEW s \in Sessions, CreateSession(p, s)
         PROVE  TurnInv'
    BY <1>2, <1>5, <2>10 DEF CreateSession
  <2>11. ASSUME NEW s \in Sessions, RemoveSession(p, s)
         PROVE  TurnInv'
    <3> DEFINE q == [queue[p] EXCEPT ![s] = <<>>]
    <3>1. /\ StartNext(p, q, s)
             \/ (active[p] # 0 /\ queue' = [queue EXCEPT ![p] = q] /\ UNCHANGED <<active, executed>>)
          /\ BeginSave(p, "saving", known'[p])
      BY <2>11 DEF RemoveSession
    <3>2. <<>> \in Seq(Ids) /\ Some(Of(s)', <<>>)
      BY EmptySeq DEF Some, Once
    <3>3. q \in [Sessions -> Seq(Ids)] /\ \A x \in Sessions : Some(Of(x)', q[x])
      BY <1>4, <3>2
    <3>4. /\ phase'[p] # "down" /\ \A r \in Procs \ {p} : phase'[r] = phase[r]
          /\ \A r \in Procs : phase'[r] = "down" => phase[r] = "down"
      BY <1>5, <3>1
    <3> HIDE DEF q
    <3>5. CASE StartNext(p, q, s)
      BY <1>1, <3>3, <3>4, <3>5, TurnsTaken
    <3>6. CASE active[p] # 0 /\ queue' = [queue EXCEPT ![p] = q] /\ UNCHANGED <<active, executed>>
      BY <1>1, <3>3, <3>4, <3>6, TurnsPut
    <3> QED
      BY <3>1, <3>5, <3>6
  <2> QED
    BY <1>6, <2>1, <2>2, <2>3, <2>4, <2>5, <2>6, <2>7, <2>8, <2>9, <2>10, <2>11 DEF Step
<1> QED
  BY <1>3, <1>6 DEF Next

-----------------------------------------------------------------------------
(* The tables and the lists of messages.                                   *)

LEMMA SavedStep ==
    ASSUME Base, [Next]_vars, Grows
    PROVE  SavedInv'
<1> USE DEF Base
<1>1. \A s \in Sessions : Some(Of(s)', pending[s].queued)
  BY TurnsStay DEF SavedInv
<1>2. CASE UNCHANGED pending
  BY <1>1, <1>2 DEF SavedInv
<1>3. ASSUME NEW D, DeleteSessions(D)
      PROVE  SavedInv'
  <2>1. NoTurns \in Turns /\ \A M : Some(M, NoTurns.queued)
    <3>1. <<>> \in Seq(Ids) /\ Len(<<>>) = 0
      BY EmptySeq
    <3> QED
      BY <3>1 DEF NoTurns, Turns, Some, Once
  <2>2. pending' = [s \in Sessions |-> IF s \in D THEN NoTurns ELSE pending[s]]
    BY <1>3 DEF DeleteSessions
  <2> HIDE DEF Base
  <2>3. pending' \in [Sessions -> Turns]
    BY <2>1, <2>2 DEF SavedInv, Base
  <2>4. \A s \in Sessions : Some(Of(s)', pending'[s].queued)
    BY <1>1, <2>1, <2>2
  <2> QED
    BY <2>3, <2>4 DEF SavedInv
<1>4. ASSUME NEW p \in Procs, NEW s \in Sessions, SaveSession(p, s)
      PROVE  SavedInv'
  <2>1. pending' = [pending EXCEPT ![s] = TurnsOf(p, s)]
    BY <1>4 DEF SaveSession
  <2>2. TurnsOf(p, s) \in Turns /\ TurnsOf(p, s).queued = queue[p][s]
    BY DEF TurnInv, TurnsOf, Turns, Ids
  <2>3. Some(Of(s)', queue[p][s])
    BY TurnsStay DEF TurnInv
  <2>4. \A x \in Sessions : pending'[x] = IF x = s THEN TurnsOf(p, s) ELSE pending[x]
    BY <2>1 DEF SavedInv
  <2>5. pending' \in [Sessions -> Turns]
    BY <2>1, <2>2 DEF SavedInv
  <2> HIDE DEF Base
  <2>6. \A x \in Sessions : Some(Of(x)', pending'[x].queued)
    BY <1>1, <2>2, <2>3, <2>4
  <2> QED
    BY <2>5, <2>6 DEF SavedInv
<1>5. CASE UNCHANGED vars
  BY <1>2, <1>5 DEF vars, db
<1>6. ASSUME NEW p \in Procs, Step(p)
      PROVE  SavedInv'
  <2>1. CASE Load(p) \/ Drop(p) \/ SaveNow(p) \/ Exit(p) \/ Crash(p) \/ Finish(p)
    BY <1>2, <2>1 DEF Load, Drop, SaveNow, Exit, Crash, Finish, db
  <2>2. CASE Purge(p)
    BY <1>3, <2>2 DEF Purge
  <2>3. ASSUME NEW s \in Sessions,
               \/ SendUserMessage(p, s) \/ TeammateReply(p, s) \/ Notify(p, s)
               \/ CreateSession(p, s) \/ Poll(p, s)
        PROVE  SavedInv'
    BY <1>2, <2>3 DEF SendUserMessage, TeammateReply, Notify, CreateSession, Poll, db
  <2>4. ASSUME NEW s \in Sessions, RemoveSession(p, s)
        PROVE  SavedInv'
    BY <1>3, <2>4 DEF RemoveSession
  <2> QED
    BY <1>4, <1>6, <2>1, <2>2, <2>3, <2>4 DEF Step
<1> QED
  BY <1>5, <1>6 DEF Next

\* What the messages of a list are, without the numbers.
LEMMA ListTyped ==
    ASSUME NEW list \in Seq(Entry)
    PROVE  /\ Len(list) \in Nat /\ DOMAIN list = 1 .. Len(list)
           /\ \A i \in 1 .. Len(list) : list[i].msg \in Ids /\ list[i].seq \in Nat
<1>1. /\ Len(list) \in Nat /\ DOMAIN list = 1 .. Len(list)
      /\ \A i \in 1 .. Len(list) : list[i] \in Entry
  BY LenProperties
<1> QED
  BY <1>1 DEF Entry

\* A message that is posted: it is the last of its list, and, if the insert does not
\* fail, the last of the table.
LEMMA Posted ==
    ASSUME Base, NEW p \in Procs, NEW s \in Sessions, NEW kind, Issue(p, s, kind), Post(p, s)
    PROVE  /\ mem' \in [Procs -> [Sessions -> Seq(Entry)]]
           /\ \A r \in Procs, x \in Sessions : r # p \/ x # s => mem'[r][x] = mem[r][x]
           /\ Len(mem'[p][s]) = Len(mem[p][s]) + 1
           /\ \A i \in 1 .. Len(mem[p][s]) : mem'[p][s][i] = mem[p][s][i]
           /\ mem'[p][s][Len(mem[p][s]) + 1].msg = Len(issued) + 1
           /\ saved' \in [Procs -> [Sessions -> Int]]
           /\ Table'
           /\ \A r \in rows' \ rows : r.msg = Len(issued) + 1 /\ r.seq = 0
                                      /\ \A x \in rows : x.row < r.row
           /\ rows \subseteq rows'
           /\ failures' = 0 => Stored(rows', Len(issued) + 1)
           /\ UNCHANGED <<known, synced>>
<1> USE DEF Base
<1> DEFINE t == Len(issued) + 1
           entry == [msg |-> t, seq |-> 0]
           one == <<entry>>
<1>1. t \in Ids
  BY NewMessage
<1>2. /\ mem' = [mem EXCEPT ![p][s] = Add(@, one)]
      /\ \/ /\ rows' = Insert(rows, one, {1})
            /\ saved' = [saved EXCEPT ![p][s] = Len(mem'[p][s])]
            /\ UNCHANGED failures
         \/ /\ failures' = failures + 1
            /\ UNCHANGED <<rows, saved>>
      /\ UNCHANGED <<known, synced>>
  BY DEF Post
<1>3. /\ Len(one) = 1 /\ DOMAIN one = 1 .. 1 /\ one[1] = entry
      /\ entry.msg = t /\ entry.seq = 0
  OBVIOUS
<1>4. \A r \in rows : r.msg < t
  <2>1. Len(issued) \in Nat
    BY LenProperties DEF IssuedInv
  <2>2. \A r \in rows : r.msg \in Nat /\ r.msg <= Len(issued)
    BY DEF TableInv, Table, Row, Ids
  <2> QED
    BY <2>1, <2>2
<1> HIDE DEF t, entry, one
<1>5. \A i \in 1 .. Len(one) : one[i].msg = t /\ one[i].seq = 0 /\ one[i].msg \in Ids /\ one[i].seq \in Nat
  BY <1>1, <1>3
<1>6. mem[p][s] \in Seq(Entry) /\ mem \in [Procs -> [Sessions -> Seq(Entry)]]
  BY DEF MemInv
<1>7. /\ Add(mem[p][s], one) \in Seq(Entry)
      /\ Len(Add(mem[p][s], one)) = Len(mem[p][s]) + 1
      /\ \A i \in 1 .. Len(mem[p][s]) : Add(mem[p][s], one)[i] = mem[p][s][i]
      /\ Add(mem[p][s], one)[Len(mem[p][s]) + 1].msg = t
  <2>1. Len(one) \in Nat /\ 1 \in 1 .. Len(one)
    BY <1>3
  <2>4. /\ Len(one) \in Nat /\ DOMAIN one = 1 .. Len(one)
        /\ \A i \in 1 .. Len(one) : one[i].msg \in Ids /\ one[i].seq \in Nat
    BY <1>3, <1>5
  <2>2. /\ Add(mem[p][s], one) \in Seq(Entry)
        /\ Len(Add(mem[p][s], one)) = Len(mem[p][s]) + Len(one)
        /\ \A i \in 1 .. Len(mem[p][s]) : Add(mem[p][s], one)[i] = mem[p][s][i]
        /\ \A i \in 1 .. Len(one) : Add(mem[p][s], one)[Len(mem[p][s]) + i].msg = one[i].msg
    <3> DEFINE list == mem[p][s]
    <3>1. list \in Seq(Entry)
      BY <1>6
    <3> HIDE DEF list
    <3>2. /\ Add(list, one) \in Seq(Entry)
          /\ Len(Add(list, one)) = Len(list) + Len(one)
          /\ \A i \in 1 .. Len(list) : Add(list, one)[i] = list[i]
          /\ \A i \in 1 .. Len(one) : Add(list, one)[Len(list) + i].msg = one[i].msg
      <4>1. Add(list, one) \in Seq(Entry)
        BY ONLY <3>1, <2>4, Added, Zenon
      <4>2. Len(Add(list, one)) = Len(list) + Len(one)
        BY ONLY <3>1, <2>4, Added
      <4>3. \A i \in 1 .. Len(list) : Add(list, one)[i] = list[i]
        BY ONLY <3>1, <2>4, Added, Zenon
      <4>4. \A i \in 1 .. Len(one) : Add(list, one)[Len(list) + i].msg = one[i].msg
        BY ONLY <3>1, <2>4, Added
      <4> QED
        BY <4>1, <4>2, <4>3, <4>4
    <3> QED
      BY <3>2 DEF list
  <2>3. Add(mem[p][s], one)[Len(mem[p][s]) + 1].msg = one[1].msg
    BY <2>1, <2>2
  <2> QED
    BY <1>3, <1>5, <2>1, <2>2, <2>3
<1>8. /\ mem' \in [Procs -> [Sessions -> Seq(Entry)]]
      /\ mem'[p][s] = Add(mem[p][s], one)
      /\ \A r \in Procs, x \in Sessions : r # p \/ x # s => mem'[r][x] = mem[r][x]
  BY <1>2, <1>6, <1>7
<1>9. Len(mem'[p][s]) \in Nat
  BY <1>7, <1>8, LenProperties
<1>10. saved' \in [Procs -> [Sessions -> Int]]
  <2>1. Len(mem'[p][s]) \in Int /\ saved \in [Procs -> [Sessions -> Int]]
    BY <1>9 DEF MemInv
  <2>2. [saved EXCEPT ![p][s] = Len(mem'[p][s])] \in [Procs -> [Sessions -> Int]]
    BY <2>1
  <2> QED
    BY <1>2, <2>1, <2>2
<1>11. /\ Table' /\ rows \subseteq rows'
       /\ \A r \in rows' \ rows : r.msg = t /\ r.seq = 0 /\ \A x \in rows : x.row < r.row
       /\ failures' = 0 => Stored(rows', t)
  <2>1. CASE rows' = Insert(rows, one, {1})
    <3>1. PICK n \in Nat : \A r \in rows : r.row <= n
      BY DEF TableInv, Table
    <3>2. rows \in SUBSET Row /\ Unique(rows)
      BY DEF TableInv, Table
    <3>3. {1} \in SUBSET (1 .. Len(one)) /\ Len(one) \in Nat
      BY <1>3
    <3>4. /\ rows \subseteq Insert(rows, one, {1}) /\ Insert(rows, one, {1}) \in SUBSET Row
          /\ \A r \in Insert(rows, one, {1}) \ rows :
                /\ \A x \in rows : x.row < r.row
                /\ ~Stored(rows, r.msg)
                /\ \E i \in {1} : r.msg = one[i].msg /\ r.seq = one[i].seq
          /\ Unique(Insert(rows, one, {1}))
          /\ \E m \in Nat : \A r \in Insert(rows, one, {1}) : r.row <= m
      BY <1>5, <3>1, <3>2, <3>3, Inserted
    <3>5. Stored(Insert(rows, one, {1}), t)
      <4>1. ~Stored(rows, one[1].msg)
        <5>1. one[1].msg = t
          BY <1>3
        <5>2. \A r \in rows : r.msg \in Nat
          BY DEF TableInv, Table, Row, Ids
        <5> QED
          BY <1>1, <1>4, <5>1, <5>2 DEF Stored, Ids
      <4> DEFINE new == {i \in {1} : /\ ~Stored(rows, one[i].msg)
                                     /\ \A k \in {1} : k < i => one[k].msg # one[i].msg}
      <4>2. 1 \in new
        BY <4>1
      <4>3. [row |-> LastId(rows) + Cardinality({k \in new : k <= 1}),
             msg |-> one[1].msg, seq |-> one[1].seq] \in Insert(rows, one, {1})
        BY <4>2 DEF Insert
      <4> QED
        BY <1>5, <3>3, <4>3 DEF Stored
    <3> QED
      BY <1>5, <2>1, <3>3, <3>4, <3>5 DEF Table
  <2>2. CASE failures' = failures + 1 /\ rows' = rows
    <3>1. failures' # 0
      BY <2>2, Bounds DEF IssuedInv
    <3> QED
      BY <2>2, <3>1 DEF TableInv, Table
  <2> QED
    BY <1>2, <2>1, <2>2
<1> QED
  BY <1>2, <1>7, <1>8, <1>10, <1>11 DEF t

\* What a save writes: it adds messages of its session that had no row.
LEMMA Written ==
    ASSUME Base, NEW p \in Procs, NEW s \in Sessions, SaveSession(p, s)
    PROVE  /\ Table' /\ rows \subseteq rows'
           /\ \A r \in rows' \ rows :
                 /\ ~Stored(rows, r.msg)
                 /\ \E i \in 1 .. Len(mem[p][s]) : r.msg = mem[p][s][i].msg
<1> USE DEF Base
<1> DEFINE list == mem[p][s]
           written == IF saved[p][s] = Len(list) THEN {} ELSE DOMAIN list
<1>1. PICK lost \in SUBSET written : rows' = Insert(rows, list, written \ lost)
  BY DEF SaveSession
<1> DEFINE tried == written \ lost
<1>2. list \in Seq(Entry)
  BY DEF MemInv
<1> HIDE DEF list
<1>3. /\ Len(list) \in Nat /\ DOMAIN list = 1 .. Len(list)
      /\ \A i \in 1 .. Len(list) : list[i].msg \in Ids /\ list[i].seq \in Nat
  BY <1>2, ListTyped
<1>4. tried \in SUBSET (1 .. Len(list))
  BY <1>3
<1> HIDE DEF written, tried
<1>5. PICK n \in Nat : \A r \in rows : r.row <= n
  BY DEF TableInv, Table
<1>6. rows \in SUBSET Row /\ Unique(rows)
  BY DEF TableInv, Table
<1>7. /\ rows \subseteq Insert(rows, list, tried) /\ Insert(rows, list, tried) \in SUBSET Row
      /\ \A r \in Insert(rows, list, tried) \ rows :
            /\ \A x \in rows : x.row < r.row
            /\ ~Stored(rows, r.msg)
            /\ \E i \in tried : r.msg = list[i].msg /\ r.seq = list[i].seq
      /\ Unique(Insert(rows, list, tried))
      /\ \E m \in Nat : \A r \in Insert(rows, list, tried) : r.row <= m
  BY <1>3, <1>4, <1>5, <1>6, Inserted
<1>8. rows' = Insert(rows, list, tried)
  BY <1>1 DEF tried
<1>9. Table'
  BY <1>7, <1>8 DEF Table
<1> QED
  BY <1>4, <1>7, <1>8, <1>9 DEF list

\* Rows that go leave the others as they were.
LEMMA RowsGo ==
    ASSUME Table, rows' \subseteq rows
    PROVE  Table'
BY DEF Table, Unique

LEMMA TableStep ==
    ASSUME Base, [Next]_vars, IssuedInv', Grows
    PROVE  TableInv'
<1> USE DEF Base
<1>1. Len(issued) \in Nat /\ Len(issued') \in Nat /\ Len(issued) <= Len(issued')
  BY LenProperties DEF IssuedInv, Grows
<1>2. \A r \in rows : r.msg \in Nat /\ r.msg <= Len(issued')
  <2>1. \A r \in rows : r.msg \in Nat /\ r.msg <= Len(issued)
    BY DEF TableInv, Table, Row, Ids
  <2> QED
    BY <1>1, <2>1
<1>3. CASE rows' \subseteq rows
  BY <1>2, <1>3, RowsGo DEF TableInv
<1>4. CASE UNCHANGED vars
  BY <1>3, <1>4 DEF vars, db
<1>5. ASSUME NEW p \in Procs, NEW s \in Sessions, NEW kind, Issue(p, s, kind), Post(p, s)
      PROVE  TableInv'
  <2>1. Table' /\ \A r \in rows' \ rows : r.msg = Len(issued) + 1
    BY <1>5, Posted
  <2>2. Len(issued') = Len(issued) + 1
    BY <1>5, NewMessage
  <2>3. \A r \in rows' : r.msg <= Len(issued')
    BY <1>1, <1>2, <2>1, <2>2
  <2> QED
    BY <2>1, <2>3 DEF TableInv
<1>6. ASSUME NEW p \in Procs, Step(p)
      PROVE  TableInv'
  <2>1. CASE Load(p) \/ Drop(p) \/ SaveNow(p) \/ Exit(p) \/ Crash(p)
    BY <1>3, <2>1 DEF Load, Drop, SaveNow, Exit, Crash, db
  <2>2. CASE Purge(p)
    BY <1>3, <2>2 DEF Purge, DeleteSessions
  <2>3. CASE Finish(p)
    <3>1. active[p] \in 1 .. Len(issued)
      BY <2>3 DEF Finish, TurnInv, Ids
    <3>2. issued[active[p]].session \in Sessions
      BY <3>1, SessionOf
    <3>3. \/ Issue(p, issued[active[p]].session, "reply") /\ Post(p, issued[active[p]].session)
          \/ rows' = rows
      BY <2>3 DEF Finish
    <3> QED
      BY <1>3, <1>5, <3>2, <3>3
  <2>4. ASSUME NEW s \in Sessions, SendUserMessage(p, s) \/ TeammateReply(p, s) \/ Notify(p, s)
        PROVE  TableInv'
    BY <1>5, <2>4 DEF SendUserMessage, TeammateReply, Notify
  <2>5. ASSUME NEW s \in Sessions, CreateSession(p, s) \/ Poll(p, s)
        PROVE  TableInv'
    BY <1>3, <2>5 DEF CreateSession, Poll, db
  <2>6. ASSUME NEW s \in Sessions, RemoveSession(p, s)
        PROVE  TableInv'
    BY <1>3, <2>6 DEF RemoveSession, DeleteSessions
  <2>7. ASSUME NEW s \in Sessions, SaveSession(p, s)
        PROVE  TableInv'
    <3>1. Table' /\ \A r \in rows' \ rows : \E i \in 1 .. Len(mem[p][s]) : r.msg = mem[p][s][i].msg
      BY <2>7, Written
    <3>2. \A i \in 1 .. Len(mem[p][s]) : mem[p][s][i].msg <= Len(issued)
      BY DEF MemInv, Of
    <3>3. issued' = issued
      BY <2>7 DEF SaveSession
    <3>4. \A r \in rows' : r.msg <= Len(issued')
      BY <1>2, <3>1, <3>2, <3>3
    <3> QED
      BY <3>1, <3>4 DEF TableInv
  <2> QED
    BY <1>6, <2>1, <2>2, <2>3, <2>4, <2>5, <2>6, <2>7 DEF Step
<1> QED
  BY <1>4, <1>6 DEF Next

\* What a poll does to a list: all rows that are new and missing are added, by their ids.
LEMMA Polled ==
    ASSUME Base, NEW p \in Procs, NEW s \in Sessions, Poll(p, s)
    PROVE  LET news == Incoming(p, s)
           IN  /\ news \in Seq({r \in RowsOf(s) : r.row > synced[p][s] /\ ~Has(p, s, r.msg)})
               /\ \A r \in RowsOf(s) : r.row > synced[p][s] /\ ~Has(p, s, r.msg) =>
                     \E i \in 1 .. Len(news) : news[i] = r
               /\ \A i, j \in 1 .. Len(news) : i < j => news[i].row < news[j].row
               /\ mem' \in [Procs -> [Sessions -> Seq(Entry)]]
               /\ \A r \in Procs, x \in Sessions : r # p \/ x # s => mem'[r][x] = mem[r][x]
               /\ Len(mem'[p][s]) = Len(mem[p][s]) + Len(news)
               /\ \A i \in 1 .. Len(mem[p][s]) : mem'[p][s][i] = mem[p][s][i]
               /\ \A i \in 1 .. Len(news) : mem'[p][s][Len(mem[p][s]) + i].msg = news[i].msg
<1> USE DEF Base
<1> DEFINE R == {r \in RowsOf(s) : r.row > synced[p][s] /\ ~Has(p, s, r.msg)}
           news == Incoming(p, s)
           list == mem[p][s]
<1>1. R \in SUBSET rows /\ news = ByRow(R)
  BY DEF Incoming, RowsOf
<1>2. mem' = [mem EXCEPT ![p][s] = Add(mem[p][s], news)] /\ mem \in [Procs -> [Sessions -> Seq(Entry)]]
  BY DEF Poll, MemInv
<1>3. list \in Seq(Entry)
  BY <1>2
<1>4. \A r \in R : r.msg \in Ids /\ r.seq \in Nat
  BY <1>1 DEF TableInv, Table, Row
<1>5. \A r \in RowsOf(s) : r.row > synced[p][s] /\ ~Has(p, s, r.msg) => r \in R
  OBVIOUS
<1> HIDE DEF R, news, list
<1>6. /\ ByRow(R) \in Seq(R)
      /\ \A r \in R : \E i \in 1 .. Len(ByRow(R)) : ByRow(R)[i] = r
      /\ \A i, j \in 1 .. Len(ByRow(R)) : i < j => ByRow(R)[i].row < ByRow(R)[j].row
  BY <1>1, RowsByRow DEF TableInv
<1>7. /\ news \in Seq(R)
      /\ \A r \in R : \E i \in 1 .. Len(news) : news[i] = r
      /\ \A i, j \in 1 .. Len(news) : i < j => news[i].row < news[j].row
  BY <1>1, <1>6
<1>8. /\ Len(news) \in Nat /\ DOMAIN news = 1 .. Len(news)
      /\ \A i \in 1 .. Len(news) : news[i].msg \in Ids /\ news[i].seq \in Nat
  <2>1. /\ Len(news) \in Nat /\ DOMAIN news = 1 .. Len(news)
        /\ \A i \in 1 .. Len(news) : news[i] \in R
    BY <1>7, LenProperties
  <2> QED
    BY <1>4, <2>1
<1>9. Add(list, news) \in Seq(Entry)
  BY ONLY <1>3, <1>8, Added, Zenon
<1>10. Len(Add(list, news)) = Len(list) + Len(news)
  BY ONLY <1>3, <1>8, Added
<1>11. \A i \in 1 .. Len(list) : Add(list, news)[i] = list[i]
  BY ONLY <1>3, <1>8, Added, Zenon
<1>12. \A i \in 1 .. Len(news) : Add(list, news)[Len(list) + i].msg = news[i].msg
  BY ONLY <1>3, <1>8, Added
<1>13. /\ mem' \in [Procs -> [Sessions -> Seq(Entry)]]
       /\ mem'[p][s] = Add(list, news)
       /\ \A r \in Procs, x \in Sessions : r # p \/ x # s => mem'[r][x] = mem[r][x]
  BY <1>2, <1>9 DEF list
<1>14. \A r \in RowsOf(s) : r.row > synced[p][s] /\ ~Has(p, s, r.msg) =>
          \E i \in 1 .. Len(news) : news[i] = r
  BY <1>5, <1>7
<1> QED
  BY <1>7, <1>10, <1>11, <1>12, <1>13, <1>14 DEF R, news, list


LEMMA MemStep ==
    ASSUME Base, [Next]_vars, IssuedInv', Grows
    PROVE  MemInv'
<1> USE DEF Base
<1>1. \A s : Of(s) \subseteq Of(s)'
  BY OfGrows
<1>2. CASE mem' = mem /\ saved' \in [Procs -> [Sessions -> Int]] /\ synced' = synced
  BY <1>1, <1>2 DEF MemInv
<1>3. CASE UNCHANGED vars
  BY <1>2, <1>3 DEF vars, local, MemInv
<1>4. ASSUME NEW p \in Procs, NEW s \in Sessions, NEW kind, Issue(p, s, kind), Post(p, s)
      PROVE  MemInv'
  <2>1. /\ mem' \in [Procs -> [Sessions -> Seq(Entry)]]
        /\ \A r \in Procs, x \in Sessions : r # p \/ x # s => mem'[r][x] = mem[r][x]
        /\ Len(mem'[p][s]) = Len(mem[p][s]) + 1
        /\ \A i \in 1 .. Len(mem[p][s]) : mem'[p][s][i] = mem[p][s][i]
        /\ mem'[p][s][Len(mem[p][s]) + 1].msg = Len(issued) + 1
        /\ saved' \in [Procs -> [Sessions -> Int]]
        /\ synced' = synced
    BY <1>4, Posted
  <2>2. Len(issued) + 1 \in Of(s)'
    <3>1. Len(issued') = Len(issued) + 1 /\ issued'[Len(issued) + 1].session = s
      <4>1. issued'[Len(issued) + 1] = [session |-> s, by |-> p, kind |-> kind]
        BY <1>4, NewMessage
      <4>2. Len(issued') = Len(issued) + 1
        BY <1>4, NewMessage
      <4> QED
        BY <4>1, <4>2
    <3>2. Len(issued) \in Nat
      BY LenProperties DEF IssuedInv
    <3> QED
      BY <3>1, <3>2 DEF Of
  <2>3. \A i \in 1 .. Len(mem[p][s]) + 1 : mem'[p][s][i].msg \in Of(s)'
    <3>1. Len(mem[p][s]) \in Nat
      BY LenProperties DEF MemInv
    <3>2. \A i \in 1 .. Len(mem[p][s]) : mem[p][s][i].msg \in Of(s)'
      BY <1>1 DEF MemInv
    <3>3. \A i \in 1 .. Len(mem[p][s]) + 1 : i \in 1 .. Len(mem[p][s]) \/ i = Len(mem[p][s]) + 1
      BY <3>1
    <3> QED
      BY <2>1, <2>2, <3>2, <3>3
  <2>4. \A r \in Procs, x \in Sessions : r # p \/ x # s =>
           \A i \in 1 .. Len(mem'[r][x]) : mem'[r][x][i].msg \in Of(x)'
    BY <1>1, <2>1, ZenonT(60) DEF MemInv
  <2> QED
    BY <2>1, <2>3, <2>4 DEF MemInv
<1>5. ASSUME NEW p \in Procs, Forget(p)
      PROVE  MemInv'
  <2>1. /\ mem' \in [Procs -> [Sessions -> Seq(Entry)]]
        /\ \A r \in Procs, x \in Sessions : mem'[r][x] = IF r = p THEN <<>> ELSE mem[r][x]
    BY <1>5 DEF Forget, MemInv
  <2>2. saved' \in [Procs -> [Sessions -> Int]] /\ synced' \in [Procs -> [Sessions -> Nat]]
    BY <1>5 DEF Forget, MemInv
  <2>3. \A r \in Procs, x \in Sessions : \A i \in 1 .. Len(mem'[r][x]) : mem'[r][x][i].msg \in Of(x)'
    BY <1>1, <2>1 DEF MemInv
  <2> QED
    BY <2>1, <2>2, <2>3 DEF MemInv
<1>6. ASSUME NEW p \in Procs, Step(p)
      PROVE  MemInv'
  <2>1. CASE Load(p)
    <3> DEFINE lists == [s \in Sessions |-> IF s \in stored THEN Loaded(s) ELSE <<>>]
    <3>1. \A s \in Sessions : /\ lists[s] \in Seq(Entry)
                              /\ \A i \in 1 .. Len(lists[s]) : lists[s][i].msg \in Of(s)
      <4> SUFFICES ASSUME NEW s \in Sessions
                   PROVE  /\ lists[s] \in Seq(Entry)
                          /\ \A i \in 1 .. Len(lists[s]) : lists[s][i].msg \in Of(s)
        OBVIOUS
      <4>1. SessionRows(s) \in Seq(RowsOf(s))
        BY RowsRead DEF TableInv
      <4>2. \A i \in 1 .. Len(SessionRows(s)) : SessionRows(s)[i] \in RowsOf(s)
        BY <4>1, ElementOfSeq
      <4>3. \A r \in RowsOf(s) : r.msg \in Of(s)
        <5>1. \A r \in rows : r.msg \in 1 .. Len(issued)
          BY DEF TableInv, Table, Row, Ids
        <5> QED
          BY <5>1 DEF RowsOf, Of
      <4>4. /\ Loaded(s) \in Seq(Entry)
            /\ Len(Loaded(s)) = Len(SessionRows(s))
            /\ \A i \in 1 .. Len(SessionRows(s)) : Loaded(s)[i].msg = SessionRows(s)[i].msg
        BY ListLoaded DEF TableInv
      <4>5. \A i \in 1 .. Len(Loaded(s)) : Loaded(s)[i].msg \in Of(s)
        BY <4>2, <4>3, <4>4
      <4>6. PICK none \in Seq(Entry) : none = <<>> /\ Len(none) = 0
        BY EmptySeq
      <4>7. \A i \in 1 .. Len(none) : none[i].msg \in Of(s)
        BY <4>6
      <4>8. lists[s] = IF s \in stored THEN Loaded(s) ELSE none
        BY <4>6
      <4> QED
        BY <4>4, <4>5, <4>6, <4>7, <4>8
    <3>2. lists \in [Sessions -> Seq(Entry)]
      BY <3>1
    <3>3. mem' = [mem EXCEPT ![p] = lists] /\ synced' = synced
      BY <2>1 DEF Load
    <3>4. saved' = [saved EXCEPT ![p] =
                        [s \in Sessions |-> IF s \in stored THEN Len(mem'[p][s]) ELSE -1]]
      BY <2>1 DEF Load
    <3> HIDE DEF lists
    <3>5. mem' \in [Procs -> [Sessions -> Seq(Entry)]] /\ mem'[p] = lists
          /\ \A r \in Procs \ {p} : mem'[r] = mem[r]
      BY <3>2, <3>3 DEF MemInv
    <3>6. [s \in Sessions |-> IF s \in stored THEN Len(mem'[p][s]) ELSE -1] \in [Sessions -> Int]
      <4>1. \A s \in Sessions : Len(mem'[p][s]) \in Int
        BY <3>5, LenProperties
      <4> QED
        BY <4>1
    <3>7. saved' \in [Procs -> [Sessions -> Int]]
      BY <3>4, <3>6 DEF MemInv
    <3>8. \A r \in Procs, x \in Sessions : \A i \in 1 .. Len(mem'[r][x]) : mem'[r][x][i].msg \in Of(x)'
      <4> SUFFICES ASSUME NEW r \in Procs, NEW x \in Sessions
                   PROVE  \A i \in 1 .. Len(mem'[r][x]) : mem'[r][x][i].msg \in Of(x)'
        OBVIOUS
      <4>1. CASE r = p
        BY <1>1, <3>1, <3>5, <4>1
      <4>2. CASE r # p
        BY <1>1, <3>5, <4>2 DEF MemInv
      <4> QED
        BY <4>1, <4>2
    <3> QED
      BY <3>3, <3>5, <3>7, <3>8 DEF MemInv
  <2>2. CASE Drop(p) \/ SaveNow(p) \/ Exit(p)
    BY <1>2, <2>2 DEF Drop, SaveNow, Exit, local, MemInv
  <2>3. CASE Crash(p)
    BY <1>5, <2>3 DEF Crash
  <2>4. CASE Purge(p)
    <3>1. \/ /\ saved' = [saved EXCEPT ![p] =
                             [s \in Sessions |-> IF s \in known[p] THEN @[s] ELSE -1]]
             /\ UNCHANGED <<mem, synced>>
          \/ Forget(p)
      BY <2>4 DEF Purge
    <3>2. ASSUME saved' = [saved EXCEPT ![p] =
                              [s \in Sessions |-> IF s \in known[p] THEN @[s] ELSE -1]]
          PROVE  saved' \in [Procs -> [Sessions -> Int]]
      <4>1. [s \in Sessions |-> IF s \in known[p] THEN saved[p][s] ELSE -1] \in [Sessions -> Int]
        BY DEF MemInv
      <4> QED
        BY <3>2, <4>1 DEF MemInv
    <3> QED
      BY <1>2, <1>5, <3>1, <3>2
  <2>5. CASE Finish(p)
    <3>1. active[p] \in 1 .. Len(issued)
      BY <2>5 DEF Finish, TurnInv, Ids
    <3>2. issued[active[p]].session \in Sessions
      BY <3>1, SessionOf
    <3>3. \/ Issue(p, issued[active[p]].session, "reply") /\ Post(p, issued[active[p]].session)
          \/ UNCHANGED local
      BY <2>5 DEF Finish
    <3> QED
      BY <1>2, <1>4, <3>2, <3>3 DEF local, MemInv
  <2>6. ASSUME NEW s \in Sessions, SendUserMessage(p, s) \/ TeammateReply(p, s) \/ Notify(p, s)
        PROVE  MemInv'
    BY <1>4, <2>6 DEF SendUserMessage, TeammateReply, Notify
  <2>7. ASSUME NEW s \in Sessions, CreateSession(p, s)
        PROVE  MemInv'
    BY <1>2, <2>7 DEF CreateSession, MemInv
  <2>8. ASSUME NEW s \in Sessions, RemoveSession(p, s)
        PROVE  MemInv'
    <3>1. mem' = [mem EXCEPT ![p][s] = <<>>] /\ saved' = saved /\ synced' = synced
      BY <2>8 DEF RemoveSession
    <3>2. /\ mem' \in [Procs -> [Sessions -> Seq(Entry)]]
          /\ \A r \in Procs, x \in Sessions :
                mem'[r][x] = IF r = p /\ x = s THEN <<>> ELSE mem[r][x]
      BY <3>1 DEF MemInv
    <3>3. \A r \in Procs, x \in Sessions : \A i \in 1 .. Len(mem'[r][x]) : mem'[r][x][i].msg \in Of(x)'
      BY <1>1, <3>2, SMTT(30) DEF MemInv
    <3> QED
      BY <3>1, <3>2, <3>3 DEF MemInv
  <2>9. ASSUME NEW s \in Sessions, SaveSession(p, s)
        PROVE  MemInv'
    <3>1. saved' = [saved EXCEPT ![p][s] = Len(mem[p][s])] /\ mem' = mem /\ synced' = synced
      BY <2>9 DEF SaveSession
    <3>2. Len(mem[p][s]) \in Int
      BY LenProperties DEF MemInv
    <3>3. saved' \in [Procs -> [Sessions -> Int]]
      BY <3>1, <3>2 DEF MemInv
    <3> QED
      BY <1>2, <3>1, <3>3
  <2>10. ASSUME NEW s \in Sessions, Poll(p, s)
         PROVE  MemInv'
    <3> DEFINE news == Incoming(p, s)
               R == {r \in RowsOf(s) : r.row > synced[p][s] /\ ~Has(p, s, r.msg)}
    <3>1. /\ news \in Seq(R)
          /\ mem' \in [Procs -> [Sessions -> Seq(Entry)]]
          /\ \A r \in Procs, x \in Sessions : r # p \/ x # s => mem'[r][x] = mem[r][x]
          /\ Len(mem'[p][s]) = Len(mem[p][s]) + Len(news)
          /\ \A i \in 1 .. Len(mem[p][s]) : mem'[p][s][i] = mem[p][s][i]
          /\ \A i \in 1 .. Len(news) : mem'[p][s][Len(mem[p][s]) + i].msg = news[i].msg
      BY <2>10, Polled
    <3>2. \A r \in R : r.msg \in Of(s)
      <4>1. \A r \in rows : r.msg \in 1 .. Len(issued)
        BY DEF TableInv, Table, Row, Ids
      <4> QED
        BY <4>1 DEF RowsOf, Of
    <3>3. /\ saved' = saved \/ saved' = [saved EXCEPT ![p][s] = Len(mem'[p][s])]
          /\ synced' = [synced EXCEPT ![p][s] = LastRow(s)]
      BY <2>10 DEF Poll
    <3> HIDE DEF R, news
    <3>4. Len(news) \in Nat /\ \A i \in 1 .. Len(news) : news[i] \in R
      BY <3>1, LenProperties
    <3>5. Len(mem[p][s]) \in Nat /\ \A i \in 1 .. Len(mem[p][s]) : mem[p][s][i].msg \in Of(s)'
      BY <1>1, LenProperties DEF MemInv
    <3>6. \A i \in 1 .. Len(mem'[p][s]) : mem'[p][s][i].msg \in Of(s)'
      <4>1. \A i \in 1 .. Len(mem'[p][s]) :
               \/ i \in 1 .. Len(mem[p][s])
               \/ i - Len(mem[p][s]) \in 1 .. Len(news) /\ i = Len(mem[p][s]) + (i - Len(mem[p][s]))
        BY <3>1, <3>4, <3>5
      <4>2. \A i \in 1 .. Len(news) : mem'[p][s][Len(mem[p][s]) + i].msg \in Of(s)'
        BY <1>1, <3>1, <3>2, <3>4
      <4> QED
        BY <3>1, <3>5, <4>1, <4>2
    <3>7. \A r \in Procs, x \in Sessions : r # p \/ x # s =>
             \A i \in 1 .. Len(mem'[r][x]) : mem'[r][x][i].msg \in Of(x)'
      BY <1>1, <3>1 DEF MemInv
    <3>8. saved' \in [Procs -> [Sessions -> Int]]
      <4>1. Len(mem'[p][s]) \in Int
        BY <3>1, LenProperties
      <4>2. [saved EXCEPT ![p][s] = Len(mem'[p][s])] \in [Procs -> [Sessions -> Int]]
        BY <4>1 DEF MemInv
      <4>3. saved \in [Procs -> [Sessions -> Int]]
        BY DEF MemInv
      <4> QED
        BY <3>3, <4>2, <4>3
    <3>9. LastRow(s) \in Nat
      <4>1. PICK n \in Nat : \A r \in rows : r.row <= n
        BY DEF TableInv, Table
      <4>2. RowsOf(s) \in SUBSET Row /\ \A r \in RowsOf(s) : r.row <= n
        BY <4>1 DEF TableInv, Table, RowsOf
      <4> QED
        BY <4>2, LastIdFound DEF LastRow
    <3>10. synced' \in [Procs -> [Sessions -> Nat]]
      BY <3>3, <3>9 DEF MemInv
    <3> QED
      BY <3>1, <3>6, <3>7, <3>8, <3>10 DEF MemInv
  <2> QED
    BY <1>6, <2>1, <2>2, <2>3, <2>4, <2>5, <2>6, <2>7, <2>8, <2>9, <2>10 DEF Step
<1> QED
  BY <1>3, <1>6 DEF Next

LEMMA BaseStep ==
    ASSUME Base, [Next]_vars
    PROVE  Base' /\ Grows
<1>1. IssuedInv' /\ Grows
  BY IssuedStep
<1>2. TableInv' /\ SavedInv' /\ MemInv' /\ TurnInv' /\ HomeInv'
  BY <1>1, TableStep, SavedStep, MemStep, TurnStep, HomeStep
<1> QED
  BY <1>1, <1>2 DEF Base

-----------------------------------------------------------------------------
(* The order of the messages.                                              *)

\* What a list has, by its positions.
LEMMA HasAt ==
    ASSUME MemInv, NEW p \in Procs, NEW s \in Sessions, NEW m
    PROVE  Has(p, s, m) <=> \E i \in 1 .. Len(mem[p][s]) : mem[p][s][i].msg = m
<1>1. DOMAIN mem[p][s] = 1 .. Len(mem[p][s])
  BY LenProperties DEF MemInv
<1> QED
  BY <1>1 DEF Has

\* A message that was made stays as it is.
LEMMA MessagesStay ==
    ASSUME IssuedInv, Grows, NEW s
    PROVE  /\ \A m \in Of(s) : issued'[m] = issued[m] /\ m \in Nat /\ m <= Len(issued)
           /\ \A m \in Of(s)' : m \in Of(s) \/ m = Len(issued) + 1
<1>1. Len(issued) \in Nat
  BY LenProperties DEF IssuedInv
<1>2. Len(issued') = Len(issued) \/ Len(issued') = Len(issued) + 1
  <2>1. Len(issued') \in Int \/ Len(issued') \notin Int
    OBVIOUS
  <2> QED
    BY <1>1 DEF Grows
<1> QED
  BY <1>1, <1>2 DEF Of, Grows

\* A row of a session is one of its messages.
LEMMA RowsAreOf ==
    ASSUME Base
    PROVE  /\ \A r \in rows : r.msg \in 1 .. Len(issued) /\ r.row \in Nat \ {0} /\ r.seq \in Nat
           /\ \A s : \A r \in RowsOf(s) : r \in rows /\ r.msg \in Of(s)
           /\ \A s : \A r \in rows : r \in RowsOf(s) <=> issued[r.msg].session = s
<1>1. \A r \in rows : r.msg \in 1 .. Len(issued) /\ r.row \in Nat \ {0} /\ r.seq \in Nat
  BY DEF Base, TableInv, Table, Row, Ids
<1> QED
  BY <1>1 DEF RowsOf, Of

LEMMA RowsSame ==
    ASSUME Base, Grows, NEW s,
           \A r \in rows \ rows' : issued[r.msg].session # s,
           \A r \in rows' \ rows : issued'[r.msg].session # s
    PROVE  RowsOf(s)' = RowsOf(s)
<1>1. \A r \in rows : issued'[r.msg] = issued[r.msg]
  BY RowsAreOf DEF Grows
<1> QED
  BY <1>1 DEF RowsOf

\* A process for whose list of a session nothing changes.
LEMMA SeesSame ==
    ASSUME Base, Base', Grows, NEW p \in Procs, NEW s \in Sessions, Sees(p, s),
           Of(s)' = Of(s), RowsOf(s)' = RowsOf(s),
           mem'[p][s] = mem[p][s], synced'[p][s] = synced[p][s], s \in known'[p] => s \in known[p]
    PROVE  Sees(p, s)'
<1>1. \A m \in Of(s) : issued'[m] = issued[m]
  BY MessagesStay DEF Base
<1>2. \A i \in 1 .. Len(mem[p][s]) : mem[p][s][i].msg \in Of(s)
  BY DEF Base, MemInv
<1>3. \A m : Has(p, s, m)' <=> Has(p, s, m)
  BY DEF Has
<1>4. Marked(p, s)'
  BY DEF Sees, Marked
<1>5. ASSUME s \in known'[p] PROVE Received(p, s)'
  <2>1. Received(p, s)
    BY <1>5 DEF Sees
  <2> QED
    BY <1>1, <1>3, <2>1 DEF Received
<1>6. ASSUME s \in known'[p] PROVE InOrder(p, s)'
  <2>1. InOrder(p, s)
    BY <1>6 DEF Sees
  <2>2. ASSUME NEW i \in 1 .. Len(mem[p][s])
        PROVE  /\ \A k \in 1 .. i - 1 :
                    issued'[mem[p][s][k].msg].by = issued'[mem[p][s][i].msg].by =>
                       mem[p][s][k].msg < mem[p][s][i].msg
               /\ \A m \in Of(s) :
                    issued'[m].by = issued'[mem[p][s][i].msg].by /\ m < mem[p][s][i].msg =>
                       Has(p, s, m)
    <3>1. \A k \in 1 .. i - 1 : k \in 1 .. Len(mem[p][s])
      BY LenProperties DEF Base, MemInv
    <3>2. \A k \in 1 .. i - 1 : issued'[mem[p][s][k].msg] = issued[mem[p][s][k].msg]
      BY <1>1, <1>2, <3>1
    <3>3. issued'[mem[p][s][i].msg] = issued[mem[p][s][i].msg]
      BY <1>1, <1>2
    <3> QED
      BY <1>1, <2>1, <3>2, <3>3 DEF InOrder
  <2> QED
    BY <1>3, <2>2 DEF InOrder
<1> QED
  BY <1>4, <1>5, <1>6 DEF Sees

\* A process that does not have the session.
LEMMA SeesNothing ==
    ASSUME NEW p \in Procs, NEW s \in Sessions, s \notin known'[p], synced'[p][s] = 0
    PROVE  Sees(p, s)'
BY DEF Sees, Marked

LEMMA RowsStayInOrder ==
    ASSUME Base, Grows, NEW s, RowsInOrder(s), Of(s)' = Of(s), RowsOf(s)' = RowsOf(s)
    PROVE  RowsInOrder(s)'
BY DEF RowsInOrder

\* A post to a session: its row is the last one, its message the last of the list.
LEMMA PostOrder ==
    ASSUME Base, Base', Grows, NEW p \in Procs, NEW s \in Sessions, NEW kind,
           Issue(p, s, kind), Post(p, s), Seen(s), failures' = 0
    PROVE  Seen(s)'
<1> DEFINE t == Len(issued) + 1
<1>1. /\ \A r \in Procs : r # p => mem'[r][s] = mem[r][s]
      /\ Len(mem'[p][s]) = Len(mem[p][s]) + 1
      /\ \A i \in 1 .. Len(mem[p][s]) : mem'[p][s][i] = mem[p][s][i]
      /\ mem'[p][s][Len(mem[p][s]) + 1].msg = t
      /\ \A r \in rows' \ rows : r.msg = t /\ r.seq = 0 /\ \A x \in rows : x.row < r.row
      /\ rows \subseteq rows'
      /\ Stored(rows', t)
      /\ UNCHANGED <<known, synced>>
  BY Posted DEF Base
<1>2. Len(issued') = t /\ issued'[t].session = s /\ issued'[t].by = p
  <2>1. issued'[t] = [session |-> s, by |-> p, kind |-> kind]
    BY NewMessage DEF Base
  <2>2. Len(issued') = t
    BY NewMessage DEF Base
  <2> QED
    BY <2>1, <2>2
<1>3. Len(issued) \in Nat /\ \A r \in Procs : Len(mem[r][s]) \in Nat
  BY LenProperties DEF Base, IssuedInv, MemInv
<1>4. /\ \A m \in Of(s) : issued'[m] = issued[m] /\ m \in Nat /\ m < t /\ m \in Of(s)'
      /\ \A m \in Of(s)' : m \in Of(s) \/ m = t
      /\ t \in Nat
  <2>1. /\ \A m \in Of(s) : issued'[m] = issued[m] /\ m \in Nat /\ m <= Len(issued)
        /\ \A m \in Of(s)' : m \in Of(s) \/ m = Len(issued) + 1
    BY MessagesStay DEF Base
  <2>2. Of(s) \subseteq Of(s)'
    BY OfGrows DEF Base
  <2> QED
    BY <1>3, <2>1, <2>2
<1> HIDE DEF t
<1>5. /\ \A r \in RowsOf(s) : r \in RowsOf(s)'
      /\ \A r \in RowsOf(s)' : r \in RowsOf(s) \/ (r \in rows' \ rows /\ r.msg = t)
  <2>1. \A r \in rows : issued'[r.msg] = issued[r.msg]
    BY RowsAreOf DEF Grows
  <2> QED
    BY <1>1, <2>1 DEF RowsOf
<1>6. \A r \in RowsOf(s) : r \in rows /\ r.msg \in Of(s) /\ r.row \in Nat
  BY RowsAreOf
<1>7. RowsInOrder(s)'
  <2>1. RowsInOrder(s)
    BY DEF Seen
  <2>2. \A m \in Of(s)' : Stored(RowsOf(s)', m)
    <3>1. \A m \in Of(s) : Stored(RowsOf(s)', m)
      BY <1>5, <2>1 DEF RowsInOrder, Stored
    <3>2. Stored(RowsOf(s)', t)
      BY <1>1, <1>2 DEF Stored, RowsOf
    <3> QED
      BY <1>4, <3>1, <3>2
  <2>3. \A r \in RowsOf(s)' : r.seq = 0
    BY <1>1, <1>5, <2>1 DEF RowsInOrder
  <2>4. ASSUME NEW r \in RowsOf(s)', NEW x \in RowsOf(s)', r.row < x.row
        PROVE  r.msg < x.msg
    <3>1. CASE r \in RowsOf(s) /\ x \in RowsOf(s)
      BY <2>1, <2>4, <3>1 DEF RowsInOrder
    <3>2. CASE r \in RowsOf(s) /\ x \in rows' \ rows /\ x.msg = t
      BY <1>4, <1>6, <3>2
    <3>3. CASE r \in rows' \ rows /\ x \in RowsOf(s)
      <4>1. x.row < r.row /\ x.row \in Nat /\ r.row \in Nat
        <5>1. \A y \in rows' : y.row \in Nat
          BY DEF Base, TableInv, Table, Row
        <5> QED
          BY <1>1, <1>6, <3>3, <5>1
      <4> QED
        BY <2>4, <4>1
    <3>4. CASE r \in rows' \ rows /\ r.msg = t /\ x \in rows' \ rows /\ x.msg = t
      <4>1. r = x
        BY <3>4 DEF Base, TableInv, Table, Unique
      <4>2. r.row \in Nat
        BY <3>4 DEF Base, TableInv, Table, Row
      <4> QED
        BY <2>4, <4>1, <4>2
    <3> QED
      BY <1>5, <3>1, <3>2, <3>3, <3>4
  <2> QED
    BY <2>2, <2>3, <2>4 DEF RowsInOrder
<1>8. ASSUME NEW r \in Procs
      PROVE  Sees(r, s)'
  <2>1. Sees(r, s)
    BY DEF Seen
  <2>2. Marked(r, s)'
    BY <1>1, <1>5, <2>1 DEF Sees, Marked
  <2>3. \A m : Has(r, s, m) => Has(r, s, m)'
    <3>1. CASE r = p
      <4>1. DOMAIN mem[p][s] = 1 .. Len(mem[p][s]) /\ DOMAIN mem'[p][s] = 1 .. Len(mem'[p][s])
        BY LenProperties DEF Base, MemInv
      <4> QED
        BY <1>1, <1>3, <3>1, <4>1 DEF Has
    <3>2. CASE r # p
      BY <1>1, <3>2 DEF Has
    <3> QED
      BY <3>1, <3>2
  <2>4. \A m : m = t => Has(p, s, m)'
    <3>1. DOMAIN mem'[p][s] = 1 .. Len(mem'[p][s])
      BY LenProperties DEF Base, MemInv
    <3>2. Len(mem[p][s]) + 1 \in 1 .. Len(mem'[p][s])
      BY <1>1, <1>3
    <3> QED
      BY <1>1, <3>1, <3>2 DEF Has
  <2>5. ASSUME s \in known'[r] PROVE Received(r, s)'
    <3>1. Received(r, s)
      BY <1>1, <2>1, <2>5 DEF Sees
    <3>2. ASSUME NEW m \in Of(s)', issued'[m].by = r PROVE Has(r, s, m)'
      <4>1. CASE m \in Of(s)
        BY <1>4, <2>3, <3>1, <3>2, <4>1 DEF Received
      <4>2. CASE m = t
        <5>1. r = p
          BY <1>2, <3>2, <4>2
        <5> QED
          BY <2>4, <4>2, <5>1
      <4> QED
        BY <1>4, <4>1, <4>2
    <3>3. \A x \in RowsOf(s)' : x.row <= synced[r][s] => x \in RowsOf(s)
      <4> SUFFICES ASSUME NEW x \in rows' \ rows, x.row <= synced[r][s] PROVE FALSE
        BY <1>5
      <4>1. x.row \in Nat \ {0} /\ synced[r][s] \in Nat
        BY DEF Base, TableInv, Table, Row, MemInv
      <4>2. CASE synced[r][s] = 0
        BY <4>1, <4>2
      <4>3. ASSUME NEW y \in RowsOf(s), y.row = synced[r][s]
            PROVE  FALSE
        <5>1. y.row < x.row
          BY <1>1, <1>6, <4>3
        <5> QED
          BY <4>1, <4>3, <5>1
      <4> QED
        BY <2>1, <4>2, <4>3 DEF Sees, Marked
    <3>4. \A x \in RowsOf(s)' : x.row <= synced'[r][s] => Has(r, s, x.msg)'
      BY <1>1, <2>3, <3>1, <3>3 DEF Received
    <3> QED
      BY <3>2, <3>4 DEF Received
  <2>6. ASSUME s \in known'[r] PROVE InOrder(r, s)'
    <3>1. Received(r, s) /\ InOrder(r, s)
      BY <1>1, <2>1, <2>6 DEF Sees
    <3>2. \A i \in 1 .. Len(mem[r][s]) : mem[r][s][i].msg \in Of(s) /\ mem'[r][s][i] = mem[r][s][i]
      BY <1>1 DEF Base, MemInv
    <3>3. \A i \in 1 .. Len(mem'[r][s]) : \/ i \in 1 .. Len(mem[r][s])
                                          \/ r = p /\ i = Len(mem[r][s]) + 1
      <4>1. CASE r = p
        BY <1>1, <1>3, <4>1
      <4>2. CASE r # p
        BY <1>1, <4>2
      <4> QED
        BY <4>1, <4>2
    <3>4. ASSUME NEW i \in 1 .. Len(mem[r][s])
          PROVE  /\ \A k \in 1 .. i - 1 :
                      issued'[mem'[r][s][k].msg].by = issued'[mem'[r][s][i].msg].by =>
                         mem'[r][s][k].msg < mem'[r][s][i].msg
                 /\ \A m \in Of(s)' :
                      issued'[m].by = issued'[mem'[r][s][i].msg].by /\ m < mem'[r][s][i].msg =>
                         Has(r, s, m)'
      <4>1. \A k \in 1 .. i - 1 : k \in 1 .. Len(mem[r][s])
        BY <1>3
      <4>2. \A k \in 1 .. i - 1 :
               issued'[mem'[r][s][k].msg].by = issued'[mem'[r][s][i].msg].by =>
                  mem'[r][s][k].msg < mem'[r][s][i].msg
        BY <1>4, <3>1, <3>2, <4>1, ZenonT(60) DEF InOrder
      <4>3. mem[r][s][i].msg \in Of(s) /\ mem[r][s][i].msg < t /\ mem[r][s][i].msg \in Nat
        BY <1>4, <3>2
      <4>4. \A m \in Of(s)' :
               issued'[m].by = issued'[mem'[r][s][i].msg].by /\ m < mem'[r][s][i].msg =>
                  m \in Of(s) /\ issued[m].by = issued[mem[r][s][i].msg].by /\ m < mem[r][s][i].msg
        <5>1. mem'[r][s][i].msg = mem[r][s][i].msg
          BY <3>2
        <5>2. \A m \in Of(s)' : m < mem[r][s][i].msg => m \in Of(s)
          BY <1>4, <4>3
        <5>3. issued'[mem[r][s][i].msg] = issued[mem[r][s][i].msg]
          BY <1>4, <4>3
        <5> QED
          BY <1>4, <5>1, <5>2, <5>3
      <4> QED
        BY <2>3, <3>1, <4>2, <4>4 DEF InOrder
    <3>5. ASSUME r = p, NEW i, i = Len(mem[r][s]) + 1
          PROVE  /\ \A k \in 1 .. i - 1 :
                      issued'[mem'[r][s][k].msg].by = issued'[mem'[r][s][i].msg].by =>
                         mem'[r][s][k].msg < mem'[r][s][i].msg
                 /\ \A m \in Of(s)' :
                      issued'[m].by = issued'[mem'[r][s][i].msg].by /\ m < mem'[r][s][i].msg =>
                         Has(r, s, m)'
      <4>1. \A k \in 1 .. i - 1 : k \in 1 .. Len(mem[r][s])
        BY <1>3, <3>5
      <4>2. mem'[r][s][i].msg = t
        BY <1>1, <3>5
      <4>3. \A k \in 1 .. i - 1 : mem'[r][s][k].msg < t
        BY <1>4, <3>2, <4>1
      <4>4. \A m \in Of(s)' : m < t /\ issued'[m].by = p => m \in Of(s) /\ issued[m].by = p
        BY <1>4
      <4>5. \A m \in Of(s)' : m < t /\ issued'[m].by = p => Has(r, s, m)'
        BY <2>3, <3>1, <3>5, <4>4 DEF Received
      <4> QED
        BY <1>2, <4>2, <4>3, <4>5
    <3> QED
      BY <3>3, <3>4, <3>5 DEF InOrder
  <2> QED
    BY <2>2, <2>5, <2>6 DEF Sees
<1> QED
  BY <1>7, <1>8 DEF Seen

\* A start reads the rows of a session by their ids, so in the order of the messages.
LEMMA LoadOrder ==
    ASSUME Base, Base', Grows, NEW p \in Procs, NEW s \in Sessions, Load(p), s \in stored, Seen(s)
    PROVE  Seen(s)'
<1>1. /\ mem' = [mem EXCEPT ![p] = [x \in Sessions |-> IF x \in stored THEN Loaded(x) ELSE <<>>]]
      /\ known' = [known EXCEPT ![p] = stored]
      /\ synced' = synced /\ issued' = issued /\ rows' = rows
  BY DEF Load, db
<1>2. Of(s)' = Of(s) /\ RowsOf(s)' = RowsOf(s)
  BY <1>1 DEF Of, RowsOf
<1>3. RowsInOrder(s)'
  BY <1>2, RowsStayInOrder DEF Seen
<1>4. \A r \in Procs : r # p => mem'[r] = mem[r] /\ known'[r] = known[r]
  BY <1>1 DEF Base, MemInv, HomeInv
<1>5. \A r \in Procs : r # p => Sees(r, s)'
  <2>1. \A r \in Procs : r # p =>
           /\ mem'[r][s] = mem[r][s] /\ synced'[r][s] = synced[r][s]
           /\ s \in known'[r] => s \in known[r]
           /\ Sees(r, s)
    BY <1>1, <1>4 DEF Seen
  <2> QED
    BY <1>2, <2>1, SeesSame
<1>6. Sees(p, s)'
  <2>1. RowsInOrder(s) /\ Marked(p, s)
    BY DEF Seen, Sees
  <2>2. Table
    BY DEF Base, TableInv
  <2>3. /\ SessionRows(s) \in Seq(RowsOf(s))
        /\ \A r \in RowsOf(s) : \E i \in 1 .. Len(SessionRows(s)) : SessionRows(s)[i] = r
        /\ (\A r \in RowsOf(s) : r.seq = 0) =>
              \A i, j \in 1 .. Len(SessionRows(s)) :
                 i < j => SessionRows(s)[i].row < SessionRows(s)[j].row
    BY <2>2, RowsRead
  <2>4. mem'[p][s] = Loaded(s)
    BY <1>1 DEF Base, MemInv
  <2>5. /\ Len(mem'[p][s]) = Len(SessionRows(s)) /\ Len(mem'[p][s]) \in Nat
        /\ DOMAIN mem'[p][s] = 1 .. Len(mem'[p][s])
        /\ \A i \in 1 .. Len(mem'[p][s]) : mem'[p][s][i].msg = SessionRows(s)[i].msg
    BY <2>2, <2>4, ListLoaded, LenProperties
  <2>6. \A i \in 1 .. Len(SessionRows(s)) : SessionRows(s)[i] \in RowsOf(s)
    BY <2>3, ElementOfSeq
  <2>7. \A r \in RowsOf(s) : Has(p, s, r.msg)'
    BY <2>3, <2>5 DEF Has
  <2>8. \A m \in Of(s) : Has(p, s, m)'
    BY <2>1, <2>7 DEF RowsInOrder, Stored
  <2>9. Marked(p, s)'
    BY <1>1, <1>2, <2>1 DEF Marked
  <2>10. Received(p, s)'
    BY <1>2, <2>7, <2>8 DEF Received
  <2>11. InOrder(p, s)'
    <3>1. ASSUME NEW i \in 1 .. Len(mem'[p][s]), NEW k \in 1 .. i - 1
          PROVE  mem'[p][s][k].msg < mem'[p][s][i].msg
      <4>1. k \in 1 .. Len(mem'[p][s]) /\ k < i
        BY <2>5
      <4>2. SessionRows(s)[k].row < SessionRows(s)[i].row
        BY <2>1, <2>3, <2>5, <4>1 DEF RowsInOrder
      <4>3. SessionRows(s)[k].msg < SessionRows(s)[i].msg
        BY <2>1, <2>5, <2>6, <4>1, <4>2 DEF RowsInOrder
      <4> QED
        BY <2>5, <4>1, <4>3
    <3> QED
      BY <1>2, <2>8, <3>1 DEF InOrder
  <2> QED
    BY <2>9, <2>10, <2>11 DEF Sees
<1> QED
  BY <1>3, <1>5, <1>6 DEF Seen

\* A poll adds the rows that are missing, by their ids; what was there of an author
\* came before them, since it has no gap.
LEMMA PollOrder ==
    ASSUME Base, Base', Grows, NEW p \in Procs, NEW s \in Sessions, Poll(p, s), Seen(s)
    PROVE  Seen(s)'
<1> DEFINE news == Incoming(p, s)
           R == {r \in RowsOf(s) : r.row > synced[p][s] /\ ~Has(p, s, r.msg)}
           old == Len(mem[p][s])
<1>1. /\ news \in Seq(R)
      /\ \A r \in RowsOf(s) : r.row > synced[p][s] /\ ~Has(p, s, r.msg) =>
            \E i \in 1 .. Len(news) : news[i] = r
      /\ \A i, j \in 1 .. Len(news) : i < j => news[i].row < news[j].row
      /\ \A r \in Procs, x \in Sessions : r # p \/ x # s => mem'[r][x] = mem[r][x]
      /\ Len(mem'[p][s]) = old + Len(news)
      /\ \A i \in 1 .. old : mem'[p][s][i] = mem[p][s][i]
      /\ \A i \in 1 .. Len(news) : mem'[p][s][old + i].msg = news[i].msg
  BY Polled
<1>2. /\ synced' = [synced EXCEPT ![p][s] = LastRow(s)] /\ s \in known[p]
      /\ known' = known /\ issued' = issued /\ rows' = rows
  BY DEF Poll, db
<1>3. Of(s)' = Of(s) /\ RowsOf(s)' = RowsOf(s)
  BY <1>2 DEF Of, RowsOf
<1>4. RowsInOrder(s)'
  BY <1>3, RowsStayInOrder DEF Seen
<1>5. /\ synced'[p][s] = LastRow(s)
      /\ \A r \in Procs : r # p => synced'[r][s] = synced[r][s]
  BY <1>2 DEF Base, MemInv
<1>6. \A r \in Procs : r # p => Sees(r, s)'
  <2>1. \A r \in Procs : r # p =>
           /\ mem'[r][s] = mem[r][s] /\ synced'[r][s] = synced[r][s]
           /\ s \in known'[r] => s \in known[r]
           /\ Sees(r, s)
    BY <1>1, <1>2, <1>5 DEF Seen
  <2> QED
    BY <1>3, <2>1, SeesSame
<1>7. /\ \A r \in R : r \in RowsOf(s) /\ ~Has(p, s, r.msg)
      /\ \A r \in RowsOf(s) : r.msg \in Of(s) /\ r.row \in Nat
      /\ \A m \in Of(s) : m \in Nat
  BY RowsAreOf DEF Of
<1> HIDE DEF R, news
<1>8. /\ Len(news) \in Nat /\ old \in Nat /\ Len(mem'[p][s]) \in Nat
      /\ DOMAIN mem[p][s] = 1 .. old /\ DOMAIN mem'[p][s] = 1 .. Len(mem'[p][s])
      /\ \A i \in 1 .. Len(news) : news[i] \in R
      /\ \A i \in 1 .. old : mem[p][s][i].msg \in Of(s) /\ Has(p, s, mem[p][s][i].msg)
  <2>1. Len(news) \in Nat /\ \A i \in 1 .. Len(news) : news[i] \in R
    BY <1>1, LenProperties
  <2>2. /\ old \in Nat /\ Len(mem'[p][s]) \in Nat
        /\ DOMAIN mem[p][s] = 1 .. old /\ DOMAIN mem'[p][s] = 1 .. Len(mem'[p][s])
    BY LenProperties DEF Base, MemInv
  <2>3. \A i \in 1 .. old : mem[p][s][i].msg \in Of(s) /\ Has(p, s, mem[p][s][i].msg)
    BY <2>2 DEF Base, MemInv, Has
  <2> QED
    BY <2>1, <2>2, <2>3
<1> HIDE DEF old
<1>9. \A i \in 1 .. Len(mem'[p][s]) :
         \/ i \in 1 .. old
         \/ i - old \in 1 .. Len(news) /\ mem'[p][s][i].msg = news[i - old].msg
  <2>1. \A i \in 1 .. Len(mem'[p][s]) :
           i \in 1 .. old \/ (i - old \in 1 .. Len(news) /\ old + (i - old) = i)
    BY <1>1, <1>8
  <2> QED
    BY <1>1, <2>1
<1>10. Sees(p, s)
  BY DEF Seen
<1>11. /\ \A m : Has(p, s, m) => Has(p, s, m)'
       /\ \A i \in 1 .. Len(news) : \A m : m = news[i].msg => Has(p, s, m)'
  <2>1. \A m : Has(p, s, m) => Has(p, s, m)'
    <3>1. \A i \in 1 .. old : i \in 1 .. Len(mem'[p][s])
      BY <1>1, <1>8
    <3> QED
      BY <1>1, <1>8, <3>1 DEF Has
  <2>2. \A i \in 1 .. Len(news) : \A m : m = news[i].msg => Has(p, s, m)'
    <3>1. \A i \in 1 .. Len(news) : old + i \in 1 .. Len(mem'[p][s])
      BY <1>1, <1>8
    <3> QED
      BY <1>1, <1>8, <3>1 DEF Has
  <2> QED
    BY <2>1, <2>2
<1>12. Marked(p, s)' /\ \A r \in RowsOf(s) : r.row <= LastRow(s)
  <2>1. PICK n \in Nat : \A r \in rows : r.row <= n
    BY DEF Base, TableInv, Table
  <2>2. RowsOf(s) \in SUBSET Row /\ \A r \in RowsOf(s) : r.row <= n
    BY <2>1 DEF Base, TableInv, Table, RowsOf
  <2>3. /\ LastRow(s) \in Nat
        /\ \A r \in RowsOf(s) : r.row <= LastRow(s)
        /\ LastRow(s) = 0 \/ \E r \in RowsOf(s) : r.row = LastRow(s)
    BY <2>2, LastIdFound DEF LastRow
  <2> QED
    BY <1>3, <1>5, <2>3 DEF Marked
<1>13. \A r \in RowsOf(s) : \A m : m = r.msg => Has(p, s, m)'
  <2> SUFFICES ASSUME NEW r \in RowsOf(s), NEW m, m = r.msg PROVE Has(p, s, m)'
    OBVIOUS
  <2>1. CASE r.row <= synced[p][s]
    <3>1. Has(p, s, m)
      BY <1>2, <1>10, <2>1 DEF Sees, Received
    <3> QED
      BY <1>11, <3>1
  <2>2. CASE r.row > synced[p][s]
    <3>1. CASE Has(p, s, m)
      BY <1>11, <3>1
    <3>2. CASE ~Has(p, s, m)
      <4>1. PICK i \in 1 .. Len(news) : news[i] = r
        BY <1>1, <2>2, <3>2
      <4> QED
        BY <1>11, <4>1
    <3> QED
      BY <3>1, <3>2
  <2>3. synced[p][s] \in Nat /\ r.row \in Nat
    BY <1>7 DEF Base, MemInv
  <2> QED
    BY <2>1, <2>2, <2>3
<1>14. \A m \in Of(s) : Has(p, s, m)'
  <2>1. \A m \in Of(s) : Stored(RowsOf(s), m)
    BY DEF Seen, RowsInOrder
  <2> QED
    BY <1>13, <2>1 DEF Stored
<1>15. Received(p, s)'
  BY <1>3, <1>13, <1>14 DEF Received
<1>16. InOrder(p, s)'
  <2>1. RowsInOrder(s) /\ InOrder(p, s)
    BY <1>2, <1>10 DEF Sees, Seen
  <2>2. ASSUME NEW i \in 1 .. Len(mem'[p][s]), NEW k \in 1 .. i - 1,
               issued[mem'[p][s][k].msg].by = issued[mem'[p][s][i].msg].by
        PROVE  mem'[p][s][k].msg < mem'[p][s][i].msg
    <3>1. k \in 1 .. Len(mem'[p][s]) /\ k < i /\ i \in Nat /\ k \in Nat
      BY <1>8
    <3>2. CASE i \in 1 .. old
      <4>1. k \in 1 .. old
        BY <1>8, <3>2
      <4> QED
        BY <1>1, <2>1, <2>2, <3>2, <4>1 DEF InOrder, old
    <3>3. CASE k \in 1 .. old /\ i - old \in 1 .. Len(news) /\ mem'[p][s][i].msg = news[i - old].msg
      <4> DEFINE m == news[i - old].msg  o == mem[p][s][k].msg
      <4>1. m \in Of(s) /\ ~Has(p, s, m)
        BY <1>7, <1>8, <3>3
      <4>2. o \in Of(s) /\ Has(p, s, o) /\ mem'[p][s][k].msg = o
        BY <1>1, <1>8, <3>3
      <4> HIDE DEF m, o
      <4>3. issued[o].by = issued[m].by
        BY <2>2, <3>3, <4>2 DEF m
      <4>4. ~(m < o)
        BY <1>8, <2>1, <3>3, <4>1, <4>3 DEF InOrder, o
      <4>5. m # o /\ m \in Nat /\ o \in Nat
        BY <1>7, <4>1, <4>2
      <4> QED
        BY <3>3, <4>2, <4>4, <4>5 DEF m
    <3>4. CASE /\ k - old \in 1 .. Len(news) /\ mem'[p][s][k].msg = news[k - old].msg
               /\ i - old \in 1 .. Len(news) /\ mem'[p][s][i].msg = news[i - old].msg
      <4>1. k - old < i - old
        BY <1>8, <3>1
      <4>2. news[k - old].row < news[i - old].row
        BY <1>1, <3>4, <4>1
      <4>3. news[k - old] \in RowsOf(s) /\ news[i - old] \in RowsOf(s)
        BY <1>7, <1>8, <3>4
      <4> QED
        BY <2>1, <3>4, <4>2, <4>3 DEF RowsInOrder
    <3>5. CASE /\ k - old \in 1 .. Len(news) /\ i \in 1 .. old
      BY <1>8, <3>1, <3>5
    <3> QED
      BY <1>9, <3>1, <3>2, <3>3, <3>4, <3>5
  <2> QED
    BY <1>2, <1>3, <1>14, <2>2 DEF InOrder
<1>17. Sees(p, s)'
  BY <1>12, <1>15, <1>16 DEF Sees
<1> QED
  BY <1>4, <1>6, <1>17 DEF Seen

\* Steps that leave the messages and the rows of a session alone, and at each process
\* its list and watermark, unless the process does not have the session afterwards.
LEMMA QuietOrder ==
    ASSUME Base, Base', Grows, NEW s \in Sessions, Seen(s),
           Of(s)' = Of(s), RowsOf(s)' = RowsOf(s),
           \A p \in Procs :
              \/ /\ mem'[p][s] = mem[p][s] /\ synced'[p][s] = synced[p][s]
                 /\ s \in known'[p] => s \in known[p]
              \/ s \notin known'[p] /\ synced'[p][s] = 0
    PROVE  Seen(s)'
<1>1. RowsInOrder(s)'
  BY RowsStayInOrder DEF Seen
<1>2. \A p \in Procs : Sees(p, s)'
  BY SeesSame, SeesNothing DEF Seen
<1> QED
  BY <1>1, <1>2 DEF Seen

\* What a process forgets.
LEMMA ForgetOrder ==
    ASSUME Base, NEW p \in Procs, NEW s \in Sessions, Forget(p)
    PROVE  \A r \in Procs :
              \/ /\ mem'[r][s] = mem[r][s] /\ synced'[r][s] = synced[r][s]
                 /\ s \in known'[r] => s \in known[r]
              \/ s \notin known'[r] /\ synced'[r][s] = 0
BY DEF Forget, Base, MemInv, HomeInv

LEMMA FailuresGrow ==
    ASSUME Base, [Next]_vars, failures' = 0
    PROVE  failures = 0
<1>1. failures \in Nat
  BY Bounds DEF Base, IssuedInv
<1>2. CASE failures' = failures \/ failures' = failures + 1
  BY <1>1, <1>2
<1>3. CASE UNCHANGED vars
  BY <1>2, <1>3 DEF vars, counts
<1>4. ASSUME NEW p \in Procs, Step(p)
      PROVE  failures = 0
  <2>1. CASE Load(p) \/ Drop(p) \/ SaveNow(p) \/ Purge(p) \/ Exit(p) \/ Crash(p)
    BY <1>2, <2>1 DEF Load, Drop, SaveNow, Purge, Exit, Crash, counts
  <2>2. CASE Finish(p)
    BY <1>2, <2>2 DEF Finish, Post
  <2>3. ASSUME NEW s \in Sessions, SendUserMessage(p, s) \/ TeammateReply(p, s) \/ Notify(p, s)
        PROVE  failures = 0
    BY <1>2, <2>3 DEF SendUserMessage, TeammateReply, Notify, Post
  <2>4. ASSUME NEW s \in Sessions, CreateSession(p, s) \/ RemoveSession(p, s) \/ Poll(p, s)
        PROVE  failures = 0
    BY <1>2, <2>4 DEF CreateSession, RemoveSession, Poll, counts
  <2>5. ASSUME NEW s \in Sessions, SaveSession(p, s)
        PROVE  failures = 0
    <3> DEFINE written == IF saved[p][s] = Len(mem[p][s]) THEN {} ELSE DOMAIN mem[p][s]
    <3>1. PICK lost \in SUBSET written : failures' = failures + Cardinality(lost)
      BY <2>5 DEF SaveSession
    <3>2. Len(mem[p][s]) \in Nat /\ DOMAIN mem[p][s] = 1 .. Len(mem[p][s])
      BY LenProperties DEF Base, MemInv
    <3>3. IsFiniteSet(1 .. Len(mem[p][s])) /\ lost \subseteq 1 .. Len(mem[p][s])
      BY <3>2, FS_Interval
    <3>4. Cardinality(lost) \in Nat
      BY <3>3, FS_Subset, FS_CardinalityType
    <3> QED
      BY <1>1, <3>1, <3>4
  <2> QED
    BY <1>4, <2>1, <2>2, <2>3, <2>4, <2>5 DEF Step
<1> QED
  BY <1>3, <1>4 DEF Next

\* A message posted to another session.
LEMMA ElsewhereOrder ==
    ASSUME Base, Base', Grows, NEW p \in Procs, NEW x \in Sessions, NEW kind,
           Issue(p, x, kind), Post(p, x), NEW s \in Sessions, s # x, Seen(s)
    PROVE  Seen(s)'
<1>1. /\ \A r \in Procs : mem'[r][s] = mem[r][s]
      /\ \A r \in rows' \ rows : r.msg = Len(issued) + 1
      /\ rows \subseteq rows'
      /\ UNCHANGED <<known, synced>>
  BY Posted
<1>2. issued'[Len(issued) + 1].session = x /\ Len(issued') = Len(issued) + 1
  <2>1. issued'[Len(issued) + 1] = [session |-> x, by |-> p, kind |-> kind]
    BY NewMessage DEF Base
  <2>2. Len(issued') = Len(issued) + 1
    BY NewMessage DEF Base
  <2> QED
    BY <2>1, <2>2
<1>3. RowsOf(s)' = RowsOf(s)
  BY <1>1, <1>2, RowsSame
<1>4. Of(s)' = Of(s)
  <2>1. Of(s) \subseteq Of(s)'
    BY OfGrows DEF Base
  <2>2. \A m \in Of(s)' : m \in Of(s) \/ m = Len(issued) + 1
    BY MessagesStay DEF Base
  <2>3. \A m \in Of(s)' : issued'[m].session = s
    BY DEF Of
  <2> QED
    BY <1>2, <2>1, <2>2, <2>3
<1> QED
  BY <1>1, <1>3, <1>4, QuietOrder

LEMMA OrderStep ==
    ASSUME Base, OrderInv, [Next]_vars, Base', Grows
    PROVE  OrderInv'
<1> SUFFICES ASSUME failures' = 0, NEW s \in Live' PROVE Seen(s)'
  BY DEF OrderInv
<1>1. removed \subseteq removed'
  <2>1. CASE UNCHANGED vars
    BY <2>1 DEF vars, counts
  <2>2. ASSUME NEW p \in Procs, Step(p) PROVE removed \subseteq removed'
    BY <2>2 DEF Step, Load, Drop, SaveNow, Purge, Exit, Crash, Finish, SendUserMessage,
                TeammateReply, Notify, CreateSession, RemoveSession, SaveSession, Poll, counts
  <2> QED
    BY <2>1, <2>2 DEF Next
<1>2. s \in Live /\ s \in Sessions /\ s \in stored /\ s \in created /\ s \notin removed'
  BY <1>1, StoreAssumption DEF Live, Base, HomeInv, StoreAssumption
<1>3. Seen(s)
  BY <1>2, FailuresGrow DEF OrderInv
<1>4. ASSUME issued' = issued PROVE Of(s)' = Of(s)
  BY <1>4 DEF Of
<1>5. ASSUME issued' = issued, RowsOf(s)' = RowsOf(s), mem' = mem, synced' = synced,
             \A p \in Procs : s \in known'[p] => s \in known[p]
      PROVE  Seen(s)'
  BY <1>2, <1>3, <1>4, <1>5, QuietOrder
<1>6. ASSUME issued' = issued, rows' = rows PROVE RowsOf(s)' = RowsOf(s)
  BY <1>6 DEF RowsOf
<1>7. CASE UNCHANGED vars
  BY <1>5, <1>6, <1>7 DEF vars, db, local
<1>8. ASSUME NEW p \in Procs, NEW x \in Sessions, NEW kind, Issue(p, x, kind), Post(p, x)
      PROVE  Seen(s)'
  BY <1>2, <1>3, <1>8, PostOrder, ElsewhereOrder
<1>9. ASSUME NEW p \in Procs, Step(p)
      PROVE  Seen(s)'
  <2>1. CASE Load(p)
    BY <1>2, <1>3, <2>1, LoadOrder
  <2>2. CASE Drop(p) \/ SaveNow(p) \/ Exit(p)
    BY <1>5, <1>6, <2>2 DEF Drop, SaveNow, Exit, db, local
  <2>3. CASE Crash(p)
    <3>1. Forget(p) /\ issued' = issued /\ rows' = rows
      BY <2>3 DEF Crash, db
    <3> QED
      BY <1>2, <1>3, <1>4, <1>6, <3>1, ForgetOrder, QuietOrder
  <2>4. CASE Purge(p)
    <3>1. /\ phase[p] # "down" /\ issued' = issued
          /\ rows' = rows \ UNION {RowsOf(x) : x \in stored \ known[p]}
      BY <2>4 DEF Purge, DeleteSessions
    <3>2. s \in known[p]
      BY <1>2, <3>1 DEF Base, HomeInv
    <3>3. RowsOf(s)' = RowsOf(s)
      <4>1. \A r \in rows \ rows' : issued[r.msg].session # s
        BY <3>1, <3>2 DEF RowsOf
      <4>2. rows' \ rows = {}
        BY <3>1
      <4> QED
        BY <4>1, <4>2, RowsSame
    <3>4. UNCHANGED <<known, mem, synced>> \/ Forget(p)
      BY <2>4 DEF Purge
    <3> QED
      BY <1>2, <1>3, <1>4, <1>5, <3>1, <3>3, <3>4, ForgetOrder, QuietOrder
  <2>5. CASE Finish(p)
    <3>1. active[p] \in 1 .. Len(issued)
      BY <2>5 DEF Finish, Base, TurnInv, Ids
    <3>2. issued[active[p]].session \in Sessions
      BY <3>1, SessionOf DEF Base
    <3>3. \/ Issue(p, issued[active[p]].session, "reply") /\ Post(p, issued[active[p]].session)
          \/ UNCHANGED <<issued, rows, local>>
      BY <2>5 DEF Finish
    <3> QED
      BY <1>5, <1>6, <1>8, <3>2, <3>3 DEF local
  <2>6. ASSUME NEW x \in Sessions, SendUserMessage(p, x) \/ TeammateReply(p, x) \/ Notify(p, x)
        PROVE  Seen(s)'
    BY <1>8, <2>6 DEF SendUserMessage, TeammateReply, Notify
  <2>7. ASSUME NEW x \in Sessions, CreateSession(p, x)
        PROVE  Seen(s)'
    <3>1. /\ x \notin created /\ known' = [known EXCEPT ![p] = @ \cup {x}]
          /\ issued' = issued /\ rows' = rows /\ mem' = mem /\ synced' = synced
      BY <2>7 DEF CreateSession, db
    <3>2. \A r \in Procs : s \in known'[r] => s \in known[r]
      BY <1>2, <3>1 DEF Base, HomeInv
    <3> QED
      BY <1>5, <1>6, <3>1, <3>2
  <2>8. ASSUME NEW x \in Sessions, RemoveSession(p, x)
        PROVE  Seen(s)'
    <3>1. /\ removed' = removed \cup {x} /\ known' = [known EXCEPT ![p] = @ \ {x}]
          /\ mem' = [mem EXCEPT ![p][x] = <<>>] /\ synced' = synced /\ issued' = issued
          /\ rows' = rows \ UNION {RowsOf(y) : y \in {x}}
      BY <2>8 DEF RemoveSession, DeleteSessions
    <3>2. s # x
      BY <1>2, <3>1
    <3>3. RowsOf(s)' = RowsOf(s)
      <4>1. \A r \in rows \ rows' : issued[r.msg].session # s
        BY <3>1, <3>2 DEF RowsOf
      <4>2. rows' \ rows = {}
        BY <3>1
      <4> QED
        BY <4>1, <4>2, RowsSame
    <3>4. \A r \in Procs : /\ mem'[r][s] = mem[r][s] /\ synced'[r][s] = synced[r][s]
                           /\ s \in known'[r] => s \in known[r]
      BY <3>1, <3>2 DEF Base, MemInv, HomeInv
    <3> QED
      BY <1>2, <1>3, <1>4, <3>1, <3>3, <3>4, QuietOrder
  <2>9. ASSUME NEW x \in Sessions, SaveSession(p, x)
        PROVE  Seen(s)'
    <3>1. /\ rows \subseteq rows'
          /\ \A r \in rows' \ rows :
                /\ ~Stored(rows, r.msg)
                /\ \E i \in 1 .. Len(mem[p][x]) : r.msg = mem[p][x][i].msg
      BY <2>9, Written
    <3>2. UNCHANGED <<issued, mem, synced, known>>
      BY <2>9 DEF SaveSession
    <3>3. \A r \in rows' \ rows : issued'[r.msg].session # s
      <4> SUFFICES ASSUME NEW r \in rows' \ rows, issued[r.msg].session = s PROVE FALSE
        BY <3>2
      <4>1. r.msg \in Of(x)
        BY <3>1 DEF Base, MemInv
      <4>2. r.msg \in Of(s)
        BY <4>1 DEF Of
      <4>3. Stored(RowsOf(s), r.msg)
        BY <1>3, <4>2 DEF Seen, RowsInOrder
      <4> QED
        BY <3>1, <4>3 DEF Stored, RowsOf
    <3>4. RowsOf(s)' = RowsOf(s)
      BY <3>1, <3>3, RowsSame
    <3> QED
      BY <1>5, <3>2, <3>4
  <2>10. ASSUME NEW x \in Sessions, Poll(p, x)
         PROVE  Seen(s)'
    <3>1. CASE x = s
      BY <1>2, <1>3, <2>10, <3>1, PollOrder
    <3>2. CASE x # s
      <4>1. /\ \A r \in Procs : mem'[r][s] = mem[r][s]
            /\ synced' = [synced EXCEPT ![p][x] = LastRow(x)]
            /\ issued' = issued /\ rows' = rows /\ known' = known
        <5>1. \A r \in Procs : mem'[r][s] = mem[r][s]
          BY <1>2, <2>10, <3>2, Polled, ZenonT(60)
        <5> QED
          BY <2>10, <5>1 DEF Poll, db
      <4>2. \A r \in Procs : synced'[r][s] = synced[r][s]
        BY <1>2, <3>2, <4>1 DEF Base, MemInv
      <4> QED
        BY <1>2, <1>3, <1>4, <1>6, <4>1, <4>2, QuietOrder
    <3> QED
      BY <3>1, <3>2
  <2> QED
    BY <1>9, <2>1, <2>2, <2>3, <2>4, <2>5, <2>6, <2>7, <2>8, <2>9, <2>10 DEF Step
<1> QED
  BY <1>7, <1>9 DEF Next

LEMMA BaseInit == Init => Base /\ OrderInv
<1> SUFFICES ASSUME Init PROVE Base /\ OrderInv
  OBVIOUS
<1> USE DEF Init
<1>1. /\ issued \in Seq(Message) /\ Len(issued) = 0 /\ Len(<<>>) = 0
      /\ <<>> \in Seq(Ids) /\ <<>> \in Seq(Entry)
  BY EmptySeq
<1>2. IssuedInv
  BY <1>1, Bounds DEF IssuedInv
<1>3. TableInv
  <2>1. \A r \in rows : r.row <= 0
    OBVIOUS
  <2> QED
    BY <2>1 DEF TableInv, Table, Unique
<1>4. \A s : Some(Of(s), <<>>)
  BY <1>1 DEF Some, Once
<1>5. SavedInv
  BY <1>1, <1>4 DEF SavedInv, NoTurns, Turns
<1>6. MemInv
  BY <1>1 DEF MemInv
<1>7. TurnInv
  BY <1>1, <1>4 DEF TurnInv
<1>8. HomeInv
  BY StoreAssumption DEF HomeInv, Live, StoreAssumption
<1>9. OrderInv
  <2> SUFFICES ASSUME NEW s \in Live PROVE Seen(s)
    BY DEF OrderInv
  <2>1. s \in Sessions
    BY <1>8 DEF Live, HomeInv
  <2>2. \A m \in Of(s) : FALSE
    BY <1>1 DEF Of
  <2>3. RowsInOrder(s)
    BY <2>2 DEF RowsInOrder, RowsOf
  <2>4. \A p \in Procs : synced[p][s] = 0 /\ s \notin known[p]
    BY <2>1
  <2> QED
    BY <2>3, <2>4 DEF Seen, Sees, Marked
<1> QED
  BY <1>2, <1>3, <1>5, <1>6, <1>7, <1>8, <1>9 DEF Base

LEMMA Invariant == Spec => [](Base /\ OrderInv)
<1>1. (Base /\ OrderInv) /\ [Next]_vars => (Base /\ OrderInv)'
  BY BaseStep, OrderStep
<1> QED
  BY BaseInit, <1>1, PTL DEF Spec

\* Type correctness of the store and its processes: a row id and a message occur once in
\* the table, a save writes sessions that its process knows, and a turn waits only behind
\* an active one.  (WorkspaceService, ChatStateRepository, ChatPersistenceService.)
THEOREM TypesHold == Spec => []TypeOK
<1>1. Base => TypeOK
  <2> SUFFICES ASSUME Base PROVE TypeOK
    OBVIOUS
  <2> USE DEF Base
  <2>1. DOMAIN issued = 1 .. Len(issued)
    BY LenProperties DEF IssuedInv
  <2>2. rows \in SUBSET [row : Nat \ {0}, msg : DOMAIN issued, seq : Nat]
    <3>1. \A r \in rows : r \in Row /\ r.msg \in DOMAIN issued
      BY <2>1, RowsAreOf DEF TableInv, Table
    <3> QED
      BY <3>1 DEF Row
  <2>3. \A a, b \in rows : a.row = b.row \/ a.msg = b.msg => a = b
    BY DEF TableInv, Table, Unique
  <2>4. ASSUME NEW p \in Procs
        PROVE  /\ active[p] \in {0} \cup DOMAIN issued
               /\ \A s \in Sessions :
                    /\ \A i \in DOMAIN mem[p][s] : mem[p][s][i].seq > 0
                    /\ queue[p][s] # <<>> => active[p] # 0
    <3>1. active[p] \in {0} \cup DOMAIN issued
      BY <2>1 DEF TurnInv, Ids
    <3>2. \A s \in Sessions : \A i \in DOMAIN mem[p][s] : mem[p][s][i] \in Entry
      <4>1. \A s \in Sessions : mem[p][s] \in Seq(Entry)
        BY DEF MemInv
      <4> QED
        BY <4>1, LenProperties
    <3>3. \A s \in Sessions : \A i \in DOMAIN mem[p][s] : mem[p][s][i].seq > 0
      BY <3>2 DEF Entry
    <3> QED
      BY <3>1, <3>3 DEF TurnInv
  <2> QED
    BY <2>2, <2>3, <2>4 DEF TypeOK, HomeInv, IssuedInv
<1> QED
  BY Invariant, <1>1, PTL

\* What a process has of the messages of each author is a prefix of them in the order they
\* were posted, whatever the processes post, save, purge and poll in between, and whenever
\* one is killed and started again.  (pollExternalChanges, loadMessagesFromDb,
\* saveAllSessionMessages.)
THEOREM SeenHolds == Spec => []SeenInOrder
<1>1. Base /\ OrderInv => SeenInOrder
  <2> SUFFICES ASSUME Base, OrderInv, failures = 0,
                      NEW p \in Procs, NEW s \in (known[p] \cap Initial) \ removed,
                      NEW i \in DOMAIN mem[p][s]
               PROVE  LET At(k) == mem[p][s][k].msg
                          Mine(m) == issued[m].by = issued[At(i)].by /\ issued[m].session = s
                      IN  /\ issued[At(i)].session = s
                          /\ \A k \in 1..i-1 : Mine(At(k)) => At(k) < At(i)
                          /\ \A m \in 1..At(i)-1 : Mine(m) => \E k \in 1..i-1 : At(k) = m
    BY DEF SeenInOrder
  <2> DEFINE At(k) == mem[p][s][k].msg
  <2>1. s \in Sessions /\ InOrder(p, s)
    BY StoreAssumption DEF StoreAssumption, OrderInv, Live, Seen, Sees
  <2>2. /\ Len(mem[p][s]) \in Nat /\ DOMAIN mem[p][s] = 1 .. Len(mem[p][s])
        /\ \A k \in 1 .. Len(mem[p][s]) : At(k) \in Of(s)
    BY <2>1, LenProperties DEF Base, MemInv
  <2>3. Len(issued) \in Nat
    BY LenProperties DEF Base, IssuedInv
  <2>4. /\ \A k \in 1 .. Len(mem[p][s]) : At(k) \in 1 .. Len(issued) /\ issued[At(k)].session = s
        /\ \A m \in 1 .. Len(issued) : issued[m].session = s => m \in Of(s)
    BY <2>2 DEF Of
  <2>5. /\ \A k \in 1 .. i - 1 : issued[At(k)].by = issued[At(i)].by => At(k) < At(i)
        /\ \A m \in Of(s) : issued[m].by = issued[At(i)].by /\ m < At(i) => Has(p, s, m)
    BY <2>1, <2>2 DEF InOrder
  <2>6. ASSUME NEW m \in 1 .. At(i) - 1, issued[m].by = issued[At(i)].by, issued[m].session = s
        PROVE  \E k \in 1 .. i - 1 : At(k) = m
    <3>1. At(i) \in 1 .. Len(issued)
      BY <2>2, <2>4
    <3>2. m \in 1 .. Len(issued) /\ m < At(i)
      BY <2>3, <3>1
    <3>3. Has(p, s, m)
      BY <2>4, <2>5, <2>6, <3>2
    <3>4. PICK k \in 1 .. Len(mem[p][s]) : At(k) = m
      BY <2>2, <3>3 DEF Has
    <3>5. ~(At(i) < At(k)) /\ k # i
      BY <3>1, <3>2, <3>4
    <3>6. ~(i < k)
      <4> SUFFICES ASSUME i < k PROVE FALSE
        OBVIOUS
      <4>1. i \in 1 .. k - 1
        BY <2>2
      <4>2. At(i) < At(k)
        BY <2>1, <2>6, <3>4, <4>1 DEF InOrder
      <4> QED
        BY <3>5, <4>2
    <3>7. k \in 1 .. i - 1
      BY <2>2, <3>5, <3>6
    <3> QED
      BY <3>4, <3>7
  <2>7. issued[At(i)].session = s
    BY <2>2, <2>4
  <2> QED
    BY <2>5, <2>6, <2>7
<1> QED
  BY Invariant, <1>1, PTL

-----------------------------------------------------------------------------
(* The turns of a process that is alone and never killed.                  *)

\* The turns of the user in sessions that nobody removed.
UserTurns == {t \in 1 .. Len(issued) : issued[t].kind = "user" /\ issued[t].session \notin removed}

\* Of some turns those that were not started are in the queue of their session, and
\* none was started twice.
Fits(ex, is, U, q) ==
    \A t \in U : ex[t] <= 1 /\ (t \in Range(q[is[t].session]) <=> ex[t] = 0)

InTable == [s \in Sessions |-> pending[s].queued]

\* A single process p: the sessions are known while it runs and stored while it
\* does not, a turn that was not started waits in its queue or in the table, and
\* the last save has written what it has passed.
Alone(p) ==
    /\ \A m \in 1 .. Len(issued) : issued[m].session \in created
    /\ phase[p] # "down" => /\ created \ removed \subseteq known[p]
                            /\ Fits(executed, issued, UserTurns, queue[p])
    /\ phase[p] = "down" => /\ created \ removed \subseteq stored
                            /\ Fits(executed, issued, UserTurns, InTable)
    /\ phase[p] = "leaving" =>
         \A s \in known[p] \ left[p] : s \in stored /\ pending[s].queued = queue[p][s]

LEMMA RangeIs ==
    ASSUME NEW list \in Seq(Ids), NEW t
    PROVE  t \in Range(list) <=> \E i \in 1 .. Len(list) : list[i] = t
<1>1. DOMAIN list = 1 .. Len(list)
  BY LenProperties
<1> QED
  BY <1>1 DEF Range

LEMMA RangeTail ==
    ASSUME NEW list \in Seq(Ids), list # <<>>, Once(list)
    PROVE  /\ \A t : t \in Range(list) <=> t = Head(list) \/ t \in Range(Tail(list))
           /\ Head(list) \notin Range(Tail(list))
<1>1. /\ Head(list) = list[1] /\ Len(list) \in Nat \ {0} /\ Tail(list) \in Seq(Ids)
      /\ Len(Tail(list)) = Len(list) - 1
      /\ \A i \in 1 .. Len(Tail(list)) : Tail(list)[i] = list[i + 1]
  BY HeadTailProperties, EmptySeq
<1>2. \A i \in 1 .. Len(list) : i = 1 \/ (i - 1 \in 1 .. Len(Tail(list)) /\ Tail(list)[i - 1] = list[i])
  <2>1. \A i \in 1 .. Len(list) : i = 1 \/ (i - 1 \in 1 .. Len(Tail(list)) /\ (i - 1) + 1 = i)
    BY <1>1
  <2> QED
    BY <1>1, <2>1
<1>3. 1 \in 1 .. Len(list) /\ \A i \in 1 .. Len(Tail(list)) : i + 1 \in 1 .. Len(list) /\ 1 < i + 1
  BY <1>1
<1>4. \A t : t \in Range(list) <=> t = Head(list) \/ t \in Range(Tail(list))
  <2> SUFFICES ASSUME NEW t PROVE t \in Range(list) <=> t = Head(list) \/ t \in Range(Tail(list))
    OBVIOUS
  <2>1. t \in Range(list) <=> \E i \in 1 .. Len(list) : list[i] = t
    BY RangeIs
  <2>2. t \in Range(Tail(list)) <=> \E i \in 1 .. Len(Tail(list)) : Tail(list)[i] = t
    BY <1>1, RangeIs
  <2>3. (\E i \in 1 .. Len(Tail(list)) : Tail(list)[i] = t) => \E i \in 1 .. Len(list) : list[i] = t
    BY <1>1, <1>3
  <2>4. (\E i \in 1 .. Len(list) : list[i] = t) =>
           t = Head(list) \/ \E i \in 1 .. Len(Tail(list)) : Tail(list)[i] = t
    BY <1>1, <1>2
  <2>5. t = Head(list) => \E i \in 1 .. Len(list) : list[i] = t
    BY <1>1, <1>3
  <2> QED
    BY <2>1, <2>2, <2>3, <2>4, <2>5
<1>5. Head(list) \notin Range(Tail(list))
  <2>1. \A i \in 1 .. Len(Tail(list)) : Tail(list)[i] # Head(list)
    BY <1>1, <1>3 DEF Once
  <2>2. Head(list) \in Range(Tail(list)) <=> \E i \in 1 .. Len(Tail(list)) : Tail(list)[i] = Head(list)
    BY <1>1, RangeIs
  <2> QED
    BY <2>1, <2>2
<1> QED
  BY <1>4, <1>5

LEMMA RangeAppend ==
    ASSUME NEW list \in Seq(Ids), NEW e \in Ids
    PROVE  \A t : t \in Range(Append(list, e)) <=> t = e \/ t \in Range(list)
<1>1. /\ Append(list, e) \in Seq(Ids) /\ Len(Append(list, e)) = Len(list) + 1
      /\ \A i \in 1 .. Len(list) : Append(list, e)[i] = list[i]
      /\ Append(list, e)[Len(list) + 1] = e /\ Len(list) \in Nat
  BY AppendProperties, LenProperties
<1>2. /\ \A i \in 1 .. Len(list) + 1 : i \in 1 .. Len(list) \/ i = Len(list) + 1
      /\ \A i \in 1 .. Len(list) : i \in 1 .. Len(list) + 1
      /\ Len(list) + 1 \in 1 .. Len(list) + 1
  BY <1>1
<1> SUFFICES ASSUME NEW t PROVE t \in Range(Append(list, e)) <=> t = e \/ t \in Range(list)
  OBVIOUS
<1>3. t \in Range(list) <=> \E i \in 1 .. Len(list) : list[i] = t
  BY RangeIs
<1>4. t \in Range(Append(list, e)) <=> \E i \in 1 .. Len(list) + 1 : Append(list, e)[i] = t
  BY <1>1, RangeIs, ZenonT(60)
<1>5. (\E i \in 1 .. Len(list) : list[i] = t) => \E i \in 1 .. Len(list) + 1 : Append(list, e)[i] = t
  BY <1>1, <1>2
<1>6. (\E i \in 1 .. Len(list) + 1 : Append(list, e)[i] = t) =>
         t = e \/ \E i \in 1 .. Len(list) : list[i] = t
  BY <1>1, <1>2
<1>7. t = e => \E i \in 1 .. Len(list) + 1 : Append(list, e)[i] = t
  BY <1>1, <1>2
<1> QED
  BY <1>3, <1>4, <1>5, <1>6, <1>7

\* Starting the next turn takes it from its queue and counts it.
LEMMA FitsTaken ==
    ASSUME TurnInv, NEW p \in Procs, NEW s0 \in Sessions, NEW q \in [Sessions -> Seq(Ids)],
           NEW is, NEW U \in SUBSET Ids, \A t \in U : is[t].session \in Sessions,
           \A x \in Sessions : Once(q[x]),
           \A x \in Sessions : \A i \in 1 .. Len(q[x]) : is[q[x][i]].session = x,
           Fits(executed, is, U, q), StartNext(p, q, s0)
    PROVE  Fits(executed', is, U, queue'[p])
<1>1. PICK q2 \in [Sessions -> Seq(Ids)], a \in {0} \cup Ids :
          /\ queue' = [queue EXCEPT ![p] = q2]
          /\ Taken(p, q, q2, a)
  BY Started
<1>2. queue'[p] = q2
  BY <1>1 DEF TurnInv
<1>3. CASE q2 = q /\ UNCHANGED executed
  BY <1>2, <1>3
<1>4. ASSUME NEW x \in Sessions, q[x] # <<>>, a = Head(q[x]), q2 = [q EXCEPT ![x] = Tail(q[x])],
             executed' = [executed EXCEPT ![a] = IF @ < 2 THEN @ + 1 ELSE @]
      PROVE  Fits(executed', is, U, q2)
  <2>1. q[x] \in Seq(Ids) /\ Once(q[x])
    OBVIOUS
  <2>2. /\ \A t : t \in Range(q[x]) <=> t = a \/ t \in Range(Tail(q[x]))
        /\ a \notin Range(Tail(q[x]))
    BY <1>4, <2>1, RangeTail
  <2>3. a \in Ids /\ is[a].session = x
    <3>1. a = q[x][1] /\ Len(q[x]) \in Nat \ {0} /\ a \in Ids
      BY <1>4, <2>1, HeadTailProperties, EmptySeq
    <3>2. 1 \in 1 .. Len(q[x])
      BY <3>1
    <3> QED
      BY <3>1, <3>2
  <2>4. q2[x] = Tail(q[x]) /\ \A y \in Sessions : y # x => q2[y] = q[y]
    BY <1>4
  <2>5. ASSUME NEW t \in U
        PROVE  executed'[t] <= 1 /\ (t \in Range(q2[is[t].session]) <=> executed'[t] = 0)
    <3>1. CASE t = a
      <4>1. executed[t] = 0
        BY <2>2, <2>3, <3>1 DEF Fits
      <4>2. executed'[t] = 1
        BY <1>4, <2>3, <3>1, <4>1 DEF TurnInv
      <4>3. q2[is[t].session] = Tail(q[x])
        BY <2>3, <2>4, <3>1
      <4>4. t \notin Range(q2[is[t].session])
        BY <2>2, <3>1, <4>3
      <4> QED
        BY <4>2, <4>4
    <3>2. CASE t # a
      <4>1. executed'[t] = executed[t]
        BY <1>4, <3>2 DEF TurnInv
      <4>2. t \in Range(q2[is[t].session]) <=> t \in Range(q[is[t].session])
        BY <2>2, <2>4, <3>2
      <4> QED
        BY <4>1, <4>2 DEF Fits
    <3> QED
      BY <3>1, <3>2
  <2> QED
    BY <2>5 DEF Fits
<1> QED
  BY <1>1, <1>2, <1>3, <1>4 DEF Taken

\* A step after which the process runs on, and is not leaving.
LEMMA RunsOn ==
    ASSUME NEW p, phase'[p] \notin {"down", "leaving"},
           \A m \in 1 .. Len(issued') : issued'[m].session \in created',
           created' \ removed' \subseteq known'[p],
           Fits(executed', issued', UserTurns', queue'[p])
    PROVE  Alone(p)'
BY DEF Alone

\* The messages and the turns of the user, when nothing is made and no session goes.
LEMMA SameTurns ==
    ASSUME issued' = issued, removed' = removed
    PROVE  UserTurns' = UserTurns
BY DEF UserTurns

\* What is known of the turns of the user in the next state.
LEMMA TurnsTyped ==
    ASSUME IssuedInv
    PROVE  /\ UserTurns \in SUBSET Ids
           /\ \A t \in UserTurns : t \in 1 .. Len(issued) /\ issued[t].session \in Sessions
<1>1. Len(issued) \in Nat /\ Len(issued) <= MaxIssued
  BY LenProperties DEF IssuedInv
<1>2. UserTurns \in SUBSET Ids
  BY <1>1, Bounds DEF UserTurns, Ids
<1> QED
  BY <1>2, SessionOf DEF UserTurns

\* The next turn starts: with the queue q, that of the process or a changed one.
LEMMA AloneTaken ==
    ASSUME Base, IssuedInv', NEW p \in Procs, NEW s0 \in Sessions, NEW q \in [Sessions -> Seq(Ids)],
           \A x \in Sessions : Some(Of(x)', q[x]),
           Fits(executed, issued', UserTurns', q), StartNext(p, q, s0)
    PROVE  Fits(executed', issued', UserTurns', queue'[p])
<1>1. UserTurns' \in SUBSET Ids /\ \A t \in UserTurns' : issued'[t].session \in Sessions
  <2>1. UserTurns' \in SUBSET Ids
    <3>1. Len(issued') \in Nat /\ Len(issued') <= MaxIssued
      BY LenProperties DEF IssuedInv
    <3> QED
      BY <3>1, Bounds DEF UserTurns, Ids
  <2>2. \A t \in UserTurns' : issued'[t] \in Message
    BY ElementOfSeq DEF UserTurns, IssuedInv
  <2> QED
    BY <2>1, <2>2 DEF Message
<1>2. \A x \in Sessions : Once(q[x]) /\ \A i \in 1 .. Len(q[x]) : issued'[q[x][i]].session = x
  BY DEF Some, Of
<1>3. TurnInv
  BY DEF Base
<1> QED
  BY <1>1, <1>2, <1>3, FitsTaken

\* A message is made: the turns of the user there were stay the same.
LEMMA TurnsMade ==
    ASSUME IssuedInv, NEW p \in Procs, NEW s \in Sessions, NEW kind, Issue(p, s, kind),
           removed' = removed
    PROVE  /\ \A t \in UserTurns : t \in UserTurns' /\ issued'[t].session = issued[t].session
           /\ \A t \in UserTurns' : \/ t \in UserTurns
                                    \/ t = Len(issued) + 1 /\ kind = "user" /\ issued'[t].session = s
           /\ \A m \in 1 .. Len(issued') :
                 (m \in 1 .. Len(issued) /\ issued'[m] = issued[m]) \/ issued'[m].session = s
<1>1. issued'[Len(issued) + 1].session = s /\ issued'[Len(issued) + 1].kind = kind
      /\ Len(issued') = Len(issued) + 1 /\ Grows
  <2>1. issued'[Len(issued) + 1] = [session |-> s, by |-> p, kind |-> kind]
    BY NewMessage
  <2>2. Len(issued') = Len(issued) + 1 /\ Grows
    BY NewMessage
  <2> QED
    BY <2>1, <2>2
<1>2. Len(issued) \in Nat
  BY LenProperties DEF IssuedInv
<1>3. \A m \in 1 .. Len(issued') : m \in 1 .. Len(issued) \/ m = Len(issued) + 1
  BY <1>1, <1>2
<1>4. \A m \in 1 .. Len(issued) : m \in 1 .. Len(issued') /\ issued'[m] = issued[m]
  BY <1>1, <1>2 DEF Grows
<1> QED
  BY <1>1, <1>3, <1>4 DEF UserTurns

\* A message that is no turn of the user.
LEMMA AloneNoticed ==
    ASSUME Base, NEW p \in Procs, NEW s \in Sessions, NEW kind, Issue(p, s, kind),
           removed' = removed, kind # "user", NEW q, NEW ex, Fits(ex, issued, UserTurns, q)
    PROVE  Fits(ex, issued', UserTurns', q)
<1>1. /\ \A t \in UserTurns : t \in UserTurns' /\ issued'[t].session = issued[t].session
      /\ \A t \in UserTurns' : \/ t \in UserTurns
                               \/ t = Len(issued) + 1 /\ kind = "user" /\ issued'[t].session = s
  BY TurnsMade DEF Base
<1> QED
  BY <1>1 DEF Fits

\* A message becomes a turn.
LEMMA AloneQueued ==
    ASSUME Base, Base', NEW p \in Procs, NEW s \in Sessions, NEW kind, Issue(p, s, kind),
           Enqueue(p, s, Len(issued) + 1), removed' = removed,
           Fits(executed, issued, UserTurns, queue[p])
    PROVE  Fits(executed', issued', UserTurns', queue'[p])
<1> DEFINE t == Len(issued) + 1
           q == [queue[p] EXCEPT ![s] = Append(@, t)]
<1>1. t \in Ids /\ Grows /\ Len(issued') = t
  BY NewMessage DEF Base
<1>2. /\ \A u \in UserTurns : u \in UserTurns' /\ issued'[u].session = issued[u].session
      /\ \A u \in UserTurns' : \/ u \in UserTurns
                               \/ u = t /\ kind = "user" /\ issued'[u].session = s
  BY TurnsMade DEF Base
<1>3. Len(issued) \in Nat
  BY LenProperties DEF Base, IssuedInv
<1>4. executed[t] = 0 /\ \A u \in UserTurns : u # t
  <2>1. t > Len(issued)
    BY <1>3
  <2>2. executed[t] = 0
    BY <1>1, <2>1 DEF Base, TurnInv
  <2>3. \A u \in UserTurns : u # t
    BY <1>3 DEF UserTurns
  <2> QED
    BY <2>2, <2>3
<1>5. issued'[t].session = s
  <2>1. issued'[Len(issued) + 1] = [session |-> s, by |-> p, kind |-> kind]
    BY NewMessage DEF Base
  <2> QED
    BY <2>1
<1>6. t \in Of(s)' /\ t > Len(issued)
  BY <1>1, <1>3, <1>5 DEF Of
<1>7. \/ active[p] = 0 /\ StartNext(p, q, s)
      \/ queue' = [queue EXCEPT ![p] = q] /\ UNCHANGED executed
  BY DEF Enqueue
<1> HIDE DEF t
<1>8. queue[p] \in [Sessions -> Seq(Ids)] /\ queue[p][s] \in Seq(Ids)
      /\ \A x \in Sessions : Some(Of(x), queue[p][x])
  BY DEF Base, TurnInv
<1>9. Append(queue[p][s], t) \in Seq(Ids) /\ Some(Of(s)', Append(queue[p][s], t))
  BY <1>1, <1>6, <1>8, Queued DEF Base
<1>10. q \in [Sessions -> Seq(Ids)] /\ q[s] = Append(queue[p][s], t)
       /\ \A x \in Sessions : x # s => q[x] = queue[p][x]
  BY <1>8, <1>9
<1>11. \A x \in Sessions : Some(Of(x)', q[x])
  <2>1. \A x \in Sessions : Some(Of(x)', queue[p][x])
    BY <1>1, <1>8, TurnsStay DEF Base
  <2> QED
    BY <1>9, <1>10, <2>1
<1>12. \A u : u \in Range(q[s]) <=> u = t \/ u \in Range(queue[p][s])
  BY <1>1, <1>8, <1>10, RangeAppend
<1> HIDE DEF q
<1>13. Fits(executed, issued', UserTurns', q)
  <2> SUFFICES ASSUME NEW u \in UserTurns'
               PROVE  executed[u] <= 1 /\ (u \in Range(q[issued'[u].session]) <=> executed[u] = 0)
    BY DEF Fits
  <2>1. CASE u \in UserTurns
    <3>1. issued'[u].session = issued[u].session /\ u # t /\ issued[u].session \in Sessions
      BY <1>2, <1>4, <2>1, TurnsTyped DEF Base
    <3>2. u \in Range(q[issued[u].session]) <=> u \in Range(queue[p][issued[u].session])
      BY <1>10, <1>12, <3>1
    <3> QED
      BY <2>1, <3>1, <3>2 DEF Fits
  <2>2. CASE u = t /\ issued'[u].session = s
    <3>1. u \in Range(q[s])
      BY <1>12, <2>2
    <3> QED
      BY <1>4, <2>2, <3>1
  <2> QED
    BY <1>2, <2>1, <2>2
<1>14. CASE active[p] = 0 /\ StartNext(p, q, s)
  <2>1. IssuedInv'
    BY DEF Base
  <2> QED
    BY <1>10, <1>11, <1>13, <1>14, <2>1, AloneTaken
<1>15. CASE queue' = [queue EXCEPT ![p] = q] /\ UNCHANGED executed
  <2>1. queue'[p] = q
    BY <1>15 DEF Base, TurnInv
  <2> QED
    BY <1>13, <1>15, <2>1
<1> QED
  BY <1>7, <1>14, <1>15

\* A step that neither starts nor queues a turn, while the process runs.
LEMMA AloneSaves ==
    ASSUME NEW p, Alone(p), phase[p] # "down", phase'[p] # "down",
           UNCHANGED <<issued, created, removed, queue, executed, known>>,
           phase'[p] = "leaving" =>
              \A s \in known[p] \ left'[p] : s \in stored' /\ pending'[s].queued = queue[p][s]
    PROVE  Alone(p)'
<1>1. UserTurns' = UserTurns
  BY SameTurns
<1>2. /\ \A m \in 1 .. Len(issued) : issued[m].session \in created
      /\ created \ removed \subseteq known[p]
      /\ Fits(executed, issued, UserTurns, queue[p])
  BY DEF Alone
<1> QED
  BY <1>1, <1>2 DEF Alone

\* A start restores the turns of the user that wait in the table, and starts one of them.
LEMMA AloneLoads ==
    ASSUME Base, Base', Grows, NEW p \in Procs, Alone(p), Load(p)
    PROVE  Alone(p)'
<1> DEFINE q == [s \in Sessions |-> IF s \in stored THEN Restored(s) ELSE <<>>]
<1>1. /\ phase[p] = "down" /\ phase' = [phase EXCEPT ![p] = "idle"]
      /\ known' = [known EXCEPT ![p] = stored]
      /\ UNCHANGED <<issued, created, removed>>
  BY DEF Load, counts
<1>2. PICK s0 \in Sessions : StartNext(p, q, s0)
  BY DEF Load
<1>3. /\ \A m \in 1 .. Len(issued) : issued[m].session \in created
      /\ created \ removed \subseteq stored
      /\ Fits(executed, issued, UserTurns, InTable)
  BY <1>1 DEF Alone
<1>4. UserTurns' = UserTurns
  BY <1>1, SameTurns
<1>5. \A x \in Sessions : q[x] \in Seq(Ids) /\ Some(Of(x)', q[x])
  <2> SUFFICES ASSUME NEW x \in Sessions PROVE q[x] \in Seq(Ids) /\ Some(Of(x)', q[x])
    OBVIOUS
  <2>1. Restored(x) \in Seq(Ids) /\ Some(Of(x), Restored(x))
    BY TurnsRestored DEF Base
  <2>2. <<>> \in Seq(Ids) /\ Some(Of(x), <<>>)
    BY EmptySeq DEF Some, Once
  <2>3. Some(Of(x)', Restored(x)) /\ Some(Of(x)', <<>>)
    BY <2>1, <2>2, TurnsStay DEF Base
  <2> QED
    BY <2>1, <2>2, <2>3
<1>6. q \in [Sessions -> Seq(Ids)]
  BY <1>5
<1>7. Fits(executed, issued, UserTurns, q)
  <2> SUFFICES ASSUME NEW t \in UserTurns
               PROVE  executed[t] <= 1 /\ (t \in Range(q[issued[t].session]) <=> executed[t] = 0)
    BY DEF Fits
  <2> DEFINE s == issued[t].session
  <2>1. /\ t \in 1 .. Len(issued) /\ s \in Sessions /\ issued[t].kind = "user" /\ s \notin removed
    BY TurnsTyped DEF UserTurns, Base
  <2>2. s \in stored
    BY <1>3, <2>1
  <2>3. executed[t] <= 1 /\ (t \in Range(pending[s].queued) <=> executed[t] = 0)
    BY <1>3, <2>1 DEF Fits, InTable
  <2>4. q[s] = Restored(s)
    BY <2>1, <2>2
  <2> HIDE DEF s, q
  <2>5. SavedInv /\ pending[s].queued \in Seq(Ids)
    BY <2>1 DEF Base, SavedInv, Turns
  <2>6. /\ Restored(s) \in Seq(Ids)
        /\ \A i \in 1 .. Len(Restored(s)) :
              \E k \in 1 .. Len(pending[s].queued) :
                 Restored(s)[i] = pending[s].queued[k] /\ issued[Restored(s)[i]].kind = "user"
        /\ \A k \in 1 .. Len(pending[s].queued) :
              issued[pending[s].queued[k]].kind = "user" =>
                 \E i \in 1 .. Len(Restored(s)) : Restored(s)[i] = pending[s].queued[k]
    BY <2>1, <2>5, TurnsRestored
  <2>7. t \in Range(pending[s].queued) <=> \E k \in 1 .. Len(pending[s].queued) : pending[s].queued[k] = t
    BY <2>5, RangeIs
  <2>8. t \in Range(Restored(s)) <=> \E i \in 1 .. Len(Restored(s)) : Restored(s)[i] = t
    BY <2>6, RangeIs
  <2>9. t \in Range(Restored(s)) <=> t \in Range(pending[s].queued)
    BY <2>1, <2>6, <2>7, <2>8
  <2> QED
    BY <2>3, <2>4, <2>9 DEF s
<1> HIDE DEF q
<1>8. Fits(executed, issued', UserTurns', q)
  BY <1>1, <1>4, <1>7
<1>9. IssuedInv'
  BY DEF Base
<1>10. Fits(executed', issued', UserTurns', queue'[p])
  BY <1>2, <1>5, <1>6, <1>8, <1>9, AloneTaken
<1>11. phase'[p] = "idle" /\ known'[p] = stored
  BY <1>1 DEF Base, HomeInv
<1> QED
  BY <1>1, <1>3, <1>10, <1>11, RunsOn

\* The last save is over: the table has the queues.
LEMMA AloneLeaves ==
    ASSUME Base, NEW p \in Procs, Alone(p), phase[p] = "leaving", left[p] = {},
           DeleteSessions(stored \ known[p]), phase'[p] = "down",
           UNCHANGED <<issued, created, removed, executed>>
    PROVE  Alone(p)'
<1>1. /\ \A m \in 1 .. Len(issued) : issued[m].session \in created
      /\ created \ removed \subseteq known[p]
      /\ Fits(executed, issued, UserTurns, queue[p])
      /\ \A s \in known[p] : s \in stored /\ pending[s].queued = queue[p][s]
  BY DEF Alone
<1>2. UserTurns' = UserTurns
  BY SameTurns
<1>3. /\ stored' = stored \ (stored \ known[p])
      /\ pending' = [s \in Sessions |-> IF s \in stored \ known[p] THEN NoTurns ELSE pending[s]]
  BY DEF DeleteSessions
<1>4. created' \ removed' \subseteq stored'
  BY <1>1, <1>3
<1>5. ASSUME NEW t \in UserTurns
      PROVE  InTable'[issued[t].session] = queue[p][issued[t].session]
  <2>1. issued[t].session \in Sessions /\ issued[t].session \in known[p]
    <3>1. t \in 1 .. Len(issued) /\ issued[t].session \in Sessions /\ issued[t].session \notin removed
      BY TurnsTyped DEF Base, UserTurns
    <3> QED
      BY <1>1, <3>1
  <2>2. pending'[issued[t].session] = pending[issued[t].session]
    BY <1>3, <2>1
  <2> QED
    BY <1>1, <2>1, <2>2 DEF InTable
<1>6. Fits(executed', issued', UserTurns', InTable')
  BY <1>1, <1>2, <1>5 DEF Fits
<1> QED
  BY <1>1, <1>4, <1>6 DEF Alone

\* A session goes, with its turns.
LEMMA AloneRemoves ==
    ASSUME Base, Base', Grows, NEW p \in Procs, Alone(p), NEW s \in Sessions, RemoveSession(p, s)
    PROVE  Alone(p)'
<1> DEFINE q == [queue[p] EXCEPT ![s] = <<>>]
<1>1. /\ phase[p] = "idle" /\ s \in known[p]
      /\ known' = [known EXCEPT ![p] = @ \ {s}] /\ removed' = removed \cup {s}
      /\ BeginSave(p, "saving", known'[p])
      /\ issued' = issued /\ created' = created
  BY DEF RemoveSession, Ready
<1>2. \/ StartNext(p, q, s)
      \/ queue' = [queue EXCEPT ![p] = q] /\ UNCHANGED executed
  BY DEF RemoveSession
<1>3. /\ \A m \in 1 .. Len(issued) : issued[m].session \in created
      /\ created \ removed \subseteq known[p]
      /\ Fits(executed, issued, UserTurns, queue[p])
  BY <1>1 DEF Alone
<1>4. /\ queue[p] \in [Sessions -> Seq(Ids)] /\ queue \in [Procs -> [Sessions -> Seq(Ids)]]
      /\ \A x \in Sessions : Some(Of(x)', queue[p][x])
  BY TurnsStay DEF Base, TurnInv
<1>5. \A x \in Sessions : Some(Of(x)', <<>>)
  BY EmptySeq DEF Some, Once
<1>6. q \in [Sessions -> Seq(Ids)] /\ \A x \in Sessions : Some(Of(x)', q[x])
  <2>1. <<>> \in Seq(Ids)
    BY EmptySeq
  <2>2. \A x \in Sessions : q[x] = IF x = s THEN <<>> ELSE queue[p][x]
    BY <1>4
  <2>3. q \in [Sessions -> Seq(Ids)]
    BY <1>4, <2>1
  <2> HIDE DEF q
  <2> QED
    BY <1>4, <1>5, <2>2, <2>3
<1>7. Fits(executed, issued', UserTurns', q)
  <2>1. \A t \in UserTurns' : t \in UserTurns /\ issued[t].session # s
    BY <1>1 DEF UserTurns
  <2>2. \A t \in UserTurns' : q[issued[t].session] = queue[p][issued[t].session]
    BY <1>4, <2>1
  <2> HIDE DEF q
  <2> QED
    BY <1>1, <1>3, <2>1, <2>2 DEF Fits
<1> HIDE DEF q
<1>8. Fits(executed', issued', UserTurns', queue'[p])
  <2>1. CASE StartNext(p, q, s)
    <3>1. IssuedInv'
      BY DEF Base
    <3> QED
      BY <1>6, <1>7, <2>1, <3>1, AloneTaken
  <2>2. CASE queue' = [queue EXCEPT ![p] = q] /\ UNCHANGED executed
    <3>1. queue'[p] = q
      BY <1>4, <2>2
    <3> QED
      BY <1>7, <2>2, <3>1
  <2> QED
    BY <1>2, <2>1, <2>2
<1>9. phase'[p] = "saving" /\ known'[p] = known[p] \ {s}
  BY <1>1 DEF BeginSave, Base, HomeInv
<1>10. created' \ removed' \subseteq known'[p]
  BY <1>1, <1>3, <1>9
<1> QED
  BY <1>1, <1>3, <1>8, <1>9, <1>10, RunsOn

LEMMA AloneStep ==
    ASSUME Base, Base', Grows, [Next]_vars, NEW p, Procs = {p}, Alone(p), crashes' = 0
    PROVE  Alone(p)'
<1>0. p \in Procs /\ \A r \in Procs : r = p
  OBVIOUS
<1>1. CASE UNCHANGED vars
  <2>1. /\ UNCHANGED <<issued, created, removed, queue, executed, known>>
        /\ UNCHANGED <<phase, left, stored, pending>>
    BY <1>1 DEF vars, db, loop, turns, local, counts
  <2>2. UserTurns' = UserTurns /\ InTable' = InTable
    BY <2>1, SameTurns DEF InTable
  <2> QED
    BY <2>1, <2>2 DEF Alone
<1>2. ASSUME phase[p] # "down"
      PROVE  /\ \A m \in 1 .. Len(issued) : issued[m].session \in created
             /\ created \ removed \subseteq known[p]
             /\ Fits(executed, issued, UserTurns, queue[p])
  BY <1>2 DEF Alone
<1>3. /\ queue[p] \in [Sessions -> Seq(Ids)]
      /\ \A x \in Sessions : Some(Of(x)', queue[p][x])
  BY <1>0, TurnsStay DEF Base, TurnInv
<1>4. IssuedInv' /\ IssuedInv
  BY DEF Base
<1>5. phase \in [Procs -> {"down", "idle", "saving", "leaving"}] /\ known[p] \subseteq created
      /\ left \in [Procs -> SUBSET Sessions] /\ known \in [Procs -> SUBSET Sessions]
  BY <1>0 DEF Base, HomeInv
<1>6. ASSUME NEW s \in Sessions, NEW kind, Issue(p, s, kind), s \in created, phase[p] # "down",
             created' = created, removed' = removed
      PROVE  \A m \in 1 .. Len(issued') : issued'[m].session \in created'
  <2>1. \A m \in 1 .. Len(issued') :
           (m \in 1 .. Len(issued) /\ issued'[m] = issued[m]) \/ issued'[m].session = s
    BY <1>0, <1>4, <1>6, TurnsMade
  <2> QED
    BY <1>2, <1>6, <2>1
<1>7. CASE Load(p)
  BY <1>0, <1>7, AloneLoads
<1>8. CASE SaveNow(p)
  <2>1. /\ phase[p] = "idle" /\ BeginSave(p, "saving", known[p])
        /\ UNCHANGED <<issued, created, removed, queue, executed, known>>
    BY <1>8 DEF SaveNow, Ready, db, turns, local, counts
  <2>2. phase'[p] = "saving"
    BY <1>0, <1>5, <2>1 DEF BeginSave
  <2> QED
    BY <2>1, <2>2, AloneSaves
<1>9. CASE Exit(p)
  <2>1. /\ phase[p] = "idle" /\ BeginSave(p, "leaving", known[p])
        /\ UNCHANGED <<issued, created, removed, queue, executed, known>>
    BY <1>9 DEF Exit, Ready, db, turns, local, counts
  <2>2. phase'[p] = "leaving" /\ left'[p] = known[p]
    BY <1>0, <1>5, <2>1 DEF BeginSave
  <2> QED
    BY <2>1, <2>2, AloneSaves
<1>10. CASE Crash(p)
  <2>1. crashes' = crashes + 1 /\ crashes \in Nat
    BY <1>10, Bounds DEF Crash, Base, IssuedInv
  <2> QED
    BY <2>1
<1>11. CASE Purge(p)
  <2>1. /\ phase[p] \in {"saving", "leaving"} /\ left[p] = {}
        /\ DeleteSessions(stored \ known[p])
        /\ UNCHANGED <<issued, created, removed, executed>>
    BY <1>11 DEF Purge, counts
  <2>2. \/ phase' = [phase EXCEPT ![p] = "idle"] /\ UNCHANGED <<known, queue>>
        \/ phase[p] = "leaving" /\ phase' = [phase EXCEPT ![p] = "down"]
    BY <1>11 DEF Purge
  <2>3. CASE phase' = [phase EXCEPT ![p] = "idle"] /\ UNCHANGED <<known, queue>>
    <3>1. phase'[p] = "idle" /\ phase[p] # "down"
      BY <1>0, <1>5, <2>1, <2>3
    <3> QED
      BY <2>1, <2>3, <3>1, AloneSaves
  <2>4. CASE phase[p] = "leaving" /\ phase' = [phase EXCEPT ![p] = "down"]
    <3>1. phase'[p] = "down"
      BY <1>0, <1>5, <2>4
    <3> QED
      BY <1>0, <2>1, <2>4, <3>1, AloneLeaves
  <2> QED
    BY <2>2, <2>3, <2>4
<1>12. CASE Drop(p)
  <2>1. /\ phase[p] = "idle" /\ active[p] # 0
        /\ StartNext(p, queue[p], issued[active[p]].session)
        /\ UNCHANGED <<issued, created, removed, phase, known>>
    BY <1>12 DEF Drop, Ready, loop, local, counts
  <2>2. active[p] \in 1 .. Len(issued)
    BY <1>0, <2>1 DEF Base, TurnInv, Ids
  <2>3. issued[active[p]].session \in Sessions
    BY <1>4, <2>2, SessionOf
  <2>4. Fits(executed, issued', UserTurns', queue[p])
    BY <1>2, <2>1, SameTurns
  <2>5. Fits(executed', issued', UserTurns', queue'[p])
    BY <1>0, <1>3, <1>4, <2>1, <2>3, <2>4, AloneTaken
  <2> QED
    BY <1>2, <2>1, <2>5, RunsOn
<1>13. CASE Finish(p)
  <2> DEFINE s == issued[active[p]].session
  <2>1. /\ phase[p] = "idle" /\ active[p] # 0
        /\ StartNext(p, queue[p], s)
        /\ Issue(p, s, "reply") \/ issued' = issued
        /\ BeginSave(p, "saving", known[p]) \/ UNCHANGED loop
        /\ UNCHANGED <<created, removed, known>>
    BY <1>13 DEF Finish, Ready, local, Post
  <2>2. active[p] \in 1 .. Len(issued)
    BY <1>0, <2>1 DEF Base, TurnInv, Ids
  <2>3. s \in Sessions /\ s \in created
    BY <1>2, <1>4, <2>1, <2>2, SessionOf
  <2> HIDE DEF s
  <2>4. Fits(executed, issued', UserTurns', queue[p])
    <3>1. CASE Issue(p, s, "reply")
      BY <1>0, <1>2, <2>1, <2>3, <3>1, AloneNoticed
    <3>2. CASE issued' = issued
      BY <1>2, <2>1, <3>2, SameTurns
    <3> QED
      BY <2>1, <3>1, <3>2
  <2>5. Fits(executed', issued', UserTurns', queue'[p])
    BY <1>0, <1>3, <1>4, <2>1, <2>3, <2>4, AloneTaken
  <2>6. phase'[p] \in {"idle", "saving"}
    BY <1>0, <1>5, <2>1 DEF BeginSave, loop
  <2>7. \A m \in 1 .. Len(issued') : issued'[m].session \in created'
    BY <1>2, <1>6, <2>1, <2>3
  <2>8. created' \ removed' \subseteq known'[p]
    BY <1>2, <2>1
  <2> QED
    BY <2>5, <2>6, <2>7, <2>8, RunsOn
<1>14. ASSUME NEW s \in Sessions, CreateSession(p, s) PROVE Alone(p)'
  <2>1. /\ phase[p] = "idle" /\ known' = [known EXCEPT ![p] = @ \cup {s}]
        /\ created' = created \cup {s} /\ BeginSave(p, "saving", known'[p])
        /\ UNCHANGED <<issued, removed, queue, executed>>
    BY <1>14 DEF CreateSession, Ready, turns
  <2>2. phase'[p] = "saving" /\ known'[p] = known[p] \cup {s}
    BY <1>0, <1>5, <2>1 DEF BeginSave
  <2>3. Fits(executed', issued', UserTurns', queue'[p])
    BY <1>2, <2>1, SameTurns
  <2> QED
    BY <1>2, <2>1, <2>2, <2>3, RunsOn
<1>15. ASSUME NEW s \in Sessions, RemoveSession(p, s) PROVE Alone(p)'
  BY <1>0, <1>15, AloneRemoves
<1>16. ASSUME NEW s \in Sessions, SaveSession(p, s) PROVE Alone(p)'
  <2>1. /\ s \in left[p] /\ stored' = stored \cup {s}
        /\ pending' = [pending EXCEPT ![s] = TurnsOf(p, s)]
        /\ left' = [left EXCEPT ![p] = @ \ {s}]
        /\ UNCHANGED <<phase, issued, created, removed, queue, executed, known>>
    BY <1>16 DEF SaveSession, turns
  <2>2. phase[p] \in {"saving", "leaving"} /\ left'[p] = left[p] \ {s}
        /\ known[p] \subseteq Sessions
    BY <1>0, <2>1 DEF Base, HomeInv
  <2>3. /\ pending'[s].queued = queue[p][s]
        /\ \A x \in Sessions : x # s => pending'[x] = pending[x]
    BY <2>1 DEF Base, SavedInv, TurnsOf
  <2>4. ASSUME phase[p] = "leaving", NEW x \in known[p] \ left'[p]
        PROVE  x \in stored' /\ pending'[x].queued = queue[p][x]
    <3>1. CASE x = s
      BY <2>1, <2>3, <3>1
    <3>2. CASE x # s
      <4>1. x \in known[p] \ left[p] /\ x \in Sessions
        BY <2>2, <2>4, <3>2
      <4>2. x \in stored /\ pending[x].queued = queue[p][x]
        BY <2>4, <4>1 DEF Alone
      <4> QED
        BY <2>1, <2>3, <3>2, <4>1, <4>2
    <3> QED
      BY <3>1, <3>2
  <2> QED
    BY <2>1, <2>2, <2>4, AloneSaves
<1>17. ASSUME NEW s \in Sessions, Poll(p, s) PROVE Alone(p)'
  <2>1. /\ phase[p] = "idle"
        /\ UNCHANGED <<phase, left, issued, created, removed, queue, executed, known>>
    BY <1>17 DEF Poll, Ready, loop, turns, counts
  <2> QED
    BY <2>1, AloneSaves
<1>18. ASSUME NEW s \in Sessions, s \in known[p], phase[p] = "idle",
              UNCHANGED <<created, removed, phase, known>>,
              NEW kind, Issue(p, s, kind),
              \/ Enqueue(p, s, Len(issued) + 1)
              \/ kind # "user" /\ UNCHANGED turns
       PROVE  Alone(p)'
  <2>1. \A m \in 1 .. Len(issued') : issued'[m].session \in created'
    BY <1>5, <1>6, <1>18
  <2>2. created' \ removed' \subseteq known'[p]
    BY <1>2, <1>18
  <2>3. Fits(executed', issued', UserTurns', queue'[p])
    <3>1. CASE Enqueue(p, s, Len(issued) + 1)
      BY <1>0, <1>2, <1>18, <3>1, AloneQueued
    <3>2. CASE kind # "user" /\ UNCHANGED turns
      <4>1. Fits(executed, issued', UserTurns', queue[p])
        BY <1>0, <1>2, <1>18, <3>2, AloneNoticed
      <4> QED
        BY <3>2, <4>1 DEF turns
    <3> QED
      BY <1>18, <3>1, <3>2
  <2> QED
    BY <1>18, <2>1, <2>2, <2>3, RunsOn
<1>19. ASSUME NEW s \in Sessions, SendUserMessage(p, s) PROVE Alone(p)'
  <2>1. s \in known[p] /\ phase[p] = "idle" /\ UNCHANGED <<created, removed, phase, known>>
    BY <1>19 DEF SendUserMessage, Ready, loop, Post
  <2>2. \/ Issue(p, s, "user") /\ Enqueue(p, s, Len(issued) + 1)
        \/ Issue(p, s, "merged") /\ UNCHANGED turns
    BY <1>19 DEF SendUserMessage
  <2> QED
    BY <1>18, <2>1, <2>2
<1>20. ASSUME NEW s \in Sessions, TeammateReply(p, s) \/ Notify(p, s) PROVE Alone(p)'
  <2>1. s \in known[p] /\ phase[p] = "idle" /\ UNCHANGED <<created, removed, phase, known>>
    BY <1>20 DEF TeammateReply, Notify, Ready, loop, Post
  <2>2. \/ Issue(p, s, "teammate") /\ Enqueue(p, s, Len(issued) + 1)
        \/ Issue(p, s, "notice") /\ UNCHANGED turns
    BY <1>20 DEF TeammateReply, Notify
  <2> QED
    BY <1>18, <2>1, <2>2
<1>21. [Next]_vars <=> (\E r \in Procs : Step(r)) \/ UNCHANGED vars
  BY DEF Next
<1>22. CASE Step(p)
  BY <1>7, <1>8, <1>9, <1>10, <1>11, <1>12, <1>13, <1>14, <1>15, <1>16, <1>17, <1>19, <1>20, <1>22
     DEF Step
<1> QED
  BY <1>0, <1>1, <1>21, <1>22

\* What holds of the turns when there is one process, which was not killed.
Single == \A p \in Procs : Procs = {p} /\ crashes = 0 => Alone(p)

LEMMA SingleStep ==
    ASSUME Base, Base', Grows, [Next]_vars, Single
    PROVE  Single'
<1>1. crashes' = 0 => crashes = 0
  <2>1. crashes \in Nat
    BY Bounds DEF Base, IssuedInv
  <2>2. crashes' = crashes \/ crashes' = crashes + 1
    <3>1. CASE UNCHANGED vars
      BY <3>1 DEF vars, counts
    <3>2. ASSUME NEW p \in Procs, Step(p) PROVE crashes' = crashes \/ crashes' = crashes + 1
      BY <3>2 DEF Step, Load, Drop, SaveNow, Purge, Exit, Crash, Finish, SendUserMessage,
                  TeammateReply, Notify, CreateSession, RemoveSession, SaveSession, Poll, counts
    <3> QED
      BY <3>1, <3>2 DEF Next
  <2> QED
    BY <2>1, <2>2
<1> QED
  BY <1>1, AloneStep DEF Single

\* Closing a process and starting it again neither loses nor repeats a turn of the user,
\* as long as there is one process that is never killed, whatever it posts, saves and
\* removes, and whichever inserts of messages fail.  (serializePendingTurns,
\* restorePendingTurns, loadSessionsFromDisk.)
THEOREM RestoredHolds == Spec => []((\E p : Procs = {p}) => RestoredWhole)
<1>1. Init => Single
  <2> SUFFICES ASSUME Init, NEW p \in Procs PROVE Alone(p)
    BY DEF Single
  <2>1. issued = <<>> /\ Len(<<>>) = 0
    BY EmptySeq DEF Init
  <2>2. Len(issued) = 0
    BY <2>1
  <2>3. \A m \in 1 .. Len(issued) : FALSE
    BY <2>2
  <2>4. phase[p] = "down" /\ created \ removed \subseteq stored
    BY DEF Init
  <2>5. Fits(executed, issued, UserTurns, InTable)
    BY <2>3 DEF Fits, UserTurns
  <2> QED
    BY <2>3, <2>4, <2>5 DEF Alone
<1>2. Base /\ OrderInv /\ Base' /\ Single /\ [Next]_vars => Single'
  <2> SUFFICES ASSUME Base, Base', Single, [Next]_vars PROVE Single'
    OBVIOUS
  <2>1. Grows
    BY BaseStep
  <2> QED
    BY <2>1, SingleStep
<1>3. Base /\ TypeOK /\ Single => ((\E p : Procs = {p}) => RestoredWhole)
  <2> SUFFICES ASSUME Base, TypeOK, Single, NEW p, Procs = {p}, crashes = 0,
                      NEW t \in DOMAIN issued, issued[t].kind = "user", issued[t].session \notin removed
               PROVE  (Waits(t) <=> executed[t] = 0) /\ executed[t] <= 1
    BY DEF RestoredWhole, TurnsSurvive
  <2> DEFINE s == issued[t].session
  <2>1. Alone(p) /\ p \in Procs /\ \A r \in Procs : r = p
    BY DEF Single
  <2>2. t \in UserTurns /\ s \in Sessions
    <3>1. DOMAIN issued = 1 .. Len(issued)
      BY LenProperties DEF Base, IssuedInv
    <3> QED
      BY <3>1, SessionOf DEF UserTurns, Base
  <2>3. Waits(t) <=> \/ t \in Range(queue[p][s])
                     \/ phase[p] = "down" /\ t \in Range(pending[s].queued)
    BY <2>1 DEF Waits, Up
  <2>4. CASE phase[p] # "down"
    BY <2>1, <2>2, <2>3, <2>4 DEF Alone, Fits
  <2>5. CASE phase[p] = "down"
    <3>1. queue[p][s] = <<>>
      BY <2>1, <2>2, <2>5 DEF Base, TurnInv
    <3>2. t \notin Range(queue[p][s])
      <4>1. \A i \in DOMAIN queue[p][s] : FALSE
        BY <3>1, EmptySeq
      <4> QED
        BY <4>1 DEF Range
    <3>3. InTable[s] = pending[s].queued
      BY <2>2 DEF InTable
    <3> QED
      BY <2>1, <2>2, <2>3, <2>5, <3>2, <3>3 DEF Alone, Fits
  <2> QED
    BY <2>4, <2>5
<1> QED
  BY Invariant, TypesHold, <1>1, <1>2, <1>3, PTL DEF Spec
=============================================================================
