----------------------------- MODULE SlotsProofs -----------------------------
(* The schedule of a day, for any requests, ranges and days, and the daily  *)
(* photo, for any schedules, photos, owners and crashes.                    *)
EXTENDS DailyPick, Schedule, FiniteSetTheorems, WellFoundedInduction, TLAPS

-----------------------------------------------------------------------------
(* Induction over the naturals and over lists, as a least counterexample.   *)

LEMMA LeastNat ==
  ASSUME NEW T, T \subseteq Nat, T # {}
  PROVE  \E x \in T : \A y \in T : x <= y
<1>1. PICK x \in T : \A y \in T : ~ (<<y, x>> \in OpToRel(<, Nat))
  BY NatLessThanWellFounded, WFMin
<1>2. \A y \in T : ~(y < x)
  BY <1>1 DEF OpToRel
<1> QED BY <1>2

LEMMA UpTo ==
  ASSUME NEW N \in Nat, NEW G, 0 \in G, \A n \in 1 .. N : n - 1 \in G => n \in G
  PROVE  0 .. N \subseteq G
<1> SUFFICES ASSUME (0 .. N) \ G # {} PROVE FALSE
  OBVIOUS
<1>0. (0 .. N) \ G \subseteq Nat
  OBVIOUS
<1>1. PICK n \in (0 .. N) \ G : \A m \in (0 .. N) \ G : n <= m
  BY <1>0, LeastNat
<1>2. n \in 1 .. N
  BY <1>1
<1>3. n - 1 \in G
  BY <1>1, <1>2
<1> QED BY <1>1, <1>2, <1>3

(* A loop over N elements that keeps to S has a value after each of them.  *)
Loop(S, a, N, d) == a \in S /\ N \in Nat /\ d \in [(1 .. N) \X S -> S]
Runs(S, a, N, d, f) ==
  f \in [0 .. N -> S] /\ f[0] = a /\ \A n \in 1 .. N : f[n] = d[<<n, f[n - 1]>>]

LEMMA LoopRuns ==
  ASSUME NEW S, NEW a, NEW N, NEW d, Loop(S, a, N, d)
  PROVE  \E f : Runs(S, a, N, d, f)
<1> USE DEF Loop
<1> DEFINE Up(m, f) == \A n \in 0 .. m : f[n] = IF n = 0 THEN a ELSE d[<<n, f[n - 1]>>]
           Good == {m \in 0 .. N : \E f \in [0 .. m -> S] : Up(m, f)}
<1>1. 0 \in Good
  <2>1. [n \in 0 .. 0 |-> a] \in [0 .. 0 -> S] /\ Up(0, [n \in 0 .. 0 |-> a])
    OBVIOUS
  <2>2. \E f \in [0 .. 0 -> S] : Up(0, f)
    BY <2>1
  <2> QED BY <2>2
<1>2. ASSUME NEW m \in 1 .. N, m - 1 \in Good PROVE m \in Good
  <2>1. PICK f \in [0 .. (m - 1) -> S] : Up(m - 1, f)
    BY <1>2
  <2>2. f[m - 1] \in S /\ d[<<m, f[m - 1]>>] \in S
    BY <1>2
  <2> DEFINE g == [n \in 0 .. m |-> IF n = m THEN d[<<m, f[m - 1]>>] ELSE f[n]]
  <2>3. g \in [0 .. m -> S]
    BY <2>2
  <2>4. ASSUME NEW n \in 0 .. m PROVE g[n] = IF n = 0 THEN a ELSE d[<<n, g[n - 1]>>]
    <3>1. CASE n = m
      <4>1. m - 1 \in 0 .. m /\ g[m - 1] = f[m - 1] /\ m # 0
        OBVIOUS
      <4> QED BY <3>1, <4>1
    <3>2. CASE n # m
      <4>1. n \in 0 .. (m - 1) /\ (n # 0 => n - 1 \in 0 .. m /\ n - 1 # m)
        BY <3>2
      <4>2. g[n] = f[n] /\ (n # 0 => g[n - 1] = f[n - 1])
        BY <3>2, <4>1
      <4> QED BY <2>1, <4>1, <4>2
    <3> QED BY <3>1, <3>2
  <2>5. Up(m, g)
    BY <2>4
  <2> HIDE DEF g
  <2> QED BY <2>3, <2>5
<1> HIDE DEF Good
<1>3. N \in Good
  BY <1>1, <1>2, UpTo
<1>4. PICK f \in [0 .. N -> S] : Up(N, f)
  BY <1>3 DEF Good
<1>5. f[0] = a
  <2>1. 0 \in 0 .. N
    OBVIOUS
  <2>2. \A n \in 0 .. N : f[n] = IF n = 0 THEN a ELSE d[<<n, f[n - 1]>>]
    BY <1>4
  <2>3. f[0] = IF 0 = 0 THEN a ELSE d[<<0, f[0 - 1]>>]
    BY <2>1, <2>2
  <2> QED BY <2>3
<1>6. \A n \in 1 .. N : f[n] = d[<<n, f[n - 1]>>]
  <2> SUFFICES ASSUME NEW n \in 1 .. N PROVE f[n] = d[<<n, f[n - 1]>>]
    OBVIOUS
  <2>1. n \in 0 .. N /\ n # 0
    OBVIOUS
  <2> QED BY <1>4, <2>1
<1> QED BY <1>5, <1>6 DEF Runs

-----------------------------------------------------------------------------
(* Lists of entries.                                                        *)

Entries(s) == {s[i] : i \in DOMAIN s}
Ascending(s) == \A i, j \in DOMAIN s : i < j => s[i].start <= s[j].start
Rising(s) == \A i, j \in DOMAIN s : i < j => s[i].start < s[j].start
Timed(E) == \A e \in E : e.start \in Int

LEMMA SeqFacts ==
  ASSUME NEW E, NEW s \in Seq(E)
  PROVE  /\ Len(s) \in Nat /\ DOMAIN s = 1 .. Len(s)
         /\ \A i \in 1 .. Len(s) : s[i] \in E
         /\ s # <<>> <=> Len(s) > 0
OBVIOUS

LEMMA AsSeq ==
  ASSUME NEW E, NEW n \in Nat, NEW s, DOMAIN s = 1 .. n, s = [i \in 1 .. n |-> s[i]],
         \A i \in 1 .. n : s[i] \in E
  PROVE  s \in Seq(E) /\ Len(s) = n
OBVIOUS

(* Where an entry is inserted.                                             *)
LEMMA InsertPlace ==
  ASSUME NEW E, Timed(E), NEW s \in Seq(E), Ascending(s), NEW x \in E
  PROVE  \E k \in 0 .. Len(s) : \A i \in DOMAIN s : s[i].start <= x.start <=> i <= k
<1> DEFINE T == {k \in 0 .. Len(s) : \A i \in DOMAIN s : s[i].start <= x.start => i <= k}
<1>1. T \subseteq Nat /\ Len(s) \in T
  BY SeqFacts
<1>2. PICK k \in T : \A m \in T : k <= m
  BY <1>1, LeastNat
<1>3. ASSUME NEW i \in DOMAIN s, i <= k PROVE s[i].start <= x.start
  <2>1. i \in 1 .. Len(s) /\ k \in 1 .. Len(s) /\ k - 1 \in 0 .. Len(s) /\ k - 1 \notin T
    BY <1>2, <1>3, SeqFacts
  <2>2. PICK j \in DOMAIN s : s[j].start <= x.start /\ ~(j <= k - 1)
    BY <2>1
  <2>3. j <= k /\ j \in Nat
    BY <2>2, <1>2, SeqFacts
  <2>4. j = k
    BY <2>1, <2>2, <2>3
  <2>5. s[i].start <= s[k].start
    BY <1>3, <2>1, <2>4, SeqFacts DEF Ascending, Timed
  <2> QED BY <2>1, <2>2, <2>4, <2>5, SeqFacts DEF Timed
<1> QED BY <1>2, <1>3

LEMMA InsertSorted ==
  ASSUME NEW E, Timed(E), NEW s \in Seq(E), Ascending(s), NEW x \in E
  PROVE  /\ Insert(s, x) \in Seq(E) /\ Len(Insert(s, x)) = Len(s) + 1
         /\ Ascending(Insert(s, x))
         /\ Entries(Insert(s, x)) = Entries(s) \cup {x}
<1> DEFINE P(k) == \A i \in DOMAIN s : s[i].start <= x.start <=> i <= k
           k == CHOOSE k \in 0 .. Len(s) : P(k)
           r == [i \in 1 .. Len(s) + 1 |->
                   IF i <= k THEN s[i] ELSE IF i = k + 1 THEN x ELSE s[i - 1]]
<1>1. k \in 0 .. Len(s) /\ P(k)
  BY InsertPlace
<1>2. Insert(s, x) = r
  BY DEF Insert
<1> HIDE DEF k
<1>3. r \in Seq(E) /\ Len(r) = Len(s) + 1 /\ DOMAIN r = 1 .. Len(s) + 1
  BY <1>1, SeqFacts
<1>4. Ascending(r)
  <2> SUFFICES ASSUME NEW i \in 1 .. Len(s) + 1, NEW j \in 1 .. Len(s) + 1, i < j
               PROVE  r[i].start <= r[j].start
    BY <1>3 DEF Ascending
  <2> QED BY <1>1, SeqFacts DEF Ascending, Timed
<1>5. Entries(r) = Entries(s) \cup {x}
  <2>1. ASSUME NEW i \in 1 .. Len(s) + 1 PROVE r[i] \in Entries(s) \cup {x}
    BY <1>1, SeqFacts DEF Entries
  <2>2. ASSUME NEW i \in 1 .. Len(s) PROVE \E j \in 1 .. Len(s) + 1 : r[j] = s[i]
    <3>1. CASE i <= k
      <4>1. i \in 1 .. Len(s) + 1 /\ r[i] = s[i]
        BY <3>1
      <4> QED BY <4>1
    <3>2. CASE i > k
      <4>1. i + 1 \in 1 .. Len(s) + 1 /\ r[i + 1] = s[i]
        BY <1>1, <3>2, SeqFacts
      <4> QED BY <4>1
    <3> QED BY <1>1, <3>1, <3>2, SeqFacts
  <2>3. k + 1 \in 1 .. Len(s) + 1 /\ r[k + 1] = x
    BY <1>1, SeqFacts
  <2> HIDE DEF r
  <2> QED BY <1>3, <2>1, <2>2, <2>3, SeqFacts DEF Entries
<1> QED BY <1>2, <1>3, <1>4, <1>5

LEMMA SortRuns ==
  ASSUME NEW E, Timed(E), NEW s \in Seq(E), NEW N \in Nat, N = Len(s)
  PROVE  \E f : f = [n \in 0 .. N |-> IF n = 0 THEN <<>> ELSE Insert(f[n - 1], s[n])]
<1> DEFINE S == {t \in Seq(E) : Ascending(t)}
           d == [p \in (1 .. N) \X S |-> Insert(p[2], s[p[1]])]
<1>1. d \in [(1 .. N) \X S -> S]
  BY InsertSorted, SeqFacts
<1>2. <<>> \in S
  BY DEF Ascending
<1>3. \A n \in 1 .. N, t \in S : d[<<n, t>>] = Insert(t, s[n])
  OBVIOUS
<1> HIDE DEF S, d
<1>4. Loop(S, <<>>, N, d)
  BY <1>1, <1>2 DEF Loop
<1>5. PICK f : Runs(S, <<>>, N, d, f)
  BY <1>4, LoopRuns
<1>6. ASSUME NEW n \in 1 .. N PROVE f[n] = Insert(f[n - 1], s[n])
  <2>1. f[n] = d[<<n, f[n - 1]>>]
    BY <1>5 DEF Runs
  <2>2. f[n - 1] \in S
    BY <1>5 DEF Runs
  <2> QED BY <1>3, <2>1, <2>2
<1>7. f = [n \in 0 .. N |-> IF n = 0 THEN <<>> ELSE Insert(f[n - 1], s[n])]
  BY <1>5, <1>6 DEF Runs
<1> QED BY <1>7

LEMMA SortRun ==
  ASSUME NEW E, Timed(E), NEW s \in Seq(E), NEW N \in Nat, N = Len(s), NEW g,
         g = [n \in 0 .. N |-> IF n = 0 THEN <<>> ELSE Insert(g[n - 1], s[n])]
  PROVE  /\ g[N] \in Seq(E) /\ Len(g[N]) = N
         /\ Ascending(g[N])
         /\ Entries(g[N]) = Entries(s)
<1> DEFINE Sofar(n) == {s[i] : i \in 1 .. n}
           G == {n \in 0 .. N : g[n] \in Seq(E) /\ Len(g[n]) = n /\ Ascending(g[n]) /\ Entries(g[n]) = Sofar(n)}
<1>1. 0 \in G
  <2>1. g[0] = <<>>
    OBVIOUS
  <2> QED BY <2>1 DEF Entries, Ascending
<1>2. ASSUME NEW n \in 1 .. N, n - 1 \in G PROVE n \in G
  <2>1. g[n] = Insert(g[n - 1], s[n])
    OBVIOUS
  <2>2. g[n - 1] \in Seq(E) /\ Ascending(g[n - 1]) /\ s[n] \in E /\ Len(g[n - 1]) = n - 1
    BY <1>2, SeqFacts
  <2>3. /\ g[n] \in Seq(E) /\ Len(g[n]) = Len(g[n - 1]) + 1 /\ Ascending(g[n])
        /\ Entries(g[n]) = Entries(g[n - 1]) \cup {s[n]}
    BY <2>1, <2>2, InsertSorted
  <2>4. Sofar(n) = Sofar(n - 1) \cup {s[n]}
    OBVIOUS
  <2>5. Entries(g[n - 1]) = Sofar(n - 1)
    BY <1>2
  <2> HIDE DEF Sofar
  <2>6. Entries(g[n]) = Sofar(n)
    BY <2>3, <2>4, <2>5
  <2>7. Len(g[n]) = n
    BY <2>2, <2>3
  <2> QED BY <2>3, <2>6, <2>7
<1> HIDE DEF G
<1>3. 0 .. N \subseteq G
  BY <1>1, <1>2, UpTo
<1>4. N \in G
  BY <1>3
<1> QED BY <1>4, SeqFacts DEF G, Entries

LEMMA Sorted ==
  ASSUME NEW E, Timed(E), NEW s \in Seq(E)
  PROVE  /\ ByStart(s) \in Seq(E) /\ Len(ByStart(s)) = Len(s)
         /\ Ascending(ByStart(s))
         /\ Entries(ByStart(s)) = Entries(s)
<1> DEFINE g == CHOOSE f : f = [n \in 0 .. Len(s) |-> IF n = 0 THEN <<>> ELSE Insert(f[n - 1], s[n])]
<1>1. g = [n \in 0 .. Len(s) |-> IF n = 0 THEN <<>> ELSE Insert(g[n - 1], s[n])]
  BY SortRuns, SeqFacts
<1>2. ByStart(s) = g[Len(s)]
  BY DEF ByStart
<1> HIDE DEF g
<1>3. Len(s) \in Nat
  BY SeqFacts
<1>4. g[Len(s)] \in Seq(E) /\ Len(g[Len(s)]) = Len(s) /\ Ascending(g[Len(s)]) /\ Entries(g[Len(s)]) = Entries(s)
  BY <1>1, <1>3, SortRun, ZenonT(60)
<1> QED BY <1>2, <1>4

-----------------------------------------------------------------------------
(* The segments of a day.                                                   *)

Labels == {NoLabel} \cup {x.module : x \in Items} \cup {x.category : x \in Items}
Segs ==
  {x \in [start : 0 .. Day - 1, type : Types, module : Labels, category : Labels] :
     /\ x.type # "free" => x.module = NoLabel
     /\ x.type # "photo" => x.category = NoLabel}

LEMMA SegsTimed == Timed(Segs)
BY DayAssumption DEF Segs, Timed

LEMMA SameEquivalence ==
  /\ \A a : Same(a, a)
  /\ \A a, b : Same(a, b) => Same(b, a)
  /\ \A a, b, c : Same(a, b) /\ Same(b, c) => Same(a, c)
BY DEF Same

(* Entry i is what the list shows at m.                                     *)
ShowsAt(s, i, m) ==
  i \in DOMAIN s /\ s[i].start <= m /\ \A j \in DOMAIN s : i < j => m < s[j].start

(* What a loop over an ascending list s has after n of its entries, if it   *)
(* keeps the first of entries that look alike.                              *)
Merged(s, n, r) ==
  /\ r \in Seq(Segs) /\ Entries(r) \subseteq Entries(s)
  /\ n = 0 <=> r = <<>>
  /\ n > 0 => r[1] = s[1] /\ Same(r[Len(r)], s[n]) /\ r[Len(r)].start <= s[n].start
  /\ Ascending(r)
  /\ \A i \in 1 .. Len(r) - 1 : ~Same(r[i], r[i + 1])
  /\ \A m \in Int : \A i \in 1 .. n :
       s[i].start <= m /\ (\A j \in i + 1 .. n : m < s[j].start)
         => \E k \in DOMAIN r : ShowsAt(r, k, m) /\ Same(r[k], s[i])

LEMMA MergedDrop ==
  ASSUME NEW s \in Seq(Segs), Ascending(s), NEW n \in 1 .. Len(s), NEW r, Merged(s, n - 1, r),
         r # <<>>, Same(Last(r), s[n])
  PROVE  Merged(s, n, r)
<1>1. /\ r \in Seq(Segs) /\ Len(r) \in 1 .. Len(r) /\ DOMAIN r = 1 .. Len(r) /\ n > 1
      /\ r[Len(r)].start <= s[n - 1].start /\ \A i \in 1 .. Len(s) : s[i].start \in Int
      /\ s[n - 1].start <= s[n].start /\ \A i \in 1 .. Len(r) : r[i].start \in Int
  BY SegsTimed, SeqFacts DEF Merged, Ascending, Timed
<1>2. Same(r[Len(r)], s[n]) /\ r[Len(r)].start <= s[n].start
  BY <1>1 DEF Last
<1>3. ASSUME NEW m \in Int, NEW i \in 1 .. n, s[i].start <= m, \A j \in i + 1 .. n : m < s[j].start
      PROVE  \E k \in DOMAIN r : ShowsAt(r, k, m) /\ Same(r[k], s[i])
  <2>1. CASE i = n
    <3>1. ShowsAt(r, Len(r), m)
      BY <1>1, <1>2, <1>3, <2>1 DEF ShowsAt
    <3> QED BY <1>1, <1>2, <2>1, <3>1
  <2>2. CASE i < n
    <3>1. i \in 1 .. (n - 1) /\ \A j \in i + 1 .. (n - 1) : m < s[j].start
      BY <1>3, <2>2
    <3> QED BY <1>3, <3>1 DEF Merged
  <2> QED BY <2>1, <2>2
<1> QED BY <1>1, <1>2, <1>3 DEF Merged

LEMMA MergedAppend ==
  ASSUME NEW s \in Seq(Segs), Ascending(s), NEW n \in 1 .. Len(s), NEW r, Merged(s, n - 1, r),
         ~(r # <<>> /\ Same(Last(r), s[n]))
  PROVE  Merged(s, n, Append(r, s[n]))
<1> DEFINE q == Append(r, s[n])
<1>1. /\ r \in Seq(Segs) /\ Len(r) \in Nat /\ DOMAIN r = 1 .. Len(r) /\ s[n] \in Segs
      /\ \A i \in 1 .. Len(s) : s[i].start \in Int
      /\ \A i \in 1 .. Len(r) : r[i].start \in Int
  BY SegsTimed, SeqFacts DEF Merged, Timed
<1>2. /\ q \in Seq(Segs) /\ Len(q) = Len(r) + 1 /\ DOMAIN q = 1 .. Len(r) + 1
      /\ q[Len(r) + 1] = s[n] /\ \A i \in 1 .. Len(r) : q[i] = r[i]
  BY <1>1
<1> HIDE DEF q
<1>3. Entries(q) \subseteq Entries(s)
  <2>1. ASSUME NEW i \in 1 .. Len(r) + 1 PROVE q[i] \in Entries(s)
    <3>1. CASE i = Len(r) + 1
      BY <1>2, <3>1, SeqFacts DEF Entries
    <3>2. CASE i \in 1 .. Len(r)
      <4>1. r[i] \in Entries(r)
        BY <1>1, <3>2 DEF Entries
      <4> QED BY <1>2, <3>2, <4>1 DEF Merged
    <3> QED BY <1>1, <3>1, <3>2
  <2> QED BY <1>2, <2>1 DEF Entries
<1>4. \A i \in 1 .. Len(r) : r[i].start <= s[n].start
  <2>1. ASSUME NEW i \in 1 .. Len(r) PROVE r[i].start <= s[n].start
    <3>1. n > 1
      BY <1>1, <2>1 DEF Merged
    <3>2. r[i].start <= r[Len(r)].start
      BY <1>1, <2>1 DEF Merged, Ascending
    <3>3. r[Len(r)].start <= s[n - 1].start
      BY <3>1 DEF Merged
    <3>4. s[n - 1].start <= s[n].start
      BY <3>1, SeqFacts DEF Ascending
    <3> QED BY <1>1, <2>1, <3>1, <3>2, <3>3, <3>4
  <2> QED BY <2>1
<1>5. Ascending(q)
  <2> SUFFICES ASSUME NEW i \in 1 .. Len(r) + 1, NEW j \in 1 .. Len(r) + 1, i < j
               PROVE  q[i].start <= q[j].start
    BY <1>2 DEF Ascending
  <2>1. i \in 1 .. Len(r)
    BY <1>1
  <2>2. CASE j = Len(r) + 1
    BY <1>2, <1>4, <2>1, <2>2
  <2>3. CASE j \in 1 .. Len(r)
    BY <1>1, <1>2, <2>1, <2>3 DEF Merged, Ascending
  <2>4. Len(r) \in Nat
    BY <1>1
  <2>5. j = Len(r) + 1 \/ j \in 1 .. Len(r)
    BY <2>4
  <2> QED BY <2>2, <2>3, <2>5
<1>6. q[1] = s[1]
  <2>1. CASE n = 1
    <3>1. Len(r) = 0
      BY <2>1 DEF Merged
    <3> QED BY <1>2, <2>1, <3>1
  <2>2. CASE n > 1
    <3>1. 1 \in 1 .. Len(r) /\ r[1] = s[1]
      BY <1>1, <2>2 DEF Merged
    <3> QED BY <1>2, <3>1
  <2> QED BY <2>1, <2>2
<1>7. ASSUME NEW i \in 1 .. Len(q) - 1 PROVE ~Same(q[i], q[i + 1])
  <2>1. CASE i = Len(r)
    BY <1>1, <1>2, <1>7, <2>1 DEF Last
  <2>2. CASE i \in 1 .. Len(r) - 1
    <3>1. i \in 1 .. Len(r) /\ i + 1 \in 1 .. Len(r)
      BY <1>1, <2>2
    <3>2. ~Same(r[i], r[i + 1])
      BY <2>2 DEF Merged
    <3> QED BY <1>2, <3>1, <3>2
  <2>3. Len(r) \in Nat /\ Len(q) = Len(r) + 1
    BY <1>1, <1>2
  <2>4. i = Len(r) \/ i \in 1 .. Len(r) - 1
    BY <2>3
  <2> QED BY <2>1, <2>2, <2>4
<1>8. ASSUME NEW m \in Int, NEW i \in 1 .. n, s[i].start <= m, \A j \in i + 1 .. n : m < s[j].start
      PROVE  \E k \in DOMAIN q : ShowsAt(q, k, m) /\ Same(q[k], s[i])
  <2>1. CASE i = n
    <3>1. ShowsAt(q, Len(r) + 1, m)
      BY <1>1, <1>2, <1>8, <2>1 DEF ShowsAt
    <3> QED BY <1>1, <1>2, <2>1, <3>1, SameEquivalence
  <2>2. CASE i < n
    <3>1. i \in 1 .. (n - 1) /\ (\A j \in i + 1 .. (n - 1) : m < s[j].start) /\ m < s[n].start
      BY <1>8, <2>2
    <3>2. PICK k \in DOMAIN r : ShowsAt(r, k, m) /\ Same(r[k], s[i])
      BY <1>8, <3>1 DEF Merged
    <3>3. k \in 1 .. Len(r) /\ k \in DOMAIN q /\ q[k] = r[k] /\ r[k].start <= m
      BY <1>1, <1>2, <3>2 DEF ShowsAt
    <3>4. ASSUME NEW j \in 1 .. Len(r) + 1, k < j PROVE m < q[j].start
      <4>1. j \in 1 .. Len(r) \/ j = Len(r) + 1
        BY <1>1
      <4> QED BY <1>1, <1>2, <3>1, <3>2, <3>4, <4>1 DEF ShowsAt
    <3>5. ShowsAt(q, k, m)
      BY <1>2, <3>3, <3>4 DEF ShowsAt
    <3> QED BY <3>2, <3>3, <3>5
  <2> QED BY <2>1, <2>2
<1>9. q # <<>> /\ n > 0
  BY <1>1, <1>2
<1>10. Same(q[Len(q)], s[n]) /\ q[Len(q)].start <= s[n].start
  BY <1>1, <1>2, SameEquivalence
<1>11. Merged(s, n, q)
  BY <1>2, <1>3, <1>5, <1>6, <1>7, <1>8, <1>9, <1>10 DEF Merged
<1> QED BY <1>11 DEF q

MergeStep(t, x) == IF t # <<>> /\ Same(Last(t), x) THEN t ELSE Append(t, x)

LEMMA MergeRuns ==
  ASSUME NEW s \in Seq(Segs)
  PROVE  \E f : f = [n \in 0 .. Len(s) |-> IF n = 0 THEN <<>> ELSE MergeStep(f[n - 1], s[n])]
<1> DEFINE S == Seq(Segs)
           N == Len(s)
           d == [p \in (1 .. N) \X S |-> MergeStep(p[2], s[p[1]])]
<1>0. N \in Nat /\ \A n \in 1 .. N : s[n] \in Segs
  BY SeqFacts
<1>1. d \in [(1 .. N) \X S -> S]
  BY <1>0 DEF MergeStep
<1>2. \A n \in 1 .. N, t \in S : d[<<n, t>>] = MergeStep(t, s[n])
  OBVIOUS
<1>3. <<>> \in S
  OBVIOUS
<1> HIDE DEF S, N, d
<1>4. Loop(S, <<>>, N, d)
  BY <1>0, <1>1, <1>3 DEF Loop
<1>5. PICK f : Runs(S, <<>>, N, d, f)
  BY <1>4, LoopRuns
<1>6. ASSUME NEW n \in 1 .. N PROVE f[n] = MergeStep(f[n - 1], s[n])
  <2>1. f[n] = d[<<n, f[n - 1]>>]
    BY <1>5 DEF Runs
  <2>2. f[n - 1] \in S
    BY <1>0, <1>5 DEF Runs
  <2> QED BY <1>2, <2>1, <2>2
<1>7. f = [n \in 0 .. N |-> IF n = 0 THEN <<>> ELSE MergeStep(f[n - 1], s[n])]
  BY <1>0, <1>5, <1>6 DEF Runs
<1> QED BY <1>7 DEF N

LEMMA MergeRun ==
  ASSUME NEW s \in Seq(Segs), Ascending(s), NEW g,
         g = [n \in 0 .. Len(s) |-> IF n = 0 THEN <<>> ELSE MergeStep(g[n - 1], s[n])]
  PROVE  Merged(s, Len(s), g[Len(s)])
<1> DEFINE G == {n \in 0 .. Len(s) : Merged(s, n, g[n])}
<1>0. Len(s) \in Nat
  BY SeqFacts
<1>1. 0 \in G
  <2>1. g[0] = <<>>
    BY <1>0
  <2>2. Merged(s, 0, <<>>)
    BY DEF Merged, Entries, Ascending
  <2> QED BY <1>0, <2>1, <2>2
<1>2. ASSUME NEW n \in 1 .. Len(s), n - 1 \in G PROVE n \in G
  <2>1. g[n] = MergeStep(g[n - 1], s[n])
    BY <1>0
  <2>2. Merged(s, n - 1, g[n - 1])
    BY <1>2
  <2>3. Merged(s, n, g[n])
    BY <2>1, <2>2, MergedDrop, MergedAppend DEF MergeStep
  <2> QED BY <1>0, <2>3
<1> HIDE DEF G
<1>3. 0 .. Len(s) \subseteq G
  BY <1>0, <1>1, <1>2, UpTo
<1> QED BY <1>0, <1>3 DEF G

LEMMA Merges ==
  ASSUME NEW s \in Seq(Segs), Ascending(s)
  PROVE  Merged(s, Len(s), MergeAdjacent(s))
<1> DEFINE g == CHOOSE f : f = [n \in 0 .. Len(s) |-> IF n = 0 THEN <<>> ELSE MergeStep(f[n - 1], s[n])]
<1>1. g = [n \in 0 .. Len(s) |-> IF n = 0 THEN <<>> ELSE MergeStep(g[n - 1], s[n])]
  BY MergeRuns
<1>2. MergeAdjacent(s) = g[Len(s)]
  BY DEF MergeAdjacent, Thin, MergeStep
<1> HIDE DEF g
<1>3. Merged(s, Len(s), g[Len(s)])
  BY <1>1, MergeRun
<1> QED BY <1>2, <1>3

-----------------------------------------------------------------------------
(* Starts that do not ascend are left out; a list that rises stays as it is. *)

Raised(s, n, r) ==
  /\ r \in Seq(Segs) /\ Rising(r)
  /\ n = 0 <=> r = <<>>
  /\ n > 0 => r[1] = s[1]
  /\ Rising(s) => Len(r) = n /\ \A i \in 1 .. n : r[i] = s[i]

RiseStep(t, x) == IF t # <<>> /\ NotLater(Last(t), x) THEN t ELSE Append(t, x)

LEMMA RiseRuns ==
  ASSUME NEW s \in Seq(Segs)
  PROVE  \E f : f = [n \in 0 .. Len(s) |-> IF n = 0 THEN <<>> ELSE RiseStep(f[n - 1], s[n])]
<1> DEFINE S == Seq(Segs)
           N == Len(s)
           d == [p \in (1 .. N) \X S |-> RiseStep(p[2], s[p[1]])]
<1>0. N \in Nat /\ \A n \in 1 .. N : s[n] \in Segs
  BY SeqFacts
<1>1. d \in [(1 .. N) \X S -> S]
  BY <1>0 DEF RiseStep
<1>2. \A n \in 1 .. N, t \in S : d[<<n, t>>] = RiseStep(t, s[n])
  OBVIOUS
<1>3. <<>> \in S
  OBVIOUS
<1> HIDE DEF S, N, d
<1>4. Loop(S, <<>>, N, d)
  BY <1>0, <1>1, <1>3 DEF Loop
<1>5. PICK f : Runs(S, <<>>, N, d, f)
  BY <1>4, LoopRuns
<1>6. ASSUME NEW n \in 1 .. N PROVE f[n] = RiseStep(f[n - 1], s[n])
  <2>1. f[n] = d[<<n, f[n - 1]>>]
    BY <1>5 DEF Runs
  <2>2. f[n - 1] \in S
    BY <1>0, <1>5 DEF Runs
  <2> QED BY <1>2, <2>1, <2>2
<1>7. f = [n \in 0 .. N |-> IF n = 0 THEN <<>> ELSE RiseStep(f[n - 1], s[n])]
  BY <1>0, <1>5, <1>6 DEF Runs
<1> QED BY <1>7 DEF N

LEMMA RaisedStep ==
  ASSUME NEW s \in Seq(Segs), NEW n \in 1 .. Len(s), NEW r, Raised(s, n - 1, r)
  PROVE  Raised(s, n, RiseStep(r, s[n]))
<1>1. /\ r \in Seq(Segs) /\ Len(r) \in Nat /\ DOMAIN r = 1 .. Len(r) /\ s[n] \in Segs
      /\ \A i \in 1 .. Len(s) : s[i].start \in Int
      /\ \A i \in 1 .. Len(r) : r[i].start \in Int
  BY SegsTimed, SeqFacts DEF Raised, Timed
<1>2. CASE r # <<>> /\ NotLater(Last(r), s[n])
  <2>1. n > 1 /\ ~Rising(s)
    <3>1. n > 1
      BY <1>2 DEF Raised
    <3>2. ASSUME Rising(s) PROVE FALSE
      <4>1. Len(r) = n - 1 /\ Last(r) = s[n - 1]
        BY <3>1, <3>2, <1>1 DEF Raised, Last
      <4>2. s[n - 1].start < s[n].start
        BY <3>1, <3>2, SeqFacts DEF Rising
      <4> QED BY <1>1, <1>2, <3>1, <4>1, <4>2 DEF NotLater
    <3> QED BY <3>1, <3>2
  <2> QED BY <1>2, <2>1 DEF Raised, RiseStep
<1>3. CASE ~(r # <<>> /\ NotLater(Last(r), s[n]))
  <2> DEFINE q == Append(r, s[n])
  <2>1. /\ q \in Seq(Segs) /\ Len(q) = Len(r) + 1 /\ DOMAIN q = 1 .. Len(r) + 1
        /\ q[Len(r) + 1] = s[n] /\ \A i \in 1 .. Len(r) : q[i] = r[i]
    BY <1>1
  <2> HIDE DEF q
  <2>0. q # <<>> /\ \A i, j \in 1 .. Len(r) : i < j => r[i].start < r[j].start
    <3>1. q # <<>>
      BY <1>1, <2>1
    <3>2. \A i, j \in 1 .. Len(r) : i < j => r[i].start < r[j].start
      BY <1>1 DEF Raised, Rising
    <3> QED BY <3>1, <3>2
  <2>2. Rising(q)
    <3> SUFFICES ASSUME NEW i \in 1 .. Len(r) + 1, NEW j \in 1 .. Len(r) + 1, i < j
                 PROVE  q[i].start < q[j].start
      BY <2>1 DEF Rising
    <3>1. i \in 1 .. Len(r) /\ r[i].start \in Int /\ r[Len(r)].start \in Int /\ Len(r) \in 1 .. Len(r)
      BY <1>1
    <3>2. CASE j = Len(r) + 1
      <4>1. r[i].start <= r[Len(r)].start
        BY <2>0, <3>1
      <4>2. r[Len(r)].start < s[n].start
        BY <1>1, <1>3, <3>1 DEF NotLater, Last
      <4> QED BY <1>1, <2>1, <3>1, <3>2, <4>1, <4>2
    <3>3. CASE j \in 1 .. Len(r)
      BY <2>0, <2>1, <3>1, <3>3
    <3>4. Len(r) \in Nat
      BY <1>1
    <3>5. j = Len(r) + 1 \/ j \in 1 .. Len(r)
      BY <3>4
    <3> QED BY <3>2, <3>3, <3>5
  <2>3. q[1] = s[1]
    <3>1. CASE n = 1
      BY <2>1, <3>1 DEF Raised
    <3>2. CASE n > 1
      <4>1. 1 \in 1 .. Len(r) /\ r[1] = s[1]
        BY <1>1, <3>2 DEF Raised
      <4> QED BY <2>1, <4>1
    <3> QED BY <3>1, <3>2
  <2>4. ASSUME Rising(s) PROVE Len(q) = n /\ \A i \in 1 .. n : q[i] = s[i]
    BY <1>1, <2>1, <2>4 DEF Raised
  <2>5. Raised(s, n, q)
    BY <2>0, <2>1, <2>2, <2>3, <2>4 DEF Raised
  <2> QED BY <1>3, <2>5 DEF RiseStep, q
<1> QED BY <1>2, <1>3

LEMMA RiseRun ==
  ASSUME NEW s \in Seq(Segs), NEW g,
         g = [n \in 0 .. Len(s) |-> IF n = 0 THEN <<>> ELSE RiseStep(g[n - 1], s[n])]
  PROVE  Raised(s, Len(s), g[Len(s)])
<1> DEFINE G == {n \in 0 .. Len(s) : Raised(s, n, g[n])}
<1>0. Len(s) \in Nat
  BY SeqFacts
<1>1. 0 \in G
  <2>1. g[0] = <<>>
    BY <1>0
  <2>2. Raised(s, 0, <<>>)
    BY DEF Raised, Rising
  <2> QED BY <1>0, <2>1, <2>2
<1>2. ASSUME NEW n \in 1 .. Len(s), n - 1 \in G PROVE n \in G
  <2>1. g[n] = RiseStep(g[n - 1], s[n])
    BY <1>0
  <2>2. Raised(s, n - 1, g[n - 1])
    BY <1>2
  <2>3. Raised(s, n, g[n])
    BY <2>1, <2>2, RaisedStep
  <2> QED BY <1>0, <2>3
<1> HIDE DEF G
<1>3. 0 .. Len(s) \subseteq G
  BY <1>0, <1>1, <1>2, UpTo
<1> QED BY <1>0, <1>3 DEF G

LEMMA Raises ==
  ASSUME NEW s \in Seq(Segs)
  PROVE  Raised(s, Len(s), Increasing(s))
<1> DEFINE g == CHOOSE f : f = [n \in 0 .. Len(s) |-> IF n = 0 THEN <<>> ELSE RiseStep(f[n - 1], s[n])]
<1>1. g = [n \in 0 .. Len(s) |-> IF n = 0 THEN <<>> ELSE RiseStep(g[n - 1], s[n])]
  BY RiseRuns
<1>2. Increasing(s) = g[Len(s)]
  BY DEF Increasing, Thin, RiseStep
<1> HIDE DEF g
<1>3. Raised(s, Len(s), g[Len(s)])
  BY <1>1, RiseRun
<1> QED BY <1>2, <1>3

-----------------------------------------------------------------------------
(* canonicalize.                                                            *)

(* A schedule: from midnight on, rising.                                    *)
Well(c) == c \in Seq(Segs) /\ c # <<>> /\ c[1].start = 0 /\ Rising(c)

(* Neighbours differ.                                                       *)
Apart(c) == \A i \in 1 .. Len(c) - 1 : ~Same(c[i], c[i + 1])

(* Each start once.                                                         *)
Distinct(raw) == \A i, j \in DOMAIN raw : raw[i].start = raw[j].start => raw[i] = raw[j]

Normals(raw) == [i \in DOMAIN raw |-> Normal(raw[i])]

LEMMA SegsFacts ==
  ASSUME NEW s \in Seq(Segs)
  PROVE  /\ Len(s) \in Nat /\ DOMAIN s = 1 .. Len(s)
         /\ s # <<>> <=> Len(s) > 0
         /\ \A i \in 1 .. Len(s) : s[i] \in Segs /\ s[i].start \in 0 .. Day - 1
<1>1. \A x \in Segs : x.start \in 0 .. Day - 1
  BY DEF Segs
<1>2. \A i \in 1 .. Len(s) : s[i] \in Segs
  BY SeqFacts
<1> QED BY <1>1, <1>2, SeqFacts

LEMMA CutFacts ==
  ASSUME NEW s \in Seq(Segs), s # <<>>
  PROVE  LET c == CutAtMidnight(s) IN
         /\ c \in Seq(Segs) /\ c # <<>> /\ c[1].start = 0
         /\ s[1].start = 0 => c = s
         /\ s[1].start # 0 =>
              /\ Len(c) = Len(s) + 1 /\ Same(c[1], s[Len(s)])
              /\ \A i \in 1 .. Len(s) : c[i + 1] = s[i]
<1> DEFINE x == [s[Len(s)] EXCEPT !.start = 0]
           q == <<x>> \o s
<1>1. /\ Len(s) \in Nat /\ Len(s) \in 1 .. Len(s) /\ s[1] \in Segs /\ s[Len(s)] \in Segs
      /\ s[1].start \in 0 .. Day - 1
  BY SegsFacts
<1>2. x \in Segs /\ x.start = 0 /\ Same(x, s[Len(s)])
  BY <1>1, DayAssumption DEF Segs, Same
<1> HIDE DEF x
<1>3. /\ q \in Seq(Segs) /\ q # <<>> /\ Len(q) = Len(s) + 1 /\ q[1] = x
      /\ \A i \in 1 .. Len(s) : q[i + 1] = s[i]
  BY <1>1, <1>2
<1>4. CutAtMidnight(s) = IF s[1].start = 0 THEN s ELSE q
  BY <1>1 DEF CutAtMidnight, Last, x
<1> HIDE DEF q
<1> QED BY <1>2, <1>3, <1>4

LEMMA RisingAscends ==
  ASSUME NEW s \in Seq(Segs), Rising(s)
  PROVE  Ascending(s)
BY SegsTimed, SeqFacts DEF Rising, Ascending, Timed

LEMMA CutAscends ==
  ASSUME NEW s \in Seq(Segs), s # <<>>
  PROVE  /\ Ascending(s) => Ascending(CutAtMidnight(s))
         /\ Rising(s) => Rising(CutAtMidnight(s))
<1> DEFINE c == CutAtMidnight(s)
<1>1. CASE s[1].start = 0
  BY <1>1, CutFacts
<1>2. CASE s[1].start # 0
  <2>1. /\ Len(s) \in Nat /\ Len(s) > 0 /\ DOMAIN s = 1 .. Len(s)
        /\ \A i \in 1 .. Len(s) : s[i].start \in 0 .. Day - 1
    BY SegsFacts
  <2>2. /\ DOMAIN c = 1 .. Len(s) + 1 /\ c[1].start = 0
        /\ \A i \in 1 .. Len(s) : c[i + 1] = s[i]
    BY <1>2, <2>1, CutFacts, SeqFacts
  <2> HIDE DEF c
  <2>3. \A i \in 2 .. Len(s) + 1 : i - 1 \in 1 .. Len(s) /\ c[i] = s[i - 1]
    <3> SUFFICES ASSUME NEW i \in 2 .. Len(s) + 1 PROVE i - 1 \in 1 .. Len(s) /\ c[i] = s[i - 1]
      OBVIOUS
    <3>1. i - 1 \in 1 .. Len(s) /\ (i - 1) + 1 = i
      BY <2>1
    <3> QED BY <2>2, <3>1
  <2>4. ASSUME Ascending(s), NEW i \in 1 .. Len(s) + 1, NEW j \in 1 .. Len(s) + 1, i < j
        PROVE  c[i].start <= c[j].start
    <3>1. j \in 2 .. Len(s) + 1 /\ c[j] = s[j - 1] /\ j - 1 \in 1 .. Len(s)
      BY <2>1, <2>3, <2>4
    <3>2. CASE i = 1
      BY <2>1, <2>2, <3>1, <3>2, DayAssumption
    <3>3. CASE i > 1
      <4>1. c[i] = s[i - 1] /\ i - 1 \in 1 .. Len(s) /\ i - 1 < j - 1
        BY <2>1, <2>3, <2>4, <3>3
      <4> QED BY <2>1, <2>4, <3>1, <4>1 DEF Ascending
    <3> QED BY <3>2, <3>3
  <2>5. ASSUME Rising(s), NEW i \in 1 .. Len(s) + 1, NEW j \in 1 .. Len(s) + 1, i < j
        PROVE  c[i].start < c[j].start
    <3>1. j \in 2 .. Len(s) + 1 /\ c[j] = s[j - 1] /\ j - 1 \in 1 .. Len(s)
      BY <2>1, <2>3, <2>5
    <3>2. CASE i = 1
      <4>1. s[1].start <= s[j - 1].start /\ s[1].start > 0
        BY <1>2, <2>1, <2>5, <3>1, DayAssumption DEF Rising
      <4> QED BY <2>1, <2>2, <3>1, <3>2, <4>1, DayAssumption
    <3>3. CASE i > 1
      <4>1. c[i] = s[i - 1] /\ i - 1 \in 1 .. Len(s) /\ i - 1 < j - 1
        BY <2>1, <2>3, <2>5, <3>3
      <4> QED BY <2>1, <2>5, <3>1, <4>1 DEF Rising
    <3> QED BY <3>2, <3>3
  <2> QED BY <2>2, <2>4, <2>5 DEF Ascending, Rising, c
<1> QED BY <1>1, <1>2

LEMMA CanonicalWell ==
  ASSUME NEW raw, Normals(raw) \in Seq(Segs), Normals(raw) # <<>>
  PROVE  Well(Canonicalize(raw))
<1> DEFINE s == ByStart(Normals(raw))
           r == MergeAdjacent(s)
           q == CutAtMidnight(r)
           p == MergeAdjacent(q)
           c == Increasing(p)
<1>1. s \in Seq(Segs) /\ Ascending(s) /\ Len(s) \in Nat /\ Len(s) > 0
  BY Sorted, SegsTimed, SeqFacts
<1>2. Canonicalize(raw) = c
  BY DEF Canonicalize, Normals
<1> HIDE DEF s
<1>3. r \in Seq(Segs) /\ r # <<>> /\ Ascending(r)
  BY <1>1, Merges DEF Merged
<1> HIDE DEF r
<1>4. q \in Seq(Segs) /\ q # <<>> /\ q[1].start = 0 /\ Ascending(q) /\ Len(q) \in Nat /\ Len(q) > 0
  BY <1>3, CutFacts, CutAscends, SeqFacts
<1> HIDE DEF q
<1>5. p \in Seq(Segs) /\ p # <<>> /\ p[1].start = 0 /\ Len(p) \in Nat /\ Len(p) > 0
  BY <1>4, Merges, SeqFacts DEF Merged
<1> HIDE DEF p
<1>6. Well(c)
  BY <1>5, Raises DEF Raised, Well
<1> QED BY <1>2, <1>6

(* The index the latest of the entries that began by m has once sorted.     *)
LEMMA SortedShows ==
  ASSUME NEW N \in Seq(Segs), Distinct(N), NEW i \in DOMAIN N, NEW m \in Int,
         N[i].start <= m,
         \A j \in DOMAIN N : N[j].start <= m => N[j].start <= N[i].start
  PROVE  \E k : ShowsAt(ByStart(N), k, m) /\ ByStart(N)[k] = N[i]
<1> DEFINE s == ByStart(N)
<1>1. s \in Seq(Segs) /\ Ascending(s) /\ Entries(s) = Entries(N)
  BY Sorted, SegsTimed
<1> HIDE DEF s
<1>2. /\ Len(s) \in Nat /\ DOMAIN s = 1 .. Len(s) /\ N[i] \in Segs /\ N[i].start \in Int
      /\ \A j \in 1 .. Len(s) : s[j].start \in Int
  BY <1>1, SegsFacts, SegsTimed DEF Timed
<1>3. PICK k \in 0 .. Len(s) : \A j \in DOMAIN s : s[j].start <= N[i].start <=> j <= k
  BY <1>1, <1>2, InsertPlace, SegsTimed
<1>4. \A j \in DOMAIN s : \E a \in DOMAIN N : s[j] = N[a]
  BY <1>1 DEF Entries
<1>5. PICK b \in DOMAIN s : s[b] = N[i]
  BY <1>1 DEF Entries
<1>6. b <= k /\ k \in DOMAIN s
  BY <1>2, <1>3, <1>5
<1>7. s[b].start <= s[k].start
  BY <1>1, <1>2, <1>6 DEF Ascending
<1>8. s[k].start = N[i].start
  BY <1>2, <1>3, <1>5, <1>6, <1>7
<1>9. s[k] = N[i]
  BY <1>4, <1>6, <1>8 DEF Distinct
<1>10. ASSUME NEW j \in DOMAIN s, k < j PROVE m < s[j].start
  <2>1. ~(s[j].start <= N[i].start)
    BY <1>2, <1>3, <1>10
  <2>2. PICK a \in DOMAIN N : s[j] = N[a]
    BY <1>4
  <2> QED BY <1>2, <2>1, <2>2
<1>11. ShowsAt(s, k, m)
  BY <1>6, <1>9, <1>10 DEF ShowsAt
<1> QED BY <1>9, <1>11 DEF s

LEMMA MergedRises ==
  ASSUME NEW s \in Seq(Segs), Distinct(s), NEW n, NEW r, Merged(s, n, r)
  PROVE  Rising(r)
<1>1. /\ r \in Seq(Segs) /\ Len(r) \in Nat /\ DOMAIN r = 1 .. Len(r)
      /\ \A j \in 1 .. Len(r) : r[j].start \in Int
  BY SegsFacts, SegsTimed, SeqFacts DEF Merged, Timed
<1>2. ASSUME NEW i \in 1 .. Len(r) - 1 PROVE r[i].start # r[i + 1].start
  <2>1. i \in DOMAIN r /\ i + 1 \in DOMAIN r
    BY <1>1
  <2>2. r[i] \in Entries(s) /\ r[i + 1] \in Entries(s)
    BY <2>1 DEF Merged, Entries
  <2>3. r[i].start = r[i + 1].start => r[i] = r[i + 1]
    BY <2>2 DEF Entries, Distinct
  <2>4. ~Same(r[i], r[i + 1])
    BY DEF Merged
  <2> QED BY <2>3, <2>4, SameEquivalence
<1>3. ASSUME NEW i \in 1 .. Len(r), NEW j \in 1 .. Len(r), i < j PROVE r[i].start < r[j].start
  <2>1. i \in 1 .. Len(r) - 1 /\ i + 1 \in 1 .. Len(r)
    BY <1>1, <1>3
  <2>2. r[i].start <= r[i + 1].start
    BY <1>1, <2>1 DEF Merged, Ascending
  <2>3. r[i + 1].start <= r[j].start
    <3>1. CASE i + 1 = j
      BY <1>1, <3>1
    <3>2. CASE i + 1 < j
      BY <1>1, <2>1, <3>2 DEF Merged, Ascending
    <3> QED BY <1>1, <1>3, <3>1, <3>2
  <2>4. r[i].start # r[i + 1].start
    BY <1>2, <2>1
  <2>5. r[i].start \in Int /\ r[i + 1].start \in Int /\ r[j].start \in Int
    BY <1>1, <2>1
  <2> QED BY <2>2, <2>3, <2>4, <2>5
<1> QED BY <1>1, <1>3 DEF Rising

LEMMA RisingDistinct ==
  ASSUME NEW s \in Seq(Segs), Rising(s)
  PROVE  Distinct(s)
<1>1. DOMAIN s = 1 .. Len(s) /\ Len(s) \in Nat /\ \A j \in 1 .. Len(s) : s[j].start \in Int
  BY SegsFacts, SegsTimed DEF Timed
<1>2. ASSUME NEW i \in DOMAIN s, NEW j \in DOMAIN s, s[i].start = s[j].start PROVE i = j
  BY <1>1, <1>2 DEF Rising
<1> QED BY <1>2 DEF Distinct

LEMMA RaisesNothing ==
  ASSUME NEW s \in Seq(Segs), Rising(s)
  PROVE  Increasing(s) = s
<1>1. /\ Increasing(s) \in Seq(Segs) /\ Len(Increasing(s)) = Len(s)
      /\ \A i \in 1 .. Len(s) : Increasing(s)[i] = s[i]
  BY Raises DEF Raised
<1> QED BY <1>1, SegsFacts

(* What cutting at midnight shows: what was shown, and before the first     *)
(* start the last entry.                                                    *)
LEMMA CutShows ==
  ASSUME NEW s \in Seq(Segs), s # <<>>, Ascending(s), NEW k, NEW m \in 0 .. Day - 1
  PROVE  /\ ShowsAt(s, k, m) =>
              \E i : ShowsAt(CutAtMidnight(s), i, m) /\ CutAtMidnight(s)[i] = s[k]
         /\ m < s[1].start =>
              ShowsAt(CutAtMidnight(s), 1, m) /\ Same(CutAtMidnight(s)[1], s[Len(s)])
<1> DEFINE c == CutAtMidnight(s)
<1>1. /\ Len(s) \in Nat /\ Len(s) > 0 /\ DOMAIN s = 1 .. Len(s) /\ m \in Nat
      /\ \A i \in 1 .. Len(s) : s[i].start \in 0 .. Day - 1
  BY SegsFacts, DayAssumption
<1>2. CASE s[1].start = 0
  <2>1. c = s
    BY <1>2, CutFacts
  <2> QED BY <1>1, <1>2, <2>1
<1>3. CASE s[1].start # 0
  <2>1. /\ DOMAIN c = 1 .. Len(s) + 1 /\ c[1].start = 0 /\ Same(c[1], s[Len(s)])
        /\ \A i \in 1 .. Len(s) : c[i + 1] = s[i]
    BY <1>1, <1>3, CutFacts, SeqFacts
  <2> HIDE DEF c
  <2>2. \A i \in 2 .. Len(s) + 1 : i - 1 \in 1 .. Len(s) /\ c[i] = s[i - 1]
    <3> SUFFICES ASSUME NEW i \in 2 .. Len(s) + 1 PROVE i - 1 \in 1 .. Len(s) /\ c[i] = s[i - 1]
      OBVIOUS
    <3>1. i - 1 \in 1 .. Len(s) /\ (i - 1) + 1 = i
      BY <1>1
    <3> QED BY <2>1, <3>1
  <2>3. ASSUME ShowsAt(s, k, m) PROVE ShowsAt(c, k + 1, m) /\ c[k + 1] = s[k]
    <3>1. k \in 1 .. Len(s) /\ k + 1 \in DOMAIN c /\ c[k + 1] = s[k] /\ s[k].start <= m
      BY <1>1, <2>1, <2>3 DEF ShowsAt
    <3>2. ASSUME NEW j \in DOMAIN c, k + 1 < j PROVE m < c[j].start
      <4>1. c[j] = s[j - 1] /\ j - 1 \in 1 .. Len(s) /\ k < j - 1
        BY <1>1, <2>1, <2>2, <3>1, <3>2
      <4> QED BY <1>1, <2>3, <4>1 DEF ShowsAt
    <3> QED BY <3>1, <3>2 DEF ShowsAt
  <2>4. ASSUME m < s[1].start PROVE ShowsAt(c, 1, m)
    <3>1. ASSUME NEW j \in DOMAIN c, 1 < j PROVE m < c[j].start
      <4>1. c[j] = s[j - 1] /\ j - 1 \in 1 .. Len(s)
        BY <1>1, <2>1, <2>2, <3>1
      <4>2. s[1].start <= s[j - 1].start
        BY <1>1, <4>1 DEF Ascending
      <4> QED BY <1>1, <2>4, <4>1, <4>2
    <3> QED BY <1>1, <2>1, <3>1 DEF ShowsAt
  <2> QED BY <2>1, <2>3, <2>4 DEF c
<1> QED BY <1>2, <1>3

LEMMA DistinctEntries ==
  ASSUME NEW s, NEW N, Entries(s) \subseteq Entries(N), Distinct(N)
  PROVE  Distinct(s)
<1>1. ASSUME NEW i \in DOMAIN s PROVE \E a \in DOMAIN N : s[i] = N[a]
  <2>1. s[i] \in Entries(s)
    BY DEF Entries
  <2>2. s[i] \in Entries(N)
    BY <2>1
  <2> QED BY <2>2 DEF Entries
<1> QED BY <1>1 DEF Distinct

(* Entry i of N is the one m belongs to: the latest that has begun by m, or *)
(* the latest of all if none has.                                           *)
Belongs(N, i, m) ==
  /\ i \in DOMAIN N
  /\ \/ /\ N[i].start <= m
        /\ \A j \in DOMAIN N : N[j].start <= m => N[j].start <= N[i].start
     \/ /\ \A j \in DOMAIN N : m < N[j].start
        /\ \A j \in DOMAIN N : N[j].start <= N[i].start

LEMMA CanonicalShows ==
  ASSUME NEW raw, Normals(raw) \in Seq(Segs), Normals(raw) # <<>>, Distinct(Normals(raw))
  PROVE  /\ Apart(Canonicalize(raw))
         /\ \A m \in 0 .. Day - 1, i \in DOMAIN raw :
              Belongs(Normals(raw), i, m) =>
                \E k : ShowsAt(Canonicalize(raw), k, m) /\ Same(Canonicalize(raw)[k], Normals(raw)[i])
<1> DEFINE N == Normals(raw)
           s == ByStart(N)
           r == MergeAdjacent(s)
           q == CutAtMidnight(r)
           c == MergeAdjacent(q)
<1>0. DOMAIN N = DOMAIN raw /\ \A i \in DOMAIN N : N[i].start \in 0 .. Day - 1
  BY SegsFacts DEF Normals
<1>1. /\ s \in Seq(Segs) /\ Ascending(s) /\ Len(s) \in Nat /\ Len(s) > 0 /\ DOMAIN s = 1 .. Len(s)
      /\ Entries(s) = Entries(N)
  BY Sorted, SegsTimed, SeqFacts
<1>2. Distinct(s)
  BY <1>1, DistinctEntries
<1>3. Canonicalize(raw) = Increasing(c)
  BY DEF Canonicalize, Normals
<1>4. \A i \in DOMAIN N, m \in Int :
        /\ N[i].start <= m
        /\ \A j \in DOMAIN N : N[j].start <= m => N[j].start <= N[i].start
        => \E k : ShowsAt(s, k, m) /\ s[k] = N[i]
  BY SortedShows
<1>5. Merged(s, Len(s), r)
  BY <1>1, Merges
<1> HIDE DEF s
<1>6. r \in Seq(Segs) /\ r # <<>> /\ Ascending(r) /\ Rising(r) /\ Entries(r) \subseteq Entries(N)
  <2>1. r \in Seq(Segs) /\ r # <<>> /\ Ascending(r) /\ Entries(r) \subseteq Entries(N)
    BY <1>1, <1>5 DEF Merged
  <2>2. Rising(r)
    BY <1>1, <1>2, <1>5, MergedRises
  <2> QED BY <2>1, <2>2
<1>7. ASSUME NEW m \in Int, NEW k, ShowsAt(s, k, m)
      PROVE  \E l \in DOMAIN r : ShowsAt(r, l, m) /\ Same(r[l], s[k])
  <2>1. k \in 1 .. Len(s) /\ s[k].start <= m /\ \A j \in k + 1 .. Len(s) : m < s[j].start
    BY <1>1, <1>7 DEF ShowsAt
  <2> QED BY <1>5, <2>1 DEF Merged
<1> HIDE DEF r
<1>8. q \in Seq(Segs) /\ q # <<>> /\ q[1].start = 0 /\ Ascending(q) /\ Rising(q) /\ Distinct(q)
  BY <1>6, CutFacts, CutAscends, RisingDistinct
<1>9. \A k : \A m \in 0 .. Day - 1 :
        /\ ShowsAt(r, k, m) => \E i : ShowsAt(q, i, m) /\ q[i] = r[k]
        /\ m < r[1].start => ShowsAt(q, 1, m) /\ Same(q[1], r[Len(r)])
  BY <1>6, CutShows
<1> HIDE DEF q
<1>10. Merged(q, Len(q), c) /\ Len(q) \in Nat /\ DOMAIN q = 1 .. Len(q)
  BY <1>8, Merges, SeqFacts
<1>11. ASSUME NEW m \in Int, NEW k, ShowsAt(q, k, m)
       PROVE  \E l \in DOMAIN c : ShowsAt(c, l, m) /\ Same(c[l], q[k])
  <2>1. k \in 1 .. Len(q) /\ q[k].start <= m /\ \A j \in k + 1 .. Len(q) : m < q[j].start
    BY <1>10, <1>11 DEF ShowsAt
  <2> QED BY <1>10, <2>1 DEF Merged
<1> HIDE DEF c
<1>12. c \in Seq(Segs) /\ Apart(c) /\ Rising(c)
  BY <1>8, <1>10, MergedRises DEF Merged, Apart
<1>13. Canonicalize(raw) = c
  BY <1>3, <1>12, RaisesNothing
<1>14. ASSUME NEW m \in 0 .. Day - 1, NEW i \in DOMAIN raw, Belongs(N, i, m)
       PROVE  \E k : ShowsAt(c, k, m) /\ Same(c[k], N[i])
  <2>0. m \in Int /\ Day \in Int /\ m < Day
    BY DayAssumption
  <2>1. CASE N[i].start <= m
    <3>1. \A j \in DOMAIN N : N[j].start <= m => N[j].start <= N[i].start
      BY <1>0, <1>14, <2>0, <2>1 DEF Belongs
    <3>2. PICK k1 : ShowsAt(s, k1, m) /\ s[k1] = N[i]
      BY <1>0, <1>4, <2>0, <2>1, <3>1
    <3>3. PICK k2 : ShowsAt(r, k2, m) /\ Same(r[k2], s[k1])
      BY <1>7, <2>0, <3>2
    <3>4. PICK k3 : ShowsAt(q, k3, m) /\ q[k3] = r[k2]
      BY <1>9, <3>3
    <3>5. PICK k4 : ShowsAt(c, k4, m) /\ Same(c[k4], q[k3])
      BY <1>11, <2>0, <3>4
    <3> QED BY <3>2, <3>3, <3>4, <3>5, SameEquivalence
  <2>2. CASE ~(N[i].start <= m)
    <3>1. (\A j \in DOMAIN N : m < N[j].start) /\ \A j \in DOMAIN N : N[j].start <= N[i].start
      BY <1>14, <2>2 DEF Belongs
    <3>2. PICK k1 : ShowsAt(s, k1, Day) /\ s[k1] = N[i]
      <4>1. i \in DOMAIN N /\ N[i].start <= Day
        BY <1>0, <2>0
      <4>2. \A j \in DOMAIN N : N[j].start <= Day => N[j].start <= N[i].start
        BY <3>1
      <4> QED BY <1>4, <2>0, <4>1, <4>2
    <3>3. PICK k2 : ShowsAt(r, k2, Day) /\ Same(r[k2], s[k1])
      BY <1>7, <2>0, <3>2
    <3>4. /\ Len(r) \in Nat /\ DOMAIN r = 1 .. Len(r) /\ Len(r) > 0
          /\ \A j \in 1 .. Len(r) : r[j].start \in 0 .. Day - 1
      BY <1>6, SegsFacts
    <3>5. k2 = Len(r)
      <4>1. ASSUME k2 < Len(r) PROVE FALSE
        BY <2>0, <3>3, <3>4, <4>1 DEF ShowsAt
      <4> QED BY <3>3, <3>4, <4>1 DEF ShowsAt
    <3>6. r[1] \in Entries(N)
      <4>1. r[1] \in Entries(r)
        BY <3>4 DEF Entries
      <4> QED BY <1>6, <4>1
    <3>7. m < r[1].start
      BY <3>1, <3>6 DEF Entries
    <3>8. ShowsAt(q, 1, m) /\ Same(q[1], r[Len(r)])
      BY <1>9, <3>7
    <3>9. PICK k4 : ShowsAt(c, k4, m) /\ Same(c[k4], q[1])
      BY <1>11, <2>0, <3>8
    <3> QED BY <3>2, <3>3, <3>5, <3>8, <3>9, SameEquivalence
  <2> QED BY <2>1, <2>2
<1> QED BY <1>12, <1>13, <1>14

-----------------------------------------------------------------------------
(* Which segment an instant hits.                                           *)

LEMMA ShowsOne ==
  ASSUME NEW c, NEW k, NEW l, NEW m \in Int, c \in Seq(Segs), ShowsAt(c, k, m), ShowsAt(c, l, m)
  PROVE  k = l
<1>1. DOMAIN c = 1 .. Len(c) /\ Len(c) \in Nat /\ \A i \in 1 .. Len(c) : c[i].start \in 0 .. Day - 1
  BY SegsFacts
<1>2. \A i \in 1 .. Len(c) : c[i].start \in Int
  BY <1>1, DayAssumption
<1> QED BY <1>1, <1>2 DEF ShowsAt

LEMMA WellShows ==
  ASSUME NEW c, Well(c), NEW m \in 0 .. Day - 1
  PROVE  \E k : ShowsAt(c, k, m)
<1>1. /\ c \in Seq(Segs) /\ Ascending(c) /\ DOMAIN c = 1 .. Len(c) /\ Len(c) \in Nat /\ Len(c) > 0
      /\ c[1] \in Segs /\ c[1].start = 0
      /\ \A i \in 1 .. Len(c) : c[i].start \in Int
  BY RisingAscends, SegsFacts, SegsTimed DEF Well, Timed
<1> DEFINE x == [c[1] EXCEPT !.start = m]
<1>2. x \in Segs /\ x.start = m /\ m \in Int
  BY <1>1, DayAssumption DEF Segs
<1> HIDE DEF x
<1>3. PICK k \in 0 .. Len(c) : \A i \in DOMAIN c : c[i].start <= x.start <=> i <= k
  BY <1>1, <1>2, InsertPlace, SegsTimed
<1>4. k >= 1
  BY <1>1, <1>2, <1>3
<1>5. ShowsAt(c, k, m)
  BY <1>1, <1>2, <1>3, <1>4 DEF ShowsAt
<1> QED BY <1>5

LEMMA HitShows ==
  ASSUME NEW c, Well(c), NEW t \in Nat
  PROVE  /\ t % Day \in 0 .. Day - 1
         /\ ShowsAt(c, Hit(c, t), t % Day)
         /\ \A k : ShowsAt(c, k, t % Day) => Hit(c, t) = k
<1> DEFINE P(i) == c[i].start <= (t % Day) /\ (i < Len(c) => (t % Day) < c[i + 1].start)
<1>1. t % Day \in 0 .. Day - 1 /\ t % Day \in Int
  BY DayAssumption
<1>2. /\ c \in Seq(Segs) /\ DOMAIN c = 1 .. Len(c) /\ Len(c) \in Nat
      /\ \A i \in 1 .. Len(c) : c[i].start \in Int
      /\ \A i, j \in 1 .. Len(c) : i < j => c[i].start < c[j].start
  BY SegsFacts, SegsTimed DEF Well, Timed, Rising
<1>3. PICK k : ShowsAt(c, k, t % Day)
  BY <1>1, WellShows
<1>4. k \in DOMAIN c /\ P(k)
  BY <1>2, <1>3 DEF ShowsAt
<1>5. Hit(c, t) \in DOMAIN c /\ P(Hit(c, t))
  BY <1>4 DEF Hit
<1>6. ShowsAt(c, Hit(c, t), t % Day)
  <2>1. ASSUME NEW j \in DOMAIN c, Hit(c, t) < j PROVE (t % Day) < c[j].start
    <3>1. Hit(c, t) + 1 \in 1 .. Len(c) /\ (t % Day) < c[Hit(c, t) + 1].start
      BY <1>2, <1>5, <2>1
    <3>2. Hit(c, t) + 1 = j \/ Hit(c, t) + 1 < j
      BY <1>2, <1>5, <2>1
    <3> QED BY <1>1, <1>2, <2>1, <3>1, <3>2
  <2> QED BY <1>5, <2>1 DEF ShowsAt
<1> QED BY <1>1, <1>2, <1>6, ShowsOne

LEMMA Instants ==
  ASSUME NEW t \in Nat
  PROVE  LET d == t \div Day  m == t % Day IN
         /\ d \in Nat /\ m \in 0 .. Day - 1 /\ t = Day * d + m
         /\ m < Day - 1 => (t + 1) \div Day = d /\ (t + 1) % Day = m + 1
         /\ m = Day - 1 => (t + 1) \div Day = d + 1 /\ (t + 1) % Day = 0
BY DayAssumption

LEMMA NormalIsSeg ==
  ASSUME NEW x \in Items, x.start \in 0 .. Day - 1, x.type \in Types
  PROVE  Normal(x) \in Segs
<1>1. x.module \in Labels /\ x.category \in Labels /\ NoLabel \in Labels
  BY DEF Labels
<1> QED BY <1>1 DEF Normal, Segs

LEMMA SegIsNormal ==
  ASSUME NEW x \in Segs
  PROVE  Normal(x) = x
<1>1. /\ x \in [start : 0 .. Day - 1, type : Types, module : Labels, category : Labels]
      /\ x.type # "free" => x.module = NoLabel
      /\ x.type # "photo" => x.category = NoLabel
  BY DEF Segs
<1>2. x = [start |-> x.start, type |-> x.type, module |-> x.module, category |-> x.category]
  BY <1>1
<1> QED BY <1>1, <1>2 DEF Normal

(* What the console may submit and the server accepts.                      *)
Accepted(raw) == raw \in Requests /\ Valid(raw)

LEMMA AcceptedNormals ==
  ASSUME NEW raw, Accepted(raw)
  PROVE  /\ Normals(raw) \in Seq(Segs) /\ Normals(raw) # <<>>
         /\ DOMAIN Normals(raw) = DOMAIN raw
         /\ \A i \in DOMAIN raw : Normals(raw)[i] = Normal(raw[i]) /\ Normals(raw)[i].start = raw[i].start
<1>1. raw \in Seq(Items) /\ raw # <<>>
  BY ScheduleAssumption DEF Accepted, Valid
<1>2. /\ Len(raw) \in Nat /\ DOMAIN raw = 1 .. Len(raw) /\ Len(raw) > 0
      /\ \A i \in 1 .. Len(raw) : raw[i] \in Items
  BY <1>1, SeqFacts
<1>3. \A i \in 1 .. Len(raw) : Normal(raw[i]) \in Segs
  BY <1>2, NormalIsSeg DEF Accepted, Valid
<1>4. Normals(raw) = [i \in 1 .. Len(raw) |-> Normal(raw[i])]
  BY <1>2 DEF Normals
<1>5. Normals(raw) \in Seq(Segs) /\ Len(Normals(raw)) = Len(raw)
  BY <1>2, <1>3, <1>4
<1>6. \A i \in 1 .. Len(raw) : Normal(raw[i]).start = raw[i].start
  BY DEF Normal
<1> QED BY <1>2, <1>4, <1>5, <1>6

LEMMA WellNormals ==
  ASSUME NEW c, c \in Seq(Segs)
  PROVE  Normals(c) = c
<1>1. \A i \in DOMAIN c : Normal(c[i]) = c[i]
  BY SegIsNormal, SegsFacts
<1>2. c = [i \in DOMAIN c |-> c[i]]
  OBVIOUS
<1> QED BY <1>1, <1>2 DEF Normals

(* What a list means at m is the entry m belongs to.                        *)
LEMMA LatestOf ==
  ASSUME NEW s, NEW T, T \subseteq DOMAIN s, T # {},
         \A i \in T : s[i].start \in 0 .. Day - 1
  PROVE  \E i \in T : \A j \in T : s[j].start <= s[i].start
<1> DEFINE D == {Day - s[i].start : i \in T}
<1>1. D \subseteq Nat /\ D # {}
  BY DayAssumption
<1>2. PICK d \in D : \A e \in D : d <= e
  BY <1>1, LeastNat
<1>3. PICK i \in T : d = Day - s[i].start
  BY <1>2
<1>4. \A j \in T : Day - s[i].start <= Day - s[j].start
  BY <1>2, <1>3
<1> QED BY <1>4, DayAssumption

LEMMA MeantBelongs ==
  ASSUME NEW raw, Accepted(raw), NEW m \in 0 .. Day - 1
  PROVE  \E i \in DOMAIN raw : Belongs(Normals(raw), i, m) /\ MeantAt(raw, m) = Normals(raw)[i]
<1> DEFINE N == Normals(raw)
           begun == {i \in DOMAIN raw : raw[i].start <= m}
           T == IF begun # {} THEN begun ELSE DOMAIN raw
           i == CHOOSE i \in T : \A j \in T : raw[j].start <= raw[i].start
<1>1. /\ DOMAIN N = DOMAIN raw /\ DOMAIN raw # {}
      /\ \A k \in DOMAIN raw : /\ N[k] = Normal(raw[k]) /\ N[k].start = raw[k].start
                               /\ raw[k].start \in 0 .. Day - 1
  <2>1. N \in Seq(Segs) /\ N # <<>> /\ DOMAIN N = DOMAIN raw
    BY AcceptedNormals
  <2>2. DOMAIN N = 1 .. Len(N) /\ Len(N) \in Nat /\ Len(N) > 0
    BY <2>1, SegsFacts
  <2>3. \A k \in DOMAIN raw : /\ N[k] = Normal(raw[k]) /\ N[k].start = raw[k].start
    BY AcceptedNormals
  <2>4. \A k \in DOMAIN raw : raw[k].start \in 0 .. Day - 1
    BY DEF Accepted, Valid
  <2> HIDE DEF N
  <2> QED BY <2>1, <2>2, <2>3, <2>4
<1>2. T \subseteq DOMAIN raw /\ T # {}
  BY <1>1
<1>3. \E k \in T : \A j \in T : raw[j].start <= raw[k].start
  BY <1>1, <1>2, LatestOf
<1>4. i \in T /\ \A j \in T : raw[j].start <= raw[i].start
  BY <1>3
<1>5. MeantAt(raw, m) = Normal(raw[i])
  BY DEF MeantAt
<1> HIDE DEF N, i
<1>6. Belongs(N, i, m)
  <2>1. m \in Int
    BY DayAssumption
  <2>2. \A k \in DOMAIN raw : N[k].start \in Int
    BY <1>1, DayAssumption
  <2>3. CASE begun # {}
    BY <1>1, <1>4, <2>1, <2>2, <2>3 DEF Belongs
  <2>4. CASE begun = {}
    BY <1>1, <1>4, <2>1, <2>2, <2>4 DEF Belongs
  <2> QED BY <2>3, <2>4
<1> QED BY <1>1, <1>2, <1>4, <1>5, <1>6 DEF N

(* The entry shown at m is the one m belongs to, and canonicalizing a       *)
(* schedule once more changes nothing of what it shows.                     *)
LEMMA ShownBelongs ==
  ASSUME NEW c, Well(c), NEW m \in 0 .. Day - 1, NEW k, ShowsAt(c, k, m)
  PROVE  Belongs(c, k, m)
<1>1. /\ DOMAIN c = 1 .. Len(c) /\ Len(c) \in Nat /\ m \in Int
      /\ \A i \in 1 .. Len(c) : c[i].start \in Int
  BY SegsFacts, SegsTimed, DayAssumption DEF Well, Timed
<1>2. Ascending(c)
  BY RisingAscends DEF Well
<1>3. ASSUME NEW j \in DOMAIN c, c[j].start <= m PROVE c[j].start <= c[k].start
  <2>1. k \in DOMAIN c /\ ~(k < j)
    BY <1>1, <1>3 DEF ShowsAt
  <2>2. j < k \/ j = k
    BY <1>1, <2>1
  <2> QED BY <1>1, <1>2, <2>1, <2>2 DEF Ascending
<1> QED BY <1>3 DEF Belongs, ShowsAt

LEMMA CanonicalAgain ==
  ASSUME NEW c, Well(c)
  PROVE  /\ Well(Canonicalize(c)) /\ Apart(Canonicalize(c))
         /\ \A m \in 0 .. Day - 1 : \A k :
              ShowsAt(c, k, m) =>
                \E l : ShowsAt(Canonicalize(c), l, m) /\ Same(Canonicalize(c)[l], c[k])
<1>1. c \in Seq(Segs) /\ c # <<>> /\ Rising(c)
  BY DEF Well
<1>2. Normals(c) = c /\ Distinct(c)
  BY <1>1, WellNormals, RisingDistinct
<1>3. Well(Canonicalize(c))
  BY <1>1, <1>2, CanonicalWell
<1>4. /\ Apart(Canonicalize(c))
      /\ \A m \in 0 .. Day - 1, i \in DOMAIN c :
           Belongs(c, i, m) =>
             \E l : ShowsAt(Canonicalize(c), l, m) /\ Same(Canonicalize(c)[l], c[i])
  BY <1>1, <1>2, CanonicalShows
<1>5. \A m \in 0 .. Day - 1 : \A k :
        ShowsAt(c, k, m) =>
          \E l : ShowsAt(Canonicalize(c), l, m) /\ Same(Canonicalize(c)[l], c[k])
  <2> SUFFICES ASSUME NEW m \in 0 .. Day - 1, NEW k, ShowsAt(c, k, m)
               PROVE  \E l : ShowsAt(Canonicalize(c), l, m) /\ Same(Canonicalize(c)[l], c[k])
    OBVIOUS
  <2>1. k \in DOMAIN c /\ Belongs(c, k, m)
    BY ShownBelongs DEF ShowsAt
  <2> QED BY <1>4, <2>1
<1> QED BY <1>3, <1>4, <1>5

-----------------------------------------------------------------------------
(* The invariant.                                                           *)

ScheduleTyped ==
  /\ legacy \in Legacies \cup {Default}
  /\ clock \in Nat

StoredIsEntered ==
  \/ stored = <<>> /\ entered = <<>>
  \/ Accepted(entered) /\ stored = Canonicalize(entered)

ScheduleIInv == ScheduleTyped /\ StoredIsEntered

LEMMA ScheduleInitIInv == ScheduleInit => ScheduleIInv
BY DEF ScheduleInit, ScheduleIInv, ScheduleTyped, StoredIsEntered

LEMMA ScheduleNextIInv == ScheduleIInv /\ [ScheduleNext]_scheduleVars => ScheduleIInv'
<1> SUFFICES ASSUME ScheduleIInv, [ScheduleNext]_scheduleVars PROVE ScheduleIInv'
  OBVIOUS
<1> USE DEF ScheduleIInv, ScheduleTyped, StoredIsEntered, Accepted
<1>1. ASSUME NEW raw \in Requests, Save(raw) PROVE ScheduleIInv'
  <2>1. CASE Valid(raw)
    BY <1>1, <2>1 DEF Save
  <2>2. CASE ~Valid(raw)
    BY <1>1, <2>2 DEF Save
  <2> QED BY <2>1, <2>2
<1>2. ASSUME NEW c \in Legacies, SaveLegacy(c) PROVE ScheduleIInv'
  BY <1>2 DEF SaveLegacy
<1>3. CASE Pass
  BY <1>3 DEF Pass
<1>4. CASE UNCHANGED scheduleVars
  BY <1>4 DEF scheduleVars
<1> QED BY <1>1, <1>2, <1>3, <1>4 DEF ScheduleNext

LEMMA ScheduleSafety == ScheduleSpec => []ScheduleIInv
BY ScheduleInitIInv, ScheduleNextIInv, PTL DEF ScheduleSpec

LEMMA SavedIsWell ==
  ASSUME ScheduleIInv, stored # <<>>
  PROVE  /\ Accepted(entered) /\ stored = Canonicalize(entered)
         /\ Well(stored) /\ Segments = Canonicalize(stored)
<1>1. Accepted(entered) /\ stored = Canonicalize(entered)
  BY DEF ScheduleIInv, StoredIsEntered
<1>2. Normals(entered) \in Seq(Segs) /\ Normals(entered) # <<>>
  BY <1>1, AcceptedNormals
<1>3. Well(Canonicalize(entered))
  BY <1>2, CanonicalWell
<1> QED BY <1>1, <1>3 DEF Segments, Effective

(* However a list of segments is entered, what canonicalize makes of it      *)
(* shows at every minute the entry that was meant (slots.py, settings.py).   *)
THEOREM ScheduleAsEntered == ScheduleSpec => []ShowsWhatWasEntered
<1>1. ASSUME ScheduleIInv, entered # <<>>,
             \A i, j \in DOMAIN entered : entered[i].start = entered[j].start => i = j,
             NEW m \in 0 .. Day - 1
      PROVE  Same(CurrentSegment(Segments, m), MeantAt(entered, m))
  <2>1. stored # <<>>
    <3>1. Accepted(entered) /\ stored = Canonicalize(entered)
      BY <1>1 DEF ScheduleIInv, StoredIsEntered
    <3>2. Normals(entered) \in Seq(Segs) /\ Normals(entered) # <<>>
      BY <3>1, AcceptedNormals
    <3> QED BY <3>1, <3>2, CanonicalWell DEF Well
  <2>2. /\ Accepted(entered) /\ stored = Canonicalize(entered)
        /\ Well(stored) /\ Segments = Canonicalize(stored)
    BY <1>1, <2>1, SavedIsWell
  <2>3. /\ Normals(entered) \in Seq(Segs) /\ Normals(entered) # <<>>
        /\ DOMAIN Normals(entered) = DOMAIN entered
        /\ \A i \in DOMAIN entered : Normals(entered)[i].start = entered[i].start
    BY <2>2, AcceptedNormals
  <2>4. Distinct(Normals(entered))
    BY <1>1, <2>3 DEF Distinct
  <2>5. PICK i \in DOMAIN entered :
          Belongs(Normals(entered), i, m) /\ MeantAt(entered, m) = Normals(entered)[i]
    BY <2>2, MeantBelongs
  <2>6. PICK k : ShowsAt(stored, k, m) /\ Same(stored[k], Normals(entered)[i])
    BY <2>2, <2>3, <2>4, <2>5, CanonicalShows
  <2>7. PICK l : ShowsAt(Segments, l, m) /\ Same(Segments[l], stored[k])
    BY <2>2, <2>6, CanonicalAgain
  <2>8. m \in Nat /\ m % Day = m
    BY DayAssumption
  <2>9. Hit(Segments, m) = l
    BY <2>2, <2>7, <2>8, HitShows, CanonicalAgain
  <2> QED BY <2>5, <2>6, <2>7, <2>9, SameEquivalence DEF CurrentSegment
<1>2. ScheduleIInv => ShowsWhatWasEntered
  BY <1>1 DEF ShowsWhatWasEntered
<1> QED BY ScheduleSafety, <1>2, PTL

-----------------------------------------------------------------------------
(* One content, one start.                                                  *)

LEMMA MidnightIs ==
  ASSUME NEW t \in Nat
  PROVE  /\ Midnight(t) = Day * (t \div Day) /\ Midnight(t) \in Int
         /\ (t % Day) < Day - 1 => Midnight(t + 1) = Midnight(t)
         /\ t % Day = Day - 1 => Midnight(t + 1) = Midnight(t) + Day
<1> DEFINE d == t \div Day
           m == t % Day
<1>1. /\ d \in Nat /\ m \in 0 .. Day - 1 /\ t = Day * d + m
      /\ m < Day - 1 => (t + 1) \div Day = d /\ (t + 1) % Day = m + 1
      /\ m = Day - 1 => (t + 1) \div Day = d + 1 /\ (t + 1) % Day = 0
  BY Instants
<1>2. Midnight(t) = t - m /\ Midnight(t + 1) = (t + 1) - ((t + 1) % Day)
  BY DEF Midnight
<1> HIDE DEF d, m
<1>3. Day * d \in Int /\ t = Day * d + m /\ m \in Int
  BY <1>1, DayAssumption
<1>4. Midnight(t) = Day * d /\ Midnight(t) \in Int
  BY <1>2, <1>3
<1>5. m < Day - 1 => Midnight(t + 1) = Midnight(t)
  BY <1>1, <1>2, <1>3
<1>6. m = Day - 1 => Midnight(t + 1) = Midnight(t) + Day
  BY <1>1, <1>2, <1>3, DayAssumption
<1> QED BY <1>4, <1>5, <1>6 DEF d, m

(* The content at t began before midnight, when the list wraps, or with its *)
(* entry.                                                                   *)
Wraps(c) == Len(c) > 1 /\ Same(c[Len(c)], c[1])

LEMMA StartIs ==
  ASSUME NEW c, Well(c), NEW t \in Nat
  PROVE  /\ CurrentSegment(c, t) = c[Hit(c, t)]
         /\ SegmentStart(c, t) = IF Hit(c, t) = 1 /\ Wraps(c)
                                 THEN Midnight(t) - Day + c[Len(c)].start
                                 ELSE Midnight(t) + c[Hit(c, t)].start
BY DEF CurrentSegment, SegmentStart, Wraps, Last

LEMMA HitNextMinute ==
  ASSUME NEW c, Well(c), NEW t \in Nat, (t % Day) < Day - 1
  PROVE  /\ Hit(c, t) \in 1 .. Len(c) /\ Hit(c, t + 1) \in 1 .. Len(c)
         /\ Hit(c, t + 1) = Hit(c, t) \/ Hit(c, t + 1) = Hit(c, t) + 1
<1> DEFINE m == t % Day
           h == Hit(c, t)
           g == Hit(c, t + 1)
<1>1. /\ c \in Seq(Segs) /\ DOMAIN c = 1 .. Len(c) /\ Len(c) \in Nat
      /\ \A i \in 1 .. Len(c) : c[i].start \in Int
      /\ \A i, j \in 1 .. Len(c) : i < j => c[i].start < c[j].start
  BY SegsFacts, SegsTimed DEF Well, Timed, Rising
<1>2. (t + 1) % Day = m + 1 /\ m \in Int
  <2>1. m \in 0 .. Day - 1 /\ (m < Day - 1 => (t + 1) % Day = m + 1)
    BY Instants, Zenon
  <2> QED BY <2>1, DayAssumption
<1>3. ShowsAt(c, h, m)
  BY HitShows
<1>4. ShowsAt(c, g, m + 1)
  <2>1. t + 1 \in Nat
    OBVIOUS
  <2> QED BY <1>2, <2>1, HitShows
<1> HIDE DEF h, g, m
<1>5. h \in 1 .. Len(c) /\ g \in 1 .. Len(c) /\ c[h].start <= m /\ c[g].start <= m + 1
  BY <1>1, <1>3, <1>4 DEF ShowsAt
<1>6. ~(g < h)
  BY <1>1, <1>2, <1>3, <1>4, <1>5 DEF ShowsAt
<1>7. ~(h + 1 < g)
  <2> SUFFICES ASSUME h + 1 < g PROVE FALSE
    OBVIOUS
  <2>1. h + 1 \in 1 .. Len(c) /\ h < h + 1
    BY <1>1, <1>5
  <2>2. m < c[h + 1].start
    BY <1>1, <1>3, <2>1 DEF ShowsAt
  <2>3. c[h + 1].start < c[g].start
    BY <1>1, <1>5, <2>1
  <2> QED BY <1>1, <1>2, <1>5, <2>1, <2>2, <2>3
<1> QED BY <1>5, <1>6, <1>7 DEF h, g

LEMMA HitMidnight ==
  ASSUME NEW c, Well(c), NEW t \in Nat, t % Day = Day - 1
  PROVE  Hit(c, t) = Len(c) /\ Hit(c, t + 1) = 1
<1>1. /\ c \in Seq(Segs) /\ DOMAIN c = 1 .. Len(c) /\ Len(c) \in Nat /\ Len(c) > 0
      /\ \A i \in 1 .. Len(c) : c[i].start \in 0 .. Day - 1
      /\ \A i, j \in 1 .. Len(c) : i < j => c[i].start < c[j].start
      /\ c[1].start = 0
  BY SegsFacts DEF Well, Rising
<1>2. (t + 1) % Day = 0 /\ t + 1 \in Nat
  BY Instants
<1>3. ShowsAt(c, Len(c), Day - 1)
  BY <1>1, DayAssumption DEF ShowsAt
<1>4. ShowsAt(c, 1, 0)
  BY <1>1, DayAssumption DEF ShowsAt
<1>5. Hit(c, t) = Len(c)
  BY <1>3, HitShows
<1>6. Hit(c, t + 1) = 1
  BY <1>2, <1>4, HitShows
<1> QED BY <1>5, <1>6

LEMMA OneStart ==
  ASSUME NEW c, Well(c), NEW t \in Nat
  PROVE  /\ Continues(c, t, t + 1) => Alike(c, t, t + 1)
         /\ Apart(c) /\ Len(c) > 1 /\ Alike(c, t, t + 1) => Continues(c, t, t + 1)
<1> DEFINE h == Hit(c, t)
           g == Hit(c, t + 1)
           n == Len(c)
<1>1. /\ c \in Seq(Segs) /\ n \in Nat /\ n > 0
      /\ \A i \in 1 .. n : c[i].start \in 0 .. Day - 1
      /\ \A i, j \in 1 .. n : i < j => c[i].start < c[j].start
      /\ c[1].start = 0
  BY SegsFacts DEF Well, Rising
<1>2. /\ Continues(c, t, t + 1) <=> SegmentStart(c, t) = SegmentStart(c, t + 1)
      /\ Alike(c, t, t + 1) <=> Same(c[h], c[g])
  BY DEF Continues, Alike, CurrentSegment
<1>3. /\ SegmentStart(c, t) = IF h = 1 /\ Wraps(c)
                              THEN Midnight(t) - Day + c[n].start
                              ELSE Midnight(t) + c[h].start
      /\ SegmentStart(c, t + 1) = IF g = 1 /\ Wraps(c)
                                  THEN Midnight(t + 1) - Day + c[n].start
                                  ELSE Midnight(t + 1) + c[g].start
  BY StartIs
<1>4. Midnight(t) \in Int /\ t % Day \in 0 .. Day - 1
  BY MidnightIs, DayAssumption
<1>5. CASE (t % Day) < Day - 1
  <2>1. h \in 1 .. n /\ g \in 1 .. n /\ (g = h \/ g = h + 1)
    BY <1>5, HitNextMinute
  <2>2. Midnight(t + 1) = Midnight(t)
    BY <1>5, MidnightIs
  <2> HIDE DEF h, g, n
  <2>3. CASE g = h
    BY <1>2, <1>3, <2>2, <2>3, SameEquivalence
  <2>4. CASE g = h + 1
    <3>1. SegmentStart(c, t) # SegmentStart(c, t + 1)
      <4>1. /\ g # 1 /\ c[h].start < c[g].start /\ c[n].start < Day /\ c[h].start \in 0 .. Day - 1
            /\ c[g].start \in 0 .. Day - 1 /\ c[n].start \in Int
        BY <1>1, <2>1, <2>4, DayAssumption
      <4> QED BY <1>3, <1>4, <2>2, <4>1, DayAssumption
    <3>2. Apart(c) => ~Same(c[h], c[g])
      <4>1. h \in 1 .. n - 1
        BY <1>1, <2>1, <2>4
      <4> QED BY <2>4, <4>1 DEF Apart, n
    <3> QED BY <1>2, <3>1, <3>2
  <2> QED BY <2>1, <2>3, <2>4
<1>6. CASE t % Day = Day - 1
  <2>1. h = n /\ g = 1
    BY <1>6, HitMidnight
  <2>2. Midnight(t + 1) = Midnight(t) + Day
    BY <1>6, MidnightIs
  <2>3. Wraps(c) <=> n > 1 /\ Same(c[n], c[1])
    BY DEF Wraps
  <2> HIDE DEF h, g, n
  <2>4. c[n].start \in 0 .. Day - 1 /\ (n = 1 => c[n].start = 0)
    BY <1>1
  <2>5. CASE Wraps(c)
    <3>1. n # 1
      BY <2>3, <2>5
    <3>2. SegmentStart(c, t) = SegmentStart(c, t + 1)
      BY <1>3, <1>4, <2>1, <2>2, <2>4, <2>5, <3>1, DayAssumption
    <3>3. Same(c[h], c[g])
      BY <2>1, <2>3, <2>5
    <3> QED BY <1>2, <3>2, <3>3
  <2>6. CASE ~Wraps(c)
    <3>1. SegmentStart(c, t) # SegmentStart(c, t + 1)
      BY <1>1, <1>3, <1>4, <2>1, <2>2, <2>4, <2>6, DayAssumption
    <3>2. n > 1 => ~Same(c[h], c[g])
      BY <2>1, <2>3, <2>6
    <3>3. n > 1 <=> Len(c) > 1
      BY DEF n
    <3> QED BY <1>2, <3>1, <3>2, <3>3
  <2> QED BY <2>5, <2>6
<1> QED BY <1>4, <1>5, <1>6, DayAssumption

-----------------------------------------------------------------------------
(* The legacy ranges: a list that covers the day up to t.                   *)

Partition(out, t) ==
  /\ out \in Seq(Segs) /\ t \in 0 .. Day
  /\ t = 0 <=> out = <<>>
  /\ t > 0 => out[1].start = 0
  /\ Rising(out)
  /\ \A i \in DOMAIN out : out[i].start < t

LEMMA BareIsSeg ==
  ASSUME NEW start \in 0 .. Day - 1, NEW type \in Types
  PROVE  Bare(start, type) \in Segs
BY DEF Bare, Segs, Labels

LEMMA PartitionAppend ==
  ASSUME NEW out, NEW t, Partition(out, t), NEW u \in 0 .. Day, t < u,
         NEW x \in Segs, x.start = t
  PROVE  LET q == Append(out, x) IN
         /\ Partition(q, u)
         /\ \A m \in 0 .. Day - 1 : m < t =>
              \A k : ShowsAt(out, k, m) => ShowsAt(q, k, m) /\ q[k] = out[k]
         /\ \A m \in 0 .. Day - 1 : t <= m => ShowsAt(q, Len(q), m) /\ q[Len(q)] = x
<1> DEFINE q == Append(out, x)
           n == Len(out)
<1>1. /\ out \in Seq(Segs) /\ n \in Nat /\ DOMAIN out = 1 .. n /\ t \in Int /\ u \in Int
      /\ \A i \in 1 .. n : out[i].start \in 0 .. Day - 1 /\ out[i].start < t
      /\ \A i, j \in 1 .. n : i < j => out[i].start < out[j].start
      /\ t = 0 <=> n = 0
  BY SegsFacts, DayAssumption DEF Partition, Rising
<1>2. /\ q \in Seq(Segs) /\ Len(q) = n + 1 /\ DOMAIN q = 1 .. n + 1
      /\ q[n + 1] = x /\ \A i \in 1 .. n : q[i] = out[i]
  BY <1>1
<1> HIDE DEF q, n
<1>3. u > 0 /\ q # <<>>
  BY <1>1, <1>2, DayAssumption, SeqFacts DEF Partition
<1>4. q[1].start = 0
  <2>1. CASE n = 0
    BY <1>1, <1>2, <2>1
  <2>2. CASE n > 0
    <3>1. 1 \in 1 .. n /\ t > 0
      BY <1>1, <2>2 DEF Partition
    <3> QED BY <1>2, <3>1 DEF Partition
  <2> QED BY <1>1, <2>1, <2>2
<1>5. Rising(q)
  <2> SUFFICES ASSUME NEW i \in 1 .. n + 1, NEW j \in 1 .. n + 1, i < j
               PROVE  q[i].start < q[j].start
    BY <1>2 DEF Rising
  <2>1. i \in 1 .. n /\ (j \in 1 .. n \/ j = n + 1)
    BY <1>1
  <2> QED BY <1>1, <1>2, <2>1
<1>6. \A i \in DOMAIN q : q[i].start < u
  <2> SUFFICES ASSUME NEW i \in 1 .. n + 1 PROVE q[i].start < u
    BY <1>2
  <2>1. i \in 1 .. n \/ i = n + 1
    BY <1>1
  <2>2. \A j \in 1 .. n : out[j].start \in Int
    BY <1>1
  <2> QED BY <1>1, <1>2, <2>1, <2>2
<1>7. Partition(q, u)
  BY <1>2, <1>3, <1>4, <1>5, <1>6 DEF Partition
<1>8. ASSUME NEW m \in 0 .. Day - 1, m < t, NEW k, ShowsAt(out, k, m)
      PROVE  ShowsAt(q, k, m) /\ q[k] = out[k]
  <2>1. k \in 1 .. n /\ k \in DOMAIN q /\ q[k] = out[k]
    BY <1>1, <1>2, <1>8 DEF ShowsAt
  <2>2. ASSUME NEW j \in 1 .. n + 1, k < j PROVE m < q[j].start
    <3>1. j \in 1 .. n \/ j = n + 1
      BY <1>1
    <3> QED BY <1>1, <1>2, <1>8, <2>2, <3>1 DEF ShowsAt
  <2> QED BY <1>2, <1>8, <2>1, <2>2 DEF ShowsAt
<1>9. ASSUME NEW m \in 0 .. Day - 1, t <= m PROVE ShowsAt(q, Len(q), m) /\ q[Len(q)] = x
  BY <1>1, <1>2, <1>9 DEF ShowsAt
<1> QED BY <1>7, <1>8, <1>9 DEF q

(* A range of minutes, and what a minute may show: a range that covers it,  *)
(* or a photo if there is none.                                             *)
Kinds == {"weather", "photo", "free"}
Spans ==
  {e \in [start : Nat, to : Nat, type : Kinds] :
     e.start < e.to \/ e.to = 0 \/ e.start >= Day}
In(e, m) == e.start <= m /\ m < e.to
Fits(s, m, type) ==
  \/ \E j \in DOMAIN s : In(s[j], m) /\ s[j].type = type
  \/ type = "photo" /\ \A j \in DOMAIN s : ~In(s[j], m)

Shown(s, out, t) ==
  \A m \in 0 .. Day - 1 : m < t => \E k : ShowsAt(out, k, m) /\ Fits(s, m, out[k].type)

(* What the loop has after n of the ranges s.                               *)
Filled(s, n, a) ==
  /\ Partition(a.out, a.t) /\ Shown(s, a.out, a.t)
  /\ \A j \in 1 .. n : s[j].to <= a.t \/ a.t = Day \/ s[j].start >= Day

LEMMA ShownAppend ==
  ASSUME NEW s, NEW out, NEW t, Partition(out, t), Shown(s, out, t),
         NEW u \in 0 .. Day, t < u, NEW x \in Segs, x.start = t,
         \A m \in 0 .. Day - 1 : t <= m /\ m < u => Fits(s, m, x.type)
  PROVE  Partition(Append(out, x), u) /\ Shown(s, Append(out, x), u)
<1> DEFINE q == Append(out, x)
<1>1. /\ Partition(q, u)
      /\ \A m \in 0 .. Day - 1 : m < t =>
           \A k : ShowsAt(out, k, m) => ShowsAt(q, k, m) /\ q[k] = out[k]
      /\ \A m \in 0 .. Day - 1 : t <= m => ShowsAt(q, Len(q), m) /\ q[Len(q)] = x
  BY PartitionAppend
<1> HIDE DEF q
<1>2. ASSUME NEW m \in 0 .. Day - 1, m < u
      PROVE  \E k : ShowsAt(q, k, m) /\ Fits(s, m, q[k].type)
  <2>1. CASE m < t
    <3>1. PICK k : ShowsAt(out, k, m) /\ Fits(s, m, out[k].type)
      BY <2>1 DEF Shown
    <3> QED BY <1>1, <2>1, <3>1
  <2>2. CASE t <= m
    <3>1. Fits(s, m, x.type)
      BY <1>2, <2>2
    <3>2. ShowsAt(q, Len(q), m) /\ q[Len(q)] = x
      BY <1>1, <2>2
    <3> QED BY <3>1, <3>2
  <2>3. m \in Int /\ t \in Int
    BY DayAssumption DEF Partition
  <2> QED BY <2>1, <2>2, <2>3
<1>3. Shown(s, q, u)
  BY <1>2 DEF Shown
<1> QED BY <1>1, <1>3 DEF q

LEMMA FillStep ==
  ASSUME NEW s \in Seq(Spans), Ascending(s), NEW n \in 1 .. Len(s),
         NEW a \in [t : 0 .. Day, out : Seq(Segs)], Filled(s, n - 1, a)
  PROVE  Filled(s, n, Fill(a, s[n]))
<1> DEFINE r == s[n]
           to == IF r.to < Day THEN r.to ELSE Day
           N == Len(s)
<1>1. /\ N \in Nat /\ DOMAIN s = 1 .. N
      /\ \A j \in 1 .. N : /\ s[j] \in Spans /\ s[j].start \in Nat /\ s[j].to \in Nat
                           /\ s[j].type \in Types
                           /\ s[j].start < s[j].to \/ s[j].to = 0 \/ s[j].start >= Day
      /\ \A i, j \in 1 .. N : i < j => s[i].start <= s[j].start
  <2>1. N \in Nat /\ DOMAIN s = 1 .. N /\ \A j \in 1 .. N : s[j] \in Spans
    BY SeqFacts
  <2>2. \A e \in Spans : /\ e.start \in Nat /\ e.to \in Nat /\ e.type \in Types
                         /\ e.start < e.to \/ e.to = 0 \/ e.start >= Day
    BY DEF Spans, Kinds, Types
  <2> QED BY <2>1, <2>2 DEF Ascending
<1>2. a.t \in 0 .. Day /\ Partition(a.out, a.t) /\ Shown(s, a.out, a.t)
  BY DEF Filled
<1>3. \A j \in 1 .. n - 1 : s[j].to <= a.t \/ a.t = Day \/ s[j].start >= Day
  BY DEF Filled
<1>4. r \in Spans /\ r.start \in Nat /\ r.to \in Nat /\ r.type \in Types /\ n \in 1 .. N
  BY <1>1
<1>5. to \in 0 .. Day /\ (to = r.to \/ to = Day) /\ to <= r.to
  BY <1>4, DayAssumption
<1>6. CASE to <= a.t \/ r.start >= Day
  <2>1. Fill(a, r) = a
    BY <1>6 DEF Fill
  <2>2. r.to <= a.t \/ a.t = Day \/ r.start >= Day
    BY <1>2, <1>4, <1>5, <1>6, DayAssumption
  <2>3. ASSUME NEW j \in 1 .. n PROVE s[j].to <= a.t \/ a.t = Day \/ s[j].start >= Day
    <3>1. j \in 1 .. n - 1 \/ j = n
      BY <1>4
    <3> QED BY <1>3, <2>2, <3>1
  <2> QED BY <1>2, <2>1, <2>3 DEF Filled
<1>7. CASE a.t < to /\ r.start < Day
  <2> DEFINE x == Bare(r.start, r.type)
             y == Bare(a.t, r.type)
             g == Bare(a.t, "photo")
  <2>1. r.start < r.to /\ a.t \in 0 .. Day - 1 /\ r.start \in 0 .. Day - 1
    BY <1>1, <1>2, <1>4, <1>5, <1>7, DayAssumption
  <2>2. /\ x \in Segs /\ x.start = r.start /\ x.type = r.type
        /\ y \in Segs /\ y.start = a.t /\ y.type = r.type
        /\ g \in Segs /\ g.start = a.t /\ g.type = "photo"
    BY <1>4, <2>1, BareIsSeg DEF Bare, Types
  <2>3. \A m \in 0 .. Day - 1 : In(r, m) => Fits(s, m, r.type)
    BY <1>1 DEF Fits
  <2> DEFINE b == Fill(a, r)
  <2>4. \A out : Partition(out, to) /\ Shown(s, out, to) /\ b.out = out /\ b.t = to
          => Filled(s, n, b)
    <3>1. ASSUME NEW j \in 1 .. n PROVE s[j].to <= to \/ to = Day \/ s[j].start >= Day
      <4>1. j \in 1 .. n - 1 \/ j = n
        BY <1>4
      <4>2. \A i \in 1 .. N : s[i].to \in Nat
        BY <1>1
      <4> QED BY <1>2, <1>3, <1>4, <1>5, <1>7, <4>1, <4>2, DayAssumption
    <3> HIDE DEF b
    <3> QED BY <3>1 DEF Filled
  <2>5. CASE r.start > a.t
    <3>1. b.t = to /\ b.out = a.out \o <<g>> \o <<x>>
      BY <1>2, <1>5, <1>7, <2>1, <2>5, DayAssumption DEF Fill
    <3>2. b.out = Append(Append(a.out, g), x)
      BY <1>2, <3>1 DEF Partition
    <3>3. ASSUME NEW m \in 0 .. Day - 1, a.t <= m /\ m < r.start PROVE Fits(s, m, g.type)
      <4>1. ASSUME NEW j \in 1 .. N PROVE ~In(s[j], m)
        <5>1. s[j].start \in Nat /\ s[j].to \in Nat /\ m \in Int
          BY <1>1, DayAssumption
        <5>2. CASE j \in 1 .. n - 1
          BY <1>2, <1>3, <2>1, <3>3, <5>1, <5>2, DayAssumption DEF In
        <5>3. CASE j >= n
          <6>1. r.start <= s[j].start
            BY <1>1, <1>4, <5>3
          <6> QED BY <1>4, <3>3, <5>1, <6>1 DEF In
        <5> QED BY <1>4, <5>2, <5>3
      <4> QED BY <1>1, <2>2, <4>1 DEF Fits
    <3> HIDE DEF b, g, x
    <3>4. Partition(Append(a.out, g), r.start) /\ Shown(s, Append(a.out, g), r.start)
      <4>1. r.start \in 0 .. Day /\ a.t < r.start
        BY <2>1, <2>5, DayAssumption
      <4> QED BY <1>2, <2>2, <3>3, <4>1, ShownAppend
    <3>5. ASSUME NEW m \in 0 .. Day - 1, r.start <= m /\ m < to PROVE Fits(s, m, x.type)
      <4>1. In(r, m)
        BY <1>4, <1>5, <3>5, DayAssumption DEF In
      <4> QED BY <2>2, <2>3, <4>1
    <3>6. Partition(b.out, to) /\ Shown(s, b.out, to)
      <4>1. to \in 0 .. Day /\ r.start < to
        BY <1>5, <2>1
      <4> DEFINE covered == Append(a.out, g)
      <4>2. Partition(covered, r.start) /\ Shown(s, covered, r.start) /\ b.out = Append(covered, x)
        BY <3>2, <3>4
      <4> HIDE DEF to, covered
      <4>3. Partition(Append(covered, x), to) /\ Shown(s, Append(covered, x), to)
        BY <2>2, <3>5, <4>1, <4>2, ShownAppend
      <4> QED BY <4>2, <4>3
    <3> QED BY <2>4, <3>1, <3>6 DEF b
  <2>6. CASE r.start <= a.t
    <3>1. b.t = to /\ b.out = a.out \o <<>> \o <<y>>
      BY <1>2, <1>5, <1>7, <2>1, <2>6, DayAssumption DEF Fill
    <3>2. b.out = Append(a.out, y)
      BY <1>2, <3>1 DEF Partition
    <3> HIDE DEF b, y
    <3>3. ASSUME NEW m \in 0 .. Day - 1, a.t <= m /\ m < to PROVE Fits(s, m, y.type)
      <4>1. In(r, m)
        BY <1>2, <1>4, <1>5, <2>6, <3>3, DayAssumption DEF In
      <4> QED BY <2>2, <2>3, <4>1
    <3>4. Partition(b.out, to) /\ Shown(s, b.out, to)
      <4>1. to \in 0 .. Day /\ a.t < to
        BY <1>5, <1>7
      <4> HIDE DEF to
      <4> QED BY <1>2, <2>2, <3>2, <3>3, <4>1, ShownAppend
    <3> QED BY <2>4, <3>1, <3>4 DEF b
  <2>7. Filled(s, n, b)
    BY <1>2, <1>4, <2>5, <2>6, DayAssumption
  <2> QED BY <2>7
<1> QED BY <1>2, <1>4, <1>5, <1>6, <1>7, DayAssumption

FillState == [t : 0 .. Day, out : Seq(Segs)]

LEMMA FillRuns ==
  ASSUME NEW s \in Seq(Spans)
  PROVE  \E f : f = [n \in 0 .. Len(s) |->
                       IF n = 0 THEN [t |-> 0, out |-> <<>>] ELSE Fill(f[n - 1], s[n])]
<1> DEFINE N == Len(s)
           d == [p \in (1 .. N) \X FillState |-> Fill(p[2], s[p[1]])]
           z == [t |-> 0, out |-> <<>>]
<1>0. N \in Nat /\ \A n \in 1 .. N : s[n] \in Spans
  BY SeqFacts
<1>1. ASSUME NEW a \in FillState, NEW r \in Spans PROVE Fill(a, r) \in FillState
  <2> DEFINE to == IF r.to < Day THEN r.to ELSE Day
  <2>1. r.start \in Nat /\ r.to \in Nat /\ r.type \in Types /\ "photo" \in Types
    BY DEF Spans, Kinds, Types
  <2>2. a.t \in 0 .. Day /\ a.out \in Seq(Segs)
    BY DEF FillState
  <2>3. CASE to <= a.t \/ r.start >= Day
    BY <2>3 DEF Fill
  <2>4. CASE a.t < to /\ r.start < Day
    <3>1. /\ to \in 0 .. Day /\ a.t \in 0 .. Day - 1 /\ r.start \in 0 .. Day - 1
      BY <2>1, <2>2, <2>4, DayAssumption
    <3>2. /\ Bare(a.t, "photo") \in Segs /\ Bare(a.t, r.type) \in Segs
          /\ Bare(r.start, r.type) \in Segs
      BY <2>1, <3>1, BareIsSeg
    <3>3. Fill(a, r).t = to
      BY <2>1, <2>2, <2>4, DayAssumption DEF Fill
    <3> DEFINE gap == IF r.start > a.t THEN <<Bare(a.t, "photo")>> ELSE <<>>
               from == IF r.start > a.t THEN r.start ELSE a.t
    <3>4. Fill(a, r) = [t |-> to, out |-> a.out \o gap \o <<Bare(from, r.type)>>]
      BY <2>1, <2>2, <2>4, DayAssumption DEF Fill
    <3>5. gap \in Seq(Segs) /\ Bare(from, r.type) \in Segs
      BY <3>2
    <3> HIDE DEF to, gap, from
    <3> QED BY <2>2, <3>1, <3>4, <3>5 DEF FillState
  <2> QED BY <2>1, <2>2, <2>3, <2>4, DayAssumption
<1>2. d \in [(1 .. N) \X FillState -> FillState]
  BY <1>0, <1>1
<1>3. \A n \in 1 .. N, t \in FillState : d[<<n, t>>] = Fill(t, s[n])
  OBVIOUS
<1>4. z \in FillState
  BY DayAssumption DEF FillState
<1> HIDE DEF N, d, z
<1>5. Loop(FillState, z, N, d)
  BY <1>0, <1>2, <1>4 DEF Loop
<1>6. PICK f : Runs(FillState, z, N, d, f)
  BY <1>5, LoopRuns
<1>7. ASSUME NEW n \in 1 .. N PROVE f[n] = Fill(f[n - 1], s[n])
  <2>1. f[n] = d[<<n, f[n - 1]>>]
    BY <1>6 DEF Runs
  <2>2. f[n - 1] \in FillState
    BY <1>0, <1>6 DEF Runs
  <2> QED BY <1>3, <2>1, <2>2
<1>8. f = [n \in 0 .. N |-> IF n = 0 THEN z ELSE Fill(f[n - 1], s[n])]
  BY <1>0, <1>6, <1>7 DEF Runs
<1> QED BY <1>8 DEF N, z

LEMMA FillRun ==
  ASSUME NEW s \in Seq(Spans), Ascending(s), NEW g,
         g = [n \in 0 .. Len(s) |->
                IF n = 0 THEN [t |-> 0, out |-> <<>>] ELSE Fill(g[n - 1], s[n])]
  PROVE  Filled(s, Len(s), g[Len(s)])
<1> DEFINE G == {n \in 0 .. Len(s) : g[n] \in FillState /\ Filled(s, n, g[n])}
<1>0. Len(s) \in Nat
  BY SeqFacts
<1>1. 0 \in G
  <2> DEFINE z == [t |-> 0, out |-> <<>>]
  <2>1. g[0] = z
    BY <1>0
  <2>2. z.t = 0 /\ z.out = <<>> /\ z \in FillState
    BY DayAssumption DEF FillState
  <2>3. Filled(s, 0, z)
    <3> HIDE DEF z
    <3>1. Partition(z.out, z.t)
      BY <2>2, DayAssumption DEF Partition, Rising
    <3>2. Shown(s, z.out, z.t)
      BY <2>2, DayAssumption DEF Shown
    <3> QED BY <3>1, <3>2 DEF Filled
  <2> HIDE DEF z
  <2> QED BY <1>0, <2>1, <2>2, <2>3
<1>2. ASSUME NEW n \in 1 .. Len(s), n - 1 \in G PROVE n \in G
  <2>1. g[n] = Fill(g[n - 1], s[n])
    BY <1>0
  <2>2. g[n - 1] \in FillState /\ Filled(s, n - 1, g[n - 1])
    BY <1>2
  <2>3. Filled(s, n, g[n])
    BY <2>1, <2>2, FillStep DEF FillState
  <2>4. g[n] \in FillState
    <3>1. Partition(g[n].out, g[n].t)
      BY <2>3 DEF Filled
    <3>2. g[n] = g[n - 1] \/ \E t, out : g[n] = [t |-> t, out |-> out]
      BY <2>1 DEF Fill
    <3> QED BY <2>2, <3>1, <3>2 DEF Partition, FillState
  <2> QED BY <1>0, <2>3, <2>4
<1> HIDE DEF G
<1>3. 0 .. Len(s) \subseteq G
  BY <1>0, <1>1, <1>2, UpTo
<1> QED BY <1>0, <1>3 DEF G

(* fill_partition covers the day, with nothing but what the ranges say.     *)
LEMMA Fills ==
  ASSUME NEW s \in Seq(Spans), Ascending(s)
  PROVE  Well(FillPartition(s)) /\ Shown(s, FillPartition(s), Day)
<1> DEFINE g == CHOOSE f : f = [n \in 0 .. Len(s) |->
                  IF n = 0 THEN [t |-> 0, out |-> <<>>] ELSE Fill(f[n - 1], s[n])]
           a == g[Len(s)]
           q == Append(a.out, Bare(a.t, "photo"))
<1>1. g = [n \in 0 .. Len(s) |->
             IF n = 0 THEN [t |-> 0, out |-> <<>>] ELSE Fill(g[n - 1], s[n])]
  BY FillRuns
<1>2. FillPartition(s) = IF a.t < Day THEN q ELSE a.out
  BY DEF FillPartition
<1> HIDE DEF g
<1>3. Filled(s, Len(s), a)
  BY <1>1, FillRun
<1> HIDE DEF a
<1>4. Partition(a.out, a.t) /\ Shown(s, a.out, a.t) /\ a.t \in 0 .. Day
  BY <1>3 DEF Filled, Partition
<1>5. ASSUME NEW out, Partition(out, Day) PROVE Well(out)
  BY <1>5, DayAssumption DEF Partition, Well
<1>6. CASE a.t < Day
  <2>1. /\ a.t \in 0 .. Day - 1 /\ Day \in 0 .. Day /\ "photo" \in Types
    BY <1>4, <1>6, DayAssumption DEF Types
  <2>2. Bare(a.t, "photo") \in Segs /\ Bare(a.t, "photo").start = a.t
        /\ Bare(a.t, "photo").type = "photo"
    BY <2>1, BareIsSeg DEF Bare
  <2>3. ASSUME NEW m \in 0 .. Day - 1, a.t <= m /\ m < Day PROVE Fits(s, m, "photo")
    <3>1. ASSUME NEW j \in DOMAIN s PROVE ~In(s[j], m)
      <4>1. j \in 1 .. Len(s) /\ s[j] \in Spans
        BY SeqFacts
      <4>2. s[j].start \in Nat /\ s[j].to \in Nat
        BY <4>1 DEF Spans
      <4>3. s[j].to <= a.t \/ a.t = Day \/ s[j].start >= Day
        BY <1>3, <4>1 DEF Filled
      <4> QED BY <1>6, <2>1, <2>3, <4>2, <4>3, DayAssumption DEF In
    <3> QED BY <3>1 DEF Fits
  <2>4. Partition(q, Day) /\ Shown(s, q, Day)
    BY <1>4, <1>6, <2>1, <2>2, <2>3, ShownAppend
  <2> QED BY <1>2, <1>5, <1>6, <2>4
<1>7. CASE a.t = Day
  BY <1>2, <1>4, <1>5, <1>7, DayAssumption
<1> QED BY <1>4, <1>6, <1>7, DayAssumption

LEMMA RangesFacts ==
  ASSUME NEW range, range # NoLabel => range \in Nat \X Nat, NEW type \in Kinds
  PROVE  /\ Ranges(range, type) \in Seq(Spans)
         /\ \A e \in Entries(Ranges(range, type)) : e.type = type
         /\ \A m \in 0 .. Day - 1 :
              Covers(range, m) <=> \E e \in Entries(Ranges(range, type)) : In(e, m)
<1> DEFINE R == Ranges(range, type)
           p(from, to) == [start |-> from, to |-> to, type |-> type]
<1>1. CASE range = NoLabel
  <2>1. R = <<>>
    BY <1>1 DEF Ranges
  <2>2. Entries(R) = {}
    BY <2>1 DEF Entries
  <2> QED BY <1>1, <2>1, <2>2 DEF Covers
<1>2. CASE range # NoLabel
  <2>1. range[1] \in Nat /\ range[2] \in Nat
    BY <1>2
  <2>2. CASE range[2] <= range[1]
    <3>1. R = <<p(range[1], Day), p(0, range[2])>>
      BY <1>2, <2>2 DEF Ranges
    <3>2. p(range[1], Day) \in Spans /\ p(0, range[2]) \in Spans
      BY <2>1, DayAssumption DEF Spans, Kinds
    <3>3. R \in Seq(Spans)
      BY <3>1, <3>2
    <3>4. Entries(R) = {p(range[1], Day), p(0, range[2])}
      BY <3>1 DEF Entries
    <3>5. \A m \in 0 .. Day - 1 : Covers(range, m) <=> range[1] <= m \/ m < range[2]
      BY <1>2, <2>2 DEF Covers
    <3> HIDE DEF R
    <3>6. \A m \in 0 .. Day - 1 :
            (\E e \in Entries(R) : In(e, m)) <=> range[1] <= m \/ m < range[2]
      BY <2>1, <3>4, DayAssumption DEF In
    <3>7. \A e \in Entries(R) : e.type = type
      BY <3>4
    <3> QED BY <3>3, <3>5, <3>6, <3>7 DEF R
  <2>3. CASE ~(range[2] <= range[1])
    <3>1. R = <<p(range[1], range[2])>>
      BY <1>2, <2>3 DEF Ranges
    <3>2. p(range[1], range[2]) \in Spans
      BY <2>1, <2>3 DEF Spans, Kinds
    <3>3. R \in Seq(Spans)
      BY <3>1, <3>2
    <3>4. Entries(R) = {p(range[1], range[2])}
      BY <3>1 DEF Entries
    <3>5. \A m \in 0 .. Day - 1 : Covers(range, m) <=> range[1] <= m /\ m < range[2]
      BY <1>2, <2>3 DEF Covers
    <3> HIDE DEF R
    <3>6. \A m \in 0 .. Day - 1 :
            (\E e \in Entries(R) : In(e, m)) <=> range[1] <= m /\ m < range[2]
      BY <2>1, <3>4, DayAssumption DEF In
    <3>7. \A e \in Entries(R) : e.type = type
      BY <3>4
    <3> QED BY <3>3, <3>5, <3>6, <3>7 DEF R
  <2> QED BY <2>2, <2>3
<1> QED BY <1>1, <1>2

LEMMA EntriesOfConcat ==
  ASSUME NEW E, NEW s \in Seq(E), NEW t \in Seq(E)
  PROVE  s \o t \in Seq(E) /\ Entries(s \o t) = Entries(s) \cup Entries(t)
<1>1. /\ Len(s) \in Nat /\ Len(t) \in Nat /\ DOMAIN s = 1 .. Len(s) /\ DOMAIN t = 1 .. Len(t)
      /\ s \o t \in Seq(E) /\ DOMAIN (s \o t) = 1 .. Len(s) + Len(t)
      /\ \A i \in 1 .. Len(s) : (s \o t)[i] = s[i]
      /\ \A i \in Len(s) + 1 .. Len(s) + Len(t) : (s \o t)[i] = t[i - Len(s)]
  OBVIOUS
<1> DEFINE c == s \o t
<1> HIDE DEF c
<1>2. ASSUME NEW i \in 1 .. Len(s) + Len(t) PROVE c[i] \in Entries(s) \cup Entries(t)
  <2>1. CASE i \in 1 .. Len(s)
    BY <1>1, <2>1 DEF Entries, c
  <2>2. CASE i \in Len(s) + 1 .. Len(s) + Len(t)
    <3>1. i - Len(s) \in 1 .. Len(t)
      BY <1>1, <2>2
    <3> QED BY <1>1, <2>2, <3>1 DEF Entries, c
  <2> QED BY <1>1, <2>1, <2>2
<1>3. ASSUME NEW i \in 1 .. Len(s) PROVE s[i] \in Entries(c)
  BY <1>1 DEF Entries, c
<1>4. ASSUME NEW i \in 1 .. Len(t) PROVE t[i] \in Entries(c)
  <2>1. Len(s) + i \in Len(s) + 1 .. Len(s) + Len(t) /\ (Len(s) + i) - Len(s) = i
        /\ Len(s) + i \in DOMAIN c
    BY <1>1 DEF c
  <2>2. c[Len(s) + i] = t[i]
    BY <1>1, <2>1 DEF c
  <2> QED BY <2>1, <2>2 DEF Entries
<1>5. Entries(c) = Entries(s) \cup Entries(t)
  <2>1. Entries(c) \subseteq Entries(s) \cup Entries(t)
    BY <1>1, <1>2 DEF Entries, c
  <2>2. Entries(s) \subseteq Entries(c) /\ Entries(t) \subseteq Entries(c)
    BY <1>1, <1>3, <1>4 DEF Entries
  <2> QED BY <2>1, <2>2
<1> QED BY <1>1, <1>5 DEF c

LEMMA SpansTimed == Timed(Spans)
BY DEF Spans, Timed

LEMMA LegacyFacts ==
  ASSUME NEW c \in Legacies \cup {Default}
  PROVE  /\ LegacyRaw(c) \in Seq(Spans) /\ Ascending(LegacyRaw(c))
         /\ Entries(LegacyRaw(c)) =
              (IF c.weatherOn THEN Entries(Ranges(c.weather, "weather")) ELSE {})
                \cup Entries(Ranges(c.photo, "photo"))
                \cup (IF c.freeOn THEN Entries(Ranges(c.free, "free")) ELSE {})
<1> DEFINE w == IF c.weatherOn THEN Ranges(c.weather, "weather") ELSE <<>>
           p == Ranges(c.photo, "photo")
           f == IF c.freeOn THEN Ranges(c.free, "free") ELSE <<>>
           s == w \o p \o f
<1>1. /\ Ranges(c.weather, "weather") \in Seq(Spans)
      /\ Ranges(c.photo, "photo") \in Seq(Spans)
      /\ Ranges(c.free, "free") \in Seq(Spans)
  <2>1. \A range \in {c.weather, c.photo, c.free} : range # NoLabel => range \in Nat \X Nat
    BY ScheduleAssumption
  <2>2. "weather" \in Kinds /\ "photo" \in Kinds /\ "free" \in Kinds
    BY DEF Kinds
  <2> QED BY <2>1, <2>2, RangesFacts
<1>2. w \in Seq(Spans) /\ p \in Seq(Spans) /\ f \in Seq(Spans)
  BY <1>1
<1>3. /\ Entries(w) = IF c.weatherOn THEN Entries(Ranges(c.weather, "weather")) ELSE {}
      /\ Entries(f) = IF c.freeOn THEN Entries(Ranges(c.free, "free")) ELSE {}
  BY DEF Entries
<1>4. s \in Seq(Spans) /\ Entries(s) = Entries(w) \cup Entries(p) \cup Entries(f)
  <2> HIDE DEF w, p, f
  <2>1. w \o p \in Seq(Spans) /\ Entries(w \o p) = Entries(w) \cup Entries(p)
    BY <1>2, EntriesOfConcat
  <2> DEFINE wp == w \o p
  <2> HIDE DEF wp
  <2>2. wp \in Seq(Spans)
    BY <2>1 DEF wp
  <2>3. wp \o f \in Seq(Spans) /\ Entries(wp \o f) = Entries(wp) \cup Entries(f)
    BY <1>2, <2>2, EntriesOfConcat
  <2> QED BY <2>1, <2>3 DEF wp
<1>5. LegacyRaw(c) = ByStart(s)
  BY DEF LegacyRaw
<1> HIDE DEF s
<1>6. ByStart(s) \in Seq(Spans) /\ Ascending(ByStart(s)) /\ Entries(ByStart(s)) = Entries(s)
  BY <1>4, Sorted, SpansTimed
<1> QED BY <1>3, <1>4, <1>5, <1>6

LEMMA UnsavedIsWell ==
  ASSUME ScheduleIInv, stored = <<>>
  PROVE  Well(Segments) /\ Shown(LegacyRaw(legacy), Segments, Day)
<1>1. legacy \in Legacies \cup {Default}
  BY DEF ScheduleIInv, ScheduleTyped
<1>2. LegacyRaw(legacy) \in Seq(Spans) /\ Ascending(LegacyRaw(legacy))
  BY <1>1, LegacyFacts
<1>3. Segments = FillPartition(LegacyRaw(legacy))
  BY DEF Segments, Effective
<1> QED BY <1>2, <1>3, Fills

(* The ranges of older versions, overlapping or over midnight, show at every *)
(* minute what was enabled for it, or a photo (_legacy_raw, fill_partition). *)
THEOREM LegacyKept == ScheduleSpec => []LegacyAsConfigured
<1> DEFINE on(t, m) ==
             CASE t = "weather" -> legacy.weatherOn /\ Covers(legacy.weather, m)
               [] t = "free" -> legacy.freeOn /\ Covers(legacy.free, m)
               [] t = "photo" -> Covers(legacy.photo, m)
               [] OTHER -> FALSE
           types(m) == {t \in Types : on(t, m)}
<1>1. ASSUME ScheduleIInv, stored = <<>>, NEW m \in 0 .. Day - 1
      PROVE  CurrentSegment(Segments, m).type \in (IF types(m) = {} THEN {"photo"} ELSE types(m))
  <2> DEFINE s == LegacyRaw(legacy)
             ws == Entries(Ranges(legacy.weather, "weather"))
             ps == Entries(Ranges(legacy.photo, "photo"))
             fs == Entries(Ranges(legacy.free, "free"))
  <2>1. Well(Segments) /\ Shown(s, Segments, Day)
    BY <1>1, UnsavedIsWell
  <2>2. m \in Nat /\ m % Day = m /\ m < Day
    BY DayAssumption
  <2>3. PICK k : ShowsAt(Segments, k, m) /\ Fits(s, m, Segments[k].type)
    BY <2>1, <2>2 DEF Shown
  <2>4. CurrentSegment(Segments, m) = Segments[k]
    BY <2>1, <2>2, <2>3, HitShows DEF CurrentSegment
  <2>5. legacy \in Legacies \cup {Default}
    BY <1>1 DEF ScheduleIInv, ScheduleTyped
  <2>6. /\ \A range \in {legacy.weather, legacy.photo, legacy.free} :
             range # NoLabel => range \in Nat \X Nat
        /\ legacy.weatherOn \in BOOLEAN /\ legacy.freeOn \in BOOLEAN
    BY <2>5, ScheduleAssumption
  <2>7. "weather" \in Kinds /\ "photo" \in Kinds /\ "free" \in Kinds
    BY DEF Kinds
  <2>8. /\ \A e \in ws : e.type = "weather"
        /\ Covers(legacy.weather, m) <=> \E e \in ws : In(e, m)
    BY <2>6, <2>7, RangesFacts
  <2>9. /\ \A e \in ps : e.type = "photo"
        /\ Covers(legacy.photo, m) <=> \E e \in ps : In(e, m)
    BY <2>6, <2>7, RangesFacts
  <2>10. /\ \A e \in fs : e.type = "free"
         /\ Covers(legacy.free, m) <=> \E e \in fs : In(e, m)
    BY <2>6, <2>7, RangesFacts
  <2>11. Entries(s) = (IF legacy.weatherOn THEN ws ELSE {}) \cup ps
                        \cup (IF legacy.freeOn THEN fs ELSE {})
    BY <2>5, LegacyFacts
  <2> HIDE DEF s, ws, ps, fs
  <2>12. CASE \E j \in DOMAIN s : In(s[j], m) /\ s[j].type = Segments[k].type
    <3>1. PICK e \in Entries(s) : In(e, m) /\ e.type = Segments[k].type
      BY <2>12 DEF Entries
    <3>2. on(e.type, m) /\ e.type \in Types
      <4>1. CASE legacy.weatherOn /\ e \in ws
        BY <2>8, <3>1, <4>1 DEF Types
      <4>2. CASE e \in ps
        BY <2>9, <3>1, <4>2 DEF Types
      <4>3. CASE legacy.freeOn /\ e \in fs
        BY <2>10, <3>1, <4>3 DEF Types
      <4> QED BY <2>11, <3>1, <4>1, <4>2, <4>3
    <3>3. Segments[k].type \in types(m)
      BY <3>1, <3>2
    <3> HIDE DEF types
    <3> QED BY <2>4, <3>3
  <2>13. CASE Segments[k].type = "photo" /\ \A j \in DOMAIN s : ~In(s[j], m)
    <3>1. \A e \in Entries(s) : ~In(e, m)
      BY <2>13 DEF Entries
    <3>2. \A t \in Types : ~on(t, m)
      BY <2>6, <2>8, <2>9, <2>10, <2>11, <3>1 DEF Types
    <3>3. types(m) = {}
      BY <3>2
    <3> HIDE DEF types
    <3> QED BY <2>4, <2>13, <3>3
  <2> QED BY <2>3, <2>12, <2>13 DEF Fits
<1>2. ScheduleIInv => LegacyAsConfigured
  BY <1>1 DEF LegacyAsConfigured
<1> QED BY ScheduleSafety, <1>2, PTL

(* The start that names the caches of a segment is that of one content, and  *)
(* a content keeps it, over midnight too (segment_start).                    *)
THEOREM OneStartPerContent == ScheduleSpec => OneContentOneStart
<1>1. ASSUME ScheduleIInv, ScheduleNext, UNCHANGED <<stored, legacy>>
      PROVE  /\ Continues(Segments, clock, clock') => Alike(Segments, clock, clock')
             /\ stored # <<>> /\ Len(Segments) > 1 /\ Alike(Segments, clock, clock')
                  => Continues(Segments, clock, clock')
  <2>1. Well(Segments) /\ (stored # <<>> => Apart(Segments))
    BY <1>1, SavedIsWell, UnsavedIsWell, CanonicalAgain
  <2>2. clock \in Nat /\ (clock' = clock \/ clock' = clock + 1)
    BY <1>1 DEF ScheduleIInv, ScheduleTyped, ScheduleNext, Save, SaveLegacy, Pass
  <2>3. CASE clock' = clock
    BY <2>3, SameEquivalence DEF Continues, Alike
  <2>4. CASE clock' = clock + 1
    BY <2>1, <2>2, <2>4, OneStart
  <2> QED BY <2>2, <2>3, <2>4
<1>2. ScheduleIInv /\ [ScheduleNext]_scheduleVars =>
        [UNCHANGED <<stored, legacy>> =>
           /\ Continues(Segments, clock, clock') => Alike(Segments, clock, clock')
           /\ stored # <<>> /\ Len(Segments) > 1 /\ Alike(Segments, clock, clock')
                => Continues(Segments, clock, clock')]_scheduleVars
  BY <1>1
<1> QED BY ScheduleSafety, <1>2, PTL DEF ScheduleSpec, OneContentOneStart

-----------------------------------------------------------------------------
(* The daily photo.                                                         *)

-----------------------------------------------------------------------------
(* Days.                                                                    *)

LEMMA DivBounds ==
  ASSUME NEW t \in Nat
  PROVE  /\ DayOf(t) \in Nat
         /\ Day * DayOf(t) <= t /\ t < Day * DayOf(t) + Day
BY DayAssumption DEF DayOf

(* A later instant is on a later day or on the same.                        *)
LEMMA DaysAscend ==
  ASSUME NEW t \in Nat, NEW u \in Nat, t <= u
  PROVE  DayOf(t) <= DayOf(u)
<1> SUFFICES ASSUME DayOf(u) + 1 <= DayOf(t) PROVE FALSE
  BY DivBounds
<1>1. Day * (DayOf(u) + 1) <= Day * DayOf(t)
  BY DayAssumption, DivBounds
<1>2. Day * (DayOf(u) + 1) = Day * DayOf(u) + Day
  BY DayAssumption, DivBounds
<1> QED BY <1>1, <1>2, DivBounds, DayAssumption

-----------------------------------------------------------------------------
(* The invariant.                                                           *)

Choosing == {"fresh", "meta", "pick"}
Steps == {"idle", "frame", "record", "used"} \cup Choosing

(* A record has a frame, and a day that has begun.                          *)
Typed ==
  /\ now \in Nat
  /\ photos \subseteq Photo
  /\ pc \in Steps
  /\ byHand \in BOOLEAN /\ moved \in BOOLEAN
  /\ DOMAIN record \subseteq DOMAIN frame
  /\ \A k \in DOMAIN record : record[k].day \in Nat /\ record[k].day <= DayOf(now)

(* The two files of a key agree, but for a crash or a rendering between     *)
(* writing them; the frame of that rendering is there.                      *)
FilesAgree ==
  /\ \A k \in DOMAIN record \ cut :
       ~(pc = "record" /\ k = key) => frame[k] = record[k].photo
  /\ pc = "record" => key \in DOMAIN frame /\ frame[key] = chosen

(* A picture of a bound segment, made or being made, is of its category or  *)
(* the owner's choice, if that segment was current until it was chosen.     *)
OfCategory ==
  /\ \A k \in DOMAIN record :
       k[2] # NoLabel /\ ~record[k].moved
         => record[k].byHand \/ Album[record[k].photo] = k[2]
  /\ pc \in {"frame", "record", "used"} /\ key[2] # NoLabel /\ ~moved
       => byHand \/ Album[chosen] = key[2]

(* As long as nothing moved, the key of the request is that of the current  *)
(* segment, and what was judged fresh is there.                             *)
OnKey ==
  /\ pc \in Choosing /\ ~moved => key = SlotKey
  /\ pc = "meta" /\ ~moved => key \in DOMAIN record

(* What is then being made takes the place of an older day's, or it is a    *)
(* day the owner picked a photo for.                                        *)
Outdated ==
  pc \in {"pick", "frame", "record"} /\ ~moved /\ key \in DOMAIN record
    => record[key].day < DayOf(now) \/ manual.day = record[key].day

IInv == Typed /\ FilesAgree /\ OfCategory /\ OnKey /\ Outdated

LEMMA InitIInv == Init => IInv
<1> SUFFICES ASSUME Init PROVE IInv
  OBVIOUS
<1>1. DOMAIN frame = {} /\ DOMAIN record = {}
  BY DEF Init
<1> QED BY <1>1, DailyAssumption
        DEF Init, IInv, Typed, FilesAgree, OfCategory, OnKey, Outdated, Steps, Choosing

-----------------------------------------------------------------------------
(* What may be chosen.                                                      *)

LEMMA BestOfSet ==
  ASSUME NEW S, NEW n
  PROVE  Best(S, n) \subseteq S
BY DEF Best

(* A query that returns at least one row returns one of a set that has any. *)
LEMMA BestOfSome ==
  ASSUME NEW S, S \subseteq Photo, S # {}, NEW n \in Nat \ {0}
  PROVE  Best(S, n) # {}
<1> DEFINE T == {Rank[p] : p \in S}
<1>1. T \subseteq Nat /\ T # {}
  BY DailyAssumption
<1> HIDE DEF T
<1>2. PICK x \in T : \A y \in T : x <= y
  BY <1>1, LeastNat
<1>3. PICK p \in S : x = Rank[p]
  BY DEF T
<1>4. \A q \in S : Rank[q] \in Nat /\ Rank[q] \in T
  BY DailyAssumption DEF T
<1>5. \A q \in S : ~(Rank[q] < Rank[p])
  BY <1>2, <1>3, <1>4
<1>6. {q \in S : Rank[q] < Rank[p]} = {}
  BY <1>5
<1>7. Cardinality({q \in S : Rank[q] < Rank[p]}) < n
  BY <1>6, FS_EmptySet
<1> QED BY <1>7 DEF Best

(* A row that fewer than n rows outrank is among the best n of any part of  *)
(* the table that has it.                                                   *)
LEMMA BestOfFew ==
  ASSUME NEW R, R \subseteq Photo, NEW S, S \subseteq R, NEW p \in S, NEW n \in Nat,
         Cardinality({q \in R : Rank[q] < Rank[p]}) < n
  PROVE  p \in Best(S, n)
<1>1. IsFiniteSet({q \in R : Rank[q] < Rank[p]})
  BY DailyAssumption, FS_Subset
<1>2. {q \in S : Rank[q] < Rank[p]} \subseteq {q \in R : Rank[q] < Rank[p]}
  OBVIOUS
<1>3. /\ Cardinality({q \in S : Rank[q] < Rank[p]}) <= Cardinality({q \in R : Rank[q] < Rank[p]})
      /\ Cardinality({q \in S : Rank[q] < Rank[p]}) \in Nat
      /\ Cardinality({q \in R : Rank[q] < Rank[p]}) \in Nat
  BY <1>1, <1>2, FS_Subset, FS_CardinalityType
<1>4. Cardinality({q \in S : Rank[q] < Rank[p]}) < n
  BY <1>3
<1> QED BY <1>4 DEF Best

LEMMA TopOfSet ==
  ASSUME NEW S, NEW t
  PROVE  Top(S, t) \subseteq S /\ (S \subseteq Photo /\ S # {} => Top(S, t) # {})
<1> DEFINE rested == {p \in S : used[p] < t - Day}
           pool == IF rested # {} THEN rested ELSE S
<1>1. Top(S, t) = Best(pool, TopLimit)
  BY DEF Top
<1>2. pool \subseteq S /\ (S # {} => pool # {})
  OBVIOUS
<1> HIDE DEF pool
<1>3. Top(S, t) \subseteq S
  BY <1>1, <1>2, BestOfSet
<1>4. ASSUME S \subseteq Photo, S # {} PROVE Top(S, t) # {}
  BY <1>1, <1>2, <1>4, BestOfSome, DailyAssumption
<1> QED BY <1>3, <1>4

LEMMA ListedOfSet ==
  ASSUME NEW S, NEW c
  PROVE  Listed(S, c) \subseteq S \cap photos
BY BestOfSet DEF Listed

LEMMA CandidatesOfCategory ==
  ASSUME NEW c, NEW t, c # NoLabel, NEW p \in Candidates(c, t)
  PROVE  Album[p] = c
<1> DEFINE matches == {q \in Rows(c) \cap analyzed : DayOf(t) \in Remembered[q]}
           found == IF c = Uncategorized THEN matches ELSE Best(matches, MatchLimit)
           scored == Listed(Rows(c) \cap analyzed, c)
           listed == Listed(Rows(c), c)
<1>1. found \subseteq Rows(c)
  BY BestOfSet
<1>2. scored \subseteq Rows(c) /\ listed \subseteq Rows(c)
  BY ListedOfSet
<1>3. Top(scored, t) \subseteq Rows(c) /\ Top(listed, t) \subseteq Rows(c)
  BY <1>2, TopOfSet
<1>4. Candidates(c, t) = CASE photos \cap found # {} -> photos \cap found
                           [] photos \cap found = {} /\ scored # {} -> Top(scored, t)
                           [] OTHER -> Top(listed, t)
  BY DEF Candidates
<1> HIDE DEF matches, found, scored, listed
<1>5. p \in Rows(c)
  BY <1>1, <1>3, <1>4
<1> QED BY <1>5 DEF Rows

(* A photo with its file that the query does not cut off.                   *)
LEMMA CategoryHasCandidates ==
  ASSUME Typed, NEW p \in photos, NEW t, Candidates(Album[p], t) = {}
  PROVE  /\ Album[p] # Uncategorized
         /\ ListLimit <= Cardinality({q \in Rows(Album[p]) : Rank[q] < Rank[p]})
<1> DEFINE c == Album[p]
           listed == Listed(Rows(c), c)
           scored == Listed(Rows(c) \cap analyzed, c)
<1>1. c # NoLabel /\ Rows(c) \subseteq Photo /\ p \in Rows(c)
  BY DailyAssumption DEF Rows, Typed
<1>2. listed \subseteq Photo /\ scored \subseteq Photo
  BY <1>1, ListedOfSet
<1>3. scored # {} => Top(scored, t) # {}
  BY <1>2, TopOfSet
<1>4. listed # {} => Top(listed, t) # {}
  BY <1>2, TopOfSet
<1>5. listed = {}
  BY <1>1, <1>3, <1>4 DEF Candidates
<1>6. c # Uncategorized
  BY <1>1, <1>5 DEF Listed
<1>7. p \notin Best(Rows(c), ListLimit)
  BY <1>5, <1>6 DEF Listed
<1>8. /\ IsFiniteSet({q \in Rows(c) : Rank[q] < Rank[p]})
      /\ Cardinality({q \in Rows(c) : Rank[q] < Rank[p]}) \in Nat
  BY <1>1, DailyAssumption, FS_Subset, FS_CardinalityType
<1>9. ~(Cardinality({q \in Rows(c) : Rank[q] < Rank[p]}) < ListLimit)
  BY <1>1, <1>7 DEF Best
<1> QED BY <1>6, <1>8, <1>9, DailyAssumption

-----------------------------------------------------------------------------
(* The clock and the schedule.                                              *)

LEMMA Later ==
  ASSUME Typed, Meanwhile
  PROVE  /\ now' \in Nat /\ DayOf(now) \in Nat /\ DayOf(now') \in Nat
         /\ DayOf(now) <= DayOf(now')
<1>1. now' \in Nat /\ now <= now'
  BY DEF Typed, Meanwhile, ClockGoesOn, ScheduleSaved
<1> QED BY <1>1, DivBounds, DaysAscend DEF Typed

(* A key carries the category its segment is bound to: when the key is      *)
(* still the same, the half of it that was read before is still right.      *)
LEMMA KeepsKey ==
  ASSUME SlotKey' = SlotKey
  PROVE  /\ KeyFor(PhotoCategory, segs', now') = SlotKey
         /\ SlotKey[2] = PhotoCategory'
<1>1. SlotKey[2] = PhotoCategory /\ SlotKey'[2] = PhotoCategory'
  BY DEF SlotKey, KeyFor
<1>2. PhotoCategory' = PhotoCategory
  BY <1>1
<1> QED BY <1>1, <1>2 DEF SlotKey

(* Days that have begun stay begun, and past ones past.                     *)
LEMMA TypedLater ==
  ASSUME IInv, Meanwhile, UNCHANGED <<library, files, manual>>,
         pc' \in Steps, byHand' \in BOOLEAN, moved' \in BOOLEAN
  PROVE  Typed'
BY Later DEF IInv, Typed, library, files

LEMMA FilesLater ==
  ASSUME IInv, UNCHANGED <<files, cut>>, pc # "record", pc' # "record"
  PROVE  FilesAgree'
BY DEF IInv, FilesAgree, files

LEMMA RecordsLater ==
  ASSUME IInv, UNCHANGED files, pc' \notin {"frame", "record", "used"}
  PROVE  OfCategory'
BY DEF IInv, OfCategory, files

-----------------------------------------------------------------------------
(* The steps.                                                               *)

LEMMA AskIInv ==
  ASSUME IInv, Ask
  PROVE  IInv'
<1>1. Typed'
  BY TypedLater DEF Ask, Notice, IInv, Typed, Steps, Choosing
<1>2. FilesAgree' /\ OfCategory'
  BY FilesLater, RecordsLater DEF Ask
<1>3. OnKey'
  BY KeepsKey DEF Ask, Notice, OnKey
<1> QED BY <1>1, <1>2, <1>3 DEF IInv, Ask, Outdated

LEMMA JudgeIInv ==
  ASSUME IInv, Judge
  PROVE  IInv'
<1>1. Typed'
  BY TypedLater DEF Judge, Notice, IInv, Typed, Steps, Choosing
<1>2. FilesAgree' /\ OfCategory'
  BY FilesLater, RecordsLater DEF Judge
<1>3. pc = "fresh" /\ pc' \in {"meta", "pick"} /\ UNCHANGED <<key, record, frame, manual, photos>>
  BY DEF Judge, files, library
<1>4. ASSUME ~moved'
      PROVE  ~moved /\ key = SlotKey /\ SlotKey' = SlotKey
             /\ KeyFor(PhotoCategory, segs', now') = key
  <2>1. ~moved /\ SlotKey' = SlotKey
    BY <1>4 DEF Judge, Notice
  <2> QED BY <2>1, <1>3, KeepsKey DEF IInv, OnKey, Choosing
<1>5. OnKey'
  BY <1>3, <1>4 DEF OnKey, Judge, Fresh
<1>6. Outdated'
  <2> SUFFICES ASSUME pc' = "pick", ~moved', key \in DOMAIN record
               PROVE  record[key].day < DayOf(now') \/ manual.day = record[key].day
    BY <1>3 DEF Outdated
  <2>1. ~Fresh(key, now') /\ key \in DOMAIN frame
    BY <1>4 DEF Judge, IInv, Typed
  <2>2. record[key].day \in Nat /\ record[key].day <= DayOf(now') /\ DayOf(now') \in Nat
    BY <1>1, <1>3, DivBounds DEF Typed
  <2> QED BY <2>1, <2>2 DEF Fresh, Pinned
<1> QED BY <1>1, <1>2, <1>5, <1>6 DEF IInv

LEMMA RecallIInv ==
  ASSUME IInv, Recall
  PROVE  IInv'
<1> DEFINE k == KeyFor(PhotoCategory, segs', now')
<1>1. pc = "meta" /\ Meanwhile /\ UNCHANGED <<library, manual, files, cut>>
  BY DEF Recall
<1>2. CASE k \in DOMAIN record
  <2>1. Abandon
    BY <1>2 DEF Recall
  <2>2. Typed'
    BY <1>1, <2>1, TypedLater DEF Abandon, Steps, Choosing
  <2>3. FilesAgree' /\ OfCategory'
    BY <1>1, <2>1, FilesLater, RecordsLater DEF Abandon
  <2> QED BY <2>1, <2>2, <2>3 DEF IInv, Abandon, OnKey, Outdated, Choosing
<1>3. CASE k \notin DOMAIN record
  <2>1. pc' = "pick" /\ Notice /\ UNCHANGED <<key, chosen, byHand>>
    BY <1>3 DEF Recall
  <2>2. Typed'
    BY <1>1, <2>1, TypedLater DEF Notice, IInv, Typed, Steps, Choosing
  <2>3. FilesAgree' /\ OfCategory'
    BY <1>1, <2>1, FilesLater, RecordsLater
  <2>4. moved'
    <3> SUFFICES ASSUME ~moved, SlotKey' = SlotKey PROVE FALSE
      BY <2>1, <2>2 DEF Notice, Typed
    <3> QED BY <1>1, <1>3, KeepsKey DEF IInv, OnKey, Choosing
  <2> QED BY <2>2, <2>3, <2>4 DEF IInv, OnKey, Outdated
<1> QED BY <1>2, <1>3

LEMMA PickIInv ==
  ASSUME IInv, Pick
  PROVE  IInv'
<1>1. /\ pc = "pick" /\ pc' = "frame" /\ UNCHANGED <<library, manual, files, cut, key>>
      /\ Meanwhile /\ Notice
  BY DEF Pick
<1>2. Typed'
  <2>1. byHand' \in BOOLEAN /\ moved' \in BOOLEAN
    BY DEF Pick, Pinned, Notice, IInv, Typed
  <2> QED BY <1>1, <2>1, TypedLater DEF Steps
<1>3. FilesAgree'
  BY <1>1, FilesLater
<1>4. ASSUME ~moved' PROVE ~moved /\ key = SlotKey /\ SlotKey' = SlotKey
  BY <1>1, <1>4 DEF Notice, IInv, OnKey, Choosing
<1>5. OfCategory'
  <2>1. ASSUME key[2] # NoLabel, ~moved' PROVE byHand' \/ Album[chosen'] = key[2]
    <3>1. PhotoCategory' = key[2]
      BY <1>4, <2>1, KeepsKey
    <3>2. byHand' \/ chosen' \in Candidates(PhotoCategory', now')
      BY DEF Pick
    <3>3. ASSUME chosen' \in Candidates(key[2], now') PROVE Album[chosen'] = key[2]
      BY <2>1, <3>3, CandidatesOfCategory
    <3> QED BY <3>1, <3>2, <3>3
  <2> QED BY <1>1, <2>1 DEF IInv, OfCategory, files
<1>6. OnKey'
  BY <1>1 DEF OnKey, Choosing
<1>7. Outdated'
  <2> SUFFICES ASSUME ~moved', key \in DOMAIN record
               PROVE  record[key].day < DayOf(now') \/ manual.day = record[key].day
    BY <1>1 DEF Outdated, files
  <2>1. record[key].day < DayOf(now) \/ manual.day = record[key].day
    BY <1>1, <1>4 DEF IInv, Outdated
  <2>2. record[key].day \in Nat /\ DayOf(now) <= DayOf(now')
        /\ DayOf(now) \in Nat /\ DayOf(now') \in Nat
    BY <1>1, Later DEF IInv, Typed
  <2> QED BY <2>1, <2>2
<1> QED BY <1>2, <1>3, <1>5, <1>6, <1>7 DEF IInv

LEMMA PickNoneIInv ==
  ASSUME IInv, PickNone
  PROVE  IInv'
<1>1. Typed'
  BY TypedLater DEF PickNone, Abandon, Steps
<1>2. FilesAgree' /\ OfCategory'
  BY FilesLater, RecordsLater DEF PickNone, Abandon
<1> QED BY <1>1, <1>2 DEF IInv, PickNone, Abandon, OnKey, Outdated, Choosing

LEMMA WriteFrameIInv ==
  ASSUME IInv, WriteFrame
  PROVE  IInv'
<1>1. Typed'
  BY DEF WriteFrame, With, library, IInv, Typed, Steps
<1>2. FilesAgree'
  BY DEF WriteFrame, With, IInv, Typed, FilesAgree
<1>3. OfCategory' /\ Outdated' /\ OnKey'
  BY DEF WriteFrame, IInv, OfCategory, Outdated, OnKey, Choosing
<1> QED BY <1>1, <1>2, <1>3 DEF IInv

LEMMA WriteRecordIInv ==
  ASSUME IInv, WriteRecord
  PROVE  IInv'
<1>1. Typed'
  <2>1. DayOf(now) \in Nat
    BY DivBounds DEF IInv, Typed
  <2> QED BY <2>1 DEF WriteRecord, With, library, IInv, Typed, FilesAgree, Steps
<1>2. FilesAgree'
  BY DEF WriteRecord, With, IInv, FilesAgree
<1>3. OfCategory' /\ Outdated' /\ OnKey'
  BY DEF WriteRecord, With, IInv, OfCategory, Outdated, OnKey, Choosing
<1> QED BY <1>1, <1>2, <1>3 DEF IInv

LEMMA GoOnIInv ==
  ASSUME IInv, GoOn
  PROVE  IInv'
<1>1. Meanwhile /\ UNCHANGED <<library, manual, files, pc, key, chosen, byHand, cut>>
  BY DEF GoOn, Meanwhile
<1>2. moved' \in BOOLEAN /\ (~moved' => ~moved)
  BY DEF GoOn, Notice, IInv, Typed
<1>3. Typed'
  BY <1>1, <1>2, TypedLater DEF IInv, Typed
<1>4. FilesAgree'
  BY <1>1 DEF IInv, FilesAgree, files
<1>5. OfCategory'
  BY <1>1, <1>2 DEF IInv, OfCategory, files
<1>6. OnKey'
  <2>1. pc \in Choosing /\ ~moved' => ~moved /\ SlotKey' = SlotKey
    BY DEF GoOn, Notice, Choosing
  <2> QED BY <1>1, <1>2, <2>1 DEF IInv, OnKey, files, Choosing
<1>7. Outdated'
  <2> SUFFICES ASSUME pc \in {"pick", "frame", "record"}, ~moved', key \in DOMAIN record
               PROVE  record[key].day < DayOf(now') \/ manual.day = record[key].day
    BY <1>1 DEF Outdated, files
  <2>1. record[key].day < DayOf(now) \/ manual.day = record[key].day
    BY <1>2 DEF IInv, Outdated
  <2>2. record[key].day \in Nat /\ DayOf(now) <= DayOf(now')
        /\ DayOf(now) \in Nat /\ DayOf(now') \in Nat
    BY <1>1, Later DEF IInv, Typed
  <2> QED BY <2>1, <2>2
<1> QED BY <1>3, <1>4, <1>5, <1>6, <1>7 DEF IInv

LEMMA CrashIInv ==
  ASSUME IInv, Crash
  PROVE  IInv'
<1> USE DEF Crash, Abandon, With, IInv
<1>1. Typed'
  BY DEF Typed, Steps, library
<1>2. FilesAgree'
  BY DEF Typed, FilesAgree
<1>3. OfCategory' /\ Outdated' /\ OnKey'
  BY DEF OfCategory, Outdated, OnKey, Choosing
<1> QED BY <1>1, <1>2, <1>3

LEMMA OwnerIInv ==
  ASSUME IInv, Owner
  PROVE  IInv'
<1> USE DEF files, request, library, IInv, Typed, FilesAgree, OfCategory, OnKey, Outdated,
        SlotKey, PhotoCategory
<1>1. CASE (\E p \in Photo : Select(p)) \/ Unselect
  BY <1>1 DEF Select, Unselect, Enter, Choosing
<1>2. ASSUME NEW p \in Photo, SyncPhoto(p) \/ Analyze(p) PROVE IInv'
  BY <1>2 DEF SyncPhoto, Analyze, Enter
<1> QED BY <1>1, <1>2 DEF Owner

LEMMA NextIInv == IInv /\ [Next]_vars => IInv'
<1> SUFFICES ASSUME IInv, [Next]_vars PROVE IInv'
  OBVIOUS
<1>1. CASE Request
  BY <1>1, AskIInv, JudgeIInv, RecallIInv, PickIInv, PickNoneIInv DEF Request
<1>2. CASE WriteFrame \/ WriteRecord
  BY <1>2, WriteFrameIInv, WriteRecordIInv
<1>3. CASE PhotoGone \/ MarkUsed
  BY <1>3 DEF PhotoGone, MarkUsed, Abandon, files, IInv, Typed, FilesAgree, OfCategory,
     OnKey, Outdated, Steps, Choosing
<1>4. CASE GoOn \/ Owner \/ Crash
  BY <1>4, GoOnIInv, OwnerIInv, CrashIInv
<1>5. CASE UNCHANGED vars
  BY <1>5 DEF vars, IInv, Typed, FilesAgree, OfCategory, OnKey, Outdated, SlotKey, PhotoCategory
<1> QED BY <1>1, <1>2, <1>3, <1>4, <1>5 DEF Next, Render

LEMMA Safety == Spec => []IInv
BY InitIInv, NextIInv, PTL DEF Spec

-----------------------------------------------------------------------------
(* However polls, the clock, saved schedules, vanished photos and ends of   *)
(* the process interleave with a rendering: no key ever answers with the    *)
(* record of one picture and the frame of another, but after a crash or a   *)
(* failing write between writing the two.                                   *)
THEOREM RecordMatchesFrame == Spec => []ListedIsServed
<1>1. IInv => ListedIsServed
  BY DEF IInv, FilesAgree, ListedIsServed
<1> QED BY Safety, <1>1, PTL

(* A picture kept for a segment bound to a category is of that category or  *)
(* the owner's choice, unless another segment became current while it was   *)
(* chosen; and a category with a photo that no query limit cuts off has a   *)
(* picture to show.                                                         *)
THEOREM CategoryIsBound == Spec => []CategoryShown
<1>1. IInv => CategoryShown
  BY CategoryHasCandidates DEF IInv, OfCategory, CategoryShown
<1> QED BY Safety, <1>1, PTL

(* One picture per segment and day, but for days the owner picked a photo   *)
(* for and requests a change of segment fell into.                          *)
THEOREM OnePictureADay == Spec => StableWithinDay
<1>1. ASSUME IInv, Next, NEW k \in DOMAIN record \cap DOMAIN record',
             record'[k].photo # record[k].photo
      PROVE  record'[k].day # record[k].day \/ manual.day = DayOf(now) \/ moved
  <2>1. CASE WriteRecord
    <3>1. k = key /\ record'[k].day = DayOf(now) /\ pc = "record"
      BY <1>1, <2>1 DEF WriteRecord, With
    <3>2. moved \/ record[k].day < DayOf(now) \/ manual.day = record[k].day
      BY <3>1, <1>1 DEF IInv, Outdated
    <3>3. record[k].day \in Nat /\ DayOf(now) \in Nat
      BY <1>1, DivBounds DEF IInv, Typed
    <3> QED BY <3>1, <3>2, <3>3
  <2>2. CASE Crash
    BY <1>1, <2>2 DEF Crash
  <2>3. CASE ~WriteRecord /\ ~Crash
    BY <1>1, <2>3 DEF Next, Request, Render, Ask, Judge, Recall, Pick, PickNone, WriteFrame,
       PhotoGone, MarkUsed, GoOn, Owner, Select, Unselect, SyncPhoto, Analyze, files
  <2> QED BY <2>1, <2>2, <2>3
<1>2. IInv /\ [Next]_vars =>
        [\A k \in DOMAIN record \cap DOMAIN record' :
           record'[k].photo # record[k].photo
             => \/ record'[k].day # record[k].day
                \/ manual.day = DayOf(now)
                \/ moved]_vars
  BY <1>1
<1> QED BY Safety, <1>2, PTL DEF Spec, StableWithinDay
=============================================================================
