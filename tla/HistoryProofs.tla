---------------------------- MODULE HistoryProofs ----------------------------
(* Proofs about image configs: a config says what its history tells, and   *)
(* the history of a session starts with that of the base image.            *)
EXTENDS MountProofs, SequenceTheorems, WellFoundedInduction

-----------------------------------------------------------------------------
(* Sequences.                                                              *)

\* Some numbers have a least one, which is what inductions go by.
LEMMA LeastNat ==
    ASSUME NEW S, S \subseteq Nat, S # {}
    PROVE  \E n \in S : \A m \in S : n <= m
  <1> DEFINE R == {ss \in Nat \X Nat : ss[1] < ss[2]}
  <1>1. IsWellFoundedOn(R, Nat)
    BY NatLessThanWellFounded DEF OpToRel
  <1>2. \A m, n \in Nat : m < n => <<m, n>> \in R
    OBVIOUS
  <1> HIDE DEF R
  <1>3. PICK n \in S : \A m \in S : <<m, n>> \notin R
    BY <1>1, WFMin
  <1>4. \A m \in S : ~ (m < n)
    BY <1>2, <1>3
  <1> QED
    BY <1>3, <1>4

\* The function that FlattenSeq defines by recursion.
Flattens(g, ss, n) ==
    g = [i \in 1..n |-> IF i = 1 THEN ss[i] ELSE g[i - 1] \o ss[i]]
Flattened(ss) == CHOOSE g : Flattens(g, ss, Len(ss))

LEMMA FlattenIs ==
    ASSUME NEW ss
    PROVE  FlattenSeq(ss) = IF Len(ss) = 0 THEN ss ELSE Flattened(ss)[Len(ss)]
  BY DEF FlattenSeq, Flattened, Flattens

LEMMA FlattenedExists ==
    ASSUME NEW ss, Len(ss) \in Nat
    PROVE  Flattens(Flattened(ss), ss, Len(ss))
  <1> DEFINE bad == {n \in Nat : ~ \E g : Flattens(g, ss, n)}
  <1>1. bad = {}
    <2> SUFFICES ASSUME bad # {} PROVE FALSE
      OBVIOUS
    <2>1. PICK n \in bad : \A m \in bad : n <= m
      BY LeastNat
    <2>2. CASE n = 0
      <3> DEFINE g == [i \in 1..0 |-> <<>>]
      <3>1. g = [i \in 1..0 |-> IF i = 1 THEN ss[i] ELSE g[i - 1] \o ss[i]]
        OBVIOUS
      <3> QED
        BY <2>1, <2>2, <3>1 DEF Flattens
    <2>3. CASE n > 0
      <3>1. n - 1 \in Nat /\ n - 1 \notin bad
        BY <2>1, <2>3
      <3>2. PICK g : Flattens(g, ss, n - 1)
        BY <3>1
      <3> DEFINE last == IF n = 1 THEN ss[n] ELSE g[n - 1] \o ss[n]
                 f == [i \in 1..n |-> IF i = n THEN last ELSE g[i]]
      <3>3. ASSUME NEW i \in 1..n
            PROVE  f[i] = IF i = 1 THEN ss[i] ELSE f[i - 1] \o ss[i]
        <4>1. CASE i = n
          BY <2>1, <4>1
        <4>2. CASE i # n
          <5>1. i \in 1..(n - 1) /\ i - 1 # n /\ f[i] = g[i]
            BY <2>1, <4>2
          <5>2. i # 1 => f[i - 1] = g[i - 1]
            BY <2>1, <5>1
          <5>3. g[i] = IF i = 1 THEN ss[i] ELSE g[i - 1] \o ss[i]
            BY <3>2, <5>1 DEF Flattens
          <5> QED
            BY <5>1, <5>2, <5>3
        <4> QED
          BY <4>1, <4>2
      <3>4. f = [i \in 1..n |-> f[i]]
        OBVIOUS
      <3> HIDE DEF f
      <3>5. Flattens(f, ss, n)
        BY <3>3, <3>4 DEF Flattens
      <3> QED
        BY <2>1, <3>5
    <2> QED
      BY <2>1, <2>2, <2>3
  <1>2. \E g : Flattens(g, ss, Len(ss))
    BY <1>1
  <1> QED
    BY <1>2 DEF Flattened

\* One more sequence at the end.
LEMMA FlattenStep ==
    ASSUME NEW ss, NEW tt, NEW n \in Nat, Len(ss) = n, Len(tt) = n + 1,
           NEW S, tt[n + 1] \in Seq(S), n = 0 => ss = <<>>,
           \A i \in 1..n : tt[i] = ss[i]
    PROVE  FlattenSeq(tt) = FlattenSeq(ss) \o tt[n + 1]
  <1> DEFINE f == Flattened(ss)
             g == Flattened(tt)
             bad == {i \in 1..n : g[i] # f[i]}
  <1>1. Flattens(f, ss, n) /\ Flattens(g, tt, n + 1)
    <2>1. Flattens(f, ss, Len(ss))
      BY FlattenedExists
    <2>2. Flattens(g, tt, Len(tt))
      BY FlattenedExists
    <2> QED
      BY <2>1, <2>2
  <1> HIDE DEF f, g
  <1>6. ASSUME NEW i \in 1..n
        PROVE  /\ f[i] = IF i = 1 THEN ss[i] ELSE f[i - 1] \o ss[i]
               /\ g[i] = IF i = 1 THEN ss[i] ELSE g[i - 1] \o ss[i]
    <2>1. i \in 1..(n + 1) /\ tt[i] = ss[i]
      OBVIOUS
    <2>2. g[i] = IF i = 1 THEN tt[i] ELSE g[i - 1] \o tt[i]
      BY <1>1, <2>1 DEF Flattens
    <2>3. f[i] = IF i = 1 THEN ss[i] ELSE f[i - 1] \o ss[i]
      BY <1>1 DEF Flattens
    <2> QED
      BY <2>1, <2>2, <2>3
  <1>7. (n = 0 => g[n + 1] = tt[n + 1]) /\ (n # 0 => g[n + 1] = g[n] \o tt[n + 1])
    <2> DEFINE m == n + 1
    <2>1. m \in 1..m /\ m - 1 = n /\ (m = 1 <=> n = 0)
      OBVIOUS
    <2> HIDE DEF m
    <2>2. g[m] = IF m = 1 THEN tt[m] ELSE g[m - 1] \o tt[m]
      BY <1>1, <2>1 DEF Flattens, m
    <2>3. (n = 0 => g[m] = tt[m]) /\ (n # 0 => g[m] = g[n] \o tt[m])
      BY <2>1, <2>2
    <2> QED
      BY <2>3 DEF m
  <1>2. bad = {}
    <2> SUFFICES ASSUME bad # {} PROVE FALSE
      OBVIOUS
    <2>1. bad \subseteq Nat
      OBVIOUS
    <2>2. PICK i \in bad : \A m \in bad : i <= m
      BY <2>1, LeastNat
    <2>3. i \in 1..n /\ g[i] # f[i] /\ i \in 1..(n + 1)
      BY <2>2
    <2>4. i # 1 => i - 1 \in 1..n /\ i - 1 \notin bad
      BY <2>2, <2>3
    <2>5. i # 1 => g[i - 1] = f[i - 1]
      BY <2>4
    <2> QED
      BY <1>6, <2>3, <2>5
  <1>3. n + 1 # 0 /\ FlattenSeq(tt) = g[n + 1]
    BY FlattenIs DEF g
  <1>4. CASE n = 0
    <2>1. g[n + 1] = tt[n + 1]
      BY <1>4, <1>7
    <2>2. FlattenSeq(ss) = <<>>
      BY <1>4, FlattenIs
    <2> QED
      BY <1>3, <2>1, <2>2
  <1>5. CASE n # 0
    <2>1. FlattenSeq(ss) = f[n] /\ f[n] = g[n]
      BY <1>2, <1>5, FlattenIs DEF f
    <2>2. g[n + 1] = g[n] \o tt[n + 1]
      <3> HIDE DEF bad
      <3> QED
        BY ZenonT(20), <1>5, <1>7
    <2> QED
      BY <1>3, <2>1, <2>2
  <1> QED
    BY <1>4, <1>5

\* Of sequences over a set, and of empty ones.
LEMMA FlattenType ==
    ASSUME NEW S, NEW ss \in Seq(Seq(S))
    PROVE  FlattenSeq(ss) \in Seq(S)
  <1> DEFINE n == Len(ss)
             f == Flattened(ss)
             bad == {i \in 1..n : f[i] \notin Seq(S)}
  <1>1. n \in Nat /\ \A i \in 1..n : ss[i] \in Seq(S)
    OBVIOUS
  <1>2. f = [i \in 1..n |-> IF i = 1 THEN ss[i] ELSE f[i - 1] \o ss[i]]
    BY <1>1, FlattenedExists DEF Flattens
  <1> HIDE DEF f, n
  <1>3. bad = {}
    <2> SUFFICES ASSUME bad # {} PROVE FALSE
      OBVIOUS
    <2>1. bad \subseteq Nat
      BY <1>1
    <2>2. PICK i \in bad : \A m \in bad : i <= m
      BY <2>1, LeastNat
    <2>3. i # 1 => i - 1 \in 1..n /\ i - 1 \notin bad
      BY <1>1, <2>2
    <2>4. i # 1 => f[i - 1] \o ss[i] \in Seq(S)
      BY <1>1, <2>2, <2>3
    <2> QED
      BY <1>1, <1>2, <2>2, <2>4
  <1>4. CASE n = 0
    <2>1. FlattenSeq(ss) = ss /\ ss = <<>>
      BY <1>4, FlattenIs DEF n
    <2> QED
      BY <2>1
  <1>5. CASE n > 0
    <2>1. f[n] \in Seq(S)
      BY <1>1, <1>3, <1>5
    <2> QED
      BY <1>5, <2>1, FlattenIs DEF n, f
  <1> QED
    BY <1>1, <1>4, <1>5

LEMMA FlattenNone ==
    ASSUME NEW ss, IsList(ss), \A i \in DOMAIN ss : ss[i] = <<>>
    PROVE  FlattenSeq(ss) = <<>>
  <1>1. ss \in Seq(Seq({}))
    <2>1. ToSet(ss) \subseteq Seq({})
      <3>1. <<>> \in Seq({})
        OBVIOUS
      <3> QED
        BY <3>1 DEF ToSet
    <2> QED
      BY <2>1 DEF IsList
  <1>2. FlattenSeq(ss) \in Seq({})
    BY <1>1, FlattenType
  <1> QED
    BY <1>2

-----------------------------------------------------------------------------
(* What histories tell.                                                    *)

\* A history: a list of records.
IsHistory(h) == IsList(h) /\ \A i \in DOMAIN h : IsRecord(h[i])

LEMMA HistoryShape ==
    ASSUME NEW h, IsHistory(h)
    PROVE  Len(h) \in Nat /\ DOMAIN h = 1..Len(h) /\ (Len(h) = 0 => h = <<>>)
  <1>1. h \in Seq(ToSet(h))
    BY DEF IsHistory, IsList
  <1> QED
    BY <1>1

\* There is no DIFF after d, which is one or 0.
IsLastDiff(h, d) ==
    /\ d \in 0..Len(h) /\ (d # 0 => h[d].ins = "DIFF")
    /\ \A i \in DOMAIN h : i > d => h[i].ins # "DIFF"

LEMMA LastDiffIs ==
    ASSUME NEW h, IsHistory(h)
    PROVE  /\ IsLastDiff(h, LastDiff(h))
           /\ \A d : IsLastDiff(h, d) => LastDiff(h) = d
  <1> DEFINE n == Len(h)
             diffs == {i \in DOMAIN h : h[i].ins = "DIFF"}
             gaps == {n - i : i \in diffs}
             top(i) == i \in diffs /\ \A j \in diffs : j <= i
  <1>1. n \in Nat /\ DOMAIN h = 1..n
    BY HistoryShape
  <1>2. LastDiff(h) = IF diffs = {} THEN 0 ELSE CHOOSE i \in diffs : \A j \in diffs : j <= i
    BY DEF LastDiff
  <1> HIDE DEF n
  <1>3. diffs \subseteq 1..n
    BY <1>1
  <1>4. diffs # {} => \E i : top(i)
    <2> SUFFICES ASSUME diffs # {} PROVE \E i : top(i)
      OBVIOUS
    <2> HIDE DEF diffs
    <2>1. gaps \subseteq Nat /\ gaps # {}
      BY <1>1, <1>3
    <2>2. PICK g \in gaps : \A k \in gaps : g <= k
      BY <2>1, LeastNat
    <2>3. PICK i \in diffs : g = n - i
      BY <2>2
    <2>4. ASSUME NEW j \in diffs
          PROVE  j <= i
      <3>1. n - i <= n - j
        BY <2>2, <2>3
      <3> QED
        BY <1>1, <1>3, <3>1
    <2> QED
      BY <2>4
  <1>5. CASE diffs = {}
    BY <1>1, <1>2, <1>5 DEF IsLastDiff, n
  <1>6. CASE diffs # {}
    <2>1. top(LastDiff(h))
      BY <1>2, <1>4, <1>6
    <2>2. ASSUME NEW d, IsLastDiff(h, d)
          PROVE  d = LastDiff(h)
      <3>1. d \in 0..n /\ (d # 0 => d \in diffs) /\ \A i \in diffs : ~ (i > d)
        BY <1>1, <2>2 DEF IsLastDiff, n
      <3>2. LastDiff(h) \in 1..n /\ ~ (LastDiff(h) > d) /\ (d # 0 => d <= LastDiff(h))
        BY <1>3, <2>1, <3>1
      <3> QED
        BY <1>1, <3>1, <3>2
    <2>3. IsLastDiff(h, LastDiff(h))
      <3>1. LastDiff(h) \in 1..n /\ h[LastDiff(h)].ins = "DIFF"
        BY <1>3, <2>1
      <3>2. \A i \in DOMAIN h : i > LastDiff(h) => h[i].ins # "DIFF"
        BY <1>1, <2>1, <3>1
      <3> QED
        BY <1>1, <3>1, <3>2 DEF IsLastDiff, n
    <2> QED
      BY <2>2, <2>3
  <1> QED
    BY <1>5, <1>6

\* What one record tells of an instruction.
Tale(h, k, i, after) == IF k > after /\ h[k].ins = i THEN h[k].args ELSE <<>>
Tales(h, i, after) == [k \in DOMAIN h |-> Tale(h, k, i, after)]

LEMMA ToldTales ==
    ASSUME NEW h, IsHistory(h), NEW i \in Instructions, NEW after
    PROVE  /\ Told(h, i, after) = FlattenSeq(Tales(h, i, after))
           /\ \A k \in 1..Len(h) : Tale(h, k, i, after) \in Seq(Keys)
           /\ Tales(h, i, after) \in Seq(Seq(Keys)) /\ Len(Tales(h, i, after)) = Len(h)
           /\ \A k \in 1..Len(h) : Tales(h, i, after)[k] = Tale(h, k, i, after)
           /\ Told(h, i, after) \in Seq(Keys)
  <1> DEFINE n == Len(h)
             t == Tales(h, i, after)
  <1>1. n \in Nat /\ DOMAIN h = 1..n
    BY HistoryShape
  <1>2. Told(h, i, after) = FlattenSeq(t)
    BY DEF Told, Tales, Tale
  <1>3. \A k \in 1..n : h[k].ins = i => h[k].args \in Seq(Keys)
    BY <1>1 DEF IsHistory, IsRecord
  <1> HIDE DEF n
  <1>4. \A k \in 1..n : Tale(h, k, i, after) \in Seq(Keys)
    BY <1>3 DEF Tale
  <1>5. t = [k \in 1..n |-> Tale(h, k, i, after)]
    BY <1>1 DEF Tales
  <1> HIDE DEF t
  <1>6. t \in Seq(Seq(Keys)) /\ Len(t) = n /\ \A k \in 1..n : t[k] = Tale(h, k, i, after)
    BY <1>1, <1>4, <1>5
  <1>7. FlattenSeq(t) \in Seq(Keys)
    BY <1>6, FlattenType
  <1> QED
    BY <1>2, <1>4, <1>6, <1>7 DEF t, n

\* No history, nothing told.
LEMMA ToldNothing ==
    ASSUME NEW h, IsHistory(h), NEW i \in Instructions, NEW after,
           \A k \in 1..Len(h) : Tale(h, k, i, after) = <<>>
    PROVE  Told(h, i, after) = <<>>
  <1> DEFINE t == Tales(h, i, after)
  <1>1. /\ Told(h, i, after) = FlattenSeq(t) /\ t \in Seq(Seq(Keys)) /\ Len(t) = Len(h)
        /\ \A k \in 1..Len(h) : t[k] = Tale(h, k, i, after)
    BY ToldTales
  <1> HIDE DEF t
  <1>2. IsList(t) /\ \A k \in DOMAIN t : t[k] = <<>>
    BY <1>1, SeqIsList
  <1> QED
    BY <1>1, <1>2, FlattenNone

\* Histories that tell the same, record by record.
LEMMA ToldSame ==
    ASSUME NEW h, IsHistory(h), NEW g, IsHistory(g), NEW i \in Instructions, NEW after,
           Len(g) = Len(h),
           \A k \in 1..Len(h) : g[k].ins = h[k].ins /\ g[k].args = h[k].args
    PROVE  Told(g, i, after) = Told(h, i, after)
  <1>1. DOMAIN g = DOMAIN h /\ DOMAIN h = 1..Len(h)
    BY HistoryShape
  <1>2. Tales(g, i, after) = Tales(h, i, after)
    BY <1>1 DEF Tales, Tale
  <1> QED
    BY <1>2, ToldTales

LEMMA HistoryAppend ==
    ASSUME NEW h, IsHistory(h), NEW r, IsRecord(r)
    PROVE  IsHistory(Append(h, r))
  <1> DEFINE n == Len(h)
             g == Append(h, r)
  <1>1. /\ IsList(g) /\ n \in Nat /\ DOMAIN h = 1..n /\ DOMAIN g = 1..(n + 1)
        /\ \A k \in 1..n : g[k] = h[k]
        /\ g[n + 1] = r
    BY AppendList DEF IsHistory
  <1>2. \A k \in 1..(n + 1) : k \in 1..n \/ k = n + 1
    BY <1>1
  <1> HIDE DEF g, n
  <1>3. IsHistory(g)
    BY <1>1, <1>2 DEF IsHistory
  <1> QED
    BY <1>3 DEF g

\* One more record at the end tells its arguments.
LEMMA ToldAppend ==
    ASSUME NEW h, IsHistory(h), NEW r, IsRecord(r), NEW i \in Instructions, NEW after
    PROVE  Told(Append(h, r), i, after) =
               Told(h, i, after) \o Tale(Append(h, r), Len(h) + 1, i, after)
  <1> DEFINE n == Len(h)
             g == Append(h, r)
             s == Tales(h, i, after)
             t == Tales(g, i, after)
  <1>1. /\ IsList(g) /\ n \in Nat /\ Len(g) = n + 1 /\ DOMAIN h = 1..n /\ DOMAIN g = 1..(n + 1)
        /\ \A k \in 1..n : g[k] = h[k]
        /\ g[n + 1] = r
    BY AppendList DEF IsHistory
  <1>3. IsHistory(g)
    BY HistoryAppend
  <1>4. /\ Told(h, i, after) = FlattenSeq(s) /\ s \in Seq(Seq(Keys)) /\ Len(s) = n
        /\ \A k \in 1..n : s[k] = Tale(h, k, i, after)
    BY ToldTales
  <1> HIDE DEF g
  <1>5. /\ Told(g, i, after) = FlattenSeq(t) /\ Len(t) = Len(g)
        /\ \A k \in 1..Len(g) : t[k] = Tale(g, k, i, after) /\ Tale(g, k, i, after) \in Seq(Keys)
    BY <1>3, ToldTales
  <1> HIDE DEF n, s, t
  <1>6. \A k \in 1..n : t[k] = s[k]
    BY <1>1, <1>4, <1>5 DEF Tale
  <1>7. n = 0 => s = <<>>
    BY <1>4
  <1>8. n + 1 \in 1..Len(g)
    BY <1>1
  <1>9. FlattenSeq(t) = FlattenSeq(s) \o t[n + 1]
    <2>1. n \in Nat /\ Len(s) = n /\ Len(t) = n + 1
      BY <1>1, <1>4, <1>5
    <2>2. t[n + 1] \in Seq(Keys)
      BY <1>5, <1>8
    <2> QED
      BY <1>6, <1>7, <2>1, <2>2, FlattenStep
  <1> QED
    BY <1>4, <1>5, <1>8, <1>9 DEF g, n

LEMMA TaleSame ==
    ASSUME NEW h, NEW g, NEW k, NEW i, NEW after, g[k] = h[k]
    PROVE  Tale(g, k, i, after) = Tale(h, k, i, after)
  BY DEF Tale

LEMMA AppendConcat ==
    ASSUME NEW S, NEW s \in Seq(S), NEW e \in S
    PROVE  s \o <<e>> = Append(s, e) /\ s \o <<>> = s
  OBVIOUS

LEMMA ConcatAppend ==
    ASSUME NEW S, NEW s \in Seq(S), NEW t \in Seq(S), NEW e \in S
    PROVE  s \o Append(t, e) = Append(s \o t, e)
  <1>1. <<e>> \in Seq(S) /\ s \o t \in Seq(S)
    OBVIOUS
  <1>2. (s \o t) \o <<e>> = s \o (t \o <<e>>)
    BY <1>1, ConcatAssociative
  <1> QED
    BY <1>1, <1>2, AppendConcat

\* An argument more in the last record.
Extended(g, h, arg) ==
    /\ Len(h) > 0 /\ Len(g) = Len(h)
    /\ \A k \in 1..Len(h) : k # Len(h) => g[k] = h[k]
    /\ g[Len(h)].ins = h[Len(h)].ins /\ g[Len(h)].sess = h[Len(h)].sess
    /\ g[Len(h)].args = Append(h[Len(h)].args, arg)

LEMMA ExtendedIs ==
    ASSUME NEW h, IsHistory(h), NEW g, IsHistory(g), Len(h) > 0, NEW arg,
           g = [h EXCEPT ![Len(h)].args = Append(@, arg)]
    PROVE  Extended(g, h, arg)
  <1> DEFINE n == Len(h)
             e == h[n]
             args == Append(e.args, arg)
  <1>1. n \in Nat /\ n > 0 /\ DOMAIN h = 1..n /\ n \in DOMAIN h
    BY HistoryShape
  <1>2. Len(g) = n
    <2>1. DOMAIN g = 1..n
      BY <1>1
    <2>2. DOMAIN g = 1..Len(g) /\ Len(g) \in Nat
      BY HistoryShape
    <2> HIDE DEF n
    <2> QED
      BY <1>1, <2>1, <2>2
  <1>3. (\A k \in 1..n : k # n => g[k] = h[k]) /\ g[n] = [e EXCEPT !.args = args]
    BY <1>1
  <1>4. IsRecord(e)
    BY <1>1 DEF IsHistory
  <1>5. g[n].ins = e.ins /\ g[n].sess = e.sess /\ g[n].args = args
    <2> HIDE DEF e, args, n
    <2> QED
      BY <1>3, <1>4 DEF IsRecord, Record
  <1> QED
    BY <1>1, <1>2, <1>3, <1>5 DEF Extended

LEMMA ToldExtended ==
    ASSUME NEW h, IsHistory(h), NEW g, IsHistory(g), NEW arg \in Keys, Extended(g, h, arg),
           h[Len(h)].ins \in Instructions,
           NEW i \in Instructions, NEW after, after < Len(h), after \in Nat
    PROVE  Told(g, i, after) = IF h[Len(h)].ins = i THEN Append(Told(h, i, after), arg)
                               ELSE Told(h, i, after)
  <1> DEFINE n == Len(h)
             e == h[n]
             args == Append(e.args, arg)
             init == [k \in 1..(n - 1) |-> Tale(h, k, i, after)]
             s == Tales(h, i, after)
             t == Tales(g, i, after)
  <1>1. n \in Nat /\ n > 0 /\ DOMAIN h = 1..n /\ n \in DOMAIN h /\ n - 1 \in Nat
    BY HistoryShape DEF Extended
  <1>2. Len(g) = n
    BY DEF Extended
  <1>3. (\A k \in 1..n : k # n => g[k] = h[k]) /\ g[n].ins = e.ins /\ g[n].args = args
    BY DEF Extended
  <1>4. IsRecord(e) /\ e.ins \in Instructions
    BY <1>1 DEF IsHistory
  <1>5. e.args \in Seq(Keys) /\ args \in Seq(Keys)
    BY <1>4 DEF IsRecord
  <1>7. /\ Told(h, i, after) = FlattenSeq(s) /\ Len(s) = n
        /\ \A k \in 1..n : s[k] = Tale(h, k, i, after) /\ Tale(h, k, i, after) \in Seq(Keys)
    BY ToldTales
  <1>8. /\ Told(g, i, after) = FlattenSeq(t) /\ Len(t) = n
        /\ \A k \in 1..n : t[k] = Tale(g, k, i, after) /\ Tale(g, k, i, after) \in Seq(Keys)
    BY <1>2, ToldTales
  <1>9. n > after
    BY <1>1
  <1> HIDE DEF n, e, args, s, t
  <1>10. /\ init \in Seq(Seq(Keys)) /\ Len(init) = n - 1 /\ (n - 1 = 0 => init = <<>>)
         /\ \A k \in 1..(n - 1) : init[k] = Tale(h, k, i, after)
    <2>1. \A k \in 1..(n - 1) : Tale(h, k, i, after) \in Seq(Keys)
      BY <1>1, <1>7
    <2>2. init \in Seq(Seq(Keys)) /\ Len(init) = n - 1
      BY <1>1, <2>1
    <2>3. \A k \in 1..(n - 1) : init[k] = Tale(h, k, i, after)
      OBVIOUS
    <2> HIDE DEF init
    <2>4. n - 1 = 0 => init = <<>>
      BY <2>2
    <2> QED
      BY <2>2, <2>3, <2>4
  <1> HIDE DEF init
  <1>11. \A k \in 1..(n - 1) : s[k] = init[k] /\ t[k] = init[k]
    <2>1. \A k \in 1..(n - 1) : k \in 1..n /\ k # n
      BY <1>1
    <2>2. \A k \in 1..(n - 1) : Tale(g, k, i, after) = Tale(h, k, i, after)
      <3> SUFFICES ASSUME NEW k \in 1..(n - 1)
                   PROVE  Tale(g, k, i, after) = Tale(h, k, i, after)
        OBVIOUS
      <3>1. g[k] = h[k]
        BY <1>3, <2>1
      <3> QED
        BY <3>1, TaleSame
    <2> QED
      BY <1>7, <1>8, <1>10, <2>1, <2>2
  <1>12. /\ s[n] = (IF e.ins = i THEN e.args ELSE <<>>)
         /\ t[n] = (IF e.ins = i THEN args ELSE <<>>)
    BY <1>1, <1>3, <1>7, <1>8, <1>9 DEF Tale, e
  <1>13. FlattenSeq(s) = FlattenSeq(init) \o s[n] /\ FlattenSeq(t) = FlattenSeq(init) \o t[n]
    <2> DEFINE m == n - 1
    <2>1. m \in Nat /\ m + 1 = n /\ s[n] \in Seq(Keys) /\ t[n] \in Seq(Keys)
      BY <1>1, <1>7, <1>8
    <2>2. /\ Len(init) = m /\ Len(s) = m + 1 /\ Len(t) = m + 1 /\ (m = 0 => init = <<>>)
          /\ \A k \in 1..m : s[k] = init[k] /\ t[k] = init[k]
      BY <1>1, <1>7, <1>8, <1>10, <1>11
    <2> HIDE DEF m
    <2>3. FlattenSeq(s) = FlattenSeq(init) \o s[m + 1]
      BY <2>1, <2>2, FlattenStep
    <2>4. FlattenSeq(t) = FlattenSeq(init) \o t[m + 1]
      BY <2>1, <2>2, FlattenStep
    <2> QED
      BY <2>1, <2>3, <2>4
  <1>14. FlattenSeq(init) \in Seq(Keys)
    BY <1>10, FlattenType
  <1>15. e.ins = i => FlattenSeq(init) \o args = Append(FlattenSeq(init) \o e.args, arg)
    BY <1>5, <1>14, ConcatAppend DEF args
  <1> QED
    BY <1>7, <1>8, <1>12, <1>13, <1>15 DEF n, e

\* What a history tells after an instruction with one argument.
Grows(h, g, ins, arg) ==
    /\ Len(h) <= Len(g) /\ LastDiff(g) = LastDiff(h)
    /\ \A i \in Instructions, after \in {LastDiff(h), 0} :
          Told(g, i, after) = IF i = ins THEN Append(Told(h, i, after), arg)
                              ELSE Told(h, i, after)

LEMMA AppendGrows ==
    ASSUME NEW h, IsHistory(h), NEW r, IsRecord(r), NEW ins \in Instructions, NEW arg \in Keys,
           r.ins = ins, r.args = <<arg>>
    PROVE  IsHistory(Append(h, r)) /\ Grows(h, Append(h, r), ins, arg)
  <1> DEFINE n == Len(h)
             g == Append(h, r)
  <1>1. /\ n \in Nat /\ Len(g) = n + 1 /\ DOMAIN h = 1..n /\ DOMAIN g = 1..(n + 1)
        /\ \A k \in 1..n : g[k] = h[k]
        /\ g[n + 1] = r
    BY AppendList DEF IsHistory
  <1>2. IsHistory(g) /\ r.ins # "DIFF"
    BY HistoryAppend DEF Instructions, KeyValues, Once, Replaced
  <1>3. LastDiff(h) \in 0..n
    BY LastDiffIs DEF IsLastDiff
  <1>4. LastDiff(g) = LastDiff(h)
    <2>1. IsLastDiff(h, LastDiff(h))
      BY LastDiffIs
    <2>2. \A k \in 1..(n + 1) : k \in 1..n \/ k = n + 1
      BY <1>1
    <2> HIDE DEF g, n
    <2>3. IsLastDiff(g, LastDiff(h))
      BY <1>1, <1>2, <1>3, <2>1, <2>2 DEF IsLastDiff, n
    <2> QED
      BY <1>2, <2>3, LastDiffIs
  <1>5. ASSUME NEW i \in Instructions, NEW after \in {LastDiff(h), 0}
        PROVE  Told(g, i, after) = IF i = ins THEN Append(Told(h, i, after), arg)
                                   ELSE Told(h, i, after)
    <2>1. Told(g, i, after) = Told(h, i, after) \o Tale(g, n + 1, i, after)
      BY ToldAppend
    <2>2. after \in 0..n
      BY <1>1, <1>3
    <2> HIDE DEF g, n
    <2>3. Tale(g, n + 1, i, after) = IF i = ins THEN <<arg>> ELSE <<>>
      BY <1>1, <2>2 DEF Tale
    <2>4. Told(h, i, after) \in Seq(Keys)
      BY ToldTales
    <2> QED
      BY <2>1, <2>3, <2>4, AppendConcat
  <1>6. Len(h) <= Len(g)
    BY <1>1
  <1> QED
    BY <1>2, <1>4, <1>5, <1>6 DEF Grows

LEMMA ExtendGrows ==
    ASSUME NEW h, IsHistory(h), NEW g, IsHistory(g), NEW ins \in Instructions, NEW arg \in Keys,
           Extended(g, h, arg), h[Len(h)].ins = ins
    PROVE  Grows(h, g, ins, arg)
  <1> DEFINE n == Len(h)
  <1>1. n \in Nat /\ n > 0 /\ DOMAIN h = 1..n /\ Len(g) = n /\ DOMAIN g = 1..n
    BY HistoryShape DEF Extended
  <1>2. ins # "DIFF"
    BY DEF Instructions, KeyValues, Once, Replaced
  <1>3. \A k \in 1..n : g[k].ins = h[k].ins
    BY DEF Extended
  <1>4. IsLastDiff(h, LastDiff(h))
    BY LastDiffIs
  <1>5. LastDiff(h) \in 0..n /\ LastDiff(h) < n
    BY <1>1, <1>2, <1>4 DEF IsLastDiff
  <1>6. LastDiff(g) = LastDiff(h)
    <2>1. IsLastDiff(g, LastDiff(h))
      BY <1>1, <1>3, <1>4 DEF IsLastDiff
    <2> QED
      BY <2>1, LastDiffIs
  <1>7. ASSUME NEW i \in Instructions, NEW after \in {LastDiff(h), 0}
        PROVE  Told(g, i, after) = IF i = ins THEN Append(Told(h, i, after), arg)
                                   ELSE Told(h, i, after)
    <2>1. after \in Nat /\ after < n
      BY <1>1, <1>5
    <2> QED
      BY <2>1, ToldExtended
  <1>8. Len(h) <= Len(g)
    BY <1>1
  <1> QED
    BY <1>6, <1>7, <1>8 DEF Grows

-----------------------------------------------------------------------------
(* Configs say what their history tells.                                   *)

LEMMA ImageHistoryIs ==
    ASSUME NEW img, IsImage(img)
    PROVE  IsHistory(img.history) /\ img.set \in [Instructions -> Seq(Keys)]
  BY DEF IsImage, IsHistory

LEMMA InjectiveMore ==
    ASSUME NEW s, IsList(s), IsInjective(s), NEW e, e \notin ToSet(s),
           NEW t, t = Append(s, e)
    PROVE  IsInjective(t)
  <1> DEFINE n == Len(s)
  <1>1. /\ n \in Nat /\ DOMAIN s = 1..n /\ DOMAIN t = 1..(n + 1)
        /\ (\A i \in 1..n : t[i] = s[i]) /\ t[n + 1] = e
    BY AppendList
  <1>2. \A i \in 1..n : s[i] \in ToSet(s)
    BY <1>1 DEF ToSet
  <1>3. \A i \in 1..(n + 1) : i \in 1..n \/ i = n + 1
    BY <1>1
  <1>4. \A i, j \in 1..n : s[i] = s[j] => i = j
    BY <1>1 DEF IsInjective
  <1> HIDE DEF n
  <1>5. \A i, j \in 1..(n + 1) : t[i] = t[j] => i = j
    BY <1>1, <1>2, <1>3, <1>4
  <1> QED
    BY <1>1, <1>5 DEF IsInjective

\* What there is of the base's values, and what was told since.
Had(base, img, i) == IF LastDiff(img.history) > Len(base.history) THEN <<>> ELSE base.set[i]
Since(base, img, i) == ToldSince(base, img, i, LastDiff(img.history))

\* A config goes on from a base.
TellsFrom(base, img) == IsImage(base) /\ KeepsTelling(base, img) /\ Tells(base, img)

LEMMA TellsIs ==
    ASSUME NEW base, NEW img
    PROVE  Tells(base, img) <=>
        /\ \A i \in {"ENV", "ONBUILD"} \cup Once : img.set[i] = Had(base, img, i) \o Since(base, img, i)
        /\ \A i \in Once : /\ IsInjective(Since(base, img, i))
                           /\ ToSet(Since(base, img, i)) \cap ToSet(Had(base, img, i)) = {}
        /\ \A i \in Replaced : img.set[i] = IF Since(base, img, i) = <<>> THEN Had(base, img, i)
                                            ELSE <<Last(Since(base, img, i))>>
        /\ ToSet(img.set["LABEL"]) =
              ToSet(base.set["LABEL"]) \cup ToSet(ToldSince(base, img, "LABEL", 0))
  BY DEF Tells, Had, Since

LEMMA SubSeqMore ==
    ASSUME NEW s \in Seq(Keys), NEW t \in Seq(Keys), IsPrefix(s, t), NEW a \in Keys
    PROVE  /\ SubSeq(t, Len(s) + 1, Len(t)) \in Seq(Keys)
           /\ SubSeq(Append(t, a), Len(s) + 1, Len(Append(t, a)))
                = Append(SubSeq(t, Len(s) + 1, Len(t)), a)
           /\ IsPrefix(s, Append(t, a))
  <1>1. Len(s) <= Len(t) /\ SubSeq(s, 1, Len(s)) = SubSeq(t, 1, Len(s))
    BY DEF IsPrefix
  <1>2. SubSeq(t, Len(s) + 1, Len(t)) \in Seq(Keys)
    OBVIOUS
  <1>3. SubSeq(Append(t, a), Len(s) + 1, Len(Append(t, a))) = Append(SubSeq(t, Len(s) + 1, Len(t)), a)
    <2> DEFINE u == Append(t, a)
               m == Len(s) + 1
               n == Len(t) + 1
    <2>1. u \in Seq(Keys) /\ Len(u) = n /\ u[n] = a /\ m \in 1..Len(u) /\ n \in m..Len(u)
      BY <1>1
    <2>2. SubSeq(u, m, n) = SubSeq(u, m, n - 1) \o <<u[n]>>
      BY <2>1, SubSeqRecursiveSecond
    <2>3. SubSeq(u, m, n - 1) = SubSeq(t, m, Len(t))
      BY <1>1
    <2> DEFINE v == SubSeq(t, m, Len(t))
    <2>4. v \in Seq(Keys)
      BY <1>2
    <2> HIDE DEF u, m, n, v
    <2>5. v \o <<a>> = Append(v, a)
      BY <2>4, AppendConcat
    <2>6. SubSeq(u, m, n) = v \o <<a>>
      BY <2>1, <2>2, <2>3 DEF v
    <2>7. SubSeq(u, m, Len(u)) = Append(v, a)
      BY <2>1, <2>5, <2>6
    <2> QED
      BY <2>7 DEF u, m, v
  <1>4. SubSeq(Append(t, a), 1, Len(s)) = SubSeq(t, 1, Len(s))
    BY <1>1
  <1>5. Len(s) <= Len(Append(t, a))
    BY <1>1
  <1> QED
    BY <1>1, <1>2, <1>3, <1>4, <1>5 DEF IsPrefix

LEMMA ToSetConcat ==
    ASSUME NEW s \in Seq(Keys), NEW t \in Seq(Keys)
    PROVE  ToSet(s \o t) = ToSet(s) \cup ToSet(t)
  <1>1. \A e : e \in ToSet(s) \cup ToSet(t) => e \in ToSet(s \o t)
    <2>1. \A i \in DOMAIN s : i \in DOMAIN (s \o t) /\ (s \o t)[i] = s[i]
      OBVIOUS
    <2>2. \A i \in DOMAIN t : Len(s) + i \in DOMAIN (s \o t) /\ (s \o t)[Len(s) + i] = t[i]
      OBVIOUS
    <2> QED
      BY <2>1, <2>2 DEF ToSet
  <1>2. \A e : e \in ToSet(s \o t) => e \in ToSet(s) \cup ToSet(t)
    <2>1. \A i \in DOMAIN (s \o t) : \/ i \in DOMAIN s /\ (s \o t)[i] = s[i]
                                     \/ i - Len(s) \in DOMAIN t /\ (s \o t)[i] = t[i - Len(s)]
      OBVIOUS
    <2> QED
      BY <2>1 DEF ToSet
  <1> QED
    BY <1>1, <1>2

\* What a config tells since its base grows with what it tells.
MayGrow(base, img, res, ins, arg) ==
    /\ IsImage(base) /\ IsImage(img) /\ KeepsTelling(base, img)
    /\ arg \in Keys /\ Grows(img.history, res.history, ins, arg)
Grown(base, img, res, ins, arg, i, after) ==
    /\ ToldSince(base, img, i, after) \in Seq(Keys)
    /\ ToldSince(base, res, i, after) = IF i = ins THEN Append(ToldSince(base, img, i, after), arg)
                                        ELSE ToldSince(base, img, i, after)
    /\ IsPrefix(Told(base.history, i, after), Told(res.history, i, after))

LEMMA SinceMore ==
    ASSUME NEW base, NEW img, NEW res, NEW ins, NEW arg, MayGrow(base, img, res, ins, arg),
           NEW i \in Instructions, NEW after \in {LastDiff(img.history), 0}
    PROVE  Grown(base, img, res, ins, arg, i, after)
  <1> USE DEF MayGrow
  <1> DEFINE s == Told(base.history, i, after)
             t == Told(img.history, i, after)
             u == Told(res.history, i, after)
  <1>1. s \in Seq(Keys) /\ t \in Seq(Keys)
    BY ImageHistoryIs, ToldTales
  <1>2. IsPrefix(s, t)
    BY DEF KeepsTelling
  <1>3. u = IF i = ins THEN Append(t, arg) ELSE t
    BY DEF Grows
  <1>4. /\ ToldSince(base, img, i, after) = SubSeq(t, Len(s) + 1, Len(t))
        /\ ToldSince(base, res, i, after) = SubSeq(u, Len(s) + 1, Len(u))
    BY DEF ToldSince
  <1> HIDE DEF s, t, u
  <1>5. /\ SubSeq(t, Len(s) + 1, Len(t)) \in Seq(Keys)
        /\ SubSeq(u, Len(s) + 1, Len(u)) = IF i = ins THEN Append(SubSeq(t, Len(s) + 1, Len(t)), arg)
                                           ELSE SubSeq(t, Len(s) + 1, Len(t))
        /\ IsPrefix(s, u)
    BY <1>1, <1>2, <1>3, SubSeqMore
  <1> QED
    BY <1>4, <1>5 DEF s, u, Grown

\* An instruction that changed the values as its mutator does, and that the
\* history tells.
LEMMA TellsMore ==
    ASSUME NEW base, NEW img, IsImage(img), TellsFrom(base, img), NEW res, IsImage(res),
           NEW m, IsMutator(m), m.ins \in Instructions \ {"PLATFORM"},
           Grows(img.history, res.history, m.ins, m.arg),
           m.ins \in Once => m.arg \notin ToSet(img.set[m.ins]),
           res.set = [img.set EXCEPT ![m.ins] = NewValues(img.set[m.ins], m)]
    PROVE  TellsFrom(base, res)
  <1> DEFINE h == img.history
             g == res.history
             told(i) == Since(base, img, i)
             more(i) == Since(base, res, i)
             had(i) == Had(base, img, i)
             labels == ToldSince(base, img, "LABEL", 0)
             after == ToldSince(base, res, "LABEL", 0)
  <1>1. IsHistory(h) /\ IsHistory(g) /\ img.set \in [Instructions -> Seq(Keys)] /\ m.arg \in Keys
    BY ImageHistoryIs DEF IsMutator
  <1>2. LastDiff(g) = LastDiff(h)
    BY DEF Grows
  <1>3. IsImage(base) /\ KeepsTelling(base, img) /\ base.set \in [Instructions -> Seq(Keys)]
    BY ImageHistoryIs DEF TellsFrom
  <1>0. MayGrow(base, img, res, m.ins, m.arg)
    BY <1>1, <1>3 DEF MayGrow
  <1>4. \A i \in Instructions :
           /\ told(i) \in Seq(Keys)
           /\ more(i) = IF i = m.ins THEN Append(told(i), m.arg) ELSE told(i)
    <2> SUFFICES ASSUME NEW i \in Instructions
                 PROVE  /\ told(i) \in Seq(Keys)
                        /\ more(i) = IF i = m.ins THEN Append(told(i), m.arg) ELSE told(i)
      OBVIOUS
    <2> DEFINE d == LastDiff(h)
    <2>1. told(i) = ToldSince(base, img, i, d) /\ more(i) = ToldSince(base, res, i, d)
      BY <1>2 DEF Since
    <2>2. d = LastDiff(img.history)
      OBVIOUS
    <2> HIDE DEF d, told, more
    <2>3. /\ ToldSince(base, img, i, d) \in Seq(Keys)
          /\ ToldSince(base, res, i, d) = IF i = m.ins THEN Append(ToldSince(base, img, i, d), m.arg)
                                          ELSE ToldSince(base, img, i, d)
      <3>1. Grown(base, img, res, m.ins, m.arg, i, d)
        BY <1>0, <2>2, SinceMore
      <3> QED
        BY <3>1 DEF Grown
    <2> QED
      BY <2>1, <2>3
  <1>5. \A i \in Instructions :
           res.set[i] = IF i = m.ins THEN NewValues(img.set[i], m) ELSE img.set[i]
    BY <1>1
  <1>6. /\ \A i \in {"ENV", "ONBUILD"} \cup Once : img.set[i] = had(i) \o told(i)
        /\ \A i \in Once : IsInjective(told(i)) /\ ToSet(told(i)) \cap ToSet(had(i)) = {}
        /\ \A i \in Replaced : img.set[i] = IF told(i) = <<>> THEN had(i) ELSE <<Last(told(i))>>
        /\ ToSet(img.set["LABEL"]) = ToSet(base.set["LABEL"]) \cup ToSet(labels)
    BY TellsIs DEF TellsFrom
  <1>7. {"ENV", "ONBUILD", "LABEL"} \cup Once \cup Replaced \subseteq Instructions
    BY DEF Instructions, KeyValues, Once, Replaced
  <1>8. labels \in Seq(Keys) /\ after = IF m.ins = "LABEL" THEN Append(labels, m.arg) ELSE labels
    <2> DEFINE l == "LABEL"
    <2>1. l \in Instructions
      BY <1>7
    <2> HIDE DEF l
    <2>2. /\ ToldSince(base, img, l, 0) \in Seq(Keys)
          /\ ToldSince(base, res, l, 0) = IF l = m.ins THEN Append(ToldSince(base, img, l, 0), m.arg)
                                          ELSE ToldSince(base, img, l, 0)
      <3>1. Grown(base, img, res, m.ins, m.arg, l, 0)
        BY <1>0, <2>1, SinceMore
      <3> QED
        BY <3>1 DEF Grown
    <2> QED
      BY <2>2 DEF l
  <1>9. \A i \in Instructions : had(i) \in Seq(Keys) /\ Had(base, res, i) = had(i)
    BY <1>2, <1>3 DEF Had
  <1>10. KeepsTelling(base, res)
    <2>1. Len(base.history) <= Len(h) /\ Len(h) <= Len(g)
      BY <1>3 DEF KeepsTelling, Grows
    <2>2. Len(base.history) \in Nat /\ Len(h) \in Nat /\ Len(g) \in Nat
      BY <1>1, <1>3, ImageHistoryIs, HistoryShape
    <2>3. Len(base.history) <= Len(g)
      BY <2>1, <2>2
    <2>4. \A i \in Instructions, a \in {LastDiff(h), 0} :
             IsPrefix(Told(base.history, i, a), Told(g, i, a))
      BY <1>0, SinceMore DEF Grown
    <2> QED
      BY <1>2, <2>3, <2>4 DEF KeepsTelling
  <1> HIDE DEF h, g, told, more, had, labels, after
  <1>11. ASSUME NEW i \in {"ENV", "ONBUILD"} \cup Once
         PROVE  res.set[i] = had(i) \o more(i)
    <2>1. CASE i = m.ins
      <3>1. i # "LABEL" /\ i \notin Replaced \cup {"PLATFORM"}
        BY DEF Once, Replaced
      <3>2. NewValues(img.set[i], m) = Append(img.set[i], m.arg)
        BY <2>1, <3>1 DEF NewValues
      <3>3. i \in Instructions
        BY <1>7
      <3>4. had(i) \in Seq(Keys) /\ told(i) \in Seq(Keys) /\ more(i) = Append(told(i), m.arg)
        BY <1>4, <1>9, <2>1, <3>3
      <3>5. Append(had(i) \o told(i), m.arg) = had(i) \o Append(told(i), m.arg)
        BY <1>1, <3>4, ConcatAppend
      <3>6. res.set[i] = Append(had(i) \o told(i), m.arg)
        BY <1>5, <1>6, <2>1, <3>2, <3>3
      <3> QED
        BY <3>4, <3>5, <3>6
    <2>2. CASE i # m.ins
      BY <1>4, <1>5, <1>6, <1>7, <2>2
    <2> QED
      BY <2>1, <2>2
  <1>12. ASSUME NEW i \in Once
         PROVE  IsInjective(more(i)) /\ ToSet(more(i)) \cap ToSet(had(i)) = {}
    <2>1. CASE i = m.ins
      <3>1. had(i) \in Seq(Keys) /\ told(i) \in Seq(Keys) /\ more(i) = Append(told(i), m.arg)
        BY <1>4, <1>7, <1>9, <2>1
      <3>2. m.arg \notin ToSet(told(i)) /\ m.arg \notin ToSet(had(i))
        <4>1. ToSet(had(i) \o told(i)) = ToSet(had(i)) \cup ToSet(told(i))
          BY <3>1, ToSetConcat
        <4>2. m.arg \notin ToSet(had(i) \o told(i))
          BY <1>6, <2>1
        <4> QED
          BY <4>1, <4>2
      <3>3. IsList(told(i)) /\ IsInjective(told(i)) /\ ToSet(told(i)) \cap ToSet(had(i)) = {}
        BY <1>6, <3>1, SeqIsList
      <3>4. IsInjective(more(i))
        BY <3>1, <3>2, <3>3, InjectiveMore
      <3>5. ToSet(more(i)) = ToSet(told(i)) \cup {m.arg}
        BY <3>1, <3>3, AppendList
      <3> QED
        BY <3>2, <3>3, <3>4, <3>5
    <2>2. CASE i # m.ins
      BY <1>4, <1>6, <1>7, <2>2
    <2> QED
      BY <2>1, <2>2
  <1>13. ASSUME NEW i \in Replaced
         PROVE  res.set[i] = IF more(i) = <<>> THEN had(i) ELSE <<Last(more(i))>>
    <2>1. CASE i = m.ins
      <3>1. i \notin {"LABEL"} \cup Once
        BY DEF Once, Replaced
      <3>2. NewValues(img.set[i], m) = <<m.arg>>
        BY <2>1, <3>1 DEF NewValues
      <3>3. more(i) # <<>> /\ Last(more(i)) = m.arg
        <4>1. more(i) = Append(told(i), m.arg) /\ told(i) \in Seq(Keys)
          BY <1>4, <1>7, <2>1
        <4> QED
          BY <1>1, <4>1 DEF Last
      <3> QED
        BY <1>5, <1>7, <2>1, <3>2, <3>3
    <2>2. CASE i # m.ins
      BY <1>4, <1>5, <1>6, <1>7, <2>2
    <2> QED
      BY <2>1, <2>2
  <1>14. ToSet(res.set["LABEL"]) = ToSet(base.set["LABEL"]) \cup ToSet(after)
    <2>1. CASE m.ins = "LABEL"
      <3> DEFINE old == img.set["LABEL"]
                 first == ToSet(base.set["LABEL"])
      <3>1. IsList(old) /\ IsList(labels)
        BY <1>1, <1>7, <1>8, SeqIsList
      <3>2. ToSet(after) = ToSet(labels) \cup {m.arg}
        BY <1>8, <2>1, <3>1, AppendList
      <3>3. m.ins \notin Replaced \cup {"PLATFORM"}
        BY <2>1 DEF Replaced
      <3>4. NewValues(old, m) = IF m.arg \in ToSet(old) THEN old ELSE Append(old, m.arg)
        BY <2>1, <3>3 DEF NewValues
      <3>5. ToSet(NewValues(old, m)) = ToSet(old) \cup {m.arg}
        BY <3>1, <3>4, AppendList
      <3>6. ToSet(old) = first \cup ToSet(labels)
        BY <1>6
      <3>7. res.set["LABEL"] = NewValues(old, m)
        BY <1>5, <1>7, <2>1
      <3> HIDE DEF old, first
      <3>8. ToSet(res.set["LABEL"]) = first \cup ToSet(after)
        BY <3>2, <3>5, <3>6, <3>7
      <3> QED
        BY <3>8 DEF first
    <2>2. CASE m.ins # "LABEL"
      BY <1>5, <1>6, <1>7, <1>8, <2>2
    <2> QED
      BY <2>1, <2>2
  <1>15. Tells(base, res)
    <2>1. \A i \in Instructions : Had(base, res, i) = had(i)
      BY <1>9
    <2>2. \A i : Since(base, res, i) = more(i)
      BY DEF more
    <2>3. ToldSince(base, res, "LABEL", 0) = after
      BY DEF after
    <2>4. \A i \in {"ENV", "ONBUILD"} \cup Once \cup Replaced : Had(base, res, i) = had(i)
      BY <1>7, <2>1
    <2>5. \A i \in {"ENV", "ONBUILD"} \cup Once : res.set[i] = Had(base, res, i) \o Since(base, res, i)
      BY <1>11, <2>2, <2>4
    <2>6. \A i \in Once : /\ IsInjective(Since(base, res, i))
                           /\ ToSet(Since(base, res, i)) \cap ToSet(Had(base, res, i)) = {}
      BY <1>12, <2>2, <2>4
    <2>7. \A i \in Replaced : res.set[i] = IF Since(base, res, i) = <<>> THEN Had(base, res, i)
                                            ELSE <<Last(Since(base, res, i))>>
      BY <1>13, <2>2, <2>4
    <2>8. ToSet(res.set["LABEL"]) =
             ToSet(base.set["LABEL"]) \cup ToSet(ToldSince(base, res, "LABEL", 0))
      BY <1>14, <2>3
    <2> QED
      BY Zenon, <2>5, <2>6, <2>7, <2>8, TellsIs
  <1> QED
    BY <1>3, <1>10, <1>15 DEF TellsFrom

\* Histories that tell the same, in images whose values are the same but for
\* the platform.
Retold(h, g) ==
    /\ Len(h) <= Len(g) /\ LastDiff(g) = LastDiff(h)
    /\ \A i \in Instructions, after \in {LastDiff(h), 0} : Told(g, i, after) = Told(h, i, after)

LEMMA TellsSame ==
    ASSUME NEW base, NEW img, IsImage(img), TellsFrom(base, img), NEW res, IsImage(res),
           Retold(img.history, res.history),
           \A i \in Instructions \ {"PLATFORM"} : res.set[i] = img.set[i]
    PROVE  TellsFrom(base, res)
  <1> DEFINE d == LastDiff(img.history)
  <1>1. {"ENV", "ONBUILD", "LABEL"} \cup Once \cup Replaced \subseteq Instructions \ {"PLATFORM"}
    BY DEF Instructions, KeyValues, Once, Replaced
  <1>2. /\ LastDiff(res.history) = d
        /\ \A i \in Instructions, after \in {d, 0} :
              Told(res.history, i, after) = Told(img.history, i, after)
    BY DEF Retold
  <1>3. IsImage(base) /\ KeepsTelling(base, img) /\ Tells(base, img)
    BY DEF TellsFrom
  <1> HIDE DEF d
  <1>4. \A i \in Instructions, after \in {d, 0} :
           ToldSince(base, res, i, after) = ToldSince(base, img, i, after)
    BY <1>2 DEF ToldSince
  <1>5. KeepsTelling(base, res)
    <2>1. Len(base.history) <= Len(img.history) /\ Len(img.history) <= Len(res.history)
      BY <1>3 DEF KeepsTelling, Retold
    <2>2. Len(base.history) \in Nat /\ Len(img.history) \in Nat /\ Len(res.history) \in Nat
      BY <1>3, ImageHistoryIs, HistoryShape
    <2>3. Len(base.history) <= Len(res.history)
      BY <2>1, <2>2
    <2> QED
      BY <1>2, <1>3, <2>3 DEF KeepsTelling, d
  <1>6. \A i \in Instructions : /\ Had(base, res, i) = Had(base, img, i)
                                /\ Since(base, res, i) = Since(base, img, i)
    BY <1>2, <1>4 DEF Had, Since, d
  <1>7. ToldSince(base, res, "LABEL", 0) = ToldSince(base, img, "LABEL", 0)
    BY <1>1, <1>4
  <1>8. \A i \in {"ENV", "ONBUILD", "LABEL"} \cup Once \cup Replaced :
           /\ res.set[i] = img.set[i]
           /\ Had(base, res, i) = Had(base, img, i)
           /\ Since(base, res, i) = Since(base, img, i)
    BY <1>1, <1>6
  <1>9. Tells(base, res)
    BY <1>3, <1>7, <1>8, TellsIs
  <1> QED
    BY <1>3, <1>5, <1>9 DEF TellsFrom

\* A record of a layer tells nothing of the instructions.
LEMMA LayerRetold ==
    ASSUME NEW h, IsHistory(h), NEW r, IsRecord(r), r.ins \notin Instructions \cup {"DIFF"}
    PROVE  Retold(h, Append(h, r))
  <1> DEFINE n == Len(h)
             g == Append(h, r)
  <1>1. /\ n \in Nat /\ Len(g) = n + 1 /\ DOMAIN h = 1..n /\ DOMAIN g = 1..(n + 1)
        /\ \A k \in 1..n : g[k] = h[k]
        /\ g[n + 1] = r
    BY AppendList DEF IsHistory
  <1>2. IsHistory(g)
    BY HistoryAppend
  <1>3. IsLastDiff(h, LastDiff(h))
    BY LastDiffIs
  <1>4. \A k \in 1..(n + 1) : k \in 1..n \/ k = n + 1
    BY <1>1
  <1>5. ASSUME NEW i \in Instructions, NEW after
        PROVE  Told(g, i, after) = Told(h, i, after)
    <2>1. Told(g, i, after) = Told(h, i, after) \o Tale(g, n + 1, i, after)
      BY ToldAppend
    <2> HIDE DEF g, n
    <2>2. Tale(g, n + 1, i, after) = <<>>
      BY <1>1 DEF Tale
    <2>3. Told(h, i, after) \in Seq(Keys)
      BY ToldTales
    <2>4. Told(h, i, after) \o <<>> = Told(h, i, after)
      BY <2>3
    <2> QED
      BY <2>1, <2>2, <2>4
  <1> HIDE DEF g
  <1>6. IsLastDiff(g, LastDiff(h))
    <2> HIDE DEF n
    <2>1. LastDiff(h) \in 0..n
      BY <1>3 DEF IsLastDiff, n
    <2> QED
      BY <1>1, <1>3, <1>4, <2>1 DEF IsLastDiff, n
  <1>7. LastDiff(g) = LastDiff(h)
    BY <1>2, <1>6, LastDiffIs
  <1>8. Len(h) <= Len(g)
    BY <1>1
  <1> QED
    BY <1>5, <1>7, <1>8 DEF Retold, g

\* A Diff forgets all but the labels.
LEMMA TellsDiff ==
    ASSUME NEW base, NEW img, IsImage(img), TellsFrom(base, img),
           NEW r, IsRecord(r), r.ins = "DIFF",
           NEW res, IsImage(res), res.history = Append(img.history, r),
           res.set = DiffValues(img.set)
    PROVE  TellsFrom(base, res)
  <1> DEFINE h == img.history
             n == Len(h)
             g == res.history
             b == base.history
             d == n + 1
  <1>1. /\ n \in Nat /\ Len(g) = d /\ DOMAIN h = 1..n /\ DOMAIN g = 1..d
        /\ \A k \in 1..n : g[k] = h[k]
        /\ g[d] = r
    BY AppendList DEF IsImage
  <1>2. IsHistory(g) /\ IsHistory(h) /\ IsHistory(b) /\ IsImage(base) /\ KeepsTelling(base, img)
    BY ImageHistoryIs DEF TellsFrom
  <1>3. Len(b) \in Nat /\ Len(b) <= n
    BY <1>2, HistoryShape DEF KeepsTelling
  <1> HIDE DEF g, h, b, n
  <1>4. LastDiff(g) = d
    <2>1. IsLastDiff(g, d)
      BY <1>1 DEF IsLastDiff
    <2> QED
      BY <1>2, <2>1, LastDiffIs
  <1>5. ASSUME NEW i \in Instructions
        PROVE  Told(g, i, d) = <<>> /\ Told(b, i, d) = <<>>
    <2>1. \A k \in 1..Len(g) : Tale(g, k, i, d) = <<>>
      BY <1>1 DEF Tale
    <2>2. \A k \in 1..Len(b) : Tale(b, k, i, d) = <<>>
      BY <1>1, <1>3 DEF Tale
    <2> QED
      BY <1>2, <2>1, <2>2, ToldNothing
  <1>6. ASSUME NEW i \in Instructions
        PROVE  Told(g, i, 0) = Told(h, i, 0)
    <2>1. g = Append(h, r)
      BY DEF g, h
    <2>2. Told(Append(h, r), i, 0) = Told(h, i, 0) \o Tale(Append(h, r), Len(h) + 1, i, 0)
      BY <1>2, ToldAppend
    <2>3. Told(h, i, 0) \in Seq(Keys)
      BY <1>2, ToldTales
    <2>4. "DIFF" # i
      BY DEF Instructions, KeyValues, Once, Replaced
    <2>5. Tale(g, d, i, 0) = <<>>
      BY <1>1, <2>4 DEF Tale
    <2>6. Told(h, i, 0) \o <<>> = Told(h, i, 0)
      BY <2>3
    <2>7. Told(g, i, 0) = Told(h, i, 0) \o Tale(g, d, i, 0)
      BY <2>1, <2>2 DEF n
    <2> QED
      BY <2>5, <2>6, <2>7
  <1>7. IsPrefix(<<>>, <<>>)
    BY DEF IsPrefix
  <1>8. \A i \in Instructions : IsPrefix(Told(b, i, 0), Told(h, i, 0))
    BY <1>2 DEF KeepsTelling, b, h
  <1>9. KeepsTelling(base, res)
    <2>1. Len(b) <= Len(g)
      BY <1>1, <1>3
    <2>2. \A i \in Instructions, a \in {d, 0} : IsPrefix(Told(b, i, a), Told(g, i, a))
      BY <1>5, <1>6, <1>7, <1>8
    <2> HIDE DEF d
    <2> QED
      BY <1>4, <2>1, <2>2 DEF KeepsTelling, b, g
  <1>10. SubSeq(<<>>, Len(<<>>) + 1, Len(<<>>)) = <<>>
    BY SubSeqEmpty
  <1>11. \A i \in Instructions : Since(base, res, i) = <<>> /\ Had(base, res, i) = <<>>
    <2> SUFFICES ASSUME NEW i \in Instructions
                 PROVE  Since(base, res, i) = <<>> /\ Had(base, res, i) = <<>>
      OBVIOUS
    <2>1. d > Len(b)
      BY <1>1, <1>3
    <2> HIDE DEF d
    <2>2. Had(base, res, i) = <<>>
      BY <1>4, <2>1 DEF Had, g, b
    <2>3. Since(base, res, i) = <<>>
      BY <1>4, <1>5, <1>10 DEF Since, ToldSince, g, b
    <2> QED
      BY <2>2, <2>3
  <1>12. {"ENV", "ONBUILD"} \cup Once \cup Replaced \subseteq Instructions \ {"LABEL", "PLATFORM"}
         /\ "LABEL" \in Instructions
    BY DEF Instructions, KeyValues, Once, Replaced
  <1>13. /\ \A i \in {"ENV", "ONBUILD"} \cup Once \cup Replaced : res.set[i] = <<>>
         /\ res.set["LABEL"] = img.set["LABEL"]
    BY <1>12 DEF DiffValues
  <1>14. ToldSince(base, res, "LABEL", 0) = ToldSince(base, img, "LABEL", 0)
    BY <1>6, <1>12 DEF ToldSince, g, h
  <1>15. ToSet(img.set["LABEL"]) = ToSet(base.set["LABEL"]) \cup ToSet(ToldSince(base, img, "LABEL", 0))
    BY TellsIs DEF TellsFrom
  <1>16. IsInjective(<<>>) /\ <<>> \o <<>> = <<>> /\ ToSet(<<>>) = {}
    BY NoMutators DEF IsInjective, ToSet
  <1>17. Tells(base, res)
    <2>1. \A i \in {"ENV", "ONBUILD"} \cup Once \cup Replaced :
             Since(base, res, i) = <<>> /\ Had(base, res, i) = <<>>
      BY <1>11, <1>12
    <2> QED
      BY <1>13, <1>14, <1>15, <1>16, <2>1, TellsIs
  <1> QED
    BY <1>2, <1>9, <1>17 DEF TellsFrom

-----------------------------------------------------------------------------
(* Each mutator leaves a config that says what its history tells.          *)

\* What commitHistory does to an image.
IsCommit(img, r, res) ==
    IsRecord(r) /\ IsImage(res) /\ res = [set |-> img.set, history |-> Append(img.history, r)]

LEMMA Committed ==
    ASSUME NEW img, IsImage(img), NEW ins, NEW args, NEW of, NEW empty, NEW sess \in Sessions,
           ins \in Instructions => args \in Seq(Keys)
    PROVE  IsCommit(img, Record(ins, args, of, empty, sess),
                    commitHistory(img, ins, args, of, empty, sess))
  BY Commit DEF IsCommit

LEMMA TellsKeyValue ==
    ASSUME NEW base, NEW img, IsImage(img), TellsFrom(base, img), NEW m, IsMutator(m), m.ins \in KeyValues,
           NEW sess \in Sessions
    PROVE  TellsFrom(base, Mutate(img, m, sess))
  <1> DEFINE mid == Valued(img, m)
             res == Mutate(img, m, sess)
             h == img.history
             r == Record(m.ins, <<m.arg>>, <<>>, TRUE, sess)
             s == [img.set EXCEPT ![m.ins] = NewValues(img.set[m.ins], m)]
  <1>1. m.ins \in Instructions /\ m.ins \notin Once \cup {"PLATFORM"} /\ m.arg \in Keys
    BY KindsDisjoint DEF IsMutator
  <1>2. IsImage(mid) /\ mid.history = h /\ mid.set = s
    BY <1>1, ValuedImage
  <1>3. res = commitHistoryKV(mid, m.ins, m.arg, sess)
    BY MutateKeyValue
  <1>4. IsHistory(h)
    BY ImageHistoryIs
  <1>5. r.ins = m.ins /\ r.args = <<m.arg>>
    BY DEF Record
  <1> HIDE DEF mid, res, h, r, s
  <1>6. /\ IsImage(res) /\ IsRecord(r) /\ res.set = s
        /\ ~CanExtend(h, m.ins, sess) => res.history = Append(h, r)
        /\ CanExtend(h, m.ins, sess) => res.history = [h EXCEPT ![Len(h)].args = Append(@, m.arg)]
    <2>1. IsKVCommit(mid, m.ins, m.arg, sess, res)
      BY <1>1, <1>2, <1>3, CommitKV
    <2> QED
      BY <1>2, <2>1 DEF IsKVCommit, r
  <1>7. IsHistory(res.history)
    BY <1>6, ImageHistoryIs
  <1>8. Grows(h, res.history, m.ins, m.arg)
    <2>1. CASE ~CanExtend(h, m.ins, sess)
      <3>1. Grows(h, Append(h, r), m.ins, m.arg)
        BY <1>1, <1>4, <1>5, <1>6, AppendGrows
      <3> QED
        BY <1>6, <2>1, <3>1
    <2>2. CASE CanExtend(h, m.ins, sess)
      <3>1. Len(h) > 0 /\ h[Len(h)].ins = m.ins
        BY <2>2 DEF CanExtend
      <3>2. Extended(res.history, h, m.arg)
        BY <1>4, <1>6, <1>7, <2>2, <3>1, ExtendedIs
      <3> QED
        BY <1>1, <1>4, <1>7, <3>1, <3>2, ExtendGrows
    <2> QED
      BY <2>1, <2>2
  <1>9. TellsFrom(base, res)
    BY <1>1, <1>6, <1>8, TellsMore DEF h, s
  <1> QED
    BY <1>9 DEF res

LEMMA TellsInstruction ==
    ASSUME NEW base, NEW img, IsImage(img), TellsFrom(base, img), NEW m, IsMutator(m),
           m.ins \in Once \cup Replaced \cup {"ONBUILD"}, NEW sess \in Sessions
    PROVE  TellsFrom(base, Mutate(img, m, sess))
  <1> DEFINE mid == Valued(img, m)
             res == commitInstruction(mid, m)
             h == img.history
             r == Record(m.ins, <<m.arg>>, <<>>, TRUE, NoSession)
             s == [img.set EXCEPT ![m.ins] = NewValues(img.set[m.ins], m)]
  <1>1. m.ins \in Instructions \ {"PLATFORM"} /\ m.arg \in Keys
    BY KindsDisjoint DEF IsMutator
  <1>2. IsImage(mid) /\ mid.history = h /\ mid.set = s
    BY <1>1, ValuedImage
  <1>3. Mutate(img, m, sess) = IF m.ins \in Once /\ m.arg \in ToSet(img.set[m.ins]) THEN img ELSE res
    BY MutateInstruction
  <1>4. IsHistory(h)
    BY ImageHistoryIs
  <1>5. r.ins = m.ins /\ r.args = <<m.arg>>
    BY DEF Record
  <1>6. <<m.arg>> \in Seq(Keys) /\ NoSession \in Sessions
    BY <1>1 DEF Sessions
  <1>7. res = commitHistory(mid, m.ins, <<m.arg>>, <<>>, TRUE, NoSession)
    BY DEF commitInstruction
  <1> HIDE DEF mid, res, h, r, s
  <1>8. IsRecord(r) /\ IsImage(res) /\ res = [set |-> mid.set, history |-> Append(mid.history, r)]
    <2> DEFINE args == <<m.arg>>
    <2>1. args \in Seq(Keys) /\ r = Record(m.ins, args, <<>>, TRUE, NoSession)
      BY <1>6 DEF r
    <2>2. res = commitHistory(mid, m.ins, args, <<>>, TRUE, NoSession)
      BY <1>7
    <2> HIDE DEF args
    <2>3. IsCommit(mid, r, res)
      BY <1>2, <1>6, <2>1, <2>2, Committed
    <2> QED
      BY <2>3 DEF IsCommit
  <1>9. res.set = s /\ res.history = Append(h, r)
    BY <1>2, <1>8, ImageFields
  <1>10. Grows(h, res.history, m.ins, m.arg)
    <2>1. Grows(h, Append(h, r), m.ins, m.arg)
      BY <1>1, <1>4, <1>5, <1>8, AppendGrows
    <2> QED
      BY <1>9, <2>1
  <1>11. CASE m.ins \in Once /\ m.arg \in ToSet(img.set[m.ins])
    BY <1>3, <1>11
  <1>12. CASE ~ (m.ins \in Once /\ m.arg \in ToSet(img.set[m.ins]))
    <2>1. m.ins \in Once => m.arg \notin ToSet(img.set[m.ins])
      BY <1>12
    <2>2. TellsFrom(base, res)
      BY <1>1, <1>8, <1>9, <1>10, <2>1, TellsMore DEF h, s
    <2> QED
      BY <1>3, <1>12, <2>2
  <1> QED
    BY <1>11, <1>12

LEMMA TellsLayer ==
    ASSUME NEW base, NEW img, IsImage(img), TellsFrom(base, img), NEW m, IsMutator(m), m.ins \in Layers,
           NEW sess \in Sessions
    PROVE  TellsFrom(base, Mutate(img, m, sess))
  <1> DEFINE res == Mutate(img, m, sess)
             h == img.history
             r == Record(m.ins, IF m.of = <<>> THEN <<m.arg>> ELSE <<>>, m.of, FALSE, NoSession)
  <1>1. /\ IsImage(res) /\ IsRecord(r) /\ r.ins = m.ins
        /\ res.set = IF m.ins = "DIFF" THEN DiffValues(img.set) ELSE img.set
        /\ res.history = Append(h, r)
    BY MutateLayer
  <1>2. IsHistory(h) /\ m.ins \notin Instructions
    BY ImageHistoryIs, KindsDisjoint
  <1> HIDE DEF res, h, r
  <1>3. CASE m.ins = "DIFF"
    <2>1. TellsFrom(base, res)
      BY <1>1, <1>3, TellsDiff DEF h
    <2> QED
      BY <2>1 DEF res
  <1>4. CASE m.ins # "DIFF"
    <2>1. Retold(h, res.history)
      <3>1. Retold(h, Append(h, r))
        BY <1>1, <1>2, <1>4, LayerRetold
      <3> QED
        BY <1>1, <3>1
    <2>2. TellsFrom(base, res)
      BY <1>1, <1>4, <2>1, TellsSame DEF h
    <2> QED
      BY <2>2 DEF res
  <1> QED
    BY <1>3, <1>4

LEMMA TellsPlatform ==
    ASSUME NEW base, NEW img, IsImage(img), TellsFrom(base, img), NEW m, IsMutator(m), m.ins = "PLATFORM",
           NEW sess \in Sessions
    PROVE  TellsFrom(base, Mutate(img, m, sess))
  <1> DEFINE mid == Valued(img, m)
  <1>1. m.ins \in Instructions
    BY KindsDisjoint
  <1>2. /\ IsImage(mid) /\ mid.history = img.history
        /\ mid.set = [img.set EXCEPT ![m.ins] = NewValues(img.set[m.ins], m)]
    BY <1>1, ValuedImage DEF IsMutator
  <1>3. img.set \in [Instructions -> Seq(Keys)] /\ Len(img.history) \in Nat
    BY ImageHistoryIs, HistoryShape
  <1> HIDE DEF mid
  <1>4. \A i \in Instructions \ {"PLATFORM"} : mid.set[i] = img.set[i]
    BY <1>2, <1>3
  <1>5. Retold(img.history, mid.history)
    BY <1>2, <1>3 DEF Retold
  <1>6. TellsFrom(base, mid)
    BY <1>2, <1>4, <1>5, TellsSame
  <1> QED
    BY <1>6, MutatePlatform DEF mid

LEMMA MutateTells ==
    ASSUME NEW base, NEW img, IsImage(img), TellsFrom(base, img), NEW m, IsMutator(m), NEW sess \in Sessions
    PROVE  TellsFrom(base, Mutate(img, m, sess))
  <1>1. m.ins \in Layers \cup KeyValues \cup Once \cup Replaced \cup {"ONBUILD", "PLATFORM"}
    BY KindsDisjoint DEF IsMutator
  <1> QED
    BY <1>1, TellsKeyValue, TellsInstruction, TellsLayer, TellsPlatform

-----------------------------------------------------------------------------
(* The configs that states have.                                           *)

LEMMA BasesAreImages ==
    ASSUME NEW base \in Bases
    PROVE  IsImage(base)
  BY EmptyImage, PulledImage DEF Bases

\* A base goes on from itself.
LEMMA TellsAtFirst ==
    ASSUME NEW base, IsImage(base)
    PROVE  TellsFrom(base, base)
  <1> DEFINE h == base.history
             d == LastDiff(h)
  <1>1. IsHistory(h) /\ base.set \in [Instructions -> Seq(Keys)] /\ Len(h) \in Nat
    BY ImageHistoryIs, HistoryShape
  <1>2. d \in 0..Len(h)
    BY <1>1, LastDiffIs DEF IsLastDiff
  <1>3. ASSUME NEW i \in Instructions, NEW after
        PROVE  /\ ToldSince(base, base, i, after) = <<>>
               /\ IsPrefix(Told(h, i, after), Told(h, i, after))
    <2> DEFINE t == Told(h, i, after)
    <2>1. t \in Seq(Keys)
      BY <1>1, ToldTales
    <2>2. ToldSince(base, base, i, after) = SubSeq(t, Len(t) + 1, Len(t))
      BY DEF ToldSince
    <2> HIDE DEF t
    <2>3. SubSeq(t, Len(t) + 1, Len(t)) = <<>>
      BY <2>1, SubSeqEmpty
    <2>4. IsPrefix(t, t)
      BY <2>1 DEF IsPrefix
    <2> QED
      BY <2>2, <2>3, <2>4 DEF t
  <1>4. \A i : Had(base, base, i) = base.set[i]
    BY <1>1, <1>2 DEF Had
  <1> HIDE DEF d, h
  <1>5. KeepsTelling(base, base)
    BY <1>1, <1>3 DEF KeepsTelling, h
  <1>6. \A i \in Instructions : Since(base, base, i) = <<>>
    BY <1>3 DEF Since
  <1>7. {"ENV", "ONBUILD", "LABEL"} \cup Once \cup Replaced \subseteq Instructions
    BY DEF Instructions, KeyValues, Once, Replaced
  <1>8. \A i \in Instructions : base.set[i] \o <<>> = base.set[i]
    BY <1>1
  <1>9. IsInjective(<<>>) /\ ToSet(<<>>) = {}
    BY NoMutators DEF IsInjective, ToSet
  <1>10. Tells(base, base)
    <2>1. ToldSince(base, base, "LABEL", 0) = <<>>
      BY <1>3, <1>7
    <2>2. \A i \in {"ENV", "ONBUILD"} \cup Once \cup Replaced :
             Since(base, base, i) = <<>> /\ Had(base, base, i) = base.set[i]
      BY <1>4, <1>6, <1>7
    <2>3. \A i \in {"ENV", "ONBUILD"} \cup Once : base.set[i] \o <<>> = base.set[i]
      BY <1>7, <1>8
    <2> QED
      BY <1>9, <2>1, <2>2, <2>3, TellsIs
  <1> QED
    BY <1>5, <1>10 DEF TellsFrom

\* A config that a state may have: none, or one that goes on from a base.
ConfigTells(config) == config # <<>> => \E base \in Bases : TellsFrom(base, config[1])

LEMMA EmptyTells == ConfigTells(<<EmptyConfig>>) /\ ConfigTells(<<>>)
  BY BasesAreImages, TellsAtFirst DEF ConfigTells, Bases

\* The record of a state, which the builders replace parts of.
IsStateRecord(s) == s = State(s.out, s.config, s.mutators)

LEMMA OutConfig ==
    ASSUME NEW s, IsStateRecord(s), NEW o
    PROVE  IsStateRecord([s EXCEPT !.out = o]) /\ [s EXCEPT !.out = o].config = s.config
  BY DEF IsStateRecord, State

LEMMA MutatorsTell ==
    ASSUME NEW s, IsStateRecord(s), ConfigTells(s.config), NEW ms
    PROVE  ConfigTells(withImageConfigMutators(s, ms).config)
  <1> DEFINE c == IF s.config = <<>> THEN <<EmptyConfig>> ELSE s.config
             all == s.mutators \o ms
             t == withImageConfigMutators(s, ms)
  <1>1. t = [s EXCEPT !.config = c, !.mutators = all]
    BY DEF withImageConfigMutators
  <1>2. ConfigTells(c)
    BY EmptyTells
  <1> HIDE DEF c, all, t
  <1>3. t.config = c
    BY <1>1 DEF IsStateRecord, State
  <1> QED
    BY <1>2, <1>3 DEF t

LEMMA MutatorTells ==
    ASSUME NEW s, IsStateRecord(s), ConfigTells(s.config), NEW o, NEW m
    PROVE  /\ ConfigTells(withImageConfigMutator(s, m).config)
           /\ ConfigTells(withImageConfigMutator([s EXCEPT !.out = o], m).config)
  BY OutConfig, MutatorsTell DEF withImageConfigMutator

\* The builders of states keep configs or set out from an empty one.
LEMMA BuildersTell ==
    ASSUME NEW s, IsStateRecord(s), ConfigTells(s.config)
    PROVE  /\ \A ins, arg : ConfigTells(Set(s, ins, arg).config)
           /\ \A args : ConfigTells(AddLabels(s, args).config)
           /\ \A actions : ConfigTells(File(s, actions).config)
           /\ \A x : ConfigTells(RunExec(s, x).config)
           /\ \A src : ConfigTells(Copy(src, s).config)
           /\ \A t : ConfigTells(t.config) => ConfigTells(Diff(s, t).config)
  <1>1. ASSUME NEW ins, NEW arg
        PROVE  ConfigTells(Set(s, ins, arg).config)
    BY MutatorTells DEF Set
  <1>2. ASSUME NEW args
        PROVE  ConfigTells(AddLabels(s, args).config)
    BY MutatorsTell DEF AddLabels
  <1>3. ASSUME NEW actions
        PROVE  ConfigTells(File(s, actions).config)
    BY OutConfig DEF File
  <1>4. ASSUME NEW x
        PROVE  ConfigTells(RunExec(s, x).config)
    BY MutatorTells DEF RunExec
  <1>5. ASSUME NEW src
        PROVE  ConfigTells(Copy(src, s).config)
    BY MutatorTells DEF Copy
  <1>6. ASSUME NEW t, ConfigTells(t.config)
        PROVE  ConfigTells(Diff(s, t).config)
    <2> DEFINE r == [s EXCEPT !.out = DiffOp(@, t.out)]
               m == Mutator("DIFF", "", <<Digest(s.out), Digest(t.out)>>)
    <2>1. ConfigTells(withImageConfigMutator(r, m).config)
      BY MutatorTells
    <2>2. Diff(s, t) = IF s.out = Scratch THEN t ELSE withImageConfigMutator(r, m)
      BY DEF Diff
    <2> HIDE DEF r, m
    <2> QED
      BY <1>6, <2>1, <2>2
  <1> QED
    BY <1>1, <1>2, <1>3, <1>4, <1>5, <1>6

LEMMA MergeTells ==
    ASSUME NEW S, NEW ss \in [1..2 -> S],
           \A i \in 1..2 : IsStateRecord(ss[i]) /\ ConfigTells(ss[i].config)
    PROVE  ConfigTells(Merge(ss).config)
  <1> DEFINE outs == [i \in DOMAIN ss |-> ss[i].out]
             from == FirstWithConfig(ss)
             r == [from EXCEPT !.out = MergeOp(outs)]
             m == Mutator("MERGE", "", [i \in DOMAIN outs |-> Digest(outs[i])])
             some == {i \in DOMAIN ss : ss[i].config # <<>>}
  <1>1. ss \in Seq(S) /\ Len(ss) = 2 /\ DOMAIN ss = 1..2 /\ ss # <<>>
    BY PairList
  <1>2. Merge(ss) = withImageConfigMutator(r, m)
    BY <1>1 DEF Merge
  <1>3. IsStateRecord(from) /\ ConfigTells(from.config)
    <2>1. some \subseteq 1..2 /\ (some # {} => \E i \in some : \A j \in some : i <= j)
      BY <1>1
    <2>2. CASE some = {}
      <3>1. IsStateRecord(ScratchState) /\ ScratchState.config = <<>>
        BY StateFields DEF ScratchState, IsStateRecord
      <3> QED
        BY <2>2, <3>1, EmptyTells DEF FirstWithConfig
    <2>3. CASE some # {}
      <3> DEFINE i == CHOOSE i \in some : \A j \in some : i <= j
      <3>1. i \in 1..2 /\ from = ss[i]
        BY <2>1, <2>3 DEF FirstWithConfig
      <3> QED
        BY <3>1
    <2> QED
      BY <2>2, <2>3
  <1> HIDE DEF from, m, outs
  <1> QED
    BY <1>2, <1>3, MutatorTells

LEMMA EncodedTells ==
    ASSUME NEW config, config # <<>> => config = <<config[1]>> /\ IsImage(config[1]),
           ConfigTells(config)
    PROVE  ConfigTells(Encoded(config))
  <1> SUFFICES ASSUME config # <<>>
               PROVE  \E base \in Bases : TellsFrom(base, Encoded(config)[1])
    BY DEF ConfigTells, Encoded
  <1> DEFINE img == config[1]
             h == img.history
             without == WithoutSessions(h)
             res == Encoded(config)[1]
  <1>0. PICK base \in Bases : TellsFrom(base, img)
    BY DEF ConfigTells
  <1>1. IsImage(img)
    OBVIOUS
  <1>2. res = [img EXCEPT !.history = without]
    BY DEF Encoded
  <1>3. img = [set |-> img.set, history |-> h]
    BY <1>1 DEF IsImage
  <1>4. IsHistory(h)
    BY <1>1, ImageHistoryIs
  <1>5. Encoded(config) # <<>> /\ IsImage(res)
    BY EncodedConfig DEF IsConfig
  <1>6. Len(h) \in Nat /\ DOMAIN h = 1..Len(h) /\ \A i \in 1..Len(h) : IsRecord(h[i])
    BY <1>4, HistoryShape DEF IsHistory
  <1>7. DOMAIN without = 1..Len(h)
    BY <1>6 DEF WithoutSessions
  <1>8. ASSUME NEW i \in 1..Len(h)
        PROVE  without[i].ins = h[i].ins /\ without[i].args = h[i].args
    <2>1. without[i] = [h[i] EXCEPT !.sess = NoSession]
      BY <1>6 DEF WithoutSessions
    <2>2. IsRecord(h[i])
      BY <1>6
    <2> HIDE DEF without, h
    <2> QED
      BY <2>1, <2>2 DEF IsRecord, Record
  <1> HIDE DEF h, without, res
  <1>9. res.set = img.set /\ res.history = without
    BY <1>2, <1>3
  <1>10. IsHistory(without)
    BY <1>5, <1>9, ImageHistoryIs
  <1>11. Len(without) = Len(h)
    <2>1. Len(without) \in Nat /\ DOMAIN without = 1..Len(without)
      BY <1>10, HistoryShape
    <2> QED
      BY <1>6, <1>7, <2>1
  <1>12. Retold(h, without)
    <2>1. \A k \in 1..Len(h) : (without[k].ins = "DIFF") = (h[k].ins = "DIFF")
      BY <1>8
    <2>2. IsLastDiff(h, LastDiff(h))
      BY <1>4, LastDiffIs
    <2>3. IsLastDiff(without, LastDiff(h))
      BY <1>6, <1>7, <1>8, <1>11, <2>2 DEF IsLastDiff
    <2>4. LastDiff(without) = LastDiff(h)
      BY <1>10, <2>3, LastDiffIs
    <2>5. \A i \in Instructions, after \in {LastDiff(h), 0} : Told(without, i, after) = Told(h, i, after)
      BY <1>4, <1>8, <1>10, <1>11, ToldSame
    <2>6. Len(h) <= Len(without)
      BY <1>6, <1>11
    <2> QED
      BY <2>4, <2>5, <2>6 DEF Retold
  <1>13. TellsFrom(base, res)
    BY <1>0, <1>1, <1>5, <1>9, <1>12, TellsSame DEF h, res
  <1> QED
    BY <1>13 DEF res

LEMMA RebuiltTells ==
    ASSUME NEW call, IsCall(call), ConfigTells(call.config)
    PROVE  ConfigTells(BuildDefinition(MarshalWithImageConfig(call)).config)
  <1> DEFINE d == MarshalWithImageConfig(call)
  <1>1. d.description = Encoded(call.config)
    BY DEF MarshalWithImageConfig
  <1>2. ConfigTells(d.description)
    BY <1>1, EncodedTells DEF IsCall
  <1>3. BuildDefinition(d).config = IF d.description = <<>> THEN <<EmptyConfig>> ELSE d.description
    BY StateFields DEF BuildDefinition
  <1> HIDE DEF d
  <1>4. ConfigTells(BuildDefinition(d).config)
    BY <1>2, <1>3, EmptyTells
  <1> QED
    BY <1>4 DEF d

-----------------------------------------------------------------------------
(* Every config of the program says what its history tells.                *)

ConfigsTell ==
    /\ \A v \in Vars : ConfigTells(st[v].config)
    /\ \A p \in Propagators : pm[p] # Nothing => ConfigTells(pm[p].root.config)
    /\ loaded # Nothing => ConfigTells(loaded[1].config)

TellingInv == TypeOK /\ ConfigsTell

LEMMA InitTells == Init => TellingInv
  <1> SUFFICES ASSUME Init PROVE ConfigsTell
    BY InitTyped DEF TellingInv
  <1>1. \A s \in Starts : ConfigTells(s.config)
    <2>1. ASSUME NEW i \in Images
          PROVE  ConfigTells(Image(i, Pulled[i]).config)
      <3>1. TellsFrom(Pulled[i], Pulled[i]) /\ Pulled[i] \in Bases
        BY PulledImage, TellsAtFirst DEF Bases
      <3>2. Image(i, Pulled[i]).config = <<Pulled[i]>>
        BY StateFields DEF Image
      <3> QED
        BY <3>1, <3>2 DEF ConfigTells
    <2>2. ASSUME NEW l
          PROVE  ConfigTells(Local(l).config)
      BY StateFields, EmptyTells DEF Local
    <2>3. ConfigTells(ScratchState.config)
      BY StateFields, EmptyTells DEF ScratchState
    <2> QED
      BY <2>1, <2>2, <2>3 DEF Starts
  <1> QED
    BY <1>1 DEF Init, ConfigsTell

LEMMA BuildCallTells ==
    ASSUME TellingInv, NEW w, BuildCall(w), DOMAIN st' = Vars,
           \A v \in Vars : ConfigTells(st'[v].config)
    PROVE  ConfigsTell'
  <1>1. pm' = pm /\ loaded' = Nothing
    BY DEF BuildCall, mountVars
  <1> QED
    BY <1>1 DEF TellingInv, ConfigsTell

LEMMA BuildsTell ==
    ASSUME TellingInv, Builds
    PROVE  ConfigsTell'
  <1>1. /\ DOMAIN st = Vars
        /\ \A v \in Vars : IsStateRecord(st[v]) /\ ConfigTells(st[v].config)
    BY DEF TellingInv, TypeOK, IsState, IsStateRecord, ConfigsTell
  <1>2. ASSUME NEW v \in Vars, NEW s, ConfigTells(s.config), Assign(v, s)
        PROVE  ConfigsTell'
    <2>1. DOMAIN st' = Vars /\ \A u \in Vars : ConfigTells(st'[u].config)
      BY <1>1, <1>2 DEF Assign
    <2> QED
      BY <1>2, <2>1, BuildCallTells DEF Assign
  <1>3. ASSUME NEW v \in Vars, SetOne(v) \/ SetLabels(v) \/ RunOn(v)
        PROVE  ConfigsTell'
    BY <1>1, <1>2, <1>3, BuildersTell DEF SetOne, SetLabels, RunOn
  <1>4. ASSUME NEW v \in Vars, Rebuild(v)
        PROVE  ConfigsTell'
    <2>1. IsCall(loaded[1]) /\ ConfigTells(loaded[1].config)
      BY <1>4 DEF Rebuild, TellingInv, TypeOK, ConfigsTell
    <2> QED
      BY <1>2, <1>4, <2>1, RebuiltTells DEF Rebuild
  <1>5. ASSUME NEW v \in Vars, NEW w \in Vars, CopyTo(v, w) \/ FileOn(v, w)
        PROVE  ConfigsTell'
    BY <1>1, <1>2, <1>5, BuildersTell DEF CopyTo, FileOn
  <1>6. ASSUME NEW v \in Vars, NEW w \in Vars, NEW d \in Mountpoints \ Readonly, RunWith(v, w, d)
        PROVE  ConfigsTell'
    <2> DEFINE x == ExecOp(st[v].out, "run", {In(d, FALSE, st[w].out)})
               s == RunExec(st[v], x)
               left == State(MountOutput(x, d), <<>>, <<>>)
    <2>1. BuildCall(v) /\ st' = [st EXCEPT ![v] = s, ![w] = left]
      BY <1>6 DEF RunWith
    <2>2. ConfigTells(s.config) /\ ConfigTells(left.config)
      BY <1>1, BuildersTell, EmptyTells, StateFields
    <2> HIDE DEF x, s, left
    <2>3. DOMAIN st' = Vars /\ \A u \in Vars : ConfigTells(st'[u].config)
      BY <1>1, <2>1, <2>2
    <2> QED
      BY <2>1, <2>3, BuildCallTells
  <1>7. ASSUME NEW vs \in Pairs,
               \/ MergeTo(vs[1], [i \in 1..2 |-> st[vs[i]]])
               \/ DiffTo(vs[1], st[vs[1]], st[vs[2]])
        PROVE  ConfigsTell'
    <2> DEFINE ss == [i \in 1..2 |-> st[vs[i]]]
    <2>1. vs[1] \in Vars /\ vs[2] \in Vars /\ \A i \in 1..2 : vs[i] \in Vars
      BY DEF Pairs
    <2>2. ss \in [1..2 -> {st[u] : u \in Vars}]
      BY <2>1
    <2>3. \A i \in 1..2 : IsStateRecord(ss[i]) /\ ConfigTells(ss[i].config)
      BY <1>1, <2>1
    <2> HIDE DEF ss
    <2>4. ConfigTells(Merge(ss).config)
      BY <2>2, <2>3, MergeTells
    <2>5. ConfigTells(Diff(st[vs[1]], st[vs[2]]).config)
      BY <1>1, <2>1, BuildersTell
    <2> QED
      BY <1>2, <1>7, <2>1, <2>4, <2>5 DEF MergeTo, DiffTo, ss
  <1> QED
    BY <1>3, <1>4, <1>5, <1>6, <1>7 DEF Builds

LEMMA LoadsTell ==
    ASSUME TellingInv, Loads
    PROVE  ConfigsTell'
  <1>1. st' = st /\ pm' = pm
    BY DEF Loads, Load, LoadRoot, LoadOf, MutateConfig, mountVars
  <1>2. ASSUME NEW s, NEW sess, ConfigTells(s.config), LoadOf(s, sess)
        PROVE  ConfigsTell'
    <2>1. loaded' = <<LoadImageConfig(s, sess)>> /\ LoadImageConfig(s, sess).config = s.config
      BY <1>2 DEF LoadOf, LoadImageConfig
    <2> QED
      BY <1>1, <1>2, <2>1 DEF TellingInv, ConfigsTell
  <1>3. ASSUME NEW v \in Vars, NEW sess \in Sessions, Load(v, sess)
        PROVE  ConfigsTell'
    BY <1>2, <1>3 DEF Load, TellingInv, ConfigsTell
  <1>4. ASSUME NEW p \in Propagators, LoadRoot(p)
        PROVE  ConfigsTell'
    BY <1>2, <1>4 DEF LoadRoot, TellingInv, ConfigsTell
  <1>5. ASSUME MutateConfig
        PROVE  ConfigsTell'
    <2> DEFINE call == loaded[1]
               next == RunMutator(call)
    <2>1. loaded # Nothing /\ ~HasLoaded(call) /\ loaded' = <<next>>
      BY <1>5 DEF MutateConfig, Idle
    <2>2. IsCall(call) /\ ConfigTells(call.config)
      BY <2>1 DEF TellingInv, TypeOK, ConfigsTell
    <2> HIDE DEF call
    <2>3. /\ call.config # <<>> /\ IsImage(call.config[1]) /\ IsMutator(NextMutator(call))
          /\ next.config = <<Mutate(call.config[1], NextMutator(call), call.sess)>>
      BY <2>1, <2>2, CallGoesOn
    <2>4. \E base \in Bases : TellsFrom(base, Mutate(call.config[1], NextMutator(call), call.sess))
      <3>1. PICK base \in Bases : TellsFrom(base, call.config[1])
        BY <2>2, <2>3 DEF ConfigTells
      <3> QED
        BY <2>2, <2>3, <3>1, MutateTells DEF IsCall
    <2> HIDE DEF next
    <2>5. ConfigTells(next.config)
      BY <2>3, <2>4 DEF ConfigTells
    <2> QED
      BY <1>1, <2>1, <2>5 DEF TellingInv, ConfigsTell
  <1> QED
    BY <1>3, <1>4, <1>5 DEF Loads

LEMMA MountsTell ==
    ASSUME TellingInv, Mounts
    PROVE  ConfigsTell'
  <1>1. /\ DOMAIN st = Vars /\ DOMAIN pm = Propagators
        /\ \A v \in Vars : IsStateRecord(st[v]) /\ ConfigTells(st[v].config)
    BY DEF TellingInv, TypeOK, IsState, IsStateRecord, ConfigsTell
  <1>2. \A p \in Propagators : pm[p] # Nothing =>
           IsPropagator(pm[p], p) /\ IsStateRecord(pm[p].root) /\ ConfigTells(pm[p].root.config)
    BY DEF TellingInv, TypeOK, IsPropagator, IsState, IsStateRecord, ConfigsTell
  <1>3. ASSUME NEW p \in Propagators, Mounting(p), st' = st, NEW q, pm' = [pm EXCEPT ![p] = q],
               ConfigTells(q.root.config)
        PROVE  ConfigsTell'
    BY <1>1, <1>2, <1>3 DEF Mounting, ConfigsTell
  <1>4. ASSUME NEW p \in Propagators, Mounting(p), st' = st, pm' = pm
        PROVE  ConfigsTell'
    BY <1>1, <1>2, <1>4 DEF Mounting, ConfigsTell
  <1>5. ASSUME NEW p \in Propagators, NEW v \in Vars, AsRun(p, v)
        PROVE  ConfigsTell'
    <2> DEFINE s == RunExec(st[v], ExecOp(st[v].out, "asrun", CurrentMounts(pm[p], maps[pm[p].states])))
    <2>1. st' = [st EXCEPT ![v] = s] /\ pm' = pm /\ loaded' = Nothing
      BY <1>5 DEF AsRun, Mounting
    <2>2. ConfigTells(s.config)
      BY <1>1, BuildersTell
    <2> HIDE DEF s
    <2> QED
      BY <1>1, <1>2, <2>1, <2>2 DEF ConfigsTell
  <1>6. ASSUME NEW p \in Propagators, NEW v \in Vars, NEW opts, Persistent(p, v, opts)
        PROVE  ConfigsTell'
    <2> DEFINE q == Propagator(opts, st[v], p)
    <2>1. Mounting(p) /\ st' = st /\ pm' = [pm EXCEPT ![p] = q]
      BY <1>6 DEF Persistent
    <2>2. q.root = st[v]
      BY PropagatorFields
    <2> HIDE DEF q
    <2> QED
      BY <1>1, <1>3, <2>1, <2>2
  <1>7. ASSUME NEW p \in Propagators, NEW v \in Vars, NEW d \in Mountpoints, Add(p, d, v)
        PROVE  ConfigsTell'
    <2> DEFINE r == [pm[p] EXCEPT !.opts = Append(@, Option(d, v))]
    <2>1. /\ pm[p] # Nothing /\ d \notin Targets(pm[p]) /\ Mounting(p) /\ st' = st
          /\ pm' = [pm EXCEPT ![p] = r]
      BY <1>7 DEF Add
    <2>2. r.root = pm[p].root
      BY <1>2, <2>1 DEF IsPropagator, Propagator
    <2> HIDE DEF r
    <2> QED
      BY <1>2, <1>3, <2>1, <2>2
  <1>8. ASSUME NEW p \in Propagators, NEW x, pm[p] # Nothing, Mounting(p), st' = st,
               pm' = [pm EXCEPT ![p] = RootAfter(@, x)]
        PROVE  ConfigsTell'
    <2>1. ConfigTells(RunExec(pm[p].root, x).config)
      BY <1>2, <1>8, BuildersTell
    <2>2. RootAfter(pm[p], x).root = RunExec(pm[p].root, x)
      BY <1>2, <1>8 DEF IsPropagator, Propagator, RootAfter
    <2> QED
      BY <1>1, <1>3, <1>8, <2>1, <2>2
  <1>9. ASSUME NEW p \in Propagators, Run(p) \/ ApplyRoot(p)
        PROVE  ConfigsTell'
    BY <1>8, <1>9 DEF Run, ApplyRoot, RootAfter
  <1>10. ASSUME NEW p \in Propagators, NEW d \in Mountpoints, ApplyMount(p, d)
         PROVE  ConfigsTell'
    BY <1>4, <1>10 DEF ApplyMount
  <1>11. ASSUME NEW p \in Propagators, NEW q \in Propagators, CopyPropagator(p, q)
         PROVE  ConfigsTell'
    <2>1. pm[p] # Nothing /\ Mounting(q) /\ st' = st /\ pm' = [pm EXCEPT ![q] = CopyOf(pm[p], q)]
      BY <1>11 DEF CopyPropagator
    <2>2. CopyOf(pm[p], q).root = pm[p].root
      BY <1>2, <2>1 DEF IsPropagator, Propagator, CopyOf
    <2> QED
      BY <1>2, <1>3, <2>1, <2>2
  <1> QED
    BY <1>5, <1>6, <1>7, <1>9, <1>10, <1>11 DEF Mounts

LEMMA StepTells == TellingInv /\ [Next]_vars => TellingInv'
  <1> SUFFICES ASSUME TellingInv, [Next]_vars PROVE TellingInv'
    OBVIOUS
  <1>1. TypeOK'
    BY StepTyped DEF TellingInv
  <1>2. ConfigsTell'
    <2>1. CASE UNCHANGED vars
      BY <2>1 DEF vars, mountVars, TellingInv, ConfigsTell
    <2> QED
      BY <2>1, BuildsTell, LoadsTell, MountsTell DEF Next
  <1> QED
    BY <1>1, <1>2 DEF TellingInv

\* LoadImageConfig (image.go:86-105): after each mutator of a chain, the values of the
\* config are those of the image it is based on, or of none, with the changes that
\* the image history tells, whatever was built from whatever.
THEOREM HistoryTold == Spec => []HistoryTellsConfig
  <1>1. TellingInv => HistoryTellsConfig
    <2> SUFFICES ASSUME ConfigsTell, HasResult
                 PROVE  \E base \in Bases : Tells(base, Result) /\ KeepsTelling(base, Result)
      BY DEF TellingInv, HistoryTellsConfig
    <2> QED
      BY DEF ConfigsTell, ConfigTells, HasResult, Result, TellsFrom
  <1> QED
    BY <1>1, InitTells, StepTells, PTL DEF Spec

-----------------------------------------------------------------------------
(* The history of a call of LoadImageConfig starts with that of its base.  *)

Kept(base, h, sess) ==
    /\ Len(base) <= Len(h)
    /\ \A i \in 1..Len(base) : h[i] = base[i]
    /\ \A i \in 1..Len(h) : i > Len(base) /\ h[i].ins \in KeyValues => h[i].sess = sess
    /\ \A i, j \in 1..Len(h) :
          i > Len(base) /\ j = i + 1 /\ h[j].ins \in KeyValues => h[i].ins # h[j].ins

LEMMA KeptAtFirst ==
    ASSUME NEW h, IsHistory(h), NEW sess
    PROVE  Kept(h, h, sess)
  BY HistoryShape DEF Kept

LEMMA KeptAppend ==
    ASSUME NEW base, IsHistory(base), NEW h, IsHistory(h), NEW sess, Kept(base, h, sess),
           NEW r, IsRecord(r),
           r.ins \in KeyValues => r.sess = sess /\ ~CanExtend(h, r.ins, sess)
    PROVE  Kept(base, Append(h, r), sess)
  <1> DEFINE n == Len(h)
             g == Append(h, r)
             b == Len(base)
  <1>1. /\ n \in Nat /\ Len(g) = n + 1 /\ DOMAIN h = 1..n /\ DOMAIN g = 1..(n + 1)
        /\ \A k \in 1..n : g[k] = h[k]
        /\ g[n + 1] = r
    BY AppendList DEF IsHistory
  <1>2. b \in Nat
    BY HistoryShape
  <1>3. /\ b <= n /\ (\A i \in 1..b : h[i] = base[i])
        /\ \A i \in 1..n : i > b /\ h[i].ins \in KeyValues => h[i].sess = sess
        /\ \A i, j \in 1..n : i > b /\ j = i + 1 /\ h[j].ins \in KeyValues => h[i].ins # h[j].ins
    BY DEF Kept
  <1>4. r.ins \in KeyValues /\ n > 0 => ~ (h[n].ins = r.ins /\ h[n].sess = sess)
    BY DEF CanExtend
  <1> HIDE DEF g, n, b
  <1>5. \A i \in 1..b : g[i] = base[i]
    BY <1>1, <1>2, <1>3
  <1>6. \A k \in 1..(n + 1) : k \in 1..n \/ k = n + 1
    BY <1>1
  <1>7. \A i \in 1..(n + 1) : i > b /\ g[i].ins \in KeyValues => g[i].sess = sess
    BY <1>1, <1>3, <1>6
  <1>8. ASSUME NEW i \in 1..(n + 1), NEW j \in 1..(n + 1), i > b, j = i + 1, g[j].ins \in KeyValues
        PROVE  g[i].ins # g[j].ins
    <2>1. i \in 1..n /\ g[i] = h[i]
      BY <1>1, <1>8
    <2>2. CASE j \in 1..n
      BY <1>1, <1>3, <1>8, <2>1, <2>2
    <2>3. CASE j = n + 1
      <3>1. i = n /\ n > 0 /\ g[j] = r
        BY <1>1, <1>8, <2>1, <2>3
      <3> QED
        BY <1>3, <1>4, <1>8, <2>1, <3>1
    <2> QED
      BY <1>6, <2>2, <2>3
  <1>9. b <= n + 1
    BY <1>1, <1>2, <1>3
  <1> QED
    BY <1>1, <1>5, <1>7, <1>8, <1>9 DEF Kept, g, b

LEMMA KeptExtended ==
    ASSUME NEW base, IsHistory(base), \A i \in 1..Len(base) : base[i].sess = NoSession,
           NEW h, IsHistory(h), NEW sess, sess # NoSession, Kept(base, h, sess),
           NEW ins, CanExtend(h, ins, sess), NEW arg, NEW g, IsHistory(g), Extended(g, h, arg)
    PROVE  Kept(base, g, sess)
  <1> DEFINE n == Len(h)
             b == Len(base)
  <1>1. n \in Nat /\ b \in Nat /\ n > 0 /\ Len(g) = n
    BY HistoryShape DEF Extended
  <1>2. /\ b <= n /\ (\A i \in 1..b : h[i] = base[i])
        /\ \A i \in 1..n : i > b /\ h[i].ins \in KeyValues => h[i].sess = sess
        /\ \A i, j \in 1..n : i > b /\ j = i + 1 /\ h[j].ins \in KeyValues => h[i].ins # h[j].ins
    BY DEF Kept
  <1>3. \A k \in 1..n : k # n => g[k] = h[k]
    BY DEF Extended
  <1>4. \A k \in 1..n : g[k].ins = h[k].ins /\ g[k].sess = h[k].sess
    BY <1>3 DEF Extended
  <1>5. h[n].sess = sess
    BY DEF CanExtend
  <1>6. \A i \in 1..b : base[i].sess = NoSession
    OBVIOUS
  <1> HIDE DEF n, b
  <1>7. n > b
    <2> SUFFICES ASSUME n = b PROVE FALSE
      BY <1>1, <1>2
    <2>1. n \in 1..b
      BY <1>1
    <2> QED
      BY <1>2, <1>5, <1>6, <2>1
  <1>8. \A i \in 1..b : g[i] = base[i]
    BY <1>1, <1>2, <1>3, <1>7
  <1>9. \A i \in 1..n : i > b /\ g[i].ins \in KeyValues => g[i].sess = sess
    BY <1>2, <1>4
  <1>10. \A i, j \in 1..n : i > b /\ j = i + 1 /\ g[j].ins \in KeyValues => g[i].ins # g[j].ins
    BY <1>2, <1>4
  <1> QED
    BY <1>1, <1>2, <1>8, <1>9, <1>10 DEF Kept, b

\* A mutator in a session: records of layers and instructions are new ones, and
\* key=value pairs go to the last record if the session made it.
LEMMA MutateKept ==
    ASSUME NEW base, IsHistory(base), \A i \in 1..Len(base) : base[i].sess = NoSession,
           NEW img, IsImage(img), NEW m, IsMutator(m), NEW sess \in Sessions, sess # NoSession,
           Kept(base, img.history, sess)
    PROVE  Kept(base, Mutate(img, m, sess).history, sess)
  <1> DEFINE res == Mutate(img, m, sess)
             h == img.history
             mid == Valued(img, m)
  <1>1. IsHistory(h)
    BY ImageHistoryIs
  <1>2. m.ins \in Layers \cup KeyValues \cup Once \cup Replaced \cup {"ONBUILD", "PLATFORM"}
    BY KindsDisjoint DEF IsMutator
  <1>3. m.ins \notin Layers =>
           m.ins \in Instructions /\ m.arg \in Keys /\ IsImage(mid) /\ mid.history = h
    BY ValuedImage DEF IsMutator
  <1>4. CASE m.ins \in Layers
    <2> DEFINE r == Record(m.ins, IF m.of = <<>> THEN <<m.arg>> ELSE <<>>, m.of, FALSE, NoSession)
    <2>1. IsRecord(r) /\ r.ins = m.ins /\ res.history = Append(h, r)
      BY <1>4, MutateLayer
    <2>2. m.ins \notin KeyValues
      BY <1>4, KindsDisjoint
    <2> HIDE DEF r, res, h
    <2>3. Kept(base, Append(h, r), sess)
      BY <1>1, <2>1, <2>2, KeptAppend DEF h
    <2> QED
      BY <2>1, <2>3 DEF res
  <1>5. CASE m.ins \in KeyValues
    <2> DEFINE r == Record(m.ins, <<m.arg>>, <<>>, TRUE, sess)
    <2>1. res = commitHistoryKV(mid, m.ins, m.arg, sess) /\ m.ins \notin Layers
      BY <1>5, MutateKeyValue, KindsDisjoint
    <2>2. r.ins = m.ins /\ r.sess = sess
      BY DEF Record
    <2> HIDE DEF r, res, h, mid
    <2>3. IsKVCommit(mid, m.ins, m.arg, sess, res)
      BY <1>3, <2>1, CommitKV
    <2>4. /\ IsImage(res) /\ IsRecord(r)
          /\ ~CanExtend(h, m.ins, sess) => res.history = Append(h, r)
          /\ CanExtend(h, m.ins, sess) => res.history = [h EXCEPT ![Len(h)].args = Append(@, m.arg)]
      BY <1>3, <2>1, <2>3 DEF IsKVCommit, r
    <2>5. IsHistory(res.history)
      BY <2>4, ImageHistoryIs
    <2>6. CASE ~CanExtend(h, m.ins, sess)
      <3>1. Kept(base, Append(h, r), sess)
        BY <1>1, <2>2, <2>4, <2>6, KeptAppend DEF h
      <3> QED
        BY <2>4, <2>6, <3>1 DEF res
    <2>7. CASE CanExtend(h, m.ins, sess)
      <3>1. Len(h) > 0
        BY <2>7 DEF CanExtend
      <3>2. Extended(res.history, h, m.arg)
        BY <1>1, <2>4, <2>5, <2>7, <3>1, ExtendedIs
      <3>3. Kept(base, res.history, sess)
        BY <1>1, <2>5, <2>7, <3>2, KeptExtended DEF h
      <3> QED
        BY <3>3 DEF res
    <2> QED
      BY <2>6, <2>7
  <1>6. CASE m.ins \in Once \cup Replaced \cup {"ONBUILD"}
    <2> DEFINE com == commitInstruction(mid, m)
               args == <<m.arg>>
               r == Record(m.ins, args, <<>>, TRUE, NoSession)
    <2>1. m.ins \notin Layers /\ m.ins \notin KeyValues
      BY <1>6, KindsDisjoint
    <2>2. res = img \/ res = com
      BY <1>6, MutateInstruction
    <2>3. args \in Seq(Keys) /\ com = commitHistory(mid, m.ins, args, <<>>, TRUE, NoSession)
      BY <1>3, <2>1 DEF commitInstruction
    <2>4. r.ins = m.ins /\ NoSession \in Sessions
      BY DEF Record, Sessions
    <2> HIDE DEF args, com, mid
    <2>5. IsCommit(mid, r, com)
      BY <1>3, <2>1, <2>3, <2>4, Committed
    <2> HIDE DEF r, res, h
    <2>6. IsRecord(r) /\ com.history = Append(h, r)
      BY <1>3, <2>1, <2>5, ImageFields DEF IsCommit
    <2>7. Kept(base, Append(h, r), sess)
      BY <1>1, <2>1, <2>4, <2>6, KeptAppend DEF h
    <2> QED
      BY <2>2, <2>6, <2>7 DEF h, res
  <1>7. CASE m.ins = "PLATFORM"
    <2>1. res = mid /\ m.ins \notin Layers
      BY <1>7, MutatePlatform, KindsDisjoint
    <2> QED
      BY <1>3, <2>1
  <1> QED
    BY <1>2, <1>4, <1>5, <1>6, <1>7

\* A call of LoadImageConfig in a session, as far as it has come.
CallKeeps(call) ==
    call.sess # NoSession /\ call.config # <<>> =>
        Kept(call.state.config[1].history, call.config[1].history, call.sess)

LEMMA BaseOf ==
    ASSUME NEW call, IsCall(call), call.config # <<>>
    PROVE  LET base == call.state.config[1].history IN
           /\ IsHistory(base) /\ \A i \in 1..Len(base) : base[i].sess = NoSession
           /\ IsHistory(call.config[1].history) /\ IsImage(call.config[1])
  <1>1. call.state.config # <<>> /\ IsConfig(call.state.config)
    BY DEF IsCall, IsState
  <1>2. /\ IsImage(call.state.config[1])
        /\ \A i \in DOMAIN call.state.config[1].history :
              call.state.config[1].history[i].sess = NoSession
    BY <1>1 DEF IsConfig
  <1>3. IsHistory(call.state.config[1].history)
    BY <1>2, ImageHistoryIs
  <1>4. IsImage(call.config[1])
    BY DEF IsCall
  <1> QED
    BY <1>2, <1>3, <1>4, HistoryShape, ImageHistoryIs

LEMMA StartKeeps ==
    ASSUME NEW s, IsState(s), NEW sess \in Sessions
    PROVE  CallKeeps(LoadImageConfig(s, sess))
  <1> DEFINE call == LoadImageConfig(s, sess)
  <1>1. IsCall(call) /\ call.state = s /\ call.config = s.config
    BY CallStarts DEF LoadImageConfig
  <1> HIDE DEF call
  <1>2. call.config # <<>> => Kept(s.config[1].history, s.config[1].history, call.sess)
    BY <1>1, BaseOf, KeptAtFirst
  <1>3. CallKeeps(call)
    BY <1>1, <1>2 DEF CallKeeps
  <1> QED
    BY <1>3 DEF call

LEMMA MutatorKeeps ==
    ASSUME NEW call, IsCall(call), ~HasLoaded(call), CallKeeps(call)
    PROVE  CallKeeps(RunMutator(call))
  <1> DEFINE next == RunMutator(call)
             img == call.config[1]
             m == NextMutator(call)
             res == Mutate(img, m, call.sess)
  <1>1. /\ call.config # <<>> /\ IsImage(img) /\ IsMutator(m)
        /\ next = [state |-> call.state, sess |-> call.sess, done |-> call.done + 1,
                   config |-> <<res>>]
    BY CallGoesOn
  <1>2. call.sess \in Sessions
    BY DEF IsCall
  <1> HIDE DEF next, m, res
  <1>3. next.state = call.state /\ next.sess = call.sess /\ next.config[1] = res
    BY <1>1
  <1>4. call.sess # NoSession => Kept(call.state.config[1].history, res.history, call.sess)
    BY <1>1, <1>2, BaseOf, MutateKept DEF CallKeeps, res
  <1>5. CallKeeps(next)
    BY <1>3, <1>4 DEF CallKeeps
  <1> QED
    BY <1>5 DEF next

\* What is kept, said with sequences.
LEMMA KeptSequences ==
    ASSUME NEW base, IsHistory(base), NEW h, IsHistory(h), NEW sess, Kept(base, h, sess)
    PROVE  LET new == SubSeq(h, Len(base) + 1, Len(h))
           IN  /\ IsPrefix(base, h)
               /\ \A i \in 2..Len(new) : new[i].ins \in KeyValues => new[i - 1].ins # new[i].ins
  <1> DEFINE S == ToSet(base) \cup ToSet(h)
             b == Len(base)
             n == Len(h)
             new == SubSeq(h, b + 1, n)
  <1>1. base \in Seq(S) /\ h \in Seq(S)
    <2>1. base \in Seq(ToSet(base)) /\ h \in Seq(ToSet(h))
      BY DEF IsHistory, IsList
    <2> QED
      BY <2>1
  <1>2. b \in Nat /\ n \in Nat /\ b <= n /\ DOMAIN h = 1..n /\ DOMAIN base = 1..b
    BY HistoryShape DEF Kept
  <1>3. /\ \A i \in 1..b : h[i] = base[i]
        /\ \A i, j \in 1..n : i > b /\ j = i + 1 /\ h[j].ins \in KeyValues => h[i].ins # h[j].ins
    BY DEF Kept
  <1> HIDE DEF S
  <1>4. IsPrefix(base, h)
    <2>1. SubSeq(base, 1, b) = [i \in 1..b |-> base[i]] /\ SubSeq(h, 1, b) = [i \in 1..b |-> h[i]]
      BY <1>1, <1>2
    <2>2. SubSeq(base, 1, b) = SubSeq(h, 1, b)
      BY <1>3, <2>1
    <2> QED
      BY <1>2, <2>2 DEF IsPrefix
  <1>5. Len(new) = n - b /\ \A i \in 1..(n - b) : new[i] = h[b + i]
    <2> DEFINE m == b + 1
    <2>3. \A i \in 1..n : h[i] \in S
      BY <1>1
    <2> HIDE DEF n, b
    <2>1. /\ m \in Int /\ n \in Int /\ n - m + 1 = n - b /\ (m <= n \/ n - b = 0)
          /\ \A i \in m..n : h[i] \in S
          /\ \A i \in 1..(n - b) : m + i - 1 = b + i
      BY <1>2, <2>3
    <2> HIDE DEF m
    <2>2. /\ Len(SubSeq(h, m, n)) = IF m <= n THEN n - m + 1 ELSE 0
          /\ \A i \in 1..(n - m + 1) : SubSeq(h, m, n)[i] = h[m + i - 1]
      BY <2>1, SubSeqProperties
    <2> QED
      BY <2>1, <2>2 DEF m
  <1> HIDE DEF new, b, n
  <1>6. ASSUME NEW i \in 2..Len(new), new[i].ins \in KeyValues
        PROVE  new[i - 1].ins # new[i].ins
    <2> DEFINE j == b + i
               k == b + (i - 1)
    <2>1. /\ j \in 1..n /\ k \in 1..n /\ k > b /\ j = k + 1
          /\ i \in 1..(n - b) /\ i - 1 \in 1..(n - b)
      BY <1>2, <1>5
    <2>2. new[i] = h[j] /\ new[i - 1] = h[k]
      BY <1>5, <2>1
    <2> HIDE DEF j, k
    <2> QED
      BY <1>3, <1>6, <2>1, <2>2
  <1> QED
    BY <1>4, <1>6 DEF new, b, n

KeepingInv == TypeOK /\ (loaded # Nothing => CallKeeps(loaded[1]))

LEMMA StepKeeps == KeepingInv /\ [Next]_vars => KeepingInv'
  <1> SUFFICES ASSUME KeepingInv, [Next]_vars PROVE KeepingInv'
    OBVIOUS
  <1>1. TypeOK'
    BY StepTyped DEF KeepingInv
  <1>2. CASE Builds
    <2>1. loaded' = Nothing
      BY <1>2 DEF Builds, SetOne, SetLabels, RunOn, Rebuild, CopyTo, FileOn, RunWith,
                  MergeTo, DiffTo, Assign, BuildCall
    <2> QED
      BY <1>1, <2>1 DEF KeepingInv
  <1>3. CASE Mounts
    <2>1. loaded' = Nothing
      BY <1>3 DEF Mounts, Persistent, Add, Run, AsRun, CopyPropagator, ApplyRoot, ApplyMount, Mounting
    <2> QED
      BY <1>1, <2>1 DEF KeepingInv
  <1>4. ASSUME NEW s, IsState(s), NEW sess \in Sessions, LoadOf(s, sess)
        PROVE  KeepingInv'
    <2>1. loaded' = <<LoadImageConfig(s, sess)>>
      BY <1>4 DEF LoadOf
    <2>2. CallKeeps(LoadImageConfig(s, sess))
      BY <1>4, StartKeeps
    <2> QED
      BY <1>1, <2>1, <2>2 DEF KeepingInv
  <1>5. ASSUME MutateConfig
        PROVE  KeepingInv'
    <2>1. loaded # Nothing /\ ~HasLoaded(loaded[1]) /\ loaded' = <<RunMutator(loaded[1])>>
      BY <1>5 DEF MutateConfig, Idle
    <2>2. IsCall(loaded[1]) /\ CallKeeps(loaded[1])
      BY <2>1 DEF KeepingInv, TypeOK
    <2>3. CallKeeps(RunMutator(loaded[1]))
      BY <2>1, <2>2, MutatorKeeps
    <2> QED
      BY <1>1, <2>1, <2>3 DEF KeepingInv
  <1>6. CASE Loads
    <2>1. ASSUME NEW v \in Vars, NEW sess \in Sessions, Load(v, sess)
          PROVE  KeepingInv'
      BY <1>4, <2>1 DEF Load, KeepingInv, TypeOK
    <2>2. ASSUME NEW p \in Propagators, LoadRoot(p)
          PROVE  KeepingInv'
      BY <1>4, <2>2 DEF LoadRoot, KeepingInv, TypeOK, IsPropagator, Sessions
    <2> QED
      BY <1>5, <1>6, <2>1, <2>2 DEF Loads
  <1>7. CASE UNCHANGED vars
    BY <1>1, <1>7 DEF vars, KeepingInv
  <1> QED
    BY <1>2, <1>3, <1>6, <1>7 DEF Next

\* commitHistoryKV (state.go:95-114): in a session the records of the base image stay
\* as they are, and key=value instructions that follow one another are one.
THEOREM BaseIsKept == Spec => []BaseKept
  <1>1. Init => KeepingInv
    BY InitTyped DEF Init, KeepingInv
  <1>2. KeepingInv => BaseKept
    <2> SUFFICES ASSUME KeepingInv, HasResult, loaded[1].sess # NoSession
                 PROVE  LET base == loaded[1].state.config[1].history
                            new == SubSeq(Result.history, Len(base) + 1, Len(Result.history))
                        IN  /\ IsPrefix(base, Result.history)
                            /\ \A i \in 2..Len(new) :
                                  new[i].ins \in KeyValues => new[i - 1].ins # new[i].ins
      BY DEF BaseKept
    <2> DEFINE call == loaded[1]
               base == call.state.config[1].history
               h == call.config[1].history
    <2>1. IsCall(call) /\ CallKeeps(call) /\ call.config # <<>> /\ call.sess # NoSession
      BY DEF KeepingInv, TypeOK, HasResult
    <2>2. IsHistory(base) /\ IsHistory(h)
      BY <2>1, BaseOf
    <2>3. Kept(base, h, call.sess)
      BY <2>1 DEF CallKeeps
    <2>4. Result.history = h
      BY DEF Result
    <2> HIDE DEF base, h
    <2>5. LET new == SubSeq(h, Len(base) + 1, Len(h))
          IN  /\ IsPrefix(base, h)
              /\ \A i \in 2..Len(new) : new[i].ins \in KeyValues => new[i - 1].ins # new[i].ins
      BY <2>2, <2>3, KeptSequences
    <2> QED
      BY <2>4, <2>5 DEF base
  <1> QED
    BY <1>1, <1>2, StepKeeps, PTL DEF Spec
=============================================================================
