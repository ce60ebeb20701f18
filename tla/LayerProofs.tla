----------------------------- MODULE LayerProofs -----------------------------
(* The history of an image config has the layers of its state's graph.     *)
EXTENDS LayerProps, HistoryProofs

-----------------------------------------------------------------------------
(* The functions that Stripped and Ways define by recursion.  Each of them *)
(* exists on 0..n for every n, any two agree, and so there is one on Nat.  *)

StripsTo(g, out, n) == g = [i \in 0..n |-> IF i = 0 THEN out ELSE Strip(g[i - 1])]

LEMMA StripsToExists ==
    ASSUME NEW out, NEW n \in Nat
    PROVE  \E g : StripsTo(g, out, n)
  <1> DEFINE bad == {m \in Nat : ~ \E g : StripsTo(g, out, m)}
  <1>1. bad = {}
    <2> SUFFICES ASSUME bad # {} PROVE FALSE
      OBVIOUS
    <2>1. PICK m \in bad : \A k \in bad : m <= k
      BY LeastNat
    <2>2. CASE m = 0
      <3> DEFINE g == [i \in 0..0 |-> out]
      <3>1. g = [i \in 0..0 |-> IF i = 0 THEN out ELSE Strip(g[i - 1])]
        OBVIOUS
      <3> QED
        BY <2>1, <2>2, <3>1 DEF StripsTo
    <2>3. CASE m > 0
      <3>1. m - 1 \in Nat /\ m - 1 \notin bad
        BY <2>1, <2>3
      <3>2. PICK g : StripsTo(g, out, m - 1)
        BY <3>1
      <3> DEFINE f == [i \in 0..m |-> IF i = m THEN Strip(g[m - 1]) ELSE g[i]]
      <3>3. ASSUME NEW i \in 0..m
            PROVE  f[i] = IF i = 0 THEN out ELSE Strip(f[i - 1])
        <4>1. CASE i = m
          BY <2>1, <2>3, <4>1
        <4>2. CASE i # m
          <5>1. i \in 0..(m - 1) /\ f[i] = g[i] /\ (i # 0 => i - 1 \in 0..(m - 1) /\ i - 1 # m)
            BY <2>1, <4>2
          <5>2. i # 0 => f[i - 1] = g[i - 1]
            BY <2>1, <5>1
          <5>3. g[i] = IF i = 0 THEN out ELSE Strip(g[i - 1])
            BY <3>2, <5>1 DEF StripsTo
          <5> HIDE DEF f
          <5> QED
            BY <5>1, <5>2, <5>3
        <4> QED
          BY <4>1, <4>2
      <3>4. f = [i \in 0..m |-> f[i]]
        OBVIOUS
      <3> HIDE DEF f
      <3>5. StripsTo(f, out, m)
        BY <3>3, <3>4 DEF StripsTo
      <3> QED
        BY <2>1, <3>5
    <2> QED
      BY <2>1, <2>2, <2>3
  <1> QED
    BY <1>1

LEMMA StripsToAgree ==
    ASSUME NEW out, NEW n \in Nat, NEW g, StripsTo(g, out, n),
           NEW m \in Nat, NEW h, StripsTo(h, out, m), n <= m, NEW i \in 0..n
    PROVE  g[i] = h[i]
  <1> DEFINE bad == {k \in 0..n : g[k] # h[k]}
  <1>1. ASSUME NEW k \in 0..n
        PROVE  /\ g[k] = IF k = 0 THEN out ELSE Strip(g[k - 1])
               /\ h[k] = IF k = 0 THEN out ELSE Strip(h[k - 1])
    <2>1. k \in 0..m
      OBVIOUS
    <2>2. g[k] = IF k = 0 THEN out ELSE Strip(g[k - 1])
      BY DEF StripsTo
    <2>3. h[k] = IF k = 0 THEN out ELSE Strip(h[k - 1])
      BY <2>1 DEF StripsTo
    <2> QED
      BY <2>2, <2>3
  <1>2. bad = {}
    <2> SUFFICES ASSUME bad # {} PROVE FALSE
      OBVIOUS
    <2>1. bad \subseteq Nat
      OBVIOUS
    <2>2. PICK k \in bad : \A j \in bad : k <= j
      BY <2>1, LeastNat
    <2>3. k \in 0..n /\ g[k] # h[k]
      BY <2>2
    <2>4. k # 0 => k - 1 \in 0..n /\ k - 1 \notin bad
      BY <2>2, <2>3
    <2>5. k # 0 => g[k - 1] = h[k - 1]
      BY <2>4
    <2> QED
      BY <1>1, <2>3, <2>5
  <1> QED
    BY <1>2

LEMMA StrippedSteps ==
    ASSUME NEW out
    PROVE  /\ Stripped(out)[0] = out
           /\ \A n \in Nat : Stripped(out)[n + 1] = Strip(Stripped(out)[n])
  <1> DEFINE upto(n) == CHOOSE g : StripsTo(g, out, n)
             f == [n \in Nat |-> upto(n)[n]]
             Is(g) == g = [n \in Nat |-> IF n = 0 THEN out ELSE Strip(g[n - 1])]
  <1>1. ASSUME NEW n \in Nat
        PROVE  StripsTo(upto(n), out, n)
    BY StripsToExists
  <1>2. ASSUME NEW n \in Nat
        PROVE  f[n] = IF n = 0 THEN out ELSE Strip(f[n - 1])
    <2> DEFINE g == upto(n)
    <2>1. StripsTo(g, out, n) /\ f[n] = g[n]
      BY <1>1
    <2>2. CASE n = 0
      <3> HIDE DEF g, f
      <3>1. g[0] = out
        BY <2>1, <2>2 DEF StripsTo
      <3> QED
        BY <2>1, <2>2, <3>1
    <2>3. CASE n # 0
      <3> DEFINE m == n - 1
                 h == upto(m)
      <3>1. m \in Nat /\ m <= n /\ m \in 0..m /\ n \in 0..n
        BY <2>3
      <3>2. StripsTo(h, out, m) /\ f[m] = h[m]
        BY <1>1, <3>1
      <3>5. n - 1 = m
        OBVIOUS
      <3> HIDE DEF f, g, h, m
      <3>3. h[m] = g[m]
        BY <2>1, <3>1, <3>2, StripsToAgree
      <3>4. g[n] = Strip(g[m])
        BY <2>1, <2>3, <3>1, <3>5 DEF StripsTo
      <3> QED
        BY <2>1, <2>3, <3>2, <3>3, <3>4, <3>5
    <2> QED
      BY <2>2, <2>3
  <1>3. f = [n \in Nat |-> f[n]]
    OBVIOUS
  <1> HIDE DEF f
  <1>4. Is(f)
    BY <1>2, <1>3
  <1>5. Stripped(out) = CHOOSE g : Is(g)
    BY DEF Stripped
  <1>6. Is(Stripped(out))
    BY <1>4, <1>5
  <1> DEFINE s == Stripped(out)
  <1> HIDE DEF s
  <1>7. s = [n \in Nat |-> IF n = 0 THEN out ELSE Strip(s[n - 1])]
    BY <1>6 DEF s
  <1>8. s[0] = out
    BY <1>7
  <1>9. ASSUME NEW n \in Nat
        PROVE  s[n + 1] = Strip(s[n])
    <2>1. n + 1 \in Nat /\ n + 1 # 0 /\ (n + 1) - 1 = n
      OBVIOUS
    <2> QED
      BY <1>7, <2>1
  <1> QED
    BY <1>8, <1>9 DEF s
-----------------------------------------------------------------------------
WalksTo(g, out, depth, n) ==
    g = [i \in 0..n |-> IF i = 0 THEN {<<out, <<>>>>} ELSE StepBack(g[i - 1], depth)]

LEMMA WalksToExists ==
    ASSUME NEW out, NEW depth, NEW n \in Nat
    PROVE  \E g : WalksTo(g, out, depth, n)
  <1> DEFINE bad == {m \in Nat : ~ \E g : WalksTo(g, out, depth, m)}
  <1>1. bad = {}
    <2> SUFFICES ASSUME bad # {} PROVE FALSE
      OBVIOUS
    <2>1. PICK m \in bad : \A k \in bad : m <= k
      BY LeastNat
    <2>2. CASE m = 0
      <3> DEFINE g == [i \in 0..0 |-> {<<out, <<>>>>}]
      <3>1. g = [i \in 0..0 |-> IF i = 0 THEN {<<out, <<>>>>} ELSE StepBack(g[i - 1], depth)]
        OBVIOUS
      <3> QED
        BY <2>1, <2>2, <3>1 DEF WalksTo
    <2>3. CASE m > 0
      <3>1. m - 1 \in Nat /\ m - 1 \notin bad
        BY <2>1, <2>3
      <3>2. PICK g : WalksTo(g, out, depth, m - 1)
        BY <3>1
      <3> DEFINE f == [i \in 0..m |-> IF i = m THEN StepBack(g[m - 1], depth) ELSE g[i]]
      <3>3. ASSUME NEW i \in 0..m
            PROVE  f[i] = IF i = 0 THEN {<<out, <<>>>>} ELSE StepBack(f[i - 1], depth)
        <4>1. CASE i = m
          BY <2>1, <2>3, <4>1
        <4>2. CASE i # m
          <5>1. i \in 0..(m - 1) /\ f[i] = g[i] /\ (i # 0 => i - 1 \in 0..(m - 1) /\ i - 1 # m)
            BY <2>1, <4>2
          <5>2. i # 0 => f[i - 1] = g[i - 1]
            BY <2>1, <5>1
          <5>3. g[i] = IF i = 0 THEN {<<out, <<>>>>} ELSE StepBack(g[i - 1], depth)
            BY <3>2, <5>1 DEF WalksTo
          <5> HIDE DEF f
          <5> QED
            BY <5>1, <5>2, <5>3
        <4> QED
          BY <4>1, <4>2
      <3>4. f = [i \in 0..m |-> f[i]]
        OBVIOUS
      <3> HIDE DEF f
      <3>5. WalksTo(f, out, depth, m)
        BY <3>3, <3>4 DEF WalksTo
      <3> QED
        BY <2>1, <3>5
    <2> QED
      BY <2>1, <2>2, <2>3
  <1> QED
    BY <1>1

LEMMA WalksToAgree ==
    ASSUME NEW out, NEW depth, NEW n \in Nat, NEW g, WalksTo(g, out, depth, n),
           NEW m \in Nat, NEW h, WalksTo(h, out, depth, m), n <= m, NEW i \in 0..n
    PROVE  g[i] = h[i]
  <1> DEFINE bad == {k \in 0..n : g[k] # h[k]}
  <1>1. ASSUME NEW k \in 0..n
        PROVE  /\ g[k] = IF k = 0 THEN {<<out, <<>>>>} ELSE StepBack(g[k - 1], depth)
               /\ h[k] = IF k = 0 THEN {<<out, <<>>>>} ELSE StepBack(h[k - 1], depth)
    <2>1. k \in 0..m
      OBVIOUS
    <2>2. g[k] = IF k = 0 THEN {<<out, <<>>>>} ELSE StepBack(g[k - 1], depth)
      BY DEF WalksTo
    <2>3. h[k] = IF k = 0 THEN {<<out, <<>>>>} ELSE StepBack(h[k - 1], depth)
      BY <2>1 DEF WalksTo
    <2> QED
      BY <2>2, <2>3
  <1>2. bad = {}
    <2> SUFFICES ASSUME bad # {} PROVE FALSE
      OBVIOUS
    <2>1. bad \subseteq Nat
      OBVIOUS
    <2>2. PICK k \in bad : \A j \in bad : k <= j
      BY <2>1, LeastNat
    <2>3. k \in 0..n /\ g[k] # h[k]
      BY <2>2
    <2>4. k # 0 => k - 1 \in 0..n /\ k - 1 \notin bad
      BY <2>2, <2>3
    <2>5. k # 0 => g[k - 1] = h[k - 1]
      BY <2>4
    <2> QED
      BY <1>1, <2>3, <2>5
  <1> QED
    BY <1>2

LEMMA WaysSteps ==
    ASSUME NEW out, NEW depth
    PROVE  /\ Ways(out, depth)[0] = {<<out, <<>>>>}
           /\ \A n \in Nat : Ways(out, depth)[n + 1] = StepBack(Ways(out, depth)[n], depth)
  <1> DEFINE upto(n) == CHOOSE g : WalksTo(g, out, depth, n)
             f == [n \in Nat |-> upto(n)[n]]
             Is(g) == g = [n \in Nat |-> IF n = 0 THEN {<<out, <<>>>>} ELSE StepBack(g[n - 1], depth)]
  <1>1. ASSUME NEW n \in Nat
        PROVE  WalksTo(upto(n), out, depth, n)
    BY WalksToExists
  <1>2. ASSUME NEW n \in Nat
        PROVE  f[n] = IF n = 0 THEN {<<out, <<>>>>} ELSE StepBack(f[n - 1], depth)
    <2> DEFINE g == upto(n)
    <2>1. WalksTo(g, out, depth, n) /\ f[n] = g[n]
      BY <1>1
    <2>2. CASE n = 0
      <3> HIDE DEF g, f
      <3>1. g[0] = {<<out, <<>>>>}
        BY <2>1, <2>2 DEF WalksTo
      <3> QED
        BY <2>1, <2>2, <3>1
    <2>3. CASE n # 0
      <3> DEFINE m == n - 1
                 h == upto(m)
      <3>1. m \in Nat /\ m <= n /\ m \in 0..m /\ n \in 0..n
        BY <2>3
      <3>2. WalksTo(h, out, depth, m) /\ f[m] = h[m]
        BY <1>1, <3>1
      <3>5. n - 1 = m
        OBVIOUS
      <3> HIDE DEF f, g, h, m
      <3>3. h[m] = g[m]
        BY <2>1, <3>1, <3>2, WalksToAgree
      <3>4. g[n] = StepBack(g[m], depth)
        BY <2>1, <2>3, <3>1, <3>5 DEF WalksTo
      <3> QED
        BY <2>1, <2>3, <3>2, <3>3, <3>4, <3>5
    <2> QED
      BY <2>2, <2>3
  <1>3. f = [n \in Nat |-> f[n]]
    OBVIOUS
  <1> HIDE DEF f
  <1>4. Is(f)
    BY <1>2, <1>3
  <1>5. Ways(out, depth) = CHOOSE g : Is(g)
    BY DEF Ways
  <1>6. Is(Ways(out, depth))
    BY <1>4, <1>5
  <1> DEFINE s == Ways(out, depth)
  <1> HIDE DEF s
  <1>7. s = [n \in Nat |-> IF n = 0 THEN {<<out, <<>>>>} ELSE StepBack(s[n - 1], depth)]
    BY <1>6 DEF s
  <1>8. s[0] = {<<out, <<>>>>}
    BY <1>7
  <1>9. ASSUME NEW n \in Nat
        PROVE  s[n + 1] = StepBack(s[n], depth)
    <2>1. n + 1 \in Nat /\ n + 1 # 0 /\ (n + 1) - 1 = n
      OBVIOUS
    <2> QED
      BY <1>7, <2>1
  <1> QED
    BY <1>8, <1>9 DEF s
-----------------------------------------------------------------------------
(* Ways back, step by step.                                                *)

LEMMA WaysStart ==
    ASSUME NEW out, NEW depth
    PROVE  Ways(out, depth)[0] = {<<out, <<>>>>}
  BY WaysSteps

LEMMA WaysStep ==
    ASSUME NEW out, NEW depth, NEW n \in Nat, NEW w \in Ways(out, depth)[n],
           NEW b \in Before(w[1], depth)
    PROVE  <<b, LayersAt(w[1]) \o w[2]>> \in Ways(out, depth)[n + 1]
  <1> DEFINE W == Ways(out, depth)[n]
             V == Ways(out, depth)[n + 1]
  <1>1. V = StepBack(W, depth) /\ w \in W
    BY WaysSteps
  <1> HIDE DEF V, W
  <1> DEFINE next(v) == {<<c, LayersAt(v[1]) \o v[2]>> : c \in Before(v[1], depth)}
  <1>2. V = UNION {next(v) : v \in W}
    BY <1>1 DEF StepBack
  <1>3. <<b, LayersAt(w[1]) \o w[2]>> \in next(w)
    OBVIOUS
  <1> HIDE DEF next
  <1>4. <<b, LayersAt(w[1]) \o w[2]>> \in V
    BY <1>1, <1>2, <1>3
  <1> QED
    BY <1>4 DEF V

\* x is one step further back than w.
IsStepBack(w, x, depth) ==
    x[1] \in Before(w[1], depth) /\ x[2] = LayersAt(w[1]) \o w[2] /\ x = <<x[1], x[2]>>

LEMMA WaysBack ==
    ASSUME NEW out, NEW depth, NEW n \in Nat, NEW x \in Ways(out, depth)[n + 1]
    PROVE  \E w \in Ways(out, depth)[n] : IsStepBack(w, x, depth)
  <1> DEFINE W == Ways(out, depth)[n]
             V == Ways(out, depth)[n + 1]
  <1>1. V = StepBack(W, depth) /\ x \in V
    BY WaysSteps
  <1> HIDE DEF V, W
  <1> DEFINE next(v) == {<<c, LayersAt(v[1]) \o v[2]>> : c \in Before(v[1], depth)}
  <1>2. V = UNION {next(v) : v \in W}
    BY <1>1 DEF StepBack
  <1> HIDE DEF next
  <1>3. PICK w \in W : x \in next(w)
    BY <1>1, <1>2
  <1>4. PICK c \in Before(w[1], depth) : x = <<c, LayersAt(w[1]) \o w[2]>>
    BY <1>3 DEF next
  <1>5. IsStepBack(w, x, depth)
    BY <1>4 DEF IsStepBack
  <1> QED
    BY <1>5 DEF W

\* What is shown for 0, and for n + 1 if it is for n, is shown: bad numbers.
LEMMA NoneBad ==
    ASSUME NEW bad, bad \subseteq Nat, 0 \notin bad,
           \A n \in Nat : n \notin bad => n + 1 \notin bad
    PROVE  bad = {}
  <1> SUFFICES ASSUME bad # {} PROVE FALSE
    OBVIOUS
  <1>1. PICK m \in bad : \A k \in bad : m <= k
    BY LeastNat
  <1>2. m \in Nat /\ m # 0
    BY <1>1
  <1>3. m - 1 \in Nat /\ (m - 1) + 1 = m /\ ~ (m <= m - 1)
    BY <1>2
  <1>4. m - 1 \notin bad
    BY <1>1, <1>3
  <1>5. (m - 1) + 1 \notin bad
    BY <1>3, <1>4
  <1> QED
    BY <1>1, <1>3, <1>5

LEMMA BareMore ==
    ASSUME NEW out, NEW d \in Nat, NEW e \in Nat, d <= e, Bare(out, d)
    PROVE  Bare(out, e)
  <1>1. 0..d \subseteq 0..e
    OBVIOUS
  <1> QED
    BY <1>1 DEF Bare

\* A plain file operation is one more to take off.
LEMMA BareFile ==
    ASSUME NEW out, IsPlainFile(out), NEW from, from = Digest(out).ins[1].out,
           NEW d \in Nat, Bare(from, d)
    PROVE  Bare(out, d + 1)
  <1> DEFINE bad == {n \in Nat : Stripped(out)[n + 1] # Stripped(from)[n]}
  <1>1. Stripped(out)[0 + 1] = from
    <2>1. Stripped(out)[0 + 1] = Strip(out)
      BY StrippedSteps
    <2> QED
      BY <2>1 DEF Strip
  <1>2. 0 \notin bad
    BY <1>1, StrippedSteps
  <1>3. ASSUME NEW n \in Nat, n \notin bad
        PROVE  n + 1 \notin bad
    <2> DEFINE k == n + 1
    <2>1. k \in Nat /\ Stripped(out)[k] = Stripped(from)[n]
      BY <1>3
    <2>2. Stripped(out)[k + 1] = Strip(Stripped(out)[k])
      BY <2>1, StrippedSteps
    <2>3. Stripped(from)[k] = Strip(Stripped(from)[n])
      BY StrippedSteps
    <2> QED
      BY <2>1, <2>2, <2>3
  <1>4. bad = {}
    BY <1>2, <1>3, NoneBad
  <1>5. PICK n \in 0..d : LET base == Stripped(from)[n] IN IsBase(base) /\ ~IsImageBase(base)
    BY DEF Bare
  <1>6. n \in Nat /\ n + 1 \in 0..(d + 1)
    BY <1>5
  <1>7. Stripped(out)[n + 1] = Stripped(from)[n]
    BY <1>4, <1>6
  <1> QED
    BY <1>5, <1>6, <1>7 DEF Bare

LEMMA BeforeMore ==
    ASSUME NEW out, NEW d \in Nat, NEW e \in Nat, d <= e
    PROVE  Before(out, d) \subseteq Before(out, e)
  <1>1. \A o : Bare(o, d) => Bare(o, e)
    BY BareMore
  <1> QED
    BY <1>1 DEF Before

LEMMA WaysMore ==
    ASSUME NEW out, NEW d \in Nat, NEW e \in Nat, d <= e, NEW n \in Nat
    PROVE  Ways(out, d)[n] \subseteq Ways(out, e)[n]
  <1> DEFINE bad == {k \in Nat : ~ Ways(out, d)[k] \subseteq Ways(out, e)[k]}
  <1>1. 0 \notin bad
    BY WaysStart
  <1>2. ASSUME NEW k \in Nat, k \notin bad
        PROVE  k + 1 \notin bad
    <2>1. Ways(out, d)[k] \subseteq Ways(out, e)[k]
      BY <1>2
    <2>2. ASSUME NEW x \in Ways(out, d)[k + 1]
          PROVE  x \in Ways(out, e)[k + 1]
      <3>1. PICK w \in Ways(out, d)[k] : IsStepBack(w, x, d)
        BY WaysBack
      <3> DEFINE b == x[1]
      <3>2. b \in Before(w[1], d) /\ x = <<b, LayersAt(w[1]) \o w[2]>>
        BY <3>1 DEF IsStepBack
      <3>3. b \in Before(w[1], e) /\ w \in Ways(out, e)[k]
        BY <2>1, <3>2, BeforeMore
      <3> QED
        BY <3>2, <3>3, WaysStep
    <2> QED
      BY <2>2
  <1>3. bad = {}
    BY <1>1, <1>2, NoneBad
  <1> QED
    BY <1>3

LEMMA LayersInIs ==
    ASSUME NEW out, NEW depth \in Nat, NEW layers
    PROVE  layers \in LayersIn(out, depth) <=>
              \E n \in 0..depth : \E w \in Ways(out, depth)[n] :
                 IsBase(w[1]) /\ layers = LayersAt(w[1]) \o w[2]
  BY DEF LayersIn

LEMMA LayersInMore ==
    ASSUME NEW out, NEW d \in Nat, NEW e \in Nat, d <= e
    PROVE  LayersIn(out, d) \subseteq LayersIn(out, e)
  <1>1. ASSUME NEW layers \in LayersIn(out, d)
        PROVE  layers \in LayersIn(out, e)
    <2>1. PICK n \in 0..d : \E w \in Ways(out, d)[n] :
             IsBase(w[1]) /\ layers = LayersAt(w[1]) \o w[2]
      BY DEF LayersIn
    <2>2. n \in 0..e /\ n \in Nat
      OBVIOUS
    <2>3. Ways(out, d)[n] \subseteq Ways(out, e)[n]
      BY <2>2, WaysMore
    <2> QED
      BY <2>1, <2>2, <2>3, LayersInIs
  <1> QED
    BY <1>1
-----------------------------------------------------------------------------
(* Lists of layers.                                                        *)

LEMMA CatAssociative ==
    ASSUME NEW a, IsList(a), NEW b, IsList(b), NEW c, IsList(c)
    PROVE  (a \o b) \o c = a \o (b \o c)
  <1> DEFINE S == ToSet(a) \cup ToSet(b) \cup ToSet(c)
  <1>1. a \in Seq(S) /\ b \in Seq(S) /\ c \in Seq(S)
    <2>1. a \in Seq(ToSet(a)) /\ b \in Seq(ToSet(b)) /\ c \in Seq(ToSet(c))
      BY DEF IsList
    <2> QED
      BY <2>1
  <1> HIDE DEF S
  <1> QED
    BY <1>1, ConcatAssociative

LEMMA CatEmpty ==
    ASSUME NEW a, IsList(a)
    PROVE  a \o <<>> = a /\ <<>> \o a = a
  <1>1. a \in Seq(ToSet(a))
    BY DEF IsList
  <1> QED
    BY <1>1, ConcatEmptySeq

\* What one record says of layers.
LayerIn(r) == IF r.empty THEN <<>> ELSE <<r>>

LEMMA LayersOfIs ==
    ASSUME NEW h
    PROVE  LayersOf(h) = FlattenSeq([i \in DOMAIN h |-> LayerIn(h[i])])
  BY DEF LayersOf, LayerIn

LEMMA LayersOfList ==
    ASSUME NEW h, IsHistory(h)
    PROVE  IsList(LayersOf(h))
  <1> DEFINE S == ToSet(h)
             n == Len(h)
             ss == [i \in DOMAIN h |-> LayerIn(h[i])]
  <1>1. n \in Nat /\ DOMAIN h = 1..n
    BY HistoryShape
  <1>2. \A i \in 1..n : h[i] \in S
    BY <1>1 DEF ToSet
  <1> HIDE DEF S, n
  <1>3. \A i \in 1..n : LayerIn(h[i]) \in Seq(S)
    BY <1>2 DEF LayerIn
  <1>4. ss \in Seq(Seq(S))
    BY <1>1, <1>3
  <1> HIDE DEF ss
  <1>5. FlattenSeq(ss) \in Seq(S)
    BY <1>4, FlattenType
  <1> QED
    BY <1>5, SeqIsList, LayersOfIs DEF ss

LEMMA LayersOfEmpty == LayersOf(<<>>) = <<>>
  <1> DEFINE ss == [i \in DOMAIN <<>> |-> LayerIn(<<>>[i])]
  <1>1. ss = <<>> /\ DOMAIN <<>> = {}
    BY TupleLists
  <1>2. FlattenSeq(<<>>) = <<>>
    BY TupleLists, FlattenNone
  <1> QED
    BY <1>1, <1>2, LayersOfIs

LEMMA LayersAtList ==
    ASSUME NEW out
    PROVE  IsList(LayersAt(out))
  <1>1. IsList(<<>>) /\ \A e : IsList(<<e>>)
    BY TupleLists
  <1>2. \A i \in Images : IsList(LayersOf(Pulled[i].history))
    BY PulledImage, ImageHistoryIs, LayersOfList
  <1> DEFINE v == Digest(out)
             digests == [j \in DOMAIN v.ins |-> Digest(v.ins[j].out)]
  <1>3. \/ \E i \in Images : LayersAt(out) = LayersOf(Pulled[i].history)
        \/ LayersAt(out) = <<>>
        \/ LayersAt(out) = <<Record("RUN", <<v.arg>>, <<>>, FALSE, NoSession)>>
        \/ LayersAt(out) = <<Record("COPY", <<>>, <<Digest(v.ins[2].out)>>, FALSE, NoSession)>>
        \/ LayersAt(out) = <<Record("DIFF", <<>>, digests, FALSE, NoSession)>>
        \/ LayersAt(out) = <<Record("MERGE", <<>>, digests, FALSE, NoSession)>>
    BY Zenon DEF LayersAt, IsImageBase
  <1> QED
    BY <1>1, <1>2, <1>3

LEMMA WaysLists ==
    ASSUME NEW out, NEW depth, NEW n \in Nat
    PROVE  \A w \in Ways(out, depth)[n] : w = <<w[1], w[2]>> /\ IsList(w[2])
  <1> DEFINE fine(w) == w = <<w[1], w[2]>> /\ IsList(w[2])
             bad == {k \in Nat : ~ \A w \in Ways(out, depth)[k] : fine(w)}
  <1>1. 0 \notin bad
    <2>1. \A w \in Ways(out, depth)[0] : w = <<out, <<>>>>
      BY WaysStart
    <2> QED
      BY <2>1, TupleLists
  <1>2. ASSUME NEW k \in Nat, k \notin bad
        PROVE  k + 1 \notin bad
    <2>1. \A w \in Ways(out, depth)[k] : fine(w)
      BY <1>2
    <2> HIDE DEF bad, fine
    <2>2. ASSUME NEW x \in Ways(out, depth)[k + 1]
          PROVE  fine(x)
      <3>1. PICK w \in Ways(out, depth)[k] : IsStepBack(w, x, depth)
        BY WaysBack
      <3>2. IsList(w[2]) /\ IsList(LayersAt(w[1]))
        BY <2>1, LayersAtList DEF fine
      <3>3. IsList(LayersAt(w[1]) \o w[2])
        BY <3>2, ConcatList
      <3> QED
        BY <3>1, <3>3 DEF IsStepBack, fine
    <2> QED
      BY <2>2 DEF bad
  <1>3. bad = {}
    BY <1>1, <1>2, NoneBad
  <1> QED
    BY <1>3

-----------------------------------------------------------------------------
(* What one more operation adds.                                           *)

\* A way back from the output before is one from the operation's.
LEMMA WaysShift ==
    ASSUME NEW out, NEW e, NEW b \in Before(out, e), NEW n \in Nat
    PROVE  \A w \in Ways(b, e)[n] : <<w[1], w[2] \o LayersAt(out)>> \in Ways(out, e)[n + 1]
  <1> DEFINE L == LayersAt(out)
             bad == {k \in Nat : ~ \A w \in Ways(b, e)[k] : <<w[1], w[2] \o L>> \in Ways(out, e)[k + 1]}
  <1>0. IsList(L) /\ L \o <<>> = L /\ <<>> \o L = L /\ IsList(<<>>)
    <2>1. IsList(L) /\ IsList(<<>>)
      BY LayersAtList, TupleLists
    <2> HIDE DEF L
    <2> QED
      BY <2>1, CatEmpty
  <1>1. 0 \notin bad
    <2> DEFINE start == <<out, <<>>>>
    <2>1. \A w \in Ways(b, e)[0] : w = <<b, <<>>>>
      BY WaysStart
    <2>2. start \in Ways(out, e)[0] /\ start[1] = out /\ start[2] = <<>>
      BY WaysStart
    <2> HIDE DEF start
    <2>3. <<b, LayersAt(start[1]) \o start[2]>> \in Ways(out, e)[0 + 1]
      BY <2>2, WaysStep
    <2>4. <<b, L>> \in Ways(out, e)[0 + 1]
      BY <1>0, <2>2, <2>3
    <2> HIDE DEF L
    <2>5. ASSUME NEW w \in Ways(b, e)[0]
          PROVE  <<w[1], w[2] \o L>> \in Ways(out, e)[0 + 1]
      <3>1. w[1] = b /\ w[2] = <<>>
        BY <2>1
      <3> QED
        BY <1>0, <2>4, <3>1
    <2> QED
      BY <2>5
  <1>2. ASSUME NEW k \in Nat, k \notin bad
        PROVE  k + 1 \notin bad
    <2>1. \A w \in Ways(b, e)[k] : <<w[1], w[2] \o L>> \in Ways(out, e)[k + 1]
      BY <1>2
    <2>2. ASSUME NEW x \in Ways(b, e)[k + 1]
          PROVE  <<x[1], x[2] \o L>> \in Ways(out, e)[k + 1 + 1]
      <3> HIDE DEF bad, L
      <3>1. PICK w \in Ways(b, e)[k] : IsStepBack(w, x, e)
        BY WaysBack
      <3> DEFINE u == <<w[1], w[2] \o L>>
                 M == LayersAt(w[1])
      <3>2. u \in Ways(out, e)[k + 1] /\ u[1] = w[1] /\ u[2] = w[2] \o L
        BY <2>1
      <3>3. x[1] \in Before(w[1], e) /\ x[2] = M \o w[2]
        BY <3>1 DEF IsStepBack
      <3>4. IsList(M) /\ IsList(w[2])
        BY WaysLists, LayersAtList
      <3> HIDE DEF u, M
      <3>5. k + 1 \in Nat /\ x[1] \in Before(u[1], e)
        BY <3>2, <3>3
      <3>6. <<x[1], LayersAt(u[1]) \o u[2]>> \in Ways(out, e)[k + 1 + 1]
        BY <3>2, <3>5, WaysStep
      <3>7. LayersAt(u[1]) \o u[2] = M \o (w[2] \o L)
        BY <3>2 DEF M
      <3>8. M \o (w[2] \o L) = (M \o w[2]) \o L
        <4> DEFINE t == w[2]
        <4>1. IsList(M) /\ IsList(t) /\ IsList(L)
          BY <1>0, <3>4
        <4> HIDE DEF t
        <4>2. (M \o t) \o L = M \o (t \o L)
          BY <4>1, CatAssociative
        <4> QED
          BY <4>2 DEF t
      <3> QED
        BY <3>3, <3>6, <3>7, <3>8
    <2> QED
      BY <2>2
  <1>3. bad = {}
    BY <1>1, <1>2, NoneBad
  <1> QED
    BY <1>3

LEMMA LayersMore ==
    ASSUME NEW out, NEW d \in Nat, NEW b \in Before(out, d + 1), NEW layers \in LayersIn(b, d)
    PROVE  layers \o LayersAt(out) \in LayersIn(out, d + 1)
  <1> DEFINE L == LayersAt(out)
             e == d + 1
  <1>1. PICK n \in 0..d : \E w \in Ways(b, d)[n] :
           IsBase(w[1]) /\ layers = LayersAt(w[1]) \o w[2]
    BY DEF LayersIn
  <1>2. PICK w \in Ways(b, d)[n] : IsBase(w[1]) /\ layers = LayersAt(w[1]) \o w[2]
    BY <1>1
  <1>3. n \in Nat /\ e \in Nat /\ d <= e /\ n + 1 \in 0..e
    OBVIOUS
  <1> DEFINE M == LayersAt(w[1])
             u == <<w[1], w[2] \o L>>
  <1>4. w \in Ways(b, e)[n]
    BY <1>3, WaysMore
  <1>5. u \in Ways(out, e)[n + 1] /\ u[1] = w[1] /\ u[2] = w[2] \o L
    BY <1>3, <1>4, WaysShift
  <1>6. IsList(M) /\ IsList(w[2]) /\ IsList(L)
    BY <1>3, WaysLists, LayersAtList
  <1> HIDE DEF L, u
  <1>7. layers \o L = LayersAt(u[1]) \o u[2]
    <2>1. (M \o w[2]) \o L = M \o (w[2] \o L)
      <3> DEFINE t == w[2]
      <3>1. IsList(M) /\ IsList(t) /\ IsList(L)
        BY <1>6
      <3> HIDE DEF M, t
      <3>2. (M \o t) \o L = M \o (t \o L)
        BY <3>1, CatAssociative
      <3> QED
        BY <3>2 DEF t
    <2> QED
      BY <1>2, <1>5, <2>1
  <1>8. IsBase(u[1])
    BY <1>2, <1>5
  <1> HIDE DEF e
  <1>9. layers \o L \in LayersIn(out, e)
    BY <1>3, <1>5, <1>7, <1>8, LayersInIs
  <1> QED
    BY <1>9 DEF L, e

\* A base has the layers of its image, if it is one.
LEMMA BaseLayers ==
    ASSUME NEW out, IsBase(out), NEW d \in Nat
    PROVE  LayersAt(out) \in LayersIn(out, d)
  <1> DEFINE w == <<out, <<>>>>
  <1>1. w \in Ways(out, d)[0] /\ w[1] = out /\ w[2] = <<>> /\ 0 \in 0..d
    BY WaysStart
  <1>2. LayersAt(out) = LayersAt(out) \o <<>>
    BY LayersAtList, CatEmpty
  <1> HIDE DEF w
  <1> QED
    BY <1>1, <1>2, LayersInIs

\* Without a config there are no layers.
LEMMA BareLayers ==
    ASSUME NEW out, NEW d \in Nat, Bare(out, d)
    PROVE  <<>> \in LayersIn(out, d)
  <1> DEFINE at(n) == Stripped(out)[n]
             found(n) == \E k \in 0..n : <<at(n), <<>>>> \in Ways(out, d)[k]
             bad == {n \in Nat : ~found(n)}
  <1>1. 0 \notin bad
    <2>1. <<at(0), <<>>>> \in Ways(out, d)[0] /\ 0 \in 0..0
      BY StrippedSteps, WaysStart
    <2> QED
      BY <2>1
  <1>2. ASSUME NEW n \in Nat, n \notin bad
        PROVE  n + 1 \notin bad
    <2>1. PICK k \in 0..n : <<at(n), <<>>>> \in Ways(out, d)[k]
      BY <1>2
    <2>2. at(n + 1) = Strip(at(n))
      BY StrippedSteps
    <2> DEFINE o == at(n)
               w == <<o, <<>>>>
    <2>3. CASE IsPlainFile(o)
      <3> DEFINE b == Digest(o).ins[1].out
      <3>1. ~IsBase(o) /\ Before(o, d) = {b} /\ LayersAt(o) = <<>>
        <4>1. o # Scratch /\ Digest(o).op = "file"
          BY <2>3 DEF IsPlainFile
        <4> HIDE DEF o
        <4>2. ~IsBase(o)
          BY <4>1 DEF IsBase
        <4>3. Before(o, d) = {b}
          BY <4>1, <4>2 DEF Before
        <4>4. LayersAt(o) = <<>>
          BY <2>3, <4>1, <4>2 DEF LayersAt
        <4> QED
          BY <4>2, <4>3, <4>4
      <3>2. w[1] = o /\ w[2] = <<>> /\ at(n + 1) = b /\ k \in Nat /\ k + 1 \in 0..(n + 1)
        BY <2>2, <2>3 DEF Strip
      <3>3. w \in Ways(out, d)[k] /\ <<>> \o <<>> = <<>>
        BY <2>1, TupleLists, CatEmpty
      <3> HIDE DEF w, b, o
      <3>4. <<b, LayersAt(w[1]) \o w[2]>> \in Ways(out, d)[k + 1]
        BY <3>1, <3>2, <3>3, WaysStep
      <3>5. <<b, <<>>>> \in Ways(out, d)[k + 1]
        BY <3>1, <3>2, <3>3, <3>4
      <3> HIDE DEF at
      <3>6. found(n + 1)
        BY <3>2, <3>5
      <3> QED
        BY <3>6
    <2>4. CASE ~IsPlainFile(o)
      <3>1. at(n + 1) = at(n) /\ k \in 0..(n + 1)
        BY <2>2, <2>4 DEF Strip
      <3> HIDE DEF at
      <3>2. found(n + 1)
        BY <2>1, <3>1
      <3> QED
        BY <3>2
    <2> QED
      BY <2>3, <2>4
  <1>3. bad = {}
    BY <1>1, <1>2, NoneBad
  <1>4. PICK n \in 0..d : IsBase(at(n)) /\ ~IsImageBase(at(n))
    BY DEF Bare
  <1>5. n \in Nat
    BY <1>4
  <1>6. PICK k \in 0..n : <<at(n), <<>>>> \in Ways(out, d)[k]
    BY <1>3, <1>5
  <1> DEFINE o == at(n)
             w == <<o, <<>>>>
  <1>7. w \in Ways(out, d)[k] /\ w[1] = o /\ w[2] = <<>> /\ k \in 0..d
    BY <1>4, <1>6
  <1>8. LayersAt(o) = <<>> /\ IsBase(o)
    BY <1>4 DEF LayersAt
  <1>9. <<>> \o <<>> = <<>>
    BY TupleLists, CatEmpty
  <1> HIDE DEF o, w
  <1>10. IsBase(w[1]) /\ <<>> = LayersAt(w[1]) \o w[2]
    BY <1>7, <1>8, <1>9
  <1> QED
    BY <1>7, <1>10, LayersInIs

-----------------------------------------------------------------------------
(* Histories and their layers.                                             *)

\* Records of layers belong to no session, and those of key=value instructions
\* have no layer, so that neither commitHistoryKV nor JSON touches a layer.
IsBooked(h) ==
    \A i \in DOMAIN h : ~h[i].empty => h[i].ins \notin KeyValues /\ h[i].sess = NoSession

LEMMA LayersAppend ==
    ASSUME NEW h, IsHistory(h), NEW r
    PROVE  LayersOf(Append(h, r)) = LayersOf(h) \o LayerIn(r)
  <1> DEFINE n == Len(h)
             g == Append(h, r)
             ss == [i \in DOMAIN h |-> LayerIn(h[i])]
             tt == [i \in DOMAIN g |-> LayerIn(g[i])]
  <1>1. /\ n \in Nat /\ Len(g) = n + 1 /\ DOMAIN h = 1..n /\ DOMAIN g = 1..(n + 1)
        /\ \A k \in 1..n : g[k] = h[k]
        /\ g[n + 1] = r
    BY AppendList DEF IsHistory
  <1> HIDE DEF g, n
  <1>2. /\ ss = [i \in 1..n |-> LayerIn(h[i])] /\ tt = [i \in 1..(n + 1) |-> LayerIn(g[i])]
        /\ n + 1 \in 1..(n + 1) /\ \A i \in 1..n : i \in 1..(n + 1)
    BY <1>1
  <1>3. Len(ss) = n /\ (n = 0 => ss = <<>>)
    BY <1>1, <1>2
  <1>4. Len(tt) = n + 1
    BY <1>1, <1>2
  <1>5. tt[n + 1] = LayerIn(r) /\ \A i \in 1..n : tt[i] = ss[i]
    BY <1>1, <1>2
  <1>6. tt[n + 1] \in Seq({r})
    <2>1. <<r>> \in Seq({r}) /\ <<>> \in Seq({r})
      OBVIOUS
    <2> QED
      BY <1>5, <2>1 DEF LayerIn
  <1> HIDE DEF ss, tt
  <1> DEFINE S == {r}
  <1>7. FlattenSeq(tt) = FlattenSeq(ss) \o tt[n + 1]
    <2>1. tt[n + 1] \in Seq(S)
      BY <1>6
    <2>2. n \in Nat /\ Len(ss) = n /\ Len(tt) = n + 1 /\ (n = 0 => ss = <<>>)
      BY <1>1, <1>3, <1>4
    <2>3. \A i \in 1..n : tt[i] = ss[i]
      BY <1>5
    <2> HIDE DEF S
    <2> QED
      BY <2>1, <2>2, <2>3, FlattenStep
  <1> QED
    BY <1>5, <1>7, LayersOfIs DEF ss, tt, g

LEMMA LayersSame ==
    ASSUME NEW h, NEW g, DOMAIN g = DOMAIN h,
           \A i \in DOMAIN h : LayerIn(g[i]) = LayerIn(h[i])
    PROVE  LayersOf(g) = LayersOf(h)
  <1>1. [i \in DOMAIN g |-> LayerIn(g[i])] = [i \in DOMAIN h |-> LayerIn(h[i])]
    OBVIOUS
  <1> QED
    BY <1>1, LayersOfIs

LEMMA BookedAppend ==
    ASSUME NEW h, IsHistory(h), IsBooked(h), NEW r,
           ~r.empty => r.ins \notin KeyValues /\ r.sess = NoSession
    PROVE  IsBooked(Append(h, r))
  <1> DEFINE n == Len(h)
             g == Append(h, r)
  <1>1. /\ n \in Nat /\ DOMAIN h = 1..n /\ DOMAIN g = 1..(n + 1)
        /\ \A k \in 1..n : g[k] = h[k]
        /\ g[n + 1] = r
    BY AppendList DEF IsHistory
  <1> HIDE DEF g
  <1>2. \A k \in DOMAIN g : g[k] = r \/ (k \in DOMAIN h /\ g[k] = h[k])
    BY <1>1
  <1>3. IsBooked(g)
    BY <1>2 DEF IsBooked
  <1> QED
    BY <1>3 DEF g

\* The layer that a mutator commits.
LayerOf(m) ==
    IF m.ins \in Layers
    THEN <<Record(m.ins, IF m.of = <<>> THEN <<m.arg>> ELSE <<>>, m.of, FALSE, NoSession)>>
    ELSE <<>>

\* A history goes on with these layers.
GoesOn(h, g, layers) == IsBooked(g) /\ LayersOf(g) = LayersOf(h) \o layers

\* A record that does not count as a layer.
LEMMA GoesOnEmpty ==
    ASSUME NEW h, IsHistory(h), IsBooked(h), NEW r, r.empty = TRUE
    PROVE  GoesOn(h, Append(h, r), <<>>)
  <1>1. LayerIn(r) = <<>>
    BY DEF LayerIn
  <1>2. IsBooked(Append(h, r))
    BY BookedAppend
  <1>3. LayersOf(Append(h, r)) = LayersOf(h) \o <<>>
    BY <1>1, LayersAppend
  <1> QED
    BY <1>2, <1>3 DEF GoesOn

LEMMA GoesOnSame ==
    ASSUME NEW h, IsHistory(h), IsBooked(h)
    PROVE  GoesOn(h, h, <<>>)
  BY LayersOfList, CatEmpty DEF GoesOn

\* An argument more in the last record, which is that of an instruction.
LEMMA GoesOnExtended ==
    ASSUME NEW h, IsHistory(h), IsBooked(h), NEW g, IsHistory(g), Len(h) > 0, NEW arg,
           g = [h EXCEPT ![Len(h)].args = Append(@, arg)], h[Len(h)].ins \in KeyValues
    PROVE  GoesOn(h, g, <<>>)
  <1> DEFINE n == Len(h)
             e == h[n]
             args == Append(e.args, arg)
  <1>1. n \in Nat /\ n > 0 /\ DOMAIN h = 1..n /\ n \in DOMAIN h /\ DOMAIN g = DOMAIN h
    BY HistoryShape
  <1>2. (\A k \in 1..n : k # n => g[k] = h[k]) /\ g[n] = [e EXCEPT !.args = args]
    BY <1>1
  <1>3. IsRecord(e)
    BY <1>1 DEF IsHistory
  <1>4. e.ins \in KeyValues
    OBVIOUS
  <1> HIDE DEF args, n
  <1>5. g[n].ins = e.ins /\ g[n].sess = e.sess /\ g[n].empty = e.empty
    <2> HIDE DEF e
    <2> QED
      BY <1>2, <1>3 DEF IsRecord, Record
  <1>6. e.empty
    BY <1>1, <1>4 DEF IsBooked
  <1> HIDE DEF e
  <1>7. \A k \in DOMAIN h : LayerIn(g[k]) = LayerIn(h[k])
    <2>1. LayerIn(g[n]) = <<>> /\ LayerIn(e) = <<>>
      BY <1>5, <1>6 DEF LayerIn
    <2> QED
      BY <1>1, <1>2, <2>1 DEF e
  <1>8. LayersOf(g) = LayersOf(h)
    BY <1>1, <1>7, LayersSame
  <1>9. IsBooked(g)
    BY <1>1, <1>2, <1>5, <1>6 DEF IsBooked, e
  <1>10. LayersOf(h) = LayersOf(h) \o <<>>
    BY LayersOfList, CatEmpty
  <1> QED
    BY <1>8, <1>9, <1>10 DEF GoesOn

LEMMA MutateGoesOn ==
    ASSUME NEW img, IsImage(img), IsBooked(img.history), NEW m, IsMutator(m), NEW sess \in Sessions
    PROVE  GoesOn(img.history, Mutate(img, m, sess).history, LayerOf(m))
  <1> DEFINE res == Mutate(img, m, sess)
             h == img.history
             mid == Valued(img, m)
  <1>1. IsHistory(h)
    BY ImageHistoryIs
  <1>2. m.ins \in Layers \cup KeyValues \cup Once \cup Replaced \cup {"ONBUILD", "PLATFORM"}
    BY KindsDisjoint DEF IsMutator
  <1>3. m.ins \notin Layers =>
           /\ m.ins \in Instructions /\ m.arg \in Keys /\ IsImage(mid) /\ mid.history = h
           /\ LayerOf(m) = <<>>
    BY ValuedImage DEF IsMutator, LayerOf
  <1>4. CASE m.ins \in Layers
    <2> DEFINE r == Record(m.ins, IF m.of = <<>> THEN <<m.arg>> ELSE <<>>, m.of, FALSE, NoSession)
    <2>1. r.ins = m.ins /\ res.history = Append(h, r)
      BY <1>4, MutateLayer
    <2>2. r.empty = FALSE /\ r.sess = NoSession
      BY DEF Record
    <2>3. m.ins \notin KeyValues /\ LayerOf(m) = <<r>>
      BY <1>4, KindsDisjoint DEF LayerOf
    <2> HIDE DEF r, res, h
    <2>4. LayerIn(r) = <<r>>
      BY <2>2 DEF LayerIn
    <2>5. IsBooked(Append(h, r))
      BY <1>1, <2>1, <2>2, <2>3, BookedAppend DEF h
    <2>6. LayersOf(Append(h, r)) = LayersOf(h) \o <<r>>
      BY <1>1, <2>4, LayersAppend
    <2>7. GoesOn(h, res.history, LayerOf(m))
      BY <2>1, <2>3, <2>5, <2>6 DEF GoesOn
    <2> QED
      BY <2>7 DEF h, res
  <1>5. CASE m.ins \in KeyValues
    <2> DEFINE r == Record(m.ins, <<m.arg>>, <<>>, TRUE, sess)
    <2>1. res = commitHistoryKV(mid, m.ins, m.arg, sess) /\ m.ins \notin Layers
      BY <1>5, MutateKeyValue, KindsDisjoint
    <2>2. r.ins = m.ins /\ r.empty = TRUE
      BY DEF Record
    <2> HIDE DEF r, res, h, mid
    <2>3. IsKVCommit(mid, m.ins, m.arg, sess, res)
      BY <1>3, <2>1, CommitKV
    <2>4. /\ IsImage(res)
          /\ ~CanExtend(h, m.ins, sess) => res.history = Append(h, r)
          /\ CanExtend(h, m.ins, sess) => res.history = [h EXCEPT ![Len(h)].args = Append(@, m.arg)]
      BY <1>3, <2>1, <2>3 DEF IsKVCommit, r
    <2>5. IsHistory(res.history) /\ IsBooked(h)
      BY <2>4, ImageHistoryIs DEF h
    <2>6. CASE ~CanExtend(h, m.ins, sess)
      <3>1. GoesOn(h, Append(h, r), <<>>)
        BY <1>1, <2>1, <2>2, <2>5, GoesOnEmpty
      <3> QED
        BY <1>3, <2>1, <2>4, <2>6, <3>1 DEF res, h
    <2>7. CASE CanExtend(h, m.ins, sess)
      <3>1. Len(h) > 0 /\ h[Len(h)].ins \in KeyValues
        BY <1>5, <2>7 DEF CanExtend
      <3>2. GoesOn(h, res.history, <<>>)
        BY <1>1, <2>4, <2>5, <2>7, <3>1, GoesOnExtended
      <3> QED
        BY <1>3, <2>1, <3>2 DEF res, h
    <2> QED
      BY <2>6, <2>7
  <1>6. CASE m.ins \in Once \cup Replaced \cup {"ONBUILD"}
    <2> DEFINE com == commitInstruction(mid, m)
               args == <<m.arg>>
               r == Record(m.ins, args, <<>>, TRUE, NoSession)
    <2>1. m.ins \notin Layers /\ m.ins \notin KeyValues
      BY <1>6, KindsDisjoint
    <2>2. res = img \/ res = com
      BY <1>6, MutateInstruction
    <2>3. args \in Seq(Keys) /\ com = commitHistory(mid, m.ins, args, <<>>, TRUE, NoSession)
      BY <1>3, <2>1 DEF commitInstruction
    <2>4. r.ins = m.ins /\ r.empty = TRUE /\ NoSession \in Sessions
      BY DEF Record, Sessions
    <2> HIDE DEF args, com, mid
    <2>5. IsCommit(mid, r, com)
      BY <1>3, <2>1, <2>3, <2>4, Committed
    <2> HIDE DEF r, res, h
    <2>6. com.history = Append(h, r) /\ IsBooked(h)
      BY <1>3, <2>1, <2>5, ImageFields DEF IsCommit, h
    <2>7. GoesOn(h, Append(h, r), <<>>) /\ GoesOn(h, h, <<>>)
      BY <1>1, <2>1, <2>4, <2>6, GoesOnEmpty, GoesOnSame
    <2> QED
      BY <1>3, <2>1, <2>2, <2>6, <2>7 DEF h, res
  <1>7. CASE m.ins = "PLATFORM"
    <2>1. res = mid /\ m.ins \notin Layers
      BY <1>7, MutatePlatform, KindsDisjoint
    <2> HIDE DEF mid
    <2>2. GoesOn(h, h, <<>>)
      BY <1>1, GoesOnSame
    <2> QED
      BY <1>3, <2>1, <2>2
  <1> QED
    BY <1>2, <1>4, <1>5, <1>6, <1>7

-----------------------------------------------------------------------------
(* The layers that the mutators of a state add.                            *)

\* The layers that the first n mutators commit.
LayersAdded(ms, n) == FlattenSeq([i \in 1..n |-> LayerOf(ms[i])])

\* What the mutators of a state start from, and the layers that they end with.
ConfigFor(s) == IF s.config = <<>> THEN EmptyConfig ELSE s.config[1]
LayersOfState(s) ==
    LayersOf(ConfigFor(s).history) \o LayersAdded(s.mutators, Len(s.mutators))

LEMMA AddedNone ==
    ASSUME NEW ms
    PROVE  LayersAdded(ms, 0) = <<>>
  <1> DEFINE ss == [i \in 1..0 |-> LayerOf(ms[i])]
  <1>1. IsList(ss) /\ DOMAIN ss = {}
    <2>1. ss = <<>>
      OBVIOUS
    <2> QED
      BY <2>1, TupleLists
  <1> HIDE DEF ss
  <1>2. FlattenSeq(ss) = <<>>
    BY <1>1, FlattenNone
  <1> QED
    BY <1>2 DEF LayersAdded, ss

LEMMA AddedStep ==
    ASSUME NEW ms, NEW n \in Nat
    PROVE  LayersAdded(ms, n + 1) = LayersAdded(ms, n) \o LayerOf(ms[n + 1])
  <1> DEFINE ss == [i \in 1..n |-> LayerOf(ms[i])]
             tt == [i \in 1..(n + 1) |-> LayerOf(ms[i])]
             layer == LayerOf(ms[n + 1])
             S == ToSet(layer)
  <1>1. Len(ss) = n /\ Len(tt) = n + 1 /\ (n = 0 => ss = <<>>)
    OBVIOUS
  <1>2. tt[n + 1] = layer /\ \A i \in 1..n : tt[i] = ss[i]
    OBVIOUS
  <1>3. IsList(layer)
    BY TupleLists DEF LayerOf
  <1>4. tt[n + 1] \in Seq(S)
    BY <1>2, <1>3 DEF IsList
  <1> HIDE DEF ss, tt, S, layer
  <1>5. FlattenSeq(tt) = FlattenSeq(ss) \o tt[n + 1]
    BY <1>1, <1>2, <1>4, FlattenStep
  <1> QED
    BY <1>2, <1>5 DEF LayersAdded, ss, tt, layer

LEMMA AddedSame ==
    ASSUME NEW ms, NEW ns, NEW n \in Nat, \A i \in 1..n : ns[i] = ms[i]
    PROVE  LayersAdded(ns, n) = LayersAdded(ms, n)
  <1>1. [i \in 1..n |-> LayerOf(ns[i])] = [i \in 1..n |-> LayerOf(ms[i])]
    OBVIOUS
  <1> QED
    BY <1>1 DEF LayersAdded

LEMMA LayerOfList ==
    ASSUME NEW m
    PROVE  IsList(LayerOf(m))
  BY TupleLists DEF LayerOf

LEMMA AddedList ==
    ASSUME NEW ms, NEW n \in Nat
    PROVE  IsList(LayersAdded(ms, n))
  <1> DEFINE bad == {k \in Nat : ~IsList(LayersAdded(ms, k))}
  <1>1. 0 \notin bad
    BY AddedNone, TupleLists
  <1>2. ASSUME NEW k \in Nat, k \notin bad
        PROVE  k + 1 \notin bad
    <2>1. IsList(LayersAdded(ms, k) \o LayerOf(ms[k + 1]))
      BY <1>2, LayerOfList, ConcatList
    <2> QED
      BY <2>1, AddedStep
  <1>3. bad = {}
    BY <1>1, <1>2, NoneBad
  <1> QED
    BY <1>3

\* Mutators without layers at the end.
LEMMA AddedNothing ==
    ASSUME NEW ms, NEW n \in Nat, NEW k \in Nat, \A i \in (n + 1)..(n + k) : LayerOf(ms[i]) = <<>>
    PROVE  LayersAdded(ms, n + k) = LayersAdded(ms, n)
  <1> DEFINE bad == {j \in Nat : j <= k /\ LayersAdded(ms, n + j) # LayersAdded(ms, n)}
  <1>1. 0 \notin bad
    OBVIOUS
  <1>2. ASSUME NEW j \in Nat, j \notin bad
        PROVE  j + 1 \notin bad
    <2> SUFFICES ASSUME j + 1 <= k PROVE LayersAdded(ms, n + (j + 1)) = LayersAdded(ms, n)
      OBVIOUS
    <2> DEFINE i == n + j
    <2>1. LayersAdded(ms, i) = LayersAdded(ms, n)
      BY <1>2
    <2>2. i \in Nat /\ n + (j + 1) = i + 1 /\ i + 1 \in (n + 1)..(n + k)
      OBVIOUS
    <2> HIDE DEF i, bad
    <2>3. LayerOf(ms[i + 1]) = <<>>
      BY <2>2
    <2>4. LayersAdded(ms, i + 1) = LayersAdded(ms, i) \o <<>>
      BY <2>2, <2>3, AddedStep
    <2>5. LayersAdded(ms, i) \o <<>> = LayersAdded(ms, i)
      BY <2>2, AddedList, CatEmpty
    <2> QED
      BY <2>1, <2>2, <2>4, <2>5
  <1>3. bad = {}
    BY <1>1, <1>2, NoneBad
  <1> QED
    BY <1>3

LEMMA ConfigForIs ==
    ASSUME NEW s, IsState(s)
    PROVE  IsImage(ConfigFor(s)) /\ IsHistory(ConfigFor(s).history)
  <1>1. IsImage(ConfigFor(s))
    BY EmptyImage DEF ConfigFor, IsState, IsConfig
  <1> QED
    BY <1>1, ImageHistoryIs

\* More mutators, and what becomes of the fields of a state.
LEMMA MoreMutators ==
    ASSUME NEW s, IsState(s), NEW ms, IsList(ms)
    PROVE  LET t == withImageConfigMutators(s, ms)
           IN  /\ t.out = s.out /\ t.config # <<>> /\ ConfigFor(t) = ConfigFor(s)
               /\ t.mutators = s.mutators \o ms
               /\ Len(s.mutators) \in Nat /\ Len(ms) \in Nat
               /\ Len(t.mutators) = Len(s.mutators) + Len(ms)
               /\ \A i \in 1..Len(s.mutators) : t.mutators[i] = s.mutators[i]
               /\ \A i \in 1..Len(ms) : t.mutators[Len(s.mutators) + i] = ms[i]
  <1> DEFINE c == IF s.config = <<>> THEN <<EmptyConfig>> ELSE s.config
             all == s.mutators \o ms
             t == withImageConfigMutators(s, ms)
             S == ToSet(s.mutators) \cup ToSet(ms)
  <1>1. t = [s EXCEPT !.config = c, !.mutators = all]
    BY DEF withImageConfigMutators
  <1>2. s = State(s.out, s.config, s.mutators) /\ IsList(s.mutators)
    BY DEF IsState
  <1>3. s.mutators \in Seq(S) /\ ms \in Seq(S)
    <2>1. s.mutators \in Seq(ToSet(s.mutators)) /\ ms \in Seq(ToSet(ms))
      BY <1>2 DEF IsList
    <2> QED
      BY <2>1
  <1> HIDE DEF S
  <1>4. /\ Len(s.mutators) \in Nat /\ Len(ms) \in Nat
        /\ Len(all) = Len(s.mutators) + Len(ms)
        /\ \A i \in 1..Len(s.mutators) : all[i] = s.mutators[i]
        /\ \A i \in 1..Len(ms) : all[Len(s.mutators) + i] = ms[i]
    BY <1>3
  <1>5. c # <<>> /\ c[1] = ConfigFor(s)
    BY DEF ConfigFor
  <1> HIDE DEF c, all, t
  <1>6. t.out = s.out /\ t.config = c /\ t.mutators = all
    BY <1>1, <1>2 DEF State
  <1>7. ConfigFor(t) = ConfigFor(s) /\ t.config # <<>>
    BY <1>5, <1>6 DEF ConfigFor
  <1> QED
    BY <1>4, <1>6, <1>7 DEF all, t

LEMMA OneMutator ==
    ASSUME NEW s, IsState(s), NEW m
    PROVE  LayersOfState(withImageConfigMutator(s, m)) = LayersOfState(s) \o LayerOf(m)
  <1> DEFINE ms == <<m>>
             t == withImageConfigMutators(s, ms)
             n == Len(s.mutators)
             a == LayersOf(ConfigFor(s).history)
             b == LayersAdded(s.mutators, n)
             c == LayerOf(m)
  <1>0. IsList(ms)
    BY TupleLists
  <1>1. Len(ms) = 1 /\ ms[1] = m
    BY TupleLists
  <1>2. t = withImageConfigMutator(s, m)
    BY DEF withImageConfigMutator
  <1> HIDE DEF ms
  <1>3. /\ ConfigFor(t) = ConfigFor(s) /\ n \in Nat /\ Len(t.mutators) = n + Len(ms)
        /\ \A i \in 1..n : t.mutators[i] = s.mutators[i]
        /\ \A i \in 1..Len(ms) : t.mutators[n + i] = ms[i]
    BY <1>0, MoreMutators
  <1> HIDE DEF t, n
  <1>4. Len(t.mutators) = n + 1 /\ t.mutators[n + 1] = m
    BY <1>1, <1>3
  <1>5. LayersAdded(t.mutators, n + 1) = LayersAdded(t.mutators, n) \o c
    BY <1>3, <1>4, AddedStep
  <1>6. LayersAdded(t.mutators, n) = b
    BY <1>3, AddedSame
  <1>7. IsList(a) /\ IsList(b) /\ IsList(c)
    BY <1>3, ConfigForIs, LayersOfList, AddedList, LayerOfList
  <1>8. LayersOfState(t) = a \o (b \o c)
    BY <1>3, <1>4, <1>5, <1>6 DEF LayersOfState
  <1>9. LayersOfState(s) = a \o b
    BY DEF LayersOfState, n
  <1> HIDE DEF a, b, c
  <1>10. LayersOfState(t) = LayersOfState(s) \o c
    BY <1>7, <1>8, <1>9, CatAssociative
  <1> QED
    BY <1>2, <1>10 DEF c

LEMMA OtherMutators ==
    ASSUME NEW s, IsState(s), NEW ms, IsList(ms), \A i \in 1..Len(ms) : LayerOf(ms[i]) = <<>>
    PROVE  LayersOfState(withImageConfigMutators(s, ms)) = LayersOfState(s)
  <1> DEFINE t == withImageConfigMutators(s, ms)
             n == Len(s.mutators)
             k == Len(ms)
  <1>1. /\ ConfigFor(t) = ConfigFor(s) /\ n \in Nat /\ k \in Nat /\ Len(t.mutators) = n + k
        /\ \A i \in 1..n : t.mutators[i] = s.mutators[i]
        /\ \A i \in 1..k : t.mutators[n + i] = ms[i]
    BY MoreMutators
  <1> HIDE DEF t, n, k
  <1>2. ASSUME NEW i \in (n + 1)..(n + k)
        PROVE  LayerOf(t.mutators[i]) = <<>>
    <2> DEFINE j == i - n
    <2>1. j \in 1..k /\ n + j = i
      BY <1>1
    <2> HIDE DEF j
    <2> QED
      BY <1>1, <2>1 DEF k
  <1>3. LayersAdded(t.mutators, n + k) = LayersAdded(t.mutators, n)
    BY <1>1, <1>2, AddedNothing
  <1>4. LayersAdded(t.mutators, n) = LayersAdded(s.mutators, n)
    BY <1>1, AddedSame
  <1> QED
    BY <1>1, <1>3, <1>4 DEF LayersOfState, t, n

-----------------------------------------------------------------------------
(* The invariant of a state: the layers that it ends with are those of its *)
(* graph, and it has no config only if its graph gives it none.            *)

Explained(s, depth) ==
    /\ s.config = <<>> => Bare(s.out, depth)
    /\ IsBooked(ConfigFor(s).history)
    /\ LayersOfState(s) \in LayersIn(s.out, depth)

LEMMA ExplainedMore ==
    ASSUME NEW s, NEW d \in Nat, NEW e \in Nat, d <= e, Explained(s, d)
    PROVE  Explained(s, e)
  BY BareMore, LayersInMore DEF Explained

LEMMA NothingBooked == IsBooked(EmptyConfig.history) /\ LayersOf(EmptyConfig.history) = <<>>
  BY EmptyImage, TupleLists, LayersOfEmpty DEF IsBooked

LEMMA NoLayers ==
    ASSUME NEW s, IsState(s), s.config = <<>>
    PROVE  LayersOfState(s) = <<>> /\ IsBooked(ConfigFor(s).history)
  <1>1. s.mutators = <<>> /\ ConfigFor(s) = EmptyConfig
    BY DEF IsState, ConfigFor
  <1>2. LayersAdded(<<>>, 0) = <<>> /\ Len(<<>>) = 0 /\ <<>> \o <<>> = <<>>
    BY AddedNone, TupleLists, CatEmpty
  <1> QED
    BY <1>1, <1>2, NothingBooked DEF LayersOfState

LEMMA BareExplained ==
    ASSUME NEW s, IsState(s), s.config = <<>>, NEW d \in Nat, Bare(s.out, d)
    PROVE  Explained(s, d)
  BY NoLayers, BareLayers DEF Explained

LEMMA BaseBare ==
    ASSUME NEW out, IsBase(out), ~IsImageBase(out), NEW d \in Nat
    PROVE  Bare(out, d)
  <1>1. 0 \in 0..d /\ Stripped(out)[0] = out
    BY StrippedSteps
  <1> QED
    BY <1>1 DEF Bare

\* With a config and no mutators.
LEMMA PlainExplained ==
    ASSUME NEW out, NEW img, IsImage(img), IsBooked(img.history), NEW d,
           LayersOf(img.history) \in LayersIn(out, d)
    PROVE  Explained(State(out, <<img>>, <<>>), d)
  <1> DEFINE s == State(out, <<img>>, <<>>)
  <1>1. s.out = out /\ s.config # <<>> /\ ConfigFor(s) = img /\ s.mutators = <<>>
    BY StateFields DEF ConfigFor
  <1>2. IsList(LayersOf(img.history))
    BY ImageHistoryIs, LayersOfList
  <1>3. LayersAdded(<<>>, 0) = <<>> /\ Len(<<>>) = 0
    BY AddedNone, TupleLists
  <1>4. LayersOf(img.history) \o <<>> = LayersOf(img.history)
    BY <1>2, CatEmpty
  <1> HIDE DEF s
  <1>5. Explained(s, d)
    BY <1>1, <1>3, <1>4 DEF Explained, LayersOfState
  <1> QED
    BY <1>5 DEF s

LEMMA PulledBooked ==
    ASSUME NEW i \in Images
    PROVE  IsBooked(Pulled[i].history)
  BY BuildingAssumption DEF IsPulled, IsBooked

LEMMA StartsExplained ==
    ASSUME NEW s \in Starts
    PROVE  Explained(s, 0)
  <1>1. ASSUME NEW i
        PROVE  /\ SourceOp(i) # Scratch /\ Digest(SourceOp(i)).op = "source"
               /\ Digest(SourceOp(i)).arg = i
    BY OutputVertices DEF SourceOp, Digest, Output, Vertex
  <1>2. ASSUME NEW i \in Images, s = Image(i, Pulled[i])
        PROVE  Explained(s, 0)
    <2> DEFINE out == SourceOp(i)
    <2>1. IsBase(out) /\ IsImageBase(out)
      BY <1>1 DEF IsBase, IsImageBase
    <2>2. LayersAt(out) = LayersOf(Pulled[i].history)
      BY <1>1, <2>1 DEF LayersAt
    <2> HIDE DEF out
    <2>3. LayersOf(Pulled[i].history) \in LayersIn(out, 0)
      BY <2>1, <2>2, BaseLayers
    <2>4. Explained(State(out, <<Pulled[i]>>, <<>>), 0)
      BY <2>3, PulledImage, PulledBooked, PlainExplained
    <2> QED
      BY <1>2, <2>4 DEF Image, out
  <1>3. ASSUME NEW l \in Locals, s = Local(l)
        PROVE  Explained(s, 0)
    <2>1. s.out = SourceOp(l) /\ s.config = <<>>
      BY <1>3, StateFields DEF Local
    <2>2. IsBase(s.out) /\ ~IsImageBase(s.out)
      BY <1>1, <2>1, BuildingAssumption DEF IsBase, IsImageBase
    <2> QED
      BY <2>1, <2>2, StartStates, BaseBare, BareExplained
  <1>4. ASSUME s = ScratchState
        PROVE  Explained(s, 0)
    <2>1. s.out = Scratch /\ s.config = <<>>
      BY <1>4, StateFields DEF ScratchState
    <2>2. IsBase(s.out) /\ ~IsImageBase(s.out)
      BY <2>1 DEF IsBase, IsImageBase
    <2> QED
      BY <2>1, <2>2, StartStates, BaseBare, BareExplained
  <1> QED
    BY <1>2, <1>3, <1>4 DEF Starts

-----------------------------------------------------------------------------
(* One more operation.                                                     *)

\* out is made by an operation that goes on from an output and adds layers.
IsOperation(out, from, layers, depth) ==
    from \in Before(out, depth) /\ LayersAt(out) = layers

LEMMA OutReplaced ==
    ASSUME NEW s, IsState(s), NEW o, IsOutput(o)
    PROVE  LET r == [s EXCEPT !.out = o]
           IN  /\ IsState(r) /\ r.out = o /\ r.config = s.config
               /\ ConfigFor(r) = ConfigFor(s) /\ LayersOfState(r) = LayersOfState(s)
  <1> DEFINE r == [s EXCEPT !.out = o]
  <1>1. IsState(r) /\ r.out = o
    BY OutputReplaced
  <1>2. r = State(o, s.config, s.mutators)
    BY StateFields DEF IsState
  <1>3. r.config = s.config /\ r.mutators = s.mutators
    BY <1>2, StateFields
  <1> HIDE DEF r
  <1>4. ConfigFor(r) = ConfigFor(s)
    BY <1>3 DEF ConfigFor
  <1>5. LayersOfState(r) = LayersOfState(s)
    BY <1>3, <1>4 DEF LayersOfState
  <1> QED
    BY <1>1, <1>3, <1>4, <1>5 DEF r

LEMMA OperationExplained ==
    ASSUME NEW s, IsState(s), IsBooked(ConfigFor(s).history), NEW o, IsOutput(o),
           NEW m, NEW b, NEW d \in Nat, IsOperation(o, b, LayerOf(m), d + 1),
           LayersOfState(s) \in LayersIn(b, d)
    PROVE  Explained(withImageConfigMutator([s EXCEPT !.out = o], m), d + 1)
  <1> DEFINE r == [s EXCEPT !.out = o]
             ms == <<m>>
             t == withImageConfigMutators(r, ms)
             e == d + 1
  <1>1. /\ IsState(r) /\ r.out = o
        /\ ConfigFor(r) = ConfigFor(s) /\ LayersOfState(r) = LayersOfState(s)
    BY OutReplaced
  <1>2. IsList(ms)
    BY TupleLists
  <1>3. t = withImageConfigMutator(r, m)
    BY DEF withImageConfigMutator
  <1> HIDE DEF r, ms
  <1>4. t.out = r.out /\ t.config # <<>> /\ ConfigFor(t) = ConfigFor(r)
    BY <1>1, <1>2, MoreMutators
  <1>5. LayersOfState(t) = LayersOfState(r) \o LayerOf(m)
    BY <1>1, <1>3, OneMutator
  <1>6. LayersOfState(s) \o LayersAt(o) \in LayersIn(o, e)
    BY LayersMore DEF IsOperation
  <1> HIDE DEF t, e
  <1>7. Explained(t, e)
    BY <1>1, <1>4, <1>5, <1>6 DEF Explained, IsOperation
  <1> QED
    BY <1>3, <1>7 DEF r, e

\* Mutators that have no layer on the same output.
LEMMA OthersExplained ==
    ASSUME NEW s, IsState(s), NEW d \in Nat, Explained(s, d),
           NEW ms, IsList(ms), \A i \in 1..Len(ms) : LayerOf(ms[i]) = <<>>
    PROVE  Explained(withImageConfigMutators(s, ms), d + 1)
  <1> DEFINE t == withImageConfigMutators(s, ms)
  <1>1. t.out = s.out /\ t.config # <<>> /\ ConfigFor(t) = ConfigFor(s)
    BY MoreMutators
  <1>2. LayersOfState(t) = LayersOfState(s)
    BY OtherMutators
  <1> HIDE DEF t
  <1>3. Explained(t, d)
    BY <1>1, <1>2 DEF Explained
  <1>4. d + 1 \in Nat /\ d <= d + 1
    OBVIOUS
  <1>5. Explained(t, d + 1)
    BY <1>3, <1>4, ExplainedMore
  <1> QED
    BY <1>5 DEF t

-----------------------------------------------------------------------------
(* What the operations of llblib are.                                      *)

LEMMA NotBase ==
    ASSUME NEW v, v.op # "source"
    PROVE  /\ ~IsBase(Output(v, 0)) /\ Digest(Output(v, 0)) = v
           /\ Output(v, 0) # Scratch /\ IsOutput(Output(v, 0))
  <1>1. Digest(Output(v, 0)) = v /\ Output(v, 0)[2] = 0
    BY DEF Digest, Output
  <1>2. Output(v, 0) # Scratch /\ IsOutput(Output(v, 0))
    BY OutputVertices
  <1> QED
    BY <1>1, <1>2 DEF IsBase

\* The first of the inputs.
LEMMA FirstInput ==
    ASSUME NEW e, NEW rest, IsList(rest), NEW s, s = <<e>> \o rest
    PROVE  /\ s[1] = e /\ Len(s) = Len(rest) + 1 /\ Len(rest) \in Nat
           /\ DOMAIN s = 1..(Len(rest) + 1)
           /\ \A i \in 1..Len(rest) : s[i + 1] = rest[i]
  <1> DEFINE n == Len(rest)
  <1>1. n \in Nat /\ rest \in Seq(ToSet(rest))
    BY DEF IsList
  <1>2. Len(s) = n + 1 /\ DOMAIN s = 1..(n + 1)
    <2>1. rest \in Seq({e} \cup ToSet(rest)) /\ <<e>> \in Seq({e} \cup ToSet(rest))
      BY <1>1
    <2> QED
      BY <2>1
  <1>3. s[1] = e /\ \A i \in 1..n : s[i + 1] = rest[i]
    BY <1>1
  <1> QED
    BY <1>1, <1>2, <1>3

\* A Run goes on from its root, which is its output 0.
IsExec(x, root, arg, mounts) ==
    /\ x.op = "exec" /\ x.arg = arg
    /\ x.ins[1] = In(RootDir, FALSE, root) /\ 1 \in DOMAIN x.ins
    /\ \A i \in DOMAIN x.ins : i # 1 => x.ins[i] \in mounts
    /\ DOMAIN x.ins = 1..Len(x.ins) /\ Len(x.ins) \in Nat
    /\ MountOutput(x, RootDir) = Output(x, 0)

LEMMA ExecOutput ==
    ASSUME NEW root, NEW arg, NEW mounts, IsMounts(mounts)
    PROVE  IsExec(ExecOp(root, arg, mounts), root, arg, mounts)
  <1> DEFINE names == SetToSeq({m.name : m \in mounts})
             sorted == [i \in DOMAIN names |-> CHOOSE m \in mounts : m.name = names[i]]
             n == Cardinality({m.name : m \in mounts})
             r == In(RootDir, FALSE, root)
             x == ExecOp(root, arg, mounts)
  <1>1. n \in Nat /\ DOMAIN names = 1..n /\ \A i \in 1..n : names[i] \in {m.name : m \in mounts}
    <2> HIDE DEF names, n
    <2>1. IsFiniteSet({m.name : m \in mounts})
      BY DEF IsMounts
    <2> QED
      BY <2>1, SetToSeqLists DEF names, n
  <1>2. x.op = "exec" /\ x.arg = arg /\ x.ins = <<r>> \o sorted
    BY DEF ExecOp, Vertex
  <1> HIDE DEF names, n
  <1>3. \A i \in 1..n : sorted[i] \in mounts
    BY <1>1
  <1>4. sorted \in Seq(mounts)
    BY <1>1, <1>3
  <1>5. IsList(sorted) /\ ToSet(sorted) \subseteq mounts /\ DOMAIN sorted = 1..Len(sorted)
    BY <1>4, SeqIsList
  <1>10. r.name = RootDir /\ r.ro = FALSE
    BY DEF In
  <1> HIDE DEF sorted, r, x
  <1>7. /\ x.ins[1] = r /\ Len(x.ins) = Len(sorted) + 1 /\ Len(sorted) \in Nat
        /\ DOMAIN x.ins = 1..(Len(sorted) + 1)
        /\ \A i \in 1..Len(sorted) : x.ins[i + 1] = sorted[i]
    BY <1>2, <1>5, FirstInput
  <1>8. ASSUME NEW i \in DOMAIN x.ins, i # 1
        PROVE  x.ins[i] \in mounts
    <2> DEFINE j == i - 1
    <2>1. j \in 1..Len(sorted) /\ j + 1 = i
      BY <1>7, <1>8
    <2> HIDE DEF j
    <2>2. x.ins[i] = sorted[j]
      BY <1>7, <2>1
    <2> QED
      BY <1>5, <2>1, <2>2 DEF ToSet
  <1>9. 1 \in DOMAIN x.ins /\ DOMAIN x.ins = 1..Len(x.ins) /\ Len(x.ins) \in Nat
    BY <1>7
  <1>11. \A m \in mounts : m.name # RootDir
    BY DEF IsMounts
  <1>12. MountOutput(x, RootDir) = Output(x, IndexOf(x, r))
    <2>1. ToSet(x.ins) = {r} \cup mounts
      BY ExecInputs DEF x, r
    <2>2. (CHOOSE m \in ToSet(x.ins) : m.name = RootDir) = r
      BY <1>10, <1>11, <2>1
    <2> QED
      BY <1>10, <2>2 DEF MountOutput
  <1>13. IndexOf(x, r) = 0
    <2> DEFINE k == CHOOSE k \in DOMAIN x.ins : x.ins[k] = r
    <2>1. \A i \in DOMAIN x.ins : x.ins[i] = r => i = 1
      BY <1>8, <1>10, <1>11
    <2>2. k = 1
      BY <1>7, <1>9, <2>1
    <2>3. IndexOf(x, r) = Cardinality({j \in 1..(k - 1) : ~x.ins[j].ro})
      BY DEF IndexOf
    <2> HIDE DEF k
    <2>4. {j \in 1..(k - 1) : ~x.ins[j].ro} = {}
      BY <2>2
    <2> QED
      BY <2>3, <2>4, FS_EmptySet
  <1>14. IsExec(x, root, arg, mounts)
    BY <1>2, <1>7, <1>8, <1>9, <1>12, <1>13 DEF IsExec, r
  <1> QED
    BY <1>14 DEF x

LEMMA RunOperation ==
    ASSUME NEW root, NEW arg, NEW mounts, IsMounts(mounts), NEW depth
    PROVE  LET x == ExecOp(root, arg, mounts)
               out == MountOutput(x, RootDir)
           IN  /\ IsOutput(out)
               /\ IsOperation(out, root, LayerOf(Mutator("RUN", x.arg, <<>>)), depth)
  <1> DEFINE x == ExecOp(root, arg, mounts)
             out == MountOutput(x, RootDir)
             m == Mutator("RUN", x.arg, <<>>)
             layer == <<Record("RUN", <<x.arg>>, <<>>, FALSE, NoSession)>>
  <1>0. IsExec(x, root, arg, mounts)
    BY ExecOutput
  <1> HIDE DEF x
  <1>1. x.op = "exec" /\ x.ins[1].out = root /\ out = Output(x, 0)
    BY <1>0 DEF IsExec, In
  <1> HIDE DEF out
  <1>2. ~IsBase(out) /\ Digest(out) = x /\ IsOutput(out) /\ out # Scratch
    BY <1>1, NotBase
  <1>3. Before(out, depth) = {root}
    BY <1>1, <1>2 DEF Before
  <1>4. LayersAt(out) = layer
    BY <1>1, <1>2 DEF LayersAt
  <1>5. m.ins = "RUN" /\ m.arg = x.arg /\ m.of = <<>> /\ "RUN" \in Layers
    BY DEF Mutator, Layers
  <1> HIDE DEF m
  <1>6. LayerOf(m) = layer
    BY <1>5 DEF LayerOf
  <1> QED
    BY <1>2, <1>3, <1>4, <1>6 DEF IsOperation, x, out, m

\* What a Run leaves at a writable mountpoint is another output, of a base.
LEMMA LeftBare ==
    ASSUME NEW root, NEW out, NEW d, d # RootDir, NEW depth \in Nat
    PROVE  Bare(MountOutput(ExecOp(root, "run", {In(d, FALSE, out)}), d), depth)
  <1> DEFINE m == In(d, FALSE, out)
             mounts == {m}
             x == ExecOp(root, "run", mounts)
             r == In(RootDir, FALSE, root)
             left == MountOutput(x, d)
  <1>1. m.name = d /\ m.ro = FALSE /\ r.name = RootDir /\ r.ro = FALSE
    BY DEF In
  <1> HIDE DEF m, r
  <1>2. IsMounts(mounts)
    <2>1. {n.name : n \in mounts} = {d}
      BY <1>1
    <2>2. IsFiniteSet({n.name : n \in mounts})
      BY <2>1, FS_Singleton
    <2> QED
      BY <1>1, <2>2 DEF IsMounts
  <1>3. /\ x.op = "exec" /\ x.ins[1] = r /\ 1 \in DOMAIN x.ins
        /\ \A i \in DOMAIN x.ins : i # 1 => x.ins[i] \in mounts
        /\ DOMAIN x.ins = 1..Len(x.ins) /\ Len(x.ins) \in Nat
    <2>1. IsExec(x, root, "run", mounts)
      BY <1>2, ExecOutput
    <2> HIDE DEF x
    <2> QED
      BY <2>1 DEF IsExec, r
  <1>4. ToSet(x.ins) = {r} \cup mounts
    BY <1>2, ExecInputs DEF r
  <1>5. left = Output(x, IndexOf(x, m))
    <2>1. (CHOOSE n \in ToSet(x.ins) : n.name = d) = m
      BY <1>1, <1>4
    <2> QED
      BY <1>1, <2>1 DEF MountOutput
  <1> DEFINE k == CHOOSE k \in DOMAIN x.ins : x.ins[k] = m
             before == {j \in 1..(k - 1) : ~x.ins[j].ro}
  <1>6. IndexOf(x, m) = Cardinality(before)
    BY DEF IndexOf
  <1>7. k \in DOMAIN x.ins /\ x.ins[k] = m
    <2>1. m \in ToSet(x.ins)
      BY <1>4
    <2>2. \E j \in DOMAIN x.ins : x.ins[j] = m
      BY <2>1 DEF ToSet
    <2> QED
      BY <2>2
  <1> HIDE DEF x, k, left
  <1>8. k # 1 /\ k \in Nat /\ 1 \in 1..(k - 1)
    BY <1>1, <1>3, <1>7
  <1>9. 1 \in before
    BY <1>1, <1>3, <1>8
  <1>10. Cardinality(before) # 0
    <2>1. IsFiniteSet(1..(k - 1)) /\ before \subseteq 1..(k - 1)
      BY <1>8, FS_Interval
    <2>2. IsFiniteSet(before)
      BY <2>1, FS_Subset
    <2> HIDE DEF before
    <2> QED
      BY <1>9, <2>2, FS_EmptySet
  <1>11. left # Scratch /\ Digest(left) = x /\ left[2] # 0
    <2>1. left # Scratch
      BY <1>5, OutputVertices
    <2> QED
      BY <1>5, <1>6, <1>10, <2>1 DEF Digest, Output
  <1>12. IsBase(left) /\ ~IsImageBase(left)
    BY <1>3, <1>11 DEF IsBase, IsImageBase
  <1>13. Bare(left, depth)
    BY <1>12, BaseBare
  <1> QED
    BY <1>13 DEF left, x, m

\* The inputs of a file operation are the output it works on and its actions.
HasActions(v, from, actions) ==
    /\ v.op = "file" /\ v.ins[1].out = from /\ Len(v.ins) = Len(actions) + 1
    /\ \A i \in 1..Len(actions) : v.ins[i + 1] = actions[i]

LEMMA FileOutput ==
    ASSUME NEW from, NEW actions, IsList(actions)
    PROVE  \E v : FileOp(from, actions) = Output(v, 0) /\ HasActions(v, from, actions)
  <1> DEFINE first == In("input", FALSE, from)
             ins == <<first>> \o actions
             v == Vertex("file", "", ins, <<>>)
  <1>1. FileOp(from, actions) = Output(v, 0)
    BY DEF FileOp
  <1>2. first.out = from
    BY DEF In
  <1> HIDE DEF first
  <1>3. ins[1] = first /\ Len(ins) = Len(actions) + 1 /\ \A i \in 1..Len(actions) : ins[i + 1] = actions[i]
    BY FirstInput
  <1> HIDE DEF ins
  <1>4. v.op = "file" /\ v.ins = ins
    BY DEF Vertex
  <1> HIDE DEF v
  <1> QED
    BY <1>1, <1>2, <1>3, <1>4 DEF HasActions

\* File leaves the config alone, and its output has no layer.
LEMMA FileExplained ==
    ASSUME NEW s, IsState(s), NEW d \in Nat, Explained(s, d),
           NEW actions, IsList(actions), Len(actions) # 1
    PROVE  Explained(File(s, actions), d + 1)
  <1> DEFINE o == FileOp(s.out, actions)
             r == [s EXCEPT !.out = o]
             e == d + 1
  <1>0. PICK v : o = Output(v, 0) /\ HasActions(v, s.out, actions)
    BY FileOutput
  <1>1. /\ o = Output(v, 0) /\ v.op = "file"
        /\ v.ins[1].out = s.out /\ Len(v.ins) = Len(actions) + 1
    BY <1>0 DEF HasActions
  <1>2. Len(actions) \in Nat /\ Len(actions) + 1 # 2
    <2> DEFINE n == Len(actions)
    <2>1. n \in Nat /\ n # 1
      BY DEF IsList
    <2> HIDE DEF n
    <2>2. n + 1 # 2
      BY <2>1
    <2> QED
      BY <2>1, <2>2 DEF n
  <1>3. File(s, actions) = r
    BY DEF File
  <1> HIDE DEF o
  <1>4. ~IsBase(o) /\ Digest(o) = v /\ o # Scratch /\ IsOutput(o)
    BY <1>1, NotBase
  <1>5. IsPlainFile(o)
    <2>1. Len(v.ins) # 2
      BY <1>1, <1>2
    <2> QED
      BY <1>1, <1>4, <2>1 DEF IsPlainFile
  <1>6. s.out \in Before(o, e)
    BY <1>1, <1>4 DEF Before
  <1>7. LayersAt(o) = <<>>
    BY <1>1, <1>4, <1>5 DEF LayersAt
  <1>8. /\ r.out = o /\ r.config = s.config
        /\ ConfigFor(r) = ConfigFor(s) /\ LayersOfState(r) = LayersOfState(s)
    BY <1>4, OutReplaced
  <1> HIDE DEF r
  <1>9. LayersOfState(s) \o <<>> \in LayersIn(o, e)
    <2>1. LayersOfState(s) \o LayersAt(o) \in LayersIn(o, e)
      BY <1>6, LayersMore DEF Explained
    <2> QED
      BY <1>7, <2>1
  <1>10. LayersOfState(s) \o <<>> = LayersOfState(s)
    <2>1. IsList(LayersOf(ConfigFor(s).history))
      BY ConfigForIs, LayersOfList
    <2>2. Len(s.mutators) \in Nat
      BY DEF IsState, IsList
    <2>3. IsList(LayersAdded(s.mutators, Len(s.mutators)))
      BY <2>2, AddedList
    <2>4. IsList(LayersOfState(s))
      BY <2>1, <2>3, ConcatList DEF LayersOfState
    <2> QED
      BY <2>4, CatEmpty
  <1>11. s.config = <<>> => Bare(o, e)
    BY <1>1, <1>4, <1>5, BareFile DEF Explained
  <1> HIDE DEF e
  <1>12. Explained(r, e)
    BY <1>8, <1>9, <1>10, <1>11 DEF Explained
  <1> QED
    BY <1>3, <1>12 DEF e

LEMMA CopyExplained ==
    ASSUME NEW s, IsState(s), NEW d \in Nat, Explained(s, d), NEW src
    PROVE  Explained(Copy(src, s), d + 1)
  <1> DEFINE actions == <<CopyFrom(src.out)>>
             o == FileOp(s.out, actions)
             m == Mutator("COPY", "", <<Digest(src.out)>>)
             layer == <<Record("COPY", <<>>, <<Digest(src.out)>>, FALSE, NoSession)>>
             e == d + 1
  <1>0. IsList(actions)
    BY TupleLists
  <1>1. Len(actions) = 1 /\ actions[1] = CopyFrom(src.out)
    OBVIOUS
  <1>2. CopyFrom(src.out).out = src.out
    BY DEF CopyFrom, In
  <1>3. Copy(src, s) = withImageConfigMutator([s EXCEPT !.out = o], m)
    BY DEF Copy
  <1> HIDE DEF actions
  <1>4. PICK v : o = Output(v, 0) /\ HasActions(v, s.out, actions)
    BY <1>0, FileOutput
  <1> HIDE DEF o
  <1>5. Len(v.ins) = 2 /\ v.ins[2].out = src.out
    <2>1. Len(v.ins) = Len(actions) + 1 /\ \A i \in 1..Len(actions) : v.ins[i + 1] = actions[i]
      BY <1>4 DEF HasActions
    <2>2. v.ins[1 + 1] = actions[1]
      BY <1>1, <2>1
    <2> QED
      BY <1>1, <1>2, <2>1, <2>2
  <1>6. ~IsBase(o) /\ Digest(o) = v /\ o # Scratch /\ IsOutput(o)
    BY <1>4, NotBase DEF HasActions
  <1>7. ~IsPlainFile(o)
    BY <1>5, <1>6 DEF IsPlainFile
  <1>8. s.out \in Before(o, e)
    BY <1>4, <1>6 DEF Before, HasActions
  <1>9. LayersAt(o) = layer
    BY <1>4, <1>5, <1>6, <1>7 DEF LayersAt, HasActions
  <1>10. /\ m.ins = "COPY" /\ m.of = <<Digest(src.out)>> /\ m.of # <<>>
         /\ "COPY" \in Layers
    BY DEF Mutator, Layers
  <1> HIDE DEF m
  <1>11. LayerOf(m) = layer
    BY <1>10 DEF LayerOf
  <1> HIDE DEF layer, e
  <1>12. IsOperation(o, s.out, LayerOf(m), e)
    BY <1>8, <1>9, <1>11 DEF IsOperation
  <1> QED
    BY <1>3, <1>6, <1>12, OperationExplained DEF Explained, e

LEMMA DiffExplained ==
    ASSUME NEW s, IsState(s), NEW d \in Nat, Explained(s, d), NEW t, Explained(t, d)
    PROVE  Explained(Diff(s, t), d + 1)
  <1> DEFINE o == DiffOp(s.out, t.out)
             of == <<Digest(s.out), Digest(t.out)>>
             m == Mutator("DIFF", "", of)
             layer == <<Record("DIFF", <<>>, of, FALSE, NoSession)>>
             e == d + 1
             ins == <<In("lower", FALSE, s.out), In("upper", FALSE, t.out)>>
             v == Vertex("diff", "", ins, <<>>)
  <1>1. Diff(s, t) = IF s.out = Scratch THEN t ELSE withImageConfigMutator([s EXCEPT !.out = o], m)
    BY DEF Diff
  <1>2. ins[1].out = s.out /\ ins[2].out = t.out /\ DOMAIN ins = 1..2
    BY DEF In
  <1>3. o = Output(v, 0)
    BY DEF DiffOp
  <1> HIDE DEF ins, o
  <1>4. v.op = "diff" /\ v.ins = ins
    BY DEF Vertex
  <1> HIDE DEF v
  <1>5. ~IsBase(o) /\ Digest(o) = v /\ o # Scratch /\ IsOutput(o)
    BY <1>3, <1>4, NotBase
  <1>6. s.out \in Before(o, e)
    BY <1>2, <1>4, <1>5 DEF Before
  <1>7. [j \in DOMAIN v.ins |-> Digest(v.ins[j].out)] = of
    BY <1>2, <1>4
  <1>8. m.ins = "DIFF" /\ m.of = of /\ "DIFF" \in Layers /\ of # <<>>
    BY DEF Mutator, Layers
  <1> HIDE DEF of, m
  <1>9. LayersAt(o) = layer
    BY <1>4, <1>5, <1>7 DEF LayersAt
  <1>10. LayerOf(m) = layer
    BY <1>8 DEF LayerOf
  <1> HIDE DEF layer, e
  <1>11. IsOperation(o, s.out, LayerOf(m), e)
    BY <1>6, <1>9, <1>10 DEF IsOperation
  <1>12. Explained(withImageConfigMutator([s EXCEPT !.out = o], m), e)
    BY <1>5, <1>11, OperationExplained DEF Explained, e
  <1>13. Explained(t, e)
    BY ExplainedMore DEF e
  <1> QED
    BY <1>1, <1>12, <1>13 DEF e

LEMMA RunExplained ==
    ASSUME NEW s, IsState(s), NEW d \in Nat, Explained(s, d),
           NEW arg, NEW mounts, IsMounts(mounts)
    PROVE  Explained(RunExec(s, ExecOp(s.out, arg, mounts)), d + 1)
  <1> DEFINE x == ExecOp(s.out, arg, mounts)
             o == MountOutput(x, RootDir)
             m == Mutator("RUN", x.arg, <<>>)
             e == d + 1
  <1>1. RunExec(s, x) = withImageConfigMutator([s EXCEPT !.out = o], m)
    BY DEF RunExec
  <1>2. IsOutput(o) /\ IsOperation(o, s.out, LayerOf(m), e)
    BY RunOperation
  <1> HIDE DEF x, o, m, e
  <1>3. Explained(withImageConfigMutator([s EXCEPT !.out = o], m), e)
    BY <1>2, OperationExplained DEF Explained, e
  <1> QED
    BY <1>1, <1>3 DEF x, e

\* A merge goes on with the first of its states that has a config, or with an
\* empty one.
LEMMA FirstOfTwo ==
    ASSUME NEW ss, DOMAIN ss = 1..2
    PROVE  /\ ss[1].config # <<>> => FirstWithConfig(ss) = ss[1]
           /\ ss[1].config = <<>> /\ ss[2].config # <<>> => FirstWithConfig(ss) = ss[2]
           /\ ss[1].config = <<>> /\ ss[2].config = <<>> => FirstWithConfig(ss) = ScratchState
  <1> DEFINE some == {i \in DOMAIN ss : ss[i].config # <<>>}
             first == CHOOSE i \in some : \A j \in some : i <= j
  <1>1. FirstWithConfig(ss) = IF some = {} THEN ScratchState ELSE ss[first]
    BY DEF FirstWithConfig
  <1>2. some \subseteq {1, 2} /\ \A i \in {1, 2} : i \in some <=> ss[i].config # <<>>
    <2>1. DOMAIN ss = {1, 2}
      OBVIOUS
    <2> QED
      BY <2>1
  <1> HIDE DEF some
  <1>3. 1 \in some => first = 1
    <2> SUFFICES ASSUME 1 \in some PROVE first = 1
      OBVIOUS
    <2>1. \A j \in some : 1 <= j
      BY <1>2
    <2>2. \A i \in some : (\A j \in some : i <= j) => i = 1
      BY <1>2
    <2> QED
      BY <2>1, <2>2
  <1>4. 1 \notin some /\ 2 \in some => first = 2
    <2> SUFFICES ASSUME 1 \notin some, 2 \in some PROVE first = 2
      OBVIOUS
    <2>1. some = {2}
      BY <1>2
    <2> QED
      BY <2>1
  <1>5. 1 \notin some /\ 2 \notin some => some = {}
    BY <1>2
  <1>6. 1 \in some \/ 2 \in some => some # {}
    OBVIOUS
  <1> HIDE DEF first
  <1> QED
    BY <1>1, <1>2, <1>3, <1>4, <1>5, <1>6

LEMMA MergeExplained ==
    ASSUME NEW S, NEW ss \in [1..2 -> S], NEW d \in Nat,
           \A i \in 1..2 : IsState(ss[i]) /\ Explained(ss[i], d)
    PROVE  Explained(Merge(ss), d + 1)
  <1> DEFINE outs == [i \in DOMAIN ss |-> ss[i].out]
             from == FirstWithConfig(ss)
             o == MergeOp(outs)
             of == [i \in DOMAIN outs |-> Digest(outs[i])]
             m == Mutator("MERGE", "", of)
             layer == <<Record("MERGE", <<>>, of, FALSE, NoSession)>>
             e == d + 1
             role == ""
             ins == [i \in DOMAIN outs |-> In(role, FALSE, outs[i])]
             v == Vertex("merge", "", ins, <<>>)
  <1>1. ss \in Seq(S) /\ Len(ss) = 2 /\ DOMAIN ss = 1..2 /\ ss # <<>>
    BY PairList
  <1>2. Merge(ss) = withImageConfigMutator([from EXCEPT !.out = o], m)
    BY <1>1 DEF Merge
  <1>3. /\ DOMAIN ins = 1..2 /\ DOMAIN of = 1..2 /\ of = [j \in 1..2 |-> of[j]]
        /\ \A k \in 1..2 : ins[k].out = ss[k].out /\ of[k] = Digest(ss[k].out)
    <2>1. DOMAIN outs = 1..2 /\ \A k \in 1..2 : outs[k] = ss[k].out
      BY <1>1
    <2> HIDE DEF outs, role
    <2>2. /\ DOMAIN ins = 1..2 /\ DOMAIN of = 1..2
          /\ \A k \in 1..2 : ins[k] = In(role, FALSE, outs[k]) /\ of[k] = Digest(outs[k])
      BY <2>1
    <2>3. of = [j \in 1..2 |-> of[j]]
      BY <2>1
    <2> HIDE DEF ins, of
    <2>4. \A k \in 1..2 : ins[k].out = outs[k]
      BY <2>2 DEF In
    <2> QED
      BY <2>1, <2>2, <2>3, <2>4
  <1>4. o = Output(v, 0) /\ v.op = "merge" /\ v.ins = ins
    BY DEF MergeOp, Vertex
  <1> HIDE DEF outs, ins, of, o, v
  <1>6. ~IsBase(o) /\ Digest(o) = v /\ o # Scratch /\ IsOutput(o)
    BY <1>4, NotBase
  <1>7. [j \in DOMAIN v.ins |-> Digest(v.ins[j].out)] = of
    BY <1>3, <1>4
  <1>8. LayersAt(o) = layer
    BY <1>4, <1>6, <1>7 DEF LayersAt
  <1>9. of # <<>>
    <2>1. 1 \in DOMAIN of /\ DOMAIN <<>> = {}
      BY <1>3
    <2> QED
      BY <2>1
  <1>10. m.ins = "MERGE" /\ m.of = of /\ "MERGE" \in Layers
    BY DEF Mutator, Layers
  <1> HIDE DEF m
  <1>11. LayerOf(m) = layer
    BY <1>9, <1>10 DEF LayerOf
  <1> HIDE DEF layer
  <1>12. e \in Nat /\ d <= e
    OBVIOUS
  <1> HIDE DEF e
  <1>13. ASSUME NEW k \in 1..2, \A j \in 1..(k - 1) : Bare(ss[j].out, e)
         PROVE  ss[k].out \in Before(o, e)
    <2>1. \A j \in 1..(k - 1) : j \in 1..2
      OBVIOUS
    <2>2. \A j \in 1..(k - 1) : Bare(v.ins[j].out, e)
      BY <1>3, <1>4, <1>13, <2>1
    <2>3. k \in DOMAIN v.ins /\ v.ins[k].out = ss[k].out
      BY <1>3, <1>4
    <2>4. v.ins[k].out \in Before(o, e)
      BY <1>4, <1>6, <2>2, <2>3 DEF Before
    <2> QED
      BY <2>3, <2>4
  <1>14. ss[1].out \in Before(o, e)
    <2>1. 1 \in 1..2 /\ 1..(1 - 1) = {}
      OBVIOUS
    <2> QED
      BY <1>13, <2>1
  <1>15. Bare(ss[1].out, e) => ss[2].out \in Before(o, e)
    <2>1. 2 \in 1..2 /\ 1..(2 - 1) = {1}
      OBVIOUS
    <2> QED
      BY <1>13, <2>1
  <1>16. IsState(ss[1]) /\ Explained(ss[1], d) /\ IsState(ss[2]) /\ Explained(ss[2], d)
    OBVIOUS
  <1>17. PICK b \in Before(o, e) :
            IsState(from) /\ IsBooked(ConfigFor(from).history) /\ LayersOfState(from) \in LayersIn(b, d)
    <2>1. CASE ss[1].config # <<>>
      BY <1>1, <1>14, <1>16, <2>1, FirstOfTwo DEF Explained
    <2>2. CASE ss[1].config = <<>> /\ ss[2].config # <<>>
      <3>1. from = ss[2]
        BY <1>1, <2>2, FirstOfTwo
      <3>2. Bare(ss[1].out, e)
        BY <1>12, <1>16, <2>2, BareMore DEF Explained
      <3> HIDE DEF from
      <3> QED
        BY <1>15, <1>16, <3>1, <3>2 DEF Explained
    <2>3. CASE ss[1].config = <<>> /\ ss[2].config = <<>>
      <3>1. from = ScratchState
        BY <1>1, <2>3, FirstOfTwo
      <3>2. IsState(ScratchState) /\ ScratchState.config = <<>>
        BY ScratchIsState, StateFields DEF ScratchState
      <3>3. LayersOfState(ScratchState) = <<>> /\ IsBooked(ConfigFor(ScratchState).history)
        BY <3>2, NoLayers
      <3>4. <<>> \in LayersIn(ss[1].out, d)
        BY <1>16, <2>3, BareLayers DEF Explained
      <3> HIDE DEF from
      <3> QED
        BY <1>14, <3>1, <3>2, <3>3, <3>4
    <2> QED
      BY <2>1, <2>2, <2>3
  <1> HIDE DEF from
  <1>18. IsOperation(o, b, LayerOf(m), d + 1)
    BY <1>8, <1>11, <1>17 DEF IsOperation, e
  <1> QED
    BY <1>2, <1>6, <1>17, <1>18, OperationExplained DEF e

\* Instructions have no layers.
LEMMA SetExplained ==
    ASSUME NEW s, IsState(s), NEW d \in Nat, Explained(s, d), NEW i \in Instructions, NEW k
    PROVE  Explained(Set(s, i, k), d + 1)
  <1> DEFINE m == Mutator(i, k, <<>>)
             ms == <<m>>
  <1>1. m.ins = i
    BY DEF Mutator
  <1>2. LayerOf(m) = <<>>
    BY <1>1, KindsDisjoint DEF LayerOf
  <1>3. Set(s, i, k) = withImageConfigMutators(s, ms)
    BY DEF Set, withImageConfigMutator
  <1> HIDE DEF m
  <1>4. IsList(ms)
    BY TupleLists
  <1>5. \A j \in 1..Len(ms) : LayerOf(ms[j]) = <<>>
    BY <1>2
  <1> HIDE DEF ms
  <1> QED
    BY <1>3, <1>4, <1>5, OthersExplained

LEMMA LabelsExplained ==
    ASSUME NEW s, IsState(s), NEW d \in Nat, Explained(s, d)
    PROVE  Explained(AddLabels(s, Keys), d + 1)
  <1> DEFINE keys == SetToSeq(Keys)
             ms == [i \in DOMAIN keys |-> Mutator("LABEL", keys[i], <<>>)]
             n == Cardinality(Keys)
  <1>1. n \in Nat /\ DOMAIN keys = 1..n
    BY SetToSeqLists, BuildingAssumption
  <1>2. AddLabels(s, Keys) = withImageConfigMutators(s, ms)
    BY DEF AddLabels
  <1>3. "LABEL" \in Instructions
    BY DEF Instructions, KeyValues
  <1>4. \A i \in 1..n : ms[i].ins = "LABEL"
    BY <1>1 DEF Mutator
  <1>5. \A i \in 1..n : LayerOf(ms[i]) = <<>>
    BY <1>3, <1>4, KindsDisjoint DEF LayerOf
  <1>6. ms \in Seq(ToSet(ms)) /\ Len(ms) = n
    <2>1. DOMAIN ms = 1..n /\ ms = [i \in 1..n |-> ms[i]]
      BY <1>1
    <2>2. \A i \in 1..n : ms[i] \in ToSet(ms)
      BY <2>1 DEF ToSet
    <2> HIDE DEF ms, n
    <2>3. ms \in Seq(ToSet(ms))
      BY <1>1, <2>1, <2>2
    <2> QED
      BY <1>1, <2>1, <2>3
  <1> HIDE DEF ms, n
  <1>7. IsList(ms)
    BY <1>6 DEF IsList
  <1> QED
    BY <1>2, <1>5, <1>6, <1>7, OthersExplained

-----------------------------------------------------------------------------
(* Calls of LoadImageConfig, and states that are built from definitions.   *)

LEMMA GoesOnTwice ==
    ASSUME NEW f, IsHistory(f), NEW g, NEW h, NEW a, IsList(a), NEW b, IsList(b),
           GoesOn(f, g, a), GoesOn(g, h, b)
    PROVE  GoesOn(f, h, a \o b)
  <1>1. (LayersOf(f) \o a) \o b = LayersOf(f) \o (a \o b)
    BY LayersOfList, CatAssociative
  <1> QED
    BY <1>1 DEF GoesOn

\* The history of a call is that of its base with the layers of the mutators
\* that have run.
CallExplained(call, depth) ==
    /\ Explained(call.state, depth)
    /\ call.config # <<>> =>
          GoesOn(ConfigFor(call.state).history, call.config[1].history,
                 LayersAdded(call.state.mutators, call.done))

LEMMA StartExplained ==
    ASSUME NEW s, IsState(s), NEW sess, NEW d, Explained(s, d)
    PROVE  CallExplained(LoadImageConfig(s, sess), d)
  <1> DEFINE call == LoadImageConfig(s, sess)
  <1>1. call.state = s /\ call.config = s.config /\ call.done = 0
    BY DEF LoadImageConfig
  <1>2. GoesOn(ConfigFor(s).history, ConfigFor(s).history, <<>>)
    BY ConfigForIs, GoesOnSame DEF Explained
  <1>3. LayersAdded(s.mutators, 0) = <<>>
    BY AddedNone
  <1>4. s.config # <<>> => ConfigFor(s) = s.config[1]
    BY DEF ConfigFor
  <1> HIDE DEF call
  <1>5. CallExplained(call, d)
    BY <1>1, <1>2, <1>3, <1>4 DEF CallExplained
  <1> QED
    BY <1>5 DEF call

LEMMA MutatorExplained ==
    ASSUME NEW call, IsCall(call), ~HasLoaded(call), NEW d, CallExplained(call, d)
    PROVE  CallExplained(RunMutator(call), d)
  <1> DEFINE img == call.config[1]
             m == NextMutator(call)
             next == RunMutator(call)
             new == Mutate(img, m, call.sess)
             base == ConfigFor(call.state).history
             ms == call.state.mutators
             n == call.done
  <1>1. /\ call.config # <<>> /\ IsImage(img) /\ IsMutator(m)
        /\ next = [state |-> call.state, sess |-> call.sess, done |-> n + 1, config |-> <<new>>]
    BY CallGoesOn
  <1>2. call.sess \in Sessions /\ IsState(call.state) /\ n \in Nat
    BY DEF IsCall, IsState, IsList
  <1>3. GoesOn(base, img.history, LayersAdded(ms, n))
    BY <1>1 DEF CallExplained
  <1>4. IsBooked(img.history)
    BY <1>3 DEF GoesOn
  <1>5. GoesOn(img.history, new.history, LayerOf(m))
    BY <1>1, <1>2, <1>4, MutateGoesOn
  <1>6. LayersAdded(ms, n + 1) = LayersAdded(ms, n) \o LayerOf(m)
    BY <1>2, AddedStep DEF NextMutator
  <1>7. IsHistory(base)
    BY <1>2, ConfigForIs
  <1>8. IsList(LayersAdded(ms, n)) /\ IsList(LayerOf(m))
    BY <1>2, AddedList, LayerOfList
  <1> HIDE DEF img, m, new, base, ms, n, next
  <1>9. GoesOn(base, new.history, LayersAdded(ms, n + 1))
    BY <1>3, <1>5, <1>6, <1>7, <1>8, GoesOnTwice
  <1>10. next.state = call.state /\ next.config[1] = new /\ next.done = n + 1
    BY <1>1
  <1>11. Explained(call.state, d)
    BY DEF CallExplained
  <1>12. CallExplained(next, d)
    BY <1>9, <1>10, <1>11 DEF CallExplained, base, ms
  <1> QED
    BY <1>12 DEF next

\* json.Marshal leaves the layers: no record of a layer knows a session.
LEMMA EncodedLayers ==
    ASSUME NEW config, config = <<config[1]>>, config # <<>>, IsImage(config[1]),
           IsBooked(config[1].history)
    PROVE  LET res == Encoded(config)[1]
           IN  /\ Encoded(config) = <<res>> /\ IsImage(res) /\ IsBooked(res.history)
               /\ LayersOf(res.history) = LayersOf(config[1].history)
  <1> DEFINE img == config[1]
             h == img.history
             without == WithoutSessions(h)
             res == [set |-> img.set, history |-> without]
  <1>1. img = [set |-> img.set, history |-> h]
    BY DEF IsImage
  <1>2. Encoded(config) = <<[img EXCEPT !.history = without]>>
    BY DEF Encoded
  <1>3. Encoded(config) = <<res>>
    BY <1>1, <1>2
  <1>4. IsConfig(Encoded(config)) /\ Encoded(config) # <<>>
    BY EncodedConfig
  <1>5. res.history = without
    OBVIOUS
  <1>6. DOMAIN without = DOMAIN h
    BY DEF WithoutSessions
  <1>7. ASSUME NEW i \in DOMAIN h
        PROVE  /\ without[i].empty = h[i].empty /\ without[i].ins = h[i].ins
               /\ without[i].sess = NoSession
               /\ h[i].sess = NoSession => without[i] = h[i]
    <2> DEFINE a == h[i]
               b == without[i]
    <2>1. b = [a EXCEPT !.sess = NoSession]
      BY DEF WithoutSessions
    <2>2. a = Record(a.ins, a.args, a.of, a.empty, a.sess)
      BY DEF IsImage, IsRecord
    <2> HIDE DEF a, b
    <2>3. b = Record(a.ins, a.args, a.of, a.empty, NoSession)
      BY <2>1, <2>2 DEF Record
    <2>4. b.ins = a.ins /\ b.empty = a.empty /\ b.sess = NoSession
      BY <2>3 DEF Record
    <2>5. a.sess = NoSession => b = a
      BY <2>2, <2>3
    <2> QED
      BY <2>4, <2>5 DEF a, b
  <1>8. IsBooked(h)
    OBVIOUS
  <1> HIDE DEF h, without
  <1>9. \A i \in DOMAIN h : LayerIn(without[i]) = LayerIn(h[i])
    BY <1>7, <1>8 DEF IsBooked, LayerIn
  <1>10. LayersOf(without) = LayersOf(h)
    BY <1>6, <1>9, LayersSame
  <1>11. IsBooked(without)
    BY <1>6, <1>7, <1>8 DEF IsBooked
  <1> HIDE DEF res
  <1>12. Encoded(config)[1] = res
    BY <1>3
  <1>13. IsImage(res)
    BY <1>4, <1>12 DEF IsConfig
  <1> QED
    BY <1>3, <1>5, <1>10, <1>11, <1>12, <1>13 DEF h

LEMMA BuildOutput ==
    ASSUME NEW out, NEW description, NEW depth
    PROVE  LET o == BuildOp(out, description)
           IN  Before(o, depth) = {out} /\ LayersAt(o) = <<>>
  <1> DEFINE data == <<out, description>>
             file == Vertex("file", "", <<In("input", FALSE, Scratch), Mkfile>>, data)
             ins == <<In("", FALSE, Output(file, 0))>>
             v == Vertex("build", "", ins, data)
             o == BuildOp(out, description)
  <1>1. o = Output(v, 0)
    BY DEF BuildOp
  <1>2. data[1] = out
    OBVIOUS
  <1> HIDE DEF data, ins, o
  <1>3. v.op = "build" /\ v.def = data
    BY DEF Vertex
  <1> HIDE DEF v
  <1>4. ~IsBase(o) /\ Digest(o) = v
    BY <1>1, <1>3, NotBase
  <1>5. Before(o, depth) = {out}
    BY <1>2, <1>3, <1>4 DEF Before
  <1>6. LayersAt(o) = <<>>
    BY <1>3, <1>4 DEF LayersAt
  <1> QED
    BY <1>5, <1>6 DEF o

\* BuildDefinition goes on with the config that the definition tells, so with
\* the layers of the state that was marshalled.
LEMMA RebuiltExplained ==
    ASSUME NEW call, IsCall(call), HasLoaded(call), NEW d \in Nat, CallExplained(call, d)
    PROVE  Explained(BuildDefinition(MarshalWithImageConfig(call)), d + 1)
  <1> DEFINE s == call.state
             desc == Encoded(call.config)
             o == BuildOp(s.out, desc)
             config == IF desc = <<>> THEN <<EmptyConfig>> ELSE desc
             layers == LayersOfState(s)
  <1>1. IsState(s) /\ Explained(s, d) /\ (call.config = <<>> <=> s.config = <<>>)
    BY DEF IsCall, CallExplained
  <1>2. BuildDefinition(MarshalWithImageConfig(call)) = State(o, config, <<>>)
    BY DEF BuildDefinition, MarshalWithImageConfig
  <1>3. s.out \in Before(o, d + 1) /\ LayersAt(o) = <<>>
    BY BuildOutput
  <1> HIDE DEF o
  <1>4. ASSUME NEW l \in LayersIn(s.out, d), IsList(l)
        PROVE  l \in LayersIn(o, d + 1)
    <2>1. l \o <<>> \in LayersIn(o, d + 1)
      BY <1>3, LayersMore
    <2> QED
      BY <1>4, <2>1, CatEmpty
  <1>5. CASE call.config = <<>>
    <2>1. config = <<EmptyConfig>>
      BY <1>5 DEF Encoded
    <2>2. <<>> \in LayersIn(o, d + 1)
      <3>1. <<>> \in LayersIn(s.out, d)
        BY <1>1, <1>5, BareLayers DEF Explained
      <3> QED
        BY <1>4, <3>1, TupleLists
    <2>3. Explained(State(o, <<EmptyConfig>>, <<>>), d + 1)
      BY <2>2, EmptyImage, NothingBooked, PlainExplained
    <2> QED
      BY <1>2, <2>1, <2>3
  <1>6. CASE call.config # <<>>
    <2> DEFINE img == call.config[1]
               res == desc[1]
    <2>1. call.config = <<img>> /\ IsImage(img) /\ call.done = Len(s.mutators)
      BY <1>6 DEF IsCall, HasLoaded
    <2>2. IsBooked(img.history) /\ LayersOf(img.history) = layers
      BY <1>6, <2>1 DEF CallExplained, GoesOn, LayersOfState
    <2>3. /\ desc = <<res>> /\ IsImage(res) /\ IsBooked(res.history)
          /\ LayersOf(res.history) = LayersOf(img.history)
      BY <1>6, <2>1, <2>2, EncodedLayers
    <2> HIDE DEF layers, img, res, desc
    <2>4. config = <<res>>
      BY <2>3
    <2>5. IsList(LayersOf(res.history))
      BY <2>3, ImageHistoryIs, LayersOfList
    <2>6. layers \in LayersIn(s.out, d)
      BY <1>1 DEF Explained, layers
    <2>7. LayersOf(res.history) \in LayersIn(o, d + 1)
      BY <1>4, <2>2, <2>3, <2>5, <2>6
    <2>8. Explained(State(o, <<res>>, <<>>), d + 1)
      BY <2>3, <2>7, PlainExplained
    <2> QED
      BY <1>2, <2>4, <2>8
  <1> QED
    BY <1>5, <1>6

-----------------------------------------------------------------------------
(* The layers of every state of the program are those of its graph.        *)

Calls == built + mounted

StatesExplained ==
    /\ \A v \in Vars : Explained(st[v], Calls)
    /\ \A p \in Propagators : pm[p] # Nothing => Explained(pm[p].root, Calls)
    /\ loaded # Nothing => CallExplained(loaded[1], Calls)

LayersInv == TypeOK /\ StatesExplained

LEMMA InitLayers == Init => LayersInv
  <1> SUFFICES ASSUME Init PROVE StatesExplained
    BY InitTyped DEF LayersInv
  <1>1. Calls = 0
    BY DEF Init, Calls
  <1>2. \A v \in Vars : st[v] \in Starts
    BY DEF Init
  <1> QED
    BY <1>1, <1>2, StartsExplained DEF Init, StatesExplained

\* A call more: what is left alone stays explained.
LEMMA CallMore ==
    ASSUME LayersInv
    PROVE  /\ Calls \in Nat
           /\ \A v \in Vars : Explained(st[v], Calls + 1)
           /\ \A p \in Propagators : pm[p] # Nothing => Explained(pm[p].root, Calls + 1)
           /\ \A w : BuildCall(w) => Calls' = Calls + 1
           /\ \A p : Mounting(p) => Calls' = Calls + 1
  <1>1. built \in Nat /\ mounted \in Nat
    BY DEF LayersInv, TypeOK
  <1>2. Calls \in Nat /\ Calls + 1 \in Nat /\ Calls <= Calls + 1
    BY <1>1 DEF Calls
  <1>3. \A s : Explained(s, Calls) => Explained(s, Calls + 1)
    BY <1>2, ExplainedMore
  <1>4. \A w : BuildCall(w) => Calls' = Calls + 1
    <2> SUFFICES ASSUME NEW w, BuildCall(w) PROVE Calls' = Calls + 1
      OBVIOUS
    <2>1. built' = built + 1 /\ mounted' = mounted
      BY DEF BuildCall, mountVars
    <2> QED
      BY <1>1, <2>1 DEF Calls
  <1>5. \A p : Mounting(p) => Calls' = Calls + 1
    <2> SUFFICES ASSUME NEW p, Mounting(p) PROVE Calls' = Calls + 1
      OBVIOUS
    <2>1. built' = built /\ mounted' = mounted + 1
      BY DEF Mounting
    <2> QED
      BY <1>1, <2>1 DEF Calls
  <1> QED
    BY <1>2, <1>3, <1>4, <1>5 DEF LayersInv, StatesExplained

LEMMA BuildCallExplained ==
    ASSUME LayersInv, NEW w, BuildCall(w), \A v \in Vars : Explained(st'[v], Calls + 1)
    PROVE  StatesExplained'
  <1>1. pm' = pm /\ loaded' = Nothing
    BY DEF BuildCall, mountVars
  <1>2. Calls' = Calls + 1
    BY CallMore
  <1> QED
    BY <1>1, <1>2, CallMore DEF StatesExplained

LEMMA BuildsExplained ==
    ASSUME LayersInv, Builds
    PROVE  StatesExplained'
  <1>1. /\ DOMAIN st = Vars /\ Calls \in Nat
        /\ \A v \in Vars : IsState(st[v]) /\ Explained(st[v], Calls) /\ Explained(st[v], Calls + 1)
    BY CallMore DEF LayersInv, TypeOK, StatesExplained
  <1>2. ASSUME NEW v \in Vars, NEW s, Explained(s, Calls + 1), Assign(v, s)
        PROVE  StatesExplained'
    <2>1. \A u \in Vars : Explained(st'[u], Calls + 1)
      BY <1>1, <1>2 DEF Assign
    <2> QED
      BY <1>2, <2>1, BuildCallExplained DEF Assign
  <1>3. ASSUME NEW v \in Vars, SetOne(v)
        PROVE  StatesExplained'
    <2>1. PICK i \in Kinds, k \in Keys : Assign(v, Set(st[v], i, k))
      BY <1>3 DEF SetOne
    <2>2. i \in Instructions
      BY BuildingAssumption
    <2> QED
      BY <1>1, <1>2, <2>1, <2>2, SetExplained
  <1>4. ASSUME NEW v \in Vars, SetLabels(v)
        PROVE  StatesExplained'
    BY <1>1, <1>2, <1>4, LabelsExplained DEF SetLabels
  <1>5. ASSUME NEW v \in Vars, RunOn(v)
        PROVE  StatesExplained'
    <2>1. IsMounts({})
      BY FS_EmptySet DEF IsMounts
    <2> QED
      BY <1>1, <1>2, <1>5, <2>1, RunExplained DEF RunOn
  <1>6. ASSUME NEW v \in Vars, Rebuild(v)
        PROVE  StatesExplained'
    <2>1. loaded # Nothing /\ HasLoaded(loaded[1])
      BY <1>6 DEF Rebuild, Assign, BuildCall, Idle
    <2>2. IsCall(loaded[1]) /\ CallExplained(loaded[1], Calls)
      BY <2>1 DEF LayersInv, TypeOK, StatesExplained
    <2>3. Explained(BuildDefinition(MarshalWithImageConfig(loaded[1])), Calls + 1)
      BY <1>1, <2>1, <2>2, RebuiltExplained
    <2> QED
      BY <1>2, <1>6, <2>3 DEF Rebuild
  <1>7. ASSUME NEW v \in Vars, NEW w \in Vars, CopyTo(v, w)
        PROVE  StatesExplained'
    BY <1>1, <1>2, <1>7, CopyExplained DEF CopyTo
  <1>8. ASSUME NEW v \in Vars, NEW w \in Vars, FileOn(v, w)
        PROVE  StatesExplained'
    <2> DEFINE actions == <<Mkfile, CopyFrom(st[w].out)>>
    <2>1. IsList(actions)
      BY TupleLists
    <2>2. Len(actions) # 1
      OBVIOUS
    <2>3. Assign(v, File(st[v], actions))
      BY <1>8 DEF FileOn
    <2> HIDE DEF actions
    <2> QED
      BY <1>1, <1>2, <2>1, <2>2, <2>3, FileExplained
  <1>9. ASSUME NEW v \in Vars, NEW w \in Vars, NEW d \in Mountpoints \ Readonly, RunWith(v, w, d)
        PROVE  StatesExplained'
    <2> DEFINE m == In(d, FALSE, st[w].out)
               x == ExecOp(st[v].out, "run", {m})
               s == RunExec(st[v], x)
               left == State(MountOutput(x, d), <<>>, <<>>)
    <2>1. BuildCall(v) /\ st' = [st EXCEPT ![v] = s, ![w] = left] /\ v # w
      BY <1>9 DEF RunWith
    <2>2. m.name = d /\ m.ro = FALSE /\ d # RootDir
      BY BuildingAssumption DEF In
    <2>3. IsMounts({m})
      <3> HIDE DEF m
      <3>1. {n.name : n \in {m}} = {d}
        BY <2>2
      <3>2. IsFiniteSet({n.name : n \in {m}})
        BY <3>1, FS_Singleton
      <3> QED
        BY <2>2, <3>2 DEF IsMounts
    <2>4. Explained(s, Calls + 1)
      <3> HIDE DEF m
      <3> QED
        BY <1>1, <2>3, RunExplained
    <2>5. left.out = MountOutput(x, d) /\ left.config = <<>>
      BY StateFields
    <2>6. IsState(left)
      <3>1. DOMAIN st' = Vars /\ st'[w] = left
        BY <1>1, <2>1
      <3>2. TypeOK'
        BY BuildsTyped DEF LayersInv
      <3> HIDE DEF left
      <3> QED
        BY <3>1, <3>2 DEF TypeOK
    <2>7. Calls + 1 \in Nat
      BY <1>1
    <2>8. Bare(MountOutput(x, d), Calls + 1)
      BY <2>2, <2>7, LeftBare
    <2> HIDE DEF s, x, left
    <2>9. Explained(left, Calls + 1)
      BY <2>5, <2>6, <2>7, <2>8, BareExplained
    <2>10. \A u \in Vars : Explained(st'[u], Calls + 1)
      BY <1>1, <2>1, <2>4, <2>9
    <2> QED
      BY <2>1, <2>10, BuildCallExplained
  <1>10. ASSUME NEW vs \in Pairs,
                \/ MergeTo(vs[1], [i \in 1..2 |-> st[vs[i]]])
                \/ DiffTo(vs[1], st[vs[1]], st[vs[2]])
         PROVE  StatesExplained'
    <2> DEFINE ss == [i \in 1..2 |-> st[vs[i]]]
    <2>1. vs[1] \in Vars /\ vs[2] \in Vars /\ \A i \in 1..2 : vs[i] \in Vars
      BY DEF Pairs
    <2>2. ss \in [1..2 -> {st[u] : u \in Vars}]
      BY <2>1
    <2>3. \A i \in 1..2 : IsState(ss[i]) /\ Explained(ss[i], Calls)
      BY <1>1, <2>1
    <2> HIDE DEF ss
    <2>4. Explained(Merge(ss), Calls + 1)
      BY <1>1, <2>2, <2>3, MergeExplained
    <2>5. Explained(Diff(st[vs[1]], st[vs[2]]), Calls + 1)
      BY <1>1, <2>1, DiffExplained
    <2> QED
      BY <1>2, <1>10, <2>1, <2>4, <2>5 DEF MergeTo, DiffTo, ss
  <1> QED
    BY <1>3, <1>4, <1>5, <1>6, <1>7, <1>8, <1>9, <1>10 DEF Builds

LEMMA LoadsExplained ==
    ASSUME LayersInv, Loads
    PROVE  StatesExplained'
  <1>1. st' = st /\ pm' = pm /\ Calls' = Calls
    BY DEF Loads, Load, LoadRoot, LoadOf, MutateConfig, mountVars, Calls
  <1>2. ASSUME NEW s, NEW sess, IsState(s), Explained(s, Calls), LoadOf(s, sess)
        PROVE  StatesExplained'
    <2>1. loaded' = <<LoadImageConfig(s, sess)>>
      BY <1>2 DEF LoadOf
    <2>2. CallExplained(LoadImageConfig(s, sess), Calls)
      BY <1>2, StartExplained
    <2> QED
      BY <1>1, <2>1, <2>2 DEF LayersInv, StatesExplained
  <1>3. ASSUME NEW v \in Vars, NEW sess \in Sessions, Load(v, sess)
        PROVE  StatesExplained'
    BY <1>2, <1>3 DEF Load, LayersInv, TypeOK, StatesExplained
  <1>4. ASSUME NEW p \in Propagators, LoadRoot(p)
        PROVE  StatesExplained'
    BY <1>2, <1>4 DEF LoadRoot, LayersInv, TypeOK, IsPropagator, StatesExplained
  <1>5. ASSUME MutateConfig
        PROVE  StatesExplained'
    <2>1. loaded # Nothing /\ ~HasLoaded(loaded[1]) /\ loaded' = <<RunMutator(loaded[1])>>
      BY <1>5 DEF MutateConfig, Idle
    <2>2. IsCall(loaded[1]) /\ CallExplained(loaded[1], Calls)
      BY <2>1 DEF LayersInv, TypeOK, StatesExplained
    <2>3. CallExplained(RunMutator(loaded[1]), Calls)
      BY <2>1, <2>2, MutatorExplained
    <2> QED
      BY <1>1, <2>1, <2>3 DEF LayersInv, StatesExplained
  <1> QED
    BY <1>3, <1>4, <1>5 DEF Loads

LEMMA MountsExplained ==
    ASSUME LayersInv, Mounts
    PROVE  StatesExplained'
  <1>1. /\ DOMAIN st = Vars /\ DOMAIN pm = Propagators /\ Calls \in Nat
        /\ \A v \in Vars : IsState(st[v]) /\ Explained(st[v], Calls) /\ Explained(st[v], Calls + 1)
    BY CallMore DEF LayersInv, TypeOK, StatesExplained
  <1>2. \A p \in Propagators : IsMap(maps[p]) /\ (pm[p] # Nothing =>
           /\ IsPropagator(pm[p], p) /\ IsState(pm[p].root)
           /\ Explained(pm[p].root, Calls) /\ Explained(pm[p].root, Calls + 1))
    BY CallMore DEF LayersInv, TypeOK, IsPropagator, StatesExplained
  <1>3. \A p \in Propagators : Mounting(p) => Calls' = Calls + 1 /\ loaded' = Nothing
    BY CallMore DEF Mounting
  <1>4. ASSUME NEW p \in Propagators, Mounting(p), st' = st, NEW q, pm' = [pm EXCEPT ![p] = q],
               Explained(q.root, Calls + 1)
        PROVE  StatesExplained'
    BY <1>1, <1>2, <1>3, <1>4 DEF StatesExplained
  <1>5. ASSUME NEW p \in Propagators, NEW v \in Vars, AsRun(p, v)
        PROVE  StatesExplained'
    <2> DEFINE mounts == CurrentMounts(pm[p], maps[pm[p].states])
               s == RunExec(st[v], ExecOp(st[v].out, "asrun", mounts))
    <2>1. Mounting(p) /\ pm[p] # Nothing /\ st' = [st EXCEPT ![v] = s] /\ pm' = pm
      BY <1>5 DEF AsRun
    <2>2. IsPropagator(pm[p], p) /\ IsMap(maps[pm[p].states])
      BY <1>2, <2>1 DEF IsPropagator
    <2>3. IsMounts(mounts)
      BY <2>2, MountsOf
    <2> HIDE DEF mounts
    <2>4. Explained(s, Calls + 1)
      BY <1>1, <2>3, RunExplained
    <2> HIDE DEF s
    <2> QED
      BY <1>1, <1>2, <1>3, <2>1, <2>4 DEF StatesExplained
  <1>6. ASSUME NEW p \in Propagators, NEW v \in Vars, NEW opts, Persistent(p, v, opts)
        PROVE  StatesExplained'
    <2> DEFINE q == Propagator(opts, st[v], p)
    <2>1. Mounting(p) /\ st' = st /\ pm' = [pm EXCEPT ![p] = q]
      BY <1>6 DEF Persistent
    <2>2. q.root = st[v]
      BY PropagatorFields
    <2> HIDE DEF q
    <2> QED
      BY <1>1, <1>4, <2>1, <2>2
  <1>7. ASSUME NEW p \in Propagators, NEW v \in Vars, NEW d \in Mountpoints, Add(p, d, v)
        PROVE  StatesExplained'
    <2> DEFINE r == [pm[p] EXCEPT !.opts = Append(@, Option(d, v))]
    <2>1. pm[p] # Nothing /\ Mounting(p) /\ st' = st /\ pm' = [pm EXCEPT ![p] = r]
      BY <1>7 DEF Add
    <2>2. r.root = pm[p].root
      BY <1>2, <2>1 DEF IsPropagator, Propagator
    <2> HIDE DEF r
    <2> QED
      BY <1>2, <1>4, <2>1, <2>2
  <1>8. ASSUME NEW p \in Propagators, NEW arg, NEW mounts, IsMounts(mounts), NEW x,
               x = ExecOp(pm[p].root.out, arg, mounts), pm[p] # Nothing, Mounting(p), st' = st,
               pm' = [pm EXCEPT ![p] = RootAfter(@, x)]
        PROVE  StatesExplained'
    <2>1. Explained(RunExec(pm[p].root, x), Calls + 1)
      BY <1>1, <1>2, <1>8, RunExplained
    <2>2. RootAfter(pm[p], x).root = RunExec(pm[p].root, x)
      BY <1>2, <1>8 DEF IsPropagator, Propagator, RootAfter
    <2> QED
      BY <1>1, <1>4, <1>8, <2>1, <2>2
  <1>9. ASSUME NEW p \in Propagators, Run(p)
        PROVE  StatesExplained'
    <2> DEFINE mounts == CurrentMounts(pm[p], maps[pm[p].states])
               x == ExecOp(pm[p].root.out, p, mounts)
    <2>1. /\ Mounting(p) /\ pm[p] # Nothing /\ st' = st
          /\ pm' = [pm EXCEPT ![p] = RootAfter(@, x)]
      BY <1>9 DEF Run, RunVertex
    <2>2. IsPropagator(pm[p], p) /\ IsMap(maps[pm[p].states])
      BY <1>2, <2>1 DEF IsPropagator
    <2>3. IsMounts(mounts)
      BY <2>2, MountsOf
    <2> HIDE DEF mounts
    <2> QED
      BY <1>8, <2>1, <2>3
  <1>10. ASSUME NEW p \in Propagators, ApplyRoot(p)
         PROVE  StatesExplained'
    <2> DEFINE x == ExecOp(pm[p].root.out, "apply", {})
    <2>1. /\ Mounting(p) /\ pm[p] # Nothing /\ st' = st
          /\ pm' = [pm EXCEPT ![p] = RootAfter(@, x)]
      BY <1>10 DEF ApplyRoot, RootAfter
    <2>2. IsMounts({})
      BY FS_EmptySet DEF IsMounts
    <2> QED
      BY <1>8, <2>1, <2>2
  <1>11. ASSUME NEW p \in Propagators, NEW d \in Mountpoints, ApplyMount(p, d)
         PROVE  StatesExplained'
    <2>1. Mounting(p) /\ st' = st /\ pm' = pm
      BY <1>11 DEF ApplyMount
    <2> QED
      BY <1>1, <1>2, <1>3, <2>1 DEF StatesExplained
  <1>12. ASSUME NEW p \in Propagators, NEW q \in Propagators, CopyPropagator(p, q)
         PROVE  StatesExplained'
    <2>1. pm[p] # Nothing /\ Mounting(q) /\ st' = st /\ pm' = [pm EXCEPT ![q] = CopyOf(pm[p], q)]
      BY <1>12 DEF CopyPropagator
    <2>2. CopyOf(pm[p], q).root = pm[p].root
      BY <1>2, <2>1 DEF IsPropagator, Propagator, CopyOf
    <2> QED
      BY <1>2, <1>4, <2>1, <2>2
  <1> QED
    BY <1>5, <1>6, <1>7, <1>9, <1>10, <1>11, <1>12 DEF Mounts

LEMMA StepLayers == LayersInv /\ [Next]_vars => LayersInv'
  <1> SUFFICES ASSUME LayersInv, [Next]_vars PROVE LayersInv'
    OBVIOUS
  <1>1. TypeOK'
    BY StepTyped DEF LayersInv
  <1>2. StatesExplained'
    <2>1. CASE UNCHANGED vars
      BY <2>1 DEF vars, mountVars, LayersInv, StatesExplained, Calls
    <2> QED
      BY <2>1, BuildsExplained, LoadsExplained, MountsExplained DEF Next
  <1> QED
    BY <1>1, <1>2 DEF LayersInv

\* withImageConfigMutator (state.go) and LoadImageConfig (image.go:86-105): the layers in
\* the history of a loaded config are those of the Run, Copy, Merge and Diff operations
\* on the way from a base to the state's output, in that order, however the state came
\* to be: through merges, definitions built again and the runs of propagators.
THEOREM LayersAlwaysMatch == Spec => []LayersMatch
  <1>1. LayersInv => LayersMatch
    <2> SUFFICES ASSUME LayersInv, HasResult, Idle
                 PROVE  LayersOf(Result.history) \in LayersIn(loaded[1].state.out, Calls)
      BY DEF LayersMatch, Calls
    <2> DEFINE call == loaded[1]
    <2>1. loaded # Nothing /\ call.config # <<>> /\ HasLoaded(call)
      BY DEF HasResult, Idle
    <2>2. CallExplained(call, Calls)
      BY <2>1 DEF LayersInv, StatesExplained
    <2>3. Result = call.config[1]
      BY DEF Result
    <2> HIDE DEF call
    <2>4. LayersOf(Result.history) = LayersOfState(call.state)
      BY <2>1, <2>2, <2>3 DEF CallExplained, GoesOn, HasLoaded, LayersOfState
    <2>5. LayersOf(Result.history) \in LayersIn(call.state.out, Calls)
      BY <2>2, <2>4 DEF CallExplained, Explained
    <2> QED
      BY <2>5 DEF call
  <1> QED
    BY <1>1, InitLayers, StepLayers, PTL DEF Spec
=============================================================================
