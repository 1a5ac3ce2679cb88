-------------------------- MODULE PromQueriesProofs --------------------------
(***************************************************************************)
(* What the Prometheus endpoints answer, for expressions of any number of  *)
(* layers, ranges and steps of any length, and any points.                 *)
(***************************************************************************)
EXTENDS PromQueries, FiniteSetTheorems, WellFoundedInduction, TLAPS

-----------------------------------------------------------------------------
(* Numbers.                                                                  *)

\* Induction, in the form of sets.
LEMMA AllNumbers ==
    ASSUME NEW S, 0 \in S, \A n \in Nat : n \in S => n + 1 \in S
    PROVE  Nat \subseteq S
<1> DEFINE T == Nat \ S
<1> SUFFICES ASSUME T # {}
             PROVE  FALSE
  OBVIOUS
<1>1. PICK x \in T : \A y \in T : ~(<<y, x>> \in OpToRel(<, Nat))
  <2>1. T \subseteq Nat
    OBVIOUS
  <2> HIDE DEF T
  <2> QED
    BY <2>1, NatLessThanWellFounded, WFMin, Zenon
<1>2. \A y \in T : ~(y < x)
  BY <1>1 DEF OpToRel
<1>3. x \in Nat /\ x # 0
  OBVIOUS
<1>4. x - 1 \in Nat /\ x - 1 < x /\ (x - 1) + 1 = x
  BY <1>3
<1>5. x - 1 \in S
  BY <1>2, <1>4
<1> QED
  BY <1>4, <1>5

\* The greatest of some positions, of which the last is one.
LEMMA GreatestIsLast ==
    ASSUME NEW n \in Nat, NEW S \in SUBSET (1 .. n), n \in S
    PROVE  Max(S) = n
<1>1. \A x \in S : x <= n
  OBVIOUS
<1>2. \A x \in S : (\A y \in S : x >= y) => x = n
  OBVIOUS
<1>3. \A y \in S : n >= y
  BY <1>1
<1> QED
  BY <1>2, <1>3, Zenon DEF Max

-----------------------------------------------------------------------------
(* The translation, layer by layer.                                          *)

\* What the translation has come to after the layers of s; only those up to
\* some layer occur.
Translates(q, k, g) ==
    g = [s \in SUBSET (1 .. k) |->
            IF s = {} THEN NoStatement
            ELSE TranslateExpr(q, g[s \ {Max(s)}], q.layers[Max(s)])]

FoldOfLayers(q, g) ==
    g = [s \in SUBSET DOMAIN q.layers |->
            IF s = {} THEN NoStatement
            ELSE TranslateExpr(q, g[s \ {Max(s)}], q.layers[Max(s)])]

LEMMA TranslationFolds ==
    ASSUME NEW q
    PROVE  Translation(q) = (CHOOSE g : FoldOfLayers(q, g))[DOMAIN q.layers]
  BY Zenon DEF Translation, FoldLeft, MapThenFoldSet, FoldOfLayers

LEMMA FoldExists ==
    ASSUME NEW q
    PROVE  \A k \in Nat : \E g : Translates(q, k, g)
<1> DEFINE Good == {k \in Nat : \E g : Translates(q, k, g)}
<1>1. 0 \in Good
  <2> DEFINE g == [s \in SUBSET (1 .. 0) |-> NoStatement]
  <2>1. \A s \in SUBSET (1 .. 0) : s = {}
    OBVIOUS
  <2>2. g = [s \in SUBSET (1 .. 0) |->
            IF s = {} THEN NoStatement
            ELSE TranslateExpr(q, g[s \ {Max(s)}], q.layers[Max(s)])]
    BY <2>1, Zenon
  <2>3. Translates(q, 0, g)
    BY <2>2, Zenon DEF Translates
  <2> QED
    BY <2>3
<1>2. \A k \in Nat : k \in Good => k + 1 \in Good
  <2> SUFFICES ASSUME NEW k \in Nat, NEW g, Translates(q, k, g)
               PROVE  \E h : Translates(q, k + 1, h)
    OBVIOUS
  <2> DEFINE of(f, s) == IF s = {} THEN NoStatement
                         ELSE TranslateExpr(q, f[s \ {Max(s)}], q.layers[Max(s)])
  <2> DEFINE h == [s \in SUBSET (1 .. k + 1) |-> of(g, s)]
  <2>1. \A s \in SUBSET (1 .. k) : g[s] = of(g, s)
    BY Zenon DEF Translates
  <2>2. \A s \in SUBSET (1 .. k) : h[s] = g[s]
    <3>1. SUBSET (1 .. k) \subseteq SUBSET (1 .. k + 1)
      OBVIOUS
    <3> HIDE DEF of
    <3> QED
      BY <2>1, <3>1
  <2>3. \A s \in SUBSET (1 .. k + 1) : s # {} => s \ {Max(s)} \in SUBSET (1 .. k)
    <3> SUFFICES ASSUME NEW s \in SUBSET (1 .. k + 1), s # {}
                 PROVE  s \ {Max(s)} \subseteq 1 .. k
      OBVIOUS
    <3>1. CASE k + 1 \in s
      <4>1. Max(s) = k + 1
        BY <3>1, GreatestIsLast
      <4> QED
        BY <4>1
    <3>2. CASE k + 1 \notin s
      <4>1. s \subseteq 1 .. k
        BY <3>2
      <4> QED
        BY <4>1, Zenon
    <3> QED
      BY <3>1, <3>2
  <2>4. \A s \in SUBSET (1 .. k + 1) : of(g, s) = of(h, s)
    <3> HIDE DEF h
    <3> QED
      BY <2>2, <2>3, Zenon
  <2>5. h = [s \in SUBSET (1 .. k + 1) |-> of(h, s)]
    <3>1. h = [s \in SUBSET (1 .. k + 1) |-> of(g, s)]
      OBVIOUS
    <3> HIDE DEF h, of
    <3> QED
      BY <2>4, <3>1
  <2>6. Translates(q, k + 1, h)
    BY <2>5, Zenon DEF Translates
  <2> QED
    BY <2>6
<1> HIDE DEF Good
<1>3. Nat \subseteq Good
  BY <1>1, <1>2, AllNumbers
<1> QED
  BY <1>3 DEF Good

\* The translation is the end of a chain of statements, each that of the one
\* before it and of the next layer.
LEMMA TranslationChain ==
    ASSUME NEW q, q.layers \in Seq(Layer)
    PROVE  \E chain : /\ chain[0] = NoStatement
                      /\ \A k \in 1 .. Len(q.layers) :
                            chain[k] = TranslateExpr(q, chain[k - 1], q.layers[k])
                      /\ Translation(q) = chain[Len(q.layers)]
<1> DEFINE n == Len(q.layers)
<1>1. n \in Nat /\ DOMAIN q.layers = 1 .. n
  OBVIOUS
<1>2. \E g : FoldOfLayers(q, g)
  <2> HIDE DEF n
  <2>1. PICK g : Translates(q, n, g)
    BY <1>1, FoldExists, Zenon
  <2>2. FoldOfLayers(q, g)
    BY <1>1, <2>1, Zenon DEF Translates, FoldOfLayers
  <2> QED
    BY <2>2
<1> DEFINE g == CHOOSE f : FoldOfLayers(q, f)
<1>3. FoldOfLayers(q, g)
  BY <1>2, Zenon
<1>4. Translation(q) = g[1 .. n]
  BY <1>1, TranslationFolds, Zenon
<1> HIDE DEF g, n
<1>5. /\ g[{}] = NoStatement
      /\ \A s \in SUBSET (1 .. n) : s # {} =>
            g[s] = TranslateExpr(q, g[s \ {Max(s)}], q.layers[Max(s)])
  BY <1>1, <1>3, Zenon DEF FoldOfLayers
<1> DEFINE chain == [k \in 0 .. n |-> g[1 .. k]]
<1>6. chain[0] = NoStatement
  <2>1. 1 .. 0 = {} /\ 0 \in 0 .. n
    BY <1>1
  <2> QED
    BY <1>5, <2>1
<1>7. \A k \in 1 .. n : chain[k] = TranslateExpr(q, chain[k - 1], q.layers[k])
  <2> SUFFICES ASSUME NEW k \in 1 .. n
               PROVE  chain[k] = TranslateExpr(q, chain[k - 1], q.layers[k])
    OBVIOUS
  <2>1. k \in Nat /\ 1 .. k \in SUBSET (1 .. n) /\ k \in 1 .. k /\ 1 .. k # {}
    BY <1>1
  <2>2. Max(1 .. k) = k
    BY <2>1, GreatestIsLast
  <2>3. (1 .. k) \ {k} = 1 .. (k - 1)
    BY <2>1
  <2>4. g[1 .. k] = TranslateExpr(q, g[1 .. (k - 1)], q.layers[k])
    BY <1>5, <2>1, <2>2, <2>3, Zenon
  <2>5. k \in 0 .. n /\ k - 1 \in 0 .. n
    BY <1>1, <2>1
  <2> QED
    BY <2>4, <2>5, Zenon
<1>8. Translation(q) = chain[n]
  <2>1. n \in 0 .. n
    BY <1>1
  <2> QED
    BY <1>4, <2>1
<1> QED
  BY <1>6, <1>7, <1>8 DEF n

-----------------------------------------------------------------------------
(* The statement of a query.                                                 *)

StatementFields == {"shape", "step", "shown", "matchers", "admits", "from", "to", "limit",
                    "ordered", "grouped", "executable", "rejected"}

Comparing(q, k) == \E i \in 1 .. k : q.layers[i].kind = "compare"

\* Layers that take nothing from a row of a point.
Plain(q, k) ==
    /\ q.endpoint = "query" \/ q.layers[1].kind = "matrix"
    /\ \A i \in 2 .. k : q.layers[i].kind = "compare"

\* A statement that was not refused after the first k layers.
Sound(q, k, s) ==
    /\ s.step \in Nat /\ s.limit \in Nat /\ s.shown \subseteq Labels
    /\ s.shape \in {"points", "buckets", "wrapped", "aggregate"}
    /\ s.matchers = q.layers[1].matchers
    /\ q.endpoint = "query_range" => s.from = q.start /\ s.to = q.end
    /\ s.shape = "points" => s.step = 0 /\ ~s.grouped
    /\ s.shape \in {"buckets", "wrapped"} => s.grouped
    /\ s.shape \in {"buckets", "wrapped"} /\ s.executable =>
          /\ q.endpoint = "query_range"
          /\ s.step = q.step /\ q.step # 0
          /\ s.limit = Limit(q.start, q.end, q.step)
          /\ s.shown \subseteq DOMAIN s.matchers
    /\ ~Comparing(q, k) => s.admits = Values
    /\ Plain(q, k) => s.shape = "points" /\ s.executable

\* A refusal of the first layer is not taken back by another.
Translated(q, k, s) ==
    /\ DOMAIN s = StatementFields
    /\ Plain(q, k) /\ ~RefusesName(q.layers[1].matchers) => ~s.rejected
    /\ ~s.rejected => Sound(q, k, s)

LEMMA LimitIsNatural ==
    ASSUME NEW start \in Nat, NEW end \in Nat, start <= end, NEW step \in Nat, step # 0
    PROVE  Limit(start, end, step) \in Nat
<1>1. (end - start) \div step \in Nat
  OBVIOUS
<1> QED
  BY <1>1 DEF Limit

LEMMA NameRefused ==
    ASSUME NEW q, NEW matchers, RefusesName(matchers)
    PROVE  LET s == TranslateVectorSelector(q, matchers)
           IN  DOMAIN s = StatementFields /\ s.rejected
  BY DEF TranslateVectorSelector, NoStatement, StatementFields

LEMMA RangeSelected ==
    ASSUME NEW q, Bucketing(q), NEW matchers, ~RefusesName(matchers)
    PROVE  LET s == TranslateVectorSelector(q, matchers)
           IN  /\ DOMAIN s = StatementFields
               /\ s.shape = "buckets" /\ s.grouped /\ s.step = q.step
               /\ s.limit = Limit(q.start, q.end, q.step)
               /\ s.shown = DOMAIN matchers /\ s.matchers = matchers
               /\ s.from = q.start /\ s.to = q.end /\ s.admits = Values
               /\ s.executable /\ ~s.rejected
  BY DEF TranslateVectorSelector, NoStatement, StatementFields

LEMMA InstantSelected ==
    ASSUME NEW q, ~Bucketing(q), NEW matchers, ~RefusesName(matchers)
    PROVE  LET s == TranslateVectorSelector(q, matchers)
           IN  /\ DOMAIN s = StatementFields
               /\ s.shape = "points" /\ ~s.grouped /\ s.step = 0 /\ s.limit = 0
               /\ s.shown = Labels /\ s.matchers = matchers /\ s.admits = Values
               /\ s.executable /\ ~s.rejected
  BY DEF TranslateVectorSelector, NoStatement, StatementFields

LEMMA MatrixSelected ==
    ASSUME NEW q, NEW matchers, NEW range
    PROVE  LET s == TranslateMatrixSelector(q, matchers, range)
           IN  /\ DOMAIN s = StatementFields
               /\ s.shape = "points" /\ ~s.grouped /\ s.step = 0 /\ s.limit = 0
               /\ s.shown = Labels /\ s.matchers = matchers /\ s.admits = Values
               /\ Bucketing(q) => s.from = q.start /\ s.to = q.end
               /\ s.executable /\ (s.rejected <=> RefusesName(matchers))
  BY DEF TranslateMatrixSelector, NoStatement, StatementFields

\* What no layer around the selector changes.
Keeps(s, t) ==
    /\ DOMAIN t = DOMAIN s
    /\ t.step = s.step /\ t.limit = s.limit /\ t.matchers = s.matchers
    /\ t.from = s.from /\ t.to = s.to

LEMMA AggregatedGroups ==
    ASSUME NEW s, DOMAIN s = StatementFields, s.grouped, NEW by, NEW without
    PROVE  LET t == TranslateAggregate(s, by, without)
           IN  /\ Keeps(s, t)
               /\ t.shape = "wrapped" /\ t.grouped /\ t.shown = by /\ t.admits = s.admits
               /\ t.rejected = s.rejected
               /\ t.executable <=> /\ s.executable /\ s.shape \in {"buckets", "wrapped"}
                                   /\ by # {} /\ by \subseteq s.shown \ {MetricName}
  BY DEF TranslateAggregate, StatementFields, Keeps

LEMMA AggregatedPoints ==
    ASSUME NEW s, DOMAIN s = StatementFields, ~s.grouped, NEW by, NEW without
    PROVE  LET t == TranslateAggregate(s, by, without)
           IN  /\ Keeps(s, t)
               /\ t.shape = "aggregate" /\ t.shown = {} /\ t.admits = s.admits
               /\ s.rejected => t.rejected
  BY DEF TranslateAggregate, StatementFields, Keeps

LEMMA Rated ==
    ASSUME NEW s, DOMAIN s = StatementFields
    PROVE  LET t == TranslateRate(s)
           IN  /\ Keeps(s, t)
               /\ t.shape = "aggregate" /\ t.shown = {} /\ t.admits = s.admits
               /\ t.rejected = s.rejected
  BY DEF TranslateRate, StatementFields, Keeps

LEMMA Compared ==
    ASSUME NEW s, DOMAIN s = StatementFields, NEW admits
    PROVE  LET t == TranslateBinary(s, admits)
           IN  /\ Keeps(s, t)
               /\ t.shape = s.shape /\ t.grouped = s.grouped /\ t.shown = s.shown
               /\ t.rejected = s.rejected
               /\ t.executable => s.executable
               /\ ~s.grouped /\ s.shape # "wrapped" => t.executable = s.executable
<1>1. CASE s.shape = "wrapped"
  BY <1>1 DEF TranslateBinary, StatementFields, Keeps
<1>2. CASE s.shape # "wrapped" /\ s.grouped
  BY <1>2 DEF TranslateBinary, StatementFields, Keeps
<1>3. CASE s.shape # "wrapped" /\ ~s.grouped
  BY <1>3 DEF TranslateBinary, StatementFields, Keeps
<1> QED
  BY <1>1, <1>2, <1>3

LEMMA FirstLayer ==
    ASSUME NEW q \in PromQuery, q.start <= q.end, ~DividesByZero(q)
    PROVE  Translated(q, 1, TranslateExpr(q, NoStatement, q.layers[1]))
<1> DEFINE first == q.layers[1]
<1>1. /\ q.layers \in Seq(Layer) /\ 1 \in DOMAIN q.layers
      /\ first \in Layer /\ first.kind \in {"selector", "matrix"}
      /\ q.start \in Nat /\ q.end \in Nat /\ q.step \in Nat
      /\ q.endpoint \in {"query", "query_range"}
  BY DEF PromQuery, Expression
<1>2. first.matchers \in Matchers
  BY <1>1 DEF Layer
<1>3. DOMAIN first.matchers \subseteq Labels
  BY <1>2 DEF Matchers
<1>0. PICK s : s = TranslateExpr(q, NoStatement, first)
  OBVIOUS
<1> SUFFICES Translated(q, 1, s)
  BY <1>0
<1>4. CASE first.kind = "selector"
  <2>1. s = TranslateVectorSelector(q, first.matchers)
    BY <1>0, <1>4 DEF TranslateExpr
  <2>0. CASE RefusesName(first.matchers)
    BY <2>0, <2>1, NameRefused DEF Translated
  <2>2. CASE Bucketing(q) /\ ~RefusesName(first.matchers)
    <3>1. q.step # 0
      BY <1>4, <2>2 DEF DividesByZero
    <3>2. Limit(q.start, q.end, q.step) \in Nat
      BY <1>1, <3>1, LimitIsNatural
    <3>3. q.endpoint = "query_range" /\ ~Plain(q, 1)
      BY <1>4, <2>2 DEF Bucketing, Plain
    <3> QED
      BY <1>1, <1>3, <2>1, <2>2, <3>1, <3>2, <3>3, RangeSelected DEF Sound, Translated
  <2>3. CASE ~Bucketing(q) /\ ~RefusesName(first.matchers)
    <3>1. q.endpoint = "query"
      BY <1>1, <2>3 DEF Bucketing
    <3> QED
      BY <1>4, <2>1, <2>3, <3>1, InstantSelected DEF Sound, Translated
  <2> QED
    BY <2>0, <2>2, <2>3
<1>5. CASE first.kind = "matrix"
  <2>1. s = TranslateMatrixSelector(q, first.matchers, first.range)
    BY <1>0, <1>5 DEF TranslateExpr
  <2> QED
    BY <1>5, <2>1, MatrixSelected DEF Sound, Translated, Bucketing
<1> QED
  BY <1>1, <1>4, <1>5

LEMMA NextLayer ==
    ASSUME NEW q \in PromQuery, NEW k \in Nat, k >= 1, k + 1 <= Len(q.layers),
           ~Unsupported(q), NEW s, Translated(q, k, s)
    PROVE  Translated(q, k + 1, TranslateExpr(q, s, q.layers[k + 1]))
<1> DEFINE layer == q.layers[k + 1]
<1>1. /\ q.layers \in Seq(Layer) /\ k + 1 \in DOMAIN q.layers
      /\ layer \in Layer /\ layer.kind \notin {"selector", "matrix"}
  BY DEF PromQuery, Expression
<1>2. layer.kind \in {"aggregate", "rate", "compare"}
  <2>1. layer.kind # "unsupported"
    BY <1>1 DEF Unsupported
  <2> QED
    BY <1>1, <2>1 DEF Layer
<1>3. ~Comparing(q, k + 1) => ~Comparing(q, k) /\ layer.kind # "compare"
  BY DEF Comparing
<1>4. Plain(q, k + 1) => Plain(q, k) /\ layer.kind = "compare"
  BY DEF Plain
<1>0. PICK t : t = TranslateExpr(q, s, layer)
  OBVIOUS
<1> SUFFICES Translated(q, k + 1, t)
  BY <1>0
<1>5. CASE layer.kind = "aggregate"
  <2>1. t = TranslateAggregate(s, layer.by, layer.without)
    BY <1>0, <1>5 DEF TranslateExpr
  <2>2. layer.by \subseteq Labels
    BY <1>1, <1>5 DEF Layer
  <2> HIDE DEF layer
  <2>3. CASE s.grouped
    BY <1>3, <1>4, <1>5, <2>1, <2>2, <2>3, AggregatedGroups DEF Sound, Translated, Keeps
  <2>4. CASE ~s.grouped
    BY <1>3, <1>4, <1>5, <2>1, <2>4, AggregatedPoints DEF Sound, Translated, Keeps
  <2> QED
    BY <2>3, <2>4
<1>6. CASE layer.kind = "rate"
  <2>1. t = TranslateRate(s)
    BY <1>0, <1>6 DEF TranslateExpr
  <2> HIDE DEF layer
  <2> QED
    BY <1>3, <1>4, <1>6, <2>1, Rated DEF Sound, Translated, Keeps
<1>7. CASE layer.kind = "compare"
  <2>1. t = TranslateBinary(s, layer.admits)
    BY <1>0, <1>7 DEF TranslateExpr
  <2> HIDE DEF layer
  <2> QED
    BY <1>3, <1>4, <1>7, <2>1, Compared DEF Sound, Translated, Keeps
<1> QED
  BY <1>2, <1>5, <1>6, <1>7

\* Every layer leaves the statement sound, or refused.
LEMMA TranslationSound ==
    ASSUME NEW q \in PromQuery, q.start <= q.end, ~Unsupported(q), ~DividesByZero(q)
    PROVE  Translated(q, Len(q.layers), Translation(q))
<1> DEFINE n == Len(q.layers)
<1>1. q.layers \in Seq(Layer) /\ n \in Nat /\ n >= 1
  BY DEF PromQuery, Expression
<1>2. PICK chain : /\ chain[0] = NoStatement
                   /\ \A k \in 1 .. n : chain[k] = TranslateExpr(q, chain[k - 1], q.layers[k])
                   /\ Translation(q) = chain[n]
  BY <1>1, TranslationChain
<1> HIDE DEF n
<1> DEFINE Good == {k \in Nat : k + 1 <= n => Translated(q, k + 1, chain[k + 1])}
<1>3. 0 \in Good
  <2>1. chain[1] = TranslateExpr(q, NoStatement, q.layers[1])
    <3>1. 1 \in 1 .. n /\ 1 - 1 = 0
      BY <1>1
    <3> QED
      BY <1>2, <3>1
  <2> QED
    BY <2>1, FirstLayer
<1>4. \A k \in Nat : k \in Good => k + 1 \in Good
  <2> SUFFICES ASSUME NEW k \in Nat, k \in Good, (k + 1) + 1 <= n
               PROVE  Translated(q, (k + 1) + 1, chain[(k + 1) + 1])
    OBVIOUS
  <2>1. Translated(q, k + 1, chain[k + 1])
    BY <1>1
  <2>2. chain[(k + 1) + 1] = TranslateExpr(q, chain[k + 1], q.layers[(k + 1) + 1])
    <3>1. (k + 1) + 1 \in 1 .. n /\ ((k + 1) + 1) - 1 = k + 1
      BY <1>1
    <3> QED
      BY <1>2, <3>1
  <2>3. k + 1 \in Nat /\ k + 1 >= 1 /\ (k + 1) + 1 <= Len(q.layers)
    BY DEF n
  <2> QED
    BY <2>1, <2>2, <2>3, NextLayer
<1>5. n - 1 \in Good
  <2> HIDE DEF Good
  <2> QED
    BY <1>1, <1>3, <1>4, AllNumbers
<1>6. n - 1 \in Nat /\ (n - 1) + 1 = n
  BY <1>1
<1> QED
  BY <1>2, <1>5, <1>6 DEF n

-----------------------------------------------------------------------------
(* Rows.                                                                     *)

\* A time that is taken for milliseconds, or that is the same in any unit.
Dated(time) == time = 0 \/ time > MsAbove

\* The points behind a row were asked for, have its labels and fall into the
\* step that begins at its time.
TrueRow(row, asked, step) ==
    /\ Dated(row.time)
    /\ \A point \in row.points :
          /\ point \in asked
          /\ \A name \in DOMAIN row.labels : point.labels[name] = row.labels[name]
          /\ row.time <= point.time
          /\ point.time = row.time \/ point.time < row.time + step

\* Rows of a table: no point is behind two of them.
TrueRows(set, asked, step) ==
    /\ set \subseteq Row
    /\ \A row \in set : TrueRow(row, asked, step)
    /\ \A one, other \in set : one # other => one.points \cap other.points = {}

PointsOf(set) == UNION {row.points : row \in set}

\* An order of a finite set names each element exactly once.
LEMMA OrderOfSet ==
    ASSUME NEW S, IsFiniteSet(S), NEW seq \in SetToSeqs(S)
    PROVE  /\ seq \in Seq(S)
           /\ ToSet(seq) = S
           /\ Len(seq) = Cardinality(S)
           /\ \A i, j \in DOMAIN seq : seq[i] = seq[j] => i = j
<1> DEFINE D == 1 .. Cardinality(S)
<1>1. Cardinality(S) \in Nat
  BY FS_CardinalityType
<1>2. seq \in [D -> S] /\ \A i, j \in D : i # j => seq[i] # seq[j]
  BY DEF SetToSeqs
<1>3. seq \in Injection(D, S)
  BY <1>2 DEF Injection, IsInjective
<1>4. Cardinality(D) = Cardinality(S)
  BY <1>1, FS_Interval
<1>5. seq \in Surjection(D, S)
  BY <1>3, <1>4, FS_Injection
<1>6. \A x \in S : \E i \in D : seq[i] = x
  BY <1>5 DEF Surjection
<1>7. ToSet(seq) = S
  BY <1>2, <1>6 DEF ToSet
<1> QED
  BY <1>1, <1>2, <1>7

LEMMA PointsTyped ==
    ASSUME NEW point \in Point
    PROVE  /\ point.time \in Nat /\ point.time \in Int /\ point.value \in Values
           /\ point.labels \in [Labels -> LabelValues]
           /\ point.labels \in LabelSet
<1>1. point.labels \in [Labels -> LabelValues]
  BY DEF Point
<1>2. Labels \in SUBSET Labels
  OBVIOUS
<1>3. point.labels \in LabelSet
  BY <1>1, <1>2 DEF LabelSet
<1>4. point.time \in 0 .. Now /\ Now \in Nat
  BY PromAssumption DEF Point
<1> QED
  BY <1>1, <1>3, <1>4 DEF Point

LEMMA PointsLate ==
    ASSUME db \in Databases, NEW point \in db
    PROVE  point.time = 0 \/ point.time > 2 * MsAbove
  BY EraAssumption

LEMMA ThresholdNatural == MsAbove \in Nat
  BY PromAssumption

LEMMA PointRowsTrue ==
    ASSUME NEW s, db \in Databases, IsFiniteSet(db), db \subseteq Point
    PROVE  /\ IsFiniteSet(PointRows(s))
           /\ TrueRows(PointRows(s), Selected(s), 0)
           /\ PointsOf(PointRows(s)) = Selected(s)
<1> DEFINE row(point) == [time |-> point.time, labels |-> point.labels, points |-> {point}]
<1>1. Selected(s) \subseteq db /\ IsFiniteSet(Selected(s))
  <2>1. Selected(s) \subseteq db
    BY DEF Selected
  <2> QED
    BY <2>1, FS_Subset
<1>2. PointRows(s) = {row(point) : point \in Selected(s)}
  BY DEF PointRows
<1>3. IsFiniteSet(PointRows(s))
  <2> DEFINE f == [point \in Selected(s) |-> row(point)]
  <2>1. f \in Surjection(Selected(s), PointRows(s))
    BY <1>2 DEF Surjection
  <2> HIDE DEF f
  <2> QED
    BY <1>1, <2>1, FS_Surjection
<1>4. \A point \in Selected(s) : row(point) \in Row /\ TrueRow(row(point), Selected(s), 0)
  <2> SUFFICES ASSUME NEW point \in Selected(s)
               PROVE  row(point) \in Row /\ TrueRow(row(point), Selected(s), 0)
    OBVIOUS
  <2>1. point \in Point
    BY <1>1
  <2>2. point.time \in Int /\ point.labels \in LabelSet
    BY <2>1, PointsTyped
  <2>3. Dated(point.time)
    <3>1. point.time = 0 \/ point.time > 2 * MsAbove
      BY <1>1, PointsLate
    <3> QED
      BY <2>2, <3>1, ThresholdNatural DEF Dated
  <2> QED
    BY <2>1, <2>2, <2>3 DEF Row, TrueRow
<1>5. \A point : row(point).points = {point}
  OBVIOUS
<1> HIDE DEF row
<1>6. PointsOf(PointRows(s)) = Selected(s)
  <2>1. \A point \in Selected(s) : row(point) \in PointRows(s) /\ point \in row(point).points
    BY <1>2, <1>5
  <2>2. \A r \in PointRows(s) : r.points \subseteq Selected(s)
    BY <1>2, <1>5
  <2> QED
    BY <2>1, <2>2 DEF PointsOf
<1>7. \A one, other \in PointRows(s) : one # other => one.points \cap other.points = {}
  BY <1>2, <1>5
<1>8. PointRows(s) \subseteq Row /\ \A r \in PointRows(s) : TrueRow(r, Selected(s), 0)
  BY <1>2, <1>4
<1> QED
  BY <1>3, <1>6, <1>7, <1>8 DEF TrueRows

\* A bucket is a step long and begins no later than its points.
LEMMA BucketHolds ==
    ASSUME NEW time \in Nat, NEW step \in Nat, step # 0
    PROVE  /\ time \div step \in Nat
           /\ BucketOf(time, step) \in Nat
           /\ BucketOf(time, step) <= time
           /\ time < BucketOf(time, step) + step
<1>1. time \div step \in Nat
  OBVIOUS
<1>2. (time \div step) * step \in Nat
  BY <1>1
<1>3. time = (time \div step) * step + (time % step) /\ time % step \in 0 .. step - 1
  OBVIOUS
<1> QED
  BY <1>1, <1>2, <1>3 DEF BucketOf

\* The bucket of a point is dated if the point is late enough.
LEMMA BucketDated ==
    ASSUME NEW time \in Nat, NEW step \in Nat, step # 0, time = 0 \/ time > 2 * MsAbove
    PROVE  Dated(BucketOf(time, step))
<1> DEFINE k == time \div step
<1>1. /\ k \in Nat /\ BucketOf(time, step) = k * step
      /\ BucketOf(time, step) \in Nat /\ BucketOf(time, step) <= time
      /\ time < BucketOf(time, step) + step
  BY BucketHolds DEF BucketOf
<1> HIDE DEF k
<1>2. CASE k = 0
  BY <1>1, <1>2 DEF Dated
<1>3. CASE k # 0
  <2>1. k - 1 \in Nat /\ k = (k - 1) + 1
    BY <1>1, <1>3
  <2>2. (k - 1) * step \in Nat
    BY <2>1
  <2>3. k * step = (k - 1) * step + step
    BY <1>1
  <2> QED
    BY <1>1, <2>2, <2>3, ThresholdNatural DEF Dated
<1> QED
  BY <1>2, <1>3

LEMMA LessTimes ==
    ASSUME NEW x \in Int, NEW y \in Int, NEW step \in Nat, x * step < y * step
    PROVE  x < y
<1> SUFFICES ASSUME y <= x
             PROVE  FALSE
  OBVIOUS
<1>1. PICK d \in Nat : x = y + d
  <2>1. x - y \in Nat /\ x = y + (x - y)
    OBVIOUS
  <2> QED
    BY <2>1
<1>2. x * step = y * step + d * step
  BY <1>1
<1>3. d * step \in Nat
  OBVIOUS
<1>4. y * step \in Int /\ x * step \in Int
  OBVIOUS
<1> QED
  BY <1>2, <1>3, <1>4

\* Points of one bucket have the number of its start.
LEMMA BucketNumbers ==
    ASSUME NEW one \in Nat, NEW other \in Nat, NEW step \in Nat, step # 0,
           one \div step = other \div step
    PROVE  BucketOf(one, step) = BucketOf(other, step)
  BY DEF BucketOf

LEMMA NumbersInOrder ==
    ASSUME NEW one \in Nat, NEW other \in Nat, one <= other, NEW step \in Nat, step # 0
    PROVE  one \div step <= other \div step
<1> DEFINE a == one \div step
<1> DEFINE b == other \div step
<1>1. a \in Nat /\ b \in Nat /\ a * step <= one /\ other < b * step + step
  BY BucketHolds DEF BucketOf
<1> HIDE DEF a, b
<1>2. b * step + step = (b + 1) * step /\ a * step \in Nat /\ (b + 1) * step \in Nat
  BY <1>1
<1>3. a * step < (b + 1) * step
  BY <1>1, <1>2
<1>4. a < b + 1
  BY <1>1, <1>3, LessTimes
<1> QED
  BY <1>1, <1>4 DEF a, b

\* A range touches at most two buckets more than it has whole steps.
LEMMA BucketsOfRange ==
    ASSUME NEW start \in Nat, NEW end \in Nat, start <= end, NEW step \in Nat, step # 0
    PROVE  /\ start \div step <= end \div step
           /\ (end \div step) - (start \div step) + 1 <= Limit(start, end, step)
<1> DEFINE a == start \div step
<1> DEFINE b == end \div step
<1> DEFINE c == (end - start) \div step
<1>1. a \in Nat /\ b \in Nat /\ c \in Nat
  <2>1. end - start \in Nat
    OBVIOUS
  <2> QED
    BY <2>1, BucketHolds
<1>2. start < a * step + step /\ b * step <= end /\ end - start < c * step + step
  <2>1. end - start \in Nat
    OBVIOUS
  <2> QED
    BY <2>1, BucketHolds DEF BucketOf
<1>3. Limit(start, end, step) = c + 1 + 10
  BY DEF Limit
<1>4. a <= b
  BY NumbersInOrder
<1> HIDE DEF a, b, c
<1>5. /\ a * step \in Nat /\ b * step \in Nat /\ c * step \in Nat
      /\ b * step < (a * step + step) + (c * step + step)
  BY <1>1, <1>2
<1>6. (a + c + 2) * step = (a * step + step) + (c * step + step)
  BY <1>1
<1>7. b < a + c + 2
  BY <1>1, <1>5, <1>6, LessTimes
<1> QED
  BY <1>1, <1>3, <1>4, <1>7 DEF a, b

Rounded(s) == {[r EXCEPT !.time = BucketOf(@, s.step)] : r \in PointRows(s)}

\* Rounding the time of a row of one point leaves it true of a step.
LEMMA RoundedTrue ==
    ASSUME NEW s, db \in Databases, IsFiniteSet(db), db \subseteq Point, s.step \in Nat, s.step # 0
    PROVE  /\ IsFiniteSet(Rounded(s))
           /\ TrueRows(Rounded(s), Selected(s), s.step)
           /\ PointsOf(Rounded(s)) = Selected(s)
           /\ \A row \in Rounded(s) :
                 \E point \in Selected(s) : /\ row.time = BucketOf(point.time, s.step)
                                            /\ row.labels = point.labels
<1> DEFINE row(point) == [time |-> BucketOf(point.time, s.step), labels |-> point.labels,
                          points |-> {point}]
<1>1. Selected(s) \subseteq db /\ IsFiniteSet(Selected(s))
  <2>1. Selected(s) \subseteq db
    BY DEF Selected
  <2> QED
    BY <2>1, FS_Subset
<1>2. Rounded(s) = {row(point) : point \in Selected(s)}
  <2> DEFINE exact(point) == [time |-> point.time, labels |-> point.labels, points |-> {point}]
  <2>1. PointRows(s) = {exact(point) : point \in Selected(s)}
    BY DEF PointRows
  <2>2. \A point : [exact(point) EXCEPT !.time = BucketOf(@, s.step)] = row(point)
    OBVIOUS
  <2> HIDE DEF row, exact
  <2> QED
    BY <2>1, <2>2 DEF Rounded
<1>3. IsFiniteSet(Rounded(s))
  <2> DEFINE f == [point \in Selected(s) |-> row(point)]
  <2>1. f \in Surjection(Selected(s), Rounded(s))
    BY <1>2 DEF Surjection
  <2> HIDE DEF f
  <2> QED
    BY <1>1, <2>1, FS_Surjection
<1>4. \A point \in Selected(s) : row(point) \in Row /\ TrueRow(row(point), Selected(s), s.step)
  <2> SUFFICES ASSUME NEW point \in Selected(s)
               PROVE  row(point) \in Row /\ TrueRow(row(point), Selected(s), s.step)
    OBVIOUS
  <2>1. point \in Point
    BY <1>1
  <2>2. point.time \in Nat /\ point.labels \in LabelSet
    BY <2>1, PointsTyped
  <2>3. /\ BucketOf(point.time, s.step) \in Int
        /\ BucketOf(point.time, s.step) <= point.time
        /\ point.time < BucketOf(point.time, s.step) + s.step
    BY <2>2, BucketHolds
  <2>4. Dated(BucketOf(point.time, s.step))
    BY <1>1, <2>2, PointsLate, BucketDated
  <2> QED
    BY <2>1, <2>2, <2>3, <2>4 DEF Row, TrueRow
<1>5. \A point : /\ row(point).points = {point} /\ row(point).labels = point.labels
                 /\ row(point).time = BucketOf(point.time, s.step)
  OBVIOUS
<1> HIDE DEF row
<1>6. PointsOf(Rounded(s)) = Selected(s)
  <2>1. \A point \in Selected(s) : row(point) \in Rounded(s) /\ point \in row(point).points
    BY <1>2, <1>5
  <2>2. \A r \in Rounded(s) : r.points \subseteq Selected(s)
    BY <1>2, <1>5
  <2> QED
    BY <2>1, <2>2 DEF PointsOf
<1>7. \A one, other \in Rounded(s) : one # other => one.points \cap other.points = {}
  BY <1>2, <1>5
<1>8. Rounded(s) \subseteq Row /\ \A r \in Rounded(s) : TrueRow(r, Selected(s), s.step)
  BY <1>2, <1>4
<1> QED
  BY <1>2, <1>3, <1>5, <1>6, <1>7, <1>8 DEF TrueRows

\* What GROUP BY makes of rows.
Groups(set, shown, grouped) ==
    /\ \A group \in grouped :
          /\ \E row \in set : group.time = row.time /\ group.labels = Restrict(row.labels, shown)
          /\ \A point \in group.points :
                \E row \in set : /\ point \in row.points /\ group.time = row.time
                                 /\ group.labels = Restrict(row.labels, shown)
    /\ \A row \in set : \E group \in grouped : row.points \subseteq group.points
    /\ \A one, other \in grouped : one.time = other.time /\ one.labels = other.labels => one = other

LEMMA GroupedGroups ==
    ASSUME NEW set, NEW shown
    PROVE  /\ Groups(set, shown, Grouped(set, shown))
           /\ IsFiniteSet(set) => IsFiniteSet(Grouped(set, shown))
<1> DEFINE groupOf(row) == [time |-> row.time, labels |-> Restrict(row.labels, shown)]
<1> DEFINE members(group) == {row \in set : groupOf(row) = group}
<1> DEFINE of(group) == [time |-> group.time, labels |-> group.labels,
                         points |-> UNION {row.points : row \in members(group)}]
<1> DEFINE groups == {groupOf(row) : row \in set}
<1> DEFINE grouped == Grouped(set, shown)
<1>1. grouped = {of(group) : group \in groups}
  BY DEF Grouped
<1>2. \A row \in set : /\ groupOf(row).time = row.time
                       /\ groupOf(row).labels = Restrict(row.labels, shown)
                       /\ row \in members(groupOf(row))
  OBVIOUS
<1>3. \A group : /\ of(group).time = group.time /\ of(group).labels = group.labels
                 /\ \A point : point \in of(group).points <=>
                       \E row \in members(group) : point \in row.points
  <2> HIDE DEF members
  <2> QED
    OBVIOUS
<1>4. \A group \in groups : \A row \in members(group) : row \in set /\ groupOf(row) = group
  OBVIOUS
<1>5. \A one, other \in groups : one.time = other.time /\ one.labels = other.labels => one = other
  OBVIOUS
<1>6. IsFiniteSet(set) => IsFiniteSet(grouped)
  <2> HIDE DEF grouped, of
  <2> SUFFICES ASSUME IsFiniteSet(set)
               PROVE  IsFiniteSet(grouped)
    OBVIOUS
  <2> DEFINE f == [row \in set |-> of(groupOf(row))]
  <2>1. f \in Surjection(set, grouped)
    BY <1>1 DEF Surjection
  <2> HIDE DEF f
  <2> QED
    BY <2>1, FS_Surjection
<1>7. \A row \in set : groupOf(row) \in groups /\ of(groupOf(row)) \in grouped
  <2> HIDE DEF grouped, of
  <2> QED
    BY <1>1
<1>8. \A g \in grouped : \E row \in set : g = of(groupOf(row))
  <2> HIDE DEF grouped, of
  <2> QED
    BY <1>1
<1> HIDE DEF grouped, of, groupOf, members
<1>9. \A row \in set : row.points \subseteq of(groupOf(row)).points
  BY <1>2, <1>3
<1>10. \A g \in grouped :
          /\ \E row \in set : g.time = row.time /\ g.labels = Restrict(row.labels, shown)
          /\ \A point \in g.points :
                \E row \in set : /\ point \in row.points /\ g.time = row.time
                                 /\ g.labels = Restrict(row.labels, shown)
  <2> SUFFICES ASSUME NEW g \in grouped
               PROVE  /\ \E row \in set : g.time = row.time /\ g.labels = Restrict(row.labels, shown)
                      /\ \A point \in g.points :
                            \E row \in set : /\ point \in row.points /\ g.time = row.time
                                             /\ g.labels = Restrict(row.labels, shown)
    OBVIOUS
  <2>1. PICK first \in set : g = of(groupOf(first))
    BY <1>8
  <2>2. g.time = first.time /\ g.labels = Restrict(first.labels, shown)
    BY <1>2, <1>3, <2>1
  <2>3. \A point \in g.points : \E row \in members(groupOf(first)) : point \in row.points
    BY <1>3, <2>1
  <2>4. \A row \in members(groupOf(first)) : row \in set /\ groupOf(row) = groupOf(first)
    BY DEF members
  <2>5. \A row \in members(groupOf(first)) :
           row.time = first.time /\ Restrict(row.labels, shown) = Restrict(first.labels, shown)
    BY <1>2, <2>4
  <2> QED
    BY <2>2, <2>3, <2>4, <2>5
<1>11. \A one, other \in grouped :
          one.time = other.time /\ one.labels = other.labels => one = other
  BY <1>3, <1>5, <1>7, <1>8
<1>12. \A row \in set : \E group \in grouped : row.points \subseteq group.points
  BY <1>7, <1>9
<1> QED
  BY <1>6, <1>10, <1>11, <1>12 DEF Groups, grouped

\* Groups of true rows are true rows of the same points.
LEMMA GroupedTrue ==
    ASSUME NEW set, NEW asked, NEW step, TrueRows(set, asked, step), asked \subseteq Point,
           NEW shown \in SUBSET Labels, \A row \in set : shown \subseteq DOMAIN row.labels
    PROVE  /\ TrueRows(Grouped(set, shown), asked, step)
           /\ PointsOf(Grouped(set, shown)) = PointsOf(set)
           /\ \A row \in Grouped(set, shown) : DOMAIN row.labels = shown
<1> DEFINE grouped == Grouped(set, shown)
<1>1. Groups(set, shown, grouped)
  BY GroupedGroups
<1>2. \A group \in grouped : group = [time |-> group.time, labels |-> group.labels,
                                       points |-> group.points]
  BY DEF Grouped
<1> HIDE DEF grouped
<1>3. \A row \in set : /\ DOMAIN Restrict(row.labels, shown) = shown
                       /\ \A name \in shown : Restrict(row.labels, shown)[name] = row.labels[name]
                       /\ row.time \in Int /\ row.points \subseteq Point
                       /\ Restrict(row.labels, shown) \in LabelSet
  <2> SUFFICES ASSUME NEW row \in set
               PROVE  /\ DOMAIN Restrict(row.labels, shown) = shown
                      /\ \A name \in shown : Restrict(row.labels, shown)[name] = row.labels[name]
                      /\ row.time \in Int /\ row.points \subseteq Point
                      /\ Restrict(row.labels, shown) \in LabelSet
    OBVIOUS
  <2>1. row.time \in Int /\ row.points \subseteq Point /\ row.labels \in LabelSet
    BY DEF TrueRows, Row
  <2>2. PICK names \in SUBSET Labels : row.labels \in [names -> LabelValues]
    BY <2>1 DEF LabelSet
  <2>3. Restrict(row.labels, shown) \in [shown -> LabelValues]
    BY <2>2 DEF Restrict
  <2>4. Restrict(row.labels, shown) \in LabelSet
    BY <2>3 DEF LabelSet
  <2> QED
    BY <2>1, <2>4 DEF Restrict
<1>4. \A group \in grouped : group.points \subseteq Point
  BY <1>1, <1>3 DEF Groups
<1>5. grouped \subseteq Row
  <2> SUFFICES ASSUME NEW group \in grouped
               PROVE  group \in Row
    OBVIOUS
  <2>1. group.time \in Int /\ group.labels \in LabelSet
    BY <1>1, <1>3 DEF Groups
  <2> QED
    BY <1>2, <1>4, <2>1 DEF Row
<1>6. \A group \in grouped : DOMAIN group.labels = shown
  BY <1>1, <1>3 DEF Groups
<1>7. \A group \in grouped : TrueRow(group, asked, step)
  <2> SUFFICES ASSUME NEW group \in grouped
               PROVE  TrueRow(group, asked, step)
    OBVIOUS
  <2>0. Dated(group.time)
    BY <1>1 DEF Groups, TrueRows, TrueRow
  <2> SUFFICES ASSUME NEW point \in group.points
               PROVE  /\ point \in asked
                      /\ \A name \in DOMAIN group.labels : point.labels[name] = group.labels[name]
                      /\ group.time <= point.time
                      /\ point.time = group.time \/ point.time < group.time + step
    BY <2>0 DEF TrueRow
  <2>1. PICK row \in set : /\ point \in row.points /\ group.time = row.time
                           /\ group.labels = Restrict(row.labels, shown)
    BY <1>1 DEF Groups
  <2>2. TrueRow(row, asked, step)
    BY DEF TrueRows
  <2> QED
    BY <1>3, <2>1, <2>2 DEF TrueRow
<1>8. \A one, other \in grouped : one # other => one.points \cap other.points = {}
  <2> SUFFICES ASSUME NEW one \in grouped, NEW other \in grouped,
                      NEW point \in one.points, point \in other.points
               PROVE  one = other
    OBVIOUS
  <2>1. PICK row1 \in set : /\ point \in row1.points /\ one.time = row1.time
                            /\ one.labels = Restrict(row1.labels, shown)
    BY <1>1 DEF Groups
  <2>2. PICK row2 \in set : /\ point \in row2.points /\ other.time = row2.time
                            /\ other.labels = Restrict(row2.labels, shown)
    BY <1>1 DEF Groups
  <2>3. row1 = row2
    BY <2>1, <2>2 DEF TrueRows
  <2> QED
    BY <1>1, <2>1, <2>2, <2>3 DEF Groups
<1>9. PointsOf(grouped) = PointsOf(set)
  <2>1. \A point : point \in PointsOf(grouped) <=> \E group \in grouped : point \in group.points
    BY DEF PointsOf
  <2>2. \A point : point \in PointsOf(set) <=> \E row \in set : point \in row.points
    BY DEF PointsOf
  <2>3. \A point : point \in PointsOf(grouped) <=> point \in PointsOf(set)
    BY <1>1, <2>1, <2>2 DEF Groups
  <2> QED
    BY <2>3
<1> QED
  BY <1>5, <1>6, <1>7, <1>8, <1>9 DEF TrueRows, grouped

LEMMA BucketRowsTrue ==
    ASSUME NEW s, db \in Databases, IsFiniteSet(db), db \subseteq Point, s.step \in Nat, s.step # 0,
           DOMAIN s.matchers \subseteq Labels
    PROVE  /\ IsFiniteSet(BucketRows(s))
           /\ TrueRows(BucketRows(s), Selected(s), s.step)
           /\ PointsOf(BucketRows(s)) = Selected(s)
           /\ \A row \in BucketRows(s) :
                 /\ DOMAIN row.labels = DOMAIN s.matchers
                 /\ \E point \in Selected(s) :
                       /\ row.time = BucketOf(point.time, s.step)
                       /\ row.labels = Restrict(point.labels, DOMAIN s.matchers)
           /\ \A one, other \in BucketRows(s) :
                 one.time = other.time /\ one.labels = other.labels => one = other
<1> DEFINE shown == DOMAIN s.matchers
<1>1. BucketRows(s) = Grouped(Rounded(s), shown)
  BY DEF BucketRows, Rounded
<1>2. /\ IsFiniteSet(Rounded(s))
      /\ TrueRows(Rounded(s), Selected(s), s.step)
      /\ PointsOf(Rounded(s)) = Selected(s)
      /\ \A row \in Rounded(s) :
            \E point \in Selected(s) : /\ row.time = BucketOf(point.time, s.step)
                                       /\ row.labels = point.labels
  BY RoundedTrue
<1>3. Selected(s) \subseteq Point
  BY DEF Selected
<1>4. \A row \in Rounded(s) : shown \subseteq DOMAIN row.labels
  <2> SUFFICES ASSUME NEW row \in Rounded(s)
               PROVE  shown \subseteq DOMAIN row.labels
    OBVIOUS
  <2>1. PICK point \in Selected(s) : row.labels = point.labels
    BY <1>2
  <2>2. point.labels \in [Labels -> LabelValues]
    BY <1>3, PointsTyped
  <2> QED
    BY <2>1, <2>2
<1> HIDE DEF shown
<1>5. Groups(Rounded(s), shown, BucketRows(s)) /\ IsFiniteSet(BucketRows(s))
  BY <1>1, <1>2, GroupedGroups
<1>6. /\ TrueRows(BucketRows(s), Selected(s), s.step)
      /\ PointsOf(BucketRows(s)) = Selected(s)
      /\ \A row \in BucketRows(s) : DOMAIN row.labels = shown
  BY <1>1, <1>2, <1>3, <1>4, GroupedTrue DEF shown
<1>7. \A row \in BucketRows(s) : \E point \in Selected(s) :
         row.time = BucketOf(point.time, s.step) /\ row.labels = Restrict(point.labels, shown)
  <2> SUFFICES ASSUME NEW row \in BucketRows(s)
               PROVE  \E point \in Selected(s) : /\ row.time = BucketOf(point.time, s.step)
                                                 /\ row.labels = Restrict(point.labels, shown)
    OBVIOUS
  <2>1. PICK r \in Rounded(s) : row.time = r.time /\ row.labels = Restrict(r.labels, shown)
    BY <1>5 DEF Groups
  <2> QED
    BY <1>2, <2>1
<1> QED
  BY <1>5, <1>6, <1>7 DEF Groups, shown

\* One series has no more buckets than the limit of its range.
LEMMA FewBuckets ==
    ASSUME NEW s, db \in Databases, IsFiniteSet(db), db \subseteq Point, s.step \in Nat, s.step # 0,
           DOMAIN s.matchers \subseteq Labels,
           NEW start \in Nat, NEW end \in Nat, start <= end,
           \A point \in Selected(s) : point.time \in start .. end,
           \A one, other \in Selected(s) :
              Restrict(one.labels, DOMAIN s.matchers) = Restrict(other.labels, DOMAIN s.matchers)
    PROVE  Cardinality(BucketRows(s)) <= Limit(start, end, s.step)
<1> DEFINE set == BucketRows(s)
<1> DEFINE a == start \div s.step
<1> DEFINE b == end \div s.step
<1>1. /\ IsFiniteSet(set)
      /\ \A row \in set : \E point \in Selected(s) :
            /\ row.time = BucketOf(point.time, s.step)
            /\ row.labels = Restrict(point.labels, DOMAIN s.matchers)
      /\ \A one, other \in set : one.time = other.time /\ one.labels = other.labels => one = other
  BY BucketRowsTrue
<1>2. a \in Nat /\ b \in Nat /\ a <= b /\ b - a + 1 <= Limit(start, end, s.step)
  BY BucketHolds, BucketsOfRange
<1> DEFINE from(row) == CHOOSE point \in Selected(s) :
                          /\ row.time = BucketOf(point.time, s.step)
                          /\ row.labels = Restrict(point.labels, DOMAIN s.matchers)
<1> DEFINE number == [row \in set |-> from(row).time \div s.step]
<1>3. \A row \in set : /\ from(row) \in Selected(s)
                       /\ row.time = BucketOf(from(row).time, s.step)
                       /\ row.labels = Restrict(from(row).labels, DOMAIN s.matchers)
  <2> HIDE DEF set
  <2> QED
    BY <1>1
<1> HIDE DEF from, set
<1>4. \A row \in set : from(row).time \in Nat /\ number[row] \in a .. b
  <2> SUFFICES ASSUME NEW row \in set
               PROVE  from(row).time \in Nat /\ number[row] \in a .. b
    OBVIOUS
  <2> DEFINE time == from(row).time
  <2>1. time \in Nat /\ start <= time /\ time <= end
    BY <1>3
  <2>2. number[row] = time \div s.step
    OBVIOUS
  <2> HIDE DEF time, number
  <2>3. a <= time \div s.step /\ time \div s.step <= b /\ time \div s.step \in Nat
    BY <2>1, NumbersInOrder, BucketHolds
  <2> HIDE DEF a, b
  <2> QED
    BY <1>2, <2>1, <2>2, <2>3 DEF time
<1>5. \A one, other \in set : number[one] = number[other] => one = other
  <2> SUFFICES ASSUME NEW one \in set, NEW other \in set, number[one] = number[other]
               PROVE  one = other
    OBVIOUS
  <2>1. from(one).time \div s.step = from(other).time \div s.step
    OBVIOUS
  <2>2. BucketOf(from(one).time, s.step) = BucketOf(from(other).time, s.step)
    BY <1>4, <2>1, BucketNumbers
  <2>3. one.time = other.time
    BY <1>3, <2>2
  <2>4. one.labels = other.labels
    BY <1>3
  <2> QED
    BY <1>1, <2>3, <2>4
<1>6. number \in Injection(set, a .. b)
  <2>1. DOMAIN number = set /\ number \in [set -> a .. b]
    BY <1>4
  <2> HIDE DEF number, a, b
  <2> QED
    BY <1>5, <2>1 DEF Injection, IsInjective
<1> HIDE DEF number, a, b
<1>7. IsFiniteSet(a .. b) /\ Cardinality(a .. b) = b - a + 1
  <2>1. a \in Int /\ b \in Int /\ ~(a > b)
    BY <1>2
  <2> QED
    BY <2>1, FS_Interval
<1>8. Cardinality(set) <= Cardinality(a .. b)
  BY <1>6, <1>7, FS_Injection
<1>9. Cardinality(set) \in Nat /\ Limit(start, end, s.step) \in Nat
  BY <1>1, FS_CardinalityType, LimitIsNatural
<1> QED
  BY <1>2, <1>7, <1>8, <1>9 DEF set

LEMMA LeastOfTwo ==
    ASSUME NEW m \in Int, NEW n \in Int
    PROVE  Min({m, n}) = IF m <= n THEN m ELSE n
<1> DEFINE least == IF m <= n THEN m ELSE n
<1>1. least \in {m, n} /\ \A y \in {m, n} : least <= y
  OBVIOUS
<1>2. \A x \in {m, n} : (\A y \in {m, n} : x <= y) => x = least
  OBVIOUS
<1> QED
  BY <1>1, <1>2 DEF Min

\* A limit keeps the first rows, and all of them if they are no more.
LEMMA KeptFirst ==
    ASSUME NEW S, NEW seq \in Seq(S), NEW limit \in Nat
    PROVE  /\ Kept(seq, limit) \in Seq(S)
           /\ \A i \in DOMAIN Kept(seq, limit) : i \in DOMAIN seq /\ Kept(seq, limit)[i] = seq[i]
           /\ Len(seq) <= limit => Kept(seq, limit) = seq
<1> DEFINE n == Min({limit, Len(seq)})
<1>1. n \in Nat /\ n <= Len(seq) /\ (Len(seq) <= limit => n = Len(seq))
  BY LeastOfTwo
<1>2. Kept(seq, limit) = SubSeq(seq, 1, n)
  BY DEF Kept
<1> HIDE DEF n
<1>3. /\ Len(SubSeq(seq, 1, n)) = n
      /\ \A i \in 1 .. n : i \in DOMAIN seq /\ SubSeq(seq, 1, n)[i] = seq[i]
      /\ DOMAIN SubSeq(seq, 1, n) = 1 .. n
  BY <1>1
<1>4. SubSeq(seq, 1, n) \in Seq(S)
  BY <1>1
<1>5. n = Len(seq) => SubSeq(seq, 1, n) = seq
  OBVIOUS
<1> QED
  BY <1>1, <1>2, <1>3, <1>4, <1>5

-----------------------------------------------------------------------------
(* What a statement returns.                                                 *)

Apart(rs) == \A i, j \in DOMAIN rs : i # j => rs[i].points \cap rs[j].points = {}

\* Rows as they come from a table.
Listed(rs, asked, step) ==
    /\ rs \in Seq(Row)
    /\ Apart(rs)
    /\ \A i \in DOMAIN rs : TrueRow(rs[i], asked, step)

LEMMA ListedInOrder ==
    ASSUME NEW set, NEW asked, NEW step, TrueRows(set, asked, step), NEW rs \in Seq(set),
           \A i, j \in DOMAIN rs : rs[i] = rs[j] => i = j
    PROVE  Listed(rs, asked, step)
<1>1. \A i \in DOMAIN rs : rs[i] \in set
  OBVIOUS
<1>2. set \subseteq Row
  BY DEF TrueRows
<1>3. rs \in Seq(Row)
  BY <1>2
<1>4. Apart(rs)
  BY <1>1 DEF Apart, TrueRows
<1>5. \A i \in DOMAIN rs : TrueRow(rs[i], asked, step)
  BY <1>1 DEF TrueRows
<1> QED
  BY <1>3, <1>4, <1>5 DEF Listed

LEMMA MatchersOfQuery ==
    ASSUME NEW q \in PromQuery
    PROVE  /\ DOMAIN q.layers[1].matchers \subseteq Labels
           /\ \A name \in DOMAIN q.layers[1].matchers : q.layers[1].matchers[name] \in Matcher
           /\ q.start \in Nat /\ q.end \in Nat /\ q.step \in Nat
           /\ q.endpoint \in {"query", "query_range"}
           /\ q.layers \in Seq(Layer) /\ Len(q.layers) \in Nat /\ Len(q.layers) >= 1
<1>1. /\ q.layers \in Seq(Layer) /\ 1 \in DOMAIN q.layers /\ q.layers[1] \in Layer
      /\ q.layers[1].kind \in {"selector", "matrix"}
      /\ Len(q.layers) \in Nat /\ Len(q.layers) >= 1
  BY DEF PromQuery, Expression
<1>2. q.layers[1].matchers \in Matchers
  BY <1>1 DEF Layer
<1>3. /\ DOMAIN q.layers[1].matchers \subseteq Labels
      /\ \A name \in DOMAIN q.layers[1].matchers : q.layers[1].matchers[name] \in Matcher
  <2> DEFINE matchers == q.layers[1].matchers
  <2>1. PICK names \in SUBSET Labels : matchers \in [names -> Matcher]
    BY <1>2 DEF Matchers
  <2> HIDE DEF matchers
  <2>2. DOMAIN matchers \subseteq Labels /\ \A name \in DOMAIN matchers : matchers[name] \in Matcher
    BY <2>1
  <2> QED
    BY <2>2 DEF matchers
<1> QED
  BY <1>1, <1>3 DEF PromQuery

OneLabelSet(selected, names) ==
    \A one, other \in selected : Restrict(one.labels, names) = Restrict(other.labels, names)

Delivered(q, s, selected, rs) ==
    /\ rs \in Seq(Row)
    /\ Apart(rs)
    /\ s.shape # "aggregate" => Listed(rs, selected, s.step)
    /\ q.endpoint = "query_range" /\ OneLabelSet(selected, DOMAIN s.matchers) =>
          PointsOf(ToSet(rs)) = selected

LEMMA RunsDeliver ==
    ASSUME db \in Databases, IsFiniteSet(db), db \subseteq Point,
           NEW q \in PromQuery, q.start <= q.end,
           NEW n, NEW s, Sound(q, n, s), s.executable, s.shape \in {"buckets", "wrapped"},
           NEW rs \in InTimeOrder(BucketRows(s)), NEW kept, kept = Kept(rs, s.limit)
    PROVE  /\ IsFiniteSet(ToSet(kept)) /\ TrueRows(ToSet(kept), Selected(s), s.step)
           /\ Listed(kept, Selected(s), s.step)
           /\ \A row \in ToSet(kept) : DOMAIN row.labels = DOMAIN s.matchers
           /\ OneLabelSet(Selected(s), DOMAIN s.matchers) => PointsOf(ToSet(kept)) = Selected(s)
<1> DEFINE set == BucketRows(s)
<1>1. /\ q.endpoint = "query_range" /\ s.step = q.step /\ s.step # 0 /\ s.step \in Nat
      /\ s.limit = Limit(q.start, q.end, s.step) /\ s.limit \in Nat
      /\ s.matchers = q.layers[1].matchers
      /\ s.from = q.start /\ s.to = q.end
  BY DEF Sound
<1>2. DOMAIN s.matchers \subseteq Labels /\ q.start \in Nat /\ q.end \in Nat
  BY <1>1, MatchersOfQuery
<1>3. /\ IsFiniteSet(set)
      /\ TrueRows(set, Selected(s), s.step)
      /\ PointsOf(set) = Selected(s)
      /\ \A row \in set : DOMAIN row.labels = DOMAIN s.matchers
  BY <1>1, <1>2, BucketRowsTrue
<1>4. rs \in SetToSeqs(set)
  BY DEF InTimeOrder
<1> HIDE DEF set
<1>5. /\ rs \in Seq(set) /\ ToSet(rs) = set /\ Len(rs) = Cardinality(set)
      /\ \A i, j \in DOMAIN rs : rs[i] = rs[j] => i = j
  BY <1>3, <1>4, OrderOfSet
<1>6. /\ kept \in Seq(set)
      /\ \A i \in DOMAIN kept : i \in DOMAIN rs /\ kept[i] = rs[i]
      /\ Len(rs) <= s.limit => kept = rs
  <2>1. s.limit \in Nat /\ rs \in Seq(set)
    BY <1>1, <1>5
  <2> QED
    BY <2>1, KeptFirst
<1>7. ToSet(kept) \subseteq set
  BY <1>6 DEF ToSet
<1>8. IsFiniteSet(ToSet(kept)) /\ TrueRows(ToSet(kept), Selected(s), s.step)
  <2>1. IsFiniteSet(ToSet(kept))
    BY <1>3, <1>7, FS_Subset
  <2>2. TrueRows(ToSet(kept), Selected(s), s.step)
    BY <1>3, <1>7 DEF TrueRows
  <2> QED
    BY <2>1, <2>2
<1>9. Listed(kept, Selected(s), s.step)
  <2>1. \A i, j \in DOMAIN kept : kept[i] = kept[j] => i = j
    BY <1>5, <1>6
  <2> QED
    BY <1>3, <1>6, <2>1, ListedInOrder
<1>10. OneLabelSet(Selected(s), DOMAIN s.matchers) => PointsOf(ToSet(kept)) = Selected(s)
  <2> SUFFICES ASSUME OneLabelSet(Selected(s), DOMAIN s.matchers)
               PROVE  PointsOf(ToSet(kept)) = Selected(s)
    OBVIOUS
  <2>1. \A point \in Selected(s) : point.time \in q.start .. q.end
    BY <1>1 DEF Selected
  <2>2. Cardinality(set) <= Limit(q.start, q.end, s.step)
    BY <1>1, <1>2, <2>1, FewBuckets DEF OneLabelSet, set
  <2>3. kept = rs
    BY <1>1, <1>5, <1>6, <2>2
  <2> QED
    BY <1>3, <1>5, <2>3
<1> QED
  BY <1>3, <1>7, <1>8, <1>9, <1>10

LEMMA ReturnedDelivers ==
    ASSUME db \in Databases, IsFiniteSet(db), db \subseteq Point,
           NEW q \in PromQuery, q.start <= q.end,
           NEW n, NEW s, Sound(q, n, s), s.executable, NEW rs \in Returned(s)
    PROVE  Delivered(q, s, Selected(s), rs)
<1>1. CASE s.shape = "points"
  <2>1. rs \in SetToSeqs(PointRows(s)) /\ s.step = 0
    BY <1>1 DEF Returned, Sound
  <2>2. /\ IsFiniteSet(PointRows(s)) /\ TrueRows(PointRows(s), Selected(s), s.step)
        /\ PointsOf(PointRows(s)) = Selected(s)
    BY <2>1, PointRowsTrue
  <2>3. /\ rs \in Seq(PointRows(s)) /\ ToSet(rs) = PointRows(s)
        /\ \A i, j \in DOMAIN rs : rs[i] = rs[j] => i = j
    BY <2>1, <2>2, OrderOfSet
  <2>4. Listed(rs, Selected(s), s.step)
    BY <2>2, <2>3, ListedInOrder
  <2> QED
    BY <2>2, <2>3, <2>4 DEF Delivered, Listed
<1>2. CASE s.shape = "buckets"
  <2>1. PICK seq \in InTimeOrder(BucketRows(s)) : rs = Kept(seq, s.limit)
    BY <1>2 DEF Returned
  <2>2. /\ Listed(rs, Selected(s), s.step)
        /\ OneLabelSet(Selected(s), DOMAIN s.matchers) => PointsOf(ToSet(rs)) = Selected(s)
    BY <1>2, <2>1, RunsDeliver
  <2> QED
    BY <2>2 DEF Delivered, Listed
<1>3. CASE s.shape = "wrapped"
  <2>1. PICK seq \in InTimeOrder(BucketRows(s)) :
           LET set == Grouped(ToSet(Kept(seq, s.limit)), s.shown)
           IN  rs \in IF s.ordered THEN InTimeOrder(set) ELSE SetToSeqs(set)
    BY <1>3 DEF Returned
  <2>2. PICK kept : kept = Kept(seq, s.limit)
    OBVIOUS
  <2>3. PICK set : set = Grouped(ToSet(kept), s.shown)
    OBVIOUS
  <2>4. rs \in SetToSeqs(set)
    BY <2>1, <2>2, <2>3 DEF InTimeOrder
  <2>5. /\ IsFiniteSet(ToSet(kept)) /\ TrueRows(ToSet(kept), Selected(s), s.step)
        /\ \A row \in ToSet(kept) : DOMAIN row.labels = DOMAIN s.matchers
        /\ OneLabelSet(Selected(s), DOMAIN s.matchers) => PointsOf(ToSet(kept)) = Selected(s)
    BY <1>3, <2>2, RunsDeliver
  <2>6. s.shown \subseteq DOMAIN s.matchers /\ s.shown \subseteq Labels
    BY <1>3 DEF Sound
  <2>7. Selected(s) \subseteq Point
    BY DEF Selected
  <2>8. /\ IsFiniteSet(set) /\ TrueRows(set, Selected(s), s.step)
        /\ PointsOf(set) = PointsOf(ToSet(kept))
    BY <2>3, <2>5, <2>6, <2>7, GroupedGroups, GroupedTrue
  <2>9. /\ rs \in Seq(set) /\ ToSet(rs) = set
        /\ \A i, j \in DOMAIN rs : rs[i] = rs[j] => i = j
    BY <2>4, <2>8, OrderOfSet
  <2>10. Listed(rs, Selected(s), s.step)
    BY <2>8, <2>9, ListedInOrder
  <2> QED
    BY <2>5, <2>8, <2>9, <2>10 DEF Delivered, Listed
<1>4. CASE s.shape = "aggregate"
  <2> DEFINE row == [time |-> 0, labels |-> <<>>, points |-> Selected(s)]
  <2>1. rs = IF s.grouped /\ Selected(s) = {} THEN <<>> ELSE <<row>>
    BY <1>4 DEF Returned
  <2>2. row \in Row /\ row.points = Selected(s)
    <3>1. <<>> \in [{} -> LabelValues]
      BY SMT
    <3>2. {} \in SUBSET Labels
      OBVIOUS
    <3>3. <<>> \in LabelSet
      BY <3>1, <3>2 DEF LabelSet
    <3>4. Selected(s) \in SUBSET Point
      BY DEF Selected
    <3> QED
      BY <3>3, <3>4 DEF Row
  <2> HIDE DEF row
  <2>3. CASE rs = <<>> /\ Selected(s) = {}
    <3>1. DOMAIN <<>> = {}
      BY SMT
    <3>2. rs \in Seq(Row) /\ DOMAIN rs = {}
      BY <2>3, <3>1
    <3>3. PointsOf(ToSet(rs)) = {}
      BY <3>2 DEF PointsOf, ToSet
    <3> QED
      BY <1>4, <2>3, <3>2, <3>3 DEF Delivered, Apart
  <2>4. CASE rs = <<row>>
    <3>1. rs \in Seq(Row) /\ DOMAIN rs = {1} /\ rs[1] = row
      BY <2>2, <2>4
    <3>2. ToSet(rs) = {row}
      BY <3>1 DEF ToSet
    <3>3. PointsOf(ToSet(rs)) = Selected(s)
      BY <2>2, <3>2 DEF PointsOf
    <3> QED
      BY <1>4, <3>1, <3>3 DEF Delivered, Apart
  <2> QED
    BY <2>1, <2>3, <2>4
<1> QED
  BY <1>1, <1>2, <1>3, <1>4 DEF Sound

-----------------------------------------------------------------------------
(* The handler.                                                              *)

Posed == /\ stmt = Translation(query) /\ ~stmt.rejected
         /\ ~Unsupported(query)
         /\ ~DividesByZero(query)

\* What holds of a request at every step.
Handled ==
    /\ db \in Databases
    /\ query \in Queries
    /\ pc \in {"idle", "execute", "transform", "done"}
    /\ status \in {"none", "success", "error", "aborted", "unreachable"}
    /\ pc # "done" <=> status = "none"
    /\ stmt = NoStatement \/ Posed
    /\ pc \in {"execute", "transform"} \/ Answered => Posed
    /\ pc = "transform" \/ Answered => stmt.executable
    /\ Supported => status \in {"none", "success", "unreachable"}

LEMMA QueryTyped ==
    ASSUME NEW q \in Queries
    PROVE  q \in PromQuery /\ q.start <= q.end
  BY PromAssumption

LEMMA PointsStored ==
    ASSUME NEW d \in Databases
    PROVE  IsFiniteSet(d) /\ d \subseteq Point
  BY PromAssumption

\* The statements of supported queries.
LEMMA SupportedRange ==
    ASSUME NEW q \in PromQuery, Bucketing(q), q.layers[1].kind = "selector",
           ~RefusesName(q.layers[1].matchers),
           \/ Len(q.layers) = 1
           \/ /\ Len(q.layers) = 2 /\ q.layers[2].kind = "aggregate"
              /\ q.layers[2].by # {} /\ MetricName \notin q.layers[2].by
              /\ q.layers[2].by \subseteq DOMAIN q.layers[1].matchers
    PROVE  /\ Translation(q).executable /\ ~Translation(q).rejected
           /\ Translation(q).shape \in {"buckets", "wrapped"}
<1> DEFINE matchers == q.layers[1].matchers
<1>1. q.layers \in Seq(Layer)
  BY MatchersOfQuery
<1>2. PICK chain : /\ chain[0] = NoStatement
                   /\ \A k \in 1 .. Len(q.layers) :
                         chain[k] = TranslateExpr(q, chain[k - 1], q.layers[k])
                   /\ Translation(q) = chain[Len(q.layers)]
  BY <1>1, TranslationChain
<1>3. chain[1] = TranslateExpr(q, NoStatement, q.layers[1])
  BY <1>2
<1>4. chain[1] = TranslateVectorSelector(q, matchers)
  BY <1>3 DEF TranslateExpr
<1>5. /\ DOMAIN chain[1] = StatementFields
      /\ chain[1].shape = "buckets" /\ chain[1].grouped /\ chain[1].shown = DOMAIN matchers
      /\ chain[1].executable /\ ~chain[1].rejected
  BY <1>4, RangeSelected
<1>6. CASE Len(q.layers) = 1
  BY <1>2, <1>5, <1>6
<1>7. CASE Len(q.layers) # 1
  <2>1. chain[2] = TranslateExpr(q, chain[1], q.layers[2])
    BY <1>2, <1>7
  <2> DEFINE layer == q.layers[2]
  <2>2. chain[2] = TranslateAggregate(chain[1], layer.by, layer.without)
    BY <1>7, <2>1 DEF TranslateExpr
  <2>3. layer.by # {} /\ layer.by \subseteq chain[1].shown \ {MetricName}
    BY <1>5, <1>7
  <2> HIDE DEF layer, matchers
  <2>4. /\ chain[2].shape = "wrapped" /\ chain[2].rejected = chain[1].rejected
        /\ chain[2].executable
    BY <1>5, <2>2, <2>3, AggregatedGroups
  <2> QED
    BY <1>2, <1>5, <1>7, <2>4
<1> QED
  BY <1>6, <1>7

LEMMA SupportedStatement ==
    ASSUME query \in PromQuery, query.start <= query.end, Supported
    PROVE  /\ ~Unsupported(query) /\ ~DividesByZero(query)
           /\ Translation(query).executable /\ ~Translation(query).rejected
           /\ Translation(query).shape \in {"points", "buckets", "wrapped"}
<1> DEFINE q == query
<1>1. /\ \A i \in DOMAIN q.layers : q.layers[i].kind \in {"selector", "matrix"} <=> i = 1
      /\ 1 \in DOMAIN q.layers /\ q.layers[1].kind \in {"selector", "matrix"}
      /\ DOMAIN q.layers = 1 .. Len(q.layers) /\ Len(q.layers) \in Nat
      /\ q.endpoint \in {"query", "query_range"}
  <2>1. q.layers \in Expression /\ q.endpoint \in {"query", "query_range"}
    BY DEF PromQuery
  <2>2. q.layers \in Seq(Layer) /\ q.layers # <<>>
    BY <2>1 DEF Expression
  <2>3. DOMAIN q.layers = 1 .. Len(q.layers) /\ Len(q.layers) \in Nat /\ 1 \in DOMAIN q.layers
    BY <2>2
  <2>4. \A i \in DOMAIN q.layers : q.layers[i].kind \in {"selector", "matrix"} <=> i = 1
    BY <2>1 DEF Expression
  <2> QED
    BY <2>1, <2>3, <2>4
<1>2. \A i \in DOMAIN q.layers : q.layers[i].kind \in Kinds
  BY DEF Kinds
<1>0. ~RefusesName(q.layers[1].matchers)
  BY DEF Supported, RefusesName
<1>3. CASE \/ Kinds = {"matrix"}
           \/ q.endpoint = "query" /\ Kinds \subseteq {"selector", "compare"}
  <2>1. \A i \in DOMAIN q.layers : q.layers[i].kind \in {"selector", "matrix", "compare"}
    BY <1>2, <1>3
  <2>2. ~Unsupported(q)
    BY <2>1 DEF Unsupported
  <2>3. ~DividesByZero(q)
    BY <1>1, <1>2, <1>3 DEF DividesByZero, Bucketing
  <2>4. Plain(q, Len(q.layers))
    <3>1. q.endpoint = "query" \/ q.layers[1].kind = "matrix"
      BY <1>1, <1>2, <1>3
    <3>2. \A i \in 2 .. Len(q.layers) : q.layers[i].kind = "compare"
      <4> SUFFICES ASSUME NEW i \in 2 .. Len(q.layers)
                   PROVE  q.layers[i].kind = "compare"
        OBVIOUS
      <4>1. i \in DOMAIN q.layers /\ i # 1
        BY <1>1
      <4> QED
        BY <1>1, <2>1, <4>1
    <3> QED
      BY <3>1, <3>2 DEF Plain
  <2>5. Translated(q, Len(q.layers), Translation(q))
    BY <2>2, <2>3, TranslationSound
  <2> QED
    BY <1>0, <2>2, <2>3, <2>4, <2>5 DEF Sound, Translated
<1>4. CASE ~(\/ Kinds = {"matrix"}
             \/ q.endpoint = "query" /\ Kinds \subseteq {"selector", "compare"})
  <2>1. /\ q.endpoint = "query_range" /\ q.step > 0
        /\ \/ Len(q.layers) = 1 /\ Kinds = {"selector"}
           \/ /\ Len(q.layers) = 2 /\ Kinds = {"selector", "aggregate"}
              /\ q.layers[2].by # {} /\ MetricName \notin q.layers[2].by
              /\ q.layers[2].by \subseteq DOMAIN q.layers[1].matchers
    BY <1>4 DEF Supported
  <2>2. q.layers[1].kind = "selector" /\ q.step # 0
    <3>1. q.layers[1].kind \in Kinds
      BY <1>1, <1>2
    <3>2. q.step \in Nat
      BY MatchersOfQuery
    <3> QED
      BY <1>1, <2>1, <3>1, <3>2
  <2>3. Len(q.layers) = 2 => q.layers[2].kind = "aggregate"
    <3> SUFFICES ASSUME Len(q.layers) = 2
                 PROVE  q.layers[2].kind = "aggregate"
      OBVIOUS
    <3>1. 2 \in DOMAIN q.layers
      BY <1>1
    <3> QED
      BY <1>1, <1>2, <2>1, <3>1
  <2>4. ~Unsupported(q)
    BY <1>1, <2>1, <2>2, <2>3 DEF Unsupported
  <2>5. ~DividesByZero(q)
    BY <2>2 DEF DividesByZero
  <2>6. Bucketing(q)
    BY <2>1 DEF Bucketing
  <2> QED
    BY <1>0, <2>1, <2>2, <2>3, <2>4, <2>5, <2>6, SupportedRange
<1> QED
  BY <1>3, <1>4

LEMMA HandledInit ==
    ASSUME Init
    PROVE  Handled
  BY DEF Init, Handled, Answered

LEMMA HandledStep ==
    ASSUME Handled, [Next]_vars
    PROVE  Handled'
<1>0. query \in PromQuery /\ query.start <= query.end
  BY QueryTyped DEF Handled
<1>1. Supported => /\ ~Unsupported(query) /\ ~DividesByZero(query)
                   /\ Translation(query).executable /\ ~Translation(query).rejected
                   /\ Translation(query).shape \in {"points", "buckets", "wrapped"}
  BY <1>0, SupportedStatement
<1>s. query' = query => (Supported' <=> Supported)
  BY DEF Supported, Kinds
<1>2. CASE TranslateQuery
  BY <1>1, <1>2, <1>s DEF TranslateQuery, Answer, Handled, Answered, Posed
<1>3. CASE Refuse \/ Panic
  BY <1>1, <1>3, <1>s DEF Refuse, Panic, Answer, Handled, Answered, Posed
<1>4. CASE ExecuteQueries \/ Outage
  BY <1>1, <1>4, <1>s DEF ExecuteQueries, Outage, Answer, Handled, Answered, Posed
<1>5. CASE RefuseColumns
  <2>1. ~Supported
    <3> SUFFICES ASSUME Supported
                 PROVE  FALSE
      OBVIOUS
    <3>1. stmt.shape \in {"points", "buckets", "wrapped"}
      BY <1>1, <1>5 DEF RefuseColumns, Handled, Posed
    <3>2. "value" \in Columns /\ Columns \cap TimeColumns # {}
      BY <3>1 DEF Columns, TimeColumns
    <3> QED
      BY <1>5, <3>2 DEF RefuseColumns, ColumnsMissing
  <2> QED
    BY <1>5, <2>1, <1>s DEF RefuseColumns, Answer, Handled, Answered, Posed
<1>6. CASE AddInstant \/ AddToSeries
  BY <1>6, <1>s DEF AddInstant, AddToSeries, Handled, Answered, Posed
<1>7. CASE Respond
  BY <1>7, <1>s DEF Respond, Answer, Handled, Answered, Posed
<1>8. CASE UNCHANGED vars
  BY <1>8, <1>s DEF vars, Handled, Answered, Posed
<1> QED
  BY <1>2, <1>3, <1>4, <1>5, <1>6, <1>7, <1>8 DEF Next

-----------------------------------------------------------------------------
(* The series.                                                               *)

SampleType == [time : Int, points : SUBSET Point]

KeysApart(all) == \A k, l \in DOMAIN all : all[k].key = all[l].key => k = l

\* A series grew by a sample, or one was opened for it.
Grown(all, key, sample, new) ==
    /\ KeysApart(new)
    /\ \A k \in DOMAIN all :
          /\ k \in DOMAIN new /\ new[k].key = all[k].key
          /\ \A i \in DOMAIN all[k].samples :
                i \in DOMAIN new[k].samples /\ new[k].samples[i] = all[k].samples[i]
    /\ \E k \in DOMAIN new : \E i \in DOMAIN new[k].samples :
          /\ new[k].key = key /\ new[k].samples[i] = sample
          /\ \A l \in DOMAIN new : \A j \in DOMAIN new[l].samples :
                \/ l = k /\ j = i
                \/ l \in DOMAIN all /\ j \in DOMAIN all[l].samples

LEMMA OtherSamples ==
    ASSUME NEW one \in Series, NEW samples \in Seq(SampleType)
    PROVE  /\ [one EXCEPT !.samples = samples] \in Series
           /\ [one EXCEPT !.samples = samples].key = one.key
           /\ [one EXCEPT !.samples = samples].samples = samples
  BY DEF Series, SampleType

LEMMA OneLonger ==
    ASSUME NEW S, NEW seq \in Seq(S), NEW x \in S, NEW longer, longer = Append(seq, x)
    PROVE  /\ longer \in Seq(S)
           /\ Len(seq) + 1 \in DOMAIN longer /\ longer[Len(seq) + 1] = x
           /\ \A i \in DOMAIN seq : i \in DOMAIN longer /\ longer[i] = seq[i]
           /\ \A i \in DOMAIN longer : i = Len(seq) + 1 \/ i \in DOMAIN seq
  OBVIOUS

LEMMA AddedSeries ==
    ASSUME series \in Seq(Series), KeysApart(series), NEW key \in Seq(Labels \X LabelValues),
           NEW sample \in SampleType, NEW new, new = Added(key, sample)
    PROVE  new \in Seq(Series) /\ Grown(series, key, sample, new)
<1>1. CASE \E k \in DOMAIN series : series[k].key = key
  <2>1. PICK k \in DOMAIN series : series[k].key = key
    BY <1>1
  <2> DEFINE longer(l) == [series[l] EXCEPT !.samples = Append(@, sample)]
  <2>2. new = [l \in DOMAIN series |-> IF series[l].key = key THEN longer(l) ELSE series[l]]
    BY <1>1 DEF Added
  <2>3. series[k] \in Series /\ series[k].samples \in Seq(SampleType)
    <3>1. series[k] \in Series
      OBVIOUS
    <3> QED
      BY <3>1 DEF Series, SampleType
  <2>4. PICK more : more = Append(series[k].samples, sample)
    OBVIOUS
  <2>5. /\ more \in Seq(SampleType)
        /\ Len(series[k].samples) + 1 \in DOMAIN more
        /\ more[Len(series[k].samples) + 1] = sample
        /\ \A i \in DOMAIN series[k].samples : i \in DOMAIN more /\ more[i] = series[k].samples[i]
        /\ \A i \in DOMAIN more : i = Len(series[k].samples) + 1 \/ i \in DOMAIN series[k].samples
    BY <2>3, <2>4, OneLonger
  <2>6. longer(k) \in Series /\ longer(k).key = key /\ longer(k).samples = more
    BY <2>1, <2>3, <2>4, <2>5, OtherSamples
  <2> HIDE DEF longer
  <2>7. DOMAIN new = DOMAIN series /\ new[k] = longer(k)
        /\ \A l \in DOMAIN series : l # k => new[l] = series[l]
    BY <2>1, <2>2 DEF KeysApart
  <2>8. new \in Seq(Series)
    <3>1. DOMAIN series = 1 .. Len(series) /\ Len(series) \in Nat
      OBVIOUS
    <3>2. \A l \in DOMAIN series : series[l] \in Series
      OBVIOUS
    <3>3. \A l \in DOMAIN series : new[l] \in Series
      BY <2>6, <2>7, <3>2
    <3>4. new \in [1 .. Len(series) -> Series]
      BY <2>2, <3>1, <3>3
    <3> QED
      BY <3>1, <3>4
  <2>9. KeysApart(new)
    BY <2>1, <2>6, <2>7 DEF KeysApart
  <2>10. \A l \in DOMAIN series :
            /\ l \in DOMAIN new /\ new[l].key = series[l].key
            /\ \A i \in DOMAIN series[l].samples :
                  i \in DOMAIN new[l].samples /\ new[l].samples[i] = series[l].samples[i]
    BY <2>1, <2>5, <2>6, <2>7
  <2>11. \A l \in DOMAIN new : \A j \in DOMAIN new[l].samples :
            \/ l = k /\ j = Len(series[k].samples) + 1
            \/ l \in DOMAIN series /\ j \in DOMAIN series[l].samples
    BY <2>5, <2>6, <2>7
  <2>12. /\ k \in DOMAIN new /\ Len(series[k].samples) + 1 \in DOMAIN new[k].samples
         /\ new[k].key = key /\ new[k].samples[Len(series[k].samples) + 1] = sample
    BY <2>5, <2>6, <2>7
  <2> QED
    BY <2>8, <2>9, <2>10, <2>11, <2>12 DEF Grown
<1>2. CASE ~\E k \in DOMAIN series : series[k].key = key
  <2> DEFINE opened == [key |-> key, samples |-> <<sample>>]
  <2>1. opened \in Series /\ opened.key = key /\ opened.samples = <<sample>>
    BY DEF Series, SampleType
  <2>2. DOMAIN opened.samples = {1} /\ opened.samples[1] = sample
    BY <2>1
  <2>3. new = Append(series, opened)
    BY <1>2 DEF Added
  <2> HIDE DEF opened
  <2>4. /\ new \in Seq(Series)
        /\ Len(series) + 1 \in DOMAIN new /\ new[Len(series) + 1] = opened
        /\ \A k \in DOMAIN series : k \in DOMAIN new /\ new[k] = series[k]
        /\ \A k \in DOMAIN new : k = Len(series) + 1 \/ k \in DOMAIN series
    BY <2>1, <2>3, OneLonger
  <2>5. KeysApart(new)
    BY <1>2, <2>1, <2>4 DEF KeysApart
  <2> QED
    BY <2>1, <2>2, <2>4, <2>5 DEF Grown
<1> QED
  BY <1>1, <1>2

\* What is said of a series: its points were selected, have the labels of its
\* key, and fall into the step that begins in the second of their sample.
TrueSample(key, sample, selected, step) ==
    \A point \in sample.points :
        /\ point \in selected
        /\ \A pair \in ToSet(key) : point.labels[pair[1]] = pair[2]
        /\ sample.time * Second <= point.time
        /\ point.time < (sample.time + 1) * Second + step

\* Points that are behind a sample.
Behind(all, point) ==
    \E k \in DOMAIN all : \E i \in DOMAIN all[k].samples : point \in all[k].samples[i].points

\* Rows and series together: each point is behind one of them at most.
Distributed(selected, step, rs, all) ==
    /\ Listed(rs, selected, step)
    /\ KeysApart(all)
    /\ \A k \in DOMAIN all : \A i \in DOMAIN all[k].samples :
          TrueSample(all[k].key, all[k].samples[i], selected, step)
    /\ \A k, l \in DOMAIN all : \A i \in DOMAIN all[k].samples : \A j \in DOMAIN all[l].samples :
          k # l \/ i # j => all[k].samples[i].points \cap all[l].samples[j].points = {}
    /\ \A i \in DOMAIN rs : \A point \in rs[i].points : ~Behind(all, point)

\* No point was lost.
Whole(selected, rs, all) ==
    \A point \in selected : point \in PointsOf(ToSet(rs)) \/ Behind(all, point)

\* The rows after the first.
Remaining(rs, rest) ==
    /\ \A i \in DOMAIN rest : /\ rest[i].points \cap Head(rs).points = {}
                              /\ \E j \in DOMAIN rs : rest[i] = rs[j]
    /\ \A point \in PointsOf(ToSet(rs)) :
          point \in Head(rs).points \/ point \in PointsOf(ToSet(rest))

LEMMA TailListed ==
    ASSUME NEW rs, NEW selected, NEW step, Listed(rs, selected, step), rs # <<>>,
           NEW rest, rest = Tail(rs)
    PROVE  /\ Listed(rest, selected, step)
           /\ Head(rs) \in Row /\ TrueRow(Head(rs), selected, step)
           /\ Remaining(rs, rest)
<1>1. rs \in Seq(Row) /\ 1 \in DOMAIN rs /\ Head(rs) = rs[1]
  BY DEF Listed
<1>2. /\ rest \in Seq(Row)
      /\ \A i \in DOMAIN rest : i \in Nat /\ i # 0 /\ i + 1 \in DOMAIN rs /\ rest[i] = rs[i + 1]
  BY <1>1
<1>3. \A i \in DOMAIN rs : i # 1 => i - 1 \in DOMAIN rest /\ rest[i - 1] = rs[i]
  BY <1>1
<1>4. Apart(rest)
  <2> SUFFICES ASSUME NEW i \in DOMAIN rest, NEW j \in DOMAIN rest, i # j
               PROVE  rest[i].points \cap rest[j].points = {}
    BY DEF Apart
  <2>1. i + 1 # j + 1
    BY <1>2
  <2> QED
    BY <1>2, <2>1 DEF Listed, Apart
<1>5. \A i \in DOMAIN rest : TrueRow(rest[i], selected, step)
  BY <1>2 DEF Listed
<1>6. \A i \in DOMAIN rest : rest[i].points \cap Head(rs).points = {}
  <2> SUFFICES ASSUME NEW i \in DOMAIN rest
               PROVE  rest[i].points \cap Head(rs).points = {}
    OBVIOUS
  <2>1. i + 1 # 1
    BY <1>2
  <2> QED
    BY <1>1, <1>2, <2>1 DEF Listed, Apart
<1>7. \A point \in PointsOf(ToSet(rs)) :
         point \in Head(rs).points \/ point \in PointsOf(ToSet(rest))
  <2> SUFFICES ASSUME NEW i \in DOMAIN rs, NEW point \in rs[i].points
               PROVE  point \in Head(rs).points \/ point \in PointsOf(ToSet(rest))
    BY DEF PointsOf, ToSet
  <2>1. CASE i = 1
    BY <1>1, <2>1
  <2>2. CASE i # 1
    BY <1>3, <2>2 DEF PointsOf, ToSet
  <2> QED
    BY <2>1, <2>2
<1>8. Head(rs) \in Row /\ TrueRow(Head(rs), selected, step)
  BY <1>1 DEF Listed
<1> QED
  BY <1>2, <1>4, <1>5, <1>6, <1>7, <1>8 DEF Listed, Remaining

LEMMA SecondHolds ==
    ASSUME NEW time \in Int
    PROVE  /\ time \div Second \in Int
           /\ (time \div Second) * Second <= time
           /\ time < (time \div Second + 1) * Second
<1>1. Second \in Nat /\ Second # 0
  BY PromAssumption
<1>2. time \div Second \in Int
  BY <1>1
<1>3. time = (time \div Second) * Second + (time % Second) /\ time % Second \in 0 .. Second - 1
  BY <1>1
<1>4. (time \div Second + 1) * Second = (time \div Second) * Second + Second
  BY <1>1, <1>2
<1>5. (time \div Second) * Second \in Int
  BY <1>1, <1>2
<1> QED
  BY <1>1, <1>2, <1>3, <1>4, <1>5

LEMMA UnixSecondsHold ==
    ASSUME NEW time \in Int
    PROVE  /\ ToUnixSeconds(time) \in Int
           /\ Dated(time) => /\ ToUnixSeconds(time) * Second <= time
                             /\ time < (ToUnixSeconds(time) + 1) * Second
<1>1. CASE time > MsAbove
  BY <1>1, SecondHolds DEF ToUnixSeconds
<1>2. CASE ~(time > MsAbove)
  <2>1. ToUnixSeconds(time) = time
    BY <1>2 DEF ToUnixSeconds
  <2>2. Second \in Nat /\ Second # 0
    BY PromAssumption
  <2>3. 0 * Second <= 0 /\ 0 < (0 + 1) * Second
    BY <2>2
  <2> QED
    BY <1>2, <2>1, <2>3 DEF Dated
<1> QED
  BY <1>1, <1>2

\* The sample of a row is as true as the row.
LEMMA SampleOfRow ==
    ASSUME NEW row \in Row, NEW selected, selected \subseteq Point, NEW step \in Nat,
           TrueRow(row, selected, step), NEW key, ToSet(key) = LabelPairs(row)
    PROVE  /\ Sample(row) \in SampleType /\ Sample(row).points = row.points
           /\ TrueSample(key, Sample(row), selected, step)
<1> DEFINE number == ToUnixSeconds(row.time)
<1>1. row.time \in Int /\ row.points \subseteq Point
  BY DEF Row
<1>2. Second \in Nat /\ number \in Int /\ number * Second <= row.time
      /\ row.time < (number + 1) * Second
  <2>1. Dated(row.time)
    BY DEF TrueRow
  <2>2. Second \in Nat
    BY PromAssumption
  <2> QED
    BY <1>1, <2>1, <2>2, UnixSecondsHold
<1>3. Sample(row).time = number /\ Sample(row).points = row.points
      /\ Sample(row) = [time |-> number, points |-> row.points]
  BY DEF Sample
<1>4. Sample(row) \in SampleType
  BY <1>1, <1>2, <1>3 DEF SampleType
<1> HIDE DEF number
<1>5. ASSUME NEW point \in row.points
      PROVE  /\ point \in selected
             /\ \A pair \in ToSet(key) : point.labels[pair[1]] = pair[2]
             /\ number * Second <= point.time
             /\ point.time < (number + 1) * Second + step
  <2>1. /\ point \in selected
        /\ \A name \in DOMAIN row.labels : point.labels[name] = row.labels[name]
        /\ row.time <= point.time
        /\ point.time = row.time \/ point.time < row.time + step
    BY <1>5 DEF TrueRow
  <2>2. point.time \in Nat
    BY <2>1, PointsTyped
  <2>3. \A pair \in ToSet(key) : point.labels[pair[1]] = pair[2]
    BY <2>1 DEF LabelPairs
  <2>4. number * Second \in Int /\ (number + 1) * Second \in Int
    BY <1>2
  <2>5. number * Second <= point.time
    BY <1>1, <1>2, <2>1, <2>2, <2>4
  <2>6. point.time < (number + 1) * Second + step
    BY <1>1, <1>2, <2>1, <2>2, <2>4
  <2> QED
    BY <2>1, <2>3, <2>5, <2>6
<1> QED
  BY <1>3, <1>4, <1>5 DEF TrueSample

\* A row that became a sample is behind a series, and no row any more.
LEMMA RowPlaced ==
    ASSUME NEW selected, NEW step, NEW rs, NEW all, Distributed(selected, step, rs, all),
           rs # <<>>, NEW rest, rest = Tail(rs), NEW key, NEW sample,
           sample.points = Head(rs).points, TrueSample(key, sample, selected, step),
           NEW new, Grown(all, key, sample, new)
    PROVE  /\ Distributed(selected, step, rest, new)
           /\ Whole(selected, rs, all) => Whole(selected, rest, new)
<1>1. /\ Listed(rest, selected, step)
      /\ \A i \in DOMAIN rest : /\ rest[i].points \cap Head(rs).points = {}
                                /\ \E j \in DOMAIN rs : rest[i] = rs[j]
      /\ \A point \in PointsOf(ToSet(rs)) :
            point \in Head(rs).points \/ point \in PointsOf(ToSet(rest))
  <2>1. Listed(rs, selected, step)
    BY DEF Distributed
  <2>2. Listed(rest, selected, step) /\ Remaining(rs, rest)
    BY <2>1, TailListed
  <2> QED
    BY <2>2 DEF Remaining
<1>2. \E j \in DOMAIN rs : Head(rs) = rs[j]
  <2>1. rs \in Seq(Row)
    BY DEF Distributed, Listed
  <2>2. 1 \in DOMAIN rs /\ Head(rs) = rs[1]
    BY <2>1
  <2> QED
    BY <2>2
<1>3. \A point \in sample.points : ~Behind(all, point)
  BY <1>2 DEF Distributed
<1>0. PICK k \in DOMAIN new : \E i \in DOMAIN new[k].samples :
         /\ new[k].key = key /\ new[k].samples[i] = sample
         /\ \A l \in DOMAIN new : \A j \in DOMAIN new[l].samples :
               \/ l = k /\ j = i
               \/ l \in DOMAIN all /\ j \in DOMAIN all[l].samples
  BY DEF Grown
<1>4. PICK i \in DOMAIN new[k].samples :
         /\ new[k].key = key /\ new[k].samples[i] = sample
         /\ \A l \in DOMAIN new : \A j \in DOMAIN new[l].samples :
               \/ l = k /\ j = i
               \/ l \in DOMAIN all /\ j \in DOMAIN all[l].samples
  BY <1>0
<1>5. \A l \in DOMAIN all :
         /\ l \in DOMAIN new /\ new[l].key = all[l].key
         /\ \A j \in DOMAIN all[l].samples :
               j \in DOMAIN new[l].samples /\ new[l].samples[j] = all[l].samples[j]
  BY DEF Grown
<1>6. \A point : Behind(new, point) <=> point \in sample.points \/ Behind(all, point)
  <2>1. ASSUME NEW point, Behind(new, point)
        PROVE  point \in sample.points \/ Behind(all, point)
    <3>0. PICK l \in DOMAIN new : \E j \in DOMAIN new[l].samples : point \in new[l].samples[j].points
      BY <2>1 DEF Behind
    <3>1. PICK j \in DOMAIN new[l].samples : point \in new[l].samples[j].points
      BY <3>0
    <3>2. CASE l = k /\ j = i
      BY <1>4, <3>1, <3>2
    <3>3. CASE l \in DOMAIN all /\ j \in DOMAIN all[l].samples
      BY <1>5, <3>1, <3>3 DEF Behind
    <3> QED
      BY <1>4, <3>2, <3>3
  <2>2. ASSUME NEW point, point \in sample.points
        PROVE  Behind(new, point)
    BY <1>4, <2>2 DEF Behind
  <2>3. ASSUME NEW point, Behind(all, point)
        PROVE  Behind(new, point)
    BY <1>5, <2>3 DEF Behind
  <2> QED
    BY <2>1, <2>2, <2>3
<1>7. KeysApart(new)
  BY DEF Grown
<1>8. ASSUME NEW l \in DOMAIN new, NEW j \in DOMAIN new[l].samples
      PROVE  TrueSample(new[l].key, new[l].samples[j], selected, step)
  <2>1. CASE l = k /\ j = i
    BY <1>4, <2>1
  <2>2. CASE l \in DOMAIN all /\ j \in DOMAIN all[l].samples
    BY <1>5, <2>2 DEF Distributed
  <2> QED
    BY <1>4, <1>8, <2>1, <2>2
<1>9. ASSUME NEW l \in DOMAIN new, NEW m \in DOMAIN new,
             NEW j \in DOMAIN new[l].samples, NEW n \in DOMAIN new[m].samples,
             l # m \/ j # n
      PROVE  new[l].samples[j].points \cap new[m].samples[n].points = {}
  <2>1. CASE /\ l \in DOMAIN all /\ j \in DOMAIN all[l].samples
             /\ m \in DOMAIN all /\ n \in DOMAIN all[m].samples
    BY <1>5, <1>9, <2>1 DEF Distributed
  <2>2. CASE /\ l = k /\ j = i
             /\ m \in DOMAIN all /\ n \in DOMAIN all[m].samples
    BY <1>3, <1>4, <1>5, <2>2 DEF Behind
  <2>3. CASE /\ m = k /\ n = i
             /\ l \in DOMAIN all /\ j \in DOMAIN all[l].samples
    BY <1>3, <1>4, <1>5, <2>3 DEF Behind
  <2> QED
    BY <1>4, <1>9, <2>1, <2>2, <2>3
<1>10. \A j \in DOMAIN rest : \A point \in rest[j].points : ~Behind(new, point)
  BY <1>1, <1>6 DEF Distributed
<1>11. Whole(selected, rs, all) => Whole(selected, rest, new)
  BY <1>1, <1>6 DEF Whole
<1> QED
  BY <1>1, <1>7, <1>8, <1>9, <1>10, <1>11 DEF Distributed

LEMMA LabelPairsFinite ==
    ASSUME NEW row \in Row
    PROVE  IsFiniteSet(LabelPairs(row)) /\ LabelPairs(row) \subseteq Labels \X LabelValues
<1>1. PICK names \in SUBSET Labels : row.labels \in [names -> LabelValues]
  BY DEF Row, LabelSet
<1>2. LabelPairs(row) \subseteq Labels \X LabelValues
  BY <1>1 DEF LabelPairs
<1>3. IsFiniteSet(names)
  BY PromAssumption, FS_Subset
<1> DEFINE pair == [name \in names |-> <<name, row.labels[name]>>]
<1>4. pair \in Surjection(names, LabelPairs(row))
  BY <1>1 DEF Surjection, LabelPairs
<1> HIDE DEF pair
<1> QED
  BY <1>2, <1>3, <1>4, FS_Surjection

LEMMA KeysOfRow ==
    ASSUME NEW row \in Row, NEW key \in Keys(row)
    PROVE  key \in Seq(Labels \X LabelValues) /\ ToSet(key) = LabelPairs(row)
<1>1. key \in Seq(LabelPairs(row)) /\ ToSet(key) = LabelPairs(row)
  BY LabelPairsFinite, OrderOfSet DEF Keys
<1> QED
  BY <1>1, LabelPairsFinite

LEMMA InstantKey ==
    ASSUME NEW row \in Row
    PROVE  SetToSeq(LabelPairs(row)) \in Seq(Labels \X LabelValues)
<1> DEFINE set == LabelPairs(row)
<1>1. IsFiniteSet(set) /\ set \subseteq Labels \X LabelValues
  BY LabelPairsFinite
<1> HIDE DEF set
<1>2. ExistsBijection(1 .. Cardinality(set), set) /\ Cardinality(set) \in Nat
  BY <1>1, FS_CardinalityType
<1>3. \E f \in [1 .. Cardinality(set) -> set] : IsInjective(f)
  BY <1>2 DEF ExistsBijection, Bijection, Injection
<1>4. SetToSeq(set) \in [1 .. Cardinality(set) -> set]
  BY <1>3, Zenon DEF SetToSeq
<1>5. SetToSeq(set) \in Seq(set)
  BY <1>2, <1>4
<1> QED
  BY <1>1, <1>5 DEF set

\* What holds of the rows and the series at every step.
Streaming ==
    /\ rows \in Seq(Row)
    /\ series \in Seq(Series)
    /\ pc \in {"idle", "execute"} => rows = <<>> /\ series = <<>>
    /\ Answered => rows = <<>>
    /\ query.endpoint = "query_range" /\ (pc = "transform" \/ Answered) =>
          /\ IF stmt.shape = "aggregate"
             THEN series = <<>>
             ELSE Distributed(Selected(stmt), stmt.step, rows, series)
          /\ OneLabelSet(Selected(stmt), DOMAIN stmt.matchers) =>
                Whole(Selected(stmt), rows, series)

LEMMA PosedSound ==
    ASSUME Handled, Posed
    PROVE  Sound(query, Len(query.layers), stmt)
  BY QueryTyped, TranslationSound DEF Handled, Posed, Translated

LEMMA EmptyTyped ==
    ASSUME NEW S
    PROVE  <<>> \in Seq(S) /\ DOMAIN <<>> = {}
<1>1. DOMAIN <<>> = {}
  BY SMT
<1> QED
  BY <1>1

LEMMA StreamingInit ==
    ASSUME Init
    PROVE  Streaming
  BY EmptyTyped DEF Init, Streaming, Answered

LEMMA ExecuteStreaming ==
    ASSUME Handled, Streaming, ExecuteQueries
    PROVE  Streaming'
<1>1. series = <<>> /\ UNCHANGED <<db, query, stmt, series>> /\ pc = "execute"
  BY DEF Streaming, ExecuteQueries
<1>2. CASE stmt.executable /\ rows' \in Returned(stmt) /\ pc' = "transform" /\ UNCHANGED status
  <2>1. PICK rs : rs = rows'
    OBVIOUS
  <2>2. Sound(query, Len(query.layers), stmt)
    BY <1>1, PosedSound DEF Handled
  <2>3. Delivered(query, stmt, Selected(stmt), rs)
    BY <1>2, <2>1, <2>2, QueryTyped, PointsStored, ReturnedDelivers DEF Handled
  <2>4. KeysApart(<<>>) /\ \A point : ~Behind(<<>>, point)
    BY EmptyTyped DEF KeysApart, Behind
  <2>5. stmt.shape # "aggregate" => Distributed(Selected(stmt), stmt.step, rs, <<>>)
    BY <2>3, <2>4, EmptyTyped DEF Delivered, Distributed
  <2>6. query.endpoint = "query_range" /\ OneLabelSet(Selected(stmt), DOMAIN stmt.matchers) =>
           Whole(Selected(stmt), rs, <<>>)
    BY <2>3 DEF Delivered, Whole
  <2>7. rs \in Seq(Row)
    BY <2>3 DEF Delivered
  <2>8. Selected(stmt)' = Selected(stmt)
    BY <1>1 DEF Selected
  <2> QED
    BY <1>1, <1>2, <2>1, <2>5, <2>6, <2>7, <2>8, EmptyTyped DEF Streaming, Answered
<1>3. CASE pc' = "done" /\ status' = "error" /\ UNCHANGED rows
  BY <1>1, <1>3 DEF Streaming, Answered
<1> QED
  BY <1>2, <1>3 DEF ExecuteQueries, Answer

LEMMA AddStreaming ==
    ASSUME Handled, Streaming, AddToSeries
    PROVE  Streaming'
<1>1. /\ pc = "transform" /\ rows # <<>> /\ query.endpoint = "query_range" /\ ~ColumnsMissing
      /\ UNCHANGED <<db, pc, query, stmt, status>> /\ rows' = Tail(rows)
  BY DEF AddToSeries
<1>2. Sound(query, Len(query.layers), stmt) /\ Selected(stmt) \subseteq Point
  <2>1. db \subseteq Point
    BY PointsStored DEF Handled
  <2> QED
    BY <1>1, <2>1, PosedSound DEF Handled, Selected
<1>3. stmt.shape # "aggregate" /\ stmt.step \in Nat
  BY <1>1, <1>2 DEF ColumnsMissing, Columns, Sound
<1> DEFINE row == Head(rows)
<1> DEFINE selected == Selected(stmt)
<1>4. Distributed(selected, stmt.step, rows, series) /\ series \in Seq(Series)
  BY <1>1, <1>3 DEF Streaming
<1>5. PICK rest : rest = Tail(rows)
  OBVIOUS
<1>6. rest \in Seq(Row) /\ row \in Row /\ TrueRow(row, selected, stmt.step)
  <2> HIDE DEF selected
  <2> QED
    BY <1>1, <1>4, <1>5, TailListed DEF Distributed, Listed
<1>7. PICK key \in Keys(row) : series' = Added(key, Sample(row))
  BY DEF AddToSeries
<1>8. PICK new : new = series'
  OBVIOUS
<1>9. key \in Seq(Labels \X LabelValues) /\ ToSet(key) = LabelPairs(row)
  <2> HIDE DEF row
  <2> QED
    BY <1>6, <1>7, KeysOfRow
<1>10. PICK sample : sample = Sample(row)
  OBVIOUS
<1>11. /\ sample \in SampleType /\ sample.points = row.points
       /\ TrueSample(key, sample, selected, stmt.step)
  <2> HIDE DEF row, selected
  <2>1. selected \subseteq Point
    BY <1>2 DEF selected
  <2> QED
    BY <1>3, <1>6, <1>9, <1>10, <2>1, SampleOfRow
<1>12. new \in Seq(Series) /\ Grown(series, key, sample, new)
  <2>1. new = Added(key, sample) /\ KeysApart(series)
    BY <1>4, <1>7, <1>8, <1>10 DEF Distributed
  <2> QED
    BY <1>4, <1>9, <1>11, <2>1, AddedSeries
<1> HIDE DEF selected
<1>13. /\ Distributed(selected, stmt.step, rest, new)
       /\ Whole(selected, rows, series) => Whole(selected, rest, new)
  BY <1>1, <1>4, <1>5, <1>11, <1>12, RowPlaced
<1>14. OneLabelSet(selected, DOMAIN stmt.matchers) => Whole(selected, rows, series)
  BY <1>1 DEF Streaming, selected
<1>15. Selected(stmt)' = selected
  BY <1>1 DEF Selected, selected
<1> QED
  BY <1>1, <1>3, <1>5, <1>6, <1>8, <1>12, <1>13, <1>14, <1>15 DEF Streaming, Answered

LEMMA InstantStreaming ==
    ASSUME Handled, Streaming, AddInstant
    PROVE  Streaming'
<1>1. /\ pc = "transform" /\ rows # <<>> /\ query.endpoint = "query"
      /\ UNCHANGED <<db, pc, query, stmt, status>> /\ rows' = Tail(rows)
  BY DEF AddInstant
<1>2. Head(rows) \in Row /\ Tail(rows) \in Seq(Row)
  BY <1>1 DEF Streaming
<1>3. SetToSeq(LabelPairs(Head(rows))) \in Seq(Labels \X LabelValues)
  BY <1>2, InstantKey
<1>4. Sample(Head(rows)) \in SampleType
  <2>1. Head(rows).time \in Int /\ Head(rows).points \subseteq Point
    BY <1>2 DEF Row
  <2>2. ToUnixSeconds(Head(rows).time) \in Int
    BY <2>1, UnixSecondsHold
  <2> QED
    BY <2>1, <2>2 DEF Sample, SampleType
<1>5. [key |-> SetToSeq(LabelPairs(Head(rows))), samples |-> <<Sample(Head(rows))>>] \in Series
  BY <1>3, <1>4 DEF Series, SampleType
<1>6. series' \in Seq(Series)
  BY <1>5 DEF AddInstant, Streaming
<1> QED
  BY <1>1, <1>2, <1>6 DEF Streaming, Answered

LEMMA StreamingStep ==
    ASSUME Handled, Streaming, [Next]_vars
    PROVE  Streaming'
<1>1. CASE TranslateQuery
  BY <1>1 DEF TranslateQuery, Answer, Streaming, Answered
<1>2. CASE Refuse \/ Panic \/ Outage \/ RefuseColumns
  BY <1>2 DEF Refuse, Panic, Outage, RefuseColumns, Answer, Streaming, Answered
<1>3. CASE Respond
  <2>1. /\ pc = "transform" /\ pc' = "done" /\ status' = "success" /\ rows = <<>>
        /\ UNCHANGED <<db, query, stmt, rows, series>>
    BY <1>3 DEF Respond, Answer
  <2>2. Selected(stmt)' = Selected(stmt)
    BY <2>1 DEF Selected
  <2> QED
    BY <2>1, <2>2 DEF Streaming, Answered
<1>4. CASE UNCHANGED vars
  <2>1. Selected(stmt)' = Selected(stmt)
    BY <1>4 DEF vars, Selected
  <2> QED
    BY <1>4, <2>1 DEF vars, Streaming, Answered
<1> QED
  BY <1>1, <1>2, <1>3, <1>4, ExecuteStreaming, AddStreaming, InstantStreaming DEF Next

-----------------------------------------------------------------------------
(* What follows for answered range queries.                                  *)

LEMMA MatcherFinds ==
    ASSUME NEW m \in Matcher
    PROVE  /\ m.text = "same" => m.found = m.sought
           /\ m.text = "wider" => m.sought \subseteq m.found
           /\ m.op = "=" => \E value : m.sought = {value}
  BY DEF Matcher, FoundByClickHouse

\* Points that ClickHouse finds were asked for, if no text finds too much, and
\* those asked for are found, if none finds anything else.
LEMMA MatchesAsked ==
    ASSUME query \in PromQuery, NEW point
    PROVE  LET matchers == query.layers[1].matchers
               Fits == \A name \in DOMAIN matchers :
                          point.labels[name] \in matchers[name].sought <=> Asks(matchers[name])
           IN  /\ WiderExclude /\ Matches(point, matchers) => Fits
               /\ OneSeries /\ Fits => Matches(point, matchers)
<1> DEFINE matchers == query.layers[1].matchers
<1>1. \A name \in DOMAIN matchers :
         /\ matchers[name].text = "same" => matchers[name].found = matchers[name].sought
         /\ matchers[name].text = "wider" => matchers[name].sought \subseteq matchers[name].found
  BY MatchersOfQuery, MatcherFinds
<1>2. WiderExclude => \A name \in DOMAIN matchers :
         matchers[name].text = "same" \/ (matchers[name].text = "wider" /\ ~Asks(matchers[name]))
  BY DEF WiderExclude
<1>3. OneSeries => \A name \in DOMAIN matchers : matchers[name].text = "same"
  BY DEF OneSeries
<1> HIDE DEF matchers
<1>4. /\ WiderExclude /\ Matches(point, matchers) =>
            \A name \in DOMAIN matchers :
               point.labels[name] \in matchers[name].sought <=> Asks(matchers[name])
      /\ OneSeries /\ (\A name \in DOMAIN matchers :
                         point.labels[name] \in matchers[name].sought <=> Asks(matchers[name]))
            => Matches(point, matchers)
  BY <1>1, <1>2, <1>3 DEF Matches
<1> QED
  BY <1>4 DEF matchers

LEMMA SelectedWithin ==
    ASSUME Handled, Answered, query.endpoint = "query_range"
    PROVE  /\ Sound(query, Len(query.layers), stmt)
           /\ WiderExclude => Selected(stmt) \subseteq Asked
           /\ \A point \in Selected(stmt) : /\ point.tenant = Tenant
                                           /\ point.time \in query.start .. query.end
           /\ OneSeries /\ "compare" \notin Kinds => Selected(stmt) = Asked
<1>1. Sound(query, Len(query.layers), stmt)
  BY PosedSound DEF Handled
<1>2. stmt.matchers = query.layers[1].matchers /\ stmt.from = query.start /\ stmt.to = query.end
  BY <1>1 DEF Sound
<1>0. query \in PromQuery
  BY QueryTyped DEF Handled
<1>3. WiderExclude => Selected(stmt) \subseteq Asked
  <2> SUFFICES ASSUME WiderExclude, NEW point \in Selected(stmt)
               PROVE  point \in Asked
    OBVIOUS
  <2>1. Matches(point, query.layers[1].matchers)
    BY <1>2 DEF Selected
  <2> QED
    BY <1>0, <1>2, <2>1, MatchesAsked DEF Selected, Asked
<1>5. \A point \in Selected(stmt) : /\ point.tenant = Tenant
                                   /\ point.time \in query.start .. query.end
  BY <1>2 DEF Selected
<1>4. ASSUME OneSeries, "compare" \notin Kinds
      PROVE  Selected(stmt) = Asked
  <2>1. query.layers \in Seq(Layer)
    BY QueryTyped, MatchersOfQuery DEF Handled
  <2>2. ~Comparing(query, Len(query.layers))
    <3>1. \A k \in 1 .. Len(query.layers) : k \in DOMAIN query.layers
      BY <2>1
    <3> QED
      BY <1>4, <3>1 DEF Comparing, Kinds
  <2>3. stmt.admits = Values
    BY <1>1, <2>2 DEF Sound
  <2>4. \A point \in db : point.value \in Values
    BY PointsStored, PointsTyped DEF Handled
  <2>5. WiderExclude
    BY <1>4 DEF OneSeries, WiderExclude
  <2>6. ASSUME NEW point \in Asked
        PROVE  point \in Selected(stmt)
    <3>1. Matches(point, query.layers[1].matchers)
      BY <1>0, <1>4, MatchesAsked DEF Asked
    <3> QED
      BY <1>2, <2>3, <2>4, <3>1 DEF Selected, Asked
  <2> QED
    BY <1>3, <2>5, <2>6
<1> QED
  BY <1>1, <1>3, <1>4, <1>5

\* The selector of one series has one label set.
LEMMA OneSeriesOneSet ==
    ASSUME Handled, OneSeries
    PROVE  OneLabelSet(Asked, DOMAIN query.layers[1].matchers)
<1> DEFINE matchers == query.layers[1].matchers
<1> SUFFICES ASSUME NEW one \in Asked, NEW other \in Asked
             PROVE  Restrict(one.labels, DOMAIN matchers) = Restrict(other.labels, DOMAIN matchers)
  BY DEF OneLabelSet
<1>1. \A name \in DOMAIN matchers : one.labels[name] = other.labels[name]
  <2> SUFFICES ASSUME NEW name \in DOMAIN matchers
               PROVE  one.labels[name] = other.labels[name]
    OBVIOUS
  <2>1. matchers[name] \in Matcher /\ matchers[name].op = "="
    BY QueryTyped, MatchersOfQuery DEF Handled, OneSeries
  <2>2. PICK value : matchers[name].sought = {value}
    BY <2>1, MatcherFinds
  <2>3. one.labels[name] \in matchers[name].sought /\ other.labels[name] \in matchers[name].sought
    BY <2>1 DEF Asked, Asks
  <2> QED
    BY <2>2, <2>3
<1> HIDE DEF matchers
<1> QED
  BY <1>1 DEF Restrict

LEMMA SamplesAre ==
    ASSUME NEW at \in Samples
    PROVE  /\ at = <<at[1], at[2]>> /\ at[1] \in DOMAIN series
           /\ at[2] \in DOMAIN series[at[1]].samples
           /\ SampleAt(at) = series[at[1]].samples[at[2]]
  BY DEF Samples, SampleAt

LEMMA SampleBehind ==
    ASSUME NEW point
    PROVE  Behind(series, point) <=> point \in UNION {SampleAt(at).points : at \in Samples}
<1>1. ASSUME Behind(series, point)
      PROVE  point \in UNION {SampleAt(at).points : at \in Samples}
  <2>1. PICK k \in DOMAIN series : \E i \in DOMAIN series[k].samples :
           point \in series[k].samples[i].points
    BY <1>1 DEF Behind
  <2>2. PICK i \in DOMAIN series[k].samples : point \in series[k].samples[i].points
    BY <2>1
  <2>3. <<k, i>> \in Samples /\ SampleAt(<<k, i>>) = series[k].samples[i]
    BY DEF Samples, SampleAt
  <2> QED
    BY <2>2, <2>3
<1>2. ASSUME point \in UNION {SampleAt(at).points : at \in Samples}
      PROVE  Behind(series, point)
  <2>1. PICK at \in Samples : point \in SampleAt(at).points
    BY <1>2
  <2> QED
    BY <2>1, SamplesAre DEF Behind
<1> QED
  BY <1>1, <1>2

LEMMA AnsweredWhole ==
    ASSUME Handled, Streaming, Answered, query.endpoint = "query_range"
    PROVE  /\ series # <<>> => Distributed(Selected(stmt), stmt.step, rows, series)
           /\ OneLabelSet(Selected(stmt), DOMAIN stmt.matchers) =>
                 \A point \in Selected(stmt) : Behind(series, point)
<1>1. series # <<>> => Distributed(Selected(stmt), stmt.step, rows, series)
  BY DEF Streaming
<1>2. PointsOf(ToSet(rows)) = {}
  <2>1. rows = <<>>
    BY DEF Streaming
  <2> QED
    BY <2>1, EmptyTyped DEF PointsOf, ToSet
<1>3. OneLabelSet(Selected(stmt), DOMAIN stmt.matchers) => Whole(Selected(stmt), rows, series)
  BY DEF Streaming
<1> QED
  BY <1>1, <1>2, <1>3 DEF Whole

LEMMA NoSamples == series = <<>> => Samples = {}
  BY EmptyTyped DEF Samples

\* SamplesTrue.
LEMMA AnsweredTrue ==
    ASSUME Handled, Streaming
    PROVE  SamplesTrue
<1> SUFFICES ASSUME Answered, query.endpoint = "query_range",
                    NEW at \in Samples, NEW point \in SampleAt(at).points
             PROVE  /\ WiderExclude => point \in Asked
                    /\ point.tenant = Tenant /\ point.time \in query.start .. query.end
                    /\ \A pair \in ToSet(series[at[1]].key) : point.labels[pair[1]] = pair[2]
                    /\ SampleAt(at).time * Second <= point.time
                    /\ point.time < (SampleAt(at).time + 1) * Second + stmt.step
  BY DEF SamplesTrue
<1>1. Distributed(Selected(stmt), stmt.step, rows, series)
  BY NoSamples, AnsweredWhole
<1>2. TrueSample(series[at[1]].key, SampleAt(at), Selected(stmt), stmt.step)
  BY <1>1, SamplesAre DEF Distributed
<1> QED
  BY <1>2, SelectedWithin DEF TrueSample

\* CountedOnce.
LEMMA AnsweredOnce ==
    ASSUME Handled, Streaming
    PROVE  CountedOnce
<1> SUFFICES ASSUME Answered, query.endpoint = "query_range"
             PROVE  /\ \A at1, at2 \in Samples :
                          at1 # at2 => SampleAt(at1).points \cap SampleAt(at2).points = {}
                    /\ OneSeries /\ "compare" \notin Kinds =>
                          UNION {SampleAt(at).points : at \in Samples} = Asked
  BY DEF CountedOnce
<1>1. ASSUME NEW at1 \in Samples, NEW at2 \in Samples, at1 # at2
      PROVE  SampleAt(at1).points \cap SampleAt(at2).points = {}
  <2>1. Distributed(Selected(stmt), stmt.step, rows, series)
    BY NoSamples, AnsweredWhole
  <2>2. at1[1] # at2[1] \/ at1[2] # at2[2]
    BY <1>1, SamplesAre
  <2>3. /\ at1[1] \in DOMAIN series /\ at1[2] \in DOMAIN series[at1[1]].samples
        /\ at2[1] \in DOMAIN series /\ at2[2] \in DOMAIN series[at2[1]].samples
        /\ SampleAt(at1) = series[at1[1]].samples[at1[2]]
        /\ SampleAt(at2) = series[at2[1]].samples[at2[2]]
    BY SamplesAre
  <2> QED
    BY <2>1, <2>2, <2>3 DEF Distributed
<1>2. ASSUME OneSeries, "compare" \notin Kinds
      PROVE  UNION {SampleAt(at).points : at \in Samples} = Asked
  <2>1. Selected(stmt) = Asked /\ stmt.matchers = query.layers[1].matchers
    BY <1>2, SelectedWithin DEF Sound
  <2>2. OneLabelSet(Selected(stmt), DOMAIN stmt.matchers)
    BY <1>2, <2>1, OneSeriesOneSet
  <2>3. \A point \in Asked : Behind(series, point)
    BY <2>1, <2>2, AnsweredWhole
  <2>4. \A point : Behind(series, point) => point \in Asked
    <3> SUFFICES ASSUME NEW point, Behind(series, point)
                 PROVE  point \in Asked
      OBVIOUS
    <3>1. series # <<>>
      BY EmptyTyped DEF Behind
    <3>2. Distributed(Selected(stmt), stmt.step, rows, series)
      BY <3>1, AnsweredWhole
    <3> QED
      BY <2>1, <3>2 DEF Behind, Distributed, TrueSample
  <2> QED
    BY <2>3, <2>4, SampleBehind
<1> QED
  BY <1>1, <1>2

\* SupportedAnswered.
LEMMA SupportedNotRefused ==
    ASSUME Handled
    PROVE  SupportedAnswered
  BY DEF SupportedAnswered, Handled

-----------------------------------------------------------------------------
(* The theorems.                                                             *)

IInv == Handled /\ Streaming

LEMMA Inductive == Spec => []IInv
<1>1. Init => IInv
  BY HandledInit, StreamingInit DEF IInv
<1>2. IInv /\ [Next]_vars => IInv'
  BY HandledStep, StreamingStep DEF IInv
<1> QED
  BY <1>1, <1>2, PTL DEF Spec

\* No point is behind two samples of an answered range query, and a query for
\* one series, by equalities whose texts are not rewritten, gets every point of
\* its range, however the range lies to the step: the LIMIT of
\* TranslateVectorSelector cuts no bucket off (promql/translator.go,
\* TransformToPrometheusMatrix).
THEOREM PointsCountOnce == Spec => []CountedOnce
<1>1. IInv => CountedOnce
  BY AnsweredOnce DEF IInv
<1> QED
  BY <1>1, Inductive, PTL

\* The points behind a sample belong to the tenant and the range, have the
\* labels of the series and fall into the step that begins at the sample
\* (TransformToPrometheusMatrix).  They were asked for, if no text was rewritten
\* and ClickHouse finds more only by those that exclude.
THEOREM SamplesAreTrue == Spec => []SamplesTrue
<1>1. IInv => SamplesTrue
  BY AnsweredTrue DEF IInv
<1> QED
  BY <1>1, Inductive, PTL

\* A supported query, which asks for a metric by its name as it is and does not
\* group by it, fails only when ClickHouse does (handlePrometheusQuery).
THEOREM SupportedQueries == Spec => []SupportedAnswered
<1>1. IInv => SupportedAnswered
  BY SupportedNotRefused DEF IInv
<1> QED
  BY <1>1, Inductive, PTL

\* The types of all that the handler holds.
THEOREM TypeCorrect == Spec => []TypeOK
<1>1. IInv => TypeOK
  <2> SUFFICES ASSUME Handled, Streaming
               PROVE  TypeOK
    BY DEF IInv
  <2>1. db \subseteq Point /\ query \in PromQuery
    BY PointsStored, QueryTyped DEF Handled
  <2>2. stmt.step \in Nat /\ stmt.limit \in Nat /\ stmt.shown \subseteq Labels
    <3>1. CASE stmt = NoStatement
      BY <3>1 DEF NoStatement
    <3>2. CASE Posed
      BY <3>2, PosedSound DEF Sound
    <3> QED
      BY <3>1, <3>2 DEF Handled
  <2> QED
    BY <2>1, <2>2 DEF TypeOK, Handled, Streaming
<1> QED
  BY <1>1, Inductive, PTL
=============================================================================
