--------------------------- MODULE OqlParserProofs --------------------------
(***************************************************************************)
(* The parser, for every text: its cursor stays within the text, every     *)
(* operation that is read moves it on, and what is appended to a text that *)
(* was accepted changes nothing of how the text before it reads.           *)
(***************************************************************************)
EXTENDS OqlParser, SequenceTheorems, WellFoundedInduction, TLAPS

\* The least of a non-empty set of positions is one of them.
LEMMA LeastPosition ==
    ASSUME NEW n \in Nat, NEW S \in SUBSET (1 .. n), S # {}
    PROVE  Min(S) \in S /\ \A i \in S : Min(S) <= i
<1>1. S \subseteq Nat
  OBVIOUS
<1>2. PICK x \in S : \A y \in S : ~(<<y, x>> \in OpToRel(<, Nat))
  BY <1>1, NatLessThanWellFounded, WFMin, Zenon
<1>3. \A y \in S : ~(y < x)
  BY <1>1, <1>2 DEF OpToRel
<1>4. \A y \in S : x <= y
  BY <1>1, <1>3
<1> QED BY <1>4, Zenon DEF Min

\* So is the greatest.
LEMMA GreatestPosition ==
    ASSUME NEW n \in Nat, NEW S \in SUBSET (1 .. n), S # {}
    PROVE  Max(S) \in S /\ \A i \in S : Max(S) >= i
<1> DEFINE T == {n + 1 - i : i \in S}
<1>1. T \subseteq Nat
  BY SMT
<1>2. PICK x \in T : \A y \in T : ~(<<y, x>> \in OpToRel(<, Nat))
  <2>1. T \subseteq Nat /\ T # {}
    BY <1>1
  <2> HIDE DEF T
  <2> QED BY <2>1, NatLessThanWellFounded, WFMin, Zenon
<1>3. \A y \in T : ~(y < x)
  <2> HIDE DEF T
  <2> QED BY <1>1, <1>2 DEF OpToRel
<1>4. PICK m \in S : x = n + 1 - m
  BY <1>2
<1>5. \A i \in S : m >= i
  <2> SUFFICES ASSUME NEW i \in S PROVE m >= i
    OBVIOUS
  <2>1. n + 1 - i \in T
    OBVIOUS
  <2>2. ~(n + 1 - i < n + 1 - m)
    BY <1>3, <1>4, <2>1
  <2> HIDE DEF T
  <2> QED BY <2>2
<1> QED BY <1>4, <1>5, Zenon DEF Max

\* Trimming a text leaves a text.
LEMMA TrimText ==
    ASSUME NEW s \in Signs
    PROVE  Trim[s] \in Signs
<1> DEFINE kept == {i \in DOMAIN s : s[i] \notin Spaces}
<1>1. Trim[s] = IF kept = {} THEN <<>> ELSE SubSeq(s, Min(kept), Max(kept))
  BY DEF Trim
<1>2. kept \in SUBSET (1 .. Len(s)) /\ Len(s) \in Nat
  BY DEF Signs
<1>3. CASE kept = {}
  BY <1>1, <1>3 DEF Signs
<1>4. CASE kept # {}
  <2>1. Min(kept) \in 1 .. Len(s) /\ Max(kept) \in 1 .. Len(s) /\ Min(kept) <= Max(kept)
    <3> HIDE DEF kept
    <3>1. Max(kept) \in kept
      BY <1>2, <1>4, GreatestPosition
    <3>2. Min(kept) \in kept /\ Min(kept) <= Max(kept)
      BY <1>2, <1>4, <3>1, LeastPosition
    <3> QED BY <1>2, <3>1, <3>2
  <2>2. s \in Seq(Words)
    BY DEF Signs
  <2>3. SubSeq(s, Min(kept), Max(kept)) \in Seq(Words)
    <3> HIDE DEF kept
    <3> DEFINE low == Min(kept)
               high == Max(kept)
    <3>1. low \in 1 .. Len(s) /\ high \in low .. Len(s)
      BY <2>1, <2>2
    <3> HIDE DEF low, high
    <3>2. SubSeq(s, low, high) \in Seq(Words)
      BY <2>2, <3>1, SubSeqProperties
    <3> QED BY <3>2 DEF low, high
  <2> QED BY <1>1, <1>4, <2>3 DEF Signs
<1> QED BY <1>3, <1>4

LEMMA SignsOf ==
    ASSUME NEW s \in Signs
    PROVE  /\ s \in Seq(Words) /\ Len(s) \in Nat /\ DOMAIN s = 1 .. Len(s)
           /\ \A i \in 1 .. Len(s) : s[i] \in Words
           /\ Past(s) = Len(s) + 1
  BY LenProperties, ElementOfSeq DEF Signs, Past

\* What the code's loops return: the first of the positions, none before the
\* one they started from, or the end of the text.
LEMMA NextWithin ==
    ASSUME NEW s \in Signs, NEW p \in Nat, NEW S \in SUBSET (DOMAIN s)
    PROVE  /\ NextIn(s, p, S) \in 1 .. Past(s)
           /\ p <= Past(s) => NextIn(s, p, S) >= p
           /\ \/ NextIn(s, p, S) = Past(s) /\ \A q \in S : q < p
              \/ /\ NextIn(s, p, S) \in S /\ NextIn(s, p, S) >= p
                 /\ \A q \in S : q >= p => NextIn(s, p, S) <= q
<1> DEFINE ahead == {q \in S : q >= p}
<1>1. Len(s) \in Nat /\ DOMAIN s = 1 .. Len(s) /\ Past(s) = Len(s) + 1
  BY SignsOf
<1>2. CASE ahead = {}
  BY <1>1, <1>2 DEF NextIn
<1>3. CASE ahead # {}
  <2>1. ahead \in SUBSET (1 .. Len(s))
    BY <1>1
  <2>2. Min(ahead) \in ahead /\ \A q \in ahead : Min(ahead) <= q
    <3> HIDE DEF ahead
    <3> QED BY <1>1, <1>3, <2>1, LeastPosition
  <2>3. NextIn(s, p, S) = Min(ahead)
    BY <1>3 DEF NextIn
  <2> QED BY <1>1, <2>1, <2>2, <2>3
<1> QED BY <1>2, <1>3

\* The first of the positions is told by what it is.
LEMMA NextIs ==
    ASSUME NEW s \in Signs, NEW p \in Nat, NEW S \in SUBSET (DOMAIN s),
           NEW n \in S, n >= p, \A q \in S : q >= p => n <= q
    PROVE  NextIn(s, p, S) = n
<1>1. Len(s) \in Nat /\ DOMAIN s = 1 .. Len(s) /\ Past(s) = Len(s) + 1
  BY SignsOf
<1> QED BY <1>1, NextWithin

\* Where the places that end something are those of s, and perhaps more behind
\* them, the first is the one of s or lies behind s.
LEMMA NextPrefix ==
    ASSUME NEW s \in Signs, NEW z \in Signs, Len(z) > Len(s),
           NEW S \in SUBSET (DOMAIN s), NEW T \in SUBSET (DOMAIN z),
           \A i \in DOMAIN s : i \in T <=> i \in S,
           NEW p \in 1 .. Past(s)
    PROVE  /\ NextIn(s, p, S) \in DOMAIN s => NextIn(z, p, T) = NextIn(s, p, S)
           /\ NextIn(s, p, S) \notin DOMAIN s =>
                 \A m \in T : m >= Past(s) /\ (\A q \in T : q >= Past(s) => m <= q)
                              => NextIn(z, p, T) = m
<1> DEFINE n == NextIn(s, p, S)
<1>1. /\ Len(s) \in Nat /\ DOMAIN s = 1 .. Len(s) /\ Past(s) = Len(s) + 1
      /\ Len(z) \in Nat /\ DOMAIN z = 1 .. Len(z)
  BY SignsOf
<1>2. /\ n \in 1 .. Past(s)
      /\ \/ n = Past(s) /\ \A q \in S : q < p
         \/ n \in S /\ n >= p /\ \A q \in S : q >= p => n <= q
  BY <1>1, NextWithin
<1> HIDE DEF n
<1>3. ASSUME n \in DOMAIN s PROVE NextIn(z, p, T) = n
  <2>1. n \in T /\ n >= p /\ \A q \in T : q >= p => n <= q
    BY <1>1, <1>2, <1>3
  <2>2. p \in Nat
    BY <1>1
  <2> QED BY <2>1, <2>2, NextIs
<1>4. ASSUME n \notin DOMAIN s, NEW m \in T, m >= Past(s), \A q \in T : q >= Past(s) => m <= q
      PROVE  NextIn(z, p, T) = m
  <2>1. \A q \in S : q < p
    BY <1>1, <1>2, <1>4
  <2>2. \A q \in T : q >= p => m <= q
    BY <1>1, <1>4, <2>1
  <2>3. p \in Nat /\ m >= p
    BY <1>1, <1>4
  <2> QED BY <2>2, <2>3, NextIs
<1> QED BY <1>3, <1>4 DEF n

\* Where they are those of u, n further on, so is the first.
LEMMA NextShift ==
    ASSUME NEW u \in Signs, NEW z \in Signs, NEW n \in Nat, Len(z) = n + Len(u),
           NEW S \in SUBSET (DOMAIN u), NEW T \in SUBSET (DOMAIN z),
           \A i \in DOMAIN u : n + i \in T <=> i \in S,
           NEW p \in 1 .. Past(u)
    PROVE  NextIn(z, n + p, T) = n + NextIn(u, p, S)
<1> DEFINE m == NextIn(u, p, S)
           l == NextIn(z, n + p, T)
<1>1. /\ Len(u) \in Nat /\ DOMAIN u = 1 .. Len(u) /\ Past(u) = Len(u) + 1
      /\ Len(z) \in Nat /\ DOMAIN z = 1 .. Len(z) /\ Past(z) = Len(z) + 1
  BY SignsOf
<1>2. /\ m \in 1 .. Past(u)
      /\ \/ m = Past(u) /\ \A q \in S : q < p
         \/ m \in S /\ m >= p /\ \A q \in S : q >= p => m <= q
  BY <1>1, NextWithin
<1>3. /\ l \in 1 .. Past(z)
      /\ \/ l = Past(z) /\ \A q \in T : q < n + p
         \/ l \in T /\ l >= n + p /\ \A q \in T : q >= n + p => l <= q
  <2>1. n + p \in Nat
    BY <1>1
  <2> QED BY <2>1, NextWithin
<1> HIDE DEF m, l
<1>4. \A q \in T : q >= n + p => q - n \in S /\ q - n >= p
  <2> SUFFICES ASSUME NEW q \in T, q >= n + p PROVE q - n \in S /\ q - n >= p
    OBVIOUS
  <2>1. q - n \in DOMAIN u /\ n + (q - n) = q /\ q - n >= p
    BY <1>1
  <2> QED BY <2>1
<1>5. \A q \in S : n + q \in T
  BY <1>1
<1>6. CASE m = Past(u) /\ \A q \in S : q < p
  <2>1. \A q \in T : q < n + p
    BY <1>1, <1>4, <1>6
  <2> QED BY <1>1, <1>3, <1>6, <2>1 DEF m, l
<1>7. CASE m \in S /\ m >= p /\ \A q \in S : q >= p => m <= q
  <2>1. n + m \in T /\ n + m >= n + p
    BY <1>1, <1>5, <1>7
  <2>2. l \in T /\ l >= n + p /\ l <= n + m
    BY <1>1, <1>3, <2>1
  <2>3. m <= l - n
    BY <1>4, <1>7, <2>2
  <2>4. l = n + m
    BY <1>1, <1>2, <1>3, <2>2, <2>3
  <2> QED BY <2>4 DEF m, l
<1> QED BY <1>2, <1>6, <1>7

LEMMA CursorWithin ==
    ASSUME NEW s \in Signs, NEW p \in Nat
    PROVE  /\ Skip(s, p) \in 1 .. Past(s) /\ (p <= Past(s) => Skip(s, p) >= p)
           /\ WordEnd(s, p) \in 1 .. Past(s) /\ (p <= Past(s) => WordEnd(s, p) >= p)
           /\ OperationEnd(s, p) \in 1 .. Past(s) /\ (p <= Past(s) => OperationEnd(s, p) >= p)
           /\ FieldEnd(s, p) \in 1 .. Past(s) /\ (p <= Past(s) => FieldEnd(s, p) >= p)
<1>1. Skip(s, p) \in 1 .. Past(s) /\ (p <= Past(s) => Skip(s, p) >= p)
  BY NextWithin DEF Skip
<1>2. WordEnd(s, p) \in 1 .. Past(s) /\ (p <= Past(s) => WordEnd(s, p) >= p)
  BY NextWithin DEF WordEnd
<1>3. OperationEnd(s, p) \in 1 .. Past(s) /\ (p <= Past(s) => OperationEnd(s, p) >= p)
  BY NextWithin DEF OperationEnd
<1>4. FieldEnd(s, p) \in 1 .. Past(s) /\ (p <= Past(s) => FieldEnd(s, p) >= p)
  BY NextWithin DEF FieldEnd
<1> QED BY <1>1, <1>2, <1>3, <1>4

\* The same, as ranges.
LEMMA CursorRanges ==
    ASSUME NEW s \in Signs, NEW p \in 1 .. Past(s)
    PROVE  /\ Skip(s, p) \in p .. Past(s) /\ WordEnd(s, p) \in p .. Past(s)
           /\ OperationEnd(s, p) \in p .. Past(s) /\ FieldEnd(s, p) \in p .. Past(s)
<1>1. Past(s) \in Nat /\ p \in Nat /\ p <= Past(s)
  BY SignsOf
<1> QED BY <1>1, CursorWithin

\* Where a word is read there is a sign to read.
LEMMA WordHere ==
    ASSUME NEW s \in Signs, NEW p \in 1 .. Past(s), Word(s, p) # <<>>
    PROVE  p \in 1 .. Len(s)
<1>1. Len(s) \in Nat /\ Past(s) = Len(s) + 1
  BY SignsOf
<1>2. SUFFICES ASSUME p = Len(s) + 1 PROVE FALSE
  BY <1>1
<1>3. WordEnd(s, p) = p
  <2>1. WordEnd(s, p) \in p .. Past(s)
    BY CursorRanges
  <2> QED BY <1>1, <1>2, <2>1
<1>4. SubSeq(s, p, p - 1) = <<>>
  BY <1>1, <1>2, SubSeqEmpty
<1> QED BY <1>3, <1>4 DEF Word, Between

\* What follows a word that was expected and found.
LEMMA BehindWord ==
    ASSUME NEW s \in Signs, NEW p \in 1 .. Past(s), Word(s, p) # <<>>
    PROVE  p + 1 \in 1 .. Past(s) /\ Skip(s, p + 1) \in p + 1 .. Past(s)
<1>1. p \in 1 .. Len(s)
  BY WordHere
<1>2. Len(s) \in Nat /\ Past(s) = Len(s) + 1
  BY SignsOf
<1>3. p + 1 \in 1 .. Past(s)
  BY <1>1, <1>2
<1> QED BY <1>3, CursorRanges

LEMMA SignHere ==
    ASSUME NEW s \in Signs, NEW p, NEW sign, SignAt(s, p, sign)
    PROVE  p \in 1 .. Len(s) /\ p + 1 \in 1 .. Past(s)
  BY SignsOf DEF SignAt

\* An operation is looked for at or after p.
LEMMA StartWithin ==
    ASSUME NEW s \in Signs, NEW p \in 1 .. Past(s)
    PROVE  Start(s, p) \in p .. Past(s)
<1>1. Skip(s, p) \in p .. Past(s)
  BY CursorRanges
<1>2. Past(s) \in Nat
  BY SignsOf
<1>3. CASE SignAt(s, Skip(s, p), "|")
  <2>1. Skip(s, p) + 1 \in 1 .. Past(s)
    BY <1>3, SignHere
  <2>2. Skip(s, Skip(s, p) + 1) \in Skip(s, p) + 1 .. Past(s)
    BY <2>1, CursorRanges
  <2> QED BY <1>1, <1>2, <1>3, <2>2 DEF Start
<1> QED BY <1>1, <1>3 DEF Start

LEMMA ArgumentWithin ==
    ASSUME NEW s \in Signs, NEW k \in DOMAIN s
    PROVE  Argument(s, k) \in k + 1 .. Past(s) /\ Argument(s, k) \in 1 .. Past(s)
<1>1. k + 1 \in 1 .. Past(s) /\ Past(s) \in Nat /\ k \in Nat
  BY SignsOf
<1>2. Skip(s, k + 1) \in k + 1 .. Past(s)
  BY <1>1, CursorRanges
<1> QED BY <1>1, <1>2 DEF Argument

-----------------------------------------------------------------------------
(* What the parse functions return.                                          *)

\* An operation and where it ends, behind the keyword and within the text.
Sound(s, k, result) ==
    result = Error \/ \E op : \E end \in k + 1 .. Past(s) : result = Returned(op, end)

LEMMA ResultsSound ==
    ASSUME NEW s \in Signs, NEW k \in DOMAIN s, WordEnd(s, k) = k + 1
    PROVE  /\ Sound(s, k, Where(s, k)) /\ Sound(s, k, Expand(s, k))
           /\ Sound(s, k, Correlate(s, k)) /\ Sound(s, k, GetExemplars(s, k))
           /\ Sound(s, k, SwitchContext(s, k)) /\ Sound(s, k, Extract(s, k))
           /\ Sound(s, k, Limit(s, k)) /\ Sound(s, k, Sort(s, k))
           /\ Sound(s, k, Aggregate(s, k)) /\ Sound(s, k, GroupBy(s, k))
           /\ Sound(s, k, Since(s, k)) /\ Sound(s, k, TimeRange(s, k))
<1> DEFINE Behind == k + 1 .. Past(s)
           from == Argument(s, k)
<1>1. k \in Nat /\ Past(s) \in Nat /\ k + 1 \in Behind /\ \A p \in Behind : p \in 1 .. Past(s)
  BY SignsOf
<1>2. from \in Behind
  BY ArgumentWithin
<1>3. ASSUME NEW p \in Behind
      PROVE  /\ Skip(s, p) \in Behind /\ WordEnd(s, p) \in Behind
             /\ OperationEnd(s, p) \in Behind /\ FieldEnd(s, p) \in Behind
  <2>1. p \in 1 .. Past(s)
    BY <1>1, <1>3
  <2>2. /\ Skip(s, p) \in p .. Past(s) /\ WordEnd(s, p) \in p .. Past(s)
        /\ OperationEnd(s, p) \in p .. Past(s) /\ FieldEnd(s, p) \in p .. Past(s)
    BY <2>1, CursorRanges
  <2> QED BY <1>1, <1>3, <2>2
<1>4. ASSUME NEW p \in Behind, p \in 1 .. Len(s)
      PROVE  p + 1 \in Behind
  BY <1>1, <1>4, SignsOf
<1>5. ASSUME NEW p \in Behind, Word(s, p) # <<>>
      PROVE  p + 1 \in Behind
  BY <1>1, <1>4, <1>5, WordHere
<1>6. ASSUME NEW p \in Behind, NEW sign, SignAt(s, p, sign)
      PROVE  p + 1 \in Behind
  BY <1>4, <1>6, SignHere
<1>7. ASSUME NEW op, NEW end \in Behind
      PROVE  Sound(s, k, Returned(op, end))
  BY <1>7, Zenon DEF Sound
<1>8. Sound(s, k, Error)
  BY DEF Sound
<1>9. OperationEnd(s, from) \in Behind /\ WordEnd(s, from) \in Behind
  BY <1>2, <1>3
<1> HIDE DEF Behind, from
<1>10. Sound(s, k, Where(s, k))
  BY <1>7, <1>8, <1>9, Zenon DEF Where, from
<1>11. Sound(s, k, Expand(s, k))
  BY <1>7, <1>8, <1>9, Zenon DEF Expand, from
<1>12. Sound(s, k, Correlate(s, k))
  BY <1>7, <1>8, <1>9, Zenon DEF Correlate, from
<1>13. Sound(s, k, GetExemplars(s, k))
  <2>1. SignAt(s, from, "(") => from + 1 \in Behind
    BY <1>2, <1>6
  <2>2. from + 1 \in Behind /\ SignAt(s, from + 1, ")") => (from + 1) + 1 \in Behind
    BY <1>6
  <2>3. (from + 1) + 1 = from + 2
    BY <1>2 DEF Behind
  <2> DEFINE end == IF SignAt(s, from, "(")
                    THEN IF SignAt(s, from + 1, ")") THEN from + 2 ELSE from + 1
                    ELSE from
  <2>4. end \in Behind
    BY <1>2, <2>1, <2>2, <2>3
  <2>5. GetExemplars(s, k) = Returned([op |-> "get_exemplars"], end)
    BY DEF GetExemplars, from
  <2> HIDE DEF end
  <2> QED BY <1>7, <2>4, <2>5, Zenon
<1>14. Sound(s, k, SwitchContext(s, k))
  <2>1. SignAt(s, from, "signal=") => OperationEnd(s, from + 1) \in Behind
    BY <1>2, <1>3, <1>6
  <2> QED BY <1>7, <1>8, <2>1, Zenon DEF SwitchContext, from
<1>15. Sound(s, k, Extract(s, k))
  <2> DEFINE as == Skip(s, WordEnd(s, from))
  <2>1. as \in Behind
    BY <1>3, <1>9
  <2>2. Word(s, as) = <<"as">> => WordEnd(s, Skip(s, as + 1)) \in Behind
    <3> HIDE DEF as
    <3>1. <<"as">> # <<>>
      OBVIOUS
    <3> QED BY <1>3, <1>5, <2>1, <3>1, Zenon
  <2> QED BY <1>7, <1>8, <2>2, Zenon DEF Extract, from
<1>16. Sound(s, k, Limit(s, k))
  BY <1>7, <1>8, <1>9, Zenon DEF Limit, from
<1>17. Sound(s, k, Sort(s, k))
  BY <1>7, <1>8, <1>9, Zenon DEF Sort, from
<1>18. Sound(s, k, Aggregate(s, k))
  <2> DEFINE name == IF s[k] = "aggregate" THEN from ELSE k
             open == Skip(s, WordEnd(s, name))
             called == SignAt(s, open, "(")
             close == FieldEnd(s, open + 1)
             after == IF ~called THEN open ELSE IF SignAt(s, close, ")") THEN close + 1 ELSE close
             as == Skip(s, after)
             named == Word(s, as) = <<"as">>
             alias == Skip(s, as + 1)
  <2>1. WordEnd(s, name) \in Behind
    BY <1>1, <1>9
  <2> HIDE DEF name
  <2>2. open \in Behind
    BY <1>3, <2>1
  <2> HIDE DEF open
  <2>3. called => close \in Behind
    BY <1>3, <1>6, <2>2
  <2> HIDE DEF close
  <2>4. after \in Behind
    BY <1>6, <2>2, <2>3
  <2> HIDE DEF after
  <2>5. as \in Behind
    BY <1>3, <2>4
  <2> HIDE DEF as
  <2>6. named => WordEnd(s, alias) \in Behind
    <3>1. <<"as">> # <<>>
      OBVIOUS
    <3> QED BY <1>3, <1>5, <2>5, <3>1, Zenon
  <2>7. (IF named THEN WordEnd(s, alias) ELSE as) \in Behind
    BY <2>5, <2>6
  <2>8. \E op : Aggregate(s, k) = Returned(op, IF named THEN WordEnd(s, alias) ELSE as)
    BY Zenon DEF Aggregate, name, open, close, after, as, from
  <2> QED BY <1>7, <2>7, <2>8, Zenon
<1>19. Sound(s, k, GroupBy(s, k))
  <2>1. Word(s, from) = <<"by">> => OperationEnd(s, Skip(s, from + 1)) \in Behind
    <3>1. <<"by">> # <<>>
      OBVIOUS
    <3> QED BY <1>2, <1>3, <1>5, <3>1, Zenon
  <2> QED BY <1>7, <1>8, <2>1, Zenon DEF GroupBy, from
<1>20. Sound(s, k, Since(s, k))
  BY <1>7, <1>9, Zenon DEF Since, from
<1>21. Sound(s, k, TimeRange(s, k))
  <2> DEFINE and == Skip(s, WordEnd(s, from))
  <2>1. and \in Behind
    BY <1>3, <1>9
  <2>2. Word(s, and) = <<"and">> => WordEnd(s, Skip(s, and + 1)) \in Behind
    <3> HIDE DEF and
    <3>1. <<"and">> # <<>>
      OBVIOUS
    <3> QED BY <1>3, <1>5, <2>1, <3>1, Zenon
  <2> QED BY <1>7, <1>8, <2>2, Zenon DEF TimeRange, from
<1> QED BY <1>10, <1>11, <1>12, <1>13, <1>14, <1>15, <1>16, <1>17, <1>18, <1>19, <1>20, <1>21

\* What stands at k, and what its parse function returns.
Read(s, k, result) ==
    \/ KeywordAt(s, k, {"where", "filter"}) /\ result = Where(s, k)
    \/ KeywordAt(s, k, {"expand"}) /\ result = Expand(s, k)
    \/ KeywordAt(s, k, {"correlate"}) /\ result = Correlate(s, k)
    \/ KeywordAt(s, k, {"get_exemplars"}) /\ result = GetExemplars(s, k)
    \/ KeywordAt(s, k, {"switch_context"}) /\ result = SwitchContext(s, k)
    \/ KeywordAt(s, k, {"extract"}) /\ result = Extract(s, k)
    \/ KeywordAt(s, k, {"limit"}) /\ result = Limit(s, k)
    \/ KeywordAt(s, k, {"sort"}) /\ result = Sort(s, k)
    \/ KeywordAt(s, k, AggregateWords) /\ result = Aggregate(s, k)
    \/ KeywordAt(s, k, {"group"}) /\ result = GroupBy(s, k)
    \/ KeywordAt(s, k, {"since"}) /\ result = Since(s, k)
    \/ KeywordAt(s, k, {"between"}) /\ result = TimeRange(s, k)

LEMMA ReadSound ==
    ASSUME NEW s \in Signs, NEW k, NEW result, Read(s, k, result)
    PROVE  k \in DOMAIN s /\ Sound(s, k, result)
<1>1. k \in DOMAIN s /\ WordEnd(s, k) = k + 1
  BY Zenon DEF Read, KeywordAt
<1> QED BY <1>1, ResultsSound, Zenon DEF Read

\* A keyword has one parse function.
LEMMA ReadOnce ==
    ASSUME NEW s, NEW k, NEW r1, NEW r2, Read(s, k, r1), Read(s, k, r2)
    PROVE  r1 = r2
  BY DEF Read, KeywordAt, AggregateWords

\* The parse functions are called as Read says, and no other keyword is known.
LEMMA OperationReads ==
    ASSUME ParseOperation
    PROVE  /\ status = "reading" /\ signal # "unread"
           /\ \/ \E result : Read(text, Here, result) /\ Take(result)
              \/ Here <= Len(text) /\ ~KeywordAt(text, Here, Keywords) /\ Refuse
<1>1. CASE UnknownOperation
  BY <1>1 DEF UnknownOperation
<1>2. CASE ParseWhere \/ ParseExpand \/ ParseCorrelate \/ ParseGetExemplars
  BY <1>2, Zenon DEF ParseWhere, ParseExpand, ParseCorrelate, ParseGetExemplars, At, Read
<1>3. CASE ParseSwitchContext \/ ParseExtract \/ ParseLimit \/ ParseSort
  BY <1>3, Zenon DEF ParseSwitchContext, ParseExtract, ParseLimit, ParseSort, At, Read
<1>4. CASE ParseAggregate \/ ParseGroupBy \/ ParseSince \/ ParseBetween
  BY <1>4, Zenon DEF ParseAggregate, ParseGroupBy, ParseSince, ParseBetween, At, Read
<1> QED BY <1>1, <1>2, <1>3, <1>4 DEF ParseOperation

LEMMA ReadKeyword ==
    ASSUME NEW s, NEW k, NEW result, Read(s, k, result)
    PROVE  KeywordAt(s, k, Keywords)
  BY DEF Read, KeywordAt, Keywords, AggregateWords

-----------------------------------------------------------------------------
(* The cursor.                                                               *)

\* What the parser is at: a text, and nothing of it read before its signal.
IInv ==
    /\ text \in Signs
    /\ WithinText
    /\ signal = "unread" => pos = 1

\* The texts that are parsed.
LEMMA TextsParsed ==
    /\ \A line \in Texts : line.text \in Signs /\ Trim[line.text] \in Signs
    /\ \A s \in Signs : \A r \in Refinements :
          /\ r.text \in Signs
          /\ <<" ", "|", " ">> \in Signs
          /\ s \o <<" ", "|", " ">> \o r.text \in Signs
          /\ Trim[s \o <<" ", "|", " ">> \o r.text] \in Signs
<1>1. \A line \in Texts : line.text \in Signs
  BY ParserAssumption, Zenon DEF Signs
<1>2. \A r \in Refinements : r.text \in Signs
  BY ParserAssumption, Zenon DEF Signs
<1>3. " " \in Words /\ "|" \in Words
  BY ParserAssumption
<1>4. <<" ", "|", " ">> \in Signs
  <2> DEFINE a == " "
             b == "|"
  <2>1. a \in Words /\ b \in Words
    BY <1>3
  <2> HIDE DEF a, b
  <2>2. <<a, b, a>> \in Seq(Words)
    BY <2>1
  <2> QED BY <2>2 DEF a, b, Signs
<1>5. \A s \in Signs : \A r \in Refinements : s \o <<" ", "|", " ">> \o r.text \in Signs
  BY <1>2, <1>4, ConcatProperties DEF Signs
<1> QED BY <1>1, <1>2, <1>4, <1>5, TrimText

LEMMA InitInv == Init => IInv
<1> SUFFICES ASSUME NEW line \in Texts, text = Trim[line.text], pos = 1, signal = "unread"
             PROVE  IInv
  BY DEF Init
<1>1. text \in Signs
  BY TextsParsed
<1> QED BY <1>1, SignsOf DEF IInv, WithinText

\* An operation that is taken moves pos on, within the text.
LEMMA OperationAdvances ==
    ASSUME IInv, ParseOperation, status' = "reading"
    PROVE  /\ pos' \in pos + 1 .. Past(text)
           /\ UNCHANGED <<text, signal, meant, refined>> /\ signal # "unread"
           /\ \E op : Read(text, Here, Returned(op, pos')) /\ ops' = Append(ops, op)
<1>1. status = "reading" /\ signal # "unread"
  BY OperationReads
<1>2. ~Refuse
  BY <1>1 DEF Refuse
<1>3. PICK result : Read(text, Here, result) /\ Take(result)
  BY <1>2, OperationReads
<1>4. result # Error /\ Accept(result.op, result.end)
  BY <1>2, <1>3 DEF Take
<1>5. text \in Signs /\ pos \in 1 .. Past(text) /\ Past(text) \in Nat
  BY SignsOf DEF IInv, WithinText
<1>6. PICK op : \E end \in Here + 1 .. Past(text) : result = Returned(op, end)
  <2>1. Sound(text, Here, result)
    BY <1>3, <1>5, ReadSound
  <2> QED BY <1>4, <2>1, Zenon DEF Sound
<1>11. PICK end \in Here + 1 .. Past(text) : result = Returned(op, end)
  BY <1>6
<1>7. result.op = op /\ result.end = end
  BY <1>11 DEF Returned
<1>8. Here \in pos .. Past(text)
  BY <1>5, StartWithin DEF Here
<1>9. pos' = end /\ ops' = Append(ops, op) /\ UNCHANGED <<text, signal, meant, refined>>
  BY <1>4, <1>7 DEF Accept
<1>10. pos' \in pos + 1 .. Past(text)
  BY <1>5, <1>8, <1>9
<1> QED BY <1>1, <1>3, <1>11, <1>9, <1>10

\* The signal is read from behind "signal=".
LEMMA SignalAdvances ==
    ASSUME IInv, ReadSignal, status' = "reading"
    PROVE  /\ pos' \in pos + 1 .. Past(text) /\ UNCHANGED <<text, ops, meant, refined>>
           /\ signal = "unread" /\ signal' # "unread"
           /\ SignAt(text, 1, "signal=") /\ IsSignal(Rest(text, 2)) /\ pos' = OperationEnd(text, 2)
<1>1. text \in Signs /\ Past(text) \in Nat
  BY SignsOf DEF IInv
<1>2. status = "reading" /\ signal = "unread" /\ pos = 1
  BY DEF ReadSignal, IInv
<1>3. ~Refuse
  BY <1>2 DEF Refuse
<1>4. /\ SignAt(text, 1, "signal=") /\ IsSignal(Rest(text, 2))
      /\ signal' = SignalNames[Rest(text, 2)[1]]
      /\ pos' = OperationEnd(text, 2)
      /\ UNCHANGED <<text, ops, status, meant, refined>>
  BY <1>3, Zenon DEF ReadSignal
<1>5. 2 \in 1 .. Past(text)
  BY <1>1, <1>4, SignHere
<1>6. OperationEnd(text, 2) \in 2 .. Past(text)
  BY <1>1, <1>5, CursorRanges
<1>7. \A n \in DOMAIN SignalNames : SignalNames[n] # "unread"
  BY DEF SignalNames
<1>8. signal' # "unread"
  BY <1>4, <1>7 DEF IsSignal
<1> QED BY <1>2, <1>4, <1>6, <1>8

\* What ends the parse refuses the text or has come to its end.
LEMMA ParseEnds ==
    ASSUME Parse, status' # "reading"
    PROVE  Refuse \/ Finish
<1>1. CASE ReadSignal
  BY <1>1, Zenon DEF ReadSignal
<1>2. CASE ParseOperation
  <2>1. status = "reading"
    BY <1>2, OperationReads
  <2>2. Refuse \/ \E result : Take(result)
    BY <1>2, OperationReads
  <2> QED BY <2>1, <2>2 DEF Take, Accept
<1> QED BY <1>1, <1>2 DEF Parse

\* The invariant is inductive.
LEMMA StepInv == IInv /\ [Next]_vars => IInv'
<1> SUFFICES ASSUME IInv, [Next]_vars PROVE IInv'
  OBVIOUS
<1>1. /\ pos \in 1 .. Past(text) /\ text \in Signs /\ Len(text) \in Nat
      /\ Past(text) = Len(text) + 1
  BY SignsOf DEF IInv, WithinText
<1>2. ASSUME UNCHANGED <<text, signal, pos>> PROVE IInv'
  BY <1>2 DEF IInv, WithinText, Past
<1>3. ASSUME UNCHANGED text, pos' \in pos + 1 .. Past(text), signal' # "unread" PROVE IInv'
  <2>1. Past(text)' = Past(text) /\ pos' \in 1 .. Past(text)
    BY <1>1, <1>3 DEF Past
  <2> QED BY <1>1, <1>3, <2>1 DEF IInv, WithinText
<1>4. CASE Parse /\ status' = "reading"
  <2>1. CASE ReadSignal
    BY <1>3, <1>4, <2>1, SignalAdvances
  <2>2. CASE ParseOperation
    BY <1>3, <1>4, <2>2, OperationAdvances
  <2>3. CASE Finish
    BY <1>4, <2>3 DEF Finish
  <2> QED BY <1>4, <2>1, <2>2, <2>3 DEF Parse
<1>5. CASE Finish
  <2>1. Here \in pos .. Past(text)
    BY <1>1, StartWithin DEF Here
  <2>2. pos' = Here /\ UNCHANGED <<text, signal>> /\ signal # "unread"
    BY <1>5 DEF Finish
  <2>3. pos' \in 1 .. Past(text) /\ Past(text)' = Past(text)
    BY <1>1, <2>1, <2>2 DEF Past
  <2> QED BY <1>1, <2>2, <2>3 DEF IInv, WithinText
<1>6. CASE Refine
  <2>1. PICK r \in Refinements : text' = Trim[text \o <<" ", "|", " ">> \o r.text]
    BY <1>6 DEF Refine
  <2>2. text' \in Signs
    BY <1>1, <2>1, TextsParsed
  <2>3. Len(text') \in Nat
    BY <2>2, SignsOf
  <2>4. pos' = 1 /\ signal' = "unread"
    BY <1>6 DEF Refine
  <2> QED BY <2>2, <2>3, <2>4 DEF IInv, WithinText, Past
<1>7. CASE Refuse
  BY <1>2, <1>7 DEF Refuse
<1>8. CASE UNCHANGED vars
  BY <1>2, <1>8 DEF vars
<1> QED BY <1>4, <1>5, <1>6, <1>7, <1>8, ParseEnds DEF Next

\* For every text over any words: the cursor never leaves the text, so no slice
\* the parser takes is out of range.
THEOREM NoSliceOutOfRange == Spec => []WithinText
<1>1. IInv => WithinText
  BY DEF IInv
<1> QED BY <1>1, InitInv, StepInv, PTL DEF Spec

\* For every text: the loop of Parse never reads an operation from where the
\* one before it began, so it cannot run forever.
THEOREM EveryOperationAdvances == Spec => Advances
<1>1. IInv /\ [Next]_vars => [status = "reading" /\ status' = "reading" => pos' > pos]_vars
  <2> SUFFICES ASSUME IInv, Next, status = "reading", status' = "reading"
               PROVE  pos' > pos
    OBVIOUS
  <2>1. pos \in Nat /\ Past(text) \in Nat
    BY SignsOf DEF IInv, WithinText
  <2>2. CASE ReadSignal
    BY <2>1, <2>2, SignalAdvances
  <2>3. CASE ParseOperation
    BY <2>1, <2>3, OperationAdvances
  <2>4. ~Finish /\ ~Refine
    BY DEF Finish, Refine
  <2> QED BY <2>2, <2>3, <2>4 DEF Next, Parse
<1> QED BY <1>1, InitInv, StepInv, PTL DEF Spec, Advances

-----------------------------------------------------------------------------
(* Two texts that read alike.                                                *)

\* The place q of z that stands for the place p of s: n further on.  The end of
\* s, when s is the beginning of z, may also be the place behind it.
Corresponds(s, n, p, q) ==
    /\ p \in 1 .. Past(s)
    /\ q = n + p \/ (n = 0 /\ p = Past(s) /\ q = p + 1)

\* All that the parse functions see of s at p they see of z at q.
AlikeAt(s, z, n, p, q) ==
    /\ p \in DOMAIN s => q \in DOMAIN z /\ z[q] = s[p] /\ Corresponds(s, n, p + 1, q + 1)
    /\ \A sign : sign \notin {" ", "|"} => (SignAt(s, p, sign) <=> SignAt(z, q, sign))
    /\ Corresponds(s, n, Skip(s, p), Skip(z, q))
    /\ Corresponds(s, n, WordEnd(s, p), WordEnd(z, q))
    /\ Word(s, p) = Word(z, q)
    /\ p \in DOMAIN s /\ WordEnd(s, p) = p + 1 => WordEnd(z, q) = q + 1
    /\ Corresponds(s, n, OperationEnd(s, p), OperationEnd(z, q))
    /\ Rest(s, p) = Rest(z, q)
    /\ SignAt(s, p, "(") =>
          /\ Corresponds(s, n, FieldEnd(s, p + 1), FieldEnd(z, q + 1))
          /\ Between(s, p + 1, FieldEnd(s, p + 1)) = Between(z, q + 1, FieldEnd(z, q + 1))
    /\ Start(s, p) \in DOMAIN s => Corresponds(s, n, Start(s, p), Start(z, q))

Alike(s, z, n) == \A p, q : Corresponds(s, n, p, q) => AlikeAt(s, z, n, p, q)

\* An operation of s is one of z.
SameResult(s, z, n, r1, r2) ==
    r1 = Error \/ \E op, e1, e2 : /\ r1 = Returned(op, e1) /\ r2 = Returned(op, e2)
                                  /\ Corresponds(s, n, e1, e2)

LEMMA ResultsAlike ==
    ASSUME NEW s \in Signs, NEW z \in Signs, NEW n \in Nat, Alike(s, z, n),
           NEW k \in DOMAIN s, NEW l, Corresponds(s, n, k, l)
    PROVE  /\ SameResult(s, z, n, Where(s, k), Where(z, l))
           /\ SameResult(s, z, n, Expand(s, k), Expand(z, l))
           /\ SameResult(s, z, n, Correlate(s, k), Correlate(z, l))
           /\ SameResult(s, z, n, GetExemplars(s, k), GetExemplars(z, l))
           /\ SameResult(s, z, n, SwitchContext(s, k), SwitchContext(z, l))
           /\ SameResult(s, z, n, Extract(s, k), Extract(z, l))
           /\ SameResult(s, z, n, Limit(s, k), Limit(z, l))
           /\ SameResult(s, z, n, Sort(s, k), Sort(z, l))
           /\ SameResult(s, z, n, Aggregate(s, k), Aggregate(z, l))
           /\ SameResult(s, z, n, GroupBy(s, k), GroupBy(z, l))
           /\ SameResult(s, z, n, Since(s, k), Since(z, l))
           /\ SameResult(s, z, n, TimeRange(s, k), TimeRange(z, l))
<1> DEFINE Same(p, q) == Corresponds(s, n, p, q)
           from == Argument(s, k)
           from2 == Argument(z, l)
<1>1. ASSUME NEW p, NEW q, Same(p, q) PROVE AlikeAt(s, z, n, p, q)
  BY <1>1 DEF Alike
<1>2. ASSUME NEW p, NEW q, Same(p, q)
      PROVE  /\ Same(Skip(s, p), Skip(z, q)) /\ Same(WordEnd(s, p), WordEnd(z, q))
             /\ Same(OperationEnd(s, p), OperationEnd(z, q))
             /\ Word(s, p) = Word(z, q) /\ Rest(s, p) = Rest(z, q)
  BY <1>1, <1>2, Zenon DEF AlikeAt
<1>3. ASSUME NEW p, NEW q, Same(p, q), p \in DOMAIN s
      PROVE  Same(p + 1, q + 1) /\ z[q] = s[p]
  BY <1>1, <1>3, Zenon DEF AlikeAt
<1>4. ASSUME NEW p, NEW q, Same(p, q), Word(s, p) # <<>>
      PROVE  Same(p + 1, q + 1)
  <2>1. p \in 1 .. Past(s)
    BY <1>4 DEF Corresponds
  <2>2. p \in DOMAIN s
    BY <1>4, <2>1, WordHere, SignsOf
  <2> QED BY <1>3, <1>4, <2>2
<1>23. ASSUME NEW p, NEW q, Same(p, q), Word(s, p) # <<>>
       PROVE  Same(Skip(s, p + 1), Skip(z, q + 1))
  <2>1. Same(p + 1, q + 1)
    BY <1>4, <1>23
  <2> QED BY <1>2, <2>1
<1>5. ASSUME NEW p, NEW q, Same(p, q), NEW sign, sign \notin {" ", "|"}
      PROVE  /\ SignAt(s, p, sign) <=> SignAt(z, q, sign)
             /\ SignAt(s, p, sign) => Same(p + 1, q + 1)
  <2>1. SignAt(s, p, sign) <=> SignAt(z, q, sign)
    BY <1>1, <1>5, Zenon DEF AlikeAt
  <2>2. SignAt(s, p, sign) => p \in DOMAIN s
    BY DEF SignAt
  <2> QED BY <1>3, <1>5, <2>1, <2>2
<1>6. Same(from, from2) /\ z[l] = s[k]
  BY <1>2, <1>3, Zenon DEF Argument
<1>7. ASSUME NEW op, NEW e1, NEW e2, Same(e1, e2)
      PROVE  SameResult(s, z, n, Returned(op, e1), Returned(op, e2))
  BY <1>7, Zenon DEF SameResult
<1>8. \A r : SameResult(s, z, n, Error, r)
  BY DEF SameResult
<1>9. /\ Same(OperationEnd(s, from), OperationEnd(z, from2))
      /\ Same(WordEnd(s, from), WordEnd(z, from2))
      /\ Word(s, from) = Word(z, from2) /\ Rest(s, from) = Rest(z, from2)
  BY <1>2, <1>6
<1>10. <<"as">> # <<>> /\ <<"by">> # <<>> /\ <<"and">> # <<>>
  OBVIOUS
<1> HIDE DEF Same, from, from2
<1>11. SameResult(s, z, n, Where(s, k), Where(z, l))
  BY <1>6, <1>7, <1>8, <1>9, Zenon DEF Where, from, from2
<1>12. SameResult(s, z, n, Expand(s, k), Expand(z, l))
  BY <1>7, <1>8, <1>9, Zenon DEF Expand, from, from2
<1>13. SameResult(s, z, n, Correlate(s, k), Correlate(z, l))
  BY <1>7, <1>8, <1>9, Zenon DEF Correlate, from, from2
<1>14. SameResult(s, z, n, GetExemplars(s, k), GetExemplars(z, l))
  <2> DEFINE end == IF SignAt(s, from, "(")
                    THEN IF SignAt(s, from + 1, ")") THEN from + 2 ELSE from + 1
                    ELSE from
             end2 == IF SignAt(z, from2, "(")
                     THEN IF SignAt(z, from2 + 1, ")") THEN from2 + 2 ELSE from2 + 1
                     ELSE from2
  <2>1. "(" \notin {" ", "|"} /\ ")" \notin {" ", "|"}
    OBVIOUS
  <2>2. /\ SignAt(s, from, "(") <=> SignAt(z, from2, "(")
        /\ SignAt(s, from, "(") => Same(from + 1, from2 + 1)
    BY <1>5, <1>6, <2>1, Zenon
  <2>3. Same(from + 1, from2 + 1) =>
           /\ SignAt(s, from + 1, ")") <=> SignAt(z, from2 + 1, ")")
           /\ SignAt(s, from + 1, ")") => Same((from + 1) + 1, (from2 + 1) + 1)
    BY <1>5, <2>1, Zenon
  <2>4. (from + 1) + 1 = from + 2 /\ (from2 + 1) + 1 = from2 + 2
    <3>1. from \in Nat /\ from2 \in Nat
      BY <1>6, SignsOf DEF Same, Corresponds
    <3> QED BY <3>1
  <2>5. Same(end, end2)
    BY <1>6, <2>2, <2>3, <2>4, Zenon
  <2>6. /\ GetExemplars(s, k) = Returned([op |-> "get_exemplars"], end)
        /\ GetExemplars(z, l) = Returned([op |-> "get_exemplars"], end2)
    BY DEF GetExemplars, from, from2
  <2> HIDE DEF end, end2
  <2> QED BY <1>7, <2>5, <2>6, Zenon
<1>15. SameResult(s, z, n, SwitchContext(s, k), SwitchContext(z, l))
  <2>1. "signal=" \notin {" ", "|"}
    OBVIOUS
  <2>2. /\ SignAt(s, from, "signal=") <=> SignAt(z, from2, "signal=")
        /\ SignAt(s, from, "signal=") =>
              /\ Same(OperationEnd(s, from + 1), OperationEnd(z, from2 + 1))
              /\ Rest(s, from + 1) = Rest(z, from2 + 1)
    BY <1>2, <1>5, <1>6, <2>1, Zenon
  <2> QED BY <1>7, <1>8, <2>2, Zenon DEF SwitchContext, from, from2
<1>16. SameResult(s, z, n, Extract(s, k), Extract(z, l))
  <2> DEFINE as == Skip(s, WordEnd(s, from))
             as2 == Skip(z, WordEnd(z, from2))
  <2>1. Same(as, as2) /\ Word(s, as) = Word(z, as2)
    BY <1>2, <1>9
  <2>2. Word(s, as) = <<"as">> =>
           /\ Same(WordEnd(s, Skip(s, as + 1)), WordEnd(z, Skip(z, as2 + 1)))
           /\ Word(s, Skip(s, as + 1)) = Word(z, Skip(z, as2 + 1))
    <3> HIDE DEF as, as2
    <3> SUFFICES ASSUME Word(s, as) = <<"as">>
                 PROVE  /\ Same(WordEnd(s, Skip(s, as + 1)), WordEnd(z, Skip(z, as2 + 1)))
                        /\ Word(s, Skip(s, as + 1)) = Word(z, Skip(z, as2 + 1))
      OBVIOUS
    <3>1. Same(Skip(s, as + 1), Skip(z, as2 + 1))
      BY <1>10, <1>23, <2>1
    <3> QED BY <1>2, <3>1
  <2> QED BY <1>7, <1>8, <1>9, <2>1, <2>2, Zenon DEF Extract, from, from2
<1>17. SameResult(s, z, n, Limit(s, k), Limit(z, l))
  BY <1>7, <1>8, <1>9, Zenon DEF Limit, from, from2
<1>18. SameResult(s, z, n, Sort(s, k), Sort(z, l))
  BY <1>7, <1>8, <1>9, Zenon DEF Sort, from, from2
<1>19. SameResult(s, z, n, Aggregate(s, k), Aggregate(z, l))
  <2> DEFINE name == IF s[k] = "aggregate" THEN from ELSE k
             open == Skip(s, WordEnd(s, name))
             called == SignAt(s, open, "(")
             close == FieldEnd(s, open + 1)
             after == IF ~called THEN open ELSE IF SignAt(s, close, ")") THEN close + 1 ELSE close
             as == Skip(s, after)
             named == Word(s, as) = <<"as">>
             alias == Skip(s, as + 1)
             name2 == IF z[l] = "aggregate" THEN from2 ELSE l
             open2 == Skip(z, WordEnd(z, name2))
             called2 == SignAt(z, open2, "(")
             close2 == FieldEnd(z, open2 + 1)
             after2 == IF ~called2 THEN open2 ELSE IF SignAt(z, close2, ")") THEN close2 + 1 ELSE close2
             as2 == Skip(z, after2)
             named2 == Word(z, as2) = <<"as">>
             alias2 == Skip(z, as2 + 1)
  <2>1. Same(name, name2)
    BY <1>6 DEF Same
  <2> HIDE DEF name, name2
  <2>2. Same(open, open2) /\ Word(s, name) = Word(z, name2)
    BY <1>2, <2>1
  <2> HIDE DEF open, open2
  <2>3. "(" \notin {" ", "|"} /\ ")" \notin {" ", "|"}
    OBVIOUS
  <2>4. called <=> called2
    BY <1>5, <2>2, <2>3, Zenon
  <2>5. called => Same(close, close2) /\ Between(s, open + 1, close) = Between(z, open2 + 1, close2)
    <3>1. AlikeAt(s, z, n, open, open2)
      BY <1>1, <2>2 DEF Same
    <3> QED BY <3>1 DEF AlikeAt, Same
  <2> HIDE DEF close, close2
  <2>6. Same(after, after2)
    BY <1>5, <2>2, <2>3, <2>4, <2>5, Zenon
  <2> HIDE DEF after, after2
  <2>7. Same(as, as2) /\ Word(s, as) = Word(z, as2)
    BY <1>2, <2>6
  <2> HIDE DEF as, as2
  <2>8. named => Same(WordEnd(s, alias), WordEnd(z, alias2)) /\ Word(s, alias) = Word(z, alias2)
    <3> SUFFICES ASSUME named
                 PROVE  Same(WordEnd(s, alias), WordEnd(z, alias2)) /\ Word(s, alias) = Word(z, alias2)
      OBVIOUS
    <3>1. Same(alias, alias2)
      BY <1>10, <1>23, <2>7
    <3> QED BY <1>2, <3>1
  <2> HIDE DEF alias, alias2
  <2>9. Same(IF named THEN WordEnd(s, alias) ELSE as, IF named2 THEN WordEnd(z, alias2) ELSE as2)
    BY <2>7, <2>8, Zenon
  <2> DEFINE op == [op |-> "aggregate", function |-> Word(s, name),
                    field |-> IF called THEN Trim[Between(s, open + 1, close)] ELSE <<>>,
                    alias |-> IF named THEN Word(s, alias) ELSE <<>>]
             op2 == [op |-> "aggregate", function |-> Word(z, name2),
                     field |-> IF called2 THEN Trim[Between(z, open2 + 1, close2)] ELSE <<>>,
                     alias |-> IF named2 THEN Word(z, alias2) ELSE <<>>]
  <2>10. op = op2
    <3>1. Word(s, name) = Word(z, name2)
      BY <2>2
    <3>2. (IF called THEN Trim[Between(s, open + 1, close)] ELSE <<>>)
           = (IF called2 THEN Trim[Between(z, open2 + 1, close2)] ELSE <<>>)
      BY <2>4, <2>5, Zenon
    <3>3. (IF named THEN Word(s, alias) ELSE <<>>) = (IF named2 THEN Word(z, alias2) ELSE <<>>)
      BY <2>7, <2>8, Zenon
    <3> QED BY <3>1, <3>2, <3>3, Zenon
  <2>11. /\ Aggregate(s, k) = Returned(op, IF named THEN WordEnd(s, alias) ELSE as)
         /\ Aggregate(z, l) = Returned(op2, IF named2 THEN WordEnd(z, alias2) ELSE as2)
    BY Zenon DEF Aggregate, name, open, close, after, as, alias, from,
                 name2, open2, close2, after2, as2, alias2, from2
  <2> HIDE DEF op, op2
  <2> QED BY <1>7, <2>9, <2>10, <2>11, Zenon
<1>20. SameResult(s, z, n, GroupBy(s, k), GroupBy(z, l))
  <2>1. Word(s, from) = <<"by">> =>
           /\ Same(OperationEnd(s, Skip(s, from + 1)), OperationEnd(z, Skip(z, from2 + 1)))
           /\ Rest(s, Skip(s, from + 1)) = Rest(z, Skip(z, from2 + 1))
    <3> SUFFICES ASSUME Word(s, from) = <<"by">>
                 PROVE  /\ Same(OperationEnd(s, Skip(s, from + 1)), OperationEnd(z, Skip(z, from2 + 1)))
                        /\ Rest(s, Skip(s, from + 1)) = Rest(z, Skip(z, from2 + 1))
      OBVIOUS
    <3>1. Same(Skip(s, from + 1), Skip(z, from2 + 1))
      BY <1>6, <1>10, <1>23
    <3> QED BY <1>2, <3>1
  <2> QED BY <1>7, <1>8, <1>9, <2>1, Zenon DEF GroupBy, from, from2
<1>21. SameResult(s, z, n, Since(s, k), Since(z, l))
  BY <1>7, <1>9, Zenon DEF Since, from, from2
<1>22. SameResult(s, z, n, TimeRange(s, k), TimeRange(z, l))
  <2> DEFINE and == Skip(s, WordEnd(s, from))
             and2 == Skip(z, WordEnd(z, from2))
  <2>1. Same(and, and2) /\ Word(s, and) = Word(z, and2)
    BY <1>2, <1>9
  <2>2. Word(s, and) = <<"and">> =>
           /\ Same(WordEnd(s, Skip(s, and + 1)), WordEnd(z, Skip(z, and2 + 1)))
           /\ Word(s, Skip(s, and + 1)) = Word(z, Skip(z, and2 + 1))
    <3> HIDE DEF and, and2
    <3> SUFFICES ASSUME Word(s, and) = <<"and">>
                 PROVE  /\ Same(WordEnd(s, Skip(s, and + 1)), WordEnd(z, Skip(z, and2 + 1)))
                        /\ Word(s, Skip(s, and + 1)) = Word(z, Skip(z, and2 + 1))
      OBVIOUS
    <3>1. Same(Skip(s, and + 1), Skip(z, and2 + 1))
      BY <1>10, <1>23, <2>1
    <3> QED BY <1>2, <3>1
  <2> QED BY <1>7, <1>8, <1>9, <2>1, <2>2, Zenon DEF TimeRange, from, from2
<1> QED BY <1>11, <1>12, <1>13, <1>14, <1>15, <1>16, <1>17, <1>18, <1>19, <1>20, <1>21, <1>22

-----------------------------------------------------------------------------
(* A text behind another.                                                    *)

LEMMA ConcatSigns ==
    ASSUME NEW s \in Signs, NEW u \in Signs
    PROVE  /\ s \o u \in Signs /\ Len(s \o u) = Len(s) + Len(u)
           /\ \A i \in 1 .. Len(s) : (s \o u)[i] = s[i]
           /\ \A i \in 1 .. Len(u) : (s \o u)[Len(s) + i] = u[i]
<1>1. s \in Seq(Words) /\ u \in Seq(Words) /\ Len(s) \in Nat /\ Len(u) \in Nat
  BY SignsOf
<1>2. /\ s \o u \in Seq(Words) /\ Len(s \o u) = Len(s) + Len(u)
      /\ \A i \in 1 .. Len(s) + Len(u) : (s \o u)[i] = IF i <= Len(s) THEN s[i] ELSE u[i - Len(s)]
  BY <1>1, ConcatProperties
<1>3. \A i \in 1 .. Len(s) : (s \o u)[i] = s[i]
  BY <1>1, <1>2
<1>4. \A i \in 1 .. Len(u) : (s \o u)[Len(s) + i] = u[i]
  <2> SUFFICES ASSUME NEW i \in 1 .. Len(u) PROVE (s \o u)[Len(s) + i] = u[i]
    OBVIOUS
  <2>1. Len(s) + i \in 1 .. Len(s) + Len(u) /\ ~(Len(s) + i <= Len(s)) /\ Len(s) + i - Len(s) = i
    BY <1>1
  <2> QED BY <1>2, <2>1
<1> QED BY <1>2, <1>3, <1>4 DEF Signs

\* A part of a text is told by its signs.
LEMMA PartIs ==
    ASSUME NEW s \in Signs, NEW z \in Signs
    PROVE  \A p \in 1 .. Past(s), e \in 1 .. Past(s), q \in 1 .. Past(z), f \in 1 .. Past(z) :
              f - q = e - p /\ (\A i \in 0 .. e - p - 1 : z[q + i] = s[p + i])
              => Between(s, p, e) = Between(z, q, f)
<1> SUFFICES ASSUME NEW p \in 1 .. Past(s), NEW e \in 1 .. Past(s),
                    NEW q \in 1 .. Past(z), NEW f \in 1 .. Past(z),
                    f - q = e - p, \A i \in 0 .. e - p - 1 : z[q + i] = s[p + i]
             PROVE  Between(s, p, e) = Between(z, q, f)
  OBVIOUS
<1>1. /\ p \in Nat /\ e \in Nat /\ q \in Nat /\ f \in Nat
      /\ s \in Seq(Words) /\ z \in Seq(Words) /\ Len(s) \in Nat /\ Len(z) \in Nat
      /\ Past(s) = Len(s) + 1 /\ Past(z) = Len(z) + 1
  BY SignsOf
<1>2. CASE e <= p /\ f <= q
  <2>1. SubSeq(s, p, e - 1) = <<>>
    BY <1>1, <1>2, SubSeqEmpty
  <2>2. SubSeq(z, q, f - 1) = <<>>
    BY <1>1, <1>2, SubSeqEmpty
  <2> QED BY <2>1, <2>2 DEF Between
<1>3. CASE p < e
  <2> DEFINE a == SubSeq(s, p, e - 1)
             b == SubSeq(z, q, f - 1)
  <2>1. /\ a \in Seq(Words) /\ Len(a) = e - p
        /\ \A i \in 1 .. e - p : a[i] = s[p + i - 1]
    <3>1. \A i \in p .. e - 1 : s[i] \in Words
      BY <1>1, SignsOf
    <3> QED BY <1>1, <1>3, <3>1, SubSeqProperties
  <2>2. /\ b \in Seq(Words) /\ Len(b) = f - q
        /\ \A i \in 1 .. f - q : b[i] = z[q + i - 1]
    <3>1. \A i \in q .. f - 1 : z[i] \in Words
      BY <1>1, SignsOf
    <3> QED BY <1>1, <1>3, <3>1, SubSeqProperties
  <2> HIDE DEF a, b
  <2>3. \A i \in 1 .. Len(a) : a[i] = b[i]
    <3> SUFFICES ASSUME NEW i \in 1 .. e - p PROVE a[i] = b[i]
      BY <2>1
    <3>1. i - 1 \in 0 .. e - p - 1
      BY <1>1
    <3>2. z[q + (i - 1)] = s[p + (i - 1)]
      BY <3>1
    <3>3. q + (i - 1) = q + i - 1 /\ p + (i - 1) = p + i - 1
      BY <1>1
    <3>4. a[i] = s[p + i - 1] /\ b[i] = z[q + i - 1]
      BY <1>3, <2>1, <2>2
    <3> QED BY <3>2, <3>3, <3>4
  <2>4. a = b
    BY <1>3, <2>1, <2>2, <2>3, SeqEqual
  <2> QED BY <2>4 DEF a, b, Between
<1>4. e <= p => f <= q
  BY <1>1
<1> QED BY <1>1, <1>2, <1>3, <1>4

\* A sign of a text may be told from any other.
LEMMA SameSubSeq ==
    ASSUME NEW s \in Signs, NEW z \in Signs, NEW i \in 1 .. Len(s), NEW j \in 1 .. Len(z),
           i + 2 <= Len(s), j + 2 <= Len(z),
           z[j] = s[i], z[j + 1] = s[i + 1], z[j + 2] = s[i + 2]
    PROVE  SubSeq(z, j, j + 2) = SubSeq(s, i, i + 2)
<1>1. Len(s) \in Nat /\ Len(z) \in Nat /\ Past(s) = Len(s) + 1 /\ Past(z) = Len(z) + 1
  BY SignsOf
<1>2. i + 3 \in 1 .. Past(s) /\ j + 3 \in 1 .. Past(z) /\ i \in 1 .. Past(s) /\ j \in 1 .. Past(z)
  BY <1>1
<1>3. \A m \in 0 .. (i + 3) - i - 1 : z[j + m] = s[i + m]
  <2> SUFFICES ASSUME NEW m \in 0 .. 2 PROVE z[j + m] = s[i + m]
    BY <1>1
  <2>1. m = 0 \/ m = 1 \/ m = 2
    OBVIOUS
  <2>2. j + 0 = j /\ i + 0 = i
    OBVIOUS
  <2> QED BY <2>1, <2>2
<1>4. Between(s, i, i + 3) = Between(z, j, j + 3)
  <2>1. (j + 3) - j = (i + 3) - i
    OBVIOUS
  <2> QED BY <1>2, <1>3, <2>1, PartIs
<1>5. (i + 3) - 1 = i + 2 /\ (j + 3) - 1 = j + 2
  OBVIOUS
<1> QED BY <1>4, <1>5 DEF Between

LEMMA ShiftPositions ==
    ASSUME NEW s \in Signs, NEW u \in Signs, NEW p \in 1 .. Past(u)
    PROVE  /\ Skip(s \o u, Len(s) + p) = Len(s) + Skip(u, p)
           /\ WordEnd(s \o u, Len(s) + p) = Len(s) + WordEnd(u, p)
           /\ OperationEnd(s \o u, Len(s) + p) = Len(s) + OperationEnd(u, p)
           /\ FieldEnd(s \o u, Len(s) + p) = Len(s) + FieldEnd(u, p)
<1> DEFINE z == s \o u
           n == Len(s)
<1>1. /\ z \in Signs /\ n \in Nat /\ Len(u) \in Nat /\ Len(z) = n + Len(u)
      /\ DOMAIN z = 1 .. Len(z) /\ DOMAIN u = 1 .. Len(u)
      /\ \A i \in 1 .. Len(u) : z[n + i] = u[i]
  BY ConcatSigns, SignsOf
<1> HIDE DEF z, n
<1>2. Skip(z, n + p) = n + Skip(u, p)
  <2> DEFINE S == {q \in DOMAIN u : u[q] \notin Spaces}
             T == {q \in DOMAIN z : z[q] \notin Spaces}
  <2>1. \A i \in DOMAIN u : n + i \in T <=> i \in S
    BY <1>1
  <2>2. S \in SUBSET (DOMAIN u) /\ T \in SUBSET (DOMAIN z)
    OBVIOUS
  <2> HIDE DEF S, T
  <2>3. NextIn(z, n + p, T) = n + NextIn(u, p, S)
    BY <1>1, <2>1, <2>2, NextShift
  <2> QED BY <2>3 DEF Skip, S, T
<1>3. WordEnd(z, n + p) = n + WordEnd(u, p)
  <2> DEFINE S == {q \in DOMAIN u : u[q] \in Spaces \cup {"|", "("}}
             T == {q \in DOMAIN z : z[q] \in Spaces \cup {"|", "("}}
  <2>1. \A i \in DOMAIN u : n + i \in T <=> i \in S
    BY <1>1
  <2>2. S \in SUBSET (DOMAIN u) /\ T \in SUBSET (DOMAIN z)
    OBVIOUS
  <2> HIDE DEF S, T
  <2>3. NextIn(z, n + p, T) = n + NextIn(u, p, S)
    BY <1>1, <2>1, <2>2, NextShift
  <2> QED BY <2>3 DEF WordEnd, S, T
<1>4. \A i \in DOMAIN u : (n + i) + 2 <= Len(z) <=> i + 2 <= Len(u)
  BY <1>1
<1>5. \A i \in DOMAIN u : i + 2 <= Len(u) => z[(n + i) + 1] = u[i + 1] /\ z[(n + i) + 2] = u[i + 2]
  <2> SUFFICES ASSUME NEW i \in DOMAIN u, i + 2 <= Len(u)
               PROVE  z[(n + i) + 1] = u[i + 1] /\ z[(n + i) + 2] = u[i + 2]
    OBVIOUS
  <2>1. i + 1 \in 1 .. Len(u) /\ i + 2 \in 1 .. Len(u)
    BY <1>1
  <2>2. (n + i) + 1 = n + (i + 1) /\ (n + i) + 2 = n + (i + 2)
    BY <1>1
  <2> QED BY <1>1, <2>1, <2>2
<1>6. OperationEnd(z, n + p) = n + OperationEnd(u, p)
  <2> DEFINE Ends(t, q) ==
                \/ t[q] \in {"|", "\n"}
                \/ /\ t[q] = " "
                   /\ q + 2 <= Len(t)
                   /\ t[q + 1] \in Keywords
                   /\ t[q + 2] \in {" ", "("}
             S == {q \in DOMAIN u : Ends(u, q)}
             T == {q \in DOMAIN z : Ends(z, q)}
  <2>1. \A i \in DOMAIN u : n + i \in DOMAIN z /\ (Ends(z, n + i) <=> Ends(u, i))
    <3> SUFFICES ASSUME NEW i \in DOMAIN u PROVE n + i \in DOMAIN z /\ (Ends(z, n + i) <=> Ends(u, i))
      OBVIOUS
    <3>1. n + i \in DOMAIN z /\ z[n + i] = u[i]
      BY <1>1
    <3> QED BY <1>4, <1>5, <3>1, Zenon
  <2>2. \A i \in DOMAIN u : n + i \in T <=> i \in S
    BY <2>1
  <2>3. S \in SUBSET (DOMAIN u) /\ T \in SUBSET (DOMAIN z)
    OBVIOUS
  <2> HIDE DEF S, T
  <2>4. NextIn(z, n + p, T) = n + NextIn(u, p, S)
    BY <1>1, <2>2, <2>3, NextShift
  <2> QED BY <2>4 DEF OperationEnd, S, T
<1>7. FieldEnd(z, n + p) = n + FieldEnd(u, p)
  <2> DEFINE Ends(t, q) ==
                \/ t[q] = ")"
                \/ /\ q + 2 <= Len(t)
                   /\ SubSeq(t, q, q + 2) = <<" ", "as", " ">>
             S == {q \in DOMAIN u : Ends(u, q)}
             T == {q \in DOMAIN z : Ends(z, q)}
  <2>1. \A i \in DOMAIN u : n + i \in DOMAIN z /\ (Ends(z, n + i) <=> Ends(u, i))
    <3> SUFFICES ASSUME NEW i \in DOMAIN u PROVE n + i \in DOMAIN z /\ (Ends(z, n + i) <=> Ends(u, i))
      OBVIOUS
    <3>1. n + i \in DOMAIN z /\ z[n + i] = u[i]
      BY <1>1
    <3>2. i + 2 <= Len(u) => SubSeq(z, n + i, (n + i) + 2) = SubSeq(u, i, i + 2)
      <4> SUFFICES ASSUME i + 2 <= Len(u) PROVE SubSeq(z, n + i, (n + i) + 2) = SubSeq(u, i, i + 2)
        OBVIOUS
      <4>1. i \in 1 .. Len(u) /\ n + i \in 1 .. Len(z) /\ (n + i) + 2 <= Len(z)
        BY <1>1, <1>4, <3>1
      <4>2. z[n + i] = u[i] /\ z[(n + i) + 1] = u[i + 1] /\ z[(n + i) + 2] = u[i + 2]
        BY <1>5, <3>1
      <4> DEFINE j == n + i
      <4> HIDE DEF j
      <4>3. j \in 1 .. Len(z) /\ j + 2 <= Len(z) /\ z[j] = u[i] /\ z[j + 1] = u[i + 1] /\ z[j + 2] = u[i + 2]
        BY <4>1, <4>2 DEF j
      <4>4. SubSeq(z, j, j + 2) = SubSeq(u, i, i + 2)
        BY <1>1, <4>1, <4>3, SameSubSeq
      <4> QED BY <4>4 DEF j
    <3> QED BY <1>4, <3>1, <3>2, Zenon
  <2>2. \A i \in DOMAIN u : n + i \in T <=> i \in S
    BY <2>1
  <2>3. S \in SUBSET (DOMAIN u) /\ T \in SUBSET (DOMAIN z)
    OBVIOUS
  <2> HIDE DEF S, T
  <2>4. NextIn(z, n + p, T) = n + NextIn(u, p, S)
    BY <1>1, <2>2, <2>3, NextShift
  <2> QED BY <2>4 DEF FieldEnd, S, T
<1> QED BY <1>2, <1>3, <1>6, <1>7 DEF z, n

LEMMA ShiftStart ==
    ASSUME NEW s \in Signs, NEW u \in Signs, NEW p \in 1 .. Past(u)
    PROVE  Start(s \o u, Len(s) + p) = Len(s) + Start(u, p) /\ Start(u, p) \in 1 .. Past(u)
<1> DEFINE z == s \o u
           n == Len(s)
           k == Skip(u, p)
<1>1. /\ z \in Signs /\ n \in Nat /\ Len(u) \in Nat /\ Len(z) = n + Len(u)
      /\ DOMAIN z = 1 .. Len(z) /\ DOMAIN u = 1 .. Len(u) /\ Past(u) = Len(u) + 1
  BY ConcatSigns, SignsOf
<1>2. \A i \in 1 .. Len(u) : z[n + i] = u[i]
  BY ConcatSigns
<1>3. \A i \in 1 .. Past(u) : Skip(z, n + i) = n + Skip(u, i) /\ Skip(u, i) \in i .. Past(u)
  BY ShiftPositions, CursorRanges
<1>4. Skip(z, n + p) = n + k /\ k \in 1 .. Past(u)
  BY <1>1, <1>3
<1> HIDE DEF z, n, k
<1>5. SignAt(u, k, "|") <=> SignAt(z, n + k, "|")
  <2>1. CASE k \in 1 .. Len(u)
    <3>1. n + k \in DOMAIN z /\ k \in DOMAIN u
      BY <1>1, <2>1
    <3> QED BY <1>2, <2>1, <3>1 DEF SignAt
  <2>2. CASE k \notin 1 .. Len(u)
    <3>1. n + k \notin DOMAIN z /\ k \notin DOMAIN u
      BY <1>1, <1>4, <2>2
    <3> QED BY <3>1 DEF SignAt
  <2> QED BY <2>1, <2>2
<1>6. CASE SignAt(u, k, "|")
  <2>1. k + 1 \in 1 .. Past(u) /\ (n + k) + 1 = n + (k + 1)
    BY <1>1, <1>6 DEF SignAt
  <2>2. Skip(z, (n + k) + 1) = n + Skip(u, k + 1) /\ Skip(u, k + 1) \in k + 1 .. Past(u)
    BY <1>3, <2>1
  <2>3. Skip(u, k + 1) \in 1 .. Past(u)
    BY <1>1, <2>1, <2>2
  <2> QED BY <1>4, <1>5, <1>6, <2>2, <2>3 DEF Start, z, n, k
<1>7. CASE ~SignAt(u, k, "|")
  BY <1>4, <1>5, <1>7 DEF Start, z, n, k
<1> QED BY <1>6, <1>7

\* A text reads behind another as it reads alone.
LEMMA SuffixAlike ==
    ASSUME NEW s \in Signs, s # <<>>, NEW u \in Signs
    PROVE  Alike(u, s \o u, Len(s))
<1> DEFINE z == s \o u
           n == Len(s)
<1>1. /\ z \in Signs /\ n \in Nat \ {0} /\ Len(u) \in Nat /\ Len(z) = n + Len(u)
      /\ DOMAIN z = 1 .. Len(z) /\ DOMAIN u = 1 .. Len(u)
      /\ Past(z) = Len(z) + 1 /\ Past(u) = Len(u) + 1
      /\ \A i \in 1 .. Len(u) : z[n + i] = u[i]
  <2>1. n # 0
    BY EmptySeq, SignsOf
  <2> QED BY <2>1, ConcatSigns, SignsOf
<1>2. \A p \in 1 .. Past(u) :
          /\ Skip(z, n + p) = n + Skip(u, p) /\ WordEnd(z, n + p) = n + WordEnd(u, p)
          /\ OperationEnd(z, n + p) = n + OperationEnd(u, p) /\ FieldEnd(z, n + p) = n + FieldEnd(u, p)
  BY ShiftPositions
<1> HIDE DEF z, n
<1>3. \A p \in 1 .. Past(u) :
          /\ Skip(u, p) \in p .. Past(u) /\ WordEnd(u, p) \in p .. Past(u)
          /\ OperationEnd(u, p) \in p .. Past(u) /\ FieldEnd(u, p) \in p .. Past(u)
  BY CursorRanges
<1>4. \A p, e \in 1 .. Past(u) : Between(u, p, e) = Between(z, n + p, n + e)
  <2> SUFFICES ASSUME NEW p \in 1 .. Past(u), NEW e \in 1 .. Past(u)
               PROVE  Between(u, p, e) = Between(z, n + p, n + e)
    OBVIOUS
  <2>1. n + p \in 1 .. Past(z) /\ n + e \in 1 .. Past(z) /\ (n + e) - (n + p) = e - p
    BY <1>1
  <2>2. \A i \in 0 .. e - p - 1 : z[(n + p) + i] = u[p + i]
    <3> SUFFICES ASSUME NEW i \in 0 .. e - p - 1 PROVE z[(n + p) + i] = u[p + i]
      OBVIOUS
    <3>1. p + i \in 1 .. Len(u) /\ (n + p) + i = n + (p + i)
      BY <1>1
    <3> QED BY <1>1, <3>1
  <2> DEFINE q == n + p
             f == n + e
  <2>3. q \in 1 .. Past(z) /\ f \in 1 .. Past(z) /\ f - q = e - p /\ \A i \in 0 .. e - p - 1 : z[q + i] = u[p + i]
    BY <2>1, <2>2
  <2> HIDE DEF q, f
  <2>4. Between(u, p, e) = Between(z, q, f)
    <3>1. z \in Signs
      BY <1>1
    <3>2. q \in 1 .. Past(z)
      BY <2>3
    <3>3. f \in 1 .. Past(z)
      BY <2>3
    <3>4. f - q = e - p
      BY <2>3
    <3>5. \A i \in 0 .. e - p - 1 : z[q + i] = u[p + i]
      BY <2>3
    <3> QED BY <3>1, <3>2, <3>3, <3>4, <3>5, PartIs
  <2> QED BY <2>4 DEF q, f
<1>5. \A p \in 1 .. Past(u) : \A sign : SignAt(u, p, sign) <=> SignAt(z, n + p, sign)
  <2> SUFFICES ASSUME NEW p \in 1 .. Past(u), NEW sign
               PROVE  SignAt(u, p, sign) <=> SignAt(z, n + p, sign)
    OBVIOUS
  <2>1. CASE p \in DOMAIN u
    <3>1. n + p \in DOMAIN z /\ z[n + p] = u[p]
      BY <1>1, <2>1
    <3> QED BY <2>1, <3>1 DEF SignAt
  <2>2. CASE p \notin DOMAIN u
    <3>1. n + p \notin DOMAIN z
      BY <1>1, <2>2
    <3> QED BY <2>2, <3>1 DEF SignAt
  <2> QED BY <2>1, <2>2
<1>6. \A p, q : Corresponds(u, n, p, q) <=> p \in 1 .. Past(u) /\ q = n + p
  BY <1>1 DEF Corresponds
<1> SUFFICES ASSUME NEW p, NEW q, Corresponds(u, n, p, q)
             PROVE  AlikeAt(u, z, n, p, q)
  BY DEF Alike, z, n
<1>7. p \in 1 .. Past(u) /\ q = n + p
  BY <1>6
<1>8. p \in DOMAIN u => q \in DOMAIN z /\ z[q] = u[p] /\ Corresponds(u, n, p + 1, q + 1)
  <2> SUFFICES ASSUME p \in DOMAIN u PROVE q \in DOMAIN z /\ z[q] = u[p] /\ Corresponds(u, n, p + 1, q + 1)
    OBVIOUS
  <2>1. q \in DOMAIN z /\ p + 1 \in 1 .. Past(u) /\ q + 1 = n + (p + 1)
    BY <1>1, <1>7
  <2> QED BY <1>1, <1>6, <1>7, <2>1
<1>9. \A sign : SignAt(u, p, sign) <=> SignAt(z, q, sign)
  BY <1>5, <1>7
<1>10. /\ Skip(u, p) \in 1 .. Past(u) /\ WordEnd(u, p) \in 1 .. Past(u)
       /\ OperationEnd(u, p) \in 1 .. Past(u)
  <2>1. \A i \in p .. Past(u) : i \in 1 .. Past(u)
    BY <1>1, <1>7
  <2> QED BY <1>3, <1>7, <2>1
<1>11. /\ Corresponds(u, n, Skip(u, p), Skip(z, q))
       /\ Corresponds(u, n, WordEnd(u, p), WordEnd(z, q))
       /\ Corresponds(u, n, OperationEnd(u, p), OperationEnd(z, q))
  BY <1>2, <1>6, <1>7, <1>10
<1>12. Word(u, p) = Word(z, q)
  BY <1>2, <1>4, <1>7, <1>10 DEF Word
<1>13. p \in DOMAIN u /\ WordEnd(u, p) = p + 1 => WordEnd(z, q) = q + 1
  <2>1. n + (p + 1) = (n + p) + 1
    BY <1>1, <1>7
  <2> QED BY <1>2, <1>7, <2>1
<1>14. Rest(u, p) = Rest(z, q)
  <2>1. Between(u, p, OperationEnd(u, p)) = Between(z, q, OperationEnd(z, q))
    BY <1>2, <1>4, <1>7, <1>10
  <2> QED BY <2>1 DEF Rest
<1>15. SignAt(u, p, "(") =>
          /\ Corresponds(u, n, FieldEnd(u, p + 1), FieldEnd(z, q + 1))
          /\ Between(u, p + 1, FieldEnd(u, p + 1)) = Between(z, q + 1, FieldEnd(z, q + 1))
  <2> SUFFICES ASSUME SignAt(u, p, "(")
               PROVE  /\ Corresponds(u, n, FieldEnd(u, p + 1), FieldEnd(z, q + 1))
                      /\ Between(u, p + 1, FieldEnd(u, p + 1)) = Between(z, q + 1, FieldEnd(z, q + 1))
    OBVIOUS
  <2>1. p + 1 \in 1 .. Past(u) /\ q + 1 = n + (p + 1)
    BY <1>1, <1>7 DEF SignAt
  <2>2. FieldEnd(u, p + 1) \in 1 .. Past(u)
    BY <1>1, <1>3, <2>1
  <2>3. FieldEnd(z, q + 1) = n + FieldEnd(u, p + 1)
    BY <1>2, <2>1
  <2> QED BY <1>4, <1>6, <2>1, <2>2, <2>3
<1>16. Corresponds(u, n, Start(u, p), Start(z, q))
  <2>1. Start(z, q) = n + Start(u, p) /\ Start(u, p) \in 1 .. Past(u)
    BY <1>7, ShiftStart DEF z, n
  <2> QED BY <1>6, <2>1
<1> QED BY <1>8, <1>9, <1>11, <1>12, <1>13, <1>14, <1>15, <1>16 DEF AlikeAt


\* A text and one sign more.
LEMMA PartMore ==
    ASSUME NEW z \in Signs, NEW e \in 1 .. Len(z), NEW p \in 1 .. e
    PROVE  /\ Between(z, p, e) \in Signs
           /\ Between(z, p, e + 1) = Append(Between(z, p, e), z[e])
<1>1. /\ p \in Nat /\ e \in Nat /\ z \in Seq(Words) /\ Len(z) \in Nat /\ (e + 1) - 1 = e
      /\ \A i \in 1 .. Len(z) : z[i] \in Words
  BY SignsOf
<1> DEFINE a == SubSeq(z, p, e - 1)
           b == SubSeq(z, p, e)
<1>2. /\ b \in Seq(Words) /\ Len(b) = e - p + 1
      /\ \A i \in 1 .. e - p + 1 : b[i] = z[p + i - 1]
  <2>1. \A i \in p .. e : z[i] \in Words
    BY <1>1
  <2> QED BY <1>1, <2>1, SubSeqProperties
<1>3. /\ a \in Seq(Words) /\ Len(a) = e - p
      /\ \A i \in 1 .. e - p : a[i] = z[p + i - 1]
  <2>1. CASE p = e
    <3>1. a = <<>>
      BY <1>1, <2>1, SubSeqEmpty
    <3> QED BY <1>1, <2>1, <3>1
  <2>2. CASE p < e
    <3>1. \A i \in p .. e - 1 : z[i] \in Words
      BY <1>1
    <3> QED BY <1>1, <2>2, <3>1, SubSeqProperties
  <2> QED BY <1>1, <2>1, <2>2
<1> HIDE DEF a, b
<1>4. b = Append(a, z[e])
  <2> DEFINE c == Append(a, z[e])
  <2>1. /\ c \in Seq(Words) /\ Len(c) = e - p + 1
        /\ \A i \in 1 .. e - p : c[i] = a[i]
        /\ c[e - p + 1] = z[e]
    BY <1>1, <1>3, AppendProperties
  <2>2. \A i \in 1 .. e - p + 1 : b[i] = c[i]
    <3> SUFFICES ASSUME NEW i \in 1 .. e - p + 1 PROVE b[i] = c[i]
      OBVIOUS
    <3> HIDE DEF c
    <3>1. CASE i = e - p + 1
      <4>1. p + i - 1 = e
        BY <1>1, <3>1
      <4> QED BY <1>2, <2>1, <3>1, <4>1
    <3>2. CASE i # e - p + 1
      <4>1. i \in 1 .. e - p
        BY <1>1, <3>2
      <4> QED BY <1>2, <1>3, <2>1, <4>1
    <3> QED BY <3>1, <3>2
  <2> HIDE DEF c
  <2>3. b = c
    BY <1>1, <1>2, <2>1, <2>2, SeqEqual
  <2> QED BY <2>3 DEF c
<1> QED BY <1>1, <1>3, <1>4 DEF a, b, Between, Signs

\* A space more is trimmed.
LEMMA TrimSpace ==
    ASSUME NEW a \in Signs
    PROVE  Trim[Append(a, " ")] = Trim[a]
<1> DEFINE c == Append(a, " ")
           kept == {i \in DOMAIN a : a[i] \notin Spaces}
           kept2 == {i \in DOMAIN c : c[i] \notin Spaces}
<1>1. " " \in Words /\ " " \in Spaces
  BY ParserAssumption DEF Spaces
<1>2. /\ c \in Signs /\ Len(c) = Len(a) + 1
      /\ \A i \in 1 .. Len(a) : c[i] = a[i]
      /\ c[Len(a) + 1] = " "
  <2> DEFINE sign == " "
  <2>1. sign \in Words /\ a \in Seq(Words)
    BY <1>1, SignsOf
  <2> HIDE DEF sign
  <2>2. /\ Append(a, sign) \in Seq(Words) /\ Len(Append(a, sign)) = Len(a) + 1
        /\ \A i \in 1 .. Len(a) : Append(a, sign)[i] = a[i]
        /\ Append(a, sign)[Len(a) + 1] = sign
    BY <2>1, AppendProperties
  <2> QED BY <2>2 DEF sign, Signs
<1>3. /\ Len(a) \in Nat /\ DOMAIN a = 1 .. Len(a) /\ DOMAIN c = 1 .. Len(c)
      /\ Past(a) = Len(a) + 1 /\ Past(c) = Len(c) + 1
  BY <1>2, SignsOf
<1>9. Len(a) \in Nat /\ Len(c) = Len(a) + 1 /\ Past(a) = Len(a) + 1 /\ Past(c) = Len(c) + 1
  BY <1>2, <1>3
<1> HIDE DEF c
<1>4. kept2 = kept
  <2>1. \A i \in 1 .. Len(c) : i \in 1 .. Len(a) \/ i = Len(a) + 1
    BY <1>9
  <2>2. \A i \in 1 .. Len(a) : i \in 1 .. Len(c)
    BY <1>9
  <2> QED BY <1>1, <1>2, <1>3, <2>1, <2>2
<1>5. /\ Trim[a] = IF kept = {} THEN <<>> ELSE SubSeq(a, Min(kept), Max(kept))
      /\ Trim[c] = IF kept2 = {} THEN <<>> ELSE SubSeq(c, Min(kept2), Max(kept2))
  BY <1>2 DEF Trim
<1>6. kept # {} => Min(kept) \in 1 .. Len(a) /\ Max(kept) \in 1 .. Len(a)
  <2>1. kept \in SUBSET (1 .. Len(a))
    BY <1>3
  <2> HIDE DEF kept
  <2> QED BY <1>3, <2>1, LeastPosition, GreatestPosition
<1> HIDE DEF kept, kept2
<1>7. kept # {} => SubSeq(a, Min(kept), Max(kept)) = SubSeq(c, Min(kept), Max(kept))
  <2> SUFFICES ASSUME kept # {}
               PROVE  SubSeq(a, Min(kept), Max(kept)) = SubSeq(c, Min(kept), Max(kept))
    OBVIOUS
  <2> DEFINE low == Min(kept)
             high == Max(kept)
  <2>1. low \in 1 .. Len(a) /\ high \in 1 .. Len(a)
    BY <1>6
  <2> HIDE DEF low, high
  <2>2. /\ low \in 1 .. Past(a) /\ high + 1 \in 1 .. Past(a)
        /\ low \in 1 .. Past(c) /\ high + 1 \in 1 .. Past(c)
        /\ (high + 1) - low = (high + 1) - low /\ (high + 1) - 1 = high
    BY <1>9, <2>1
  <2>3. \A i \in 0 .. (high + 1) - low - 1 : c[low + i] = a[low + i]
    <3> SUFFICES ASSUME NEW i \in 0 .. (high + 1) - low - 1 PROVE c[low + i] = a[low + i]
      OBVIOUS
    <3>1. low + i \in 1 .. Len(a)
      BY <1>9, <2>1
    <3> QED BY <1>2, <3>1
  <2>4. Between(a, low, high + 1) = Between(c, low, high + 1)
    BY <1>2, <2>2, <2>3, PartIs
  <2> QED BY <2>2, <2>4 DEF Between, low, high
<1>8. Trim[c] = Trim[a]
  <2>1. Trim[c] = IF kept = {} THEN <<>> ELSE SubSeq(c, Min(kept), Max(kept))
    BY <1>4, <1>5, Zenon
  <2>2. CASE kept = {}
    <3>1. Trim[c] = <<>> /\ Trim[a] = <<>>
      BY <1>5, <2>1, <2>2
    <3> QED BY <3>1, Zenon
  <2>3. CASE kept # {}
    <3>1. Trim[c] = SubSeq(c, Min(kept), Max(kept)) /\ Trim[a] = SubSeq(a, Min(kept), Max(kept))
      BY <1>5, <2>1, <2>3, Zenon
    <3> QED BY <1>7, <2>3, <3>1, Zenon
  <2> QED BY <2>2, <2>3, Zenon
<1> QED BY <1>8 DEF c

\* What begins with s and goes on with a separator.
Extends(z, s) ==
    /\ z \in Signs /\ Len(z) >= Len(s) + 2
    /\ \A i \in 1 .. Len(s) : z[i] = s[i]
    /\ z[Len(s) + 1] = " " /\ z[Len(s) + 2] = "|"

LEMMA ExtendsFacts ==
    ASSUME NEW s \in Signs, NEW z, Extends(z, s)
    PROVE  /\ Len(s) \in Nat /\ DOMAIN s = 1 .. Len(s) /\ Past(s) = Len(s) + 1
           /\ z \in Signs /\ Len(z) \in Nat /\ DOMAIN z = 1 .. Len(z) /\ Past(z) = Len(z) + 1
           /\ Len(z) >= Len(s) + 2 /\ \A i \in 1 .. Len(s) : z[i] = s[i]
           /\ z[Len(s) + 1] = " " /\ z[Len(s) + 2] = "|"
           /\ Len(s) + 1 \in DOMAIN z /\ Len(s) + 2 \in DOMAIN z
<1>1. z \in Signs
  BY DEF Extends
<1>2. /\ Len(z) >= Len(s) + 2 /\ \A i \in 1 .. Len(s) : z[i] = s[i]
      /\ z[Len(s) + 1] = " " /\ z[Len(s) + 2] = "|"
  BY DEF Extends
<1>3. /\ Len(s) \in Nat /\ DOMAIN s = 1 .. Len(s) /\ Past(s) = Len(s) + 1
      /\ Len(z) \in Nat /\ DOMAIN z = 1 .. Len(z) /\ Past(z) = Len(z) + 1
  BY <1>1, SignsOf
<1>4. Len(s) + 1 \in DOMAIN z /\ Len(s) + 2 \in DOMAIN z
  <2>1. Len(s) \in Nat /\ Len(z) \in Nat /\ Len(z) >= Len(s) + 2 /\ DOMAIN z = 1 .. Len(z)
    BY <1>2, <1>3
  <2> QED BY <2>1
<1> QED BY <1>1, <1>2, <1>3, <1>4

\* The cursor finds in it what it finds in s, or the separator.
LEMMA PrefixPositions ==
    ASSUME NEW s \in Signs, s # <<>>, Closed(s), NEW z, Extends(z, s), NEW p \in 1 .. Past(s)
    PROVE  /\ IF Skip(s, p) \in DOMAIN s THEN Skip(z, p) = Skip(s, p) ELSE Skip(z, p) = Len(s) + 2
           /\ IF WordEnd(s, p) \in DOMAIN s THEN WordEnd(z, p) = WordEnd(s, p)
              ELSE WordEnd(z, p) = Len(s) + 1
           /\ IF OperationEnd(s, p) \in DOMAIN s THEN OperationEnd(z, p) = OperationEnd(s, p)
              ELSE OperationEnd(z, p) = Len(s) + 2
<1> DEFINE n == Len(s)
<1>1. /\ n \in Nat /\ DOMAIN s = 1 .. n /\ Past(s) = n + 1
      /\ z \in Signs /\ Len(z) \in Nat /\ DOMAIN z = 1 .. Len(z) /\ Len(z) >= n + 2
      /\ n + 1 \in DOMAIN z /\ n + 2 \in DOMAIN z /\ Len(z) > Len(s)
  <2>1. /\ n \in Nat /\ DOMAIN s = 1 .. n /\ Past(s) = n + 1
        /\ z \in Signs /\ Len(z) \in Nat /\ DOMAIN z = 1 .. Len(z) /\ Len(z) >= n + 2
        /\ n + 1 \in DOMAIN z /\ n + 2 \in DOMAIN z
    BY ExtendsFacts, Zenon
  <2> QED BY <2>1
<1>2. (\A i \in 1 .. n : z[i] = s[i]) /\ z[n + 1] = " " /\ z[n + 2] = "|"
  BY ExtendsFacts, Zenon
<1>9. \A i \in DOMAIN s : i \in DOMAIN z /\ z[i] = s[i]
  <2>1. \A i \in DOMAIN s : i \in DOMAIN z
    BY <1>1
  <2> QED BY <1>1, <1>2, <2>1, Zenon
<1>8. \A q \in DOMAIN z : q >= Past(s) => n + 1 <= q /\ (q = n + 1 \/ n + 2 <= q)
  BY <1>1
<1>10. n + 1 >= Past(s) /\ n + 2 >= Past(s)
  BY <1>1
<1>3. /\ " " \in Spaces /\ "|" \notin Spaces /\ "|" \notin Keywords /\ " " \notin Keywords
      /\ "|" # " "
  BY DEF Spaces, Keywords, AggregateWords
<1>4. n \in 1 .. n /\ s[n] = Last(s)
  <2>1. n # 0
    BY EmptySeq, SignsOf
  <2> QED BY <1>1, <2>1 DEF Last
<1> HIDE DEF n
<1>5. IF Skip(s, p) \in DOMAIN s THEN Skip(z, p) = Skip(s, p) ELSE Skip(z, p) = n + 2
  <2> DEFINE S == {q \in DOMAIN s : s[q] \notin Spaces}
             T == {q \in DOMAIN z : z[q] \notin Spaces}
  <2>1. \A i \in DOMAIN s : i \in T <=> i \in S
    BY <1>9
  <2>2. n + 2 \in T /\ n + 2 >= Past(s) /\ \A q \in T : q >= Past(s) => n + 2 <= q
    <3>1. n + 1 \notin T /\ n + 2 \in T
      BY <1>1, <1>2, <1>3
    <3> QED BY <1>8, <1>10, <3>1, Zenon
  <2>3. S \in SUBSET (DOMAIN s) /\ T \in SUBSET (DOMAIN z)
    OBVIOUS
  <2> HIDE DEF S, T
  <2>4. /\ NextIn(s, p, S) \in DOMAIN s => NextIn(z, p, T) = NextIn(s, p, S)
        /\ NextIn(s, p, S) \notin DOMAIN s => NextIn(z, p, T) = n + 2
    BY <1>1, <2>1, <2>2, <2>3, NextPrefix
  <2> QED BY <2>4 DEF Skip, S, T
<1>6. IF WordEnd(s, p) \in DOMAIN s THEN WordEnd(z, p) = WordEnd(s, p) ELSE WordEnd(z, p) = n + 1
  <2> DEFINE S == {q \in DOMAIN s : s[q] \in Spaces \cup {"|", "("}}
             T == {q \in DOMAIN z : z[q] \in Spaces \cup {"|", "("}}
  <2>1. \A i \in DOMAIN s : i \in T <=> i \in S
    BY <1>9
  <2>2. n + 1 \in T /\ n + 1 >= Past(s) /\ \A q \in T : q >= Past(s) => n + 1 <= q
    <3>1. n + 1 \in T
      BY <1>1, <1>2, <1>3
    <3> QED BY <1>8, <1>10, <3>1, Zenon
  <2>3. S \in SUBSET (DOMAIN s) /\ T \in SUBSET (DOMAIN z)
    OBVIOUS
  <2> HIDE DEF S, T
  <2>4. /\ NextIn(s, p, S) \in DOMAIN s => NextIn(z, p, T) = NextIn(s, p, S)
        /\ NextIn(s, p, S) \notin DOMAIN s => NextIn(z, p, T) = n + 1
    BY <1>1, <2>1, <2>2, <2>3, NextPrefix
  <2> QED BY <2>4 DEF WordEnd, S, T
<1>7. IF OperationEnd(s, p) \in DOMAIN s THEN OperationEnd(z, p) = OperationEnd(s, p)
      ELSE OperationEnd(z, p) = n + 2
  <2> DEFINE Ends(t, q) ==
                \/ t[q] \in {"|", "\n"}
                \/ /\ t[q] = " "
                   /\ q + 2 <= Len(t)
                   /\ t[q + 1] \in Keywords
                   /\ t[q + 2] \in {" ", "("}
             S == {q \in DOMAIN s : Ends(s, q)}
             T == {q \in DOMAIN z : Ends(z, q)}
  <2>1. \A i \in DOMAIN s : Ends(z, i) <=> Ends(s, i)
    <3> SUFFICES ASSUME NEW i \in DOMAIN s PROVE Ends(z, i) <=> Ends(s, i)
      OBVIOUS
    <3>1. z[i] = s[i] /\ i \in Nat /\ i + 2 <= Len(z)
      <4>1. i \in 1 .. n
        BY <1>1
      <4> QED BY <1>1, <1>9, <4>1
    <3>2. CASE i + 2 <= Len(s)
      <4>1. i + 1 \in 1 .. n /\ i + 2 \in 1 .. n
        BY <1>1, <3>1, <3>2 DEF n
      <4>2. z[i + 1] = s[i + 1] /\ z[i + 2] = s[i + 2]
        BY <1>2, <4>1
      <4> QED BY <3>1, <3>2, <4>2, Zenon
    <3>3. CASE ~(i + 2 <= Len(s))
      <4>1. i = n \/ i + 1 = n
        BY <1>1, <3>1, <3>3 DEF n
      <4>2. i + 1 = n => z[i + 1] \notin Keywords
        BY <1>2, <1>4 DEF Closed
      <4>3. i = n => z[i + 1] \notin Keywords
        BY <1>2, <1>3
      <4> QED BY <3>1, <3>3, <4>1, <4>2, <4>3, Zenon
    <3> QED BY <3>2, <3>3
  <2>2. \A i \in DOMAIN s : i \in T <=> i \in S
    <3> QED BY <1>9, <2>1
  <2>3. n + 2 \in T /\ n + 2 >= Past(s) /\ \A q \in T : q >= Past(s) => n + 2 <= q
    <3>1. n + 2 \in T
      BY <1>1, <1>2
    <3>2. n + 1 \notin T
      <4>1. ~(z[n + 1] \in {"|", "\n"}) /\ z[(n + 1) + 1] \notin Keywords
        <5>1. (n + 1) + 1 = n + 2
          BY <1>1
        <5> QED BY <1>2, <1>3, <5>1
      <4> QED BY <4>1
    <3> QED BY <1>8, <1>10, <3>1, <3>2, Zenon
  <2>4. S \in SUBSET (DOMAIN s) /\ T \in SUBSET (DOMAIN z)
    OBVIOUS
  <2> HIDE DEF S, T
  <2>5. /\ NextIn(s, p, S) \in DOMAIN s => NextIn(z, p, T) = NextIn(s, p, S)
        /\ NextIn(s, p, S) \notin DOMAIN s => NextIn(z, p, T) = n + 2
    BY <1>1, <2>2, <2>3, <2>4, NextPrefix
  <2> QED BY <2>5 DEF OperationEnd, S, T
<1> QED BY <1>5, <1>6, <1>7 DEF n

\* At the separator it stays.
LEMMA SeparatorPositions ==
    ASSUME NEW s \in Signs, NEW z, Extends(z, s)
    PROVE  /\ Skip(z, Len(s) + 2) = Len(s) + 2
           /\ WordEnd(z, Len(s) + 2) = Len(s) + 2
           /\ OperationEnd(z, Len(s) + 2) = Len(s) + 2
<1> DEFINE m == Len(s) + 2
<1>1. z \in Signs /\ m \in Nat /\ m \in DOMAIN z /\ z[m] = "|" /\ DOMAIN z \subseteq Int
  <2>1. m \in Nat /\ m \in DOMAIN z /\ z[m] = "|" /\ z \in Signs /\ DOMAIN z = 1 .. Len(z)
    <3>1. /\ Len(s) \in Nat /\ z \in Signs /\ DOMAIN z = 1 .. Len(z)
          /\ z[Len(s) + 2] = "|" /\ Len(s) + 2 \in DOMAIN z
      BY ExtendsFacts, Zenon
    <3> QED BY <3>1
  <2> QED BY <2>1
<1> HIDE DEF m
<1>2. \A T \in SUBSET (DOMAIN z) : m \in T => NextIn(z, m, T) = m
  <2> SUFFICES ASSUME NEW T \in SUBSET (DOMAIN z), m \in T PROVE NextIn(z, m, T) = m
    OBVIOUS
  <2>1. m >= m /\ \A q \in T : q >= m => m <= q
    BY <1>1
  <2> QED BY <1>1, <2>1, NextIs
<1>3. Skip(z, m) = m
  BY <1>1, <1>2 DEF Skip, Spaces
<1>4. WordEnd(z, m) = m
  BY <1>1, <1>2 DEF WordEnd
<1>5. OperationEnd(z, m) = m
  BY <1>1, <1>2 DEF OperationEnd
<1> QED BY <1>3, <1>4, <1>5 DEF m

\* The field of a function ends at its parenthesis.
LEMMA PrefixField ==
    ASSUME NEW s \in Signs, Closed(s), NEW z, Extends(z, s), NEW p, SignAt(s, p, "(")
    PROVE  FieldEnd(s, p + 1) \in DOMAIN s /\ FieldEnd(z, p + 1) = FieldEnd(s, p + 1)
<1> DEFINE n == Len(s)
           Ends(t, q) ==
                \/ t[q] = ")"
                \/ /\ q + 2 <= Len(t)
                   /\ SubSeq(t, q, q + 2) = <<" ", "as", " ">>
           S == {q \in DOMAIN s : Ends(s, q)}
           T == {q \in DOMAIN z : Ends(z, q)}
           e == NextIn(s, p + 1, S)
<1>1. /\ n \in Nat /\ DOMAIN s = 1 .. n /\ Past(s) = n + 1
      /\ z \in Signs /\ Len(z) \in Nat /\ DOMAIN z = 1 .. Len(z) /\ Len(z) >= n + 2
  BY ExtendsFacts, Zenon
<1>10. \A i \in 1 .. n : z[i] = s[i]
  BY ExtendsFacts, Zenon
<1>2. PICK j \in DOMAIN s : j > p /\ s[j] = ")"
  BY DEF SignAt, Closed
<1>3. p \in 1 .. n
  BY <1>1 DEF SignAt
<1>11. p + 1 \in Nat /\ j >= p + 1 /\ j \in 1 .. n
  BY <1>1, <1>2, <1>3
<1>12. \A i \in 1 .. n : i \in DOMAIN s /\ i \in DOMAIN z
  BY <1>1
<1>4. S \in SUBSET (DOMAIN s) /\ T \in SUBSET (DOMAIN z) /\ j \in S
  BY <1>2
<1>5. \A i \in 1 .. n : i + 2 <= n => (i \in T <=> i \in S)
  <2> SUFFICES ASSUME NEW i \in 1 .. n, i + 2 <= n PROVE i \in T <=> i \in S
    OBVIOUS
  <2>1. /\ i \in 1 .. Len(s) /\ i \in 1 .. Len(z) /\ i + 2 <= Len(s) /\ i + 2 <= Len(z)
        /\ i + 1 \in 1 .. n /\ i + 2 \in 1 .. n
    BY <1>1
  <2>2. z[i] = s[i] /\ z[i + 1] = s[i + 1] /\ z[i + 2] = s[i + 2]
    BY <1>10, <2>1
  <2>3. SubSeq(z, i, i + 2) = SubSeq(s, i, i + 2)
    BY <1>1, <2>1, <2>2, SameSubSeq
  <2>4. Ends(z, i) <=> Ends(s, i)
    BY <2>1, <2>2, <2>3, Zenon
  <2> QED BY <1>12, <2>4
<1>6. \A i \in 1 .. n : i \in S => i \in T
  <2> SUFFICES ASSUME NEW i \in 1 .. n, i \in S PROVE i \in T
    OBVIOUS
  <2>1. CASE s[i] = ")"
    BY <1>10, <1>12, <2>1
  <2>2. CASE i + 2 <= n
    BY <1>5, <2>2, Zenon
  <2> QED BY <2>1, <2>2
<1>13. \A i \in S : s[i] = ")" \/ i + 2 <= n
  BY Zenon
<1>14. \A i \in T : z[i] = ")" \/ SubSeq(z, i, i + 2) = <<" ", "as", " ">>
  BY Zenon
<1>15. \A i \in 1 .. n : z[i] = ")" => i \in S
  BY <1>10, <1>12
<1> HIDE DEF S, T, n
<1>7. /\ e \in S /\ e >= p + 1 /\ \A q \in S : q >= p + 1 => e <= q
  <2>2. \/ e = Past(s) /\ \A q \in S : q < p + 1
        \/ e \in S /\ e >= p + 1 /\ \A q \in S : q >= p + 1 => e <= q
    BY <1>4, <1>11, NextWithin
  <2>3. ASSUME \A q \in S : q < p + 1 PROVE FALSE
    <3>1. j < p + 1
      BY <1>4, <2>3
    <3> QED BY <1>1, <1>3, <1>11, <3>1
  <2> QED BY <2>2, <2>3
<1>16. e \in 1 .. n
  BY <1>1, <1>4, <1>7
<1> HIDE DEF e
<1>8. \A q \in T : q >= p + 1 => e <= q
  <2> SUFFICES ASSUME NEW q \in T, q >= p + 1, ~(e <= q) PROVE FALSE
    OBVIOUS
  <2>1. q \in Int /\ q >= 1 /\ q < e /\ q \in 1 .. n
    <3>1. q \in Int
      BY <1>1, <1>4
    <3> QED BY <1>1, <1>3, <1>16, <3>1
  <2>7. q \notin S
    BY <1>7
  <2>2. ~(q + 2 <= n)
    BY <1>5, <2>1, <2>7
  <2>3. q + 1 = n /\ e = n
    BY <1>1, <1>16, <2>1, <2>2
  <2>4. s[n] = ")"
    <3>1. ~(e + 2 <= n)
      BY <1>1, <2>3
    <3> QED BY <1>7, <1>13, <2>3, <3>1
  <2>5. SubSeq(z, q, q + 2) = <<" ", "as", " ">>
    BY <1>14, <1>15, <2>1, <2>7
  <2>6. SubSeq(z, q, q + 2)[2] = z[q + 1]
    <3>2. q <= q + 2 /\ q + 2 <= Len(z) /\ q >= 1 /\ q \in Nat /\ q + 2 \in Nat
      BY <1>1, <2>1, <2>3
    <3>1. z \in Seq(Words) /\ \A i \in q .. q + 2 : z[i] \in Words
      <4>1. \A i \in q .. q + 2 : i \in 1 .. Len(z)
        BY <1>1, <3>2
      <4> QED BY <1>1, <4>1, SignsOf
    <3>3. \A i \in 1 .. (q + 2) - q + 1 : SubSeq(z, q, q + 2)[i] = z[q + i - 1]
      BY <3>1, <3>2, SubSeqProperties
    <3>4. 2 \in 1 .. (q + 2) - q + 1 /\ q + 2 - 1 = q + 1
      BY <3>2
    <3> QED BY <3>3, <3>4
  <2>8. z[n] = ")"
    BY <1>10, <1>16, <2>3, <2>4
  <2>9. z[q + 1] = "as"
    <3>1. <<" ", "as", " ">>[2] = "as"
      OBVIOUS
    <3> QED BY <2>5, <2>6, <3>1, Zenon
  <2> QED BY <2>3, <2>8, <2>9
<1>9. NextIn(z, p + 1, T) = e
  <2>1. e \in T /\ e >= p + 1 /\ p + 1 \in Nat
    BY <1>6, <1>7, <1>11, <1>16
  <2> QED BY <1>1, <1>4, <1>8, <2>1, NextIs
<1> QED BY <1>4, <1>7, <1>9 DEF FieldEnd, e, S, T

LEMMA EmptyPart ==
    ASSUME NEW s \in Signs, NEW p \in 1 .. Past(s)
    PROVE  Between(s, p, p) = <<>>
<1>1. s \in Seq(Words) /\ p \in Nat
  BY SignsOf
<1>2. SubSeq(s, p, p - 1) = <<>>
  BY <1>1, SubSeqEmpty
<1> QED BY <1>2 DEF Between

\* A closed text reads as it reads alone when a separator follows it.
LEMMA PrefixAlike ==
    ASSUME NEW s \in Signs, s # <<>>, Closed(s), NEW z, Extends(z, s)
    PROVE  Alike(s, z, 0)
<1> DEFINE n == Len(s)
           Same(p, q) == Corresponds(s, 0, p, q)
<1>1. /\ n \in Nat /\ DOMAIN s = 1 .. n /\ Past(s) = n + 1
      /\ z \in Signs /\ Len(z) \in Nat /\ DOMAIN z = 1 .. Len(z) /\ Past(z) = Len(z) + 1
      /\ Len(z) >= n + 2
  BY ExtendsFacts, Zenon
<1>2. (\A i \in 1 .. n : z[i] = s[i]) /\ z[n + 1] = " " /\ z[n + 2] = "|"
  BY ExtendsFacts, Zenon
<1>3. \A p \in 1 .. n + 1 :
          /\ Skip(s, p) \in p .. n + 1 /\ WordEnd(s, p) \in p .. n + 1
          /\ OperationEnd(s, p) \in p .. n + 1
  <2>1. 1 .. Past(s) = 1 .. n + 1 /\ \A p \in 1 .. n + 1 : p .. Past(s) = p .. n + 1
    BY <1>1
  <2> QED BY <2>1, CursorRanges
<1>4. \A p \in 1 .. n + 1 :
          /\ IF Skip(s, p) \in 1 .. n THEN Skip(z, p) = Skip(s, p) ELSE Skip(z, p) = n + 2
          /\ IF WordEnd(s, p) \in 1 .. n THEN WordEnd(z, p) = WordEnd(s, p) ELSE WordEnd(z, p) = n + 1
          /\ IF OperationEnd(s, p) \in 1 .. n THEN OperationEnd(z, p) = OperationEnd(s, p)
             ELSE OperationEnd(z, p) = n + 2
  <2>1. 1 .. Past(s) = 1 .. n + 1 /\ DOMAIN s = 1 .. n
    BY <1>1
  <2> QED BY <2>1, PrefixPositions
<1>5. Skip(z, n + 2) = n + 2 /\ WordEnd(z, n + 2) = n + 2 /\ OperationEnd(z, n + 2) = n + 2
  BY SeparatorPositions
<1>6. \A p : SignAt(s, p, "(") =>
          FieldEnd(s, p + 1) \in 1 .. n /\ FieldEnd(z, p + 1) = FieldEnd(s, p + 1)
  <2>1. DOMAIN s = 1 .. n
    BY <1>1
  <2> QED BY <2>1, PrefixField
<1> HIDE DEF n
<1>7. \A p, q : Same(p, q) <=> p \in 1 .. n + 1 /\ (q = p \/ (p = n + 1 /\ q = n + 2))
  <2> SUFFICES ASSUME NEW p, NEW q
               PROVE  Same(p, q) <=> p \in 1 .. n + 1 /\ (q = p \/ (p = n + 1 /\ q = n + 2))
    OBVIOUS
  <2>1. p \in 1 .. n + 1 => 0 + p = p /\ (p = n + 1 => p + 1 = n + 2)
    BY <1>1
  <2> QED BY <1>1, <2>1 DEF Corresponds
<1> HIDE DEF Same
<1>8. \A p, e \in 1 .. n + 1 : Between(s, p, e) = Between(z, p, e)
  <2> SUFFICES ASSUME NEW p \in 1 .. n + 1, NEW e \in 1 .. n + 1
               PROVE  Between(s, p, e) = Between(z, p, e)
    OBVIOUS
  <2>1. p \in 1 .. Past(s) /\ e \in 1 .. Past(s) /\ p \in 1 .. Past(z) /\ e \in 1 .. Past(z)
        /\ e - p = e - p
    BY <1>1
  <2>2. \A i \in 0 .. e - p - 1 : z[p + i] = s[p + i]
    <3> SUFFICES ASSUME NEW i \in 0 .. e - p - 1 PROVE z[p + i] = s[p + i]
      OBVIOUS
    <3>1. p + i \in 1 .. n
      BY <1>1
    <3> QED BY <1>2, <3>1
  <2> QED BY <1>1, <2>1, <2>2, PartIs
<1>9. \A p \in 1 .. n + 1 : Trim[Between(z, p, n + 2)] = Trim[Between(s, p, n + 1)]
  <2> SUFFICES ASSUME NEW p \in 1 .. n + 1
               PROVE  Trim[Between(z, p, n + 2)] = Trim[Between(s, p, n + 1)]
    OBVIOUS
  <2> DEFINE e == n + 1
  <2>1. e \in 1 .. Len(z) /\ p \in 1 .. e /\ e + 1 = n + 2 /\ e \in 1 .. n + 1 /\ z[e] = " "
    <3>1. e \in 1 .. Len(z) /\ p \in 1 .. e /\ e + 1 = n + 2 /\ e \in 1 .. n + 1
      BY <1>1
    <3> QED BY <1>2, <3>1
  <2>2. Between(s, p, e) = Between(z, p, e)
    BY <1>8, <2>1
  <2> HIDE DEF e
  <2>3. /\ Between(z, p, e) \in Signs
        /\ Between(z, p, e + 1) = Append(Between(z, p, e), " ")
    BY <1>1, <2>1, PartMore
  <2>4. Trim[Between(z, p, e + 1)] = Trim[Between(z, p, e)]
    BY <2>3, TrimSpace
  <2>5. Trim[Between(z, p, n + 2)] = Trim[Between(s, p, e)]
    BY <2>1, <2>2, <2>4, Zenon
  <2> QED BY <2>5 DEF e
<1>10. \A q \in 1 .. Past(z) : Between(z, q, q) = <<>>
  BY <1>1, EmptyPart
<1> SUFFICES ASSUME NEW p, NEW q, Same(p, q) PROVE AlikeAt(s, z, 0, p, q)
  BY DEF Alike, Same
<1>11. CASE p \in 1 .. n
  <2>1. p \in 1 .. n + 1 /\ q = p /\ p # n + 1
    BY <1>1, <1>7, <1>11
  <2>2. p \in DOMAIN s => q \in DOMAIN z /\ z[q] = s[p] /\ Same(p + 1, q + 1)
    <3>1. q \in DOMAIN z /\ p + 1 \in 1 .. n + 1
      BY <1>1, <1>11, <2>1
    <3> QED BY <1>2, <1>7, <1>11, <2>1, <3>1
  <2>3. \A i \in 1 .. n + 1 : i \in 1 .. n \/ i = n + 1
    BY <1>1
  <2>4. \A i \in p .. n + 1 : i \in 1 .. n + 1
    BY <1>1, <1>11
  <2>5. ASSUME NEW i \in 1 .. n PROVE \A sign : SignAt(s, i, sign) <=> SignAt(z, i, sign)
    <3>2. i \in DOMAIN s /\ i \in DOMAIN z
      BY <1>1, <2>5
    <3>1. i \in DOMAIN s /\ i \in DOMAIN z /\ z[i] = s[i]
      BY <1>2, <2>5, <3>2
    <3> QED BY <3>1 DEF SignAt
  <2>6. Skip(s, p) \in 1 .. n + 1 /\ Same(Skip(s, p), Skip(z, q))
    BY <1>3, <1>4, <1>7, <2>1, <2>3, <2>4
  <2>7. WordEnd(s, p) \in 1 .. n + 1 /\ WordEnd(z, q) = WordEnd(s, p)
    BY <1>3, <1>4, <2>1, <2>3, <2>4
  <2>8. OperationEnd(s, p) \in 1 .. n + 1 /\ Same(OperationEnd(s, p), OperationEnd(z, q))
    BY <1>3, <1>4, <1>7, <2>1, <2>3, <2>4
  <2>9. Same(WordEnd(s, p), WordEnd(z, q))
    BY <1>7, <2>7
  <2>10. Word(s, p) = Word(z, q)
    BY <1>8, <2>1, <2>7 DEF Word
  <2>11. Rest(s, p) = Rest(z, q)
    <3>1. CASE OperationEnd(s, p) \in 1 .. n
      <4>1. OperationEnd(z, q) = OperationEnd(s, p)
        BY <1>4, <2>1, <3>1
      <4> QED BY <1>8, <2>1, <2>8, <4>1, Zenon DEF Rest
    <3>2. CASE OperationEnd(s, p) \notin 1 .. n
      <4>1. OperationEnd(s, p) = n + 1 /\ OperationEnd(z, q) = n + 2
        BY <1>4, <2>1, <2>3, <2>8, <3>2
      <4> QED BY <1>9, <2>1, <4>1 DEF Rest
    <3> QED BY <3>1, <3>2
  <2>12. SignAt(s, p, "(") =>
            /\ Same(FieldEnd(s, p + 1), FieldEnd(z, q + 1))
            /\ Between(s, p + 1, FieldEnd(s, p + 1)) = Between(z, q + 1, FieldEnd(z, q + 1))
    <3> SUFFICES ASSUME SignAt(s, p, "(")
                 PROVE  /\ Same(FieldEnd(s, p + 1), FieldEnd(z, q + 1))
                        /\ Between(s, p + 1, FieldEnd(s, p + 1)) = Between(z, q + 1, FieldEnd(z, q + 1))
      OBVIOUS
    <3>1. FieldEnd(s, p + 1) \in 1 .. n /\ FieldEnd(z, q + 1) = FieldEnd(s, p + 1)
      BY <1>6, <2>1
    <3>2. FieldEnd(s, p + 1) \in 1 .. n + 1 /\ p + 1 \in 1 .. n + 1
      BY <1>1, <1>11, <3>1
    <3> QED BY <1>7, <1>8, <2>1, <3>1, <3>2
  <2>13. Start(s, p) \in DOMAIN s => Same(Start(s, p), Start(z, q))
    <3> SUFFICES ASSUME Start(s, p) \in 1 .. n PROVE Same(Start(s, p), Start(z, q))
      BY <1>1
    <3>1. Skip(s, p) \in 1 .. n
      <4>1. CASE SignAt(s, Skip(s, p), "|")
        BY <1>1, <4>1 DEF SignAt
      <4>2. CASE ~SignAt(s, Skip(s, p), "|")
        BY <4>2 DEF Start
      <4> QED BY <4>1, <4>2
    <3>2. Skip(z, q) = Skip(s, p) /\ (SignAt(s, Skip(s, p), "|") <=> SignAt(z, Skip(z, q), "|"))
      BY <1>4, <2>1, <2>5, <3>1
    <3>3. CASE SignAt(s, Skip(s, p), "|")
      <4>1. Skip(s, p) + 1 \in 1 .. n + 1
        BY <1>1, <3>1
      <4>2. Skip(s, Skip(s, p) + 1) \in 1 .. n
        BY <3>3 DEF Start
      <4>3. Skip(z, Skip(s, p) + 1) = Skip(s, Skip(s, p) + 1)
        BY <1>4, <4>1, <4>2
      <4>4. Start(s, p) = Start(z, q)
        BY <3>2, <3>3, <4>3 DEF Start
      <4>5. Start(s, p) \in 1 .. n + 1
        BY <1>1
      <4> QED BY <1>7, <4>4, <4>5
    <3>4. CASE ~SignAt(s, Skip(s, p), "|")
      BY <2>6, <3>2, <3>4 DEF Start
    <3> QED BY <3>3, <3>4
  <2>14. p \in DOMAIN s /\ WordEnd(s, p) = p + 1 => WordEnd(z, q) = q + 1
    BY <2>1, <2>7
  <2>15. \A sign : SignAt(s, p, sign) <=> SignAt(z, q, sign)
    BY <1>11, <2>1, <2>5
  <2> QED BY <2>2, <2>6, <2>8, <2>9, <2>10, <2>11, <2>12, <2>13, <2>14, <2>15 DEF AlikeAt, Same
<1>12. CASE p = n + 1
  <2>1. p \in 1 .. n + 1 /\ (q = n + 1 \/ q = n + 2) /\ p \notin DOMAIN s /\ n + 1 \notin 1 .. n
        /\ q \in 1 .. Past(z) /\ p \in 1 .. Past(s) /\ n + 1 \in 1 .. n + 1
    BY <1>1, <1>7, <1>12
  <2>2. Skip(s, p) = n + 1 /\ WordEnd(s, p) = n + 1 /\ OperationEnd(s, p) = n + 1
    <3>1. /\ Skip(s, p) \in n + 1 .. n + 1 /\ WordEnd(s, p) \in n + 1 .. n + 1
          /\ OperationEnd(s, p) \in n + 1 .. n + 1
      BY <1>3, <1>12, <2>1
    <3> QED BY <1>1, <3>1
  <2>3. Skip(z, q) = n + 2 /\ WordEnd(z, q) = q /\ OperationEnd(z, q) = n + 2
    <3>1. q = n + 1 => Skip(z, q) = n + 2 /\ WordEnd(z, q) = n + 1 /\ OperationEnd(z, q) = n + 2
      BY <1>4, <1>12, <2>1, <2>2
    <3> QED BY <1>5, <2>1, <3>1
  <2>4. Same(n + 1, n + 1) /\ Same(n + 1, n + 2)
    BY <1>7, <2>1
  <2>5. Same(Skip(s, p), Skip(z, q)) /\ Same(OperationEnd(s, p), OperationEnd(z, q))
        /\ Same(WordEnd(s, p), WordEnd(z, q))
    BY <2>1, <2>2, <2>3, <2>4
  <2>6. Word(s, p) = <<>> /\ Word(z, q) = <<>>
    BY <1>10, <1>12, <2>1, <2>2, <2>3, EmptyPart DEF Word
  <2>7. Rest(s, p) = Rest(z, q)
    <3>1. CASE q = n + 1
      BY <1>9, <1>12, <2>1, <2>2, <2>3, <3>1 DEF Rest
    <3>2. CASE q = n + 2
      <4>1. Between(s, p, OperationEnd(s, p)) = <<>>
        BY <1>12, <2>1, <2>2, EmptyPart
      <4>2. Between(z, q, OperationEnd(z, q)) = <<>>
        BY <1>10, <2>1, <2>3, <3>2
      <4> QED BY <4>1, <4>2 DEF Rest
    <3> QED BY <2>1, <3>1, <3>2
  <2>8. \A sign : ~SignAt(s, p, sign)
    BY <2>1 DEF SignAt
  <2>9. \A sign : sign \notin {" ", "|"} => ~SignAt(z, q, sign)
    BY <1>2, <2>1 DEF SignAt
  <2>10. Start(s, p) \notin DOMAIN s
    BY <2>1, <2>2, <2>8, <1>1, <1>12 DEF Start
  <2> QED BY <2>1, <2>5, <2>6, <2>7, <2>8, <2>9, <2>10 DEF AlikeAt, Same
<1> QED BY <1>1, <1>7, <1>11, <1>12

-----------------------------------------------------------------------------
(* How a text reads: one operation behind another.                           *)

IsSequence(o) == \E S : o \in Seq(S)

\* From p on, op stands next, and it ends at e.
OperationAt(s, p, op, e) == Read(s, Start(s, p), Returned(op, e)) /\ e # 0

\* From p on, the operations o stand in s, and the last of them ends at e.
Leads(s, p, o, e) ==
    \E at \in [1 .. Len(o) + 1 -> 1 .. Past(s)] :
        /\ at[1] = p /\ at[Len(o) + 1] = e
        /\ \A i \in 1 .. Len(o) : OperationAt(s, at[i], o[i], at[i + 1])

\* From p on, s holds the operations o and nothing else.
Reads(s, p, o) ==
    /\ IsSequence(o)
    /\ \E e \in 1 .. Past(s) : Leads(s, p, o, e) /\ Start(s, e) > Len(s)

LEMMA Subsorts ==
    ASSUME NEW S, NEW T, S \subseteq T, NEW o \in Seq(S)
    PROVE  o \in Seq(T)
<1>1. o \in [1 .. Len(o) -> S] /\ Len(o) \in Nat
  BY LenProperties
<1>2. o \in [1 .. Len(o) -> T]
  BY <1>1
<1> QED BY <1>1, <1>2, SeqDef

LEMMA CommonSort ==
    ASSUME NEW o1, NEW o2, IsSequence(o1), IsSequence(o2)
    PROVE  \E S : o1 \in Seq(S) /\ o2 \in Seq(S)
<1>1. PICK S1 : o1 \in Seq(S1)
  BY DEF IsSequence
<1>2. PICK S2 : o2 \in Seq(S2)
  BY DEF IsSequence
<1>3. S1 \subseteq S1 \cup S2 /\ S2 \subseteq S1 \cup S2
  OBVIOUS
<1>4. o1 \in Seq(S1 \cup S2) /\ o2 \in Seq(S1 \cup S2)
  BY <1>1, <1>2, <1>3, Subsorts
<1> QED BY <1>4

LEMMA SequenceFacts ==
    ASSUME NEW o, IsSequence(o)
    PROVE  Len(o) \in Nat /\ (o = <<>> <=> Len(o) = 0)
<1>1. PICK S : o \in Seq(S)
  BY DEF IsSequence
<1> QED BY <1>1, LenProperties, EmptySeq

LEMMA OneMore ==
    ASSUME NEW o, IsSequence(o), NEW op
    PROVE  /\ IsSequence(Append(o, op)) /\ Len(Append(o, op)) = Len(o) + 1
           /\ \A i \in 1 .. Len(o) : Append(o, op)[i] = o[i]
           /\ Append(o, op)[Len(o) + 1] = op
<1>1. PICK S : o \in Seq(S)
  BY DEF IsSequence
<1> DEFINE T == S \cup {op}
<1>2. o \in Seq(T) /\ op \in T
  BY <1>1, Subsorts
<1> HIDE DEF T
<1>3. Append(o, op) \in Seq(T)
  BY <1>2, AppendProperties
<1> QED BY <1>2, <1>3, AppendProperties DEF IsSequence

LEMMA OneBehind ==
    ASSUME NEW o1, NEW o2, IsSequence(o1), IsSequence(o2)
    PROVE  /\ IsSequence(o1 \o o2) /\ Len(o1 \o o2) = Len(o1) + Len(o2)
           /\ \A i \in 1 .. Len(o1) : (o1 \o o2)[i] = o1[i]
           /\ \A i \in 1 .. Len(o2) : (o1 \o o2)[Len(o1) + i] = o2[i]
<1>1. PICK S : o1 \in Seq(S) /\ o2 \in Seq(S)
  BY CommonSort
<1>2. /\ o1 \o o2 \in Seq(S) /\ Len(o1 \o o2) = Len(o1) + Len(o2)
      /\ \A i \in 1 .. Len(o1) + Len(o2) : (o1 \o o2)[i] = IF i <= Len(o1) THEN o1[i] ELSE o2[i - Len(o1)]
  BY <1>1, ConcatProperties
<1>3. Len(o1) \in Nat /\ Len(o2) \in Nat
  BY SequenceFacts
<1>4. \A i \in 1 .. Len(o1) : (o1 \o o2)[i] = o1[i]
  BY <1>2, <1>3
<1>5. \A i \in 1 .. Len(o2) : (o1 \o o2)[Len(o1) + i] = o2[i]
  <2> SUFFICES ASSUME NEW i \in 1 .. Len(o2) PROVE (o1 \o o2)[Len(o1) + i] = o2[i]
    OBVIOUS
  <2>1. Len(o1) + i \in 1 .. Len(o1) + Len(o2) /\ ~(Len(o1) + i <= Len(o1)) /\ Len(o1) + i - Len(o1) = i
    BY <1>3
  <2> QED BY <1>2, <2>1
<1> QED BY <1>2, <1>4, <1>5 DEF IsSequence

\* An operation is within its text.
LEMMA OperationWithin ==
    ASSUME NEW s \in Signs, NEW p, NEW op, NEW e, OperationAt(s, p, op, e)
    PROVE  Start(s, p) \in DOMAIN s /\ e \in 1 .. Past(s)
<1>1. Read(s, Start(s, p), Returned(op, e)) /\ e # 0
  BY DEF OperationAt
<1>2. Start(s, p) \in DOMAIN s /\ Sound(s, Start(s, p), Returned(op, e))
  BY <1>1, ReadSound
<1>3. Returned(op, e) # Error
  BY <1>1 DEF Error, Returned
<1>4. PICK op2 : \E end \in Start(s, p) + 1 .. Past(s) : Returned(op, e) = Returned(op2, end)
  BY <1>2, <1>3, Zenon DEF Sound
<1>5. e \in Start(s, p) + 1 .. Past(s)
  BY <1>4 DEF Returned
<1>6. Start(s, p) \in Nat /\ Past(s) \in Nat
  BY <1>2, SignsOf
<1> QED BY <1>2, <1>5, <1>6

LEMMA LeadsNowhere ==
    ASSUME NEW s \in Signs, NEW p \in 1 .. Past(s)
    PROVE  Leads(s, p, <<>>, p)
<1> DEFINE at == [i \in 1 .. 1 |-> p]
<1>1. Len(<<>>) = 0
  OBVIOUS
<1>2. at \in [1 .. Len(<<>>) + 1 -> 1 .. Past(s)] /\ at[1] = p /\ at[Len(<<>>) + 1] = p
  BY <1>1
<1>3. \A i \in 1 .. Len(<<>>) : FALSE
  BY <1>1
<1> HIDE DEF at
<1> QED BY <1>2, <1>3 DEF Leads

LEMMA LeadsOn ==
    ASSUME NEW s \in Signs, NEW p, NEW o, NEW e, IsSequence(o), Leads(s, p, o, e),
           NEW op, NEW f, OperationAt(s, e, op, f)
    PROVE  Leads(s, p, Append(o, op), f)
<1>1. PICK at \in [1 .. Len(o) + 1 -> 1 .. Past(s)] :
          /\ at[1] = p /\ at[Len(o) + 1] = e
          /\ \A i \in 1 .. Len(o) : OperationAt(s, at[i], o[i], at[i + 1])
  BY DEF Leads
<1> DEFINE n == Len(o)
           o2 == Append(o, op)
           at2 == [i \in 1 .. n + 2 |-> IF i <= n + 1 THEN at[i] ELSE f]
<1>2. /\ n \in Nat /\ Len(o2) = n + 1 /\ (\A i \in 1 .. n : o2[i] = o[i]) /\ o2[n + 1] = op
  BY SequenceFacts, OneMore
<1>3. f \in 1 .. Past(s)
  BY OperationWithin
<1> HIDE DEF o2, n
<1>4. at2 \in [1 .. n + 2 -> 1 .. Past(s)]
  <2> SUFFICES ASSUME NEW i \in 1 .. n + 2 PROVE (IF i <= n + 1 THEN at[i] ELSE f) \in 1 .. Past(s)
    OBVIOUS
  <2>1. i <= n + 1 => i \in 1 .. Len(o) + 1
    BY <1>2 DEF n
  <2> QED BY <1>3, <2>1
<1>5. (\A i \in 1 .. n + 1 : at2[i] = at[i]) /\ at2[n + 2] = f
  BY <1>2
<1> HIDE DEF at2
<1>6. at2[1] = p /\ at2[Len(o2) + 1] = f
  <2>1. 1 \in 1 .. n + 1 /\ Len(o2) + 1 = n + 2
    BY <1>2
  <2> QED BY <1>1, <1>5, <2>1
<1>7. \A i \in 1 .. Len(o2) : OperationAt(s, at2[i], o2[i], at2[i + 1])
  <2> SUFFICES ASSUME NEW i \in 1 .. n + 1 PROVE OperationAt(s, at2[i], o2[i], at2[i + 1])
    BY <1>2
  <2>1. CASE i = n + 1
    <3>1. at2[i] = e /\ at2[i + 1] = f /\ o2[i] = op
      <4>1. i + 1 = n + 2 /\ i \in 1 .. n + 1
        BY <1>2, <2>1
      <4> QED BY <1>1, <1>2, <1>5, <2>1, <4>1 DEF n
    <3> QED BY <3>1
  <2>2. CASE i # n + 1
    <3>1. i \in 1 .. n /\ i + 1 \in 1 .. n + 1
      BY <1>2, <2>2
    <3> QED BY <1>1, <1>2, <1>5, <3>1 DEF n
  <2> QED BY <2>1, <2>2
<1>8. at2 \in [1 .. Len(o2) + 1 -> 1 .. Past(s)]
  <2>1. Len(o2) + 1 = n + 2
    BY <1>2
  <2> QED BY <1>4, <2>1
<1>9. Leads(s, p, o2, f)
  BY <1>6, <1>7, <1>8 DEF Leads
<1> QED BY <1>9 DEF o2

\* What leads on to a place and what is read from there read as one.
LEMMA LeadsAndReads ==
    ASSUME NEW s \in Signs, NEW p, NEW o, NEW e, IsSequence(o), Leads(s, p, o, e),
           NEW o2, Reads(s, e, o2)
    PROVE  Reads(s, p, o \o o2)
<1>1. PICK a \in [1 .. Len(o) + 1 -> 1 .. Past(s)] :
          /\ a[1] = p /\ a[Len(o) + 1] = e
          /\ \A i \in 1 .. Len(o) : OperationAt(s, a[i], o[i], a[i + 1])
  BY DEF Leads
<1>2. PICK f \in 1 .. Past(s) : Leads(s, e, o2, f) /\ Start(s, f) > Len(s)
  BY DEF Reads
<1>3. PICK b \in [1 .. Len(o2) + 1 -> 1 .. Past(s)] :
          /\ b[1] = e /\ b[Len(o2) + 1] = f
          /\ \A i \in 1 .. Len(o2) : OperationAt(s, b[i], o2[i], b[i + 1])
  BY <1>2 DEF Leads
<1> DEFINE n == Len(o)
           m == Len(o2)
           z == o \o o2
           c == [i \in 1 .. n + m + 1 |-> IF i <= n THEN a[i] ELSE b[i - n]]
<1>4. IsSequence(o2)
  BY DEF Reads
<1>5. /\ n \in Nat /\ m \in Nat /\ IsSequence(z) /\ Len(z) = n + m
      /\ (\A i \in 1 .. n : z[i] = o[i]) /\ \A i \in 1 .. m : z[n + i] = o2[i]
  BY <1>4, SequenceFacts, OneBehind
<1> HIDE DEF z, n, m
<1>13. \A i \in 1 .. n + m + 1 : c[i] = IF i <= n THEN a[i] ELSE b[i - n]
  OBVIOUS
<1>6. (\A i \in 1 .. n : c[i] = a[i]) /\ \A i \in 1 .. m + 1 : c[n + i] = b[i]
  <2>1. \A i \in 1 .. n : c[i] = a[i]
    BY <1>5
  <2>2. \A i \in 1 .. m + 1 : c[n + i] = b[i]
    <3> SUFFICES ASSUME NEW i \in 1 .. m + 1 PROVE c[n + i] = b[i]
      OBVIOUS
    <3> DEFINE j == n + i
    <3>1. j \in 1 .. n + m + 1 /\ ~(j <= n) /\ j - n = i
      BY <1>5
    <3> HIDE DEF c, j
    <3>2. c[j] = b[i]
      BY <1>13, <3>1
    <3> QED BY <3>2 DEF j
  <2> QED BY <2>1, <2>2
<1>7. c \in [1 .. n + m + 1 -> 1 .. Past(s)]
  <2> SUFFICES ASSUME NEW i \in 1 .. n + m + 1
               PROVE  (IF i <= n THEN a[i] ELSE b[i - n]) \in 1 .. Past(s)
    OBVIOUS
  <2>1. i <= n => i \in 1 .. Len(o) + 1
    BY <1>5 DEF n
  <2>2. ~(i <= n) => i - n \in 1 .. Len(o2) + 1
    BY <1>5 DEF m
  <2> QED BY <2>1, <2>2
<1> HIDE DEF c
<1>8. c[n + 1] = e /\ c[n + m + 1] = f
  <2>1. 1 \in 1 .. m + 1 /\ m + 1 \in 1 .. m + 1 /\ n + (m + 1) = n + m + 1
    BY <1>5
  <2> QED BY <1>3, <1>6, <2>1 DEF m
<1>9. c[1] = p
  <2>1. CASE n = 0
    <3>1. n + 1 = 1 /\ Len(o) + 1 = 1
      BY <2>1 DEF n
    <3> QED BY <1>1, <1>8, <3>1
  <2>2. CASE n # 0
    <3>1. 1 \in 1 .. n
      BY <1>5, <2>2
    <3> QED BY <1>1, <1>6, <3>1
  <2> QED BY <2>1, <2>2
<1>10. \A i \in 1 .. n + 1 : c[i] = a[i]
  <2>1. \A i \in 1 .. n + 1 : i \in 1 .. n \/ i = n + 1
    BY <1>5
  <2> QED BY <1>1, <1>6, <1>8, <2>1 DEF n
<1>11. \A i \in 1 .. n + m : OperationAt(s, c[i], z[i], c[i + 1])
  <2> SUFFICES ASSUME NEW i \in 1 .. n + m PROVE OperationAt(s, c[i], z[i], c[i + 1])
    OBVIOUS
  <2>1. CASE i <= n
    <3>1. i \in 1 .. n /\ i \in 1 .. n + 1 /\ i + 1 \in 1 .. n + 1
      BY <1>5, <2>1
    <3> QED BY <1>1, <1>5, <1>10, <3>1 DEF n
  <2>2. CASE ~(i <= n)
    <3> DEFINE j == i - n
    <3>1. j \in 1 .. m /\ j \in 1 .. m + 1 /\ j + 1 \in 1 .. m + 1 /\ i = n + j /\ i + 1 = n + (j + 1)
      BY <1>5, <2>2
    <3> HIDE DEF j
    <3>2. c[i] = b[j] /\ c[i + 1] = b[j + 1] /\ z[i] = o2[j]
      BY <1>5, <1>6, <3>1
    <3> QED BY <1>3, <3>1, <3>2 DEF m
  <2> QED BY <2>1, <2>2
<1>12. Leads(s, p, z, f)
  <2>1. Len(z) + 1 = n + m + 1
    BY <1>5
  <2> QED BY <1>5, <1>7, <1>8, <1>9, <1>11, <2>1 DEF Leads
<1> QED BY <1>2, <1>5, <1>12 DEF Reads, z

\* What is read begins with its first operation.
LEMMA FirstIsRead ==
    ASSUME NEW s \in Signs, NEW p, NEW o, Reads(s, p, o), o # <<>>
    PROVE  \E e : OperationAt(s, p, Head(o), e) /\ Reads(s, e, Tail(o))
<1>1. PICK f \in 1 .. Past(s) : Leads(s, p, o, f) /\ Start(s, f) > Len(s)
  BY DEF Reads
<1>2. PICK a \in [1 .. Len(o) + 1 -> 1 .. Past(s)] :
          /\ a[1] = p /\ a[Len(o) + 1] = f
          /\ \A i \in 1 .. Len(o) : OperationAt(s, a[i], o[i], a[i + 1])
  BY <1>1 DEF Leads
<1>3. PICK S : o \in Seq(S)
  BY DEF Reads, IsSequence
<1> DEFINE n == Len(o)
           t == Tail(o)
           b == [i \in 1 .. n |-> a[i + 1]]
<1>4. /\ n \in Nat /\ n >= 1 /\ t \in Seq(S) /\ Len(t) = n - 1
      /\ \A i \in 1 .. n - 1 : t[i] = o[i + 1]
  <2>1. n \in Nat /\ n # 0
    BY <1>3, LenProperties, EmptySeq
  <2>2. t \in Seq(S) /\ Len(t) = n - 1 /\ \A i \in 1 .. Len(t) : t[i] = o[i + 1]
    BY <1>3, HeadTailProperties
  <2> QED BY <2>1, <2>2
<1>5. Head(o) = o[1]
  BY <1>3
<1> HIDE DEF n, t
<1>6. b \in [1 .. n -> 1 .. Past(s)]
  <2> SUFFICES ASSUME NEW i \in 1 .. n PROVE a[i + 1] \in 1 .. Past(s)
    OBVIOUS
  <2>1. i + 1 \in 1 .. Len(o) + 1
    BY <1>4 DEF n
  <2> QED BY <2>1
<1>7. \A i \in 1 .. n : b[i] = a[i + 1]
  OBVIOUS
<1> HIDE DEF b
<1>8. Len(t) + 1 = n /\ n \in 1 .. n /\ 1 \in 1 .. n
  BY <1>4
<1>9. b[Len(t) + 1] = f
  BY <1>2, <1>7, <1>8 DEF n
<1>10. \A i \in 1 .. Len(t) : OperationAt(s, b[i], t[i], b[i + 1])
  <2> SUFFICES ASSUME NEW i \in 1 .. n - 1 PROVE OperationAt(s, b[i], t[i], b[i + 1])
    BY <1>4
  <2> DEFINE j == i + 1
  <2>1. j \in 1 .. n /\ i \in 1 .. n
    BY <1>4
  <2>2. b[i] = a[j] /\ b[j] = a[j + 1] /\ t[i] = o[j]
    BY <1>4, <1>7, <2>1
  <2> HIDE DEF j
  <2>3. OperationAt(s, a[j], o[j], a[j + 1])
    BY <1>2, <2>1 DEF n
  <2> QED BY <2>2, <2>3 DEF j
<1>11. Leads(s, a[2], t, f)
  <2>1. b[1] = a[2]
    BY <1>7, <1>8
  <2> QED BY <1>6, <1>8, <1>9, <1>10, <2>1 DEF Leads
<1>12. OperationAt(s, p, Head(o), a[2])
  <2>1. OperationAt(s, a[1], o[1], a[1 + 1])
    BY <1>2, <1>8 DEF n
  <2> QED BY <1>2, <1>5, <2>1
<1>13. Reads(s, a[2], t)
  BY <1>1, <1>4, <1>11 DEF Reads, IsSequence
<1> QED BY <1>12, <1>13 DEF t

\* An operation of a text is one of a text that reads alike.
LEMMA AlikeOperation ==
    ASSUME NEW s \in Signs, NEW z \in Signs, NEW n \in Nat, Alike(s, z, n),
           NEW p, NEW q, Corresponds(s, n, p, q), NEW op, NEW e, OperationAt(s, p, op, e)
    PROVE  \E f : OperationAt(z, q, op, f) /\ Corresponds(s, n, e, f)
<1> DEFINE k == Start(s, p)
           l == Start(z, q)
<1>1. k \in DOMAIN s /\ e \in 1 .. Past(s) /\ Read(s, k, Returned(op, e))
  BY OperationWithin DEF OperationAt
<1>2. Corresponds(s, n, k, l)
  BY <1>1, Zenon DEF Alike, AlikeAt
<1> HIDE DEF k, l
<1>3. /\ l \in DOMAIN z /\ z[l] = s[k]
      /\ WordEnd(s, k) = k + 1 => WordEnd(z, l) = l + 1
  BY <1>1, <1>2, Zenon DEF Alike, AlikeAt
<1>4. \A keywords : KeywordAt(s, k, keywords) => KeywordAt(z, l, keywords)
  BY <1>3 DEF KeywordAt
<1>5. Returned(op, e) # Error
  <2>1. e # 0
    BY DEF OperationAt
  <2> QED BY <2>1 DEF Error, Returned
<1>6. ASSUME NEW r, SameResult(s, z, n, Returned(op, e), r)
      PROVE  \E f : r = Returned(op, f) /\ Corresponds(s, n, e, f)
  <2>1. PICK op2, e1, e2 : /\ Returned(op, e) = Returned(op2, e1) /\ r = Returned(op2, e2)
                           /\ Corresponds(s, n, e1, e2)
    BY <1>5, <1>6, Zenon DEF SameResult
  <2>2. op2 = op /\ e1 = e
    BY <2>1 DEF Returned
  <2> QED BY <2>1, <2>2
<1>7. \E r : SameResult(s, z, n, Returned(op, e), r) /\ Read(z, l, r)
  BY <1>1, <1>2, <1>4, ResultsAlike, Zenon DEF Read
<1>8. PICK f : Read(z, l, Returned(op, f)) /\ Corresponds(s, n, e, f)
  BY <1>6, <1>7
<1>9. f # 0
  <2>1. e \in Nat /\ e >= 1
    BY <1>1, SignsOf
  <2> QED BY <1>8, <2>1 DEF Corresponds
<1> QED BY <1>8, <1>9 DEF OperationAt, l

LEMMA SkipInside ==
    ASSUME NEW s \in Signs, Last(s) \notin Spaces, NEW p \in 1 .. Len(s)
    PROVE  Skip(s, p) \in 1 .. Len(s)
<1> DEFINE S == {q \in DOMAIN s : s[q] \notin Spaces}
<1>1. Len(s) \in Nat /\ DOMAIN s = 1 .. Len(s) /\ Past(s) = Len(s) + 1
  BY SignsOf
<1>2. p \in Nat /\ p <= Len(s) /\ Len(s) \in DOMAIN s
  BY <1>1
<1>3. Len(s) \in S
  BY <1>2 DEF Last
<1>4. S \in SUBSET (DOMAIN s)
  OBVIOUS
<1> HIDE DEF S
<1>5. \/ NextIn(s, p, S) = Past(s) /\ \A q \in S : q < p
      \/ NextIn(s, p, S) \in S
  BY <1>2, <1>4, NextWithin
<1>6. ~(\A q \in S : q < p)
  <2>1. ~(Len(s) < p)
    BY <1>1, <1>2
  <2> QED BY <1>3, <2>1
<1>7. NextIn(s, p, S) \in 1 .. Len(s)
  BY <1>1, <1>4, <1>5, <1>6
<1> QED BY <1>7 DEF Skip, S

\* A closed text is read to its end.
LEMMA StartInside ==
    ASSUME NEW s \in Signs, Last(s) \notin Spaces, Closed(s), NEW p \in 1 .. Len(s)
    PROVE  Start(s, p) \in 1 .. Len(s)
<1>1. Skip(s, p) \in 1 .. Len(s) /\ Len(s) \in Nat
  BY SkipInside, SignsOf
<1>2. CASE SignAt(s, Skip(s, p), "|")
  <2>1. Skip(s, p) # Len(s)
    BY <1>2 DEF SignAt, Closed, Last
  <2>2. Skip(s, p) + 1 \in 1 .. Len(s)
    BY <1>1, <2>1
  <2>3. Skip(s, Skip(s, p) + 1) \in 1 .. Len(s)
    BY <2>2, SkipInside
  <2> QED BY <1>2, <2>3 DEF Start
<1>3. CASE ~SignAt(s, Skip(s, p), "|")
  BY <1>1, <1>3 DEF Start
<1> QED BY <1>2, <1>3

\* What is read of a closed text is read when a separator follows it.
LEMMA PrefixReads ==
    ASSUME NEW s \in Signs, s # <<>>, Last(s) \notin Spaces, Closed(s), NEW z, Extends(z, s),
           NEW p, NEW q, Corresponds(s, 0, p, q), NEW o, Reads(s, p, o)
    PROVE  \E f \in {Len(s) + 1, Len(s) + 2} : Leads(z, q, o, f)
<1> DEFINE n == Len(s)
           m == Len(o)
<1>1. /\ n \in Nat /\ Past(s) = n + 1 /\ DOMAIN s = 1 .. n
      /\ z \in Signs /\ Len(z) \in Nat /\ Past(z) = Len(z) + 1 /\ Len(z) >= n + 2
  BY ExtendsFacts, Zenon
<1>2. PICK e \in 1 .. Past(s) : Leads(s, p, o, e) /\ Start(s, e) > Len(s)
  BY DEF Reads
<1>3. PICK a \in [1 .. m + 1 -> 1 .. Past(s)] :
          /\ a[1] = p /\ a[m + 1] = e
          /\ \A i \in 1 .. m : OperationAt(s, a[i], o[i], a[i + 1])
  BY <1>2 DEF Leads
<1>4. e = n + 1
  <2>1. e \notin 1 .. n
    <3> SUFFICES ASSUME e \in 1 .. n PROVE FALSE
      OBVIOUS
    <3>1. Start(s, e) \in 1 .. n
      BY StartInside
    <3> QED BY <1>1, <1>2, <3>1
  <2> QED BY <1>1, <2>1
<1>5. m \in Nat /\ (o = <<>> <=> m = 0)
  BY SequenceFacts DEF Reads
<1>6. \A x, y : Corresponds(s, 0, x, y) =>
          /\ x \in 1 .. n + 1
          /\ x # n + 1 => y = x
          /\ x = n + 1 => y \in {n + 1, n + 2}
  <2> SUFFICES ASSUME NEW x, NEW y, Corresponds(s, 0, x, y)
               PROVE  x \in 1 .. n + 1 /\ (x # n + 1 => y = x) /\ (x = n + 1 => y \in {n + 1, n + 2})
    OBVIOUS
  <2>1. x \in 1 .. Past(s) /\ (y = 0 + x \/ (x = Past(s) /\ y = x + 1))
    BY DEF Corresponds
  <2> QED BY <1>1, <2>1
<1> HIDE DEF n, m
<1>7. CASE m = 0
  <2>1. p = n + 1
    <3>1. m + 1 = 1
      BY <1>7
    <3> QED BY <1>3, <1>4, <3>1
  <2>2. q \in {n + 1, n + 2} /\ q \in 1 .. Past(z)
    BY <1>1, <1>6, <2>1
  <2>3. Leads(z, q, <<>>, q)
    BY <1>1, <2>2, LeadsNowhere
  <2> QED BY <1>5, <1>7, <2>2, <2>3 DEF n
<1>8. CASE m # 0
  <2>1. \A i \in 1 .. m : a[i] \in 1 .. n
    <3> SUFFICES ASSUME NEW i \in 1 .. m PROVE a[i] \in 1 .. n
      OBVIOUS
    <3>1. a[i] \in 1 .. Past(s)
      <4>1. i \in 1 .. m + 1
        BY <1>5
      <4> QED BY <1>3, <4>1
    <3>2. OperationAt(s, a[i], o[i], a[i + 1])
      BY <1>3
    <3>3. Start(s, a[i]) \in DOMAIN s
      BY <3>2, OperationWithin
    <3>4. Start(s, a[i]) \in a[i] .. Past(s)
      BY <3>1, StartWithin
    <3> QED BY <1>1, <3>1, <3>3, <3>4
  <2>2. q = p
    <3>1. p \in 1 .. n
      <4>1. 1 \in 1 .. m
        BY <1>5, <1>8
      <4> QED BY <1>3, <2>1, <4>1
    <3> QED BY <1>1, <1>6, <3>1
  <2>3. \A i \in 1 .. m : \E f : OperationAt(z, a[i], o[i], f) /\ Corresponds(s, 0, a[i + 1], f)
    <3> SUFFICES ASSUME NEW i \in 1 .. m
                 PROVE  \E f : OperationAt(z, a[i], o[i], f) /\ Corresponds(s, 0, a[i + 1], f)
      OBVIOUS
    <3>1. Alike(s, z, 0)
      BY PrefixAlike
    <3>2. a[i] \in 1 .. n /\ OperationAt(s, a[i], o[i], a[i + 1])
      BY <1>3, <2>1
    <3>3. Corresponds(s, 0, a[i], a[i])
      BY <1>1, <3>2 DEF Corresponds
    <3> QED BY <1>1, <3>1, <3>2, <3>3, AlikeOperation
  <2>4. \A i \in 1 .. m - 1 : OperationAt(z, a[i], o[i], a[i + 1])
    <3> SUFFICES ASSUME NEW i \in 1 .. m - 1 PROVE OperationAt(z, a[i], o[i], a[i + 1])
      OBVIOUS
    <3>1. i \in 1 .. m /\ i + 1 \in 1 .. m
      BY <1>5
    <3>2. PICK f : OperationAt(z, a[i], o[i], f) /\ Corresponds(s, 0, a[i + 1], f)
      BY <2>3, <3>1
    <3>3. a[i + 1] # n + 1
      BY <1>1, <2>1, <3>1
    <3> QED BY <1>6, <3>2, <3>3
  <2>5. PICK f : OperationAt(z, a[m], o[m], f) /\ Corresponds(s, 0, a[m + 1], f)
    <3>1. m \in 1 .. m
      BY <1>5, <1>8
    <3> QED BY <2>3, <3>1
  <2>6. f \in {n + 1, n + 2}
    BY <1>3, <1>4, <1>6, <2>5
  <2> DEFINE b == [i \in 1 .. m + 1 |-> IF i <= m THEN a[i] ELSE f]
  <2>7. b \in [1 .. m + 1 -> 1 .. Past(z)]
    <3> SUFFICES ASSUME NEW i \in 1 .. m + 1 PROVE (IF i <= m THEN a[i] ELSE f) \in 1 .. Past(z)
      OBVIOUS
    <3>1. i <= m => a[i] \in 1 .. n
      BY <1>5, <2>1
    <3> QED BY <1>1, <2>6, <3>1
  <2>8. (\A i \in 1 .. m : b[i] = a[i]) /\ b[m + 1] = f
    BY <1>5
  <2> HIDE DEF b
  <2>9. b[1] = q
    <3>1. 1 \in 1 .. m
      BY <1>5, <1>8
    <3> QED BY <1>3, <2>2, <2>8, <3>1
  <2>10. \A i \in 1 .. m : OperationAt(z, b[i], o[i], b[i + 1])
    <3> SUFFICES ASSUME NEW i \in 1 .. m PROVE OperationAt(z, b[i], o[i], b[i + 1])
      OBVIOUS
    <3>1. CASE i = m
      BY <2>5, <2>8, <3>1
    <3>2. CASE i # m
      <4>1. i \in 1 .. m - 1 /\ i + 1 \in 1 .. m
        BY <1>5, <3>2
      <4> QED BY <2>4, <2>8, <4>1
    <3> QED BY <3>1, <3>2
  <2>11. Leads(z, q, o, f)
    BY <2>7, <2>8, <2>9, <2>10 DEF Leads, m
  <2> QED BY <2>6, <2>11 DEF n
<1> QED BY <1>7, <1>8

\* What is read of a text that begins with a separator is read behind another.
LEMMA SuffixReads ==
    ASSUME NEW s \in Signs, s # <<>>, Closed(s), NEW u \in Signs, Extends(s \o u, s),
           NEW o, Reads(u, 1, o), NEW e \in {Len(s) + 1, Len(s) + 2}
    PROVE  Reads(s \o u, e, o)
<1> DEFINE n == Len(s)
           m == Len(o)
           z == s \o u
<1>1. /\ n \in Nat /\ n # 0 /\ z \in Signs /\ Len(z) = n + Len(u) /\ Len(u) \in Nat
      /\ Past(s) = n + 1 /\ Past(u) = Len(u) + 1 /\ Past(z) = n + Len(u) + 1
      /\ DOMAIN s = 1 .. n /\ Len(z) >= n + 2
  <2>1. n # 0
    BY EmptySeq, SignsOf
  <2>2. Len(z) >= n + 2
    BY ExtendsFacts, Zenon
  <2>3. /\ n \in Nat /\ z \in Signs /\ Len(z) = n + Len(u) /\ Len(u) \in Nat
        /\ Past(s) = n + 1 /\ Past(u) = Len(u) + 1 /\ DOMAIN s = 1 .. n
    BY ConcatSigns, SignsOf
  <2>4. Past(z) = Len(z) + 1
    BY <2>3, SignsOf
  <2> HIDE DEF z
  <2> QED BY <2>1, <2>2, <2>3, <2>4
<1>2. Start(z, n + 1) = Start(z, n + 2)
  <2>1. Skip(z, n + 1) = n + 2
    <3>1. n + 1 \in 1 .. Past(s)
      BY <1>1
    <3>2. Skip(s, n + 1) \in n + 1 .. Past(s)
      BY <3>1, CursorRanges
    <3>3. Skip(s, n + 1) \notin DOMAIN s
      BY <1>1, <3>2
    <3> QED BY <3>1, <3>3, PrefixPositions
  <2>2. Skip(z, n + 2) = n + 2
    BY SeparatorPositions
  <2> QED BY <2>1, <2>2 DEF Start
<1>3. \A p \in 1 .. Past(u) : Start(z, n + p) = n + Start(u, p) /\ Start(u, p) \in 1 .. Past(u)
  BY ShiftStart
<1>4. Alike(u, z, n)
  BY SuffixAlike
<1>5. PICK f \in 1 .. Past(u) : Leads(u, 1, o, f) /\ Start(u, f) > Len(u)
  BY DEF Reads
<1>6. PICK a \in [1 .. m + 1 -> 1 .. Past(u)] :
          /\ a[1] = 1 /\ a[m + 1] = f
          /\ \A i \in 1 .. m : OperationAt(u, a[i], o[i], a[i + 1])
  BY <1>5 DEF Leads
<1>7. m \in Nat
  BY SequenceFacts DEF Reads
<1> HIDE DEF n, m, z
<1>8. Start(z, e) = Start(z, n + 1)
  BY <1>2 DEF n
<1>9. \A i \in 1 .. m : OperationAt(z, n + a[i], o[i], n + a[i + 1])
  <2> SUFFICES ASSUME NEW i \in 1 .. m PROVE OperationAt(z, n + a[i], o[i], n + a[i + 1])
    OBVIOUS
  <2>1. OperationAt(u, a[i], o[i], a[i + 1]) /\ a[i] \in 1 .. Past(u)
    <3>1. i \in 1 .. m + 1
      BY <1>7
    <3> QED BY <1>6, <3>1
  <2>2. Corresponds(u, n, a[i], n + a[i])
    BY <2>1 DEF Corresponds
  <2>3. PICK x : OperationAt(z, n + a[i], o[i], x) /\ Corresponds(u, n, a[i + 1], x)
    BY <1>1, <1>4, <2>1, <2>2, AlikeOperation
  <2>4. x = n + a[i + 1]
    BY <1>1, <2>3 DEF Corresponds
  <2> QED BY <2>3, <2>4
<1> DEFINE b == [i \in 1 .. m + 1 |-> IF i = 1 THEN e ELSE n + a[i]]
<1>10. b \in [1 .. m + 1 -> 1 .. Past(z)]
  <2> SUFFICES ASSUME NEW i \in 1 .. m + 1 PROVE (IF i = 1 THEN e ELSE n + a[i]) \in 1 .. Past(z)
    OBVIOUS
  <2>1. a[i] \in 1 .. Past(u)
    BY <1>6
  <2>2. e \in 1 .. Past(z)
    BY <1>1 DEF n
  <2> QED BY <1>1, <2>1, <2>2
<1>11. b[1] = e /\ \A i \in 2 .. m + 1 : b[i] = n + a[i]
  BY <1>7
<1> HIDE DEF b
<1>12. \A i \in 1 .. m : OperationAt(z, b[i], o[i], b[i + 1])
  <2> SUFFICES ASSUME NEW i \in 1 .. m PROVE OperationAt(z, b[i], o[i], b[i + 1])
    OBVIOUS
  <2>1. b[i + 1] = n + a[i + 1] /\ OperationAt(z, n + a[i], o[i], n + a[i + 1])
    <3>1. i + 1 \in 2 .. m + 1
      BY <1>7
    <3> QED BY <1>9, <1>11, <3>1
  <2>2. CASE i = 1
    <3>1. n + a[i] = n + 1 /\ b[i] = e
      BY <1>6, <1>11, <2>2
    <3> QED BY <1>8, <2>1, <3>1 DEF OperationAt
  <2>3. CASE i # 1
    <3>1. i \in 2 .. m + 1
      BY <1>7, <2>3
    <3> QED BY <1>11, <2>1, <3>1
  <2> QED BY <2>2, <2>3
<1>13. b[m + 1] \in 1 .. Past(z) /\ Leads(z, e, o, b[m + 1])
  <2>1. m + 1 \in 1 .. m + 1
    BY <1>7
  <2> QED BY <1>10, <1>11, <1>12, <2>1 DEF Leads, m
<1>14. Start(z, b[m + 1]) > Len(z)
  <2>1. Start(z, n + f) > Len(z)
    BY <1>1, <1>3, <1>5
  <2>2. CASE m = 0
    <3>1. m + 1 = 1
      BY <2>2
    <3>2. f = 1 /\ b[m + 1] = e
      BY <1>6, <1>11, <3>1
    <3> QED BY <1>8, <2>1, <3>2
  <2>3. CASE m # 0
    <3>1. m + 1 \in 2 .. m + 1
      BY <1>7, <2>3
    <3> QED BY <1>6, <1>11, <2>1, <3>1
  <2> QED BY <2>2, <2>3
<1> QED BY <1>13, <1>14 DEF Reads, z

\* What a trimmed text ends in.
LEMMA TrimEnds ==
    ASSUME NEW s \in Signs, Trim[s] # <<>>
    PROVE  Last(Trim[s]) \notin Spaces
<1> DEFINE kept == {i \in DOMAIN s : s[i] \notin Spaces}
           low == Min(kept)
           high == Max(kept)
<1>1. kept # {} /\ Trim[s] = SubSeq(s, low, high)
  <2>1. Trim[s] = IF kept = {} THEN <<>> ELSE SubSeq(s, low, high)
    BY DEF Trim
  <2> HIDE DEF kept
  <2> QED BY <2>1
<1>2. /\ s \in Seq(Words) /\ Len(s) \in Nat /\ DOMAIN s = 1 .. Len(s)
      /\ \A i \in 1 .. Len(s) : s[i] \in Words
  BY SignsOf
<1>3. kept \in SUBSET (1 .. Len(s)) /\ \A i \in kept : s[i] \notin Spaces
  BY <1>2
<1> HIDE DEF kept
<1>4. low \in kept /\ high \in kept /\ low <= high
  BY <1>1, <1>2, <1>3, LeastPosition, GreatestPosition
<1>5. low \in 1 .. Len(s) /\ high \in 1 .. Len(s) /\ s[high] \notin Spaces
  BY <1>3, <1>4
<1> HIDE DEF low, high
<1>6. \A i \in low .. high : s[i] \in Words
  BY <1>2, <1>5
<1>7. /\ Len(SubSeq(s, low, high)) = high - low + 1
      /\ \A i \in 1 .. high - low + 1 : SubSeq(s, low, high)[i] = s[low + i - 1]
  BY <1>2, <1>4, <1>5, <1>6, SubSeqProperties
<1>8. high - low + 1 \in 1 .. high - low + 1 /\ low + (high - low + 1) - 1 = high
  BY <1>2, <1>4, <1>5
<1>9. Last(SubSeq(s, low, high)) = s[high]
  BY <1>7, <1>8 DEF Last
<1> QED BY <1>1, <1>5, <1>9

\* A text that neither begins nor ends in a space is trimmed.
LEMMA TrimItself ==
    ASSUME NEW s \in Signs, s # <<>>, s[1] \notin Spaces, Last(s) \notin Spaces
    PROVE  Trim[s] = s
<1> DEFINE kept == {i \in DOMAIN s : s[i] \notin Spaces}
           low == Min(kept)
           high == Max(kept)
<1>1. Trim[s] = IF kept = {} THEN <<>> ELSE SubSeq(s, low, high)
  BY DEF Trim
<1>2. s \in Seq(Words) /\ Len(s) \in Nat /\ DOMAIN s = 1 .. Len(s) /\ Len(s) # 0
  BY SignsOf, EmptySeq
<1>3. 1 \in kept /\ Len(s) \in kept /\ kept \in SUBSET (1 .. Len(s))
  <2>1. 1 \in DOMAIN s /\ Len(s) \in DOMAIN s
    BY <1>2
  <2> QED BY <1>2, <2>1 DEF Last
<1> HIDE DEF kept
<1>4. low \in kept /\ low <= 1
  BY <1>2, <1>3, LeastPosition
<1>5. high \in kept /\ high >= Len(s)
  BY <1>2, <1>3, GreatestPosition
<1>6. low = 1 /\ high = Len(s)
  <2> HIDE DEF low, high
  <2>1. low \in 1 .. Len(s) /\ high \in 1 .. Len(s)
    BY <1>3, <1>4, <1>5
  <2>2. Len(s) \in Nat /\ low <= 1 /\ high >= Len(s)
    BY <1>2, <1>4, <1>5
  <2> QED BY <2>1, <2>2
<1>7. SubSeq(s, 1, Len(s)) = s
  BY <1>2, SubSeqFull
<1> QED BY <1>1, <1>3, <1>6, <1>7

LEMMA LastBehind ==
    ASSUME NEW s \in Signs, NEW u \in Signs, u # <<>>
    PROVE  s \o u # <<>> /\ Last(s \o u) = Last(u)
<1> DEFINE z == s \o u
           n == Len(s)
           m == Len(u)
<1>1. /\ z \in Signs /\ Len(z) = n + m
      /\ \A i \in 1 .. m : z[n + i] = u[i]
  BY ConcatSigns
<1>2. n \in Nat /\ m \in Nat /\ m # 0
  BY SignsOf, EmptySeq
<1> HIDE DEF z
<1>3. Last(z) = z[n + m] /\ Last(u) = u[m]
  BY <1>1 DEF Last
<1>4. m \in 1 .. m /\ n + m # 0
  BY <1>2
<1>5. z # <<>>
  <2>1. Len(<<>>) = 0
    OBVIOUS
  <2> QED BY <1>1, <1>4, <2>1
<1> QED BY <1>1, <1>3, <1>4, <1>5 DEF z

\* The text s reads as the operations o.
Whole(s, o) ==
    /\ SignAt(s, 1, "signal=") /\ IsSignal(Rest(s, 2))
    /\ Reads(s, OperationEnd(s, 2), o)

Separator == <<" ", "|", " ">>

LEMMA SeparatorExtends ==
    ASSUME NEW s \in Signs, NEW r \in Signs
    PROVE  /\ Separator \in Signs /\ Separator \o r \in Signs
           /\ s \o Separator \o r = s \o (Separator \o r)
           /\ Extends(s \o (Separator \o r), s)
<1> DEFINE u == Separator \o r
           z == s \o u
<1>1. Separator \in Seq(Words)
  <2> DEFINE a == " "
             b == "|"
  <2>1. a \in Words /\ b \in Words
    BY ParserAssumption
  <2> HIDE DEF a, b
  <2>2. <<a, b, a>> \in Seq(Words)
    BY <2>1
  <2> QED BY <2>2 DEF a, b, Separator
<1>2. /\ Len(Separator) = 3 /\ Separator[1] = " " /\ Separator[2] = "|" /\ Separator \in Signs
  BY <1>1 DEF Separator, Signs
<1>3. u \in Signs /\ Len(u) = 3 + Len(r) /\ Len(r) \in Nat /\ u[1] = " " /\ u[2] = "|"
  <2>1. u \in Signs /\ Len(u) = Len(Separator) + Len(r) /\ \A i \in 1 .. Len(Separator) : u[i] = Separator[i]
    BY <1>2, ConcatSigns
  <2>2. 1 \in 1 .. Len(Separator) /\ 2 \in 1 .. Len(Separator)
    <3>1. Len(Separator) = 3
      BY <1>2
    <3> QED BY <3>1
  <2>3. Len(u) = 3 + Len(r) /\ u[1] = " " /\ u[2] = "|"
    BY <1>2, <2>1, <2>2
  <2> QED BY <2>1, <2>3, SignsOf
<1>4. s \o Separator \o r = s \o u
  BY <1>1, SignsOf, ConcatAssociative
<1> HIDE DEF u
<1>5. Extends(z, s)
  <2>1. /\ z \in Signs /\ Len(z) = Len(s) + Len(u) /\ Len(s) \in Nat
        /\ \A i \in 1 .. Len(s) : z[i] = s[i]
    BY <1>3, ConcatSigns, SignsOf
  <2>2. \A i \in 1 .. Len(u) : z[Len(s) + i] = u[i]
    BY <1>3, ConcatSigns
  <2>6. Len(u) \in Nat /\ Len(u) >= 3
    <3>1. Len(u) = 3 + Len(r) /\ Len(r) \in Nat
      BY <1>3
    <3> QED BY <3>1
  <2>3. 1 \in 1 .. Len(u) /\ 2 \in 1 .. Len(u)
    BY <2>6
  <2>4. z[Len(s) + 1] = " " /\ z[Len(s) + 2] = "|"
    BY <1>3, <2>2, <2>3
  <2>5. Len(z) >= Len(s) + 2
    <3>1. Len(z) = Len(s) + Len(u) /\ Len(s) \in Nat
      BY <2>1
    <3> QED BY <2>6, <3>1
  <2> QED BY <2>1, <2>4, <2>5 DEF Extends
<1> QED BY <1>2, <1>3, <1>4, <1>5 DEF u

\* A refinement of a closed text reads as the operations of the text and then
\* its own.
LEMMA RefinedReads ==
    ASSUME NEW s \in Signs, Last(s) \notin Spaces, Closed(s), NEW o, Whole(s, o),
           NEW r \in Signs, r # <<>>, Last(r) \notin Spaces, NEW o2, Reads(Separator \o r, 1, o2)
    PROVE  /\ Whole(s \o Separator \o r, o \o o2)
           /\ Trim[s \o Separator \o r] = s \o Separator \o r
<1> DEFINE u == Separator \o r
           z == s \o u
<1>1. u \in Signs /\ s \o Separator \o r = z /\ Extends(z, s)
  BY SeparatorExtends
<1>2. /\ Len(s) \in Nat /\ DOMAIN s = 1 .. Len(s) /\ Past(s) = Len(s) + 1
      /\ z \in Signs /\ DOMAIN z = 1 .. Len(z) /\ Len(z) \in Nat /\ Len(z) >= Len(s) + 2
  BY <1>1, ExtendsFacts, Zenon
<1>3. 1 \in DOMAIN s /\ s[1] = "signal=" /\ z[1] = s[1] /\ s # <<>>
  <2>1. 1 \in DOMAIN s /\ s[1] = "signal="
    BY DEF Whole, SignAt
  <2>2. \A i \in 1 .. Len(s) : z[i] = s[i]
    BY <1>1, ExtendsFacts, Zenon
  <2> QED BY <1>2, <2>1, <2>2
<1>4. Alike(s, z, 0)
  BY <1>1, <1>3, PrefixAlike
<1>5. Corresponds(s, 0, 2, 2)
  <2>1. 2 \in 1 .. Past(s)
    BY <1>2, <1>3
  <2> QED BY <2>1 DEF Corresponds
<1>6. Rest(z, 2) = Rest(s, 2) /\ Corresponds(s, 0, OperationEnd(s, 2), OperationEnd(z, 2))
  BY <1>4, <1>5, Zenon DEF Alike, AlikeAt
<1>7. SignAt(z, 1, "signal=")
  BY <1>2, <1>3 DEF SignAt
<1>8. Reads(s, OperationEnd(s, 2), o)
  BY DEF Whole
<1> HIDE DEF z
<1>9. PICK f \in {Len(s) + 1, Len(s) + 2} : Leads(z, OperationEnd(z, 2), o, f)
  BY <1>1, <1>3, <1>6, <1>8, PrefixReads
<1>10. Reads(z, f, o2)
  BY <1>1, <1>3, SuffixReads DEF z
<1>11. Reads(z, OperationEnd(z, 2), o \o o2)
  <2>1. IsSequence(o)
    BY <1>8 DEF Reads
  <2> QED BY <1>2, <1>9, <1>10, <2>1, LeadsAndReads
<1>12. Whole(z, o \o o2)
  BY <1>6, <1>7, <1>11 DEF Whole
<1>13. Trim[z] = z
  <2>1. "signal=" \notin Spaces
    BY DEF Spaces
  <2>2. Last(z) \notin Spaces
    <3>1. Separator \in Signs
      BY SeparatorExtends
    <3>2. u # <<>> /\ Last(u) = Last(r)
      BY <3>1, LastBehind
    <3> HIDE DEF u
    <3>3. Last(z) = Last(u)
      BY <1>1, <3>2, LastBehind DEF z
    <3> QED BY <3>2, <3>3
  <2>3. z # <<>>
    BY <1>2
  <2> QED BY <1>2, <1>3, <2>1, <2>2, <2>3, TrimItself
<1> QED BY <1>1, <1>12, <1>13

-----------------------------------------------------------------------------
(* What is read is what is meant.                                            *)

\* The lines whose meaning is known read as their writers mean them, each by
\* itself, and so does what the shell appends to a query.
MeantTexts ==
    /\ \A line \in Texts : line.known => Whole(Trim[line.text], line.ops)
    /\ \A r \in Refinements : Reads(Separator \o r.text, 1, r.ops)

\* The operations taken are those the text leads to pos with.
Taken ==
    /\ status \in {"reading", "accepted", "refused"}
    /\ text # <<>> => Last(text) \notin Spaces
    /\ signal = "unread" => ops = <<>> /\ status # "accepted"
    /\ signal # "unread" /\ status = "reading" =>
          /\ SignAt(text, 1, "signal=") /\ IsSignal(Rest(text, 2))
          /\ IsSequence(ops) /\ Leads(text, OperationEnd(text, 2), ops, pos)
    /\ status = "accepted" => Whole(text, ops)

\* The operations that are meant are those taken and those ahead of pos.
Expected ==
    meant.known =>
        /\ status # "refused"
        /\ status = "reading" /\ signal = "unread" => Whole(text, meant.ops)
        /\ status = "reading" /\ signal # "unread" =>
              \E rest : meant.ops = ops \o rest /\ Reads(text, pos, rest)
        /\ status = "accepted" => ops = meant.ops

MeantInv == IInv /\ Taken /\ Expected

LEMMA MeantInit ==
    ASSUME MeantTexts
    PROVE  Init => MeantInv
<1> SUFFICES ASSUME Init PROVE Taken /\ Expected
  BY InitInv DEF MeantInv
<1>1. PICK line \in Texts :
          /\ text = Trim[line.text] /\ signal = "unread" /\ ops = <<>> /\ status = "reading"
          /\ meant = [known |-> line.known, ops |-> line.ops]
  BY DEF Init
<1>2. text # <<>> => Last(text) \notin Spaces
  <2>1. line.text \in Signs
    BY TextsParsed
  <2> QED BY <1>1, <2>1, TrimEnds
<1>3. Taken
  BY <1>1, <1>2 DEF Taken
<1>4. meant.known = line.known /\ meant.ops = line.ops
  BY <1>1
<1>5. Expected
  BY <1>1, <1>4 DEF Expected, MeantTexts
<1> QED BY <1>3, <1>5

\* The signal of a text is read.
LEMMA MeantSignal ==
    ASSUME MeantInv, ReadSignal
    PROVE  Taken' /\ Expected'
<1>1. /\ text \in Signs /\ status = "reading" /\ signal = "unread" /\ ops = <<>>
      /\ text # <<>> => Last(text) \notin Spaces
  BY DEF MeantInv, IInv, Taken, ReadSignal
<1>2. meant.known => Whole(text, meant.ops)
  BY <1>1 DEF MeantInv, Expected
<1>3. CASE SignAt(text, 1, "signal=") /\ IsSignal(Rest(text, 2))
  <2>1. /\ pos' = OperationEnd(text, 2) /\ signal' = SignalNames[Rest(text, 2)[1]]
        /\ text' = text /\ ops' = ops /\ status' = status /\ meant' = meant
    BY <1>3, Zenon DEF ReadSignal
  <2>2. signal' # "unread"
    <3>1. \A n \in DOMAIN SignalNames : SignalNames[n] # "unread"
      BY DEF SignalNames
    <3> QED BY <1>3, <2>1, <3>1 DEF IsSignal
  <2>3. OperationEnd(text, 2) \in 1 .. Past(text)
    BY <1>1, CursorWithin
  <2>4. Leads(text, OperationEnd(text, 2), <<>>, OperationEnd(text, 2))
    BY <1>1, <2>3, LeadsNowhere
  <2>5. IsSequence(<<>>)
    <3>1. <<>> \in Seq({})
      OBVIOUS
    <3> QED BY <3>1 DEF IsSequence
  <2>6. Taken'
    BY <1>1, <1>3, <2>1, <2>2, <2>4, <2>5 DEF Taken
  <2>7. meant.known => meant.ops = ops \o meant.ops /\ Reads(text, OperationEnd(text, 2), meant.ops)
    <3> SUFFICES ASSUME meant.known
                 PROVE  meant.ops = ops \o meant.ops /\ Reads(text, OperationEnd(text, 2), meant.ops)
      OBVIOUS
    <3>1. Reads(text, OperationEnd(text, 2), meant.ops)
      BY <1>2 DEF Whole
    <3>2. PICK S : meant.ops \in Seq(S)
      BY <3>1 DEF Reads, IsSequence
    <3> QED BY <1>1, <3>1, <3>2, ConcatEmptySeq
  <2>8. Expected'
    BY <1>1, <2>1, <2>2, <2>7 DEF Expected
  <2> QED BY <2>6, <2>8
<1>4. CASE ~(SignAt(text, 1, "signal=") /\ IsSignal(Rest(text, 2)))
  <2>1. Refuse
    BY <1>4, Zenon DEF ReadSignal
  <2>2. ~meant.known
    BY <1>2, <1>4 DEF Whole
  <2>3. Taken'
    BY <1>1, <2>1 DEF Taken, Refuse
  <2>4. Expected'
    BY <2>1, <2>2 DEF Expected, Refuse
  <2> QED BY <2>3, <2>4
<1> QED BY <1>3, <1>4

\* What is ahead of pos decides what the next step does.
LEMMA AheadDecides ==
    ASSUME text \in Signs, NEW rest, Reads(text, pos, rest)
    PROVE  /\ rest = <<>> =>
                 Here > Len(text) /\ \A result : ~Read(text, Here, result)
           /\ rest # <<>> =>
                 \E e : /\ OperationAt(text, pos, Head(rest), e) /\ Reads(text, e, Tail(rest))
                        /\ Here \in DOMAIN text /\ KeywordAt(text, Here, Keywords)
                        /\ \A result : Read(text, Here, result) => result = Returned(Head(rest), e)
                        /\ Returned(Head(rest), e) # Error
<1>1. Len(text) \in Nat /\ DOMAIN text = 1 .. Len(text)
  BY SignsOf
<1>2. ASSUME rest = <<>>
      PROVE  Here > Len(text) /\ \A result : ~Read(text, Here, result)
  <2>1. PICK e \in 1 .. Past(text) : Leads(text, pos, rest, e) /\ Start(text, e) > Len(text)
    BY DEF Reads
  <2>2. e = pos
    <3>1. Len(rest) = 0
      BY <1>2
    <3>2. Len(rest) + 1 = 1
      BY <3>1
    <3> QED BY <2>1, <3>2 DEF Leads
  <2>3. Here > Len(text)
    BY <2>1, <2>2 DEF Here
  <2>4. Here \notin DOMAIN text
    BY <1>1, <2>3
  <2>5. \A result : Read(text, Here, result) => Here \in DOMAIN text
    BY ReadSound
  <2> QED BY <2>3, <2>4, <2>5
<1>3. ASSUME rest # <<>>
      PROVE  \E e : /\ OperationAt(text, pos, Head(rest), e) /\ Reads(text, e, Tail(rest))
                    /\ Here \in DOMAIN text /\ KeywordAt(text, Here, Keywords)
                    /\ \A result : Read(text, Here, result) => result = Returned(Head(rest), e)
                    /\ Returned(Head(rest), e) # Error
  <2>1. PICK e : OperationAt(text, pos, Head(rest), e) /\ Reads(text, e, Tail(rest))
    BY <1>3, FirstIsRead
  <2>2. Read(text, Here, Returned(Head(rest), e)) /\ e # 0
    BY <2>1 DEF OperationAt, Here
  <2>3. Returned(Head(rest), e) # Error
    BY <2>2 DEF Error, Returned
  <2>4. Here \in DOMAIN text /\ KeywordAt(text, Here, Keywords)
    BY <2>2, ReadSound, ReadKeyword
  <2>5. \A result : Read(text, Here, result) => result = Returned(Head(rest), e)
    BY <2>2, ReadOnce
  <2> QED BY <2>1, <2>3, <2>4, <2>5
<1> QED BY <1>2, <1>3

\* The first of what is ahead is moved behind what was taken.
LEMMA HeadMoves ==
    ASSUME NEW o, NEW rest, IsSequence(o), IsSequence(rest), rest # <<>>
    PROVE  o \o rest = Append(o, Head(rest)) \o Tail(rest)
<1>1. PICK S : o \in Seq(S) /\ rest \in Seq(S)
  BY CommonSort
<1>2. /\ Head(rest) \in S /\ Tail(rest) \in Seq(S) /\ Len(Tail(rest)) = Len(rest) - 1
      /\ \A i \in 1 .. Len(Tail(rest)) : Tail(rest)[i] = rest[i + 1]
      /\ Head(rest) = rest[1]
  BY <1>1, HeadTailProperties
<1>3. Append(o, Head(rest)) = o \o <<Head(rest)>> /\ <<Head(rest)>> \in Seq(S)
  BY <1>1, <1>2, AppendIsConcat
<1>4. <<Head(rest)>> \o Tail(rest) = rest
  BY <1>1
<1>5. (o \o <<Head(rest)>>) \o Tail(rest) = o \o (<<Head(rest)>> \o Tail(rest))
  BY <1>1, <1>2, <1>3, ConcatAssociative
<1> QED BY <1>3, <1>4, <1>5

\* An operation is read, or the text refused.
LEMMA MeantOperation ==
    ASSUME MeantInv, ParseOperation
    PROVE  Taken' /\ Expected'
<1>1. /\ text \in Signs /\ status = "reading" /\ signal # "unread"
      /\ text # <<>> => Last(text) \notin Spaces
      /\ SignAt(text, 1, "signal=") /\ IsSignal(Rest(text, 2))
      /\ IsSequence(ops) /\ Leads(text, OperationEnd(text, 2), ops, pos)
  <2>1. status = "reading" /\ signal # "unread"
    BY OperationReads
  <2> QED BY <2>1 DEF MeantInv, IInv, Taken
<1>2. meant.known => \E rest : meant.ops = ops \o rest /\ Reads(text, pos, rest)
  BY <1>1 DEF MeantInv, Expected
<1>3. CASE status' = "reading"
  <2>1. /\ pos' \in pos + 1 .. Past(text)
        /\ text' = text /\ signal' = signal /\ meant' = meant /\ refined' = refined
    BY <1>3, OperationAdvances DEF MeantInv
  <2>2. PICK op : Read(text, Here, Returned(op, pos')) /\ ops' = Append(ops, op)
    BY <1>3, OperationAdvances DEF MeantInv
  <2>3. OperationAt(text, pos, op, pos')
    <3>1. pos \in Nat /\ Past(text) \in Nat
      BY <1>1, SignsOf DEF MeantInv, IInv, WithinText
    <3>2. pos' # 0
      BY <2>1, <3>1
    <3> QED BY <2>2, <3>2 DEF OperationAt, Here
  <2>4. IsSequence(ops') /\ Leads(text, OperationEnd(text, 2), ops', pos')
    BY <1>1, <2>2, <2>3, OneMore, LeadsOn
  <2>5. Taken'
    BY <1>1, <1>3, <2>1, <2>4 DEF Taken
  <2>6. ASSUME meant.known
        PROVE  \E rest : meant.ops = ops' \o rest /\ Reads(text, pos', rest)
    <3>1. PICK rest : meant.ops = ops \o rest /\ Reads(text, pos, rest)
      BY <1>2, <2>6
    <3>2. rest # <<>>
      BY <1>1, <2>2, <3>1, AheadDecides
    <3>3. PICK e : /\ Reads(text, e, Tail(rest))
                   /\ \A result : Read(text, Here, result) => result = Returned(Head(rest), e)
      BY <1>1, <3>1, <3>2, AheadDecides
    <3>4. op = Head(rest) /\ pos' = e
      <4>1. Returned(op, pos') = Returned(Head(rest), e)
        BY <2>2, <3>3
      <4> QED BY <4>1 DEF Returned
    <3>5. IsSequence(rest)
      BY <3>1 DEF Reads
    <3>6. meant.ops = ops' \o Tail(rest)
      BY <1>1, <2>2, <3>1, <3>2, <3>4, <3>5, HeadMoves
    <3> QED BY <3>3, <3>4, <3>6
  <2>7. Expected'
    BY <1>1, <1>3, <2>1, <2>6 DEF Expected
  <2> QED BY <2>5, <2>7
<1>4. CASE status' # "reading"
  <2>1. Refuse
    <3>1. Refuse \/ \E result : Take(result)
      BY OperationReads
    <3> QED BY <1>1, <1>4, <3>1 DEF Take, Accept
  <2>2. ASSUME meant.known PROVE FALSE
    <3>1. PICK rest : meant.ops = ops \o rest /\ Reads(text, pos, rest)
      BY <1>2, <2>2
    <3>2. \/ \E result : Read(text, Here, result) /\ Take(result)
          \/ Here <= Len(text) /\ ~KeywordAt(text, Here, Keywords)
      BY OperationReads
    <3>3. CASE rest = <<>>
      <4>1. Here > Len(text) /\ \A result : ~Read(text, Here, result)
        BY <1>1, <3>1, <3>3, AheadDecides
      <4>2. Here \in Nat /\ Len(text) \in Nat
        <5>1. pos \in 1 .. Past(text)
          BY DEF MeantInv, IInv, WithinText
        <5>2. Here \in pos .. Past(text)
          BY <1>1, <5>1, StartWithin DEF Here
        <5> QED BY <1>1, <5>1, <5>2, SignsOf
      <4> QED BY <3>2, <4>1, <4>2
    <3>4. CASE rest # <<>>
      <4>1. PICK e : /\ KeywordAt(text, Here, Keywords)
                     /\ \A result : Read(text, Here, result) => result = Returned(Head(rest), e)
                     /\ Returned(Head(rest), e) # Error
        BY <1>1, <3>1, <3>4, AheadDecides
      <4>2. PICK result : result # Error /\ Take(result)
        BY <3>2, <4>1
      <4> QED BY <1>1, <1>4, <4>2 DEF Take, Accept
    <3> QED BY <3>3, <3>4
  <2>3. Taken'
    BY <1>1, <2>1 DEF Taken, Refuse
  <2>4. Expected'
    BY <2>1, <2>2 DEF Expected, Refuse
  <2> QED BY <2>3, <2>4
<1> QED BY <1>3, <1>4

\* The end of the text is met.
LEMMA MeantFinish ==
    ASSUME MeantInv, Finish
    PROVE  Taken' /\ Expected'
<1>1. /\ text \in Signs /\ status = "reading" /\ signal # "unread" /\ Here > Len(text)
      /\ status' = "accepted"
      /\ text' = text /\ signal' = signal /\ ops' = ops /\ meant' = meant
      /\ text # <<>> => Last(text) \notin Spaces
      /\ SignAt(text, 1, "signal=") /\ IsSignal(Rest(text, 2))
      /\ IsSequence(ops) /\ Leads(text, OperationEnd(text, 2), ops, pos)
  BY DEF MeantInv, IInv, Taken, Finish
<1>2. pos \in 1 .. Past(text)
  BY DEF MeantInv, IInv, WithinText
<1>3. Whole(text, ops)
  BY <1>1, <1>2 DEF Whole, Reads, Here
<1>4. Taken'
  BY <1>1, <1>3 DEF Taken
<1>5. ASSUME meant.known PROVE ops = meant.ops
  <2>1. PICK rest : meant.ops = ops \o rest /\ Reads(text, pos, rest)
    BY <1>1, <1>5 DEF MeantInv, Expected
  <2>2. rest = <<>>
    <3> SUFFICES ASSUME rest # <<>> PROVE FALSE
      OBVIOUS
    <3>1. Here \in DOMAIN text
      BY <1>1, <2>1, AheadDecides
    <3> QED BY <1>1, <3>1, SignsOf
  <2>3. PICK S : ops \in Seq(S)
    BY <1>1 DEF IsSequence
  <2> QED BY <2>1, <2>2, <2>3, ConcatEmptySeq
<1>6. Expected'
  BY <1>1, <1>5 DEF Expected
<1> QED BY <1>4, <1>6

\* The shell appends to a text that was accepted.
LEMMA MeantRefine ==
    ASSUME MeantTexts, MeantInv, Refine
    PROVE  Taken' /\ Expected'
<1>1. PICK r \in Refinements :
          /\ text' = Trim[text \o Separator \o r.text]
          /\ meant' = [known |-> Closed(text), ops |-> ops \o r.ops]
  BY DEF Refine, Separator
<1>2. /\ status = "accepted" /\ signal' = "unread" /\ ops' = <<>> /\ status' = "reading"
  BY DEF Refine
<1>3. /\ text \in Signs /\ Whole(text, ops)
      /\ text # <<>> => Last(text) \notin Spaces
  BY <1>2 DEF MeantInv, IInv, Taken
<1>4. r.text \in Signs /\ r.text # <<>> /\ Last(r.text) \notin Spaces
  <2>1. \A x \in Refinements : x.text \in Seq(Words) \ {<<>>} /\ Last(x.text) \notin Spaces
    BY ParserAssumption, Zenon
  <2>2. r.text \in Seq(Words) \ {<<>>} /\ Last(r.text) \notin Spaces
    BY <2>1, Zenon
  <2> QED BY <2>2 DEF Signs
<1>5. text \o Separator \o r.text \in Signs
  BY <1>3, TextsParsed DEF Separator
<1>6. Taken'
  <2>1. text' # <<>> => Last(text') \notin Spaces
    BY <1>1, <1>5, TrimEnds
  <2> QED BY <1>2, <2>1 DEF Taken
<1>7. meant'.known => Whole(text', meant'.ops)
  <2> SUFFICES ASSUME Closed(text) PROVE Whole(text', ops \o r.ops)
    BY <1>1
  <2>1. text # <<>>
    <3>1. 1 \in DOMAIN text
      BY <1>3 DEF Whole, SignAt
    <3> QED BY <3>1
  <2>2. Reads(Separator \o r.text, 1, r.ops)
    BY DEF MeantTexts
  <2>3. /\ Whole(text \o Separator \o r.text, ops \o r.ops)
        /\ Trim[text \o Separator \o r.text] = text \o Separator \o r.text
    BY <1>3, <1>4, <2>1, <2>2, RefinedReads
  <2> QED BY <1>1, <2>3
<1>8. Expected'
  BY <1>2, <1>7 DEF Expected
<1> QED BY <1>6, <1>8

\* The invariant is inductive.
LEMMA MeantStep ==
    ASSUME MeantTexts
    PROVE  MeantInv /\ [Next]_vars => MeantInv'
<1> SUFFICES ASSUME MeantInv, [Next]_vars PROVE Taken' /\ Expected'
  BY StepInv DEF MeantInv
<1>1. CASE ReadSignal
  BY <1>1, MeantSignal
<1>2. CASE ParseOperation
  BY <1>2, MeantOperation
<1>3. CASE Finish
  BY <1>3, MeantFinish
<1>4. CASE Refine
  BY <1>4, MeantRefine
<1>5. CASE UNCHANGED vars
  BY <1>5 DEF vars, MeantInv, Taken, Expected
<1> QED BY <1>1, <1>2, <1>3, <1>4, <1>5 DEF Next, Parse

\* Whatever texts are given and whatever is appended to them: if each of them
\* reads as it is meant by itself, then so does every text the shell builds of
\* them.  A refinement of a closed query reads as the operations of that query
\* and then its own; nothing is swallowed, lost or refused.
THEOREM TextsReadAsMeant ==
    ASSUME MeantTexts
    PROVE  Spec => []ReadsAsMeant
<1>1. MeantInv => ReadsAsMeant
  BY DEF MeantInv, Taken, Expected, ReadsAsMeant
<1>2. Init => MeantInv
  BY MeantInit
<1>3. MeantInv /\ [Next]_vars => MeantInv'
  BY MeantStep
<1> QED BY <1>1, <1>2, <1>3, PTL DEF Spec

=============================================================================
