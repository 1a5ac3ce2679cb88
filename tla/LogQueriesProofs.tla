--------------------------- MODULE LogQueriesProofs ---------------------------
(***************************************************************************)
(* What the Loki endpoints answer, for every set of lines, labels, queries *)
(* and times of the era in which the guesses of units are right.           *)
(***************************************************************************)
EXTENDS LogQueries, FiniteSetTheorems, TLAPS

-----------------------------------------------------------------------------
(* Lemmas about the operators.                                               *)

\* An order of a finite set names each element exactly once.
LEMMA OrderOfSet ==
    ASSUME NEW S, IsFiniteSet(S), NEW seq \in SetToSeqs(S)
    PROVE  /\ seq \in Seq(S)
           /\ ToSet(seq) = S
           /\ \A i, j \in DOMAIN seq : seq[i] = seq[j] => i = j
<1> DEFINE D == 1 .. Cardinality(S)
<1>1. Cardinality(S) \in Nat
  BY FS_CardinalityType
<1>2. seq \in [D -> S] /\ \A i, j \in D : i # j => seq[i] # seq[j]
  BY DEF SetToSeqs
<1>3. seq \in Injection(D, S)
  BY <1>2 DEF Injection, IsInjective
<1>4. Cardinality(D) = Cardinality(S)
  BY <1>1, FS_Interval
<1>5. seq \in Surjection(D, S)
  BY <1>3, <1>4, FS_Injection
<1>6. \A x \in S : \E i \in D : seq[i] = x
  BY <1>5 DEF Surjection
<1>7. ToSet(seq) = S
  BY <1>2, <1>6 DEF ToSet
<1> QED
  BY <1>1, <1>2, <1>7

LEMMA OverflowPositive == Overflow \in Nat \ {0}
  BY LogAssumption

\* 64 bits hold what is below the limit.
LEMMA FitsInt64 ==
    ASSUME NEW n \in Nat, n < Overflow
    PROVE  Int64(n) = n
<1>1. Overflow \in Nat \ {0}
  BY OverflowPositive
<1>2. n + Overflow \in 0 .. (2 * Overflow) - 1
  BY <1>1
<1>3. (n + Overflow) % (2 * Overflow) = n + Overflow
  BY <1>1, <1>2
<1> QED
  BY <1>1, <1>3 DEF Int64

LEMMA WholeQuotient ==
    ASSUME NEW n \in Nat, NEW d \in Nat \ {0}
    PROVE  n * d \in Nat /\ (n * d) \div d = n
<1>1. n * d \in Nat
  OBVIOUS
<1>2. (n * d) % d = 0
  BY <1>1, SMT
<1> QED
  BY <1>1, <1>2, SMT

\* A time is read as the caller means it, whatever the unit it is written in.
LEMMA TimesReadRight ==
    ASSUME NEW r \in Requests, r.endpoint = "query_range", NEW t \in {r.start, r.end},
           t.unit \in {"date", "s", "ms"}
    PROVE  ParseTime(t) = t.at /\ t.at \in Nat
<1>1. t \in Time
  BY LogAssumption DEF Request
<1>2. t.at \in Nat /\ Second \in Nat \ {0} /\ MsAbove \in Nat
  BY <1>1, LogAssumption DEF Time
<1>3. t.at > MsAbove /\ t.at \div Second <= MsAbove /\ t.at * Milli < Overflow
  BY EraAssumption
<1>4. CASE t.unit = "s"
  <2>1. t.at % Second = 0
    BY <1>1, <1>4 DEF Time
  <2>2. (t.at \div Second) * Second = t.at
    BY <1>2, <2>1, SMT
  <2> QED
    BY <1>2, <1>3, <1>4, <2>2 DEF ParseTime
<1>5. CASE t.unit = "ms"
  <2>1. Milli \in Nat \ {0}
    BY LogAssumption
  <2>2. t.at * Milli \in Nat /\ (t.at * Milli) \div Milli = t.at
    BY <1>2, <2>1, WholeQuotient
  <2>3. Int64(t.at * Milli) = t.at * Milli
    BY <1>3, <2>2, FitsInt64
  <2>4. ParseTime(t) = Int64(t.at * Milli) \div Milli
    BY <1>2, <1>3, <1>5 DEF ParseTime
  <2> QED
    BY <1>2, <2>2, <2>3, <2>4
<1>6. CASE t.unit = "date"
  BY <1>2, <1>6 DEF ParseTime
<1> QED
  BY <1>2, <1>4, <1>5, <1>6

\* The response gives a line its own time, in nanoseconds.
LEMMA TimesWrittenRight ==
    ASSUME NEW d \in Databases, NEW line \in d
    PROVE  ToNanoseconds(line.time) = line.time * Milli
<1>1. line.time \in Nat /\ {MsAbove, NsAbove} \subseteq Nat /\ {Second, Milli} \subseteq Nat \ {0}
  BY LogAssumption DEF Line
<1>2. CASE line.time = 0
  <2>1. line.time * Second * Milli = 0 /\ line.time * Milli = 0
    BY <1>1, <1>2
  <2>2. 0 \in Nat /\ 0 < Overflow
    BY OverflowPositive
  <2>3. ToNanoseconds(line.time) = Int64(line.time * Second * Milli)
    BY <1>1, <1>2 DEF ToNanoseconds
  <2>4. Int64(0) = 0
    BY <2>2, FitsInt64
  <2> QED
    BY <2>1, <2>3, <2>4
<1>3. CASE line.time \in MsAbove + 1 .. NsAbove /\ line.time * Milli < Overflow
  <2>1. line.time * Milli \in Nat
    BY <1>1
  <2>2. ToNanoseconds(line.time) = Int64(line.time * Milli)
    BY <1>1, <1>3 DEF ToNanoseconds
  <2> QED
    BY <1>3, <2>1, <2>2, FitsInt64
<1> QED
  BY <1>2, <1>3, EraAssumption

LEMMA LeastOfTwo ==
    ASSUME NEW m \in Int, NEW n \in Int
    PROVE  Min({m, n}) = IF m <= n THEN m ELSE n
<1> DEFINE least == IF m <= n THEN m ELSE n
<1>1. least \in {m, n} /\ \A y \in {m, n} : least <= y
  OBVIOUS
<1>2. \A x \in {m, n} : (\A y \in {m, n} : x <= y) => x = least
  OBVIOUS
<1> QED
  BY <1>1, <1>2 DEF Min

\* A limit takes the first rows.
LEMMA KeptFirst ==
    ASSUME NEW S, NEW seq \in Seq(S), NEW limit \in Int
    PROVE  ToSet(Kept(seq, limit)) \subseteq ToSet(seq)
<1>1. CASE limit > 0
  <2> DEFINE n == Min({limit, Len(seq)})
  <2>1. n \in Nat /\ n <= Len(seq)
    BY <1>1, LeastOfTwo
  <2>2. Kept(seq, limit) = SubSeq(seq, 1, n)
    BY <1>1 DEF Kept
  <2> HIDE DEF n
  <2>3. DOMAIN SubSeq(seq, 1, n) = 1 .. n /\ \A i \in 1 .. n : SubSeq(seq, 1, n)[i] = seq[i]
    BY <2>1
  <2> QED
    BY <2>1, <2>2, <2>3 DEF ToSet
<1>2. CASE ~(limit > 0)
  BY <1>2 DEF Kept
<1> QED
  BY <1>1, <1>2
-----------------------------------------------------------------------------
(* The handler, from the request to its answer.                              *)

QueryKinds == {"log", "metric", "scalar"}

\* The statement is the one the request asks for.
Posed ==
    \/ Asks(QueryKinds) /\ Parses(request.query) /\ stmt = Translation(request)
    \/ request.endpoint = "labels" /\ stmt = Distinct(request, "service_name")
    \/ request.endpoint = "label_values" /\ stmt = Distinct(request, FieldOf(request.label))

\* What a list of values may offer.
Offered ==
    {line.labels[FieldOf(request.label)] : line \in {l \in db : l.tenant = Tenant}}

Handled ==
    /\ db \in Databases
    /\ request \in Requests
    /\ pc \in {"translate", "execute", "transform", "done"}
    /\ stmt = NoStatement \/ Posed
    /\ pc \in {"execute", "transform"} \/ status = "success" => Posed
    /\ status \in {"none", "success", "bad_request", "error", "unreachable"}
    /\ pc = "done" => status # "none"
    /\ status = "bad_request" => Asks(QueryKinds) /\ ~Parses(request.query)
    /\ status = "error" => Asks({"metric"})
    /\ request.endpoint = "label_values" =>
          /\ pc = "transform" => ToSet(rows) \subseteq Offered
          /\ listed \subseteq Offered
    /\ request.endpoint # "label_values" => listed \subseteq CommonLabels

LEMMA FieldsOfLabels ==
    ASSUME NEW label \in LabelNames
    PROVE  FieldOf(label) \in Fields
  BY LogAssumption DEF LabelNames, FieldOf, Fields

LEMMA LinesTyped ==
    ASSUME NEW d \in Databases
    PROVE  IsFiniteSet(d) /\ d \subseteq Line
  BY LogAssumption

LEMMA StatementOfLines ==
    ASSUME NEW r, r.query.kind = "log"
    PROVE  /\ Translation(r).shape = "lines"
           /\ Translation(r).columns = Columns \cup {"tenant_id", "timestamp", "body", "attributes"}
           /\ Translation(r).tenants = {Tenant}
           /\ Translation(r).matchers = r.query.matchers
           /\ Translation(r).bodies = AdmittedBodies(r.query.pipeline)
           /\ Translation(r).by = {}
           /\ Translation(r).window = IF r.endpoint = "query_range" THEN RequestedWindow(r) ELSE <<>>
  BY DEF Translation, TranslateLogRange, NoStatement

LEMMA StatementOfCounts ==
    ASSUME NEW r, r.query.kind = "metric"
    PROVE  /\ Translation(r).shape = "metric"
           /\ Translation(r).columns = {FieldOf(l) : l \in r.query.by} \cup {"COUNT(*)"}
           /\ Translation(r).tenants = {Tenant}
           /\ Translation(r).matchers = r.query.matchers
           /\ Translation(r).bodies = AdmittedBodies(r.query.pipeline)
           /\ Translation(r).by = {FieldOf(l) : l \in r.query.by}
  BY DEF Translation, TranslateMetric, NoStatement

LEMMA StatementOfScalar ==
    ASSUME NEW r, r.query.kind = "scalar"
    PROVE  /\ Translation(r).shape = "scalar"
           /\ Translation(r).columns = {"value"}
           /\ Translation(r).tenants = Tenants
           /\ Translation(r).matchers = {}
           /\ Translation(r).bodies = Bodies
           /\ Translation(r).by = {}
  BY DEF Translation, TranslateScalar, NoStatement

LEMMA StatementOfList ==
    ASSUME NEW r, NEW field
    PROVE  /\ Distinct(r, field).shape = "distinct"
           /\ Distinct(r, field).columns = {field}
           /\ Distinct(r, field).tenants = {Tenant}
           /\ Distinct(r, field).matchers = {}
           /\ Distinct(r, field).bodies = Bodies
           /\ Distinct(r, field).by = {}
           /\ Distinct(r, field).limit = IF r.limit = <<>> THEN 0 ELSE Head(r.limit)
  BY DEF Distinct, NoStatement

\* A list offers values of the lines of the tenant.
LEMMA ListFromLines ==
    ASSUME Handled, request.endpoint = "label_values", pc = "execute",
           NEW seq \in Returned(stmt)
    PROVE  ToSet(seq) \subseteq Offered
<1> DEFINE field == FieldOf(request.label)
<1> DEFINE values == UNION {{line.labels[f] : f \in stmt.columns} : line \in Selected(stmt)}
<1>1. stmt = Distinct(request, field)
  BY DEF Handled, Posed, Asks
<1>2. stmt.shape = "distinct" /\ stmt.columns = {field} /\ stmt.tenants = {Tenant}
      /\ stmt.limit = IF request.limit = <<>> THEN 0 ELSE Head(request.limit)
  BY <1>1, StatementOfList
<1>3. stmt.limit \in Int
  <2>1. request.limit \in Seq(Int)
    BY LogAssumption DEF Handled, Request, Optional
  <2> QED
    BY <1>2, <2>1
<1>4. values \subseteq Offered
  BY <1>2 DEF Selected, Offered
<1>5. IsFiniteSet(values)
  <2>1. IsFiniteSet(Selected(stmt))
    BY LinesTyped, FS_Subset DEF Handled, Selected
  <2> DEFINE image == [line \in Selected(stmt) |-> line.labels[field]]
  <2>2. image \in Surjection(Selected(stmt), values)
    BY <1>2 DEF Surjection
  <2> HIDE DEF image, values
  <2> QED
    BY <2>1, <2>2, FS_Surjection
<1>6. PICK all \in SetToSeqs(values) : seq = Kept(all, stmt.limit)
  BY <1>2 DEF Returned
<1> HIDE DEF values
<1>7. all \in Seq(values) /\ ToSet(all) = values
  BY <1>5, OrderOfSet
<1> QED
  BY <1>3, <1>4, <1>6, <1>7, KeptFirst

LEMMA HandledInit ==
    ASSUME Init
    PROVE  Handled
  BY DEF Init, Handled

\* Only counts of lines have columns that the response cannot be made of.
LEMMA RefusedAreCounts ==
    ASSUME Handled, RefuseColumns
    PROVE  Asks({"metric"})
<1>1. Posed
  BY DEF Handled, RefuseColumns
<1>2. Asks(QueryKinds) /\ stmt = Translation(request)
  BY <1>1, StatementOfList DEF Posed, RefuseColumns
<1>3. request.query.kind # "log"
  BY <1>2, StatementOfLines DEF RefuseColumns
<1>4. request.query.kind # "scalar"
  BY <1>2, StatementOfScalar DEF RefuseColumns, IsMetricQuery
<1> QED
  BY <1>2, <1>3, <1>4 DEF Asks, QueryKinds

LEMMA ColumnOfList ==
    ASSUME Handled, request.endpoint = "label_values"
    PROVE  FieldOf(request.label) \notin {"body", "timestamp", "value", "cnt"}
<1>1. request \in Request
  BY LogAssumption DEF Handled
<1>2. request.label \in LabelNames
  BY <1>1 DEF Request
<1>3. FieldOf(request.label) \in Fields
  BY <1>2, FieldsOfLabels
<1>4. Fields \cap {"body", "timestamp", "value", "cnt"} = {}
  BY LogAssumption
<1> QED
  BY <1>3, <1>4

LEMMA HandledStep ==
    ASSUME Handled, [Next]_vars
    PROVE  Handled'
<1> USE DEF Asks, QueryKinds
<1>1. CASE TranslateQuery
  BY <1>1 DEF TranslateQuery, Handled, Posed, Offered
<1>2. CASE Refuse
  BY <1>2 DEF Refuse, Answer, Handled, Posed, Offered
<1>3. CASE BuildDistinct
  BY <1>3 DEF BuildDistinct, Handled, Posed, Offered
<1>4. CASE ExecuteQueries
  <2>1. request.endpoint = "label_values" => ToSet(rows') \subseteq Offered
    BY <1>4, ListFromLines DEF ExecuteQueries
  <2> QED
    BY <1>4, <2>1 DEF ExecuteQueries, Handled, Posed, Offered
<1>5. CASE Outage
  BY <1>5 DEF Outage, Answer, Handled, Posed, Offered
<1>6. CASE RefuseColumns
  <2>1. Asks({"metric"})
    BY <1>6, RefusedAreCounts
  <2> QED
    BY <1>6, <2>1 DEF RefuseColumns, Answer, Handled, Posed, Offered
<1>7. CASE AddToStream \/ AddToMatrix
  <2>1. request.endpoint # "label_values"
    <3>1. CASE AddToStream
      <4>1. "timestamp" \in stmt.columns
        BY <3>1 DEF AddToStream
      <4>2. SUFFICES ASSUME request.endpoint = "label_values"
                     PROVE  FALSE
        OBVIOUS
      <4>3. stmt = Distinct(request, FieldOf(request.label))
        BY <3>1, <4>2 DEF AddToStream, Handled, Posed
      <4>4. stmt.columns = {FieldOf(request.label)}
        BY <4>3, StatementOfList
      <4> QED
        BY <4>1, <4>2, <4>4, ColumnOfList
    <3>2. CASE AddToMatrix
      <4>1. stmt.columns \cap {"value", "cnt"} # {}
        BY <3>2 DEF AddToMatrix, IsMetricQuery
      <4>2. SUFFICES ASSUME request.endpoint = "label_values"
                     PROVE  FALSE
        OBVIOUS
      <4>3. stmt = Distinct(request, FieldOf(request.label))
        BY <3>2, <4>2 DEF AddToMatrix, Handled, Posed
      <4>4. stmt.columns = {FieldOf(request.label)}
        BY <4>3, StatementOfList
      <4> QED
        BY <4>1, <4>2, <4>4, ColumnOfList
    <3> QED
      BY <1>7, <3>1, <3>2
  <2> QED
    BY <1>7, <2>1 DEF AddToStream, AddToMatrix, Handled, Posed, Offered
<1>8. CASE Respond
  BY <1>8 DEF Respond, Answer, Handled, Posed, Offered
<1>9. CASE RespondWithList
  <2>1. request.endpoint \in {"labels", "label_values"}
    <3>1. Posed /\ stmt.shape = "distinct"
      BY <1>9 DEF RespondWithList, Handled
    <3>2. Asks(QueryKinds) => stmt # Translation(request)
      BY <3>1, StatementOfLines, StatementOfCounts, StatementOfScalar
    <3> QED
      BY <3>1, <3>2 DEF Posed
  <2> QED
    BY <1>9, <2>1 DEF RespondWithList, Answer, Handled, Posed, Offered
<1>10. CASE UNCHANGED vars
  BY <1>10 DEF vars, Handled, Posed, Offered
<1> QED
  BY <1>1, <1>2, <1>3, <1>4, <1>5, <1>6, <1>7, <1>8, <1>9, <1>10 DEF Next

-----------------------------------------------------------------------------
(* What follows for lists and for supported requests.                        *)

LEMMA OpenWindow == \A time : InWindow(time, <<>>)
<1>1. Len(<<>>) # 2
  <2>1. SUFFICES ASSUME NEW s, s = <<>>
                 PROVE  Len(s) # 2
    OBVIOUS
  <2>2. s \in Seq({}) /\ DOMAIN s = {}
    BY <2>1
  <2> QED
    BY <2>2
<1> QED
  BY <1>1, Zenon DEF InWindow

LEMMA EmptyPipeline == ParsePipeline(<<>>) /\ AdmittedBodies(<<>>) = Bodies
<1>1. DOMAIN <<>> = {}
  BY SMT
<1> QED
  BY <1>1 DEF ParsePipeline, AdmittedBodies

\* ListedValuesFind.  A value that a list offers comes from a line of the
\* tenant, in the column where a log query for the value looks.
LEMMA OfferedAreFound ==
    ASSUME Handled
    PROVE  ListedValuesFind
<1> SUFFICES ASSUME request.endpoint = "label_values",
                    NEW value \in listed, value # ""
             PROVE
                LET matcher == [label |-> request.label, positive |-> TRUE, text |-> "same",
                                sought |-> {value}, found |-> {value}]
                    query   == [kind |-> "log", matchers |-> {matcher}, pipeline |-> <<>>, range |-> 0]
                IN  /\ Parses(query)
                    /\ Selected(TranslateLogRange([endpoint |-> "query", query |-> query])) # {}
  BY DEF ListedValuesFind
<1> DEFINE matcher == [label |-> request.label, positive |-> TRUE, text |-> "same",
                       sought |-> {value}, found |-> {value}]
<1> DEFINE query == [kind |-> "log", matchers |-> {matcher}, pipeline |-> <<>>, range |-> 0]
<1> DEFINE r == [endpoint |-> "query", query |-> query]
<1>1. Parses(query)
  <2>1. matcher \in query.matchers /\ "" \notin matcher.sought /\ matcher.positive
    OBVIOUS
  <2>2. ParsePipeline(query.pipeline)
    BY EmptyPipeline
  <2>3. query.kind = "log" /\ query.range = 0
    OBVIOUS
  <2> HIDE DEF matcher, query
  <2> QED
    BY <2>1, <2>2, <2>3 DEF Parses, ParseLogRange, PromSelector, ValidateStreamSelector, Wanted
<1>2. PICK line \in db : line.tenant = Tenant /\ line.labels[FieldOf(request.label)] = value
  BY DEF Handled, Offered
<1>3. line.body \in Bodies
  BY <1>2, LinesTyped DEF Handled, Line
<1>4. /\ TranslateLogRange(r).tenants = {Tenant}
      /\ TranslateLogRange(r).matchers = {matcher}
      /\ TranslateLogRange(r).bodies = Bodies
      /\ TranslateLogRange(r).window = <<>>
  <2>1. r.endpoint = "query" /\ r.query = query
    OBVIOUS
  <2>2. query.matchers = {matcher} /\ query.pipeline = <<>>
    OBVIOUS
  <2>3. AdmittedBodies(query.pipeline) = Bodies
    BY <2>2, EmptyPipeline
  <2> HIDE DEF r, query, matcher
  <2> QED
    BY <2>1, <2>2, <2>3 DEF TranslateLogRange, NoStatement
<1>5. line \in Selected(TranslateLogRange(r))
  <2>1. Matches(line, {matcher})
    <3>1. matcher.label = request.label /\ matcher.found = {value} /\ matcher.positive = TRUE
      OBVIOUS
    <3> HIDE DEF matcher
    <3> QED
      BY <1>2, <3>1 DEF Matches, Admitted
  <2>2. InWindow(line.time, <<>>)
    BY OpenWindow
  <2> HIDE DEF r, matcher
  <2> QED
    BY <1>2, <1>3, <1>4, <2>1, <2>2 DEF Selected
<1> QED
  BY <1>1, <1>5

\* What is supported parses.
LEMMA SupportedParses ==
    ASSUME Handled, Supported, Asks(QueryKinds)
    PROVE  Parses(request.query)
<1> DEFINE q == request.query
<1>1. CASE Asks({"scalar"})
  BY <1>1 DEF Asks, Parses
<1>2. CASE Asks({"log"})
  <2>1. /\ q.kind = "log" /\ q.range = 0
        /\ \E m \in q.matchers : m.positive /\ "" \notin m.sought
        /\ \A i \in DOMAIN q.pipeline :
              /\ q.pipeline[i].kind # "label_filter"
              /\ q.pipeline[i].kind = "filter" => q.pipeline[i].text # "empty"
              /\ q.pipeline[i].kind = "parser" => ~q.pipeline[i].parameter
              /\ q.pipeline[i].kind = "labels" => i = Len(q.pipeline)
    BY <1>2 DEF Asks, Supported
  <2>2. q \in LogQuery
    <3>1. request \in Request
      BY LogAssumption DEF Handled
    <3> QED
      BY <1>2, <3>1 DEF Request, Asks
  <2>3. q.pipeline \in Seq(Stage)
    BY <2>1, <2>2 DEF LogQuery
  <2>4. \A s \in Stage : s.kind \in {"filter", "parser", "labels", "label_filter"}
    BY DEF Stage, LineFilter
  <2>5. \A i \in DOMAIN q.pipeline : q.pipeline[i] \in Stage
    BY <2>3
  <2> HIDE DEF q
  <2>6. ParsePipeline(q.pipeline)
    BY <2>1, <2>4, <2>5 DEF ParsePipeline, ParsesAt
  <2> QED
    BY <2>1, <2>6 DEF q, Parses, ParseLogRange, PromSelector, ValidateStreamSelector, Wanted
<1> QED
  BY <1>1, <1>2 DEF Supported, Asks, QueryKinds

\* SupportedAnswered.  What is supported is not refused by the parser, and only
\* counts of lines are refused for their columns.
LEMMA SupportedNotRefused ==
    ASSUME Handled
    PROVE  SupportedAnswered
<1> SUFFICES ASSUME pc = "done", Supported
             PROVE  status \in {"success", "unreachable"}
  BY DEF SupportedAnswered
<1>1. status # "bad_request"
  BY SupportedParses DEF Handled
<1>2. status # "error"
  BY DEF Handled, Supported, Asks
<1> QED
  BY <1>1, <1>2 DEF Handled

-----------------------------------------------------------------------------
(* The streams.                                                              *)

Pairs(line) == {<<f, line.labels[f]>> : f \in Fields}

Streams == [key : Seq(Fields \X Values), values : Seq([time : Int, line : Line])]

\* A stream holds lines that were selected, none twice, at their times and
\* under their labels.
TrueStream(s, selected) ==
    /\ \A i \in DOMAIN s.values :
          /\ s.values[i].line \in selected
          /\ s.values[i].time = ToNanoseconds(s.values[i].line.time)
          /\ ToSet(s.key) = Pairs(s.values[i].line)
    /\ \A i, j \in DOMAIN s.values : s.values[i].line = s.values[j].line => i = j

Shows(strs, line) ==
    \E k \in DOMAIN strs : \E i \in DOMAIN strs[k].values : strs[k].values[i].line = line

\* Each line selected is still a row, or in a stream.
Distributed(selected, rs, strs) ==
    /\ rs \in Seq(selected)
    /\ \A i, j \in DOMAIN rs : rs[i] = rs[j] => i = j
    /\ \A i \in DOMAIN rs : ~Shows(strs, rs[i])
    /\ \A line \in selected : line \in ToSet(rs) \/ Shows(strs, line)
    /\ \A k \in DOMAIN strs : TrueStream(strs[k], selected)

\* Each line selected is in a stream, or one with its labels has as many lines
\* as the limit allows.
Presented(selected, strs, limit) ==
    /\ \A k \in DOMAIN strs : TrueStream(strs[k], selected)
    /\ \A line \in selected :
          \/ Shows(strs, line)
          \/ \E k \in DOMAIN strs : /\ limit > 0
                                    /\ Len(strs[k].values) = limit
                                    /\ ToSet(strs[k].key) = Pairs(line)

Streaming ==
    /\ streams \in Seq(Streams)
    /\ ~Asks({"log"}) \/ pc \in {"translate", "execute"} => streams = <<>>
    /\ pc = "transform" /\ Asks({"log"}) => Distributed(Selected(stmt), rows, streams)
    /\ Answered /\ Asks({"log"}) => Presented(Selected(stmt), streams, LimitOf(request))

\* The entry is the first of a stream of its own or the last of one of its key.
Grown(strs, key, entry, new) ==
    /\ \A k \in DOMAIN new :
          \/ k \in DOMAIN strs /\ new[k] = strs[k]
          \/ new[k].key = key /\ new[k].values = <<entry>>
          \/ /\ k \in DOMAIN strs /\ strs[k].key = key /\ new[k].key = key
             /\ new[k].values = Append(strs[k].values, entry)
    /\ \A k \in DOMAIN strs :
          /\ k \in DOMAIN new
          /\ new[k] = strs[k] \/ new[k].values = Append(strs[k].values, entry)
    /\ \E k \in DOMAIN new :
          \/ new[k].values = <<entry>>
          \/ k \in DOMAIN strs /\ new[k].values = Append(strs[k].values, entry)

LEMMA KeysOfLine ==
    ASSUME NEW line \in Line, NEW key \in Keys(line)
    PROVE  key \in Seq(Fields \X Values) /\ ToSet(key) = Pairs(line)
<1>1. line.labels \in [Fields -> Values]
  BY DEF Line
<1>2. Pairs(line) \subseteq Fields \X Values
  BY <1>1 DEF Pairs
<1>3. IsFiniteSet(Fields)
  BY LogAssumption, FS_Union DEF Fields
<1>4. IsFiniteSet(Pairs(line))
  <2> DEFINE pair == [f \in Fields |-> <<f, line.labels[f]>>]
  <2>1. pair \in Surjection(Fields, Pairs(line))
    BY DEF Surjection, Pairs
  <2> HIDE DEF pair
  <2> QED
    BY <1>3, <2>1, FS_Surjection
<1>5. key \in SetToSeqs(Pairs(line))
  BY DEF Keys, Pairs
<1>6. key \in Seq(Pairs(line)) /\ ToSet(key) = Pairs(line)
  BY <1>4, <1>5, OrderOfSet
<1> QED
  BY <1>2, <1>6

LEMMA EntryTyped ==
    ASSUME NEW line \in Line
    PROVE  /\ Entry(line) \in [time : Int, line : Line]
           /\ Entry(line).line = line
           /\ Entry(line).time = ToNanoseconds(line.time)
<1>1. line.time \in Nat /\ {Second, Milli} \subseteq Nat /\ {MsAbove, NsAbove} \subseteq Nat
  BY LogAssumption DEF Line
<1>2. line.time * Second \in Nat /\ line.time * Milli \in Nat /\ line.time * Second * Milli \in Nat
  BY <1>1
<1>3. \A n \in Nat : Int64(n) \in Int
  <2>1. Overflow \in Nat /\ 2 * Overflow \in Nat \ {0}
    BY OverflowPositive
  <2>2. \A n \in Nat : (n + Overflow) % (2 * Overflow) \in Int
    BY <2>1
  <2> QED
    BY <2>1, <2>2 DEF Int64
<1>4. ToNanoseconds(line.time) \in Int
  BY <1>1, <1>2, <1>3 DEF ToNanoseconds
<1> QED
  BY <1>4 DEF Entry

LEMMA OtherValues ==
    ASSUME NEW s \in Streams, NEW values \in Seq([time : Int, line : Line])
    PROVE  /\ [s EXCEPT !.values = values] \in Streams
           /\ [s EXCEPT !.values = values].key = s.key
           /\ [s EXCEPT !.values = values].values = values
  BY DEF Streams

LEMMA AddedStreams ==
    ASSUME streams \in Seq(Streams), NEW key \in Seq(Fields \X Values),
           NEW entry \in [time : Int, line : Line],
           NEW new, new = Added(key, entry)
    PROVE  /\ new \in Seq(Streams)
           /\ Grown(streams, key, entry, new)
<1>1. CASE \E i \in DOMAIN streams : streams[i].key = key
  <2> DEFINE longer(i) == [streams[i] EXCEPT !.values = Append(@, entry)]
  <2>1. new = [i \in DOMAIN streams |-> IF streams[i].key = key THEN longer(i) ELSE streams[i]]
    BY <1>1 DEF Added
  <2>2. \A i \in DOMAIN streams :
           /\ longer(i) \in Streams
           /\ longer(i).key = streams[i].key
           /\ longer(i).values = Append(streams[i].values, entry)
    <3> SUFFICES ASSUME NEW i \in DOMAIN streams
                 PROVE  /\ longer(i) \in Streams
                        /\ longer(i).key = streams[i].key
                        /\ longer(i).values = Append(streams[i].values, entry)
      OBVIOUS
    <3>1. streams[i] \in Streams
      OBVIOUS
    <3>2. Append(streams[i].values, entry) \in Seq([time : Int, line : Line])
      BY <3>1 DEF Streams
    <3> QED
      BY <3>1, <3>2, OtherValues
  <2> HIDE DEF longer
  <2>3. DOMAIN new = DOMAIN streams /\ DOMAIN streams = 1 .. Len(streams)
    BY <2>1
  <2>4. \A i \in DOMAIN new : new[i] \in Streams
    BY <2>1, <2>2, <2>3
  <2>5. new \in Seq(Streams)
    <3>1. new \in [1 .. Len(streams) -> Streams] /\ Len(streams) \in Nat
      BY <2>1, <2>3, <2>4
    <3> QED
      BY <3>1
  <2> QED
    BY <1>1, <2>1, <2>2, <2>3, <2>5 DEF Grown
<1>2. CASE ~\E i \in DOMAIN streams : streams[i].key = key
  <2> DEFINE fresh == [key |-> key, values |-> <<entry>>]
  <2>1. fresh \in Streams /\ fresh.key = key /\ fresh.values = <<entry>>
    BY DEF Streams
  <2>2. new = Append(streams, fresh)
    BY <1>2 DEF Added
  <2> HIDE DEF fresh
  <2>3. new \in Seq(Streams) /\ Len(new) = Len(streams) + 1
    BY <2>1, <2>2
  <2>4. \A k \in DOMAIN streams : k \in DOMAIN new /\ new[k] = streams[k]
    BY <2>1, <2>2
  <2>5. Len(new) \in DOMAIN new /\ new[Len(new)] = fresh
    BY <2>1, <2>2
  <2>6. \A k \in DOMAIN new : k \in DOMAIN streams \/ k = Len(new)
    BY <2>1, <2>2
  <2> QED
    BY <2>1, <2>3, <2>4, <2>5, <2>6 DEF Grown
<1> QED
  BY <1>1, <1>2

\* A row that became an entry is in a stream, and no row any more.
LEMMA RowPlaced ==
    ASSUME NEW selected, NEW rs, NEW strs \in Seq(Streams), Distributed(selected, rs, strs),
           rs # <<>>, NEW key, ToSet(key) = Pairs(Head(rs)),
           NEW entry \in [time : Int, line : Line], entry.line = Head(rs),
           entry.time = ToNanoseconds(Head(rs).time),
           NEW new \in Seq(Streams), Grown(strs, key, entry, new)
    PROVE  Distributed(selected, Tail(rs), new)
<1> DEFINE line == Head(rs)
<1> DEFINE Entries == [time : Int, line : Line]
<1>0. /\ \A k \in DOMAIN new :
            \/ k \in DOMAIN strs /\ new[k] = strs[k]
            \/ new[k].key = key /\ new[k].values = <<entry>>
            \/ /\ k \in DOMAIN strs /\ strs[k].key = key /\ new[k].key = key
               /\ new[k].values = Append(strs[k].values, entry)
      /\ \A k \in DOMAIN strs :
            /\ k \in DOMAIN new
            /\ new[k] = strs[k] \/ new[k].values = Append(strs[k].values, entry)
  BY DEF Grown
<1>1. rs \in Seq(selected) /\ \A i, j \in DOMAIN rs : rs[i] = rs[j] => i = j
  BY DEF Distributed
<1>2. line \in selected /\ 1 \in DOMAIN rs /\ rs[1] = line
  BY <1>1
<1>3. /\ Tail(rs) \in Seq(selected)
      /\ \A i \in DOMAIN Tail(rs) : i + 1 \in DOMAIN rs /\ Tail(rs)[i] = rs[i + 1] /\ i \in Nat
  BY <1>1
<1>4. \A i \in DOMAIN rs : i # 1 => i - 1 \in DOMAIN Tail(rs) /\ Tail(rs)[i - 1] = rs[i]
  BY <1>1
<1>5. \A k \in DOMAIN strs :
         LET longer == Append(strs[k].values, entry)
         IN  /\ DOMAIN longer = 1 .. Len(strs[k].values) + 1
             /\ DOMAIN strs[k].values = 1 .. Len(strs[k].values)
             /\ Len(strs[k].values) \in Nat
             /\ longer[Len(strs[k].values) + 1] = entry
             /\ \A i \in DOMAIN strs[k].values : longer[i] = strs[k].values[i]
  <2> SUFFICES ASSUME NEW k \in DOMAIN strs
               PROVE  LET longer == Append(strs[k].values, entry)
                      IN  /\ DOMAIN longer = 1 .. Len(strs[k].values) + 1
                          /\ DOMAIN strs[k].values = 1 .. Len(strs[k].values)
                          /\ Len(strs[k].values) \in Nat
                          /\ longer[Len(strs[k].values) + 1] = entry
                          /\ \A i \in DOMAIN strs[k].values : longer[i] = strs[k].values[i]
    OBVIOUS
  <2>1. strs[k].values \in Seq(Entries)
    <3>1. strs[k] \in Streams
      OBVIOUS
    <3> QED
      BY <3>1 DEF Streams
  <2> HIDE DEF Entries
  <2> QED
    BY <2>1
<1>6. \A x : Shows(strs, x) => Shows(new, x)
  <2> SUFFICES ASSUME NEW x, NEW k \in DOMAIN strs, NEW i \in DOMAIN strs[k].values,
                      strs[k].values[i].line = x
               PROVE  Shows(new, x)
    BY DEF Shows
  <2>1. k \in DOMAIN new /\ i \in DOMAIN new[k].values /\ new[k].values[i] = strs[k].values[i]
    <3>1. k \in DOMAIN new /\ (new[k] = strs[k] \/ new[k].values = Append(strs[k].values, entry))
      BY <1>0
    <3>2. CASE new[k] = strs[k]
      BY <3>1, <3>2
    <3>3. CASE new[k].values = Append(strs[k].values, entry)
      <4>1. i \in 1 .. Len(strs[k].values) + 1
        BY <1>5
      <4> QED
        BY <3>1, <3>3, <4>1, <1>5
    <3> QED
      BY <3>1, <3>2, <3>3
  <2> QED
    BY <2>1 DEF Shows
<1>7. Shows(new, line)
  <2>1. PICK k \in DOMAIN new :
           \/ new[k].values = <<entry>>
           \/ k \in DOMAIN strs /\ new[k].values = Append(strs[k].values, entry)
    BY DEF Grown
  <2>2. \E i \in DOMAIN new[k].values : new[k].values[i] = entry
    <3>1. CASE new[k].values = <<entry>>
      BY <3>1
    <3>2. CASE k \in DOMAIN strs /\ new[k].values = Append(strs[k].values, entry)
      <4>1. /\ Len(strs[k].values) + 1 \in DOMAIN Append(strs[k].values, entry)
            /\ Append(strs[k].values, entry)[Len(strs[k].values) + 1] = entry
        BY <3>2, <1>5
      <4> QED
        BY <3>2, <4>1
    <3> QED
      BY <2>1, <3>1, <3>2
  <2> QED
    BY <2>2 DEF Shows
<1>8. \A x : Shows(new, x) => Shows(strs, x) \/ x = line
  <2> SUFFICES ASSUME NEW x, NEW k \in DOMAIN new, NEW i \in DOMAIN new[k].values,
                      new[k].values[i].line = x, x # line
               PROVE  Shows(strs, x)
    BY DEF Shows
  <2>1. CASE k \in DOMAIN strs /\ new[k] = strs[k]
    BY <2>1 DEF Shows
  <2>2. CASE new[k].values = <<entry>>
    BY <2>2
  <2>3. CASE k \in DOMAIN strs /\ new[k].values = Append(strs[k].values, entry)
    BY <2>3, <1>5 DEF Shows
  <2> QED
    BY <1>0, <2>1, <2>2, <2>3
<1>9. \A k \in DOMAIN new : TrueStream(new[k], selected)
  <2> SUFFICES ASSUME NEW k \in DOMAIN new
               PROVE  TrueStream(new[k], selected)
    OBVIOUS
  <2>1. CASE k \in DOMAIN strs /\ new[k] = strs[k]
    BY <2>1 DEF Distributed
  <2>2. CASE new[k].key = key /\ new[k].values = <<entry>>
    <3>1. DOMAIN new[k].values = {1} /\ new[k].values[1] = entry
      BY <2>2
    <3> QED
      BY <1>2, <2>2, <3>1 DEF TrueStream
  <2>3. CASE /\ k \in DOMAIN strs /\ strs[k].key = key /\ new[k].key = key
             /\ new[k].values = Append(strs[k].values, entry)
    <3>1. TrueStream(strs[k], selected)
      BY <2>3 DEF Distributed
    <3>2. \A i \in DOMAIN new[k].values :
             \/ i \in DOMAIN strs[k].values /\ new[k].values[i] = strs[k].values[i]
             \/ i = Len(strs[k].values) + 1 /\ new[k].values[i] = entry
      BY <2>3, <1>5
    <3>3. \A i \in DOMAIN strs[k].values : strs[k].values[i].line # line
      BY <1>2, <2>3 DEF Distributed, Shows
    <3> HIDE DEF line, Entries
    <3>4. \A i \in DOMAIN new[k].values :
             /\ new[k].values[i].line \in selected
             /\ new[k].values[i].time = ToNanoseconds(new[k].values[i].line.time)
             /\ ToSet(new[k].key) = Pairs(new[k].values[i].line)
      BY <1>2, <2>3, <3>1, <3>2 DEF TrueStream, line
    <3>5. \A i, j \in DOMAIN new[k].values :
             new[k].values[i].line = new[k].values[j].line => i = j
      BY <3>1, <3>2, <3>3 DEF TrueStream, line
    <3> QED
      BY <3>4, <3>5 DEF TrueStream
  <2> QED
    BY <1>0, <2>1, <2>2, <2>3
<1>10. \A i \in DOMAIN Tail(rs) : ~Shows(new, Tail(rs)[i])
  BY <1>1, <1>2, <1>3, <1>8 DEF Distributed
<1>11. \A x \in selected : x \in ToSet(Tail(rs)) \/ Shows(new, x)
  <2> SUFFICES ASSUME NEW x \in selected, ~Shows(new, x)
               PROVE  x \in ToSet(Tail(rs))
    OBVIOUS
  <2>1. PICK i \in DOMAIN rs : rs[i] = x
    BY <1>6 DEF Distributed, ToSet
  <2>2. i # 1
    BY <1>2, <1>7, <2>1
  <2> QED
    BY <1>4, <2>1, <2>2 DEF ToSet
<1>12. \A i, j \in DOMAIN Tail(rs) : Tail(rs)[i] = Tail(rs)[j] => i = j
  <2> SUFFICES ASSUME NEW i \in DOMAIN Tail(rs), NEW j \in DOMAIN Tail(rs),
                      Tail(rs)[i] = Tail(rs)[j]
               PROVE  i = j
    OBVIOUS
  <2>1. i + 1 = j + 1 /\ i \in Nat /\ j \in Nat
    BY <1>1, <1>3
  <2> QED
    BY <2>1
<1> QED
  BY <1>3, <1>9, <1>10, <1>11, <1>12 DEF Distributed

LEMMA RunOfSequence ==
    ASSUME NEW S, NEW seq \in Seq(S), NEW offset \in Nat, NEW n \in Nat,
           offset + n <= Len(seq), NEW run, run = SubSeq(seq, offset + 1, offset + n)
    PROVE  /\ run \in Seq(S)
           /\ Len(run) = n
           /\ \A i \in DOMAIN run : i + offset \in DOMAIN seq /\ run[i] = seq[i + offset]
<1>1. Len(run) = n /\ DOMAIN run = 1 .. n
  OBVIOUS
<1>2. \A i \in 1 .. n : i + offset \in 1 .. Len(seq) /\ run[i] = seq[i + offset]
  OBVIOUS
<1>3. \A i \in 1 .. n : run[i] \in S
  BY <1>2
<1>4. run \in Seq(S)
  BY <1>1, <1>3
<1> QED
  BY <1>1, <1>2, <1>4

\* A limit leaves a run of the values, as long as the limit or all of them.
LEMMA CutLeaves ==
    ASSUME NEW S, NEW values \in Seq(S), LimitOf(request) \in Int
    PROVE  /\ Cut(values) \in Seq(S)
           /\ \E offset \in Nat : \A i \in DOMAIN Cut(values) :
                 i + offset \in DOMAIN values /\ Cut(values)[i] = values[i + offset]
           /\ \/ Cut(values) = values
              \/ LimitOf(request) > 0 /\ Len(Cut(values)) = LimitOf(request)
<1> DEFINE limit == LimitOf(request)
<1>1. CASE limit <= 0 \/ Len(values) <= limit
  <2>1. Cut(values) = values
    BY <1>1 DEF Cut
  <2>2. \A i \in DOMAIN values : i + 0 = i
    OBVIOUS
  <2> QED
    BY <2>1, <2>2
<1>2. CASE ~(limit <= 0 \/ Len(values) <= limit)
  <2>1. limit \in Nat /\ limit > 0 /\ limit <= Len(values) /\ Len(values) \in Nat
    BY <1>2
  <2>2. CASE request.direction = "backward"
    <3>1. Cut(values) = SubSeq(values, 0 + 1, 0 + limit)
      BY <1>2, <2>1, <2>2 DEF Cut
    <3>2. /\ Cut(values) \in Seq(S)
          /\ Len(Cut(values)) = limit
          /\ \A i \in DOMAIN Cut(values) :
                i + 0 \in DOMAIN values /\ Cut(values)[i] = values[i + 0]
      <4> HIDE DEF limit
      <4> QED
        BY <2>1, <3>1, RunOfSequence
    <3> QED
      BY <2>1, <3>2
  <2>3. CASE request.direction # "backward"
    <3> DEFINE offset == Len(values) - limit
    <3>1. Cut(values) = SubSeq(values, offset + 1, Len(values))
      BY <1>2, <2>3, Zenon DEF Cut
    <3>2. offset \in Nat /\ offset + limit = Len(values)
      BY <2>1
    <3> HIDE DEF limit, offset
    <3>3. Cut(values) = SubSeq(values, offset + 1, offset + limit) /\ offset + limit <= Len(values)
      BY <2>1, <3>1, <3>2
    <3>4. /\ Cut(values) \in Seq(S)
          /\ Len(Cut(values)) = limit
          /\ \A i \in DOMAIN Cut(values) :
                i + offset \in DOMAIN values /\ Cut(values)[i] = values[i + offset]
      BY <2>1, <3>2, <3>3, RunOfSequence
    <3> QED
      BY <2>1, <3>2, <3>4 DEF limit
  <2> QED
    BY <2>2, <2>3
<1> QED
  BY <1>1, <1>2

LEMMA LimitTyped ==
    ASSUME Handled, Asks(QueryKinds)
    PROVE  LimitOf(request) \in Int
<1>1. request \in Request
  BY LogAssumption DEF Handled
<1>2. request.limit \in Optional(Int) /\ request.endpoint \in {"query", "query_range"}
  BY <1>1 DEF Asks, Request
<1>3. CASE request.limit = <<>>
  <2>1. \A endpoint \in {"query", "query_range"} : DefaultLimit[endpoint] \in Nat
    BY LogAssumption
  <2> QED
    BY <1>2, <1>3, <2>1 DEF LimitOf
<1>4. CASE request.limit # <<>>
  BY <1>2, <1>4 DEF LimitOf, Optional
<1> QED
  BY <1>3, <1>4

\* Cut, the streams hold every line or as many as the limit allows.
LEMMA CutPresents ==
    ASSUME NEW selected, streams \in Seq(Streams), Distributed(selected, <<>>, streams),
           LimitOf(request) \in Int,
           NEW new, new = [i \in DOMAIN streams |-> [streams[i] EXCEPT !.values = Cut(@)]]
    PROVE  new \in Seq(Streams) /\ Presented(selected, new, LimitOf(request))
<1> DEFINE Entries == [time : Int, line : Line]
<1> DEFINE cut(k) == [streams[k] EXCEPT !.values = Cut(streams[k].values)]
<1>1. \A k \in DOMAIN streams : streams[k] \in Streams /\ streams[k].values \in Seq(Entries)
  <2>1. \A k \in DOMAIN streams : streams[k] \in Streams
    OBVIOUS
  <2> QED
    BY <2>1 DEF Streams
<1>2. \A k \in DOMAIN streams : cut(k) \in Streams /\ cut(k).key = streams[k].key
                                /\ cut(k).values = Cut(streams[k].values)
  <2> SUFFICES ASSUME NEW k \in DOMAIN streams
               PROVE  cut(k) \in Streams /\ cut(k).key = streams[k].key
                      /\ cut(k).values = Cut(streams[k].values)
    OBVIOUS
  <2>1. Cut(streams[k].values) \in Seq(Entries)
    BY <1>1, CutLeaves
  <2> QED
    BY <1>1, <2>1, OtherValues
<1>3. new = [k \in DOMAIN streams |-> cut(k)]
  OBVIOUS
<1> HIDE DEF cut, Entries
<1>4. new \in Seq(Streams)
  <2>1. DOMAIN streams = 1 .. Len(streams) /\ Len(streams) \in Nat
    OBVIOUS
  <2>2. new \in [1 .. Len(streams) -> Streams]
    BY <1>2, <1>3, <2>1
  <2> QED
    BY <2>1, <2>2
<1>5. \A k \in DOMAIN streams :
         /\ k \in DOMAIN new /\ new[k].key = streams[k].key
         /\ new[k].values = Cut(streams[k].values)
  BY <1>2, <1>3
<1>6. \A k \in DOMAIN new : TrueStream(new[k], selected)
  <2> SUFFICES ASSUME NEW k \in DOMAIN streams
               PROVE  TrueStream(new[k], selected)
    BY <1>3
  <2>1. TrueStream(streams[k], selected)
    BY DEF Distributed
  <2>2. PICK offset \in Nat : \A i \in DOMAIN new[k].values :
           /\ i + offset \in DOMAIN streams[k].values
           /\ new[k].values[i] = streams[k].values[i + offset]
    <3>1. \E offset \in Nat : \A i \in DOMAIN Cut(streams[k].values) :
             /\ i + offset \in DOMAIN streams[k].values
             /\ Cut(streams[k].values)[i] = streams[k].values[i + offset]
      BY <1>1, CutLeaves
    <3> QED
      BY <1>5, <3>1
  <2>3. \A i \in DOMAIN new[k].values : i \in Nat
    <3>1. Cut(streams[k].values) \in Seq(Entries)
      BY <1>1, CutLeaves
    <3> QED
      BY <1>5, <3>1
  <2>4. \A i \in DOMAIN new[k].values :
           /\ new[k].values[i].line \in selected
           /\ new[k].values[i].time = ToNanoseconds(new[k].values[i].line.time)
           /\ ToSet(new[k].key) = Pairs(new[k].values[i].line)
    BY <1>5, <2>1, <2>2 DEF TrueStream
  <2>5. \A i, j \in DOMAIN new[k].values :
           new[k].values[i].line = new[k].values[j].line => i = j
    <3> SUFFICES ASSUME NEW i \in DOMAIN new[k].values, NEW j \in DOMAIN new[k].values,
                        new[k].values[i].line = new[k].values[j].line
                 PROVE  i = j
      OBVIOUS
    <3>1. i + offset = j + offset
      BY <2>1, <2>2 DEF TrueStream
    <3> QED
      BY <2>3, <3>1
  <2> QED
    BY <2>4, <2>5 DEF TrueStream
<1>7. \A line \in selected :
         \/ Shows(new, line)
         \/ \E k \in DOMAIN new : /\ LimitOf(request) > 0
                                  /\ Len(new[k].values) = LimitOf(request)
                                  /\ ToSet(new[k].key) = Pairs(line)
  <2> SUFFICES ASSUME NEW line \in selected
               PROVE  \/ Shows(new, line)
                      \/ \E k \in DOMAIN new : /\ LimitOf(request) > 0
                                               /\ Len(new[k].values) = LimitOf(request)
                                               /\ ToSet(new[k].key) = Pairs(line)
    OBVIOUS
  <2>1. Shows(streams, line)
    <3>1. line \notin ToSet(<<>>)
      BY DEF ToSet
    <3> QED
      BY <3>1 DEF Distributed
  <2>2. PICK k \in DOMAIN streams : \E i \in DOMAIN streams[k].values :
           streams[k].values[i].line = line
    BY <2>1 DEF Shows
  <2>3. ToSet(streams[k].key) = Pairs(line)
    BY <2>2 DEF Distributed, TrueStream
  <2>4. CASE Cut(streams[k].values) = streams[k].values
    <3>1. k \in DOMAIN new /\ new[k].values = streams[k].values
      BY <1>5, <2>4
    <3> QED
      BY <2>2, <3>1, Zenon DEF Shows
  <2>5. CASE LimitOf(request) > 0 /\ Len(Cut(streams[k].values)) = LimitOf(request)
    BY <1>5, <2>3, <2>5
  <2> QED
    BY <1>1, <2>4, <2>5, CutLeaves
<1> QED
  BY <1>4, <1>6, <1>7 DEF Presented

LEMMA StreamingInit ==
    ASSUME Init
    PROVE  Streaming
  BY DEF Init, Streaming, Answered, Asks

\* Only the rows of a log query become entries.
LEMMA EntriesAreLines ==
    ASSUME Handled, AddToStream
    PROVE  Asks({"log"})
<1>1. Posed
  BY DEF Handled, AddToStream
<1>2. {"body", "timestamp"} \subseteq stmt.columns
  BY DEF AddToStream
<1>3. Asks(QueryKinds) /\ stmt = Translation(request)
  BY <1>1, <1>2, StatementOfList DEF Posed
<1>4. request.query.kind # "scalar"
  BY <1>2, <1>3, StatementOfScalar
<1>5. request.query.kind # "metric"
  <2> SUFFICES ASSUME request.query.kind = "metric"
               PROVE  FALSE
    OBVIOUS
  <2>1. stmt.columns = {FieldOf(l) : l \in request.query.by} \cup {"COUNT(*)"}
    BY <1>3, StatementOfCounts
  <2>2. PICK l \in request.query.by : FieldOf(l) = "body"
    BY <1>2, <2>1
  <2>3. request \in Request
    BY LogAssumption DEF Handled
  <2>4. request.query \in LogQuery
    BY <1>3, <2>3 DEF Request, Asks
  <2>5. l \in LabelNames
    BY <2>2, <2>4 DEF LogQuery
  <2>6. "body" \in Fields /\ "body" \notin Fields
    BY <2>2, <2>5, FieldsOfLabels, LogAssumption
  <2> QED
    BY <2>6
<1> QED
  BY <1>3, <1>4, <1>5 DEF Asks, QueryKinds

LEMMA SelectedLines ==
    ASSUME Handled
    PROVE  IsFiniteSet(Selected(stmt)) /\ Selected(stmt) \subseteq Line
<1>1. Selected(stmt) \subseteq db /\ IsFiniteSet(db) /\ db \subseteq Line
  BY LinesTyped DEF Handled, Selected
<1> QED
  BY <1>1, FS_Subset

LEMMA LogStatement ==
    ASSUME Handled, Asks({"log"}), pc \in {"execute", "transform"}
    PROVE  stmt = Translation(request) /\ stmt.shape = "lines"
<1>1. Posed
  BY DEF Handled
<1>2. request.endpoint \in {"query", "query_range"} /\ request.query.kind = "log"
  BY DEF Asks
<1>3. stmt = Translation(request)
  BY <1>1, <1>2 DEF Posed
<1> QED
  BY <1>2, <1>3, StatementOfLines

LEMMA ExecuteStreaming ==
    ASSUME Handled, Streaming, ExecuteQueries
    PROVE  Streaming'
<1>1. streams = <<>> /\ pc' = "transform"
  BY DEF Streaming, ExecuteQueries
<1>2. Asks({"log"}) => Distributed(Selected(stmt), rows', <<>>)
  <2> SUFFICES ASSUME Asks({"log"})
               PROVE  Distributed(Selected(stmt), rows', <<>>)
    OBVIOUS
  <2>1. rows' \in SetToSeqs(Selected(stmt))
    BY LogStatement DEF ExecuteQueries, Returned
  <2>2. /\ rows' \in Seq(Selected(stmt)) /\ ToSet(rows') = Selected(stmt)
        /\ \A i, j \in DOMAIN rows' : rows'[i] = rows'[j] => i = j
    BY <2>1, SelectedLines, OrderOfSet
  <2>3. DOMAIN <<>> = {}
    BY SMT
  <2> QED
    BY <2>2, <2>3 DEF Distributed, Shows
<1>3. Selected(stmt)' = Selected(stmt)
  BY DEF Selected, ExecuteQueries
<1> QED
  BY <1>1, <1>2, <1>3 DEF Streaming, ExecuteQueries, Answered, Asks

LEMMA AddStreaming ==
    ASSUME Handled, Streaming, AddToStream
    PROVE  Streaming'
<1>1. Asks({"log"})
  BY EntriesAreLines
<1> DEFINE selected == Selected(stmt)
<1>2. Distributed(selected, rows, streams) /\ streams \in Seq(Streams) /\ rows # <<>>
  BY <1>1 DEF Streaming, AddToStream
<1> DEFINE line == Head(rows)
<1>3. line \in selected /\ line \in Line
  <2>1. rows \in Seq(selected)
    BY <1>2 DEF Distributed
  <2>2. line \in selected
    BY <1>2, <2>1
  <2> QED
    BY <2>2, SelectedLines
<1>4. PICK key \in Keys(line) : streams' = Added(key, Entry(line))
  BY DEF AddToStream
<1>5. key \in Seq(Fields \X Values) /\ ToSet(key) = Pairs(line)
  BY <1>3, <1>4, KeysOfLine
<1>6. /\ Entry(line) \in [time : Int, line : Line]
      /\ Entry(line).line = line /\ Entry(line).time = ToNanoseconds(line.time)
  BY <1>3, EntryTyped
<1>7. rows' = Tail(rows) /\ selected' = selected
  BY DEF AddToStream, Selected
<1>8. streams' \in Seq(Streams) /\ Distributed(selected, Tail(rows), streams')
  <2>0. PICK entry : entry = Entry(line)
    OBVIOUS
  <2>1. entry \in [time : Int, line : Line] /\ entry.line = Head(rows)
        /\ entry.time = ToNanoseconds(Head(rows).time)
    BY <1>6, <2>0
  <2>2. streams' = Added(key, entry) /\ ToSet(key) = Pairs(Head(rows))
    BY <1>4, <1>5, <2>0
  <2> HIDE DEF selected, line
  <2>3. PICK new : new = streams'
    OBVIOUS
  <2>4. new = Added(key, entry)
    BY <2>2, <2>3
  <2>5. new \in Seq(Streams) /\ Grown(streams, key, entry, new)
    BY <1>2, <1>5, <2>1, <2>4, AddedStreams
  <2>6. Distributed(selected, Tail(rows), new)
    BY <1>2, <2>1, <2>2, <2>5, RowPlaced
  <2> QED
    BY <2>3, <2>5, <2>6
<1> QED
  BY <1>1, <1>7, <1>8 DEF AddToStream, Streaming, Answered, Asks

LEMMA RespondStreaming ==
    ASSUME Handled, Streaming, Respond
    PROVE  Streaming'
<1> DEFINE new == [i \in DOMAIN streams |-> [streams[i] EXCEPT !.values = Cut(@)]]
<1>1. streams' = new /\ pc' = "done" /\ status' = "success" /\ pc = "transform" /\ rows = <<>>
      /\ UNCHANGED <<db, request, stmt>>
  BY DEF Respond, Answer
<1>2. CASE Asks({"log"})
  <2>1. Distributed(Selected(stmt), <<>>, streams) /\ streams \in Seq(Streams)
    BY <1>1, <1>2 DEF Streaming
  <2>2. LimitOf(request) \in Int
    BY <1>2, LimitTyped DEF Asks, QueryKinds
  <2>3. new \in Seq(Streams) /\ Presented(Selected(stmt), new, LimitOf(request))
    <3> HIDE DEF new
    <3>1. \A n : n = new => n \in Seq(Streams) /\ Presented(Selected(stmt), n, LimitOf(request))
      BY <2>1, <2>2, CutPresents DEF new
    <3> QED
      BY <3>1
  <2>4. Selected(stmt)' = Selected(stmt) /\ LimitOf(request)' = LimitOf(request)
    BY <1>1 DEF Selected, LimitOf
  <2> HIDE DEF new
  <2> QED
    BY <1>1, <1>2, <2>3, <2>4 DEF Streaming, Asks
<1>3. CASE ~Asks({"log"})
  <2>1. streams = <<>>
    BY <1>3 DEF Streaming
  <2>2. new = <<>>
    <3>1. DOMAIN <<>> = {}
      BY SMT
    <3> QED
      BY <2>1, <3>1
  <2>3. streams' = <<>>
    BY <1>1, <2>2
  <2> QED
    BY <1>1, <1>3, <2>3 DEF Streaming, Asks
<1> QED
  BY <1>2, <1>3

LEMMA StreamingStep ==
    ASSUME Handled, Streaming, [Next]_vars
    PROVE  Streaming'
<1>1. CASE TranslateQuery \/ BuildDistinct
  BY <1>1 DEF TranslateQuery, BuildDistinct, Streaming, Answered, Asks
<1>2. CASE Refuse \/ Outage \/ RefuseColumns
  BY <1>2 DEF Refuse, Outage, RefuseColumns, Answer, Streaming, Answered, Asks
<1>3. CASE AddToMatrix
  <2>1. ~Asks({"log"})
    <3> SUFFICES ASSUME Asks({"log"})
                 PROVE  FALSE
      OBVIOUS
    <3>1. stmt = Translation(request) /\ request.query.kind = "log"
      BY <1>3, LogStatement DEF AddToMatrix, Asks
    <3>2. stmt.columns = Columns \cup {"tenant_id", "timestamp", "body", "attributes"}
      BY <3>1, StatementOfLines
    <3>3. Columns \cap {"value", "cnt"} = {}
      BY LogAssumption DEF Fields
    <3> QED
      BY <1>3, <3>2, <3>3 DEF AddToMatrix, IsMetricQuery
  <2> QED
    BY <1>3, <2>1 DEF AddToMatrix, Streaming, Answered, Asks
<1>4. CASE RespondWithList
  <2>1. ~Asks({"log"})
    BY <1>4, LogStatement DEF RespondWithList
  <2> QED
    BY <1>4, <2>1 DEF RespondWithList, Streaming, Answered, Asks
<1>5. CASE UNCHANGED vars
  BY <1>5 DEF vars, Streaming, Answered, Asks, Selected
<1> QED
  BY <1>1, <1>2, <1>3, <1>4, <1>5, ExecuteStreaming, AddStreaming, RespondStreaming DEF Next

-----------------------------------------------------------------------------
(* What follows for log queries.                                             *)

\* The condition of a text admits only what the text asks for if what ClickHouse
\* finds more is excluded by it.
LEMMA AdmittedWanted ==
    ASSUME NEW t, FoundByClickHouse(t), t.text = "same" \/ ~t.positive, NEW x, Admitted(x, t)
    PROVE  Wanted(x, t)
  BY DEF FoundByClickHouse, Admitted, Wanted

\* It admits all that the text asks for if what is found more is asked for.
LEMMA WantedAdmitted ==
    ASSUME NEW t, FoundByClickHouse(t), t.text = "same" \/ t.positive, NEW x, Wanted(x, t)
    PROVE  Admitted(x, t)
  BY DEF FoundByClickHouse, Admitted, Wanted

\* Texts that parse are found alike, or more is found by them.
LEMMA TextsOfQuery ==
    ASSUME NEW r \in Requests, r.endpoint \in {"query", "query_range"},
           r.query.kind = "log", Parses(r.query)
    PROVE  /\ \A m \in r.query.matchers :
                 m \in Texts(r.query) /\ FoundByClickHouse(m) /\ m.text \in {"same", "wider"}
           /\ \A i \in DOMAIN r.query.pipeline :
                 LET stage == r.query.pipeline[i]
                 IN  stage.kind = "filter" =>
                        /\ stage \in Texts(r.query) /\ FoundByClickHouse(stage)
                        /\ stage.text \in {"same", "wider"}
<1> DEFINE q == r.query
<1>1. q \in LogQuery
  BY LogAssumption DEF Request
<1>2. q.matchers \subseteq Matcher /\ q.pipeline \in Seq(Stage)
  BY <1>1 DEF LogQuery
<1>3. \A i \in DOMAIN q.pipeline : q.pipeline[i] \in Stage /\ q.pipeline[i] \in ToSet(q.pipeline)
  BY <1>2 DEF ToSet
<1>4. \A i \in DOMAIN q.pipeline : ParsesAt(q.pipeline, i)
  BY DEF Parses, ParseLogRange, ParsePipeline
<1>5. \A s \in Stage : s.kind = "filter" => s \in LineFilter
  BY DEF Stage
<1>6. \A m \in Matcher : FoundByClickHouse(m) /\ m.text \in {"same", "wider"}
  BY DEF Matcher
<1>7. \A f \in LineFilter : FoundByClickHouse(f) /\ f.text \in {"empty", "same", "wider"}
  BY DEF LineFilter
<1>8. \A m \in q.matchers : m \in Texts(q)
  BY DEF Texts
<1>9. \A s \in ToSet(q.pipeline) : s.kind = "filter" => s \in Texts(q)
  BY DEF Texts
<1> HIDE DEF q
<1>10. \A i \in DOMAIN q.pipeline : q.pipeline[i].kind = "filter" => q.pipeline[i].text # "empty"
  BY <1>4 DEF ParsesAt
<1> QED
  BY <1>2, <1>3, <1>5, <1>6, <1>7, <1>8, <1>9, <1>10 DEF q

\* What is selected is what the query and the range ask for, but for what
\* ClickHouse finds more.
LEMMA SelectedAsAsked ==
    ASSUME Handled, Asks({"log"}), Posed
    PROVE  /\ Selected(stmt) \subseteq {line \in db : line.tenant = Tenant}
           /\ KnownUnits(request) /\ WiderExclude(request.query)
                 => Selected(stmt) \subseteq AskedFor(request)
           /\ KnownUnits(request) /\ WiderAsk(request.query)
                 => AskedFor(request) \subseteq Selected(stmt)
<1> DEFINE r == request
<1>1. /\ r.query.kind = "log" /\ r.endpoint \in {"query", "query_range"}
      /\ stmt = Translation(r) /\ Parses(r.query) /\ r \in Requests
  BY DEF Asks, Posed, Handled
<1>2. /\ stmt.tenants = {Tenant}
      /\ stmt.matchers = r.query.matchers
      /\ stmt.bodies = AdmittedBodies(r.query.pipeline)
      /\ stmt.window = IF r.endpoint = "query_range" THEN RequestedWindow(r) ELSE <<>>
  BY <1>1, StatementOfLines
<1>3. \A line \in db : line \in Line
  BY LinesTyped DEF Handled
<1>4. ASSUME NEW line \in db
      PROVE  line \in Selected(stmt) <=>
                /\ line.tenant = Tenant
                /\ Matches(line, r.query.matchers)
                /\ \A i \in DOMAIN r.query.pipeline :
                      r.query.pipeline[i].kind = "filter"
                          => Admitted(line.body, r.query.pipeline[i])
                /\ InWindow(line.time, stmt.window)
  <2>1. line.body \in Bodies
    BY <1>3 DEF Line
  <2> QED
    BY <1>2, <2>1 DEF AdmittedBodies, Selected
<1>5. ASSUME NEW line \in db, KnownUnits(request)
      PROVE  InWindow(line.time, stmt.window) <=>
                (r.endpoint = "query_range" => line.time \in r.start.at .. r.end.at)
  <2>1. CASE r.endpoint = "query"
    BY <1>2, <2>1, OpenWindow
  <2>2. CASE r.endpoint = "query_range"
    <3>1. r.start.unit \in {"date", "s", "ms"} /\ r.end.unit \in {"date", "s", "ms"}
      BY <1>5, <2>2 DEF KnownUnits
    <3>2. /\ ParseTime(r.start) = r.start.at /\ r.start.at \in Nat
          /\ ParseTime(r.end) = r.end.at /\ r.end.at \in Nat
      BY <2>2, <3>1, TimesReadRight DEF Handled
    <3>3. stmt.window = <<r.start.at, r.end.at>>
      BY <1>2, <2>2, <3>2 DEF RequestedWindow
    <3>4. line.time \in Nat
      BY <1>3 DEF Line
    <3>5. InWindow(line.time, <<r.start.at, r.end.at>>) <=> line.time \in r.start.at .. r.end.at
      BY <3>2, <3>4 DEF InWindow
    <3> QED
      BY <2>2, <3>3, <3>5
  <2> QED
    BY <1>1, <2>1, <2>2
<1>6. Selected(stmt) \subseteq {line \in db : line.tenant = Tenant}
  BY <1>4 DEF Selected
<1> DEFINE T == Texts(r.query)
<1>7. /\ \A m \in r.query.matchers :
            m \in T /\ FoundByClickHouse(m) /\ m.text \in {"same", "wider"}
      /\ \A i \in DOMAIN r.query.pipeline : r.query.pipeline[i].kind = "filter" =>
            /\ r.query.pipeline[i] \in T /\ FoundByClickHouse(r.query.pipeline[i])
            /\ r.query.pipeline[i].text \in {"same", "wider"}
  BY <1>1, TextsOfQuery
<1>8. ASSUME KnownUnits(request), WiderExclude(request.query), NEW line \in Selected(stmt)
      PROVE  line \in AskedFor(request)
  <2>1. line \in db
    BY DEF Selected
  <2>2. \A t \in T : t.text = "wider" => ~t.positive
    BY <1>8 DEF WiderExclude
  <2>3. \A m \in r.query.matchers : Wanted(line.labels[FieldOf(m.label)], m)
    BY <1>4, <1>7, <2>1, <2>2, AdmittedWanted DEF Matches
  <2>4. \A i \in DOMAIN r.query.pipeline :
           r.query.pipeline[i].kind = "filter" => Wanted(line.body, r.query.pipeline[i])
    BY <1>4, <1>7, <2>1, <2>2, AdmittedWanted
  <2> QED
    BY <1>4, <1>5, <1>8, <2>1, <2>3, <2>4 DEF AskedFor
<1>9. ASSUME KnownUnits(request), WiderAsk(request.query), NEW line \in AskedFor(request)
      PROVE  line \in Selected(stmt)
  <2>1. line \in db
    BY DEF AskedFor
  <2>2. \A t \in T : t.text = "wider" => t.positive
    BY <1>9 DEF WiderAsk
  <2>3. /\ line.tenant = Tenant
        /\ \A m \in r.query.matchers : Wanted(line.labels[FieldOf(m.label)], m)
        /\ \A i \in DOMAIN r.query.pipeline :
              r.query.pipeline[i].kind = "filter" => Wanted(line.body, r.query.pipeline[i])
        /\ r.endpoint = "query_range" => line.time \in r.start.at .. r.end.at
    BY DEF AskedFor
  <2>4. Matches(line, r.query.matchers)
    BY <1>7, <2>2, <2>3, WantedAdmitted DEF Matches
  <2>5. \A i \in DOMAIN r.query.pipeline :
           r.query.pipeline[i].kind = "filter" => Admitted(line.body, r.query.pipeline[i])
    BY <1>7, <2>2, <2>3, WantedAdmitted
  <2> QED
    BY <1>4, <1>5, <1>9, <2>1, <2>3, <2>4, <2>5
<1> QED
  BY <1>6, <1>8, <1>9

\* What an answered log query shows.
LEMMA AnsweredPresents ==
    ASSUME Handled, Streaming, Answered, Asks({"log"})
    PROVE  /\ streams \in Seq(Streams)
           /\ Presented(Selected(stmt), streams, LimitOf(request))
           /\ Selected(stmt) \subseteq db
           /\ Posed
  BY DEF Streaming, Selected, Handled, Answered

\* LinesAsAsked.  Every line of a stream is one of those selected.
LEMMA PresentedAsAsked ==
    ASSUME Handled, Streaming
    PROVE  LinesAsAsked
<1> SUFFICES ASSUME Answered, Asks({"log"}),
                    NEW k \in DOMAIN streams, NEW v \in ToSet(streams[k].values)
             PROVE  /\ KnownUnits(request) /\ WiderExclude(request.query)
                           => v.line \in AskedFor(request)
                    /\ v.line.tenant = Tenant
                    /\ v.time = v.line.time * Milli
                    /\ ToSet(streams[k].key) = {<<f, v.line.labels[f]>> : f \in Fields}
  BY DEF LinesAsAsked
<1>1. PICK i \in DOMAIN streams[k].values : v = streams[k].values[i]
  BY DEF ToSet
<1>2. TrueStream(streams[k], Selected(stmt)) /\ Selected(stmt) \subseteq db /\ Posed
  BY AnsweredPresents DEF Presented
<1>3. /\ v.line \in Selected(stmt)
      /\ v.time = ToNanoseconds(v.line.time)
      /\ ToSet(streams[k].key) = Pairs(v.line)
  BY <1>1, <1>2 DEF TrueStream
<1>4. ToNanoseconds(v.line.time) = v.line.time * Milli
  BY <1>2, <1>3, TimesWrittenRight DEF Handled
<1>5. /\ v.line.tenant = Tenant
      /\ KnownUnits(request) /\ WiderExclude(request.query) => v.line \in AskedFor(request)
  BY <1>2, <1>3, SelectedAsAsked
<1> QED
  BY <1>3, <1>4, <1>5 DEF Pairs

LEMMA PairsTellLabels ==
    ASSUME NEW one \in Line, NEW other \in Line, Pairs(one) = Pairs(other)
    PROVE  one.labels = other.labels
<1>1. one.labels \in [Fields -> Values] /\ other.labels \in [Fields -> Values]
  BY DEF Line
<1>2. \A f \in Fields : one.labels[f] = other.labels[f]
  <2> SUFFICES ASSUME NEW f \in Fields
               PROVE  one.labels[f] = other.labels[f]
    OBVIOUS
  <2>1. <<f, one.labels[f]>> \in Pairs(other)
    BY DEF Pairs
  <2> QED
    BY <2>1 DEF Pairs
<1> QED
  BY <1>1, <1>2

\* CompleteUpToLimit.  A line that is not shown has a stream of its labels that
\* is as long as the limit.
LEMMA PresentedComplete ==
    ASSUME Handled, Streaming
    PROVE  CompleteUpToLimit
<1> DEFINE Of(line) == {l \in Shown : l.labels = line.labels}
<1> SUFFICES ASSUME Answered, Asks({"log"}), KnownUnits(request), WiderAsk(request.query),
                    NEW line \in AskedFor(request) \ Shown
             PROVE  LimitOf(request) > 0 /\ Cardinality(Of(line)) >= LimitOf(request)
  BY DEF CompleteUpToLimit
<1> DEFINE selected == Selected(stmt)
<1>1. /\ streams \in Seq(Streams) /\ Presented(selected, streams, LimitOf(request))
      /\ selected \subseteq db /\ line \in selected
  BY AnsweredPresents, SelectedAsAsked
<1>2. selected \subseteq Line /\ IsFiniteSet(selected)
  <2>1. IsFiniteSet(db) /\ db \subseteq Line
    BY LinesTyped DEF Handled
  <2> QED
    BY <1>1, <2>1, FS_Subset
<1>3. \A l : l \in Shown <=> Shows(streams, l)
  BY DEF Shown, Shows, ToSet
<1>4. Shown \subseteq selected
  BY <1>1, <1>3 DEF Presented, TrueStream, Shows
<1>5. PICK k \in DOMAIN streams : /\ LimitOf(request) > 0
                                  /\ Len(streams[k].values) = LimitOf(request)
                                  /\ ToSet(streams[k].key) = Pairs(line)
  BY <1>1, <1>3 DEF Presented
<1> DEFINE values == streams[k].values
<1>6. DOMAIN values = 1 .. LimitOf(request) /\ LimitOf(request) \in Nat
  <2>1. streams[k] \in Streams
    BY <1>1
  <2>2. values \in Seq([time : Int, line : Line])
    BY <2>1 DEF Streams
  <2> HIDE DEF values
  <2> QED
    BY <1>5, <2>2 DEF values
<1>7. TrueStream(streams[k], selected)
  BY <1>1 DEF Presented
<1>8. \A i \in DOMAIN values : values[i].line \in Of(line)
  <2> SUFFICES ASSUME NEW i \in DOMAIN values
               PROVE  values[i].line \in Of(line)
    OBVIOUS
  <2>1. values[i].line \in selected /\ Pairs(values[i].line) = Pairs(line)
    BY <1>5, <1>7 DEF TrueStream
  <2>2. values[i].line.labels = line.labels
    BY <1>1, <1>2, <2>1, PairsTellLabels
  <2>3. values[i].line \in Shown
    BY <1>3 DEF Shows
  <2> QED
    BY <2>2, <2>3
<1>9. \A i, j \in DOMAIN values : values[i].line = values[j].line => i = j
  BY <1>7 DEF TrueStream
<1> DEFINE shown == [i \in 1 .. LimitOf(request) |-> values[i].line]
<1> HIDE DEF values, selected, Of
<1>10. shown \in Injection(1 .. LimitOf(request), Of(line))
  BY <1>6, <1>8, <1>9 DEF Injection, IsInjective
<1> HIDE DEF shown
<1>11. IsFiniteSet(Of(line))
  BY <1>2, <1>4, FS_Subset DEF Of
<1>12. Cardinality(1 .. LimitOf(request)) = LimitOf(request)
  BY <1>5, <1>6, FS_Interval
<1>13. Cardinality(1 .. LimitOf(request)) <= Cardinality(Of(line))
  BY <1>10, <1>11, FS_Injection
<1>14. Cardinality(Of(line)) \in Nat
  BY <1>11, FS_CardinalityType
<1> QED
  BY <1>5, <1>6, <1>12, <1>13, <1>14

-----------------------------------------------------------------------------
(* The theorems.                                                             *)

IInv == Handled /\ Streaming

LEMMA Inductive == Spec => []IInv
<1>1. Init => IInv
  BY HandledInit, StreamingInit DEF IInv
<1>2. IInv /\ [Next]_vars => IInv'
  BY HandledStep, StreamingStep DEF IInv
<1> QED
  BY <1>1, <1>2, PTL DEF Spec

\* A log query shows lines of its tenant that its matchers, line filters and
\* range ask for, each at its time and under its labels (pkg/logql/translator.go,
\* TransformToLokiStreams).
THEOREM LogLines == Spec => []LinesAsAsked
<1>1. IInv => LinesAsAsked
  BY PresentedAsAsked DEF IInv
<1> QED
  BY <1>1, Inductive, PTL

\* It leaves out no line but those that the limit cuts off, and a limit leaves
\* that many lines of each label set (TransformToLokiStreams).
THEOREM LogCompleteness == Spec => []CompleteUpToLimit
<1>1. IInv => CompleteUpToLimit
  BY PresentedComplete DEF IInv
<1> QED
  BY <1>1, Inductive, PTL

\* A value offered for a label leads to lines: the list and the query read the
\* label in one column (buildLokiLabelValuesSQL, GetLogNativeColumn).
THEOREM ListedValues == Spec => []ListedValuesFind
<1>1. IInv => ListedValuesFind
  BY OfferedAreFound DEF IInv
<1> QED
  BY <1>1, Inductive, PTL

\* A supported request fails only when ClickHouse does (handleLokiQuery).
THEOREM SupportedRequests == Spec => []SupportedAnswered
<1>1. IInv => SupportedAnswered
  BY SupportedNotRefused DEF IInv
<1> QED
  BY <1>1, Inductive, PTL

LEMMA StatementTyped ==
    ASSUME Handled
    PROVE  /\ stmt.matchers \subseteq Matcher /\ stmt.bodies \subseteq Bodies
           /\ stmt.tenants \subseteq Tenants /\ stmt.by \subseteq Fields
<1>1. CASE stmt = NoStatement
  BY <1>1, LogAssumption DEF NoStatement
<1>2. CASE Asks(QueryKinds) /\ stmt = Translation(request)
  <2>1. request.query \in LogQuery
    <3>1. request \in Request
      BY LogAssumption DEF Handled
    <3> QED
      BY <1>2, <3>1 DEF Request, Asks
  <2>2. AdmittedBodies(request.query.pipeline) \subseteq Bodies /\ {Tenant} \subseteq Tenants
    BY LogAssumption DEF AdmittedBodies
  <2>3. CASE request.query.kind = "scalar"
    BY <1>2, <2>3, StatementOfScalar
  <2>4. CASE request.query.kind = "log"
    <3>1. request.query.matchers \subseteq Matcher
      BY <2>1, <2>4 DEF LogQuery
    <3> QED
      BY <1>2, <2>2, <2>4, <3>1, StatementOfLines
  <2>5. CASE request.query.kind = "metric"
    <3>1. request.query.matchers \subseteq Matcher /\ request.query.by \subseteq LabelNames
      BY <2>1, <2>5 DEF LogQuery
    <3>2. {FieldOf(l) : l \in request.query.by} \subseteq Fields
      BY <3>1, FieldsOfLabels
    <3> QED
      BY <1>2, <2>2, <2>5, <3>1, <3>2, StatementOfCounts
  <2> QED
    BY <1>2, <2>3, <2>4, <2>5 DEF Asks, QueryKinds
<1>3. CASE \E field : stmt = Distinct(request, field)
  <2>1. /\ stmt.tenants = {Tenant} /\ stmt.matchers = {}
        /\ stmt.bodies = Bodies /\ stmt.by = {}
    BY <1>3, StatementOfList
  <2>2. Tenant \in Tenants
    BY LogAssumption
  <2> QED
    BY <2>1, <2>2
<1> QED
  BY <1>1, <1>2, <1>3 DEF Handled, Posed

\* The types of all that the handler holds: no statement speaks of a column that
\* is none, no list offers what is no value.
THEOREM TypeCorrect == Spec => []TypeOK
<1>1. IInv => TypeOK
  <2> SUFFICES ASSUME IInv
               PROVE  TypeOK
    OBVIOUS
  <2>1. Handled /\ Streaming
    BY DEF IInv
  <2>2. db \subseteq Line /\ request \in Request
    BY <2>1, LinesTyped, LogAssumption DEF Handled
  <2>3. listed \subseteq Values \cup CommonLabels
    <3>1. CASE request.endpoint # "label_values"
      BY <2>1, <3>1 DEF Handled
    <3>2. CASE request.endpoint = "label_values"
      <4>1. FieldOf(request.label) \in Fields
        BY <2>2, <3>2, FieldsOfLabels DEF Request
      <4>2. \A line \in db : line.labels \in [Fields -> Values]
        BY <2>2 DEF Line
      <4> QED
        BY <2>1, <3>2, <4>1, <4>2 DEF Handled, Offered
    <3> QED
      BY <3>1, <3>2
  <2>4. streams \in Seq([key : Seq(Fields \X Values), values : Seq([time : Int, line : Line])])
    BY <2>1 DEF Streaming, Streams
  <2>5. /\ pc \in {"translate", "execute", "transform", "done"}
        /\ status \in {"none", "success", "bad_request", "error", "unreachable"}
    BY <2>1 DEF Handled
  <2> QED
    BY <2>1, <2>2, <2>3, <2>4, <2>5, StatementTyped DEF TypeOK
<1> QED
  BY <1>1, Inductive, PTL
=============================================================================
