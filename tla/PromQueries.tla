----------------------------- MODULE PromQueries -----------------------------
(***************************************************************************)
(* Metric queries over the Prometheus endpoints: the translation of a      *)
(* PromQL expression (pkg/promql/translator.go), the single statement it   *)
(* becomes (pkg/api/prometheus.go) and the grouping of its rows into the   *)
(* series of the response (pkg/api/formats/prometheus.go).                 *)
(*                                                                         *)
(* An expression is the sequence of its layers from the selector outwards: *)
(* sum by (job) (http_requests{job="api"}) > 5 has the layers selector,    *)
(* aggregate, compare.  A value is never computed: a row carries the set   *)
(* of the data points it was computed from.                                *)
(*                                                                         *)
(* The text of a matcher is what it finds: the values that PromQL finds by *)
(* it, and those that ClickHouse does.  Texts hold no backslash, which     *)
(* ClickHouse reads in its own way, and no metric has an empty name.       *)
(***************************************************************************)
EXTENDS Integers, Sequences, FiniteSetsExt, SequencesExt

CONSTANTS
    Labels,       \* label names, the name of the metric among them
    MetricName,   \* which is __name__
    LabelValues,
    Values,       \* what comparisons tell apart
    Tenants,
    Tenant,       \* the tenant the query was authenticated for
    Now,          \* the clock of the service, in milliseconds; no point is later
    Second,       \* the milliseconds of a second
    MsAbove,      \* a larger number in a row is taken for milliseconds
    Databases,    \* the contents the table of metrics may have
    Queries       \* the queries that may be asked

LabelSet == UNION {[names -> LabelValues] : names \in SUBSET Labels}

Point == [time : 0 .. Now, tenant : Tenants, labels : [Labels -> LabelValues],
          value : Values]

\* ClickHouse finds what PromQL finds; or more by a regular expression, whose
\* ends match() leaves open; or something else by a text that was rewritten,
\* since a dot in it was taken for a dot in the name of a metric.
FoundByClickHouse(m) ==
    CASE m.text = "same"      -> m.found = m.sought
      [] m.text = "wider"     -> m.op \in {"=~", "!~"} /\ m.sought \subseteq m.found
      [] m.text = "rewritten" -> TRUE

Matcher ==
    {m \in [op : {"=", "!=", "=~", "!~"}, text : {"same", "wider", "rewritten"},
            sought : SUBSET LabelValues, found : SUBSET LabelValues] :
        /\ m.op \in {"=", "!="} => \E value \in LabelValues : m.sought = {value}
        /\ FoundByClickHouse(m)}

Matchers == UNION {[names -> Matcher] : names \in SUBSET Labels}

Layer == [kind : {"selector"}, matchers : Matchers]
    \cup [kind : {"matrix"}, matchers : Matchers, range : Nat]
    \cup [kind : {"aggregate"}, by : SUBSET Labels, without : BOOLEAN]
    \cup [kind : {"compare"}, admits : SUBSET Values]
    \cup [kind : {"rate", "unsupported"}]

\* One selector, and what stands around it.
Expression == {layers \in Seq(Layer) :
                  /\ layers # <<>>
                  /\ \A i \in DOMAIN layers : layers[i].kind \in {"selector", "matrix"} <=> i = 1}

PromQuery == [endpoint : {"query", "query_range"}, layers : Expression,
              start : Nat, end : Nat, step : Nat]

ASSUME PromAssumption ==
    /\ IsFiniteSet(Labels)
    /\ MetricName \in Labels
    /\ Tenant \in Tenants
    /\ Now \in Nat
    /\ Second \in Nat \ {0}
    /\ MsAbove \in Nat
    /\ \A db \in Databases : IsFiniteSet(db) /\ db \subseteq Point
    /\ Queries \subseteq PromQuery
    /\ \A q \in Queries : q.start <= q.end

\* The points lie where the guess of the unit is right, with the beginnings of
\* their buckets: later than twice the threshold (August 1970), or at no time.
ASSUME EraAssumption ==
    \A db \in Databases : \A point \in db : point.time = 0 \/ point.time > 2 * MsAbove

VARIABLES
    db,       \* the data points stored
    pc,       \* where the handler is
    query,    \* the query asked
    stmt,     \* the statement
    rows,     \* the rows it returned that the response does not hold yet
    series,   \* the series of the response
    status    \* how the request was answered

vars == <<db, pc, query, stmt, rows, series, status>>

Row == [time : Int, labels : LabelSet, points : SUBSET Point]

\* The key of a series is the text of its labels in the order they were
\* visited in.
Series == [key : Seq(Labels \X LabelValues), samples : Seq([time : Int, points : SUBSET Point])]

-----------------------------------------------------------------------------
(* Translation. *)

\* A range query buckets its points: one row per step and per combination of
\* the labels the selector matches on.
Bucketing(q) == q.endpoint = "query_range"

\* mutant: one bucket per whole step, as many as a range aligned to it has
LimitAligned(start, end, step) == (end - start) \div step

\* maxBuckets and the buffer for the partial buckets at the ends.
Limit(start, end, step) == (end - start) \div step + 1 + 10

NoStatement == [shape |-> "points", step |-> 0, shown |-> {}, matchers |-> <<>>,
                admits |-> Values, from |-> 0, to |-> Now, limit |-> 0,
                ordered |-> FALSE, grouped |-> FALSE, executable |-> TRUE,
                rejected |-> FALSE]

\* The name of the metric can only be asked for as it is.
RefusesName(matchers) == MetricName \in DOMAIN matchers /\ matchers[MetricName].op # "="

TranslateVectorSelector(q, matchers) ==
    IF RefusesName(matchers) THEN [NoStatement EXCEPT !.rejected = TRUE]
    ELSE IF Bucketing(q)
    THEN [NoStatement EXCEPT !.shape = "buckets", !.step = q.step,
                             !.shown = DOMAIN matchers, !.matchers = matchers,
                             !.from = q.start, !.to = q.end,
                             !.limit = Limit(q.start, q.end, q.step),
                             !.ordered = TRUE, !.grouped = TRUE]
    ELSE [NoStatement EXCEPT !.shown = Labels, !.matchers = matchers]

\* The range of the request takes the place of the range of the selector.
TranslateMatrixSelector(q, matchers, range) ==
    [NoStatement EXCEPT !.shown = Labels, !.matchers = matchers,
                        !.rejected = RefusesName(matchers),
                        !.from = IF Bucketing(q) THEN q.start ELSE Max({0, Now - range}),
                        !.to = IF Bucketing(q) THEN q.end ELSE Now]

\* An aggregation of buckets is wrapped around them; it sees the labels they
\* show, the name of the metric under another name than it asks for.  Without a
\* grouping its GROUP BY is put before its FROM.  Any other statement has its
\* columns replaced by the aggregate, if it still has its *.  A `without' that
\* names labels is translated as a `by'.
TranslateAggregate(s, by, without) ==
    IF s.grouped
    THEN [s EXCEPT !.shape = "wrapped", !.shown = by, !.ordered = TRUE,
                   !.executable = /\ @
                                  /\ s.shape \in {"buckets", "wrapped"}
                                  /\ by # {}
                                  /\ by \subseteq s.shown \ {MetricName}]
    ELSE [s EXCEPT !.shape = "aggregate", !.shown = {}, !.grouped = by # {},
                   !.rejected = @ \/ (without /\ by = {})]

\* rate() of a matrix selector: one row with the single column rate.
TranslateRate(s) == [s EXCEPT !.shape = "aggregate", !.shown = {}]

\* AND value > x is appended to the text.  After a WHERE it is a condition,
\* after the ORDER BY of a wrapped aggregation it is part of the ordering, and
\* after a LIMIT or a GROUP BY it is refused.
TranslateBinary(s, admits) ==
    IF s.shape = "wrapped" THEN [s EXCEPT !.ordered = FALSE]
    ELSE IF s.grouped THEN [s EXCEPT !.executable = FALSE]
    ELSE [s EXCEPT !.admits = @ \cap admits]

TranslateExpr(q, s, layer) ==
    CASE layer.kind = "selector"  -> TranslateVectorSelector(q, layer.matchers)
      [] layer.kind = "matrix"    -> TranslateMatrixSelector(q, layer.matchers, layer.range)
      [] layer.kind = "aggregate" -> TranslateAggregate(s, layer.by, layer.without)
      [] layer.kind = "rate"      -> TranslateRate(s)
      [] layer.kind = "compare"   -> TranslateBinary(s, layer.admits)

Translation(q) ==
    FoldLeft(LAMBDA s, layer : TranslateExpr(q, s, layer), NoStatement, q.layers)

\* Refused before the selector is looked at: offsets, subqueries, other
\* functions, operations between metrics, an aggregation right around another.
Unsupported(q) ==
    \E i \in DOMAIN q.layers :
        \/ q.layers[i].kind = "unsupported"
        \/ i > 1 /\ q.layers[i].kind = "aggregate" /\ q.layers[i - 1].kind = "aggregate"

\* int(rangeDuration.Milliseconds()/stepMillis), with a step that rounds to no
\* millisecond.
DividesByZero(q) ==
    /\ q.layers[1].kind = "selector"
    /\ ~RefusesName(q.layers[1].matchers)
    /\ Bucketing(q)
    /\ q.step = 0

-----------------------------------------------------------------------------
(* Execution. *)

Asks(m) == m.op \in {"=", "=~"}

Matches(point, matchers) ==
    \A name \in DOMAIN matchers :
        point.labels[name] \in matchers[name].found <=> Asks(matchers[name])

Selected(s) ==
    {point \in db : /\ point.tenant = Tenant
                    /\ Matches(point, s.matchers)
                    /\ point.value \in s.admits
                    /\ point.time \in s.from .. s.to}

\* mutant: the bucket is not multiplied back to a time
BucketNumber(time, step) == time \div step

\* intDiv(timestamp, step) * step
BucketOf(time, step) == (time \div step) * step

\* GROUP BY the time and the labels shown.
Grouped(ungrouped, shown) ==
    LET GroupOf(r) == [time |-> r.time, labels |-> Restrict(r.labels, shown)]
    IN  {[time   |-> group.time,
          labels |-> group.labels,
          points |-> UNION {r.points : r \in {u \in ungrouped : GroupOf(u) = group}}] :
            group \in {GroupOf(r) : r \in ungrouped}}

PointRows(s) ==
    {[time |-> point.time, labels |-> point.labels, points |-> {point}] : point \in Selected(s)}

BucketRows(s) ==
    Grouped({[r EXCEPT !.time = BucketOf(@, s.step)] : r \in PointRows(s)},
            DOMAIN s.matchers)

\* ORDER BY ts: rows of the same bucket come in any order.
InTimeOrder(set) ==
    {seq \in SetToSeqs(set) : \A i, j \in DOMAIN seq : i < j => seq[i].time <= seq[j].time}

Kept(seq, limit) == SubSeq(seq, 1, Min({limit, Len(seq)}))

\* The sequences of rows a statement may return.
Returned(s) ==
    CASE s.shape = "points"  -> SetToSeqs(PointRows(s))
      [] s.shape = "buckets" -> {Kept(seq, s.limit) : seq \in InTimeOrder(BucketRows(s))}
      [] s.shape = "wrapped" ->
            UNION {LET set == Grouped(ToSet(Kept(seq, s.limit)), s.shown)
                   IN  IF s.ordered THEN InTimeOrder(set) ELSE SetToSeqs(set) :
                       seq \in InTimeOrder(BucketRows(s))}
      [] s.shape = "aggregate" ->
            {IF s.grouped /\ Selected(s) = {} THEN <<>>
             ELSE <<[time |-> 0, labels |-> <<>>, points |-> Selected(s)]>>}

-----------------------------------------------------------------------------
(* The steps of a request. *)

Init ==
    /\ db \in Databases
    /\ pc = "idle"
    /\ query \in Queries
    /\ stmt = NoStatement
    /\ rows = <<>>
    /\ series = <<>>
    /\ status = "none"

Answer(how) == pc' = "done" /\ status' = how

\* A statement, or a 400.
TranslateQuery ==
    /\ pc = "idle"
    /\ ~Unsupported(query)
    /\ ~DividesByZero(query)
    /\ \/ /\ ~Translation(query).rejected
          /\ stmt' = Translation(query)
          /\ pc' = "execute"
          /\ UNCHANGED status
       \/ /\ Translation(query).rejected
          /\ Answer("error")
          /\ UNCHANGED stmt
    /\ UNCHANGED <<db, query, rows, series>>

Refuse ==
    /\ pc = "idle"
    /\ Unsupported(query)
    /\ Answer("error")
    /\ UNCHANGED <<db, query, stmt, rows, series>>

\* The goroutine of the request panics and its connection is closed.
Panic ==
    /\ pc = "idle"
    /\ ~Unsupported(query)
    /\ DividesByZero(query)
    /\ Answer("aborted")
    /\ UNCHANGED <<db, query, stmt, rows, series>>

\* executeQueries; every failure is a 500.
ExecuteQueries ==
    /\ pc = "execute"
    /\ \/ /\ stmt.executable
          /\ rows' \in Returned(stmt)
          /\ pc' = "transform"
          /\ UNCHANGED status
       \/ /\ ~stmt.executable
          /\ Answer("error")
          /\ UNCHANGED rows
    /\ UNCHANGED <<db, query, stmt, series>>

\* The service cannot reach ClickHouse, or not in time.
Outage ==
    /\ pc = "execute"
    /\ Answer("unreachable")
    /\ UNCHANGED <<db, query, stmt, rows, series>>

\* mutant: the alias of the bucket is not looked for
TimeColumnsOfPoints == {"timestamp"}

TimeColumns == {"timestamp", "ts"}

Columns == CASE stmt.shape = "points" -> {"timestamp", "value"}
             [] stmt.shape \in {"buckets", "wrapped"} -> {"ts", "value"}
             [] OTHER -> {}

\* A response needs a value column, and one of a range a time column.
ColumnsMissing ==
    \/ "value" \notin Columns
    \/ query.endpoint = "query_range" /\ Columns \cap TimeColumns = {}

\* No rows are a success before the columns are looked at.
RefuseColumns ==
    /\ pc = "transform"
    /\ rows # <<>>
    /\ ColumnsMissing
    /\ Answer("error")
    /\ UNCHANGED <<db, query, stmt, rows, series>>

ToUnixSeconds(time) == IF time > MsAbove THEN time \div Second ELSE time

Sample(row) == [time |-> ToUnixSeconds(row.time), points |-> row.points]

LabelPairs(row) == {<<name, row.labels[name]>> : name \in DOMAIN row.labels}

\* Each row of an instant query is a result of its own.
AddInstant ==
    /\ pc = "transform"
    /\ rows # <<>>
    /\ ~ColumnsMissing
    /\ query.endpoint = "query"
    /\ series' = Append(series, [key |-> SetToSeq(LabelPairs(Head(rows))),
                                 samples |-> <<Sample(Head(rows))>>])
    /\ rows' = Tail(rows)
    /\ UNCHANGED <<db, pc, query, stmt, status>>

\* metricMapToKey ranges over a map: every order of the labels is possible.
Keys(row) == SetToSeqs(LabelPairs(row))

\* The sample joins the series that has its key, or opens one.
Added(key, sample) ==
    IF \E i \in DOMAIN series : series[i].key = key
    THEN [i \in DOMAIN series |->
             IF series[i].key = key
             THEN [series[i] EXCEPT !.samples = Append(@, sample)]
             ELSE series[i]]
    ELSE Append(series, [key |-> key, samples |-> <<sample>>])

AddToSeries ==
    /\ pc = "transform"
    /\ rows # <<>>
    /\ ~ColumnsMissing
    /\ query.endpoint = "query_range"
    /\ \E key \in Keys(Head(rows)) : series' = Added(key, Sample(Head(rows)))
    /\ rows' = Tail(rows)
    /\ UNCHANGED <<db, pc, query, stmt, status>>

Respond ==
    /\ pc = "transform"
    /\ rows = <<>>
    /\ Answer("success")
    /\ UNCHANGED <<db, query, stmt, rows, series>>

Next ==
    \/ TranslateQuery
    \/ Refuse
    \/ Panic
    \/ ExecuteQueries
    \/ Outage
    \/ RefuseColumns
    \/ AddInstant
    \/ AddToSeries
    \/ Respond

Spec == Init /\ [][Next]_vars
-----------------------------------------------------------------------------
(* Properties. *)

TypeOK ==
    /\ db \subseteq Point
    /\ pc \in {"idle", "execute", "transform", "done"}
    /\ query \in PromQuery
    /\ stmt.step \in Nat /\ stmt.limit \in Nat /\ stmt.shown \subseteq Labels
    /\ rows \in Seq(Row)
    /\ series \in Seq(Series)
    /\ status \in {"none", "success", "error", "aborted", "unreachable"}

Answered == pc = "done" /\ status = "success"

Kinds == {query.layers[i].kind : i \in DOMAIN query.layers}

\* The points the selector of a range query asks for, in PromQL's sense.
Asked ==
    {point \in db :
        /\ point.tenant = Tenant
        /\ \A name \in DOMAIN query.layers[1].matchers :
              LET m == query.layers[1].matchers[name]
              IN  point.labels[name] \in m.sought <=> Asks(m)
        /\ point.time \in query.start .. query.end}

\* No text was rewritten, and those that ClickHouse finds more by only exclude.
WiderExclude ==
    \A name \in DOMAIN query.layers[1].matchers :
        LET m == query.layers[1].matchers[name]
        IN  m.text = "same" \/ (m.text = "wider" /\ ~Asks(m))

\* Every label the selector matches on has one value: its rows are one series.
OneSeries ==
    \A name \in DOMAIN query.layers[1].matchers :
        query.layers[1].matchers[name].op = "=" /\ query.layers[1].matchers[name].text = "same"

Samples == UNION {{<<i, j>> : j \in DOMAIN series[i].samples} : i \in DOMAIN series}

SampleAt(at) == series[at[1]].samples[at[2]]

\* A range query for one series is answered with every point of the range,
\* each behind one sample, whatever the alignment of the range to the step:
\* the LIMIT that follows from both never cuts a bucket off.  And no point
\* counts twice in any answer.
CountedOnce ==
    Answered /\ query.endpoint = "query_range" =>
        /\ \A at1, at2 \in Samples :
              at1 # at2 => SampleAt(at1).points \cap SampleAt(at2).points = {}
        /\ OneSeries /\ "compare" \notin Kinds =>
              UNION {SampleAt(at).points : at \in Samples} = Asked

\* A series is what it says: the points behind its samples belong to the tenant
\* and the range, have its labels, and fall into the step that begins at the
\* sample's time.  They were asked for, unless the query has a text that was
\* rewritten or asks for one that ClickHouse finds more by.
SamplesTrue ==
    Answered /\ query.endpoint = "query_range" =>
        \A at \in Samples :
            \A point \in SampleAt(at).points :
                /\ WiderExclude => point \in Asked
                /\ point.tenant = Tenant /\ point.time \in query.start .. query.end
                /\ \A pair \in ToSet(series[at[1]].key) : point.labels[pair[1]] = pair[2]
                /\ SampleAt(at).time * Second <= point.time
                /\ point.time < (SampleAt(at).time + 1) * Second + stmt.step

\* The samples of a bucketed series go forward in time, no two of them at the
\* same second, as long as the step is a second or more.
TimesIncrease ==
    query.endpoint = "query_range" /\ query.step >= Second
            /\ Kinds \subseteq {"selector", "aggregate"} =>
        \A i \in DOMAIN series :
            \A j, k \in DOMAIN series[i].samples :
                j < k => series[i].samples[j].time < series[i].samples[k].time

\* What the endpoints can answer, if a name of a metric is asked for as it is:
\* selectors and range selectors, comparisons of instant selectors, and over a
\* range aggregations by labels that the selector matches on, the name not
\* among them.
Supported ==
    /\ MetricName \in DOMAIN query.layers[1].matchers
           => query.layers[1].matchers[MetricName].op = "="
    /\ \/ Kinds = {"matrix"}
       \/ query.endpoint = "query" /\ Kinds \subseteq {"selector", "compare"}
       \/ /\ query.endpoint = "query_range"
          /\ query.step > 0
          /\ \/ Len(query.layers) = 1 /\ Kinds = {"selector"}
             \/ /\ Len(query.layers) = 2 /\ Kinds = {"selector", "aggregate"}
                /\ query.layers[2].by # {}
                /\ MetricName \notin query.layers[2].by
                /\ query.layers[2].by \subseteq DOMAIN query.layers[1].matchers

\* Such a query fails only when ClickHouse does.
SupportedAnswered ==
    pc = "done" /\ Supported => status \in {"success", "unreachable"}

-----------------------------------------------------------------------------
(* Claims of the documentation. *)

\* pkg/api/formats/prometheus.go, at metricMapToKey: the labels of a key are
\* sorted, so the rows of one label set end up in one series.
SeriesWhole ==
    Answered /\ query.endpoint = "query_range" =>
        \A i, j \in DOMAIN series :
            ToSet(series[i].key) = ToSet(series[j].key) => i = j
=============================================================================
