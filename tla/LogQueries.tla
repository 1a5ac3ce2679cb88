------------------------------ MODULE LogQueries ------------------------------
(***************************************************************************)
(* Log queries over the Loki endpoints: the parser of LogQL (pkg/logql),   *)
(* the statement a query becomes, and the streams of the response          *)
(* (pkg/api/loki.go, pkg/api/formats/loki.go).                             *)
(*                                                                         *)
(* The text of a matcher or of a line filter is what it finds: the values  *)
(* or bodies that LogQL finds by it, and those that ClickHouse does.  A    *)
(* body is opaque.  The columns of a line and the attributes that are no   *)
(* column of their own are one record, its labels.  Texts hold no          *)
(* backslash, which ClickHouse reads in its own way.                       *)
(***************************************************************************)
EXTENDS Integers, Sequences, FiniteSetsExt, SequencesExt

CONSTANTS
    Columns,        \* the columns of otel_logs a label may map to
    Attributes,     \* attributes that only the JSON text of a line holds
    ColumnOfLabel,  \* the label names that map to a column
    Values,         \* values of columns and attributes, the empty one among them
    Bodies,
    Tenants,
    Tenant,         \* the tenant the request was authenticated for
    Second,         \* the milliseconds of a second
    Milli,          \* the nanoseconds of a millisecond
    MsAbove,        \* a larger number is taken for milliseconds,
    NsAbove,        \* and, in a row, a still larger one for nanoseconds
    Overflow,       \* the first number that 64 bits cannot hold
    Now,            \* the clock of the service, in milliseconds
    DefaultLimit,   \* of a request without a limit, per endpoint
    Databases,      \* the contents the table of logs may have
    Requests        \* the requests that may be made

Fields == Columns \cup Attributes

Line == [time : Nat, tenant : Tenants, labels : [Fields -> Values], body : Bodies]

\* A field of every line but those whose name no line has.
LabelNames == DOMAIN ColumnOfLabel \cup Attributes

\* ClickHouse finds what the language finds, or more: LIKE takes an underscore
\* and a percent sign for wildcards, and match() leaves the ends of the regular
\* expression of a matcher open.
FoundByClickHouse(t) ==
    /\ t.sought \subseteq t.found
    /\ t.text = "same" => t.found = t.sought

Matcher ==
    {m \in [label : LabelNames, positive : BOOLEAN, text : {"same", "wider"},
            sought : SUBSET Values, found : SUBSET Values] : FoundByClickHouse(m)}

\* |= |~ ask for what is found, != !~ for the rest.
LineFilter ==
    {f \in [kind : {"filter"}, positive : BOOLEAN, text : {"empty", "same", "wider"},
            sought : SUBSET Bodies, found : SUBSET Bodies] : FoundByClickHouse(f)}

\* Labels are dropped or kept.  A label filter is none of the other stages.
Stage == LineFilter
    \cup [kind : {"parser"}, name : {"json", "logfmt", "pattern", "regexp"},
          parameter : BOOLEAN]
    \cup [kind : {"labels", "label_filter"}]

PromFunctions == {"count_over_time", "rate"}
LogFunctions == {"bytes_over_time", "bytes_rate"}

\* A query in LogQL.  The grouping of an aggregation stands before or after
\* what it aggregates.
LogQuery == [kind : {"scalar"}]
    \cup [kind : {"log"}, matchers : SUBSET Matcher, pipeline : Seq(Stage), range : Nat]
    \cup [kind : {"metric"}, matchers : SUBSET Matcher, pipeline : Seq(Stage), range : Nat,
          function : PromFunctions \cup LogFunctions \cup {"other"},
          aggregation : {"none", "sum", "topk"}, by : SUBSET LabelNames,
          grouping : {"before", "after"}]

\* A time as the caller writes it, with no fraction in seconds.  Optional
\* parameters are sequences of at most one element.
Time == [unit : {"date", "ms", "ns"}, at : Nat]
    \cup [unit : {"s"}, at : {n \in Nat : n % Second = 0}]

Optional(S) == {s \in Seq(S) : Len(s) <= 1}

Request == [endpoint : {"query"}, query : LogQuery, limit : Optional(Int),
            direction : {"forward", "backward"}]
    \cup [endpoint : {"query_range"}, query : LogQuery, limit : Optional(Int),
          direction : {"forward", "backward"}, start : Time, end : Time]
    \cup [endpoint : {"labels"}, limit : Optional(Int),
          start : Optional(Time), end : Optional(Time)]
    \cup [endpoint : {"label_values"}, label : LabelNames, limit : Optional(Int),
          start : Optional(Time), end : Optional(Time)]

ASSUME LogAssumption ==
    /\ "" \in Values
    /\ Columns \cap Attributes = {}
    /\ IsFiniteSet(Columns) /\ IsFiniteSet(Attributes)
    /\ Fields \cap {"body", "timestamp", "value", "cnt"} = {}
    /\ ColumnOfLabel \in [DOMAIN ColumnOfLabel -> Columns]
    /\ "service_name" \in Columns
    /\ Tenant \in Tenants
    /\ {Second, Milli} \subseteq Nat \ {0}
    /\ {MsAbove, NsAbove, Now} \subseteq Nat
    /\ Overflow \in Nat \ {0}
    /\ DefaultLimit \in [{"query", "query_range"} -> Nat \ {0}]
    /\ \A db \in Databases : IsFiniteSet(db) /\ db \subseteq Line
    /\ Requests \subseteq Request

\* The times of lines and ranges lie where the guesses of units are right: above
\* the threshold of milliseconds (April 1970) and, in seconds, not above it;
\* below that of nanoseconds; and their nanoseconds fit 64 bits (April 2262).
\* A line may have no time.
ASSUME EraAssumption ==
    /\ \A d \in Databases : \A line \in d :
          \/ line.time = 0
          \/ line.time \in MsAbove + 1 .. NsAbove /\ line.time * Milli < Overflow
    /\ \A r \in Requests : r.endpoint = "query_range" =>
          \A t \in {r.start, r.end} :
             t.at > MsAbove /\ t.at \div Second <= MsAbove /\ t.at * Milli < Overflow

VARIABLES
    db,       \* the lines stored
    request,
    pc,       \* where the handler is
    stmt,     \* the statement
    rows,     \* the rows it returned that the response does not hold yet
    streams,  \* the streams of the response
    listed,   \* the labels or values of the response
    status    \* how the request was answered

vars == <<db, request, pc, stmt, rows, streams, listed, status>>

-----------------------------------------------------------------------------
(* Parsing. *)

\* What a matcher or filter asks for.
Wanted(x, t) == x \in t.sought <=> t.positive

\* The Prometheus parser refuses a selector that no label is required by.
PromSelector(matchers) == \E m \in matchers : ~Wanted("", m)

ValidateStreamSelector(matchers) == \E m \in matchers : m.positive

\* An empty text is taken for no line filter; the parameter of a parser is left
\* behind, where a stage must begin.  A drop or keep eats its labels up to the
\* bar of the next stage and leaves the last of them in front of it.
ParsesAt(pipeline, i) ==
    LET stage == pipeline[i]
    IN  \/ stage.kind = "filter" /\ stage.text # "empty"
        \/ stage.kind = "parser" /\ ~stage.parameter
        \/ stage.kind = "labels" /\ i = Len(pipeline)

\* mutant: the pipeline ends at the first parser
EndsAtParser(pipeline) ==
    \A i \in DOMAIN pipeline :
        ParsesAt(pipeline, i) /\ (pipeline[i].kind = "parser" => i = Len(pipeline))

ParsePipeline(pipeline) == \A i \in DOMAIN pipeline : ParsesAt(pipeline, i)

\* [5m] after the selector is no stage of a pipeline.
ParseLogRange(q) ==
    /\ q.range = 0
    /\ PromSelector(q.matchers)
    /\ ValidateStreamSelector(q.matchers)
    /\ ParsePipeline(q.pipeline)

\* What the Prometheus parser takes, it takes with every aggregation.
ParseWithPromQL(q) ==
    /\ q.function \in PromFunctions
    /\ q.pipeline = <<>>
    /\ q.range > 0
    /\ PromSelector(q.matchers)

\* The operators that show the parser a pipeline inside an aggregation.
ShowsPipeline(q) ==
    \/ \E m \in q.matchers : ~m.positive
    \/ \E i \in DOMAIN q.pipeline : \/ q.pipeline[i].kind \in {"filter", "labels"}
                                    \/ /\ q.pipeline[i].kind = "parser"
                                       /\ q.pipeline[i].name \in {"json", "logfmt"}

\* The function is looked for in the last parentheses.
AggregatedLogQLMetric(q) ==
    /\ q.aggregation = "sum"
    /\ q.function \in LogFunctions \/ ShowsPipeline(q)
    /\ q.by # {} => q.grouping = "before"

ParseMetricCustom(q) ==
    /\ q.function \in PromFunctions \cup LogFunctions
    /\ q.aggregation = "none" \/ AggregatedLogQLMetric(q)
    /\ q.range > 0
    /\ PromSelector(q.matchers)
    /\ ValidateStreamSelector(q.matchers)
    /\ ParsePipeline(q.pipeline)

Parses(q) ==
    CASE q.kind = "scalar" -> TRUE
      [] q.kind = "log"    -> ParseLogRange(q)
      [] q.kind = "metric" -> ParseWithPromQL(q) \/ ParseMetricCustom(q)

-----------------------------------------------------------------------------
(* Translation. *)

Int64(n) == ((n + Overflow) % (2 * Overflow)) - Overflow

\* A number is taken for seconds or for milliseconds, and these are made
\* nanoseconds on the way.
ParseTime(t) ==
    LET number == CASE t.unit = "s"              -> t.at \div Second
                    [] t.unit \in {"date", "ms"} -> t.at
                    [] t.unit = "ns"             -> t.at * Milli
    IN  CASE t.unit = "date"                      -> number
          [] t.unit # "date" /\ number <= MsAbove -> number * Second
          [] t.unit # "date" /\ number > MsAbove  -> Int64(number * Milli) \div Milli

FieldOf(label) == IF label \in DOMAIN ColumnOfLabel THEN ColumnOfLabel[label] ELSE label

\* What the condition of a matcher or filter admits.
Admitted(x, t) == x \in t.found <=> t.positive

Matches(line, matchers) == \A m \in matchers : Admitted(line.labels[FieldOf(m.label)], m)

\* mutant: the filters behind a parser are left to it
BodiesBeforeParser(pipeline) ==
    {b \in Bodies : \A i \in DOMAIN pipeline :
                        /\ pipeline[i].kind = "filter"
                        /\ \A j \in 1 .. i : pipeline[j].kind = "filter"
                        => Admitted(b, pipeline[i])}

\* Only line filters become conditions.
AdmittedBodies(pipeline) ==
    {b \in Bodies : \A i \in DOMAIN pipeline :
                        pipeline[i].kind = "filter" => Admitted(b, pipeline[i])}

\* A window is open, begins at a time, or begins and ends.
InWindow(time, window) ==
    /\ window # <<>> => time >= window[1]
    /\ Len(window) = 2 => time <= window[2]

NoStatement == [shape |-> "none", columns |-> {}, tenants |-> {Tenant}, matchers |-> {},
                bodies |-> Bodies, window |-> <<>>, by |-> {}, limit |-> 0]

RequestedWindow(r) == <<ParseTime(r.start), ParseTime(r.end)>>

TranslateLogRange(r) ==
    [NoStatement EXCEPT !.shape = "lines",
                        !.columns = Columns \cup {"tenant_id", "timestamp", "body", "attributes"},
                        !.matchers = r.query.matchers,
                        !.bodies = AdmittedBodies(r.query.pipeline),
                        !.window = IF r.endpoint = "query_range" THEN RequestedWindow(r) ELSE <<>>]

\* A range of the request takes the place of the range of the query.  Of an
\* aggregation only its grouping is translated, a `without' as a `by'; no
\* column gets an alias.
TranslateMetric(r) ==
    [NoStatement EXCEPT !.shape = "metric",
                        !.columns = {FieldOf(l) : l \in r.query.by} \cup {"COUNT(*)"},
                        !.matchers = r.query.matchers,
                        !.bodies = AdmittedBodies(r.query.pipeline),
                        !.by = {FieldOf(l) : l \in r.query.by},
                        !.window = IF r.endpoint = "query_range" THEN RequestedWindow(r)
                                   ELSE <<Now - r.query.range>>]

\* One row of a value if the table has any row at all.
TranslateScalar ==
    [NoStatement EXCEPT !.shape = "scalar", !.columns = {"value"}, !.tenants = Tenants, !.limit = 1]

Translation(r) ==
    CASE r.query.kind = "log"    -> TranslateLogRange(r)
      [] r.query.kind = "metric" -> TranslateMetric(r)
      [] r.query.kind = "scalar" -> TranslateScalar

\* Both times must be given.
OptionalWindow(r) ==
    IF r.start = <<>> \/ r.end = <<>> THEN <<>>
    ELSE <<ParseTime(r.start[1]), ParseTime(r.end[1])>>

\* mutant: the condition on the tenant forgotten
DistinctOfAll(r, field) ==
    [NoStatement EXCEPT !.shape = "distinct", !.columns = {field}, !.tenants = Tenants,
                        !.window = OptionalWindow(r),
                        !.limit = IF r.limit = <<>> THEN 0 ELSE Head(r.limit)]

Distinct(r, field) ==
    [NoStatement EXCEPT !.shape = "distinct", !.columns = {field},
                        !.window = OptionalWindow(r),
                        !.limit = IF r.limit = <<>> THEN 0 ELSE Head(r.limit)]

-----------------------------------------------------------------------------
(* Execution. *)

Selected(s) ==
    {line \in db : /\ line.tenant \in s.tenants
                   /\ Matches(line, s.matchers)
                   /\ line.body \in s.bodies
                   /\ InWindow(line.time, s.window)}

Kept(seq, limit) == IF limit > 0 THEN SubSeq(seq, 1, Min({limit, Len(seq)})) ELSE seq

\* The sequences of rows a statement may return: nothing orders them.  What a
\* metric counts is not computed.
Returned(s) ==
    CASE s.shape = "lines"    -> SetToSeqs(Selected(s))
      [] s.shape = "metric"   -> IF s.by = {} THEN {<<[labels |-> <<>>]>>}
                                 ELSE SetToSeqs({[labels |-> Restrict(line.labels, s.by)] :
                                                     line \in Selected(s)})
      [] s.shape = "scalar"   -> {IF Selected(s) = {} THEN <<>> ELSE <<[labels |-> <<>>]>>}
      [] s.shape = "distinct" -> {Kept(seq, s.limit) :
                                     seq \in SetToSeqs(UNION {{line.labels[f] : f \in s.columns} :
                                                                 line \in Selected(s)})}

-----------------------------------------------------------------------------
(* The steps of a request. *)

Asks(kinds) == request.endpoint \in {"query", "query_range"} /\ request.query.kind \in kinds

Init ==
    /\ db \in Databases
    /\ request \in Requests
    /\ pc = "translate"
    /\ stmt = NoStatement
    /\ rows = <<>>
    /\ streams = <<>>
    /\ listed = {}
    /\ status = "none"

Answer(how) == pc' = "done" /\ status' = how

TranslateQuery ==
    /\ pc = "translate"
    /\ Asks({"log", "metric", "scalar"})
    /\ Parses(request.query)
    /\ stmt' = Translation(request)
    /\ pc' = "execute"
    /\ UNCHANGED <<db, request, rows, streams, listed, status>>

\* An unsupported function is found by the translator, the rest by the parser.
Refuse ==
    /\ pc = "translate"
    /\ Asks({"log", "metric", "scalar"})
    /\ ~Parses(request.query)
    /\ Answer("bad_request")
    /\ UNCHANGED <<db, request, stmt, rows, streams, listed>>

BuildDistinct ==
    /\ pc = "translate"
    /\ \/ request.endpoint = "labels" /\ stmt' = Distinct(request, "service_name")
       \/ request.endpoint = "label_values" /\ stmt' = Distinct(request, FieldOf(request.label))
    /\ pc' = "execute"
    /\ UNCHANGED <<db, request, rows, streams, listed, status>>

ExecuteQueries ==
    /\ pc = "execute"
    /\ rows' \in Returned(stmt)
    /\ pc' = "transform"
    /\ UNCHANGED <<db, request, stmt, streams, listed, status>>

\* The service cannot reach ClickHouse, or not in time.
Outage ==
    /\ pc = "execute"
    /\ Answer("unreachable")
    /\ UNCHANGED <<db, request, stmt, rows, streams, listed>>

IsMetricQuery == stmt.columns \cap {"value", "cnt"} # {}

\* TransformToLokiStreams: no rows are a success before the columns are looked
\* at.
RefuseColumns ==
    /\ pc = "transform"
    /\ stmt.shape \in {"lines", "metric", "scalar"}
    /\ rows # <<>>
    /\ ~IsMetricQuery
    /\ ~({"body", "timestamp"} \subseteq stmt.columns)
    /\ Answer("error")
    /\ UNCHANGED <<db, request, stmt, rows, streams, listed>>

ToNanoseconds(time) ==
    IF time > NsAbove THEN time
    ELSE IF time > MsAbove THEN Int64(time * Milli)
    ELSE Int64(time * Second * Milli)

\* Every column but body, time and tenant is a label of the stream; its key is
\* the text of the labels in the order a map is walked.
Keys(line) == SetToSeqs({<<f, line.labels[f]>> : f \in Fields})

Entry(line) == [time |-> ToNanoseconds(line.time), line |-> line]

Added(key, entry) ==
    IF \E i \in DOMAIN streams : streams[i].key = key
    THEN [i \in DOMAIN streams |->
             IF streams[i].key = key THEN [streams[i] EXCEPT !.values = Append(@, entry)]
             ELSE streams[i]]
    ELSE Append(streams, [key |-> key, values |-> <<entry>>])

AddToStream ==
    /\ pc = "transform"
    /\ rows # <<>>
    /\ ~IsMetricQuery
    /\ {"body", "timestamp"} \subseteq stmt.columns
    /\ \E key \in Keys(Head(rows)) : streams' = Added(key, Entry(Head(rows)))
    /\ rows' = Tail(rows)
    /\ UNCHANGED <<db, pc, request, stmt, listed, status>>

\* TransformToLokiMatrix; its only statement has one row, the constant.
AddToMatrix ==
    /\ pc = "transform"
    /\ rows # <<>>
    /\ IsMetricQuery
    /\ rows' = Tail(rows)
    /\ UNCHANGED <<db, pc, request, stmt, streams, listed, status>>

LimitOf(r) == IF r.limit = <<>> THEN DefaultLimit[r.endpoint] ELSE Head(r.limit)

\* mutant: the limit is an index
CutOneMore(values) ==
    LET limit == LimitOf(request) - 1
    IN  IF limit <= 0 \/ Len(values) <= limit THEN values ELSE SubSeq(values, 1, limit)

\* The first of the rows as they came, or the last.
Cut(values) ==
    LET limit == LimitOf(request)
    IN  IF limit <= 0 \/ Len(values) <= limit THEN values
        ELSE IF request.direction = "backward" THEN SubSeq(values, 1, limit)
        ELSE SubSeq(values, Len(values) - limit + 1, Len(values))

Respond ==
    /\ pc = "transform"
    /\ Asks({"log", "metric", "scalar"})
    /\ rows = <<>>
    /\ streams' = [i \in DOMAIN streams |-> [streams[i] EXCEPT !.values = Cut(@)]]
    /\ Answer("success")
    /\ UNCHANGED <<db, request, stmt, rows, listed>>

\* The same list whatever the rows are.
CommonLabels == {"__name__", "job", "instance", "service_name", "host_name", "environment"}

RespondWithList ==
    /\ pc = "transform"
    /\ stmt.shape = "distinct"
    /\ listed' = IF request.endpoint = "labels" THEN CommonLabels ELSE ToSet(rows)
    /\ rows' = <<>>
    /\ Answer("success")
    /\ UNCHANGED <<db, request, stmt, streams>>

Next ==
    \/ TranslateQuery
    \/ Refuse
    \/ BuildDistinct
    \/ ExecuteQueries
    \/ Outage
    \/ RefuseColumns
    \/ AddToStream
    \/ AddToMatrix
    \/ Respond
    \/ RespondWithList

Spec == Init /\ [][Next]_vars
-----------------------------------------------------------------------------
(* Properties. *)

TypeOK ==
    /\ db \subseteq Line
    /\ request \in Request
    /\ pc \in {"translate", "execute", "transform", "done"}
    /\ stmt.matchers \subseteq Matcher /\ stmt.bodies \subseteq Bodies
    /\ stmt.tenants \subseteq Tenants /\ stmt.by \subseteq Fields
    /\ streams \in Seq([key : Seq(Fields \X Values), values : Seq([time : Int, line : Line])])
    /\ listed \subseteq Values \cup CommonLabels
    /\ status \in {"none", "success", "bad_request", "error", "unreachable"}

Answered == pc = "done" /\ status = "success"

\* What a query and a range, as they are written, ask for.
AskedFor(r) ==
    {line \in db : /\ line.tenant = Tenant
                   /\ \A m \in r.query.matchers :
                         Wanted(line.labels[FieldOf(m.label)], m)
                   /\ \A i \in DOMAIN r.query.pipeline :
                         r.query.pipeline[i].kind = "filter"
                             => Wanted(line.body, r.query.pipeline[i])
                   /\ r.endpoint = "query_range"
                         => line.time \in r.start.at .. r.end.at}

Shown == UNION {{v.line : v \in ToSet(streams[i].values)} : i \in DOMAIN streams}

\* Dates, seconds and milliseconds: the forms the parser of times knows.
KnownUnits(r) ==
    r.endpoint = "query_range" => {r.start.unit, r.end.unit} \subseteq {"date", "s", "ms"}

\* The texts of a query.  If those that ClickHouse finds more by only exclude,
\* nothing is shown that was not asked for; if they only ask, nothing that was
\* asked for is excluded.
Texts(q) == q.matchers \cup {s \in ToSet(q.pipeline) : s.kind = "filter"}

WiderExclude(q) == \A t \in Texts(q) : t.text = "wider" => ~t.positive
WiderAsk(q) == \A t \in Texts(q) : t.text = "wider" => t.positive

\* A log query shows lines of its tenant, each at its own time and in a stream
\* with its labels.  Unless it asks for a text that ClickHouse finds more by,
\* they meet each matcher, each line filter wherever it stands in the pipeline,
\* and the range, however its ends are written.
LinesAsAsked ==
    Answered /\ Asks({"log"}) =>
        \A i \in DOMAIN streams :
            \A v \in ToSet(streams[i].values) :
                /\ KnownUnits(request) /\ WiderExclude(request.query)
                       => v.line \in AskedFor(request)
                /\ v.line.tenant = Tenant
                /\ v.time = v.line.time * Milli
                /\ ToSet(streams[i].key) = {<<f, v.line.labels[f]>> : f \in Fields}

\* Unless a query excludes a text that ClickHouse finds more by, no line that
\* it asks for is left out but those that a limit cuts off, and a limit leaves
\* as many lines of each label set as it allows, however the streams of one
\* label set were split.
CompleteUpToLimit ==
    Answered /\ Asks({"log"}) /\ KnownUnits(request) /\ WiderAsk(request.query) =>
        \A line \in AskedFor(request) \ Shown :
            /\ LimitOf(request) > 0
            /\ Cardinality({l \in Shown : l.labels = line.labels}) >= LimitOf(request)

\* A value that is offered for a label leads to lines: a log query that asks
\* for it finds some.  The two endpoints must read a label in the same column.
ListedValuesFind ==
    Answered /\ request.endpoint = "label_values" =>
        \A value \in listed \ {""} :
            LET matcher == [label |-> request.label, positive |-> TRUE, text |-> "same",
                            sought |-> {value}, found |-> {value}]
                query   == [kind |-> "log", matchers |-> {matcher}, pipeline |-> <<>>, range |-> 0]
            IN  /\ Parses(query)
                /\ Selected(TranslateLogRange([endpoint |-> "query", query |-> query])) # {}

\* Log queries with a matcher that asks for something, line filters that are
\* not empty and parsers without a parameter in any order, and a drop or keep
\* at the end; the connection test; and the lists.
Supported ==
    \/ request.endpoint \in {"labels", "label_values"}
    \/ Asks({"scalar"})
    \/ /\ Asks({"log"})
       /\ request.query.range = 0
       /\ \E m \in request.query.matchers : m.positive /\ "" \notin m.sought
       /\ \A i \in DOMAIN request.query.pipeline :
             LET stage == request.query.pipeline[i]
             IN  /\ stage.kind # "label_filter"
                 /\ stage.kind = "filter" => stage.text # "empty"
                 /\ stage.kind = "parser" => ~stage.parameter
                 /\ stage.kind = "labels" => i = Len(request.query.pipeline)

\* Such a request fails only when ClickHouse does.
SupportedAnswered == pc = "done" /\ Supported => status \in {"success", "unreachable"}

-----------------------------------------------------------------------------
(* Claims of the documentation. *)

\* docs/api/GRAFANA_INTEGRATION.md, the response of a metric query, and
\* README.md "Supported LogQL Features": a count of lines over a time is
\* answered unless ClickHouse is out of reach.
MetricAnswered ==
    pc = "done" /\ Asks({"metric"}) /\ ParseWithPromQL(request.query)
        => status \in {"success", "unreachable"}

\* docs/query-languages/LOGQL_SUPPORT.md:65 and README.md "Line Filters": with
\* |= a query shows the lines that contain the text.
LinesContainText ==
    Answered /\ Asks({"log"}) =>
        \A line \in Shown : \A f \in ToSet(request.query.pipeline) :
            f.kind = "filter" /\ f.positive => line.body \in f.sought
=============================================================================
