----------------------------- MODULE TraceViews -----------------------------
(***************************************************************************)
(* The views of a trace: the Tempo searches (handleTempoV1Search and       *)
(* handleTempoSearch of pkg/api/tempo.go, over pkg/traceql), the values    *)
(* of a tag that a search may name (handleTempoSearchTagValues), the trace *)
(* by its id as JSON and as protobuf (handleTempoTraceByID), and the       *)
(* outline the shell draws of an expanded trace (cmd/oql-cli/main.go).     *)
(*                                                                         *)
(* The spans of a trace are stored batch by batch, in any order, some of   *)
(* them twice; each view is computed from the rows its statement reads.    *)
(* A text is a sequence of tokens, in which a condition (field, operator   *)
(* and value) is one token that names the spans it admits, and arithmetic  *)
(* with numbers is one token.                                              *)
(***************************************************************************)
EXTENDS Integers, Sequences, FiniteSetsExt, SequencesExt

CONSTANTS
    Traces,
    Services,     \* names of services, the empty one aside
    Nothing,      \* no parent, no service, no root
    Tenants,
    Tenant,       \* the tenant of the client
    Milli,        \* the nanoseconds of a millisecond
    Batches,      \* the exports: sets of spans
    Copies,       \* bound: how often each export may be stored
    Searches,     \* the searches that may be asked
    Lists,        \* the lists of values that may be asked
    TagLimit,     \* the LIMIT of a list, 100 in the code
    Requests      \* bound: the requests of the client

Ids == {span.id : span \in UNION Batches}

Span == [tenant : Tenants, trace : Traces, id : Ids, parent : Ids \cup {Nothing},
         service : Services \cup {Nothing}, start : Nat, end : Nat, failed : BOOLEAN]

TokenKinds == {"{", "}", "(", ")", ",", "&&", "||", "by", "function", "field", "condition", "scalar"}

Token == [kind : TokenKinds, admits : SUBSET UNION Batches]

Search == [version : {"v1", "v2"}, text : Seq(Token), from : Nat, to : Nat, limit : Nat \ {0}]

\* The tags that are modelled: two with a column of their own, one that no
\* span bears, and a name without `span.' or `resource.'.
Tags == {"resource.service.name", "span.error", "span.other", "unscoped"}

List == [tag : Tags, from : Nat, to : Nat]

\* An export is of finitely many spans.  An id names one span; a span's parent
\* belongs to its trace.  By the clocks of two services a child may begin before
\* its parent.
ASSUME TraceAssumption ==
    /\ Tenant \in Tenants
    /\ Nothing \notin Ids \cup Services \cup Traces
    /\ Milli \in Nat \ {0} /\ Copies \in [Batches -> Nat] /\ Requests \in Nat
    /\ Batches \subseteq SUBSET Span /\ \A batch \in Batches : IsFiniteSet(batch)
    /\ Searches \subseteq Search
    /\ Lists \subseteq List /\ TagLimit \in Nat \ {0}
    /\ \A s1, s2 \in UNION Batches :
          /\ s1.id = s2.id => s1 = s2
          /\ s1.parent = s2.id => /\ s1.id # s2.id
                                  /\ <<s1.tenant, s1.trace>> = <<s2.tenant, s2.trace>>

VARIABLES
    stored,      \* how often each export was stored
    quoted,      \* whether ClickHouse writes 64-bit integers as strings
    outcome,     \* how the last search or list was answered
    returned,    \* history: the rows the search's statement returned
    found,       \* the traces the search was answered with
    listed,      \* the list of values the client looks at
    opened,      \* the trace the client opened last
    requests     \* the requests made

vars == <<stored, quoted, outcome, returned, found, listed, opened, requests>>
-----------------------------------------------------------------------------
(* Rows. *)

\* The record of a span: its start in milliseconds, its duration in
\* nanoseconds.
RowOf(span, copy) ==
    [span |-> span, copy |-> copy, tenant |-> span.tenant, trace |-> span.trace,
     id |-> span.id, parent |-> span.parent, service |-> span.service,
     failed |-> span.failed, timestamp |-> span.start \div Milli,
     duration |-> span.end - span.start]

Rows == UNION {{RowOf(span, copy) : span \in batch, copy \in 1 .. stored[batch]} : batch \in Batches}

\* The spans of a trace.
RowsOf(t) == {row \in Rows : row.tenant = Tenant /\ row.trace = t}

\* The items of the least key.
Least(items, key) == {item \in items : \A other \in items : key[item] <= key[other]}

\* The orders of some items by their key: those of the same key in any.
InOrder(items, key) ==
    LET orders[n \in 0 .. Cardinality(items)] ==
            IF n = 0 THEN {<<>>}
            ELSE UNION {{Append(seq, item) : item \in Least(items \ ToSet(seq), key)} :
                           seq \in orders[n - 1]}
    IN  orders[Cardinality(items)]

\* What a sequence has at some positions, in its order.
Only(seq, positions) ==
    LET order == CHOOSE order \in InOrder(positions, [i \in positions |-> i]) : TRUE
    IN  [i \in DOMAIN order |-> seq[order[i]]]

\* The orders a statement may return rows in: rows of the same time in any.
Oldest(rows) == InOrder(rows, [row \in rows |-> row.timestamp])

\* ORDER BY timestamp DESC
NewestFirst(rows) == {Reverse(seq) : seq \in Oldest(rows)}

IsRoot(row) == row.parent = Nothing

ServiceName(row) == IF row.service = Nothing THEN "unknown" ELSE row.service
-----------------------------------------------------------------------------
(* The text of a search. *)

KindAt(text, i) == IF i \in DOMAIN text THEN text[i].kind ELSE "end"

\* parseSpanFilterQuery: n conditions in braces, joined by either operator.
\* What follows the closing brace is not read.
IsFilter(text, n) ==
    /\ KindAt(text, 1) = "{" /\ KindAt(text, 2 * n + 1) = "}"
    /\ \A i \in 1 .. n : KindAt(text, 2 * i) = "condition"
    /\ \A i \in 1 .. n - 1 : KindAt(text, 2 * i + 1) \in {"&&", "||"}

\* parseAggregateExpr: no argument, and n fields to group by, if any.  The
\* fields of a text are others than the id of the trace.
IsAggregate(text, n) ==
    /\ KindAt(text, 1) = "function" /\ KindAt(text, 2) = "(" /\ KindAt(text, 3) = ")"
    /\ \/ n = 0 /\ KindAt(text, 4) # "by"
       \/ /\ n > 0 /\ KindAt(text, 4) = "by" /\ KindAt(text, 5) = "("
          /\ \A i \in 1 .. n : KindAt(text, 2 * i + 4) = "field"
          /\ \A i \in 1 .. n - 1 : KindAt(text, 2 * i + 5) = ","
          /\ KindAt(text, 2 * n + 5) = ")"

\* Parse: what a text is, in the order the parser tries.
Meaning(text) ==
    LET counts == 1 .. Len(text)
    IN  IF Len(text) = 1 /\ KindAt(text, 1) = "scalar" THEN "scalar"
        ELSE IF KindAt(text, 1) = "function"
        THEN IF \E n \in {0} \cup counts : IsAggregate(text, n) THEN "aggregate" ELSE "refused"
        ELSE IF \E n \in counts : IsFilter(text, n) THEN "filter" ELSE "refused"

\* The conditions of a filter, without what joined them.
Conditions(text) ==
    {text[2 * i].admits : i \in 1 .. CHOOSE n \in 1 .. Len(text) : IsFilter(text, n)}
-----------------------------------------------------------------------------
(* Searches. *)

\* translateFieldExpr: the column that a condition on a tag is about.
FieldColumn(tag) ==
    CASE tag = "resource.service.name" -> "service_name"
      [] tag = "span.error" -> "error"
      [] OTHER -> "attributes"

\* mutant: no condition on the tenant
AdmittedOfAnyone(search) ==
    {row \in Rows : /\ \A condition \in Conditions(search.text) : row.span \in condition
                    /\ row.timestamp \in search.from .. search.to}

\* The translator joins all conditions by AND, whatever joined them in the
\* text.
Admitted(search) ==
    {row \in Rows : /\ row.tenant = Tenant
                    /\ \A condition \in Conditions(search.text) : row.span \in condition
                    /\ row.timestamp \in search.from .. search.to}

\* Only the first version has a limit, and it counts rows.
Kept(search, seq) ==
    IF search.version = "v1" THEN SubSeq(seq, 1, Min({search.limit, Len(seq)})) ELSE seq

\* mutant: the duration of a span is not converted
EndInNanos(row) == row.timestamp + row.duration

\* The end of a span in milliseconds.
EndOf(row) == row.timestamp + row.duration \div Milli

Lasted(start, end) == IF end > start THEN end - start ELSE 0

\* Each row overwrites what the one before it set.
LastOf(seq, positions) == seq[Max(positions)]

\* A timestamp of zero is none.
Timed(rows) == {row \in rows : row.timestamp > 0}

FirstStart(rows) == IF Timed(rows) = {} THEN 0 ELSE Min({row.timestamp : row \in Timed(rows)})

LastEnd(rows) == Max({0} \cup {EndOf(row) : row \in {r \in Timed(rows) : r.duration > 0}})

\* What a search says of a trace, computed from the rows it returned: the span
\* that is its root, the service of a root, its time, the spans and errors of
\* each service.
Summary(t, seq) ==
    LET spans == {i \in DOMAIN seq : seq[i].trace = t}
        roots == {i \in spans : IsRoot(seq[i])}
        named == {i \in roots : seq[i].service # Nothing}
        start == FirstStart({seq[i] : i \in spans})
        end   == LastEnd({seq[i] : i \in spans})
        names == {ServiceName(seq[i]) : i \in spans}
        Of(name) == {i \in spans : ServiceName(seq[i]) = name}
    IN  [trace    |-> t,
         root     |-> IF roots = {} THEN Nothing ELSE LastOf(seq, roots).id,
         service  |-> IF named = {} THEN Nothing ELSE LastOf(seq, named).service,
         start    |-> start * Milli,
         duration |-> Lasted(start, end),
         stats    |-> [name \in names |->
                          [spans  |-> Cardinality(Of(name)),
                           errors |-> Cardinality({i \in Of(name) : seq[i].failed})]]]

Summaries(seq) == {Summary(t, seq) : t \in {seq[i].trace : i \in DOMAIN seq}}

NotOpen == [view |-> "none", trace |-> Nothing, status |-> "none", batches |-> <<>>, outline |-> <<>>]

NotListed == [tag |-> Nothing, from |-> 0, to |-> 0, values |-> {}]

\* An answer to a search takes the place of what the client saw before.
Answer(how, seq) ==
    /\ requests < Requests
    /\ outcome' = how
    /\ returned' = seq
    /\ found' = Summaries(seq)
    /\ listed' = NotListed
    /\ opened' = NotOpen
    /\ requests' = requests + 1
    /\ UNCHANGED <<stored, quoted>>

\* The first version answers no text and empty braces (written without a
\* space) before it parses.
Unparsed(search) ==
    search.version = "v1" /\ (search.text = <<>> \/ [i \in DOMAIN search.text |-> search.text[i].kind] = <<"{", "}">>)

\* A filter of spans.
SearchSpans(search) ==
    /\ Meaning(search.text) = "filter"
    /\ \E seq \in NewestFirst(Admitted(search)) :
          Answer("ok", Kept(search, seq))

\* An answer without traces: the first version is asked for nothing, or the
\* rows have no trace id.  The arithmetic of a connection test has a LIMIT of
\* its own, and the second one of the first version is no SQL.
SearchOthers(search) ==
    /\ \/ Unparsed(search)
       \/ Meaning(search.text) = "aggregate"
       \/ Meaning(search.text) = "scalar" /\ search.version = "v2"
    /\ Answer("ok", <<>>)

\* A text that is none, or that cannot be parsed.
SearchRefused(search) ==
    /\ Meaning(search.text) = "refused" /\ ~Unparsed(search)
    /\ Answer("refused", <<>>)

\* A statement that ClickHouse refuses, or that does not reach it.
SearchFails(search) ==
    /\ Meaning(search.text) # "refused"
    /\ Answer("failed", <<>>)
-----------------------------------------------------------------------------
(* The values of a tag. *)

\* mapTraceQLTagToColumn: a tag without a column of its own is read from the
\* attributes.
TagColumn(tag) ==
    CASE tag = "resource.service.name" -> "service_name"
      [] tag = "span.error" -> "error"
      [] OTHER -> "attributes"

\* The text of a column: the truth values of `error', nothing for an attribute
\* that the span has not.
TextOf(span, column) ==
    CASE column = "service_name" -> span.service
      [] column = "error" -> IF span.failed THEN "true" ELSE "false"
      [] OTHER -> Nothing

\* mutant: no condition on the tenant
ValuesOfAnyone(list) ==
    {TextOf(row, TagColumn(list.tag)) : row \in {r \in Rows : r.timestamp \in list.from .. list.to}}

\* SELECT DISTINCT of the column of the tag.
Values(list) ==
    {TextOf(row, TagColumn(list.tag)) : row \in {r \in Rows : /\ r.tenant = Tenant
                                                    /\ r.timestamp \in list.from .. list.to}}

\* So does a list.
Offer(list, how, values) ==
    /\ requests < Requests
    /\ outcome' = how
    /\ returned' = <<>>
    /\ found' = {}
    /\ listed' = [tag |-> list.tag, from |-> list.from, to |-> list.to, values |-> values]
    /\ opened' = NotOpen
    /\ requests' = requests + 1
    /\ UNCHANGED <<stored, quoted>>

\* handleTempoSearchTagValues: any of the values up to the LIMIT, the empty one
\* among them, which is then left out.
TagValues(list) ==
    \/ /\ list.tag = "unscoped"
       /\ Offer(list, "refused", {})
    \/ /\ list.tag # "unscoped"
       /\ \E values \in kSubset(Min({TagLimit, Cardinality(Values(list))}), Values(list)) :
             Offer(list, "ok", values \ {Nothing})
    \/ /\ list.tag # "unscoped"
       /\ Offer(list, "failed", {})
-----------------------------------------------------------------------------
(* The trace by its id. *)

\* mutant: a duration in milliseconds
TimesInMillis(row) ==
    LET start == IF row.timestamp > 0 THEN row.timestamp * Milli ELSE 0
    IN  [start |-> start,
         end   |-> IF row.duration > 0 /\ start > 0 THEN start + row.duration * Milli ELSE 0]

\* A time that is unset, or cannot be told, is left out.
SpanTimes(row) ==
    LET start == IF row.timestamp > 0 THEN row.timestamp * Milli ELSE 0
    IN  [start |-> start,
         end   |-> IF row.duration > 0 /\ start > 0 THEN start + row.duration ELSE 0]

TraceSpan(row) ==
    [id |-> row.id, parent |-> row.parent, start |-> SpanTimes(row).start, end |-> SpanTimes(row).end]

\* A list of spans per service, each in the order of the rows.
BatchesOf(seq) ==
    [name \in {ServiceName(seq[i]) : i \in DOMAIN seq} |->
        LET spans == Only(seq, {i \in DOMAIN seq : ServiceName(seq[i]) = name})
        IN  [i \in DOMAIN spans |-> TraceSpan(spans[i])]]

Open(t, view, status, batches, outline) ==
    /\ requests < Requests
    /\ opened' = [view |-> view, trace |-> t, status |-> status, batches |-> batches,
                  outline |-> outline]
    /\ listed' = NotListed
    /\ requests' = requests + 1
    /\ UNCHANGED <<stored, quoted, outcome, returned, found>>

\* handleTempoTraceByID
TraceByID(t) ==
    \/ /\ RowsOf(t) = {}
       /\ Open(t, "trace", "not found", <<>>, <<>>)
    \/ /\ RowsOf(t) # {}
       /\ \E seq \in Oldest(RowsOf(t)) : Open(t, "trace", "ok", BatchesOf(seq), <<>>)

\* ClickHouse cannot be reached.
TraceFails(t, view) == Open(t, view, "failed", <<>>, <<>>)
-----------------------------------------------------------------------------
(* The outline of the shell. *)

\* toInt64: a quoted number counts as zero.
Time(row) == IF quoted THEN 0 ELSE row.timestamp

\* mutant: brothers and sisters stay in the order of the rows
AsReturned(rows) == InOrder(rows, [row \in rows |-> 0])

\* The roots, and the children of each span, are put in the order of their
\* time, whatever the order the rows came in.
ByTime(rows) == InOrder(rows, [row \in rows |-> Time(row)])

Children(seq, id) ==
    LET rows == Only(seq, {i \in DOMAIN seq : seq[i].parent = id})
    IN  [i \in DOMAIN rows |-> rows[i].id]

\* dfs, with the calls yet to make as a sequence: one call per row at most.
\* The roots are the children of nothing.
Visited(seq) ==
    LET walk[n \in 0 .. Len(seq)] ==
            IF n = 0 THEN [visited |-> <<>>, calls |-> Children(seq, Nothing)]
            ELSE LET before == walk[n - 1]
                     id == Head(before.calls)
                 IN  IF before.calls = <<>> THEN before
                     ELSE IF id \in ToSet(before.visited)
                     THEN [before EXCEPT !.calls = Tail(@)]
                     ELSE [visited |-> Append(before.visited, id),
                           calls   |-> Children(seq, id) \o Tail(before.calls)]
    IN  walk[Len(seq)].visited

\* mutant: what no root leads to is left out
InHierarchyOnly(seq) == {Visited(seq)}

\* sortRowsByTraceHierarchy: what no root leads to follows in any order.
InHierarchy(seq) ==
    LET visited == Visited(seq)
        left == {seq[i].id : i \in DOMAIN seq} \ ToSet(visited)
    IN  {visited \o rest : rest \in InOrder(left, [id \in left |-> 0])}

\* The parent of a span, if it is displayed.
ParentIn(rows, id) == {row.parent : row \in {r \in rows : r.id = id}} \cap {row.id : row \in rows}

\* calculateDepth: the climb to the ancestors that are displayed, one per row at
\* most, that ends where it has been before.
Depth(rows, id) ==
    LET climb[n \in 0 .. Cardinality(rows)] ==
            IF n = 0 THEN [at |-> id, passed |-> {}, depth |-> 0]
            ELSE LET below == climb[n - 1]
                     parent == ParentIn(rows, below.at)
                 IN  IF below.at \in below.passed \/ parent = {} THEN below
                     ELSE [at     |-> CHOOSE p \in parent : TRUE,
                           passed |-> below.passed \cup {below.at},
                           depth  |-> below.depth + 1]
    IN  climb[Cardinality(rows)].depth

\* The outlines of the rows of a trace.
Outlines(t) ==
    LET rows  == RowsOf(t)
        depth == [id \in {row.id : row \in rows} |-> Depth(rows, id)]
    IN  {[i \in DOMAIN ids |-> [id |-> ids[i], depth |-> depth[ids[i]]]] :
            ids \in UNION {InHierarchy(seq) : seq \in ByTime(rows)}}

\* expand trace
ExpandTrace(t) ==
    \E outline \in Outlines(t) :
        Open(t, "outline", IF outline = <<>> THEN "not found" ELSE "ok", <<>>, outline)
-----------------------------------------------------------------------------
Init ==
    /\ stored = [batch \in Batches |-> 0]
    /\ quoted \in BOOLEAN
    /\ outcome = "none"
    /\ returned = <<>>
    /\ found = {}
    /\ listed = NotListed
    /\ opened = NotOpen
    /\ requests = 0

\* An export is stored, for the first time or again after a retry.
Insert(batch) ==
    /\ stored[batch] < Copies[batch]
    /\ stored' = [stored EXCEPT ![batch] = @ + 1]
    /\ UNCHANGED <<quoted, outcome, returned, found, listed, opened, requests>>

Next ==
    \/ \E batch \in Batches : Insert(batch)
    \/ \E search \in Searches :
          \/ SearchSpans(search) \/ SearchOthers(search)
          \/ SearchRefused(search) \/ SearchFails(search)
    \/ \E list \in Lists : TagValues(list)
    \/ \E t \in Traces : TraceByID(t) \/ ExpandTrace(t)
    \/ \E t \in Traces : \E view \in {"trace", "outline"} : TraceFails(t, view)

Spec == Init /\ [][Next]_vars
-----------------------------------------------------------------------------
(* Properties. *)

OutlineRow == [id : Ids, depth : Nat]

TypeOK ==
    /\ \A batch \in Batches : stored[batch] \in 0 .. Copies[batch]
    /\ quoted \in BOOLEAN
    /\ outcome \in {"none", "ok", "refused", "failed"}
    /\ \A summary \in found :
          /\ summary.trace \in Traces /\ summary.root \in Ids \cup {Nothing}
          /\ summary.service \in Services \cup {Nothing}
          /\ summary.start \in Nat /\ summary.duration \in Nat
          /\ \A name \in DOMAIN summary.stats :
                summary.stats[name].errors \in 0 .. summary.stats[name].spans
    /\ listed.tag \in Tags \cup {Nothing}
    /\ Cardinality(listed.values) <= TagLimit
    /\ opened.view \in {"none", "trace", "outline"}
    /\ opened.trace \in Traces \cup {Nothing}
    /\ opened.status \in {"none", "ok", "not found", "failed"}
    /\ opened.outline \in Seq(OutlineRow)
    /\ requests \in 0 .. Requests

Shows(view) == opened.view = view /\ opened.status = "ok"

Listed == UNION {ToSet(opened.batches[name]) : name \in DOMAIN opened.batches}

\* A trace that a search found can be opened, however much later, in either
\* view: the statements of search and view agree on what the client may see.
FoundOpens ==
    \A summary \in found : opened.trace = summary.trace => opened.status # "not found"

\* A value that is offered for a tag leads to spans: a search of the second
\* version for it, in the time of the list, finds a trace, however much later.
\* Lists and searches must agree on the tenant, on the column of a tag and on
\* the unit of the time.
ListedValuesFind ==
    \A value \in listed.values :
        LET bearing == {span \in UNION Batches : TextOf(span, FieldColumn(listed.tag)) = value}
            text    == <<[kind |-> "{", admits |-> {}], [kind |-> "condition", admits |-> bearing],
                         [kind |-> "}", admits |-> {}]>>
            rows    == Admitted([text |-> text, from |-> listed.from, to |-> listed.to])
        IN  Summaries(SetToSeq(rows)) # {}

\* What a search says of a trace is borne out by the trace: opened later, it
\* has at least as many spans of each service, and begins and ends around the
\* time the search gave for it.
SummaryWithin ==
    Shows("trace") =>
        \A summary \in {s \in found : s.trace = opened.trace} :
            /\ \A name \in DOMAIN summary.stats :
                  /\ name \in DOMAIN opened.batches
                  /\ summary.stats[name].spans <= Len(opened.batches[name])
            /\ \E span \in Listed : span.start <= summary.start
            /\ summary.duration > 0 =>
                  \E span \in Listed : summary.start + summary.duration * Milli <= span.end

\* A request that is a search.
Searched == requests' # requests /\ opened' = NotOpen /\ listed' = NotListed

SpanWith(id) == CHOOSE span \in UNION Batches : span.id = id

\* A trace is shown with the spans its exporters sent: each is listed once per
\* copy, under its service, from its start (to the millisecond) for as long as
\* it took if it has a start.
TraceIsTrue ==
    Shows("trace") =>
        \A name \in DOMAIN opened.batches : \A i \in DOMAIN opened.batches[name] :
            LET shown == opened.batches[name][i]
                span == SpanWith(shown.id)
            IN  /\ <<span.tenant, span.trace>> = <<Tenant, opened.trace>>
                /\ name = ServiceName(span)
                /\ shown.start \in span.start - Milli + 1 .. span.start
                /\ shown.end = IF shown.start > 0 /\ span.end > span.start
                                THEN shown.start + span.end - span.start ELSE 0
                /\ Cardinality({j \in DOMAIN opened.batches[name] :
                                   opened.batches[name][j].id = shown.id})
                      <= Max({stored[batch] : batch \in {b \in Batches : SpanWith(shown.id) \in b}})

\* The spans of the trace that the client is shown, in whichever view.
Shown(open) ==
    IF open.view = "trace"
    THEN {span.id : span \in UNION {ToSet(open.batches[name]) : name \in DOMAIN open.batches}}
    ELSE {open.outline[i].id : i \in DOMAIN open.outline}

\* A span that was shown stays: a trace that is opened again, in the same view
\* or the other, shows at least what it showed before, unless ClickHouse cannot
\* be reached.
NeverForgets ==
    [][opened.trace = opened'.trace /\ opened.status = "ok" /\ opened'.status # "failed"
          => Shown(opened) \subseteq Shown(opened')]_vars

\* The spans that are displayed with all their ancestors, up to a root: the
\* least set that a span belongs to when its parent does, or it has none.
Rooted(ids) ==
    {id \in ids : \A tree \in SUBSET ids :
        (\A child \in ids : SpanWith(child).parent \in tree \cup {Nothing} => child \in tree)
        => id \in tree}

\* The outline can be read: a span is displayed once, however often it was
\* stored, and the nearest row above a rooted span that is indented less is
\* its parent.  Unless the numbers are quoted, the children of a span are in
\* the order of their time.
OutlineReads ==
    Shows("outline") =>
        LET Row(i) == opened.outline[i]
            lines == DOMAIN opened.outline
            rooted == {i \in lines : Row(i).id \in Rooted(Shown(opened))}
        IN  /\ \A i, j \in lines : Row(i).id = Row(j).id => i = j
            /\ \A i \in rooted :
                  LET above == {j \in 1 .. i - 1 : Row(j).depth < Row(i).depth}
                      parent == SpanWith(Row(i).id).parent
                  IN  IF parent = Nothing THEN Row(i).depth = 0
                      ELSE above # {} /\ Row(Max(above)).id = parent
            /\ ~quoted =>
                  \A i, j \in rooted :
                      /\ SpanWith(Row(i).id).parent = SpanWith(Row(j).id).parent
                      /\ i < j
                      => SpanWith(Row(i).id).start \div Milli <= SpanWith(Row(j).id).start \div Milli
-----------------------------------------------------------------------------
(* Claims of the documentation. *)

\* docs/query-languages/TRACEQL_PHASE3.md, "Logical operators: &&, ||": a
\* search for one condition or another finds the traces that meet either.
OrMeansOr ==
    [][Searched => \A search \in Searches :
          SearchSpans(search) /\ search.version = "v2" /\ KindAt(search.text, 3) = "||" =>
              \A row \in Rows :
                  /\ row.tenant = Tenant
                  /\ \E condition \in Conditions(search.text) : row.span \in condition
                  /\ row.timestamp \in search.from .. search.to
                  => \E summary \in found' : summary.trace = row.trace]_vars
=============================================================================
