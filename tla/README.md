# otel-oql in TLA+

otel-oql is a multi-tenant telemetry backend. It receives OpenTelemetry data over OTLP,
stores it in ClickHouse, and answers queries in its own pipeline language (OQL) and in
PromQL, LogQL and TraceQL. An interactive shell (`oql-cli`) and an MCP tool sit on top.

This directory models the parts of it whose correctness depends on the order of events, on
the combination of legal steps, or on arithmetic at a boundary. Paths below are relative to
the root of the repository.

## 1. The system

| Component | Code | State it keeps | Operations | Modules |
|---|---|---|---|---|
| OQL translator | `pkg/translator`, `pkg/oql/ast.go` | the text under construction, `tableName`, `hasSortOp`, `groupByFields` | one step per operation of a pipeline, the default ordering at the end | `OqlTranslator` |
| Query API, OQL | `pkg/api/server.go` | per request only: base rows, trace ids, result sets | `handleQuery`, `executeExpandQuery`, `executeCorrelateQuery`, `filterTenantID` | `QueryServer`, `TenantQueries` |
| MCP server | `pkg/mcp/server.go` | none | `oql_query`, `oql_help` | `QueryServer` (`oql_query`) |
| PromQL endpoints | `pkg/promql`, `pkg/api/prometheus.go`, `pkg/api/formats/prometheus.go`, `pkg/api/params.go` | per request: the statement, the rows, the series by key | `query`, `query_range` | `PromQueries` |
| OTLP receivers | `pkg/receiver` | servers, requests in flight | `Export` of three signals over gRPC and HTTP, `Start`, `Stop` | `Ingest`, `ServiceLifecycle` |
| Ingester | `pkg/ingestion` | none | one record per point, one insert per export | `Ingest`, `AtLeastOnce` |
| ClickHouse client | `pkg/clickhouse/client.go` | none | `Query`, `Insert`, `CreateTable`, each with a timeout | steps of `QueryServer`, `Ingest` and `Deployment` |
| Authentication | `pkg/auth`, `pkg/userstore`, `pkg/tenant` | two maps, read once at the start | key or header to tenant, over HTTP and gRPC; `initAuth` chooses the middleware | `Auth`, `Deployment` |
| Service process | `cmd/otel-oql/main.go` | the servers started | subcommand, configuration, start, signal, stop, in three modes | `ServiceLifecycle`, `Deployment` |
| Interactive shell | `cmd/oql-cli/main.go` | stack of queries, last response, numbered rows, focus, history | query, refine, undo, recall, print, focus, unfocus, the outline of a trace | `CliSession`, `UndoStack`, `TraceViews` |
| Schema | `pkg/clickhouse/schema.go`, `setup_schema.go`, `scripts/start.sh` | the tables of each server | create, from the command and from the script | `Deployment`; the columns in `OqlTranslator` |
| Self-observability | `pkg/observability` | telemetry that waits, one export in flight | record, export, shut down | `Deployment` |
| OQL parser | `pkg/oql/parser.go` | `input`, `pos` | one parse function per operation | `OqlParser` |
| TraceQL and Tempo endpoints | `pkg/traceql`, `pkg/api/tempo.go` | per request: the rows, the traces or spans built from them | two searches, trace by id, lists of tags | `TraceViews` |
| LogQL and Loki endpoints | `pkg/logql`, `pkg/api/loki.go`, `pkg/api/formats/loki.go`, `pkg/querylangs/common` | per request: the statement, the rows, the streams by key | `query`, `query_range`, `labels`, `label/{name}/values` | `LogQueries` |
| Configuration | `internal/config` | the settings | merge file, environment, command line and defaults; validate | `Deployment` |

How they interact:

* The receivers call the middleware of `pkg/auth`, which puts the tenant into the context;
  the ingester reads it from there and stamps it on every record. An export is one call
  from receiver to ingester to client, one INSERT statement, and one answer.
* The query API runs the same middleware. The translator gets the tenant as a number and
  writes it into the WHERE clause of each statement. The MCP server takes the tenant from
  an argument of the tool.
* Expand and correlate have no SQL of their own. The translator wraps the base statement in
  textual markers; the executor finds them again, runs the base, collects trace ids, and
  runs one or more further statements. Nothing ties these statements together.
* `setup-schema` is another process of the same program; the service never looks whether the
  tables are there. `scripts/start.sh` runs both, one after the other.
* With observability enabled and its default endpoint the service exports to its own gRPC
  receiver: an export that it takes is a request that leaves telemetry behind.
* The shell knows nothing of the parser: a refinement is text appended to text.
* Components share only ClickHouse. There is no lock and no transaction in the program;
  its concurrency is that of its request goroutines, its servers and its main goroutine.

What is hard here, and what makes each part correct:

* *Queries of several statements.* Rows arrive and statements fail between the base and its
  follow-ups. Correct: the caller sees one answer, of its own tenant, that misses nothing
  stored when the base ran and adds nothing outside the traces of the base.
* *Translation as text.* Operations append to, cut or replace text that other operations
  produced. Correct: no condition is lost or added by a later operation, and a supported
  pipeline ends in SQL that can be run.
* *Ingestion without memory.* A timeout, a retry and a late commit overlap, the process may
  be killed. Correct: what is acknowledged is stored, for the tenant that sent it; copies
  are possible, losses are not.
* *Start and stop.* Ports are bound at different moments in different goroutines; main
  blocks in one server before it waits for signals. Correct: a stop drains what it may
  drain, and always ends.
* *Sessions of the shell.* Six pieces of state are changed by commands in any order, and a
  command means different things in different states. Correct: stack, screen, numbered
  rows and focus agree.
* *Bucketing.* The statement of a range query is cut by a LIMIT that is computed from the
  range, and its bucket times pass through two integer divisions. Correct: each point of
  the range counts once, under its labels and at its time.
* *Views of a trace in progress.* Children arrive before their parents, spans arrive twice,
  and three views compute roots, times and order each in its own way. Correct: what a
  search finds can be opened and bears the search out, and the outline reads as a tree.

* *Walking a text by hand.* The OQL parser has no tokens: what ends an operation is the next
  keyword it meets. Correct: the cursor stays in the text and moves on with every operation,
  and more text appended does not change how the text before it reads.
* *Guessed units and shapes.* The Loki endpoints take a number for seconds, milliseconds or
  nanoseconds by its size, and a result for a matrix or for streams by its column names.
  Correct: the lines that the query and the range ask for, at their times, up to the limit.
* *Deployment.* Setups are interrupted, refused and repeated; four sources of settings are
  merged; the service lets in, or not, what it sends to itself. Correct: what a setup reports
  is so, keys are required unless test mode was asked for, the stop still ends.

The `hazards` list in `PROJECT.json` names these line by line, with the properties that
watch them.

## 2. Modules

**`OqlTranslator`** (`pkg/translator/translator.go`). The text under construction is a
record: the table and columns it selects, the sequence of clauses appended so far, and the
markers wrapped around it. `TranslateOp` is the loop body of `TranslateQuery`, one operator
per operation; `Executable` says which clause sequences ClickHouse takes as SQL. Values are
abstracted to a mark per row, conditions to the set of marks they admit and the columns
they read. A sort names columns or holds other text (`NoColumn`), which the code writes into
ORDER BY as it was typed. `switch_context` starts a new text and leaves the translator's other fields as
they were, as the code does.

**`QueryServer`** runs any number of requests over the query API or MCP, one action per
statement of a request, and one per way a statement can end: rows, refusal by ClickHouse,
outage. `Insert` stores a batch at any moment. `Plan` is the dispatch of `handleQuery` on
the markers. History variables (`seen`, `base`, `lost`, `faulted`) remember what the base
statement saw and which statements failed; no action reads them. What a statement returns that
is ordered by other text than columns is up to that text, so it may be refused or return any of
`FreeAnswers`, rows of other tenants and tables among them.

**`TenantQueries`** is the promise: a request is asked once and answered once, in one step,
with rows of its tenant that are stored at that step if the sorts of the request name columns
(`plain`), and with any rows otherwise. `QueryServer` implements it under the mapping `PhaseOf`,
`SortsByColumns`, `AnswerOf`.

**`Auth`** is the store after loading and the decision of each middleware, as operators.
`Entitled` says what headers and files entitle a caller to, without reference to the code.
**`Ingest`** extends it: exporters that send, hear an answer or nothing, and send again;
receiver calls that authenticate, read, convert, insert and answer; a database that stores
or refuses a statement whenever it likes; a process that is killed. **`AtLeastOnce`** is
its promise.

**`ServiceLifecycle`** is `run*Mode` of `main.go`: the main goroutine with the servers it
has yet to start or stop, the goroutines that bind their ports, requests in flight, a
signal. `taken` are ports another process holds.

**`CliSession`** is the session of the shell, one action per command and outcome, with
**`UndoStack`** as the abstract stack of queries.

**`PromQueries`** translates a PromQL expression as a fold over its layers, from the
selector outwards, exactly as the translator recurses; executes the one statement; and
groups its rows into series, row by row. A value is the set of data points it was computed
from, so "counted once" and "under its labels" can be stated without arithmetic on values.
The text of a matcher is the set of values that PromQL finds by it, `sought`, and says how
ClickHouse reads it: the `same`, `wider` (a regular expression is not anchored) or `rewritten`
(its dots became underscores); `FoundByClickHouse` is what it finds then. A matcher on the name
of the metric is taken as the name, and other than `=` refused. `ToUnixSeconds` tells seconds
from milliseconds by their size; `EraAssumption` says that the points are late enough (August
1970) for the beginnings of their buckets to be on the right side of that.

**`TraceViews`** stores the spans of a trace export by export, in any order and some of them
twice, and computes from the rows what each view shows: the two Tempo searches (a row limit
in the first only, a summary per trace in which each row overwrites what the one before it
set), the trace by its id (the JSON and the protobuf form hold the same times and lists),
and the outline of the shell, whose recursive `dfs` is a sequence of pending calls, one call
per turn of `walk`, and whose `calculateDepth` is a climb that ends where it has been before.
What is put in order is any of the sequences that are ordered (`InOrder`, by a key, `Oldest`,
`ByTime`), not the outcome of one sort, so that the order of rows that compare as equal is open. A
search is a text of tokens, which the parser takes for a filter, an aggregation or
arithmetic, or refuses; a condition (field, operator, value) is one token, the set of spans it
admits. A list of the values of a tag reads the column that its own table gives
(`mapTraceQLTagToColumn`), a search that of the translator (`translateFieldExpr`). Rows of the same time come in any
order, and rows of a statement without ORDER BY in any order at all. `quoted` says whether
ClickHouse writes 64-bit integers as strings, which the shell and Tempo read differently.

**`LogQueries`** follows a Loki request from the parser to the response. The text of a matcher
is a set of values twice, those that LogQL means by it (`sought`) and those that ClickHouse finds
by it (`found`), and that of a line filter a set of bodies twice: an unanchored regular
expression, or a text with a wildcard of LIKE in it, finds more than it means. So what the
statement selects and what the query asks for are both sets of lines that can be compared. A
line filter may be empty and a parser may be given a parameter, which `ParsePipeline` refuses as
the code does. `ParseTime` and `ToNanoseconds` are the guesses of units, as arithmetic in 64 bits
(`Int64`); a date keeps its milliseconds. `EraAssumption` places the times of lines and ranges
where these guesses are right and the product does not wrap, between April 1970 and April 2262;
a line may have no time, which is zero. What happens to
times outside of it is said in section 5.
The rows of a statement come in any order, since the code asks for none, and the key of a
stream in any order of its labels, since Go's maps have none.

**`OqlParser`** is the parser with its cursor. Each parse function is an operator of a text and
of the place of its keyword, with the operation it returns and where that ends, or an error; one
action per parse function looks at the text from `pos` on and takes the result. A text is a
sequence of words, spaces and signs in which no two words are adjacent, so `pos` counts these
instead of bytes, and every place where the code slices or steps past a sign is kept. `Refine`
is the shell, which appends ` | ` and the next line to a text that was accepted. `meant`
remembers what the writer of the text meant; no action that models code reads it. A refinement
is meant as the operations that were accepted and then its own if the text was `Closed`: behind
each `(` there is a `)`, and it does not end in `|` or in a keyword.

**`Deployment`** extends `ServiceLifecycle` and `Auth`. It begins with servers without tables
and commands that set them up, by hand and from the script, beside outages and kills; `Load`
merges the sources of the configuration; `InitAuth` builds the middleware; then the actions
of `ServiceLifecycle` run, joined with the telemetry: `Recorded` is what a request leaves
behind, `SendOwn` and `OwnAnswered` the service as a client of its own receiver, `EndWith`
the end of main, whose deferred `Shutdown` sends what waits. `reported` and `lost` are
history.

The `MC*` modules hold the instances. A definition that begins with "mutant:" in its comment
is a plausible defect of the definition below it; no specification uses it. It is there so
that each property can be shown to reject it.

## 3. Runs

| Run | Instance and bounds | Shows |
|---|---|---|
| `query_server` | one request of tenant `acme`, 30 pipelines over both servers, three of which sort by other text than columns, two tenants that share a trace id, six batches in any order; 71,636 states | isolation and conditions honoured for sorts by columns, expand and correlate complete, supported pipelines answered, every request answered, refinement of `TenantQueries` |
| `cli_session` | three recorded commands with any number of undo, print, focus and unfocus between them, five result sets; 86,881 states | stack, screen and focus agree; refinement of `UndoStack` |
| `ingest` | one export of six kinds sent up to three times, three modes, one kill; 82,211 states | acknowledged is stored, for an entitled tenant; a poisoned export is never stored; every call is answered; refinement of `AtLeastOnce` |
| `deployment` | nineteen configurations, eleven that start and eight that are refused; two ClickHouse servers; any ports taken; one request at once per server beside the service's own exports, two units of telemetry that wait; 159,356 states | success of a setup is true, a repeated setup completes, keys unless test mode, own telemetry taken in test mode, the orderly stop of the receivers cuts nothing off, a signal ends the process, a taken gRPC or MCP port ends it |
| `log_queries` | 19 log queries, 24 metric queries and a scalar, instant, and those of lines over a range written in every unit; the lists with and without a range; every set of at most three of six lines of two tenants; 754,795 states | lines as asked for and complete up to the limit, as far as ClickHouse reads the texts as LogQL does, listed values find lines, supported requests answered |
| `oql_parser` | all pairs of 15 operations in four layouts, 2,791 texts that mean nothing, each accepted text refined once in three ways; 31,619 states | the cursor stays in the text and moves on, texts read as meant, refined or not |
| `prom_queries` | 22 expressions as an instant query and over five ranges, every set of at most four of seven points; 105,123 states | each point counted once, samples true, supported expressions answered |
| `trace_views` | two traces, one with three levels and one with two roots, a span of another tenant under one of their ids, one root stored twice, 18 searches, six lists, two requests; 23,538 states | a listed value can be searched for, a found trace opens, it bears its summary out, times and services are true, no span is lost from view again, the outline reads as a tree |
| `default_order`, `graceful_shutdown`, `loki_metric`, `setup_target` | the same modules | the code against what its documentation says (section 5) |

`TypeOK` of each module that has one is proved in section 4 or part of an invariant proved there
(for `CliSession` but for the rows on the screen), and holds on all these instances (it can be added to any of the cfg files); it is not listed
among the properties, which are kept for what could go wrong.

Why the bounds are enough:

* *One request.* Requests share nothing but the database, no action of a request reads the
  variables of another, and the batches that arrive in any order stand for whatever the
  rest of the system writes. The proofs of section 4 hold for any number of requests.
* *Two tenants, two traces, two marks.* Isolation needs a foreign row that matches on
  everything else: the foreign span and log of trace `t1`. Correlation needs a row outside
  any trace; limits need two candidates.
* *One export, three attempts, one kill.* Exports share only the database and records name
  their export. Three attempts give a late first call, a running second and a third after
  the kill.
* *Three commands.* Every recorded command replaces or extends the stack; three reach a
  stack of three, an undo to two and one, and a recall in a different state of the session.
* *One request per server, and one export of the service's own.* One that ends and one that
  keeps the drain waiting. The proof of `NoExportCutOff` holds for any number.
* *Two servers, two commands.* One server that the commands reach and one they were asked
  for; a command by hand beside one of the script, at every step of each.
* *Nineteen configurations.* Each source alone, each against the one below it with the same
  and with another value, an unparsable value, and each way to be refused.
* *Three of six lines.* Three of one label set, so that a limit of two cuts; one without the
  attribute, one without a time, one of another tenant that meets every condition.
* *Two operations and a refinement.* An operation is cut by what follows it, so pairs show
  every neighbour. Texts of at most three signs after each keyword reach every place where an
  argument may be missing.
* *Texts that find more.* Each of the two signs of a matcher and of a line filter with a text
  that finds more in ClickHouse than it means; one such text per query shows what it does.
* *Seven points, ten milliseconds.* A "second" is two milliseconds, so a step of 1 is
  below a second, 2 a second, 3 not a multiple of one, 4 a multiple, 0 the step that rounds
  to nothing. The range 4..6 with step 3 is not aligned: it touches two buckets and has one
  whole step less. The buffer of the LIMIT (10) is the code's, so with at most four points no
  LIMIT ever cuts in TLC: that it does not cut for any number of points is what
  `PointsCountOnce` proves.

* *Two requests for traces.* Each property relates at most two answers: a search and a
  trace opened after it, or a trace opened twice. A millisecond is two nanoseconds, so starts
  and durations are cut both ways.

Deadlock is checked in `query_server`, where a batch can always be stored again. It is
switched off where the system really stops: a process that has ended, a session at its
bound of commands, an export that was acknowledged, a PromQL or LogQL request that was
answered, a text that was refused, a service that was never started, a client without
requests.

**Fairness.** Weak fairness of a handler's own steps, and no more. A request goroutine runs
on because every ClickHouse call it waits for ends: the HTTP client has a timeout
(`pkg/clickhouse/client.go`), so either the answer or the outage step happens. In `Ingest`
nothing is assumed of the database and of the exporter: a statement may stay open for ever.
In `ServiceLifecycle` the main goroutine, the binding goroutines and the requests in flight
run on; nobody has to send a signal and no client has to stop sending. In `Deployment` the
same, and for the setup by hand: who runs it tries again, and a statement asked for again and
again is not refused for ever (strong fairness of each `CreatesByHand`). No server has to
answer and nobody has to start a service.

## 4. Proofs

Eight modules hold the theorems. They assume of the constants what the assumptions named in the
modules say (`QueryServerAssumption` and those of `OqlTranslator`, `AuthAssumption`,
`IngestAssumption`, `LifecycleAssumption`, `CliAssumption`, `ParserAssumption`,
`DeploymentAssumption`, `LogAssumption`, `PromAssumption`, `EraAssumption` of each of the two, `TraceAssumption`); TLC
evaluates each of them on the instances of section 3. Databases, label sets, exports and the
pipelines of a request are finite; nothing bounds their size. One theorem has a hypothesis of its
own, `TextsReadAsMeant` (below).

### The query path

`QueryServerProofs` begins with the translator: `TranslateOp`, `StartTranslation` and
`DefaultOrder` keep the type of a translation, each operation of each pipeline, whatever was
translated before. For all values of the constants that satisfy
`QueryServerAssumption` and the assumptions of `OqlTranslator`:

* `TypeCorrect`: `Spec => []TypeOK`. Not only bookkeeping: it contains that the empty trace
  id is never collected into an IN list, and that every table an executor sends a follow-up
  to is a table of the schema.
* `Isolation`: `Spec => []TenantIsolation`. It speaks of requests whose sorts name columns; of
  a request that sorts by other text nothing is claimed, since that text can be any SQL.
* `Refinement`: `Spec => KeepsPromise`, the implementation of `TenantQueries`, under the same
  condition for each request.

`TenantIsolation` alone is not inductive: it speaks of the rows already gathered and says
nothing of the statement that will gather the next ones. The inductive invariant is
`IInv == TypeOK` and for each request `Scoped` (from the first step to the last the
statement carries the tenant of the request, also after `switch_context` and under any
number of markers), `Unopened` (a request that has not been asked has gathered nothing) and
`Presentable` (the result sets hold own rows that are stored, without the tenant column for
the API). One lemma per group of actions shows that a step keeps each part. The refinement
uses `Presentable` for "rows that are stored at that step" and the monotony of `db`.

The second half of `QueryServerProofs` proves what the answers hold, in three layers on top of
`IInv`:

* `ExpandCompleteness`, `CorrelatedRows` and `CorrelateCompleteness` from `Traced`: at each
  step the result sets already delivered and the signals still owed account for every row of
  the traces of the base that was stored when the base ran. A signal leaves the debt only when its
  rows are there, when it is the base's own, or when its statement failed, and that is
  remembered; `db` only grows, so a later statement sees what the base saw.
* `Conditions` from `Honoured`: after n operations the text stands for the first n operations
  of the pipeline (`StandsFor`), and `todo` is the rest of it. A mark is admitted by the
  clauses exactly when every condition since the last `switch_context` (`SwitchedAt`) and
  before the first marker (`Bare`) admits it. This holds of pipelines of any length, if their
  sorts name columns.
* `SupportedPipelines` from `Served`: the text of a supported pipeline stays `Workable` (its
  clauses in an order ClickHouse takes, `ClausesFit`, and its markers in the one nesting that
  the executor knows, `MarkersFit`), so that, once translated, base and follow-ups can be run
  (`Runnable`). The proof showed that the property needs the operations to read columns of
  their table (`Legible`); the instance has a pipeline that does not, and one that expands by
  another type than trace.

### Ingestion

`IngestProofs` proves `GrantsEntitled` about the operators of `Auth`, for any two files: the
tenant that the middleware finds is one that `Entitled` allows. The store keeps the last
record of a name; that there is a last one needs the well-founded order of the indices.

It proves, for any number of exporters, attempts and kills, `TypeCorrect`,
`NoAckedLoss`, `StoredAsEntitled`, `PoisonedRefused` and `Refinement` (of `AtLeastOnce`).
The properties relate an exporter to the database, and neither knows the other. What links
them is the state of each call, so the invariant is about calls: `Unsent`, `Phased` (how far
handler and statement are), `Scoped` (past the middleware a call carries an entitled
tenant, the step where `GrantsEntitled` is used), `Confirming` (what a stored statement and
a success mean); with `FromStored` (each record comes from a stored statement) and `Heard`
(what an exporter acknowledged is the answer to its last call).

### The shell and the OQL parser

`CliSessionProofs` proves `StackStaysRunnable`, `ScreenStaysInStep`, `FocusStaysConsistent` and
the refinement of `UndoStack`, without the bound on the commands of a session. `FocusConsistent`
is inductive once the screen is in step: a span can be put in focus only from the rows
of an expanded trace, and whatever changes the trace in focus takes the span out of it.

`OqlParserProofs` proves `NoSliceOutOfRange` and `EveryOperationAdvances` for every text, well
formed or not: induction over the recursive `from` of `Split` is not needed, since the cursor
only ever moves to positions that `Skip`, `WordEnd`, `OperationEnd` or `FieldEnd` give, and
these are the least of a set of positions (`LeastPosition`, from the well-founded order of
numbers) or the end. The invariant adds to `WithinText` that the text
is one over `Words` and that nothing of it is read before the signal is. Together they say that the loop of `Parse` ends on every input: the cursor is
bounded and grows.

`TextsReadAsMeant` is `Spec => []ReadsAsMeant` for any lines, any refinements and any number of
them, from the hypothesis `MeantTexts`: each line whose meaning is known reads, by itself, as the
operations it is said to mean, and so does each refinement behind ` | `. How one given text
reads is a computation, and TLC does it; what a reader cannot see from single texts is that they
read the same when they are put together. That is what is proved:

* Two texts are `Alike` when all that the parse functions see of the one at a place they see of the
  other at the place that stands for it: where a word, an operation, the field of an aggregation
  ends, and what is between. Then each parse function returns the same operation for both
  (`ResultsAlike`); no parse function has to be looked at again.
* A closed text is alike to the beginning of every text that continues it with a separator
  (`PrefixAlike`), and what is behind the separator reads as it does by itself (`SuffixAlike`). So
  operations stay where they are read (`PrefixReads`, `SuffixReads`, `RefinedReads`).
* The inductive invariant is `MeantInv`: beside `IInv`, that the operations taken are those
  the text leads to `pos` with (`Taken`), and that what is meant is what was taken and what the rest of
  the text reads as (`Expected`).

The proof refuted an earlier definition of `Closed`, which counted parentheses: in
`signal=spans where a == ) | avg(a` there are as many of one kind as of the other, and the
aggregation still swallows a refinement.

### The process and its deployment

`DeploymentProofs` first proves of the process alone `NoExportCutOff` and `NormalEndDrained`.
That nothing is cut off at the end follows from what the main goroutine has left to do: while it
starts, what is in `todo` does not run (`Started`); while it stops, what is not in `todo` is
stopped (`Stopped`); a server that neither serves nor drains has no requests (`Unburdened`).
`DeployedExportsDrain` carries this over to the deployed service: its steps are those of the
process, but for two. The start chooses the mode and the ports when nothing has run yet
(`Unstarted`), and an export of the service's own joins the requests of the receiver beside the
bound on those of clients, so the invariant says nothing of that bound (`Bounded` does).

`SetupReports`: a command that has come to its n-th table left the tables before it at its
server (`LeftBehind`), because the first refusal ends it and nothing drops a table.
`NoKeysOnlyIfAsked`: the middleware in effect without keys comes from test mode in effect
(`AuthOfTestMode`), and that from the source that counts (`TestModeInEffect`).

`OwnTelemetryIsTaken` rests on an order of events (`ReceiverFirst`): until the stop, either the
gRPC receiver is up, or it is the first server that main will start and there is no
telemetry yet (`Fresh`). So no export of the service's own can meet a receiver that does not
listen, and the middleware of test mode takes the header that the exporter sends.

### Logs and metrics

`LogQueriesProofs` proves `LogLines`, `LogCompleteness`, `ListedValues`, `SupportedRequests` and
the types. The invariant is `Handled` (the statement is the one that the request asks
for, at every step, and a supported request has met no error) and `Streaming`: while rows are
grouped, rows and streams together hold each selected line exactly once, at its time and under its
labels (`Distributed`); when the limit has cut the streams, a line that is missing has as many
lines of its label set before it (`Presented`). Streams are told apart by keys in the random
order of a map, and lines by the set of pairs in a key, so no step of this needs the order of
either. `EraAssumption` enters where a time passes through the guesses of units, and nowhere
else. What the statement selects is compared with what was asked for text by text: a text that
finds more lets in more where it admits (`WiderExclude` rules that out) and drops more where it
excludes (`WiderAsk`), so each of the two properties carries the condition it needs and no other.
Tenant, time and labels of what is shown need neither.

`PromQueriesProofs` proves `PointsCountOnce`, `SamplesAreTrue`, `SupportedQueries` and the types,
for expressions of any depth:

* The translation is a fold over the layers, and the provers have no induction over data. That
  the fold has a value after each layer follows from the well-founded order of numbers, as a set
  of numbers without a least counterexample (`AllNumbers`, `TranslationChain`). `Sound` then says
  what the statement is after k layers.
* The LIMIT is computed from the range and the step. `FewBuckets` shows that it cuts nothing off
  a query for one series: a row determines the number of its bucket, and the numbers of the
  buckets that a range touches are no more than the limit (`BucketsOfRange`), however the range
  lies to the step.
* A row comes from one group of GROUP BY (`GroupedGroups`, `GroupedTrue`), so no point is
  behind two rows; and each row goes to one series (`RowPlaced`). `Streaming` says of rows
  and series together that no point is behind two of them (`Distributed`) and none was lost
  (`Whole`). Both divisions of a time, by the step and by a second, stay below it by less than
  their divisor (`BucketHolds`, `SecondHolds`), and the unit of the result is told right
  (`UnixSecondsHold`), since the statement shows milliseconds of the era or seconds (`Dated`).
* A selector that is refused, for a matcher on the name, stays refused through every layer
  (`Translated`). A query for one series is one whose matchers ask for values that are not
  rewritten.

### Views of a trace

`TraceViewsProofs` proves `FoundOpens`, `NeverForgets`, `OutlineReads`, `ListedValuesFind`,
`SummaryWithin`, `TraceIsTrue` and the types, for any exports, any number of copies and of requests.
None of them is inductive: they speak of what is shown and leave out what it was made of. The
inductive invariant `ViewsTrue` says of each thing the client looks at which of the stored rows it
comes from:

* the rows of a search are rows of its tenant, each once, and what was found is their summaries
  (`ReturnedIs`); a listed value is the text of a stored row in the time of the list (`ListedIs`);
* a trace that is shown comes from rows of that trace, each once, with all those the search had
  seen, and a trace that is not found has none of those (`OpenedIs`).

Rows are only added, so all of this stays true (`MoreRows`), and each action makes it true of what
it shows. The properties then follow from the rows: `SummariesAreWithin` counts them, and compares
the first start and the last end of some rows with those of more; `TracesAreTrue` finds of each row
shown the span it stands for, and of its copies the exports that hold it;
`ListedValuesAreFound` that both columns of a tag hold the same text.

`OutlinesRead` is about `walk` and `climb`, two loops over data. What such a loop does is proved of
the chain of its states (`ChainOfCalls`, `ChainOfClimbs`, in the way of `AllNumbers`):

* Calls that wait for ever would lose spans. Each turn of the walk takes a call, a span gives its
  children to the calls once, and there are no more turns needed than rows (`InBudget`); so every
  span that a root leads to is visited (`Reached`).
* `Preorder`: what was visited since the parent of a span is deeper than its parent. The next row
  above with less depth is then the parent, which is what a reader of an outline takes it for.
* The depth of a span is the length of its path to a root (`Along`), the same as one more than
  that of its parent (`Ranks`); a cycle among parents, which is not ruled out, has no root and
  is outside of what is claimed.
* `InTime`: unless the numbers are quoted, the children of a span come in the order of their starts,
  also across the calls that wait.

### Only model-checked

* All liveness (`EveryCallAnswered`, `EveryRequestAnswered`, `RerunCompletes`,
  `SignalEndsProcess`, `TakenPortEndsService`), which is outside what the proof system can do,
  as are ENABLED and induction over what a recursive definition computes.
* `MeantTexts`, the hypothesis of `TextsReadAsMeant`: how a given text splits into conditions,
  lists and values is what recursive definitions compute. Of each line that is not yet refined
  `ReadsAsMeant` says just this, and of a refined one, that the refinement does.
* What `TraceViews` does with the text of a search (`IsAggregate` and its like); the proofs need
  only that a filter of one condition admits what the condition admits.
* The type of the rows on the screen in `CliSession`, which pass through a sort.

## 5. Where the code and its documentation differ

Each has a run that exhibits it:

* `default_order`: a `limit` on spans or logs without a `sort` ends in SQL with ORDER BY
  after LIMIT, which is refused (`translator.go:151`); README.md shows such queries.
* `graceful_shutdown`: in the modes that serve MCP the signal handler is never installed.
* `loki_metric`: every metric query over logs that finds a row is answered with an error; the
  columns of its statement have no alias (`pkg/logql/translator.go:215`), and the endpoint
  takes a result without a column `value` or `cnt` for lines (`pkg/api/loki.go:178`).
* `setup_target`: `setup-schema --clickhouse-url=X` creates the tables at
  `http://localhost:8123` and reports success (`cmd/otel-oql/setup_schema.go:13`); so does the
  `--pinot-url` of the Makefile.

Each of these is a property of its module that TLC refutes when a cfg of that module names it:

* `McpAnswersDocumented` (`QueryServer`): the MCP tool sends the marker text itself to
  ClickHouse (`pkg/mcp/server.go:118`); its description offers an expand as an example.
* `OrMeansOr` (`TraceViews`, with `Searches <- OrSearches`): a TraceQL search for one condition or
  another is translated as a search for both (`pkg/traceql/parser.go:98`).
* `LinesContainText` (`LogQueries`): LOGQL_SUPPORT.md says that `|=` is "contains"; an underscore or
  a per cent sign in its text stays a wildcard of LIKE (`pkg/logql/translator.go:191`), so
  `|= "user_id"` shows lines that do not contain the text, and `!= "user_id"` (line 195) leaves out
  more lines than those that do.
* `SeriesWhole` (`PromQueries`): the key of a series follows Go's random map order, although
  its comment says the labels are sorted; one series can be split into several.
* `PrintShowsLastResults` (`CliSession`): `print #N` can take a row of an earlier answer.
* `ConnectivesConnect` (`OqlParser`, with `Texts <- Mixed`): OQL_REFERENCE.md says `and` binds
  tighter than `or`; a condition is split at ` and ` first (`pkg/oql/parser.go:132`), and what
  is left of an `or` becomes part of a field or a value.

Met while modelling, without a property of their own. Queries: `get_exemplars()` leaves a base
without `trace_id`, so the `expand` that SPEC.md puts after it fails
(`pkg/translator/translator.go:416`); over a range, `sum by (l)` needs `l` among the matchers
of the selector, and `rate` has no column the response could be built from
(`pkg/promql/translator.go:319`); a correlate passes over a signal whose
statement fails and the answer does not say so (`server.go:594`); an operation after a
correlate changes nothing in the follow-up (`server.go:484`) where SPEC.md shows a filter;
`focus #N` takes row N in the server's order although the screen numbers the sorted rows
(`cmd/oql-cli/main.go:1028`); `sum without (l)` is translated as `by (l)`; the LIMIT of a
range query counts the buckets of one series and cuts the answer when there are several;
the `time` of an instant query selects nothing; a user listed twice gets the later tenant
where CONFIG.md says duplicates are rejected.

Text in statements: the text of a `sort` is written into ORDER BY as it was typed
(`pkg/translator/translator.go:62`, `pkg/oql/parser.go:467`), while `group by`, `extract` and aliases
are checked to be names, so that what such a statement selects is not bound by its tenant
condition; the isolation of section 4 is that of sorts by columns. `sqlutil.StringLiteral` doubles
a quote and leaves a backslash, which ClickHouse takes for an escape; the comment at
`pkg/translator/sqlsafe.go:34` has it that values cannot leave their literals. The models have
no backslash in any text.

Matchers: regular expressions are matched against a part of the value in LogQL
(`pkg/querylangs/common/matcher.go:31`) and PromQL (`pkg/promql/translator.go:271`), where both
languages match the whole of it; PromQL values that look like names with dots are looked for with
underscores (`pkg/promql/translator.go:511`); a matcher on the name of a metric other than `=` is
refused (line 104); `sum by (__name__)` over a range selects a column that its inner statement has as
`metric_name` (lines 145 and 330), and fails. In LogQL `|= ""`, which any line contains, is refused
(`pkg/logql/pipeline.go:99`), and so is a parser that is given its parameter, as `pattern` and
`regexp` always are (line 119).

Traces: in the outline, spans that no root leads to follow in the random order of a map,
indented under rows they do not belong to (`cmd/oql-cli/main.go:2069`); the shell takes a
quoted 64-bit integer for time zero, so brothers and sisters are unsorted; the limit of a
search counts spans, not traces (`pkg/api/tempo.go:719`), and its summary covers only the
spans that matched; a search of the second version for `{}` is a parse error, while the
first answers it with nothing; what follows the closing brace of a filter, a second pair of
braces for instance, is not read and not refused (`pkg/traceql/parser.go:59`); an aggregation
takes no argument, although the comment at `parser.go:46` shows `sum(duration)`;
`count() by (traceid)` finds traces of one span of an unknown service; a scalar (Grafana's connection test) asked of the first
version gets a second LIMIT and is refused; a span that took no time has no end, although
the field is commented as required by OTLP; `http.status_code` is never shown by the JSON
view, which asks for an `int` where decoded JSON has a `float64`.

Logs: times in nanoseconds, which GRAFANA_INTEGRATION.md shows, are taken for milliseconds
(`pkg/api/params.go:302`); the limit is applied to each stream, not to the answer; no statement
is ordered, so the first of a limit are any; `{job="varlogs"}[5m]` of the README is refused, as
is `{job!="test", level!~"debug.*"}` of LOGQL_SUPPORT.md; after a `drop` or `keep` nothing may follow;
an instant query of lines has no bound in time; `topk` is translated as its argument; the list
of labels is fixed, and the values of a label hold the empty one.

The OQL parser: a keyword that is a later item of a list, or stands in quotes, ends the
operation, as do ` and ` and `|` in quotes; an `avg(x` that is never closed swallows the
refinement after it; a trailing `|` is accepted, and then every refinement refused; single
quotes, which OQL_REFERENCE.md shows, are part of the value; a tab before a keyword does not
separate.

Deployment: `--test-mode=false` cannot take back what the environment or the file says, where
CONFIG.md puts the command line first; `--exit-on-failure` is read by nobody; the
`--pinot-url` of the README is refused by the service as an unknown flag; the script sets up
nothing if ClickHouse answers at once, so it never completes a setup that was cut short; the
service's own telemetry has no key, so without test mode its own receiver refuses it; what
waits when the service stops is sent after its receiver has stopped, and lost; each export it
takes leaves telemetry to export again, without end; of two servers of one process with one
port the second fails, in the case of HTTP silently; metrics of a type without a case (summary,
exponential histogram) are dropped and acknowledged (`pkg/ingestion/ingester.go:154`).

## 6. Not modelled, and why

* How numbers, durations, dates, regular expressions and quotes are spelt, in every language;
  in TraceQL the three parts of a condition, and grouping by the id of a trace. Texts hold no
  backslash.
* How a text is rewritten: that it is, and then finds other values, is modelled in PromQL.
  Completeness (`CountedOnce`) is claimed of queries without such a text.
* Clocks: a child may begin before its parent, so nothing is claimed of their order.
* The intrinsic fields of a span among the tags whose values `TraceViews` lists.
* What a LogQL metric query counts: its rows never become an answer.
* The attributes of a span in the Tempo endpoints: a copy of columns. `getTempoMetadata` has no
  caller.
* PromQL label endpoints and arithmetic with scalars. Values are not computed, so nothing is said about averages.
* ClickHouse itself: a statement is atomic, rows are only added, a follow-up sees what is
  stored at its moment, an insert is stored whole or not at all.
* `Reload` of the user store has no caller. Streaming RPCs have no handler.
* In `ServiceLifecycle`, `IngestionDrains` leaves out a signal that comes before the
  handler is installed: it kills the process, in Go as in the model.
* Of the telemetry of the service about itself, the readings of the meter and the single
  instruments; of the configuration, the flags that only print and the syntax of YAML.
* Layout, wording, colours, logging; the sender of test data, which keeps no state.

## 7. Plan

Done: the query path with its translator and its parser, the shell, ingestion with
authentication, the deployment and the life cycle of the process, PromQL and LogQL, the views of a
trace, each with its proofs. In this order, next:

1. Composition: an export acknowledged by `Ingest` is found by a later query of its tenant.
2. The lists of labels and values of the PromQL endpoints.
