----------------------------- MODULE QueryServer -----------------------------
(***************************************************************************)
(* The OQL query path: pkg/api/server.go (POST /query) and the oql_query   *)
(* tool of pkg/mcp/server.go, over the ClickHouse tables that ingestion    *)
(* fills at the same time.                                                 *)
(*                                                                         *)
(* A request is translated operation by operation (OqlTranslator), then    *)
(* executed.  A plain statement is one ClickHouse query.  An expand is     *)
(* two: the base statement gives trace ids, a second statement fetches     *)
(* every row of those traces.  A correlate is a base (which may itself be  *)
(* an expand) followed by one statement per signal.  Nothing ties the      *)
(* statements of a request together: rows arrive between them, and any of  *)
(* them may fail on its own (an outage, the 30 s timeout of the client).   *)
(***************************************************************************)
EXTENDS OqlTranslator, FiniteSetsExt

CONSTANTS
    Requests,   \* the requests of the run
    TenantOf,   \* the tenant of each request: authenticated by the API, an argument of the MCP tool
    Queries,    \* the queries a request may ask
    Traces,     \* trace ids
    NoTrace,    \* the empty trace id of a row outside any trace
    Rows,       \* the rows ingestion may store
    Batches,    \* the row sets that one Insert stores
    FreeAnswers \* what statements ordered by free text may return

Row == [table : Tables, tenant : Tenants, trace : Traces \cup {NoTrace},
        mark : Marks, root : BOOLEAN]

ASSUME QueryServerAssumption ==
    /\ TenantOf \in [Requests -> Tenants]
    /\ Queries \subseteq Query
    /\ NoTrace \notin Traces
    /\ Rows \subseteq Row
    /\ Batches \subseteq SUBSET Rows
    /\ FreeAnswers \subseteq SUBSET Rows
    /\ IsFiniteSet(Rows)

VARIABLES
    db,        \* the rows stored in ClickHouse
    pc,        \* where the handler of each request is
    via,       \* the server a request came to: the query API or MCP
    query,     \* the query asked
    todo,      \* the operations not yet translated
    sql,       \* the translated text
    traces,    \* the trace ids collected from the base statement
    pending,   \* the signals still to correlate
    results,   \* the result sets gathered so far; the response when done
    status,    \* how the request was answered
    seen,      \* history: db when the base statement ran
    base,      \* history: the rows the base statement returned
    lost,      \* history: the signals whose correlation failed and was skipped
    faulted    \* history: the requests that met an outage

request == <<via, query>>
translation == <<todo, sql>>
execution == <<traces, pending, results>>
history == <<seen, base, lost, faulted>>
vars == <<db, pc, via, query, todo, sql, traces, pending, results, status,
          seen, base, lost, faulted>>

Phases == {"idle", "translate", "base", "expand", "correlate", "done"}

NoQuery == [signal |-> "spans", ops |-> <<>>]

Result == [table : Tables \cup {"none"}, columns : SUBSET ColumnNames, rows : SUBSET Rows]

Init ==
    /\ db = {}
    /\ pc = [r \in Requests |-> "idle"]
    /\ via = [r \in Requests |-> "api"]
    /\ query = [r \in Requests |-> NoQuery]
    /\ todo = [r \in Requests |-> <<>>]
    /\ sql = [r \in Requests |-> StartTranslation("spans", TenantOf[r])]
    /\ traces = [r \in Requests |-> {}]
    /\ pending = [r \in Requests |-> <<>>]
    /\ results = [r \in Requests |-> <<>>]
    /\ status = [r \in Requests |-> "none"]
    /\ seen = [r \in Requests |-> {}]
    /\ base = [r \in Requests |-> {}]
    /\ lost = [r \in Requests |-> {}]
    /\ faulted = {}

-----------------------------------------------------------------------------
(* What a statement selects. *)

Admits(clauses, mark) ==
    \A i \in DOMAIN clauses : clauses[i].kind = "and" => mark \in clauses[i].marks

Matching(stmt, rows) ==
    {row \in rows : /\ row.table = stmt.table
                    /\ row.tenant = stmt.tenant
                    /\ stmt.rootOnly => row.root
                    /\ Admits(stmt.clauses, row.mark)}

Limits(stmt) == {stmt.clauses[i].count : i \in {j \in DOMAIN stmt.clauses :
                                                  stmt.clauses[j].kind = "limit"}}

\* LIMIT n keeps n of the rows: which ones is up to the ordering.  Free text
\* in the ordering may make another statement of it, over other tables and
\* tenants, or over none.
Returned(stmt, rows) ==
    LET matching == Matching(stmt, rows)
        size == Min({Cardinality(matching)} \cup Limits(stmt))
    IN  IF FreeText(stmt) THEN FreeAnswers
        ELSE {kept \in SUBSET matching : Cardinality(kept) = size}

\* mutant: the empty trace id is kept
TraceIdsWithEmpty(rows) == {row.trace : row \in rows}

\* The distinct trace ids of the base rows; rows without one are passed over.
TraceIds(rows) == {row.trace : row \in rows} \ {NoTrace}

\* mutant: the second statement forgets the tenant
FollowUpAnyTenant(table, tenant, ids) ==
    {row \in db : row.table = table /\ row.trace \in ids}

\* mutant: the IN list holds one of the ids
FollowUpOneTrace(table, tenant, ids) ==
    {row \in db : row.table = table /\ row.tenant = tenant
                  /\ ids # {} /\ row.trace = CHOOSE id \in ids : TRUE}

\* SELECT * FROM table WHERE tenant_id = tenant AND trace_id IN (ids)
FollowUp(table, tenant, ids) ==
    {row \in db : row.table = table /\ row.tenant = tenant /\ row.trace \in ids}

FollowUpExecutable(table) == "trace_id" \in Columns(table)

-----------------------------------------------------------------------------
(* How the executor reads the text it is given. *)

Last(s) == s[Len(s)]

\* The dispatch of handleQuery on the outermost marker.  MCP does not look.
Plan(r) ==
    LET wraps == sql[r].wraps IN
    IF via[r] = "mcp" \/ wraps = <<>> THEN "direct"
    ELSE IF Last(wraps).kind = "expand" THEN "expand"
    ELSE IF Len(wraps) > 1 /\ wraps[Len(wraps) - 1].kind = "expand" THEN "correlate_expand"
    ELSE "correlate"

\* How many marker pairs the executor strips before it sends the base.
Stripped(r) ==
    CASE Plan(r) = "direct"           -> 0
      [] Plan(r) = "correlate_expand" -> 2
      [] OTHER                        -> 1

\* The text sent is SQL only if no marker is left in it.
BaseExecutable(r) ==
    /\ Stripped(r) = Len(sql[r].wraps)
    /\ Executable(sql[r].stmt)

\* ClickHouse may answer the text: free text may be refused and may be run.
BaseMayRun(r) ==
    \/ BaseExecutable(r)
    \/ Stripped(r) = Len(sql[r].wraps) /\ FreeText(sql[r].stmt)

\* The table name is what stands between the table marker and the LAST
\* Len(end marker) characters of the text.
TableOfWrap(wrap) == IF wrap.tail = <<>> THEN wrap.table ELSE CorruptTable

ExpandTable(r) == TableOfWrap(sql[r].wraps[1])
CurrentTable(r) == TableOfWrap(Last(sql[r].wraps))

\* filterTenantID, which the MCP tool does not call.
FilterTenantID(r, columns) == IF via[r] = "mcp" THEN columns ELSE columns \ {"tenant_id"}

-----------------------------------------------------------------------------
(* Steps of a request. *)

At(r, phase) == pc[r] = phase

GoTo(r, phase) == pc' = [pc EXCEPT ![r] = phase]

Answer(r, how, sets) ==
    /\ GoTo(r, "done")
    /\ status' = [status EXCEPT ![r] = how]
    /\ results' = [results EXCEPT ![r] = sets]

\* sendErrorResponse: nothing of what was gathered is sent.
Fail(r) == Answer(r, "error", <<>>)

Submit(r) ==
    /\ \E q \in Queries, server \in {"api", "mcp"} :
          /\ via' = [via EXCEPT ![r] = server]
          /\ query' = [query EXCEPT ![r] = q]
          /\ todo' = [todo EXCEPT ![r] = q.ops]
          /\ sql' = [sql EXCEPT ![r] = StartTranslation(q.signal, TenantOf[r])]
    /\ GoTo(r, "translate")
    /\ UNCHANGED <<db, execution, status, history>>

\* mutant: a request already answered is handled again
AskAgain(r) == pc[r] \in {"idle", "done"} /\ Submit(r)

Ask(r) == At(r, "idle") /\ Submit(r)

TranslateNext(r) ==
    /\ At(r, "translate")
    /\ todo[r] # <<>>
    /\ ~Rejected(Head(todo[r]))
    /\ sql' = [sql EXCEPT ![r] = TranslateOp(@, Head(todo[r]))]
    /\ todo' = [todo EXCEPT ![r] = Tail(@)]
    /\ UNCHANGED <<db, pc, request, execution, status, history>>

RejectNext(r) ==
    /\ At(r, "translate")
    /\ todo[r] # <<>>
    /\ Rejected(Head(todo[r]))
    /\ Fail(r)
    /\ UNCHANGED <<db, request, translation, traces, pending, history>>

FinishTranslation(r) ==
    /\ At(r, "translate")
    /\ todo[r] = <<>>
    /\ sql' = [sql EXCEPT ![r] = DefaultOrder(@, query[r].signal)]
    /\ GoTo(r, "base")
    /\ UNCHANGED <<db, request, todo, execution, status, history>>

\* ClickHouse refuses the base text.
RefuseBase(r) ==
    /\ At(r, "base")
    /\ ~BaseExecutable(r)
    /\ Fail(r)
    /\ UNCHANGED <<db, request, translation, traces, pending, history>>

\* executeQuery, or the single query of the MCP tool.
RunPlain(r) ==
    /\ At(r, "base")
    /\ Plan(r) = "direct"
    /\ BaseMayRun(r)
    /\ \E rows \in Returned(sql[r].stmt, db) :
          /\ base' = [base EXCEPT ![r] = rows]
          /\ Answer(r, "ok",
                    <<[table |-> sql[r].stmt.table,
                       columns |-> FilterTenantID(r, OutputColumns(sql[r].stmt)),
                       rows |-> rows]>>)
    /\ seen' = [seen EXCEPT ![r] = db]
    /\ UNCHANGED <<db, request, translation, traces, pending, lost, faulted>>

\* The base statement answers, but without a trace_id column.
BaseWithoutTraceColumn(r) ==
    /\ At(r, "base")
    /\ Plan(r) # "direct"
    /\ BaseMayRun(r)
    /\ "trace_id" \notin OutputColumns(sql[r].stmt)
    /\ Fail(r)
    /\ UNCHANGED <<db, request, translation, traces, pending, history>>

\* Step 1 of executeExpandQuery, called for an expand or for the base of a
\* correlate.  Without trace ids the expand answers an empty result that has
\* no columns, and a correlate around it fails for want of a trace_id column.
RunExpandBase(r) ==
    /\ At(r, "base")
    /\ Plan(r) \in {"expand", "correlate_expand"}
    /\ BaseMayRun(r)
    /\ "trace_id" \in OutputColumns(sql[r].stmt)
    /\ \E rows \in Returned(sql[r].stmt, db) :
          /\ base' = [base EXCEPT ![r] = rows]
          /\ traces' = [traces EXCEPT ![r] = TraceIds(rows)]
          /\ \/ /\ TraceIds(rows) # {}
                /\ GoTo(r, "expand")
                /\ UNCHANGED <<results, status>>
             \/ /\ TraceIds(rows) = {}
                /\ Plan(r) = "expand"
                /\ Answer(r, "ok", <<[table |-> "none", columns |-> {}, rows |-> {}]>>)
             \/ /\ TraceIds(rows) = {}
                /\ Plan(r) = "correlate_expand"
                /\ Fail(r)
    /\ seen' = [seen EXCEPT ![r] = db]
    /\ UNCHANGED <<db, request, translation, pending, lost, faulted>>

\* Step 4 of executeExpandQuery.  Inside a correlate the expanded rows are
\* not part of the answer: they give the trace ids of the next step.
RunExpand(r) ==
    /\ At(r, "expand")
    /\ FollowUpExecutable(ExpandTable(r))
    /\ LET rows == FollowUp(ExpandTable(r), TenantOf[r], traces[r]) IN
          \/ /\ Plan(r) = "expand"
             /\ Answer(r, "ok",
                       <<[table |-> ExpandTable(r),
                          columns |-> FilterTenantID(r, Columns(ExpandTable(r))),
                          rows |-> rows]>>)
             /\ UNCHANGED <<traces, pending>>
          \/ /\ Plan(r) = "correlate_expand"
             /\ TraceIds(rows) # {}
             /\ traces' = [traces EXCEPT ![r] = TraceIds(rows)]
             /\ pending' = [pending EXCEPT ![r] = Last(sql[r].wraps).signals]
             /\ GoTo(r, "correlate")
             /\ UNCHANGED <<results, status>>
          \/ /\ Plan(r) = "correlate_expand"
             /\ TraceIds(rows) = {}
             /\ Answer(r, "ok", <<>>)
             /\ UNCHANGED <<traces, pending>>
    /\ UNCHANGED <<db, request, translation, history>>

RefuseExpand(r) ==
    /\ At(r, "expand")
    /\ ~FollowUpExecutable(ExpandTable(r))
    /\ Fail(r)
    /\ UNCHANGED <<db, request, translation, traces, pending, history>>

\* Step 1 of executeCorrelateQuery over a plain base, whose rows open the answer.
RunCorrelateBase(r) ==
    /\ At(r, "base")
    /\ Plan(r) = "correlate"
    /\ BaseMayRun(r)
    /\ "trace_id" \in OutputColumns(sql[r].stmt)
    /\ \E rows \in Returned(sql[r].stmt, db) :
          /\ base' = [base EXCEPT ![r] = rows]
          /\ traces' = [traces EXCEPT ![r] = TraceIds(rows)]
          /\ \/ /\ TraceIds(rows) = {}
                /\ Answer(r, "ok", <<>>)
                /\ UNCHANGED pending
             \/ /\ TraceIds(rows) # {}
                /\ results' = [results EXCEPT ![r] =
                      <<[table |-> sql[r].stmt.table,
                         columns |-> FilterTenantID(r, OutputColumns(sql[r].stmt)),
                         rows |-> rows]>>]
                /\ pending' = [pending EXCEPT ![r] = Last(sql[r].wraps).signals]
                /\ GoTo(r, "correlate")
                /\ UNCHANGED status
    /\ seen' = [seen EXCEPT ![r] = db]
    /\ UNCHANGED <<db, request, translation, lost, faulted>>

SignalTable(r) == GetTableName(Head(pending[r]))

\* A signal that lives in the table of the base is skipped.
SkipSignal(r) ==
    /\ At(r, "correlate")
    /\ pending[r] # <<>>
    /\ SignalTable(r) = CurrentTable(r)
    /\ pending' = [pending EXCEPT ![r] = Tail(@)]
    /\ UNCHANGED <<db, pc, request, translation, traces, results, status, history>>

CorrelateSignal(r) ==
    /\ At(r, "correlate")
    /\ pending[r] # <<>>
    /\ SignalTable(r) # CurrentTable(r)
    /\ FollowUpExecutable(SignalTable(r))
    /\ results' = [results EXCEPT ![r] =
          Append(@, [table |-> SignalTable(r),
                     columns |-> FilterTenantID(r, Columns(SignalTable(r))),
                     rows |-> FollowUp(SignalTable(r), TenantOf[r], traces[r])])]
    /\ pending' = [pending EXCEPT ![r] = Tail(@)]
    /\ UNCHANGED <<db, pc, request, translation, traces, status, history>>

\* mutant: the loop ends at the first failure (break instead of continue)
BreakOnLostSignal(r) ==
    /\ lost' = [lost EXCEPT ![r] = @ \cup {Head(pending[r])}]
    /\ pending' = [pending EXCEPT ![r] = <<>>]

\* mutant: the failed signal is tried again, without end
RetryLostSignal(r) ==
    /\ lost' = [lost EXCEPT ![r] = @ \cup {Head(pending[r])}]
    /\ UNCHANGED pending

\* continue: the signal is passed over and the answer does not say so.
PassOverSignal(r) ==
    /\ lost' = [lost EXCEPT ![r] = @ \cup {Head(pending[r])}]
    /\ pending' = [pending EXCEPT ![r] = Tail(@)]

\* The table has no trace_id column, so ClickHouse refuses the statement.
RefuseSignal(r) ==
    /\ At(r, "correlate")
    /\ pending[r] # <<>>
    /\ SignalTable(r) # CurrentTable(r)
    /\ ~FollowUpExecutable(SignalTable(r))
    /\ PassOverSignal(r)
    /\ UNCHANGED <<db, pc, request, translation, traces, results, status,
                   seen, base, faulted>>

FinishCorrelate(r) ==
    /\ At(r, "correlate")
    /\ pending[r] = <<>>
    /\ Answer(r, "ok", results[r])
    /\ UNCHANGED <<db, request, translation, traces, pending, history>>

-----------------------------------------------------------------------------
(* ClickHouse does not answer a statement: refused connection, timeout. *)

OutageFatal(r) ==
    /\ pc[r] \in {"base", "expand"}
    /\ Fail(r)
    /\ faulted' = faulted \cup {r}
    /\ UNCHANGED <<db, request, translation, traces, pending, seen, base, lost>>

OutageOfSignal(r) ==
    /\ At(r, "correlate")
    /\ pending[r] # <<>>
    /\ SignalTable(r) # CurrentTable(r)
    /\ PassOverSignal(r)
    /\ faulted' = faulted \cup {r}
    /\ UNCHANGED <<db, pc, request, translation, traces, results, status, seen, base>>

\* Ingestion stores a batch, at any moment.
Insert(batch) ==
    /\ db' = db \cup batch
    /\ UNCHANGED <<pc, request, translation, execution, status, history>>

-----------------------------------------------------------------------------

Handle(r) ==
    \/ TranslateNext(r)
    \/ RejectNext(r)
    \/ FinishTranslation(r)
    \/ RefuseBase(r)
    \/ RunPlain(r)
    \/ BaseWithoutTraceColumn(r)
    \/ RunExpandBase(r)
    \/ RunExpand(r)
    \/ RefuseExpand(r)
    \/ RunCorrelateBase(r)
    \/ SkipSignal(r)
    \/ CorrelateSignal(r)
    \/ RefuseSignal(r)
    \/ FinishCorrelate(r)
    \/ OutageFatal(r)
    \/ OutageOfSignal(r)

Next ==
    \/ \E r \in Requests : Ask(r) \/ Handle(r)
    \/ \E batch \in Batches : Insert(batch)

Spec == Init /\ [][Next]_vars

\* The goroutine of a request runs on, and each of its ClickHouse calls ends
\* within the timeout of the HTTP client, one way or the other.
FairSpec == Spec /\ \A r \in Requests : WF_vars(Handle(r))
-----------------------------------------------------------------------------
(***************************************************************************)
(* Properties.                                                             *)
(***************************************************************************)

\* Every variable holds what the handler can put there: in particular the
\* empty trace id is never collected.
TypeOK ==
    /\ db \subseteq Rows
    /\ pc \in [Requests -> Phases]
    /\ via \in [Requests -> {"api", "mcp"}]
    /\ query \in [Requests -> Queries \cup {NoQuery}]
    /\ todo \in [Requests -> Seq(Operation)]
    /\ sql \in [Requests -> Translation]
    /\ traces \in [Requests -> SUBSET Traces]
    /\ pending \in [Requests -> Seq(Signals)]
    /\ results \in [Requests -> Seq(Result)]
    /\ status \in [Requests -> {"none", "ok", "error"}]
    /\ seen \in [Requests -> SUBSET Rows]
    /\ base \in [Requests -> SUBSET Rows]
    /\ lost \in [Requests -> SUBSET Signals]
    /\ faulted \subseteq Requests

\* The sorts of a query name columns.  Of another text the translator knows
\* nothing, and nothing is promised for a query that sorts by one.
NamesColumns(op) == op.kind = "sort" => op.fields \subseteq ColumnNames

SortsByColumns(q) == \A i \in DOMAIN q.ops : NamesColumns(q.ops[i])

\* Tenant isolation, for queries that sort by columns, or not at all.  Whatever
\* else is in the pipeline, however many statements it takes and whatever
\* arrives between them, a request is shown rows of its own tenant alone, and
\* the query API does not show the tenant column.  Trace ids do not help: two
\* tenants may use the same one.
OwnRowsOnly(r) ==
    \A i \in DOMAIN results[r] : \A row \in results[r][i].rows : row.tenant = TenantOf[r]

TenantColumnHidden(r) ==
    via[r] = "api" => \A i \in DOMAIN results[r] : "tenant_id" \notin results[r][i].columns

TenantIsolation ==
    \A r \in Requests : SortsByColumns(query[r]) => OwnRowsOnly(r) /\ TenantColumnHidden(r)

-----------------------------------------------------------------------------
(* What a query asks for, read off its operations and not off the          *)
(* translation.                                                            *)

KindsOf(q, kinds) == {i \in DOMAIN q.ops : q.ops[i].kind \in kinds}

LastSwitch(q) == Max({0} \cup KindsOf(q, {"switch_context"}))

\* The operations of the base: after the last switch, before the first marker.
InBase(q, i) ==
    /\ i > LastSwitch(q)
    /\ \A j \in KindsOf(q, {"expand", "correlate"}) : j < LastSwitch(q) \/ i < j

AskedSignal(q) ==
    IF LastSwitch(q) = 0 THEN q.signal ELSE q.ops[LastSwitch(q)].signal

Selected(q, tenant, rows) ==
    {row \in rows :
        /\ row.table = GetTableName(AskedSignal(q))
        /\ row.tenant = tenant
        /\ LastSwitch(q) = 0 /\ q.signal = "traces" => row.root
        /\ \A i \in KindsOf(q, ConditionKinds) :
              InBase(q, i) => row.mark \in q.ops[i].cond.marks}

TracesOf(rows) == {row.trace : row \in rows} \cap Traces

Answered(r) == pc[r] = "done" /\ status[r] = "ok"

\* The rows a request that sorts by columns starts from satisfy every condition
\* of its base, and without a limit they are all of them: no operation that
\* rewrites the text loses a condition, keeps one of the signal it left, or
\* adds one.
ConditionsHonoured ==
    \A r \in Requests :
        SortsByColumns(query[r]) =>
        LET asked == Selected(query[r], TenantOf[r], seen[r]) IN
        /\ base[r] \subseteq asked
        /\ Answered(r) /\ KindsOf(query[r], {"limit"}) = {} => base[r] = asked

\* An expand is answered from two moments.  The answer holds every row of the
\* base's traces that was stored when the base ran, and only rows of those
\* traces that are stored by now.
ExpandComplete ==
    \A r \in Requests :
        Answered(r) /\ Plan(r) = "expand" =>
            LET OfTheTraces(rows) ==
                    {row \in rows : /\ row.table = ExpandTable(r)
                                    /\ row.tenant = TenantOf[r]
                                    /\ row.trace \in TracesOf(base[r])}
            IN  /\ OfTheTraces(seen[r]) \subseteq results[r][1].rows
                /\ results[r][1].rows \subseteq OfTheTraces(db)

\* What a correlate adds to its base belongs to the traces of the base: a row
\* outside any trace correlates with nothing.
CorrelatedByTrace ==
    \A r \in Requests :
        Plan(r) \in {"correlate", "correlate_expand"} =>
            \A i \in DOMAIN results[r] :
                \/ i = 1 /\ results[r][1].rows = base[r]
                \/ \A row \in results[r][i].rows : row.trace \in TracesOf(base[r])

\* A successful correlate answers for every signal it was asked for, unless
\* the signal lives in the table of the base or its own query failed; and for
\* those it misses nothing that was stored when the base ran.
CorrelateComplete ==
    \A r \in Requests :
        Answered(r) /\ Plan(r) = "correlate" /\ TracesOf(base[r]) # {} =>
            \A i \in DOMAIN Last(sql[r].wraps).signals :
                LET signal == Last(sql[r].wraps).signals[i]
                    table == GetTableName(signal)
                IN  \/ table = CurrentTable(r)
                    \/ signal \in lost[r]
                    \/ \E k \in DOMAIN results[r] :
                          /\ results[r][k].table = table
                          /\ {row \in seen[r] : /\ row.table = table
                                               /\ row.tenant = TenantOf[r]
                                               /\ row.trace \in TracesOf(base[r])}
                                \subseteq results[r][k].rows

\* The pipelines the server can run: conditions, then at most one sort, then
\* at most one limit, then nothing, an expand, a correlate, or both in this
\* order.  A limit that ends the pipeline of an event signal needs a sort, or
\* the default ordering would follow it.  Metrics have no trace id, so
\* nothing follows them.
StageOf == [kind \in {"sort", "limit", "expand", "correlate"} |->
               CASE kind = "sort" -> 1 [] kind = "limit" -> 2
                 [] kind = "expand" -> 3 [] OTHER -> 4]

\* An operation reads columns of its table, and an expand is one of traces.
Legible(op, table) ==
    /\ op.kind \in ConditionKinds => op.cond.reads \subseteq Columns(table)
    /\ op.kind = "sort" => op.fields \subseteq Columns(table)
    /\ op.kind = "expand" => op.type = "trace"

Supported(q) ==
    /\ \A i \in DOMAIN q.ops :
          /\ q.ops[i].kind \in ConditionKinds \cup DOMAIN StageOf
          /\ Legible(q.ops[i], GetTableName(q.signal))
    /\ \A i, j \in DOMAIN q.ops :
          i < j => \/ q.ops[i].kind \in ConditionKinds
                   \/ /\ q.ops[j].kind \notin ConditionKinds
                      /\ StageOf[q.ops[i].kind] < StageOf[q.ops[j].kind]
    /\ LET markers == KindsOf(q, {"expand", "correlate"}) IN
          /\ q.signal = "metrics" => markers = {}
          /\ \/ markers # {}
             \/ q.signal = "metrics"
             \/ KindsOf(q, {"limit"}) = {}
             \/ KindsOf(q, {"sort"}) # {}

\* Over the query API such a pipeline is refused only when ClickHouse fails,
\* or when a correlate follows an expand that found no trace.
SupportedAnswered ==
    \A r \in Requests :
        /\ pc[r] = "done" /\ via[r] = "api" /\ r \notin faulted
        /\ Supported(query[r])
        /\ Plan(r) = "correlate_expand" => TracesOf(base[r]) # {}
        => status[r] = "ok"

\* A request that was asked is answered, whatever ClickHouse does.
EveryRequestAnswered ==
    \A r \in Requests : pc[r] = "translate" ~> pc[r] = "done"
-----------------------------------------------------------------------------
(* The promise (TenantQueries) that the query path keeps. *)

PhaseOf(r) == CASE pc[r] = "idle" -> "new" [] pc[r] = "done" -> "closed" [] OTHER -> "open"

AnswerOf(r) ==
    IF pc[r] = "done" THEN UNION {results[r][i].rows : i \in DOMAIN results[r]} ELSE {}

Promise == INSTANCE TenantQueries
    WITH phase <- [r \in Requests |-> PhaseOf(r)],
         plain <- [r \in Requests |-> SortsByColumns(query[r])],
         answer <- [r \in Requests |-> AnswerOf(r)]

\* However many statements a request takes, its caller sees one answer, given
\* in one step; and unless the request sorts by free text, the answer is of
\* rows of its tenant, all of them stored at that step.
KeepsPromise == Promise!Spec

-----------------------------------------------------------------------------
(* Claims of the documentation, each checked over the pipelines it is made   *)
(* about.                                                                    *)

\* README.md, SPEC.md, docs/query-languages/OQL_REFERENCE.md: a pipeline shown
\* there is answered by the query API while ClickHouse answers.
ApiAnswersDocumented ==
    \A r \in Requests :
        pc[r] = "done" /\ via[r] = "api" /\ r \notin faulted => status[r] = "ok"

\* pkg/mcp/server.go, the description of the oql_query tool: the pipelines it
\* lists are answered by the tool while ClickHouse answers.
McpAnswersDocumented ==
    \A r \in Requests :
        pc[r] = "done" /\ via[r] = "mcp" /\ r \notin faulted => status[r] = "ok"
=============================================================================
