---------------------------- MODULE OqlTranslator ----------------------------
(***************************************************************************)
(* pkg/translator/translator.go: how an OQL pipeline becomes the text that *)
(* is sent to ClickHouse.                                                  *)
(*                                                                         *)
(* TranslateQuery folds the operations of a query over ONE string.  The    *)
(* string starts as a SELECT of the signal's table; an operation appends   *)
(* text at its end, replaces its first "SELECT *", wraps it between the    *)
(* __EXPAND_TRACE__ or __CORRELATE__ markers, or starts it afresh.  The    *)
(* string is modelled by what a reader of it can tell apart:               *)
(*   stmt   the innermost SELECT: table, tenant, select list and the       *)
(*          clauses that follow its WHERE, in the order they were appended *)
(*   wraps  the marker pairs around it, innermost first, each with the     *)
(*          text that follows its end marker (tail)                        *)
(* A condition is the set of columns it reads and the set of marks (the    *)
(* attribute values of a row) that satisfy it.                             *)
(***************************************************************************)
EXTENDS Naturals, Sequences, FiniteSets

CONSTANTS
    Tenants,   \* tenant ids
    Marks      \* what the conditions of a query tell apart in a row

Signals == {"spans", "traces", "logs", "metrics"}
Tables == {"otel_spans", "otel_logs", "otel_metrics"}

\* Where the text after an end marker leaves the executor's table name.
CorruptTable == "text after the end marker"

\* The columns of the three tables that an operation can depend on; the
\* attributes a condition tests are the column "mark".
Columns(table) ==
    CASE table = "otel_spans"   -> {"tenant_id", "trace_id", "timestamp", "mark"}
      [] table = "otel_logs"    -> {"tenant_id", "trace_id", "timestamp", "mark"}
      [] table = "otel_metrics" -> {"tenant_id", "exemplar_trace_id", "timestamp", "mark"}
      [] OTHER                  -> {}

ColumnNames == {"tenant_id", "trace_id", "exemplar_trace_id", "timestamp", "mark", "agg"}

\* A sort may be by any text: parseSort takes whatever stands between two
\* commas, and the text reaches the statement as it is, where group by, extract
\* and every alias are validated first.
NoColumn == "text that names no column"
SortText == ColumnNames \cup {NoColumn}

GetTableName(signal) ==
    CASE signal = "metrics" -> "otel_metrics"
      [] signal = "logs"    -> "otel_logs"
      [] OTHER              -> "otel_spans"

-----------------------------------------------------------------------------
(* The operations of a query (pkg/oql/ast.go). *)

Condition == [reads : SUBSET ColumnNames, marks : SUBSET Marks]

ConditionKinds == {"where", "filter", "since", "between"}

Operation ==
         [kind : ConditionKinds, cond : Condition]
    \cup [kind : {"limit"}, count : Nat]
    \cup [kind : {"sort"}, fields : SUBSET SortText]
    \cup [kind : {"expand"}, type : {"trace", "other"}]
    \cup [kind : {"correlate"}, signals : Seq(Signals)]
    \cup [kind : {"get_exemplars"}]
    \cup [kind : {"switch_context"}, signal : Signals]
    \cup [kind : {"extract"}, field : ColumnNames \cup {"exemplar.trace_id"},
          alias : ColumnNames]
    \cup [kind : {"group"}, fields : SUBSET ColumnNames]
    \cup [kind : {"aggregate"}, reads : SUBSET ColumnNames]

Query == [signal : Signals, ops : Seq(Operation)]

-----------------------------------------------------------------------------
(* The translated text. *)

Star == [kind |-> "star", columns |-> {}, reads |-> {}]

SelectList == [kind : {"star", "exemplars", "extract", "aggregate"},
               columns : SUBSET ColumnNames, reads : SUBSET ColumnNames]

Clause == [kind : {"and", "group", "order", "limit"},
           reads : SUBSET SortText, marks : SUBSET Marks, count : Nat]

And(cond) == [kind |-> "and", reads |-> cond.reads, marks |-> cond.marks, count |-> 0]
GroupBy(fields) == [kind |-> "group", reads |-> fields, marks |-> Marks, count |-> 0]
OrderBy(fields) == [kind |-> "order", reads |-> fields, marks |-> Marks, count |-> 0]
Limit(n) == [kind |-> "limit", reads |-> {}, marks |-> Marks, count |-> n]

Statement == [table : Tables, tenant : Tenants, rootOnly : BOOLEAN,
              select : SelectList, clauses : Seq(Clause)]

Wrap == [kind : {"expand", "correlate"}, table : Tables,
         signals : Seq(Signals), tail : Seq(Clause)]

\* The locals of one call of TranslateQuery.
Translation == [stmt : Statement, wraps : Seq(Wrap), table : Tables,
                sorted : BOOLEAN, groupBy : SUBSET ColumnNames]

BaseStatement(signal, tenant, rootOnly) ==
    [table |-> GetTableName(signal), tenant |-> tenant, rootOnly |-> rootOnly,
     select |-> Star, clauses |-> <<>>]

StartTranslation(signal, tenant) ==
    [stmt |-> BaseStatement(signal, tenant, signal = "traces"), wraps |-> <<>>,
     table |-> GetTableName(signal), sorted |-> FALSE, groupBy |-> {}]

\* sql += text
AppendClause(t, clause) ==
    IF t.wraps = <<>>
    THEN [t EXCEPT !.stmt.clauses = Append(@, clause)]
    ELSE [t EXCEPT !.wraps[Len(t.wraps)].tail = Append(@, clause)]

\* strings.Replace(sql, "SELECT *", ..., 1)
ReplaceStar(t, select) ==
    IF t.stmt.select.kind = "star" THEN [t EXCEPT !.stmt.select = select] ELSE t

\* A marker pair is put around the text, with the table of the FIRST signal.
WrapText(t, kind, signals) ==
    [t EXCEPT !.wraps = Append(@, [kind |-> kind, table |-> t.table,
                                   signals |-> signals, tail |-> <<>>])]

TranslateGetExemplars(t) ==
    AppendClause(
        ReplaceStar(t, [kind |-> "exemplars", columns |-> {"exemplar_trace_id"},
                        reads |-> {"exemplar_trace_id"}]),
        And([reads |-> {"exemplar_trace_id"}, marks |-> Marks]))

TranslateAggregate(t, reads) ==
    LET selected == ReplaceStar(t, [kind |-> "aggregate",
                                    columns |-> t.groupBy \cup {"agg"},
                                    reads |-> t.groupBy \cup reads])
    IN  IF t.groupBy = {} THEN selected ELSE AppendClause(selected, GroupBy(t.groupBy))

\* What makes TranslateQuery return an error: an expand of something else than
\* a trace, a field with a dot that is not an attribute.
Rejected(op) ==
    \/ op.kind = "expand" /\ op.type # "trace"
    \/ op.kind = "extract" /\ op.field = "exemplar.trace_id"

\* mutant: switch_context keeps the clauses of the signal it leaves
SwitchContextKeepingClauses(t, signal) ==
    [t EXCEPT !.stmt = [BaseStatement(signal, t.stmt.tenant, FALSE)
                        EXCEPT !.clauses = t.stmt.clauses],
              !.wraps = <<>>]

\* sql = "SELECT * FROM newTable ...": the table local, the sort flag and the
\* group-by fields stay those of the first signal.
SwitchContext(t, signal) ==
    [t EXCEPT !.stmt = BaseStatement(signal, t.stmt.tenant, FALSE), !.wraps = <<>>]

\* One iteration of the loop over query.Operations.
TranslateOp(t, op) ==
    CASE op.kind \in ConditionKinds -> AppendClause(t, And(op.cond))
      [] op.kind = "limit"          -> AppendClause(t, Limit(op.count))
      [] op.kind = "sort"           -> [AppendClause(t, OrderBy(op.fields))
                                        EXCEPT !.sorted = TRUE]
      [] op.kind = "expand"         -> WrapText(t, "expand", <<>>)
      [] op.kind = "correlate"      -> WrapText(t, "correlate", op.signals)
      [] op.kind = "get_exemplars"  -> TranslateGetExemplars(t)
      [] op.kind = "switch_context" -> SwitchContext(t, op.signal)
      [] op.kind = "extract"        -> ReplaceStar(t, [kind |-> "extract",
                                                       columns |-> {op.alias},
                                                       reads |-> {op.field}])
      [] op.kind = "group"          -> [t EXCEPT !.groupBy = op.fields]
      [] op.kind = "aggregate"      -> TranslateAggregate(t, op.reads)
      [] OTHER                      -> t

\* mutant: the text between markers is ordered too
DefaultOrderAlways(t, signal) ==
    IF ~t.sorted /\ signal # "metrics" THEN AppendClause(t, OrderBy({"timestamp"})) ELSE t

\* After the loop: the default ordering of the event signals.  It is decided
\* by the signal the query STARTED with.
DefaultOrder(t, signal) ==
    IF ~t.sorted /\ t.wraps = <<>> /\ signal # "metrics"
    THEN AppendClause(t, OrderBy({"timestamp"})) ELSE t

-----------------------------------------------------------------------------
(* ClickHouse (external): which statements it accepts. *)

ClauseRank == [and |-> 1, group |-> 2, order |-> 3, limit |-> 4]

\* WHERE ... AND ..., then at most one GROUP BY, one ORDER BY, one LIMIT.
WellOrdered(clauses) ==
    \A i, j \in DOMAIN clauses :
        i < j => \/ ClauseRank[clauses[i].kind] < ClauseRank[clauses[j].kind]
                 \/ clauses[i].kind = "and" /\ clauses[j].kind = "and"

\* Every column read exists in the table or is a name the select list gives.
ColumnsKnown(stmt) ==
    /\ stmt.select.reads \subseteq Columns(stmt.table)
    /\ \A i \in DOMAIN stmt.clauses :
          stmt.clauses[i].reads \subseteq Columns(stmt.table) \cup stmt.select.columns

\* An aggregated statement orders by what it returns; only an aggregated
\* statement may group.
GroupingLegal(stmt) ==
    \A i \in DOMAIN stmt.clauses :
        /\ stmt.clauses[i].kind = "group" => stmt.select.kind = "aggregate"
        /\ stmt.clauses[i].kind = "order" /\ stmt.select.kind = "aggregate"
              => stmt.clauses[i].reads \subseteq stmt.select.columns

Executable(stmt) ==
    WellOrdered(stmt.clauses) /\ ColumnsKnown(stmt) /\ GroupingLegal(stmt)

\* An ORDER BY of other text than names: whether ClickHouse accepts the
\* statement, and what it then selects, is up to that text.
FreeText(stmt) == \E i \in DOMAIN stmt.clauses : NoColumn \in stmt.clauses[i].reads

OutputColumns(stmt) ==
    IF stmt.select.kind = "star" THEN Columns(stmt.table) ELSE stmt.select.columns
=============================================================================
