-------------------------- MODULE QueryServerProofs --------------------------
(***************************************************************************)
(* What one iteration of TranslateQuery preserves; that QueryServer keeps  *)
(* its types and its tenants apart; and what a pipeline answers: the base  *)
(* honours its conditions, an expand and a correlate bring the rows of the *)
(* traces of their base, all of those stored when the base ran, and a      *)
(* supported pipeline is answered.  For every set of requests, tenants,    *)
(* queries and rows.                                                       *)
(***************************************************************************)
EXTENDS QueryServer, FiniteSetTheorems, TLAPS

-----------------------------------------------------------------------------
(* The translation of an operation: the shape of the text, and the tenant    *)
(* of its statement.                                                         *)

\* An operation has the fields of its kind.
LEMMA OperationFields ==
    ASSUME NEW op \in Operation
    PROVE  /\ op.kind \in ConditionKinds => op.cond \in Condition
           /\ op.kind = "limit" => op.count \in Nat
           /\ op.kind = "sort" => op.fields \subseteq SortText
           /\ op.kind = "correlate" => op.signals \in Seq(Signals)
           /\ op.kind = "switch_context" => op.signal \in Signals
           /\ op.kind = "extract" /\ ~Rejected(op) => op.field \in ColumnNames
           /\ op.kind = "extract" => op.alias \in ColumnNames
           /\ op.kind = "group" => op.fields \subseteq ColumnNames
           /\ op.kind = "aggregate" => op.reads \subseteq ColumnNames
  BY DEF Operation, ConditionKinds, Rejected

\* The clauses the operations append are clauses.
LEMMA ClauseTypes ==
    /\ \A cond \in Condition : And(cond) \in Clause
    /\ \A fields \in SUBSET ColumnNames : GroupBy(fields) \in Clause
    /\ \A fields \in SUBSET SortText : OrderBy(fields) \in Clause
    /\ \A n \in Nat : Limit(n) \in Clause
  BY DEF Condition, And, GroupBy, OrderBy, Limit, Clause, SortText

LEMMA TableNames == \A signal : GetTableName(signal) \in Tables
  BY DEF GetTableName, Tables

\* Appending at the end of the text keeps its shape, and the statement's tenant.
LEMMA AppendClauseType ==
    ASSUME NEW t \in Translation, NEW clause \in Clause
    PROVE  /\ AppendClause(t, clause) \in Translation
           /\ AppendClause(t, clause).stmt.tenant = t.stmt.tenant
<1>1. CASE t.wraps = <<>>
  <2> DEFINE clauses == Append(t.stmt.clauses, clause)
             stmt == [t.stmt EXCEPT !.clauses = clauses]
  <2>1. t.stmt \in Statement
    BY DEF Translation
  <2>2. clauses \in Seq(Clause)
    BY <2>1 DEF Statement
  <2>3. stmt \in Statement /\ stmt.tenant = t.stmt.tenant
    BY <2>1, <2>2 DEF Statement
  <2>4. AppendClause(t, clause) = [t EXCEPT !.stmt = stmt]
    BY <1>1 DEF AppendClause
  <2> QED BY <2>3, <2>4 DEF Translation
<1>2. CASE t.wraps # <<>>
  <2> DEFINE last == Len(t.wraps)
             tail == Append(t.wraps[last].tail, clause)
             wrap == [t.wraps[last] EXCEPT !.tail = tail]
             wraps == [t.wraps EXCEPT ![last] = wrap]
  <2>1. t.wraps \in Seq(Wrap) /\ last \in 1 .. Len(t.wraps)
    BY <1>2 DEF Translation
  <2>2. t.wraps[last] \in Wrap
    BY <2>1
  <2>3. tail \in Seq(Clause)
    BY <2>2 DEF Wrap
  <2>4. wrap \in Wrap
    BY <2>2, <2>3 DEF Wrap
  <2>5. wraps \in Seq(Wrap)
    BY <2>1, <2>4
  <2>6. AppendClause(t, clause) = [t EXCEPT !.wraps = wraps]
    BY <1>2 DEF AppendClause
  <2> QED BY <2>5, <2>6 DEF Translation
<1> QED BY <1>1, <1>2

LEMMA ReplaceStarType ==
    ASSUME NEW t \in Translation, NEW select \in SelectList
    PROVE  /\ ReplaceStar(t, select) \in Translation
           /\ ReplaceStar(t, select).stmt.tenant = t.stmt.tenant
           /\ ReplaceStar(t, select).groupBy = t.groupBy
  BY DEF ReplaceStar, Translation, Statement

LEMMA WrapTextType ==
    ASSUME NEW t \in Translation, NEW kind \in {"expand", "correlate"},
           NEW signals \in Seq(Signals)
    PROVE  /\ WrapText(t, kind, signals) \in Translation
           /\ WrapText(t, kind, signals).stmt.tenant = t.stmt.tenant
<1> DEFINE wrap == [kind |-> kind, table |-> t.table, signals |-> signals, tail |-> <<>>]
<1>1. wrap \in Wrap
  BY DEF Wrap, Translation
<1>2. Append(t.wraps, wrap) \in Seq(Wrap)
  BY <1>1 DEF Translation
<1> QED BY <1>2 DEF WrapText, Translation

LEMMA BaseStatementType ==
    ASSUME NEW signal, NEW tenant \in Tenants, NEW rootOnly \in BOOLEAN
    PROVE  /\ BaseStatement(signal, tenant, rootOnly) \in Statement
           /\ BaseStatement(signal, tenant, rootOnly).tenant = tenant
  BY TableNames DEF BaseStatement, Statement, Star, SelectList

\* A translation starts well formed, scoped to the tenant it is given.
LEMMA StartTranslationType ==
    ASSUME NEW signal \in Signals, NEW tenant \in Tenants
    PROVE  /\ StartTranslation(signal, tenant) \in Translation
           /\ StartTranslation(signal, tenant).stmt.tenant = tenant
<1> DEFINE stmt == BaseStatement(signal, tenant, signal = "traces")
<1>1. stmt \in Statement /\ stmt.tenant = tenant
  <2>1. (signal = "traces") \in BOOLEAN
    OBVIOUS
  <2> QED BY <2>1, BaseStatementType
<1>2. <<>> \in Seq(Wrap) /\ GetTableName(signal) \in Tables
  BY TableNames
<1> HIDE DEF stmt
<1>3. StartTranslation(signal, tenant) =
         [stmt |-> stmt, wraps |-> <<>>, table |-> GetTableName(signal),
          sorted |-> FALSE, groupBy |-> {}]
  BY DEF StartTranslation, stmt
<1> QED BY <1>1, <1>2, <1>3 DEF Translation

\* No operation changes the tenant of the statement, or spoils the text.
LEMMA TranslateOpType ==
    ASSUME NEW t \in Translation, NEW op \in Operation, ~Rejected(op)
    PROVE  /\ TranslateOp(t, op) \in Translation
           /\ TranslateOp(t, op).stmt.tenant = t.stmt.tenant
<1> USE OperationFields
<1>1. CASE op.kind \in ConditionKinds
  <2>1. TranslateOp(t, op) = AppendClause(t, And(op.cond))
    BY <1>1 DEF TranslateOp, ConditionKinds
  <2> QED BY <1>1, <2>1, AppendClauseType, ClauseTypes
<1>2. CASE op.kind = "limit"
  <2>1. TranslateOp(t, op) = AppendClause(t, Limit(op.count))
    BY <1>2 DEF TranslateOp, ConditionKinds
  <2> QED BY <1>2, <2>1, AppendClauseType, ClauseTypes
<1>3. CASE op.kind = "sort"
  <2>1. TranslateOp(t, op) = [AppendClause(t, OrderBy(op.fields)) EXCEPT !.sorted = TRUE]
    BY <1>3 DEF TranslateOp, ConditionKinds
  <2>2. /\ AppendClause(t, OrderBy(op.fields)) \in Translation
        /\ AppendClause(t, OrderBy(op.fields)).stmt.tenant = t.stmt.tenant
    BY <1>3, AppendClauseType, ClauseTypes
  <2> QED BY <2>1, <2>2 DEF Translation
<1>4. CASE op.kind = "expand"
  <2>1. TranslateOp(t, op) = WrapText(t, "expand", <<>>)
    BY <1>4 DEF TranslateOp, ConditionKinds
  <2>2. <<>> \in Seq(Signals)
    OBVIOUS
  <2> QED BY <2>1, <2>2, WrapTextType
<1>5. CASE op.kind = "correlate"
  <2>1. TranslateOp(t, op) = WrapText(t, "correlate", op.signals)
    BY <1>5 DEF TranslateOp, ConditionKinds
  <2> QED BY <1>5, <2>1, WrapTextType
<1>6. CASE op.kind = "get_exemplars"
  <2> DEFINE select == [kind |-> "exemplars", columns |-> {"exemplar_trace_id"},
                        reads |-> {"exemplar_trace_id"}]
             cond == [reads |-> {"exemplar_trace_id"}, marks |-> Marks]
  <2>1. TranslateOp(t, op) = AppendClause(ReplaceStar(t, select), And(cond))
    BY <1>6 DEF TranslateOp, ConditionKinds, TranslateGetExemplars
  <2>2. select \in SelectList /\ cond \in Condition
    BY DEF SelectList, Condition, ColumnNames
  <2>3. /\ ReplaceStar(t, select) \in Translation
        /\ ReplaceStar(t, select).stmt.tenant = t.stmt.tenant
    BY <2>2, ReplaceStarType
  <2> QED BY <2>1, <2>2, <2>3, AppendClauseType, ClauseTypes
<1>7. CASE op.kind = "switch_context"
  <2>1. TranslateOp(t, op) = SwitchContext(t, op.signal)
    BY <1>7 DEF TranslateOp, ConditionKinds
  <2>2. /\ BaseStatement(op.signal, t.stmt.tenant, FALSE) \in Statement
        /\ BaseStatement(op.signal, t.stmt.tenant, FALSE).tenant = t.stmt.tenant
    BY BaseStatementType DEF Translation, Statement
  <2>3. <<>> \in Seq(Wrap)
    OBVIOUS
  <2>4. SwitchContext(t, op.signal) =
           [t EXCEPT !.stmt = BaseStatement(op.signal, t.stmt.tenant, FALSE), !.wraps = <<>>]
    BY DEF SwitchContext
  <2> QED BY <2>1, <2>2, <2>3, <2>4 DEF Translation
<1>8. CASE op.kind = "extract"
  <2> DEFINE select == [kind |-> "extract", columns |-> {op.alias}, reads |-> {op.field}]
  <2>1. TranslateOp(t, op) = ReplaceStar(t, select)
    BY <1>8 DEF TranslateOp, ConditionKinds
  <2>2. select \in SelectList
    BY <1>8 DEF SelectList
  <2> QED BY <2>1, <2>2, ReplaceStarType
<1>9. CASE op.kind = "group"
  <2>1. TranslateOp(t, op) = [t EXCEPT !.groupBy = op.fields]
    BY <1>9 DEF TranslateOp, ConditionKinds
  <2> QED BY <1>9, <2>1 DEF Translation
<1>10. CASE op.kind = "aggregate"
  <2> DEFINE select == [kind |-> "aggregate", columns |-> t.groupBy \cup {"agg"},
                        reads |-> t.groupBy \cup op.reads]
  <2>1. TranslateOp(t, op) = TranslateAggregate(t, op.reads)
    BY <1>10 DEF TranslateOp, ConditionKinds
  <2>2. t.groupBy \subseteq ColumnNames
    BY DEF Translation
  <2>3. select \in SelectList
    BY <1>10, <2>2 DEF SelectList, ColumnNames
  <2>4. /\ ReplaceStar(t, select) \in Translation
        /\ ReplaceStar(t, select).stmt.tenant = t.stmt.tenant
    BY <2>3, ReplaceStarType
  <2>5. GroupBy(t.groupBy) \in Clause
    BY <2>2, ClauseTypes
  <2> HIDE DEF select
  <2>6. TranslateAggregate(t, op.reads) \in {ReplaceStar(t, select),
                                 AppendClause(ReplaceStar(t, select), GroupBy(t.groupBy))}
    BY DEF TranslateAggregate, select
  <2> QED BY <2>1, <2>4, <2>5, <2>6, AppendClauseType
<1> QED
  BY <1>1, <1>2, <1>3, <1>4, <1>5, <1>6, <1>7, <1>8, <1>9, <1>10
  DEF Operation, ConditionKinds

LEMMA DefaultOrderType ==
    ASSUME NEW t \in Translation, NEW signal
    PROVE  /\ DefaultOrder(t, signal) \in Translation
           /\ DefaultOrder(t, signal).stmt.tenant = t.stmt.tenant
<1>1. OrderBy({"timestamp"}) \in Clause
  BY ClauseTypes DEF ColumnNames, SortText
<1> QED BY <1>1, AppendClauseType DEF DefaultOrder

-----------------------------------------------------------------------------
(* What the helpers return. *)

\* A statement without free text returns rows of its own tenant among those it
\* is run over.
LEMMA ReturnedRows ==
    ASSUME NEW stmt, NEW rows, NEW kept \in Returned(stmt, rows), ~FreeText(stmt)
    PROVE  kept \subseteq rows /\ \A row \in kept : row.tenant = stmt.tenant
  BY DEF Returned, Matching

\* Any statement returns rows.
LEMMA ReturnedType ==
    ASSUME NEW stmt, NEW stored \in SUBSET Rows, NEW kept \in Returned(stmt, stored)
    PROVE  kept \in SUBSET Rows
<1>1. CASE FreeText(stmt)
  BY <1>1, QueryServerAssumption DEF Returned
<1>2. CASE ~FreeText(stmt)
  BY <1>2, ReturnedRows
<1> QED BY <1>1, <1>2

LEMMA FollowUpRows ==
    ASSUME NEW table, NEW tenant, NEW ids
    PROVE  /\ FollowUp(table, tenant, ids) \subseteq db
           /\ \A row \in FollowUp(table, tenant, ids) : row.tenant = tenant
  BY DEF FollowUp

\* The empty trace id is never collected.
LEMMA TraceIdsType ==
    ASSUME NEW rows \in SUBSET Rows
    PROVE  TraceIds(rows) \subseteq Traces
  BY QueryServerAssumption DEF TraceIds, Row

LEMMA ColumnTypes ==
    /\ \A table : Columns(table) \subseteq ColumnNames
    /\ \A stmt \in Statement : OutputColumns(stmt) \subseteq ColumnNames
    /\ \A r, columns : FilterTenantID(r, columns) \subseteq columns
<1>1. \A table : Columns(table) \subseteq ColumnNames
  BY DEF Columns, ColumnNames
<1>2. \A stmt \in Statement : OutputColumns(stmt) \subseteq ColumnNames
  BY <1>1 DEF OutputColumns, Statement, SelectList
<1> QED BY <1>1, <1>2 DEF FilterTenantID

\* The executor names only tables of the schema in the statements it can run.
LEMMA ExecutableTable ==
    ASSUME NEW table, FollowUpExecutable(table)
    PROVE  table \in Tables
  BY DEF FollowUpExecutable, Columns, Tables

\* A plan other than "direct" has a marker to strip; the last one is a Wrap.
LEMMA MarkersOfPlan ==
    ASSUME NEW r \in Requests, TypeOK, Plan(r) # "direct"
    PROVE  Last(sql[r].wraps) \in Wrap
<1>1. sql[r].wraps # <<>>
  BY DEF Plan
<1>2. sql[r].wraps \in Seq(Wrap)
  BY DEF TypeOK, Translation
<1> QED BY <1>1, <1>2 DEF Last

\* A result set is well typed if its parts are.
LEMMA ResultType ==
    ASSUME NEW table \in Tables \cup {"none"}, NEW columns \in SUBSET ColumnNames,
           NEW rows \in SUBSET Rows
    PROVE  <<[table |-> table, columns |-> columns, rows |-> rows]>> \in Seq(Result)
<1>1. [table |-> table, columns |-> columns, rows |-> rows] \in Result
  BY DEF Result
<1> QED BY <1>1

-----------------------------------------------------------------------------
(* Type correctness. *)

LEMMA InitType == Init => TypeOK
<1> SUFFICES ASSUME Init PROVE TypeOK
  OBVIOUS
<1>1. \A r \in Requests : StartTranslation("spans", TenantOf[r]) \in Translation
  BY StartTranslationType, QueryServerAssumption DEF Signals
<1>2. \A S : <<>> \in Seq(S)
  OBVIOUS
<1> QED BY <1>1, <1>2 DEF Init, TypeOK, Phases

LEMMA AskType ==
    ASSUME TypeOK, NEW r \in Requests, Ask(r)
    PROVE  TypeOK'
<1>1. PICK q \in Queries, server \in {"api", "mcp"} :
          /\ via' = [via EXCEPT ![r] = server]
          /\ query' = [query EXCEPT ![r] = q]
          /\ todo' = [todo EXCEPT ![r] = q.ops]
          /\ sql' = [sql EXCEPT ![r] = StartTranslation(q.signal, TenantOf[r])]
  BY DEF Ask, Submit
<1>2. q.ops \in Seq(Operation) /\ q.signal \in Signals
  BY QueryServerAssumption DEF Query
<1>3. StartTranslation(q.signal, TenantOf[r]) \in Translation
  BY <1>2, StartTranslationType, QueryServerAssumption
<1> QED
  BY <1>1, <1>2, <1>3 DEF TypeOK, Ask, Submit, GoTo, Phases, execution, history

LEMMA TranslateNextType ==
    ASSUME TypeOK, NEW r \in Requests, TranslateNext(r)
    PROVE  TypeOK' /\ sql'[r].stmt.tenant = sql[r].stmt.tenant
<1>1. todo[r] \in Seq(Operation) /\ todo[r] # <<>>
  BY DEF TypeOK, TranslateNext
<1>2. Head(todo[r]) \in Operation /\ Tail(todo[r]) \in Seq(Operation)
  BY <1>1
<1>3. sql[r] \in Translation /\ ~Rejected(Head(todo[r]))
  BY DEF TypeOK, TranslateNext
<1>4. /\ TranslateOp(sql[r], Head(todo[r])) \in Translation
      /\ TranslateOp(sql[r], Head(todo[r])).stmt.tenant = sql[r].stmt.tenant
  BY <1>2, <1>3, TranslateOpType
<1>5. sql' = [sql EXCEPT ![r] = TranslateOp(sql[r], Head(todo[r]))]
  BY DEF TranslateNext
<1>6. todo' = [todo EXCEPT ![r] = Tail(todo[r])]
  BY DEF TranslateNext
<1> QED
  BY <1>2, <1>4, <1>5, <1>6 DEF TypeOK, TranslateNext, request, execution, history

LEMMA FinishTranslationType ==
    ASSUME TypeOK, NEW r \in Requests, FinishTranslation(r)
    PROVE  TypeOK' /\ sql'[r].stmt.tenant = sql[r].stmt.tenant
<1>1. sql[r] \in Translation
  BY DEF TypeOK
<1>2. /\ DefaultOrder(sql[r], query[r].signal) \in Translation
      /\ DefaultOrder(sql[r], query[r].signal).stmt.tenant = sql[r].stmt.tenant
  BY <1>1, DefaultOrderType
<1>3. sql' = [sql EXCEPT ![r] = DefaultOrder(sql[r], query[r].signal)]
  BY DEF FinishTranslation
<1> QED
  BY <1>2, <1>3 DEF TypeOK, FinishTranslation, GoTo, Phases, request, execution, history

\* An answer keeps the types of the variables it sets.
LEMMA AnswerType ==
    ASSUME TypeOK, NEW r \in Requests, NEW how \in {"ok", "error"},
           NEW sets \in Seq(Result), Answer(r, how, sets)
    PROVE  /\ pc' \in [Requests -> Phases]
           /\ status' \in [Requests -> {"none", "ok", "error"}]
           /\ results' \in [Requests -> Seq(Result)]
  BY DEF Answer, GoTo, TypeOK, Phases

LEMMA FailType ==
    ASSUME TypeOK, NEW r \in Requests, Fail(r)
    PROVE  /\ pc' \in [Requests -> Phases]
           /\ status' \in [Requests -> {"none", "ok", "error"}]
           /\ results' \in [Requests -> Seq(Result)]
<1>1. <<>> \in Seq(Result)
  OBVIOUS
<1> QED BY <1>1, AnswerType DEF Fail

\* The actions that only fail the request.
LEMMA RefusalsType ==
    ASSUME TypeOK, NEW r \in Requests,
           \/ RejectNext(r) \/ RefuseBase(r) \/ BaseWithoutTraceColumn(r)
           \/ RefuseExpand(r) \/ OutageFatal(r)
    PROVE  TypeOK'
<1>1. Fail(r)
  BY DEF RejectNext, RefuseBase, BaseWithoutTraceColumn, RefuseExpand, OutageFatal
<1>2. UNCHANGED <<db, via, query, todo, sql, traces, pending, seen, base, lost>>
  BY DEF RejectNext, RefuseBase, BaseWithoutTraceColumn, RefuseExpand, OutageFatal,
         request, translation, history
<1>3. faulted' \subseteq Requests
  BY DEF TypeOK, RejectNext, RefuseBase, BaseWithoutTraceColumn, RefuseExpand, OutageFatal,
         history
<1> QED BY <1>1, <1>2, <1>3, FailType DEF TypeOK

\* RunPlain, RunExpandBase and RunCorrelateBase record what the base returned.
LEMMA BaseRowsType ==
    ASSUME TypeOK, NEW r \in Requests, NEW rows \in Returned(sql[r].stmt, db),
           base' = [base EXCEPT ![r] = rows], seen' = [seen EXCEPT ![r] = db]
    PROVE  /\ rows \in SUBSET Rows
           /\ TraceIds(rows) \in SUBSET Traces
           /\ base' \in [Requests -> SUBSET Rows]
           /\ seen' \in [Requests -> SUBSET Rows]
<1>1. rows \in SUBSET Rows
  BY ReturnedType DEF TypeOK
<1> QED BY <1>1, TraceIdsType DEF TypeOK

\* The result set of the base.
LEMMA BaseResultType ==
    ASSUME TypeOK, NEW r \in Requests, NEW rows \in SUBSET Rows
    PROVE  <<[table |-> sql[r].stmt.table,
              columns |-> FilterTenantID(r, OutputColumns(sql[r].stmt)),
              rows |-> rows]>> \in Seq(Result)
<1>1. sql[r].stmt \in Statement /\ sql[r].stmt.table \in Tables
  BY DEF TypeOK, Translation, Statement
<1>2. FilterTenantID(r, OutputColumns(sql[r].stmt)) \in SUBSET ColumnNames
  BY <1>1, ColumnTypes
<1> QED BY <1>1, <1>2, ResultType

\* The result set of a follow-up statement.
LEMMA FollowUpResultType ==
    ASSUME TypeOK, NEW r \in Requests, NEW table, FollowUpExecutable(table)
    PROVE  /\ [table |-> table, columns |-> FilterTenantID(r, Columns(table)),
               rows |-> FollowUp(table, TenantOf[r], traces[r])] \in Result
           /\ TraceIds(FollowUp(table, TenantOf[r], traces[r])) \in SUBSET Traces
<1>1. table \in Tables
  BY ExecutableTable
<1>2. FilterTenantID(r, Columns(table)) \in SUBSET ColumnNames
  BY ColumnTypes
<1>3. FollowUp(table, TenantOf[r], traces[r]) \in SUBSET Rows
  BY FollowUpRows DEF TypeOK
<1> QED BY <1>1, <1>2, <1>3, TraceIdsType DEF Result

LEMMA RunPlainType ==
    ASSUME TypeOK, NEW r \in Requests, RunPlain(r)
    PROVE  TypeOK'
<1>1. PICK rows \in Returned(sql[r].stmt, db) :
          /\ base' = [base EXCEPT ![r] = rows]
          /\ Answer(r, "ok", <<[table |-> sql[r].stmt.table,
                                columns |-> FilterTenantID(r, OutputColumns(sql[r].stmt)),
                                rows |-> rows]>>)
  BY DEF RunPlain
<1>2. seen' = [seen EXCEPT ![r] = db]
  BY DEF RunPlain
<1>3. /\ rows \in SUBSET Rows
      /\ base' \in [Requests -> SUBSET Rows]
      /\ seen' \in [Requests -> SUBSET Rows]
  BY <1>1, <1>2, BaseRowsType
<1>4. /\ pc' \in [Requests -> Phases]
      /\ status' \in [Requests -> {"none", "ok", "error"}]
      /\ results' \in [Requests -> Seq(Result)]
  BY <1>1, <1>3, BaseResultType, AnswerType
<1>5. UNCHANGED <<db, via, query, todo, sql, traces, pending, lost, faulted>>
  BY DEF RunPlain, request, translation
<1> QED BY <1>3, <1>4, <1>5 DEF TypeOK

LEMMA RunExpandBaseType ==
    ASSUME TypeOK, NEW r \in Requests, RunExpandBase(r)
    PROVE  TypeOK'
<1>1. PICK rows \in Returned(sql[r].stmt, db) :
          /\ base' = [base EXCEPT ![r] = rows]
          /\ traces' = [traces EXCEPT ![r] = TraceIds(rows)]
          /\ \/ GoTo(r, "expand") /\ UNCHANGED <<results, status>>
             \/ Answer(r, "ok", <<[table |-> "none", columns |-> {}, rows |-> {}]>>)
             \/ Fail(r)
  BY DEF RunExpandBase
<1>2. seen' = [seen EXCEPT ![r] = db]
  BY DEF RunExpandBase
<1>3. /\ TraceIds(rows) \in SUBSET Traces
      /\ base' \in [Requests -> SUBSET Rows]
      /\ seen' \in [Requests -> SUBSET Rows]
  BY <1>1, <1>2, BaseRowsType
<1>4. traces' \in [Requests -> SUBSET Traces]
  BY <1>1, <1>3 DEF TypeOK
<1>5. <<[table |-> "none", columns |-> {}, rows |-> {}]>> \in Seq(Result)
  BY ResultType
<1>6. /\ pc' \in [Requests -> Phases]
      /\ status' \in [Requests -> {"none", "ok", "error"}]
      /\ results' \in [Requests -> Seq(Result)]
  <2>1. CASE GoTo(r, "expand") /\ UNCHANGED <<results, status>>
    BY <2>1 DEF GoTo, Phases, TypeOK
  <2>2. CASE Answer(r, "ok", <<[table |-> "none", columns |-> {}, rows |-> {}]>>)
    BY <2>2, <1>5, AnswerType
  <2>3. CASE Fail(r)
    BY <2>3, FailType
  <2> QED BY <1>1, <2>1, <2>2, <2>3
<1>7. UNCHANGED <<db, via, query, todo, sql, pending, lost, faulted>>
  BY DEF RunExpandBase, request, translation
<1> QED BY <1>3, <1>4, <1>6, <1>7 DEF TypeOK

\* The signals of the last marker pair are what is left to correlate.
LEMMA StartCorrelatingType ==
    ASSUME TypeOK, NEW r \in Requests, Plan(r) # "direct",
           pending' = [pending EXCEPT ![r] = Last(sql[r].wraps).signals],
           GoTo(r, "correlate")
    PROVE  pending' \in [Requests -> Seq(Signals)] /\ pc' \in [Requests -> Phases]
<1>1. Last(sql[r].wraps).signals \in Seq(Signals)
  BY MarkersOfPlan DEF Wrap
<1> QED BY <1>1 DEF TypeOK, GoTo, Phases

LEMMA RunExpandType ==
    ASSUME TypeOK, NEW r \in Requests, RunExpand(r)
    PROVE  TypeOK'
<1> DEFINE table == ExpandTable(r)
           rows == FollowUp(table, TenantOf[r], traces[r])
           set == [table |-> table, columns |-> FilterTenantID(r, Columns(table)),
                   rows |-> rows]
<1>1. set \in Result /\ TraceIds(rows) \in SUBSET Traces
  BY FollowUpResultType DEF RunExpand
<1>2. <<set>> \in Seq(Result) /\ <<>> \in Seq(Result)
  BY <1>1
<1>3. UNCHANGED <<db, via, query, todo, sql, seen, base, lost, faulted>>
  BY DEF RunExpand, request, translation, history
<1>4. CASE Answer(r, "ok", <<set>>) /\ UNCHANGED <<traces, pending>>
  <2>1. /\ pc' \in [Requests -> Phases]
        /\ status' \in [Requests -> {"none", "ok", "error"}]
        /\ results' \in [Requests -> Seq(Result)]
    BY <1>2, <1>4, AnswerType
  <2> QED BY <2>1, <1>3, <1>4 DEF TypeOK
<1>5. CASE /\ Plan(r) = "correlate_expand"
           /\ traces' = [traces EXCEPT ![r] = TraceIds(rows)]
           /\ pending' = [pending EXCEPT ![r] = Last(sql[r].wraps).signals]
           /\ GoTo(r, "correlate")
           /\ UNCHANGED <<results, status>>
  <2>1. traces' \in [Requests -> SUBSET Traces]
    BY <1>1, <1>5 DEF TypeOK
  <2>2. pending' \in [Requests -> Seq(Signals)] /\ pc' \in [Requests -> Phases]
    BY <1>5, StartCorrelatingType
  <2> QED BY <2>1, <2>2, <1>3, <1>5 DEF TypeOK
<1>6. CASE Answer(r, "ok", <<>>) /\ UNCHANGED <<traces, pending>>
  <2>1. /\ pc' \in [Requests -> Phases]
        /\ status' \in [Requests -> {"none", "ok", "error"}]
        /\ results' \in [Requests -> Seq(Result)]
    BY <1>2, <1>6, AnswerType
  <2> QED BY <2>1, <1>3, <1>6 DEF TypeOK
<1> QED BY <1>4, <1>5, <1>6 DEF RunExpand

LEMMA RunCorrelateBaseType ==
    ASSUME TypeOK, NEW r \in Requests, RunCorrelateBase(r)
    PROVE  TypeOK'
<1> DEFINE Opening(rows) ==
        <<[table |-> sql[r].stmt.table,
           columns |-> FilterTenantID(r, OutputColumns(sql[r].stmt)),
           rows |-> rows]>>
<1>1. PICK rows \in Returned(sql[r].stmt, db) :
          /\ base' = [base EXCEPT ![r] = rows]
          /\ traces' = [traces EXCEPT ![r] = TraceIds(rows)]
          /\ \/ Answer(r, "ok", <<>>) /\ UNCHANGED pending
             \/ /\ results' = [results EXCEPT ![r] = Opening(rows)]
                /\ pending' = [pending EXCEPT ![r] = Last(sql[r].wraps).signals]
                /\ GoTo(r, "correlate")
                /\ UNCHANGED status
  BY DEF RunCorrelateBase
<1>2. /\ seen' = [seen EXCEPT ![r] = db]
      /\ Plan(r) # "direct"
      /\ UNCHANGED <<db, via, query, todo, sql, lost, faulted>>
  BY DEF RunCorrelateBase, request, translation
<1>3. /\ rows \in SUBSET Rows
      /\ TraceIds(rows) \in SUBSET Traces
      /\ base' \in [Requests -> SUBSET Rows]
      /\ seen' \in [Requests -> SUBSET Rows]
  BY <1>1, <1>2, BaseRowsType
<1>4. traces' \in [Requests -> SUBSET Traces]
  BY <1>1, <1>3 DEF TypeOK
<1>5. CASE Answer(r, "ok", <<>>) /\ UNCHANGED pending
  <2>1. <<>> \in Seq(Result)
    OBVIOUS
  <2>2. /\ pc' \in [Requests -> Phases]
        /\ status' \in [Requests -> {"none", "ok", "error"}]
        /\ results' \in [Requests -> Seq(Result)]
    BY <2>1, <1>5, AnswerType
  <2> QED BY <2>2, <1>2, <1>3, <1>4, <1>5 DEF TypeOK
<1>6. CASE /\ results' = [results EXCEPT ![r] = Opening(rows)]
           /\ pending' = [pending EXCEPT ![r] = Last(sql[r].wraps).signals]
           /\ GoTo(r, "correlate")
           /\ UNCHANGED status
  <2>1. Opening(rows) \in Seq(Result)
    BY <1>3, BaseResultType
  <2> HIDE DEF Opening
  <2>2. results' \in [Requests -> Seq(Result)]
    BY <2>1, <1>6 DEF TypeOK
  <2>3. pending' \in [Requests -> Seq(Signals)] /\ pc' \in [Requests -> Phases]
    BY <1>2, <1>6, StartCorrelatingType
  <2> QED BY <2>2, <2>3, <1>2, <1>3, <1>4, <1>6 DEF TypeOK
<1> QED BY <1>1, <1>5, <1>6

\* SkipSignal, RefuseSignal and OutageOfSignal drop the signal at the head.
LEMMA PassedOverType ==
    ASSUME TypeOK, NEW r \in Requests, pending[r] # <<>>
    PROVE  /\ Head(pending[r]) \in Signals
           /\ [pending EXCEPT ![r] = Tail(@)] \in [Requests -> Seq(Signals)]
           /\ [lost EXCEPT ![r] = @ \cup {Head(pending[r])}] \in [Requests -> SUBSET Signals]
<1>1. pending[r] \in Seq(Signals)
  BY DEF TypeOK
<1>2. Head(pending[r]) \in Signals /\ Tail(pending[r]) \in Seq(Signals)
  BY <1>1
<1> QED BY <1>2 DEF TypeOK

LEMMA SignalsWithoutAnswerType ==
    ASSUME TypeOK, NEW r \in Requests,
           SkipSignal(r) \/ RefuseSignal(r) \/ OutageOfSignal(r)
    PROVE  TypeOK'
<1>1. pending[r] # <<>>
  BY DEF SkipSignal, RefuseSignal, OutageOfSignal
<1>2. pending' \in [Requests -> Seq(Signals)]
  BY <1>1, PassedOverType DEF SkipSignal, RefuseSignal, OutageOfSignal, PassOverSignal
<1>3. lost' \in [Requests -> SUBSET Signals]
  <2>1. CASE SkipSignal(r)
    BY <2>1 DEF SkipSignal, history, TypeOK
  <2>2. CASE RefuseSignal(r) \/ OutageOfSignal(r)
    BY <2>2, <1>1, PassedOverType DEF RefuseSignal, OutageOfSignal, PassOverSignal
  <2> QED BY <2>1, <2>2
<1>4. UNCHANGED <<db, pc, via, query, todo, sql, traces, results, status, seen, base>>
  BY DEF SkipSignal, RefuseSignal, OutageOfSignal, request, translation, history
<1>5. faulted' \subseteq Requests
  BY DEF TypeOK, SkipSignal, RefuseSignal, OutageOfSignal, history
<1> QED BY <1>2, <1>3, <1>4, <1>5 DEF TypeOK

LEMMA CorrelateSignalType ==
    ASSUME TypeOK, NEW r \in Requests, CorrelateSignal(r)
    PROVE  TypeOK'
<1> DEFINE table == SignalTable(r)
           set == [table |-> table, columns |-> FilterTenantID(r, Columns(table)),
                   rows |-> FollowUp(table, TenantOf[r], traces[r])]
<1>1. set \in Result
  BY FollowUpResultType DEF CorrelateSignal
<1>2. /\ results' = [results EXCEPT ![r] = Append(@, set)]
      /\ pending' = [pending EXCEPT ![r] = Tail(@)]
      /\ pending[r] # <<>>
      /\ UNCHANGED <<db, pc, via, query, todo, sql, traces, status, seen, base, lost, faulted>>
  BY DEF CorrelateSignal, request, translation, history
<1> HIDE DEF set
<1>3. results' \in [Requests -> Seq(Result)]
  BY <1>1, <1>2 DEF TypeOK
<1>4. pending' \in [Requests -> Seq(Signals)]
  BY <1>2, PassedOverType
<1> QED BY <1>2, <1>3, <1>4 DEF TypeOK

LEMMA FinishCorrelateType ==
    ASSUME TypeOK, NEW r \in Requests, FinishCorrelate(r)
    PROVE  TypeOK'
<1>1. Answer(r, "ok", results[r]) /\ results[r] \in Seq(Result)
  BY DEF FinishCorrelate, TypeOK
<1>2. /\ pc' \in [Requests -> Phases]
      /\ status' \in [Requests -> {"none", "ok", "error"}]
      /\ results' \in [Requests -> Seq(Result)]
  BY <1>1, AnswerType
<1> QED BY <1>2 DEF FinishCorrelate, TypeOK, request, translation, history

LEMMA InsertType ==
    ASSUME TypeOK, NEW batch \in Batches, Insert(batch)
    PROVE  TypeOK'
BY QueryServerAssumption DEF TypeOK, Insert, request, translation, execution, history

\* Every step keeps the types.
LEMMA NextType == TypeOK /\ [Next]_vars => TypeOK'
<1> SUFFICES ASSUME TypeOK, [Next]_vars PROVE TypeOK'
  OBVIOUS
<1>1. ASSUME NEW r \in Requests, Ask(r) PROVE TypeOK'
  BY <1>1, AskType
<1>2. ASSUME NEW r \in Requests, Handle(r) PROVE TypeOK'
  BY <1>2, TranslateNextType, FinishTranslationType, RefusalsType, RunPlainType,
     RunExpandBaseType, RunExpandType, RunCorrelateBaseType, SignalsWithoutAnswerType,
     CorrelateSignalType, FinishCorrelateType DEF Handle
<1>3. ASSUME NEW batch \in Batches, Insert(batch) PROVE TypeOK'
  BY <1>3, InsertType
<1>4. ASSUME UNCHANGED vars PROVE TypeOK'
  BY <1>4 DEF TypeOK, vars
<1> QED BY <1>1, <1>2, <1>3, <1>4 DEF Next

\* For every instance the handler keeps its types: the executor reads only
\* tables and columns of the schema, and no empty trace id reaches a follow-up
\* statement (server.go, the collection of trace ids).
THEOREM TypeCorrect == Spec => []TypeOK
<1>1. Init => TypeOK
  BY InitType
<1>2. TypeOK /\ [Next]_vars => TypeOK'
  BY NextType
<1> QED BY <1>1, <1>2, PTL DEF Spec

-----------------------------------------------------------------------------
(* Tenant isolation.  The text of a request that sorts by columns is scoped *)
(* to its tenant from the first statement to the last, and so is every      *)
(* result set gathered.                                                     *)

\* The text names the request's tenant; and no free text is in it, or waits
\* among the operations to translate, unless the query has some.
Scoped(r) ==
    /\ sql[r].stmt.tenant = TenantOf[r]
    /\ SortsByColumns(query[r]) =>
          /\ ~FreeText(sql[r].stmt)
          /\ \A i \in DOMAIN todo[r] : NamesColumns(todo[r][i])

\* Nothing is gathered before the request is asked.
Unopened(r) == pc[r] = "idle" => results[r] = <<>>

\* Result sets a request that sorts by columns may be shown: stored rows, of its
\* tenant, and over the query API without the tenant column.
Presentable(r, sets) ==
    SortsByColumns(query[r]) =>
    \A i \in DOMAIN sets :
        /\ sets[i].rows \subseteq db
        /\ \A row \in sets[i].rows : row.tenant = TenantOf[r]
        /\ via[r] = "api" => "tenant_id" \notin sets[i].columns

IInv ==
    /\ TypeOK
    /\ \A r \in Requests : Scoped(r) /\ Unopened(r) /\ Presentable(r, results[r])

\* A text starts without free text.
LEMMA StartsWithoutText ==
    ASSUME NEW signal, NEW tenant
    PROVE  ~FreeText(StartTranslation(signal, tenant).stmt)
  BY DEF StartTranslation, BaseStatement, FreeText

\* Free text enters a text with its clause and in no other way.
LEMMA AppendsNoText ==
    ASSUME NEW t \in Translation, NEW clause \in Clause,
           ~FreeText(t.stmt), NoColumn \notin clause.reads
    PROVE  ~FreeText(AppendClause(t, clause).stmt)
<1>1. CASE t.wraps = <<>>
  <2> DEFINE clauses == Append(t.stmt.clauses, clause)
  <2>1. t.stmt.clauses \in Seq(Clause)
    BY DEF Translation, Statement
  <2>2. AppendClause(t, clause).stmt.clauses = clauses
    BY <1>1 DEF AppendClause, Translation, Statement
  <2>3. \A i \in DOMAIN clauses :
           clauses[i] = clause \/ (i \in DOMAIN t.stmt.clauses /\ clauses[i] = t.stmt.clauses[i])
    BY <2>1
  <2> HIDE DEF clauses
  <2> QED BY <2>2, <2>3 DEF FreeText
<1>2. CASE t.wraps # <<>>
  <2>1. AppendClause(t, clause).stmt = t.stmt
    BY <1>2 DEF AppendClause, Translation
  <2> QED BY <2>1
<1> QED BY <1>1, <1>2

\* Replacing the select list leaves the clauses as they are.
LEMMA ReplacesNoText ==
    ASSUME NEW t \in Translation, NEW select, ~FreeText(t.stmt)
    PROVE  ~FreeText(ReplaceStar(t, select).stmt)
<1>1. ReplaceStar(t, select).stmt.clauses = t.stmt.clauses
  BY DEF ReplaceStar, Translation, Statement
<1> QED BY <1>1 DEF FreeText

\* No name of a column is free text.
LEMMA ColumnsAreNamed == NoColumn \notin ColumnNames
  BY DEF NoColumn, ColumnNames

\* Only a sort by free text brings it into the text.
LEMMA OpAddsNoText ==
    ASSUME NEW t \in Translation, NEW op \in Operation, ~Rejected(op),
           ~FreeText(t.stmt), NamesColumns(op)
    PROVE  ~FreeText(TranslateOp(t, op).stmt)
<1> USE OperationFields
<1>1. CASE op.kind \in ConditionKinds
  <2>1. TranslateOp(t, op) = AppendClause(t, And(op.cond)) /\ And(op.cond) \in Clause
    BY <1>1, ClauseTypes DEF TranslateOp, ConditionKinds
  <2>2. NoColumn \notin And(op.cond).reads
    BY <1>1, ColumnsAreNamed DEF And, Condition
  <2> QED BY <2>1, <2>2, AppendsNoText
<1>2. CASE op.kind = "limit"
  <2>1. TranslateOp(t, op) = AppendClause(t, Limit(op.count)) /\ Limit(op.count) \in Clause
    BY <1>2, ClauseTypes DEF TranslateOp, ConditionKinds
  <2>2. NoColumn \notin Limit(op.count).reads
    BY DEF Limit
  <2> QED BY <2>1, <2>2, AppendsNoText
<1>3. CASE op.kind = "sort"
  <2> DEFINE u == AppendClause(t, OrderBy(op.fields))
  <2>1. TranslateOp(t, op) = [u EXCEPT !.sorted = TRUE]
    BY <1>3 DEF TranslateOp, ConditionKinds
  <2>2. OrderBy(op.fields) \in Clause
    BY <1>3, ClauseTypes
  <2>3. NoColumn \notin OrderBy(op.fields).reads
    BY <1>3, ColumnsAreNamed DEF OrderBy, NamesColumns
  <2>4. u \in Translation /\ ~FreeText(u.stmt)
    BY <2>2, <2>3, AppendClauseType, AppendsNoText
  <2> HIDE DEF u
  <2>5. TranslateOp(t, op).stmt = u.stmt
    BY <2>1, <2>4 DEF Translation
  <2> QED BY <2>4, <2>5
<1>4. CASE op.kind = "expand" \/ op.kind = "correlate"
  <2>1. TranslateOp(t, op).stmt = t.stmt
    BY <1>4 DEF TranslateOp, ConditionKinds, WrapText, Translation
  <2> QED BY <2>1
<1>5. CASE op.kind = "get_exemplars"
  <2> DEFINE select == [kind |-> "exemplars", columns |-> {"exemplar_trace_id"},
                        reads |-> {"exemplar_trace_id"}]
             cond == [reads |-> {"exemplar_trace_id"}, marks |-> Marks]
  <2>1. TranslateOp(t, op) = AppendClause(ReplaceStar(t, select), And(cond))
    BY <1>5 DEF TranslateOp, ConditionKinds, TranslateGetExemplars
  <2>2. select \in SelectList /\ And(cond) \in Clause
    BY ClauseTypes DEF SelectList, Condition, ColumnNames
  <2>3. NoColumn \notin And(cond).reads
    BY DEF And, NoColumn
  <2> HIDE DEF select, cond
  <2> QED BY <2>1, <2>2, <2>3, ReplaceStarType, ReplacesNoText, AppendsNoText
<1>6. CASE op.kind = "switch_context"
  <2>1. TranslateOp(t, op).stmt = BaseStatement(op.signal, t.stmt.tenant, FALSE)
    BY <1>6 DEF TranslateOp, ConditionKinds, SwitchContext, Translation
  <2> QED BY <2>1 DEF BaseStatement, FreeText
<1>7. CASE op.kind = "extract"
  <2>1. TranslateOp(t, op) = ReplaceStar(t, [kind |-> "extract", columns |-> {op.alias},
                                             reads |-> {op.field}])
    BY <1>7 DEF TranslateOp, ConditionKinds
  <2> QED BY <2>1, ReplacesNoText
<1>8. CASE op.kind = "group"
  <2>1. TranslateOp(t, op).stmt = t.stmt
    BY <1>8 DEF TranslateOp, ConditionKinds, Translation
  <2> QED BY <2>1
<1>9. CASE op.kind = "aggregate"
  <2> DEFINE select == [kind |-> "aggregate", columns |-> t.groupBy \cup {"agg"},
                        reads |-> t.groupBy \cup op.reads]
             u == ReplaceStar(t, select)
  <2>1. TranslateOp(t, op) = IF t.groupBy = {} THEN u ELSE AppendClause(u, GroupBy(t.groupBy))
    BY <1>9 DEF TranslateOp, ConditionKinds, TranslateAggregate
  <2>2. t.groupBy \subseteq ColumnNames
    BY DEF Translation
  <2>3. select \in SelectList /\ GroupBy(t.groupBy) \in Clause
    BY <1>9, <2>2, ClauseTypes DEF SelectList, ColumnNames
  <2>4. NoColumn \notin GroupBy(t.groupBy).reads
    BY <2>2, ColumnsAreNamed DEF GroupBy
  <2>5. u \in Translation /\ ~FreeText(u.stmt)
    BY <2>3, ReplaceStarType, ReplacesNoText
  <2> HIDE DEF u
  <2> QED BY <2>1, <2>3, <2>4, <2>5, AppendsNoText
<1> QED
  BY <1>1, <1>2, <1>3, <1>4, <1>5, <1>6, <1>7, <1>8, <1>9 DEF Operation, ConditionKinds

\* The default ordering is by a column.
LEMMA DefaultOrderAddsNoText ==
    ASSUME NEW t \in Translation, NEW signal, ~FreeText(t.stmt)
    PROVE  ~FreeText(DefaultOrder(t, signal).stmt)
<1>1. OrderBy({"timestamp"}) \in Clause /\ NoColumn \notin OrderBy({"timestamp"}).reads
  BY ClauseTypes DEF ColumnNames, SortText, OrderBy, NoColumn
<1> QED BY <1>1, AppendsNoText DEF DefaultOrder

LEMMA InitIInv == Init => IInv
<1> SUFFICES ASSUME Init PROVE IInv
  OBVIOUS
<1>1. TypeOK
  BY InitType
<1>2. \A r \in Requests : Scoped(r)
  BY StartTranslationType, StartsWithoutText, QueryServerAssumption DEF Init, Scoped, Signals
<1>3. \A r \in Requests : Unopened(r) /\ Presentable(r, results[r])
  BY DEF Init, Unopened, Presentable
<1> QED BY <1>1, <1>2, <1>3 DEF IInv

\* Empty answers, and the answers made of one presentable set.
LEMMA PresentableSets ==
    ASSUME NEW r \in Requests, NEW table, NEW columns, NEW rows \in SUBSET db,
           \A row \in rows : row.tenant = TenantOf[r]
    PROVE  /\ Presentable(r, <<>>)
           /\ Presentable(r, <<[table |-> table, columns |-> FilterTenantID(r, columns),
                                rows |-> rows]>>)
  BY DEF Presentable, FilterTenantID

\* The base statement of a scoped text returns stored rows of the tenant.
LEMMA BaseRowsOwn ==
    ASSUME NEW r \in Requests, Scoped(r), SortsByColumns(query[r]),
           NEW rows \in Returned(sql[r].stmt, db)
    PROVE  rows \in SUBSET db /\ \A row \in rows : row.tenant = TenantOf[r]
  BY ReturnedRows DEF Scoped

\* A step of one request leaves the others where they are.
LEMMA HandleFrame ==
    ASSUME TypeOK, NEW r \in Requests, Handle(r)
    PROVE  /\ db' = db /\ via' = via /\ query' = query
           /\ pc[r] \notin {"idle", "done"} /\ pc'[r] # "idle"
           /\ \A s \in Requests \ {r} : /\ pc'[s] = pc[s] /\ results'[s] = results[s]
                                         /\ sql'[s] = sql[s] /\ todo'[s] = todo[s]
<1> USE DEF TypeOK, At, GoTo, Fail, Answer, request, translation, execution, history
<1>1. CASE TranslateNext(r) \/ RejectNext(r) \/ FinishTranslation(r)
  BY <1>1 DEF TranslateNext, RejectNext, FinishTranslation
<1>2. CASE RefuseBase(r) \/ RunPlain(r) \/ BaseWithoutTraceColumn(r)
  BY <1>2 DEF RefuseBase, RunPlain, BaseWithoutTraceColumn
<1>3. CASE RunExpandBase(r) \/ RunCorrelateBase(r)
  BY <1>3 DEF RunExpandBase, RunCorrelateBase
<1>4. CASE RunExpand(r) \/ RefuseExpand(r)
  BY <1>4 DEF RunExpand, RefuseExpand
<1>5. CASE SkipSignal(r) \/ CorrelateSignal(r) \/ RefuseSignal(r) \/ FinishCorrelate(r)
  BY <1>5 DEF SkipSignal, CorrelateSignal, RefuseSignal, FinishCorrelate
<1>6. CASE OutageFatal(r) \/ OutageOfSignal(r)
  BY <1>6 DEF OutageFatal, OutageOfSignal
<1> QED BY <1>1, <1>2, <1>3, <1>4, <1>5, <1>6 DEF Handle

\* No step of a request takes its text out of its tenant.
LEMMA HandleScoped ==
    ASSUME TypeOK, NEW r \in Requests, Scoped(r), Handle(r)
    PROVE  Scoped(r)'
<1>1. CASE TranslateNext(r)
  <2>1. /\ todo[r] # <<>> /\ ~Rejected(Head(todo[r])) /\ query' = query
        /\ sql'[r] = TranslateOp(sql[r], Head(todo[r])) /\ todo'[r] = Tail(todo[r])
    BY <1>1 DEF TranslateNext, TypeOK, request
  <2>2. todo[r] \in Seq(Operation) /\ sql[r] \in Translation
    BY DEF TypeOK
  <2>3. /\ Head(todo[r]) \in Operation /\ 1 \in DOMAIN todo[r] /\ Head(todo[r]) = todo[r][1]
        /\ \A i \in DOMAIN Tail(todo[r]) : i + 1 \in DOMAIN todo[r] /\ Tail(todo[r])[i] = todo[r][i + 1]
    BY <2>1, <2>2
  <2>4. sql'[r].stmt.tenant = TenantOf[r]
    BY <1>1, TranslateNextType DEF Scoped
  <2>5. ASSUME SortsByColumns(query[r])
        PROVE  /\ ~FreeText(sql'[r].stmt)
               /\ \A i \in DOMAIN todo'[r] : NamesColumns(todo'[r][i])
    <3>1. ~FreeText(sql[r].stmt) /\ \A i \in DOMAIN todo[r] : NamesColumns(todo[r][i])
      BY <2>5 DEF Scoped
    <3>2. NamesColumns(Head(todo[r]))
      BY <2>3, <3>1
    <3>3. ~FreeText(TranslateOp(sql[r], Head(todo[r])).stmt)
      BY <2>1, <2>2, <2>3, <3>1, <3>2, OpAddsNoText
    <3> QED BY <2>1, <2>3, <3>1, <3>3
  <2> QED BY <2>1, <2>4, <2>5 DEF Scoped
<1>2. CASE FinishTranslation(r)
  <2>1. /\ query' = query /\ todo' = todo /\ sql[r] \in Translation
        /\ sql'[r] = DefaultOrder(sql[r], query[r].signal)
    BY <1>2 DEF FinishTranslation, TypeOK, request
  <2>2. sql'[r].stmt.tenant = TenantOf[r]
    BY <1>2, FinishTranslationType DEF Scoped
  <2>3. ~FreeText(sql[r].stmt) => ~FreeText(sql'[r].stmt)
    BY <2>1, DefaultOrderAddsNoText
  <2> QED BY <2>1, <2>2, <2>3 DEF Scoped
<1>3. CASE ~(TranslateNext(r) \/ FinishTranslation(r))
  <2>1. sql' = sql /\ todo' = todo /\ query' = query
    BY <1>3 DEF Handle, RejectNext, RefuseBase, RunPlain, BaseWithoutTraceColumn,
       RunExpandBase, RunExpand, RefuseExpand, RunCorrelateBase, SkipSignal,
       CorrelateSignal, RefuseSignal, FinishCorrelate, OutageFatal, OutageOfSignal,
       request, translation
  <2> QED BY <2>1 DEF Scoped
<1> QED BY <1>1, <1>2, <1>3

\* The steps that set the answer of a request.
LEMMA AnswerSets ==
    ASSUME TypeOK, NEW r \in Requests, NEW how, NEW sets, Answer(r, how, sets)
    PROVE  results'[r] = sets
  BY DEF Answer, TypeOK

LEMMA BasePresentable ==
    ASSUME TypeOK, NEW r \in Requests, Scoped(r), NEW rows \in Returned(sql[r].stmt, db)
    PROVE  Presentable(r, <<[table |-> sql[r].stmt.table,
                             columns |-> FilterTenantID(r, OutputColumns(sql[r].stmt)),
                             rows |-> rows]>>)
<1>1. CASE SortsByColumns(query[r])
  BY <1>1, BaseRowsOwn, PresentableSets
<1>2. CASE ~SortsByColumns(query[r])
  BY <1>2 DEF Presentable
<1> QED BY <1>1, <1>2

LEMMA FollowUpPresentable ==
    ASSUME NEW r \in Requests, NEW table, NEW ids
    PROVE  Presentable(r, <<[table |-> table, columns |-> FilterTenantID(r, Columns(table)),
                             rows |-> FollowUp(table, TenantOf[r], ids)]>>)
  BY FollowUpRows, PresentableSets

\* One more presentable set keeps the answer presentable.
LEMMA AppendPresentable ==
    ASSUME NEW r \in Requests, NEW sets \in Seq(Result), NEW set \in Result,
           Presentable(r, sets), Presentable(r, <<set>>)
    PROVE  Presentable(r, Append(sets, set))
<1> SUFFICES ASSUME SortsByColumns(query[r]) PROVE Presentable(r, Append(sets, set))
  BY DEF Presentable
<1>1. \A i \in DOMAIN Append(sets, set) :
         Append(sets, set)[i] = set \/ (i \in DOMAIN sets /\ Append(sets, set)[i] = sets[i])
  OBVIOUS
<1>2. 1 \in DOMAIN <<set>> /\ <<set>>[1] = set
  OBVIOUS
<1>3. /\ set.rows \subseteq db
      /\ \A row \in set.rows : row.tenant = TenantOf[r]
      /\ via[r] = "api" => "tenant_id" \notin set.columns
  BY <1>2 DEF Presentable
<1> QED BY <1>1, <1>3 DEF Presentable

LEMMA HandlePresentable ==
    ASSUME TypeOK, NEW r \in Requests, Scoped(r), Presentable(r, results[r]), Handle(r)
    PROVE  Presentable(r, results'[r])
<1> DEFINE none == [table |-> "none", columns |-> {}, rows |-> {}]
<1>1. Presentable(r, <<>>) /\ Presentable(r, <<none>>)
  BY DEF Presentable
<1>2. ASSUME Fail(r) PROVE Presentable(r, results'[r])
  BY <1>1, <1>2, AnswerSets DEF Fail
<1>3. CASE RunPlain(r)
  <2>1. PICK rows \in Returned(sql[r].stmt, db) :
           Answer(r, "ok", <<[table |-> sql[r].stmt.table,
                              columns |-> FilterTenantID(r, OutputColumns(sql[r].stmt)),
                              rows |-> rows]>>)
    BY <1>3 DEF RunPlain
  <2> QED BY <2>1, BasePresentable, AnswerSets
<1>4. CASE RunExpandBase(r)
  <2>1. \/ UNCHANGED results
        \/ Answer(r, "ok", <<none>>)
        \/ Fail(r)
    BY <1>4 DEF RunExpandBase
  <2> QED BY <2>1, <1>1, <1>2, AnswerSets
<1>5. CASE RunExpand(r)
  <2>1. \/ Answer(r, "ok", <<[table |-> ExpandTable(r),
                              columns |-> FilterTenantID(r, Columns(ExpandTable(r))),
                              rows |-> FollowUp(ExpandTable(r), TenantOf[r], traces[r])]>>)
        \/ UNCHANGED results
        \/ Answer(r, "ok", <<>>)
    BY <1>5 DEF RunExpand
  <2> QED BY <2>1, <1>1, FollowUpPresentable, AnswerSets
<1>6. CASE RunCorrelateBase(r)
  <2>1. PICK rows \in Returned(sql[r].stmt, db) :
           \/ Answer(r, "ok", <<>>)
           \/ results' = [results EXCEPT ![r] =
                 <<[table |-> sql[r].stmt.table,
                    columns |-> FilterTenantID(r, OutputColumns(sql[r].stmt)),
                    rows |-> rows]>>]
    BY <1>6 DEF RunCorrelateBase
  <2>2. \/ results'[r] = <<>>
        \/ results'[r] = <<[table |-> sql[r].stmt.table,
                            columns |-> FilterTenantID(r, OutputColumns(sql[r].stmt)),
                            rows |-> rows]>>
    BY <2>1, AnswerSets DEF TypeOK
  <2> QED BY <2>2, <1>1, BasePresentable
<1>7. CASE CorrelateSignal(r)
  <2> DEFINE set == [table |-> SignalTable(r),
                     columns |-> FilterTenantID(r, Columns(SignalTable(r))),
                     rows |-> FollowUp(SignalTable(r), TenantOf[r], traces[r])]
  <2>1. set \in Result
    BY <1>7, FollowUpResultType DEF CorrelateSignal
  <2>2. Presentable(r, <<set>>)
    BY FollowUpPresentable
  <2>3. results' = [results EXCEPT ![r] = Append(@, set)]
    BY <1>7 DEF CorrelateSignal
  <2> HIDE DEF set
  <2>4. results'[r] = Append(results[r], set) /\ results[r] \in Seq(Result)
    BY <2>3 DEF TypeOK
  <2> QED BY <2>1, <2>2, <2>4, AppendPresentable
<1>8. CASE FinishCorrelate(r)
  BY <1>8, AnswerSets DEF FinishCorrelate
<1>9. CASE RejectNext(r) \/ RefuseBase(r) \/ BaseWithoutTraceColumn(r)
           \/ RefuseExpand(r) \/ OutageFatal(r)
  <2>1. Fail(r)
    BY <1>9 DEF RejectNext, RefuseBase, BaseWithoutTraceColumn, RefuseExpand, OutageFatal
  <2> QED BY <2>1, <1>2
<1>10. CASE TranslateNext(r) \/ FinishTranslation(r) \/ SkipSignal(r)
            \/ RefuseSignal(r) \/ OutageOfSignal(r)
  <2>1. UNCHANGED results
    BY <1>10 DEF TranslateNext, FinishTranslation, SkipSignal, RefuseSignal,
       OutageOfSignal, execution
  <2> QED BY <2>1
<1> QED BY <1>3, <1>4, <1>5, <1>6, <1>7, <1>8, <1>9, <1>10 DEF Handle

LEMMA NextIInv == IInv /\ [Next]_vars => IInv'
<1> SUFFICES ASSUME IInv, [Next]_vars PROVE IInv'
  OBVIOUS
<1>1. TypeOK /\ TypeOK'
  BY NextType DEF IInv
<1>2. ASSUME NEW r \in Requests, Ask(r) PROVE IInv'
  <2>1. /\ pc[r] = "idle" /\ pc'[r] # "idle"
        /\ \A s \in Requests \ {r} : /\ pc'[s] = pc[s] /\ via'[s] = via[s]
                                      /\ query'[s] = query[s]
                                      /\ sql'[s] = sql[s] /\ todo'[s] = todo[s]
        /\ results' = results /\ db' = db
    BY <1>1, <1>2 DEF Ask, Submit, At, GoTo, TypeOK, execution
  <2>2. PICK q \in Queries : /\ sql'[r] = StartTranslation(q.signal, TenantOf[r])
                             /\ query'[r] = q /\ todo'[r] = q.ops
    BY <1>1, <1>2 DEF Ask, Submit, TypeOK
  <2>3. Scoped(r)'
    <3>1. sql'[r].stmt.tenant = TenantOf[r]
      BY <2>2, StartTranslationType, QueryServerAssumption DEF Query
    <3>2. ~FreeText(sql'[r].stmt)
      BY <2>2, StartsWithoutText
    <3> QED BY <2>2, <3>1, <3>2 DEF Scoped, SortsByColumns
  <2>4. results'[r] = <<>>
    BY <2>1 DEF IInv, Unopened
  <2> QED BY <1>1, <2>1, <2>3, <2>4 DEF IInv, Scoped, Unopened, Presentable
<1>3. ASSUME NEW r \in Requests, Handle(r) PROVE IInv'
  <2>1. Scoped(r) /\ Presentable(r, results[r])
    BY DEF IInv
  <2>2. Scoped(r)' /\ Presentable(r, results'[r])
    BY <1>1, <1>3, <2>1, HandleScoped, HandlePresentable
  <2>3. /\ db' = db /\ via' = via /\ query' = query /\ pc'[r] # "idle"
        /\ \A s \in Requests \ {r} : /\ pc'[s] = pc[s] /\ results'[s] = results[s]
                                      /\ sql'[s] = sql[s] /\ todo'[s] = todo[s]
    BY <1>1, <1>3, HandleFrame
  <2> QED BY <1>1, <2>2, <2>3 DEF IInv, Scoped, Unopened, Presentable
<1>4. ASSUME NEW batch \in Batches, Insert(batch) PROVE IInv'
  <2>1. UNCHANGED <<pc, via, query, todo, sql, results>> /\ db \subseteq db'
    BY <1>4 DEF Insert, request, translation, execution
  <2> QED BY <1>1, <2>1 DEF IInv, Scoped, Unopened, Presentable
<1>5. ASSUME UNCHANGED vars PROVE IInv'
  BY <1>1, <1>5 DEF IInv, Scoped, Unopened, Presentable, vars
<1> QED BY <1>2, <1>3, <1>4, <1>5 DEF Next

LEMMA Invariance == Spec => []IInv
<1> QED BY InitIInv, NextIInv, PTL DEF Spec

\* For every set of tenants, requests, pipelines and rows, and whatever
\* arrives between the statements of a request, handleQuery shows a request
\* whose sorts name columns rows of its own tenant alone, and never the tenant
\* column.  The precondition is needed: parseSort and TranslateQuery let any
\* text into ORDER BY, and the base then returns any of FreeAnswers.
THEOREM Isolation == Spec => []TenantIsolation
<1>1. IInv => TenantIsolation
  BY DEF IInv, Presentable, TenantIsolation, OwnRowsOnly, TenantColumnHidden
<1> QED BY <1>1, Invariance, PTL

-----------------------------------------------------------------------------
(* The handler implements TenantQueries: every step of it is a step of the  *)
(* promise or a stutter.                                                     *)

\* What is shown of a request that sorts by columns is stored and its tenant's.
LEMMA AnswerStored ==
    ASSUME NEW r \in Requests, NEW sets \in Seq(Result), Presentable(r, sets)
    PROVE  UNION {sets[i].rows : i \in DOMAIN sets}
              \in SUBSET (IF SortsByColumns(query[r])
                         THEN {row \in db : row.tenant = TenantOf[r]} ELSE Rows)
<1>1. CASE SortsByColumns(query[r])
  BY <1>1 DEF Presentable
<1>2. CASE ~SortsByColumns(query[r])
  <2>1. ASSUME NEW i \in DOMAIN sets PROVE sets[i].rows \subseteq Rows
    <3>1. sets[i] \in Result
      OBVIOUS
    <3> QED BY <3>1 DEF Result
  <2> QED BY <1>2, <2>1
<1> QED BY <1>1, <1>2

\* Before and after a step, request by request.
LEMMA PhaseOfOthers ==
    ASSUME NEW r \in Requests,
           \A s \in Requests \ {r} : pc'[s] = pc[s] /\ results'[s] = results[s]
    PROVE  \A s \in Requests \ {r} : PhaseOf(s)' = PhaseOf(s) /\ AnswerOf(s)' = AnswerOf(s)
  BY DEF PhaseOf, AnswerOf

LEMMA InitPromise == Init => Promise!Init
  BY DEF Init, Promise!Init, PhaseOf, AnswerOf, SortsByColumns, NoQuery

LEMMA StepPromise ==
    ASSUME IInv, [Next]_vars
    PROVE  [Promise!Next]_(Promise!vars)
<1> DEFINE phase == [r \in Requests |-> PhaseOf(r)]
           plain == [r \in Requests |-> SortsByColumns(query[r])]
           answer == [r \in Requests |-> AnswerOf(r)]
<1>1. ASSUME NEW r \in Requests, Ask(r) PROVE Promise!Ask(r)
  <2>1. /\ pc[r] = "idle" /\ pc'[r] = "translate"
        /\ \A s \in Requests \ {r} : pc'[s] = pc[s] /\ results'[s] = results[s]
        /\ \A s \in Requests \ {r} : query'[s] = query[s]
        /\ db' = db
    BY <1>1 DEF Ask, Submit, At, GoTo, IInv, TypeOK, execution
  <2>2. \A s \in Requests \ {r} : PhaseOf(s)' = PhaseOf(s) /\ AnswerOf(s)' = AnswerOf(s)
    BY <2>1, PhaseOfOthers
  <2>3. /\ PhaseOf(r) = "new" /\ PhaseOf(r)' = "open"
        /\ AnswerOf(r) = {} /\ AnswerOf(r)' = {}
    BY <2>1 DEF PhaseOf, AnswerOf
  <2>4. phase' = [phase EXCEPT ![r] = "open"] /\ answer' = answer /\ phase[r] = "new"
    BY <2>2, <2>3
  <2>5. plain' = [plain EXCEPT ![r] = SortsByColumns(query[r])']
    BY <2>1 DEF SortsByColumns
  <2>6. SortsByColumns(query[r])' \in BOOLEAN
    BY DEF SortsByColumns
  <2> QED BY <2>1, <2>4, <2>5, <2>6 DEF Promise!Ask
<1>2. ASSUME NEW r \in Requests, Handle(r)
      PROVE  Promise!Answer(r) \/ UNCHANGED Promise!vars
  <2>1. /\ db' = db /\ query' = query /\ pc[r] \notin {"idle", "done"} /\ pc'[r] # "idle"
        /\ \A s \in Requests \ {r} : pc'[s] = pc[s] /\ results'[s] = results[s]
    BY <1>2, HandleFrame DEF IInv
  <2>2. \A s \in Requests \ {r} : PhaseOf(s)' = PhaseOf(s) /\ AnswerOf(s)' = AnswerOf(s)
    BY <2>1, PhaseOfOthers
  <2>3. PhaseOf(r) = "open" /\ AnswerOf(r) = {}
    BY <2>1 DEF PhaseOf, AnswerOf
  <2>4. CASE pc'[r] = "done"
    <3>1. Presentable(r, results'[r])
      BY <1>2, HandlePresentable DEF IInv
    <3>2. PhaseOf(r)' = "closed"
      BY <2>4 DEF PhaseOf
    <3>3. /\ plain' = plain
          /\ AnswerOf(r)' \in SUBSET (IF plain[r] THEN {row \in db : row.tenant = TenantOf[r]}
                                      ELSE Rows)
      <4>1. results'[r] \in Seq(Result)
        BY NextType DEF IInv, TypeOK
      <4>2. UNION {results'[r][i].rows : i \in DOMAIN results'[r]}
               \in SUBSET (IF SortsByColumns(query[r])
                          THEN {row \in db : row.tenant = TenantOf[r]} ELSE Rows)
        BY <3>1, <4>1, AnswerStored
      <4>3. plain' = plain /\ plain[r] = SortsByColumns(query[r])
        BY <2>1
      <4>4. AnswerOf(r)' = UNION {results'[r][i].rows : i \in DOMAIN results'[r]}
        BY <2>4 DEF AnswerOf
      <4> QED BY <4>2, <4>3, <4>4
    <3>4. /\ phase' = [phase EXCEPT ![r] = "closed"]
          /\ answer' = [answer EXCEPT ![r] = AnswerOf(r)']
          /\ phase[r] = "open"
      BY <2>2, <2>3, <3>2
    <3> QED BY <2>1, <3>3, <3>4 DEF Promise!Answer, Promise!Promised
  <2>5. CASE pc'[r] # "done"
    <3>1. PhaseOf(r)' = "open" /\ AnswerOf(r)' = {}
      BY <2>1, <2>5 DEF PhaseOf, AnswerOf
    <3>2. phase' = phase /\ plain' = plain /\ answer' = answer
      BY <2>1, <2>2, <2>3, <3>1
    <3> QED BY <2>1, <3>2 DEF Promise!vars
  <2> QED BY <2>4, <2>5
<1>3. ASSUME NEW batch \in Batches, Insert(batch) PROVE Promise!Insert(batch)
  <2>1. UNCHANGED <<pc, query, results>> /\ db' = db \cup batch
    BY <1>3 DEF Insert, request, execution
  <2>2. phase' = phase /\ plain' = plain /\ answer' = answer
    BY <2>1 DEF PhaseOf, AnswerOf
  <2> QED BY <2>1, <2>2 DEF Promise!Insert
<1>4. ASSUME UNCHANGED vars PROVE UNCHANGED Promise!vars
  BY <1>4 DEF vars, Promise!vars, PhaseOf, AnswerOf
<1> QED BY <1>1, <1>2, <1>3, <1>4 DEF Next, Promise!Next

\* However many statements a request takes and whatever fails between them,
\* the caller sees one answer, given in one step; for a request that sorts by
\* columns, of rows of its tenant that are stored at that step (handleQuery
\* and the executors it calls).
THEOREM Refinement == Spec => KeepsPromise
<1>1. Init => Promise!Init
  BY InitPromise
<1>2. IInv /\ [Next]_vars => [Promise!Next]_(Promise!vars)
  BY StepPromise
<1> QED BY <1>1, <1>2, Invariance, PTL DEF Spec, KeepsPromise, Promise!Spec

-----------------------------------------------------------------------------
(* Expand and correlate.                                                     *)

\* The rows of a table that belong to the request's tenant and to its traces.
OfTheTraces(r, table, rows) ==
    {row \in rows : /\ row.table = table
                    /\ row.tenant = TenantOf[r]
                    /\ row.trace \in TracesOf(base[r])}

\* What a correlate owes one of its signals.
Handled(r, signal) ==
    LET table == GetTableName(signal) IN
    \/ table = CurrentTable(r)
    \/ signal \in lost[r]
    \/ \E k \in DOMAIN results[r] :
          /\ results[r][k].table = table
          /\ OfTheTraces(r, table, seen[r]) \subseteq results[r][k].rows

Related(r) ==
    \A i \in DOMAIN results[r] :
        \/ i = 1 /\ results[r][1].rows = base[r]
        \/ \A row \in results[r][i].rows : row.trace \in TracesOf(base[r])

Remembered(r) == seen[r] \subseteq db

\* Between its statements a request holds the traces of its base; a correlate
\* has handled every signal that it does not hold any more.
Underway(r) ==
    /\ pc[r] \in {"idle", "translate", "base", "expand"} => results[r] = <<>>
    /\ pc[r] = "expand" =>
          Plan(r) \in {"expand", "correlate_expand"} /\ traces[r] = TracesOf(base[r])
    /\ pc[r] = "correlate" =>
          \/ Plan(r) = "correlate_expand" /\ traces[r] \subseteq TracesOf(base[r])
          \/ /\ Plan(r) = "correlate"
             /\ traces[r] = TracesOf(base[r])
             /\ \A i \in DOMAIN Last(sql[r].wraps).signals :
                   \/ Handled(r, Last(sql[r].wraps).signals[i])
                   \/ \E j \in DOMAIN pending[r] :
                         pending[r][j] = Last(sql[r].wraps).signals[i]

Delivered(r) ==
    Answered(r) =>
        /\ Plan(r) = "expand" =>
              /\ OfTheTraces(r, ExpandTable(r), seen[r]) \subseteq results[r][1].rows
              /\ results[r][1].rows \subseteq OfTheTraces(r, ExpandTable(r), db)
        /\ Plan(r) = "correlate" /\ TracesOf(base[r]) # {} =>
              \A i \in DOMAIN Last(sql[r].wraps).signals :
                  Handled(r, Last(sql[r].wraps).signals[i])

Traced(r) ==
    /\ Remembered(r)
    /\ Plan(r) \in {"correlate", "correlate_expand"} => Related(r)
    /\ Underway(r)
    /\ Delivered(r)

-----------------------------------------------------------------------------
(* Every step of a request keeps to the traces of its base.                  *)

\* The empty trace id aside, the executor collects the traces of the rows.
LEMMA TraceIdsOfRows ==
    ASSUME NEW rows \in SUBSET Rows
    PROVE  TraceIds(rows) = TracesOf(rows)
  BY QueryServerAssumption DEF TraceIds, TracesOf, Row

\* A request whose own variables stand still stays traced while rows arrive.
LEMMA TracedFrame ==
    ASSUME NEW r \in Requests, Traced(r), db \subseteq db',
           pc'[r] = pc[r], via'[r] = via[r], sql'[r] = sql[r], traces'[r] = traces[r],
           pending'[r] = pending[r], results'[r] = results[r], status'[r] = status[r],
           seen'[r] = seen[r], base'[r] = base[r], lost'[r] = lost[r]
    PROVE  Traced(r)'
<1>1. /\ Plan(r)' = Plan(r) /\ CurrentTable(r)' = CurrentTable(r)
      /\ ExpandTable(r)' = ExpandTable(r) /\ Answered(r)' = Answered(r)
  BY DEF Plan, CurrentTable, ExpandTable, Answered
<1>2. \A table, rows : OfTheTraces(r, table, rows)' = OfTheTraces(r, table, rows)
  BY DEF OfTheTraces, TracesOf
<1>3. OfTheTraces(r, ExpandTable(r), db) \subseteq OfTheTraces(r, ExpandTable(r), db')
  BY DEF OfTheTraces
<1>4. \A signal : Handled(r, signal)' = Handled(r, signal)
  BY <1>1 DEF Handled, OfTheTraces, TracesOf
<1>5. Remembered(r)'
  BY DEF Traced, Remembered
<1>6. Plan(r)' \in {"correlate", "correlate_expand"} => Related(r)'
  BY <1>1 DEF Traced, Related, TracesOf
<1>7. Underway(r)'
  BY <1>1, <1>4 DEF Traced, Underway, TracesOf
<1>8. Delivered(r)'
  BY <1>1, <1>2, <1>3, <1>4 DEF Traced, Delivered, OfTheTraces, TracesOf
<1> QED BY <1>5, <1>6, <1>7, <1>8 DEF Traced

\* No step of a request touches another one.
LEMMA OthersUntouched ==
    ASSUME TypeOK, NEW r \in Requests, Ask(r) \/ Handle(r), NEW s \in Requests \ {r}
    PROVE  /\ pc'[s] = pc[s] /\ via'[s] = via[s] /\ sql'[s] = sql[s]
           /\ traces'[s] = traces[s] /\ pending'[s] = pending[s]
           /\ results'[s] = results[s] /\ status'[s] = status[s]
           /\ seen'[s] = seen[s] /\ base'[s] = base[s] /\ lost'[s] = lost[s]
<1> USE DEF TypeOK, At, GoTo, Fail, Answer, request, translation, execution, history
<1>0. CASE Ask(r)
  BY <1>0 DEF Ask, Submit
<1>1. CASE TranslateNext(r) \/ RejectNext(r) \/ FinishTranslation(r)
  BY <1>1 DEF TranslateNext, RejectNext, FinishTranslation
<1>2. CASE RefuseBase(r) \/ RunPlain(r) \/ BaseWithoutTraceColumn(r)
  BY <1>2 DEF RefuseBase, RunPlain, BaseWithoutTraceColumn
<1>3. CASE RunExpandBase(r) \/ RunCorrelateBase(r)
  BY <1>3 DEF RunExpandBase, RunCorrelateBase
<1>4. CASE RunExpand(r) \/ RefuseExpand(r)
  BY <1>4 DEF RunExpand, RefuseExpand
<1>5. CASE SkipSignal(r) \/ CorrelateSignal(r) \/ RefuseSignal(r) \/ FinishCorrelate(r)
  BY <1>5 DEF SkipSignal, CorrelateSignal, RefuseSignal, FinishCorrelate, PassOverSignal
<1>6. CASE OutageFatal(r) \/ OutageOfSignal(r)
  BY <1>6 DEF OutageFatal, OutageOfSignal, PassOverSignal
<1> QED BY <1>0, <1>1, <1>2, <1>3, <1>4, <1>5, <1>6 DEF Handle

\* A request that begins remembers what is stored, and holds no rows.
LEMMA AskTraced ==
    ASSUME TypeOK, NEW r \in Requests, Traced(r), Ask(r)
    PROVE  Traced(r)'
<1>1. /\ pc[r] = "idle" /\ pc'[r] = "translate" /\ db' = db
      /\ results' = results /\ seen' = seen /\ base' = base
  BY DEF Ask, Submit, At, GoTo, TypeOK, execution, history
<1>2. results[r] = <<>>
  BY <1>1 DEF Traced, Underway
<1> QED BY <1>1, <1>2 DEF Traced, Remembered, Related, Underway, Delivered, Answered

\* The translation touches no rows.
LEMMA TranslateTraced ==
    ASSUME TypeOK, NEW r \in Requests, Traced(r), TranslateNext(r) \/ FinishTranslation(r)
    PROVE  Traced(r)'
<1>1. /\ pc[r] = "translate" /\ pc'[r] \in {"translate", "base"} /\ db' = db
      /\ results' = results /\ seen' = seen /\ base' = base
  BY DEF TranslateNext, FinishTranslation, At, GoTo, TypeOK, execution, history
<1>2. results[r] = <<>>
  BY <1>1 DEF Traced, Underway
<1> QED BY <1>1, <1>2 DEF Traced, Remembered, Related, Underway, Delivered, Answered

\* A request that fails answers nothing.
LEMMA FailTraced ==
    ASSUME TypeOK, NEW r \in Requests, Traced(r), Fail(r), db' = db,
           seen'[r] \subseteq db
    PROVE  Traced(r)'
<1>1. pc'[r] = "done" /\ status'[r] = "error" /\ results'[r] = <<>>
  BY DEF Fail, Answer, GoTo, TypeOK
<1> QED BY <1>1 DEF Traced, Remembered, Related, Underway, Delivered, Answered

\* A request that is refused answers no rows.
LEMMA RefusalsTraced ==
    ASSUME TypeOK, NEW r \in Requests, Traced(r),
           \/ RejectNext(r) \/ RefuseBase(r) \/ BaseWithoutTraceColumn(r)
           \/ RefuseExpand(r) \/ OutageFatal(r)
    PROVE  Traced(r)'
<1>1. Fail(r) /\ db' = db /\ seen' = seen /\ base' = base
  BY DEF RejectNext, RefuseBase, BaseWithoutTraceColumn, RefuseExpand, OutageFatal, history
<1> QED BY <1>1, FailTraced DEF Traced, Remembered

\* The trace ids of what the base statement returns are its traces.
LEMMA BaseRun ==
    ASSUME TypeOK, NEW r \in Requests, NEW rows \in Returned(sql[r].stmt, db),
           base' = [base EXCEPT ![r] = rows], seen' = [seen EXCEPT ![r] = db]
    PROVE  /\ base'[r] = rows /\ seen'[r] = db
           /\ TraceIds(rows) = TracesOf(rows)
<1>1. rows \in SUBSET Rows
  BY ReturnedType DEF TypeOK
<1> QED BY <1>1, TraceIdsOfRows DEF TypeOK

\* The statement of a plain query: its rows are the base.
LEMMA RunPlainTraced ==
    ASSUME TypeOK, NEW r \in Requests, Traced(r), RunPlain(r)
    PROVE  Traced(r)'
<1>1. PICK rows \in Returned(sql[r].stmt, db) : base' = [base EXCEPT ![r] = rows]
  BY DEF RunPlain
<1>2. /\ seen' = [seen EXCEPT ![r] = db] /\ Plan(r) = "direct"
      /\ pc'[r] = "done" /\ UNCHANGED <<db, via, sql>>
  BY DEF RunPlain, Answer, GoTo, TypeOK, request, translation
<1>3. Plan(r)' = "direct"
  BY <1>2 DEF Plan
<1>4. Remembered(r)'
  BY <1>1, <1>2, BaseRun DEF Remembered
<1> QED BY <1>2, <1>3, <1>4 DEF Traced, Underway, Delivered

\* The first statement of an expand fixes the traces it asks for.
LEMMA RunExpandBaseTraced ==
    ASSUME TypeOK, NEW r \in Requests, Traced(r), RunExpandBase(r)
    PROVE  Traced(r)'
<1> DEFINE none == [table |-> "none", columns |-> {}, rows |-> {}]
<1>1. PICK rows \in Returned(sql[r].stmt, db) :
          /\ base' = [base EXCEPT ![r] = rows]
          /\ traces' = [traces EXCEPT ![r] = TraceIds(rows)]
          /\ \/ GoTo(r, "expand") /\ UNCHANGED <<results, status>>
             \/ TraceIds(rows) = {} /\ Plan(r) = "expand" /\ Answer(r, "ok", <<none>>)
             \/ Fail(r)
  BY DEF RunExpandBase
<1>2. /\ seen' = [seen EXCEPT ![r] = db] /\ pc[r] = "base"
      /\ Plan(r) \in {"expand", "correlate_expand"}
      /\ UNCHANGED <<db, via, sql>>
  BY DEF RunExpandBase, At, request, translation
<1>3. /\ base'[r] = rows /\ seen'[r] = db
      /\ TraceIds(rows) = TracesOf(rows)
  BY <1>1, <1>2, BaseRun
<1>4. Remembered(r)'
  BY <1>2, <1>3 DEF Remembered
<1>5. results[r] = <<>>
  BY <1>2 DEF Traced, Underway
<1>6. Plan(r)' = Plan(r)
  BY <1>2 DEF Plan
<1>7. CASE GoTo(r, "expand") /\ UNCHANGED <<results, status>>
  <2>1. pc'[r] = "expand" /\ results'[r] = <<>> /\ traces'[r] = TracesOf(base'[r])
    BY <1>1, <1>3, <1>5, <1>7 DEF GoTo, TypeOK
  <2> QED BY <1>2, <1>4, <1>6, <2>1 DEF Traced, Related, Underway, Delivered, Answered, TracesOf
<1>8. CASE TraceIds(rows) = {} /\ Plan(r) = "expand" /\ Answer(r, "ok", <<none>>)
  <2>1. pc'[r] = "done" /\ results'[r] = <<none>> /\ TracesOf(base'[r]) = {}
    BY <1>3, <1>8 DEF Answer, GoTo, TypeOK
  <2>2. results'[r][1].rows = {}
    BY <2>1
  <2>3. \A table, rs : OfTheTraces(r, table, rs)' = {}
    BY <2>1 DEF OfTheTraces, TracesOf
  <2> QED BY <1>4, <1>6, <1>8, <2>1, <2>2, <2>3 DEF Traced, Underway, Delivered
<1>9. CASE Fail(r)
  BY <1>2, <1>3, <1>9, FailTraced
<1> QED BY <1>1, <1>7, <1>8, <1>9

\* The second statement of an expand sees every row the first could see.
LEMMA RunExpandTraced ==
    ASSUME TypeOK, NEW r \in Requests, Traced(r), RunExpand(r)
    PROVE  Traced(r)'
<1> DEFINE rows == FollowUp(ExpandTable(r), TenantOf[r], traces[r])
           set == [table |-> ExpandTable(r),
                   columns |-> FilterTenantID(r, Columns(ExpandTable(r))), rows |-> rows]
<1>1. /\ pc[r] = "expand" /\ UNCHANGED <<db, via, sql, seen, base>>
      /\ Plan(r) \in {"expand", "correlate_expand"}
      /\ traces[r] = TracesOf(base[r]) /\ results[r] = <<>>
  BY DEF RunExpand, At, request, translation, history, Traced, Underway
<1>2. Plan(r)' = Plan(r) /\ ExpandTable(r)' = ExpandTable(r)
  BY <1>1 DEF Plan, ExpandTable
<1>3. Remembered(r)'
  BY <1>1 DEF Traced, Remembered
<1>4. CASE Plan(r) = "expand" /\ Answer(r, "ok", <<set>>)
  <2>1. pc'[r] = "done" /\ results'[r] = <<set>>
    BY <1>4 DEF Answer, GoTo, TypeOK
  <2>2. results'[r][1].rows = OfTheTraces(r, ExpandTable(r), db)
    BY <1>1, <2>1 DEF FollowUp, OfTheTraces
  <2>3. \A all : OfTheTraces(r, ExpandTable(r), all)' = OfTheTraces(r, ExpandTable(r), all')
    BY <1>1, <1>2 DEF OfTheTraces, TracesOf
  <2>4. OfTheTraces(r, ExpandTable(r), seen[r]) \subseteq OfTheTraces(r, ExpandTable(r), db)
    BY DEF Traced, Remembered, OfTheTraces
  <2>5. Delivered(r)'
    BY <1>1, <1>2, <1>4, <2>2, <2>3, <2>4 DEF Delivered
  <2> QED BY <1>2, <1>3, <1>4, <2>1, <2>5 DEF Traced, Underway
<1>5. CASE /\ Plan(r) = "correlate_expand"
           /\ traces' = [traces EXCEPT ![r] = TraceIds(rows)]
           /\ GoTo(r, "correlate")
           /\ UNCHANGED results
  <2>1. pc'[r] = "correlate" /\ traces'[r] = TraceIds(rows)
    BY <1>5 DEF GoTo, TypeOK
  <2>2. TraceIds(rows) \subseteq TracesOf(base[r])
    BY <1>1 DEF FollowUp, TraceIds
  <2> QED BY <1>1, <1>2, <1>3, <1>5, <2>1, <2>2
          DEF Traced, Related, Underway, Delivered, Answered, TracesOf
<1>6. CASE Plan(r) = "correlate_expand" /\ Answer(r, "ok", <<>>)
  <2>1. pc'[r] = "done" /\ results'[r] = <<>>
    BY <1>6 DEF Answer, GoTo, TypeOK
  <2> QED BY <1>2, <1>3, <1>6, <2>1 DEF Traced, Related, Underway, Delivered
<1> QED BY <1>4, <1>5, <1>6 DEF RunExpand

\* The first statement of a correlate leaves every signal to be asked.
LEMMA RunCorrelateBaseTraced ==
    ASSUME TypeOK, NEW r \in Requests, Traced(r), RunCorrelateBase(r)
    PROVE  Traced(r)'
<1> DEFINE Opening(rows) ==
        [table |-> sql[r].stmt.table,
         columns |-> FilterTenantID(r, OutputColumns(sql[r].stmt)), rows |-> rows]
<1>1. PICK rows \in Returned(sql[r].stmt, db) :
          /\ base' = [base EXCEPT ![r] = rows]
          /\ traces' = [traces EXCEPT ![r] = TraceIds(rows)]
          /\ \/ TraceIds(rows) = {} /\ Answer(r, "ok", <<>>)
             \/ /\ results' = [results EXCEPT ![r] = <<Opening(rows)>>]
                /\ pending' = [pending EXCEPT ![r] = Last(sql[r].wraps).signals]
                /\ GoTo(r, "correlate")
  BY DEF RunCorrelateBase
<1>2. /\ seen' = [seen EXCEPT ![r] = db] /\ Plan(r) = "correlate"
      /\ UNCHANGED <<db, via, sql>>
  BY DEF RunCorrelateBase, request, translation
<1>3. /\ base'[r] = rows /\ seen'[r] = db
      /\ TraceIds(rows) = TracesOf(rows)
  BY <1>1, <1>2, BaseRun
<1>4. Remembered(r)' /\ Plan(r)' = "correlate"
  BY <1>2, <1>3 DEF Remembered, Plan
<1>5. CASE TraceIds(rows) = {} /\ Answer(r, "ok", <<>>)
  <2>1. pc'[r] = "done" /\ results'[r] = <<>> /\ TracesOf(base'[r]) = {}
    BY <1>3, <1>5 DEF Answer, GoTo, TypeOK
  <2> QED BY <1>4, <2>1 DEF Traced, Related, Underway, Delivered, TracesOf
<1>6. CASE /\ results' = [results EXCEPT ![r] = <<Opening(rows)>>]
           /\ pending' = [pending EXCEPT ![r] = Last(sql[r].wraps).signals]
           /\ GoTo(r, "correlate")
  <2>1. /\ pc'[r] = "correlate" /\ results'[r] = <<Opening(rows)>>
        /\ pending'[r] = Last(sql[r].wraps).signals
        /\ traces'[r] = TracesOf(base'[r])
    BY <1>1, <1>3, <1>6 DEF GoTo, TypeOK
  <2>2. Related(r)'
    BY <1>3, <2>1 DEF Related
  <2>3. Underway(r)'
    BY <1>2, <1>4, <2>1 DEF Underway, TracesOf
  <2> QED BY <1>4, <2>1, <2>2, <2>3 DEF Traced, Delivered, Answered
<1> QED BY <1>1, <1>5, <1>6

\* What was handled stays handled while result sets are only added.
LEMMA HandledKept ==
    ASSUME NEW r \in Requests, NEW signal, Handled(r, signal),
           CurrentTable(r)' = CurrentTable(r), lost[r] \subseteq lost'[r],
           seen'[r] = seen[r], base'[r] = base[r],
           \A k \in DOMAIN results[r] :
              k \in DOMAIN results'[r] /\ results'[r][k] = results[r][k]
    PROVE  Handled(r, signal)'
<1> DEFINE table == GetTableName(signal)
<1>1. OfTheTraces(r, table, seen[r])' = OfTheTraces(r, table, seen[r])
  BY DEF OfTheTraces, TracesOf
<1>2. CASE table = CurrentTable(r) \/ signal \in lost[r]
  BY <1>2 DEF Handled
<1>3. CASE \E k \in DOMAIN results[r] :
              /\ results[r][k].table = table
              /\ OfTheTraces(r, table, seen[r]) \subseteq results[r][k].rows
  BY <1>1, <1>3 DEF Handled
<1> QED BY <1>2, <1>3 DEF Handled

\* What is not the first element is in the rest.
LEMMA TailElements ==
    ASSUME NEW S, NEW s \in Seq(S), s # <<>>, NEW j \in DOMAIN s, j # 1
    PROVE  j - 1 \in DOMAIN Tail(s) /\ Tail(s)[j - 1] = s[j]
  OBVIOUS

LEMMA HeadIsFirst ==
    ASSUME NEW S, NEW s \in Seq(S)
    PROVE  Head(s) = s[1]
  OBVIOUS

\* A step of the loop over the signals: the head of the list is handled, and
\* nothing of what was handled before is undone.
LEMMA SignalStepTraced ==
    ASSUME TypeOK, NEW r \in Requests, Traced(r), pc[r] = "correlate",
           pending[r] # <<>>, pending' = [pending EXCEPT ![r] = Tail(pending[r])],
           UNCHANGED <<db, pc, via, sql, traces, status, seen, base>>,
           \A signal : Handled(r, signal) => Handled(r, signal)',
           \A signal : Plan(r) = "correlate" /\ signal = Head(pending[r]) => Handled(r, signal)',
           Related(r)'
    PROVE  Traced(r)'
<1>1. Plan(r)' = Plan(r) /\ Last(sql[r].wraps).signals' = Last(sql[r].wraps).signals
  BY DEF Plan
<1>2. pending'[r] = Tail(pending[r]) /\ pending[r] \in Seq(Signals)
  BY DEF TypeOK
<1>3. \A j \in DOMAIN pending[r] :
         \/ pending[r][j] = Head(pending[r])
         \/ \E k \in DOMAIN pending'[r] : pending'[r][k] = pending[r][j]
  <2>1. SUFFICES ASSUME NEW j \in DOMAIN pending[r], j # 1
                 PROVE  \E k \in DOMAIN pending'[r] : pending'[r][k] = pending[r][j]
    <3>1. Head(pending[r]) = pending[r][1]
      BY <1>2, HeadIsFirst
    <3>2. \A j \in DOMAIN pending[r] : j = 1 => pending[r][j] = Head(pending[r])
      BY <3>1, Zenon
    <3> QED BY <3>2, Zenon
  <2>2. j - 1 \in DOMAIN pending'[r] /\ pending'[r][j - 1] = pending[r][j]
    BY <1>2, <2>1, TailElements
  <2> QED BY <2>2
<1>4. Underway(r)'
  <2>1. CASE Plan(r) = "correlate_expand"
    BY <1>1, <2>1 DEF Traced, Underway, TracesOf
  <2>2. CASE Plan(r) = "correlate"
    <3>1. ASSUME NEW i \in DOMAIN Last(sql[r].wraps).signals,
                 NEW signal, signal = Last(sql[r].wraps).signals[i]
          PROVE  \/ Handled(r, signal)'
                 \/ \E k \in DOMAIN pending'[r] : pending'[r][k] = signal
      <4>1. CASE Handled(r, signal)
        BY <4>1
      <4>2. CASE \E j \in DOMAIN pending[r] : pending[r][j] = signal
        <5>1. signal = Head(pending[r]) \/ \E k \in DOMAIN pending'[r] : pending'[r][k] = signal
          BY <1>3, <4>2
        <5> QED BY <2>2, <5>1
      <4> QED BY <3>1, <4>1, <4>2, <2>2 DEF Traced, Underway
    <3>2. sql' = sql /\ traces'[r] = TracesOf(base'[r])
      BY <2>2 DEF Traced, Underway, TracesOf
    <3> QED BY <1>1, <2>2, <3>1, <3>2 DEF Underway, TracesOf
  <2> QED BY <2>1, <2>2 DEF Traced, Underway
<1>5. Remembered(r)'
  BY DEF Traced, Remembered
<1> QED BY <1>4, <1>5 DEF Traced, Delivered, Answered

\* The three ways a signal is handled without a result set of its own.
LEMMA PassedOverTraced ==
    ASSUME TypeOK, NEW r \in Requests, Traced(r),
           SkipSignal(r) \/ RefuseSignal(r) \/ OutageOfSignal(r)
    PROVE  Traced(r)'
<1>1. /\ pc[r] = "correlate" /\ pending[r] # <<>>
      /\ pending' = [pending EXCEPT ![r] = Tail(pending[r])]
      /\ UNCHANGED <<db, pc, via, sql, traces, results, status, seen, base>>
      /\ \/ lost' = lost /\ SignalTable(r) = CurrentTable(r)
         \/ lost' = [lost EXCEPT ![r] = lost[r] \cup {Head(pending[r])}]
  BY DEF SkipSignal, RefuseSignal, OutageOfSignal, PassOverSignal, At, request,
     translation, history
<1>2. CurrentTable(r)' = CurrentTable(r) /\ lost[r] \subseteq lost'[r]
  BY <1>1 DEF CurrentTable, TypeOK
<1>3. \A signal : Handled(r, signal) => Handled(r, signal)'
  BY <1>1, <1>2, HandledKept
<1>4. \A signal : signal = Head(pending[r]) => Handled(r, signal)'
  <2>1. \/ Head(pending[r]) \in lost'[r]
        \/ GetTableName(Head(pending[r])) = CurrentTable(r)'
    BY <1>1, <1>2 DEF SignalTable, TypeOK
  <2> SUFFICES ASSUME NEW signal, signal = Head(pending[r])
               PROVE  Handled(r, signal)'
    OBVIOUS
  <2> QED BY <2>1 DEF Handled
<1>5. Related(r)'
  BY <1>1 DEF Traced, Underway, Related, TracesOf
<1> QED BY <1>1, <1>3, <1>4, <1>5, SignalStepTraced

\* One signal of a correlate is asked, or lost, and the others are left.
LEMMA CorrelateSignalTraced ==
    ASSUME TypeOK, NEW r \in Requests, Traced(r), CorrelateSignal(r)
    PROVE  Traced(r)'
<1> DEFINE table == SignalTable(r)
           rows == FollowUp(table, TenantOf[r], traces[r])
           set == [table |-> table, columns |-> FilterTenantID(r, Columns(table)),
                   rows |-> rows]
<1>1. /\ pc[r] = "correlate" /\ pending[r] # <<>>
      /\ pending' = [pending EXCEPT ![r] = Tail(pending[r])]
      /\ UNCHANGED <<db, pc, via, sql, traces, status, seen, base, lost>>
      /\ results' = [results EXCEPT ![r] = Append(results[r], set)]
  BY DEF CorrelateSignal, At, request, translation, history
<1>2. set.table = table /\ set.rows = rows /\ table = GetTableName(Head(pending[r]))
  BY DEF SignalTable
<1>3. rows \subseteq db /\ \A row \in rows : row.trace \in traces[r]
  BY DEF FollowUp
<1>4. OfTheTraces(r, table, seen[r]) \subseteq rows \/ Plan(r) # "correlate"
  BY <1>1 DEF Traced, Underway, Remembered, OfTheTraces, FollowUp
<1> HIDE DEF set, rows, table
<1>5. LET n == Len(results[r]) IN
         /\ n \in Nat /\ DOMAIN results[r] = 1 .. n
         /\ DOMAIN results'[r] = 1 .. n + 1
         /\ results'[r][n + 1] = set
         /\ \A i \in 1 .. n : results'[r][i] = results[r][i]
  BY <1>1 DEF TypeOK
<1>6. CurrentTable(r)' = CurrentTable(r)
  BY <1>1 DEF CurrentTable
<1>7. \A signal : Handled(r, signal) => Handled(r, signal)'
  BY <1>1, <1>5, <1>6, HandledKept
<1>8. \A signal : Plan(r) = "correlate" /\ signal = Head(pending[r]) => Handled(r, signal)'
  <2> SUFFICES ASSUME NEW signal, signal = Head(pending[r]), Plan(r) = "correlate"
               PROVE  Handled(r, signal)'
    OBVIOUS
  <2>1. \E k \in DOMAIN results'[r] :
           results'[r][k].table = GetTableName(signal) /\ results'[r][k].rows = rows
    BY <1>2, <1>5
  <2>2. OfTheTraces(r, GetTableName(signal), seen[r])' \subseteq rows
    BY <1>1, <1>2, <1>4 DEF OfTheTraces, TracesOf
  <2> QED BY <2>1, <2>2 DEF Handled, OfTheTraces, TracesOf
<1>9. Related(r)'
  <2>1. Related(r) /\ traces[r] \subseteq TracesOf(base[r])
    BY <1>1 DEF Traced, Underway
  <2>2. \A row \in rows : row.trace \in TracesOf(base[r])
    BY <1>3, <2>1
  <2> QED BY <1>1, <1>2, <1>5, <2>1, <2>2 DEF Related, TracesOf
<1> QED BY <1>1, <1>7, <1>8, <1>9, SignalStepTraced

\* A correlate with no signal left has handled every one.
LEMMA FinishCorrelateTraced ==
    ASSUME TypeOK, NEW r \in Requests, Traced(r), FinishCorrelate(r)
    PROVE  Traced(r)'
<1>1. /\ pc[r] = "correlate" /\ pending[r] = <<>>
      /\ UNCHANGED <<db, via, sql, traces, pending, seen, base, lost>>
      /\ Answer(r, "ok", results[r])
  BY DEF FinishCorrelate, At, request, translation, history
<1>2. pc'[r] = "done" /\ results'[r] = results[r]
  BY <1>1 DEF Answer, GoTo, TypeOK
<1>3. Plan(r)' = Plan(r) /\ CurrentTable(r)' = CurrentTable(r)
  BY <1>1 DEF Plan, CurrentTable
<1>4. \A signal : Handled(r, signal) => Handled(r, signal)'
  BY <1>1, <1>2, <1>3, HandledKept
<1>5. Remembered(r)' /\ Related(r)' /\ Underway(r)'
  BY <1>1, <1>2, <1>3 DEF Traced, Remembered, Related, Underway, TracesOf
<1>6. Plan(r) # "expand" /\ (Plan(r) = "correlate" =>
         \A i \in DOMAIN Last(sql[r].wraps).signals : Handled(r, Last(sql[r].wraps).signals[i]))
  BY <1>1 DEF Traced, Underway
<1>7. Delivered(r)'
  BY <1>1, <1>3, <1>4, <1>6 DEF Delivered
<1> QED BY <1>5, <1>7 DEF Traced

\* Every step keeps every request to the traces of its base.
LEMMA NextTraced ==
    ASSUME TypeOK, \A r \in Requests : Traced(r), [Next]_vars
    PROVE  \A r \in Requests : Traced(r)'
<1>1. ASSUME NEW r \in Requests, Ask(r) \/ Handle(r), NEW s \in Requests
      PROVE  Traced(s)'
  <2>1. CASE s = r
    BY <1>1, <2>1, AskTraced, TranslateTraced, RefusalsTraced, RunPlainTraced,
       RunExpandBaseTraced, RunExpandTraced, RunCorrelateBaseTraced, PassedOverTraced,
       CorrelateSignalTraced, FinishCorrelateTraced DEF Handle
  <2>2. CASE s # r
    <3>1. db' = db
      BY <1>1, HandleFrame DEF Ask, Submit
    <3> QED BY <1>1, <2>2, <3>1, OthersUntouched, TracedFrame
  <2> QED BY <2>1, <2>2
<1>2. ASSUME NEW batch \in Batches, Insert(batch), NEW s \in Requests
      PROVE  Traced(s)'
  BY <1>2, TracedFrame DEF Insert, request, translation, execution, history
<1>3. ASSUME UNCHANGED vars, NEW s \in Requests
      PROVE  Traced(s)'
  BY <1>3, TracedFrame DEF vars
<1> QED BY <1>1, <1>2, <1>3 DEF Next

AllTraced == \A r \in Requests : Traced(r)

LEMMA TracedAlways == Spec => []AllTraced
<1>1. Init => AllTraced
  BY DEF Init, AllTraced, Traced, Remembered, Related, Underway, Delivered, Answered
<1>2. TypeOK /\ AllTraced /\ [Next]_vars => AllTraced'
  BY NextTraced DEF AllTraced
<1> QED BY <1>1, <1>2, TypeCorrect, PTL DEF Spec

\* Whatever arrives between the two statements of executeExpandQuery, the
\* answer of an expand holds every row of the base's traces that was stored
\* when the base ran, and rows of those traces alone.
THEOREM ExpandCompleteness == Spec => []ExpandComplete
<1>1. AllTraced => ExpandComplete
  BY DEF AllTraced, Traced, Delivered, OfTheTraces, ExpandComplete
<1> QED BY <1>1, TracedAlways, PTL

\* What executeCorrelateQuery adds to its base belongs to the traces of the
\* base, through any number of signals and whatever comes of each.
THEOREM CorrelatedRows == Spec => []CorrelatedByTrace
<1>1. AllTraced => CorrelatedByTrace
  BY DEF AllTraced, Traced, Related, CorrelatedByTrace
<1> QED BY <1>1, TracedAlways, PTL

\* A correlate that is answered has a result set for each signal asked for,
\* unless the signal is the base's own or its statement failed, and the set
\* misses no row of the base's traces that was stored when the base ran.
THEOREM CorrelateCompleteness == Spec => []CorrelateComplete
<1>1. AllTraced => CorrelateComplete
  BY DEF AllTraced, Traced, Delivered, Handled, OfTheTraces, CorrelateComplete
<1> QED BY <1>1, TracedAlways, PTL

-----------------------------------------------------------------------------
(* The conditions of the base.                                               *)

MarkerKinds == {"expand", "correlate"}

\* Operation s is the last of the first n that switches the signal; 0 if none does.
SwitchedAt(q, n, s) ==
    /\ s \in 0 .. n
    /\ s # 0 => q.ops[s].kind = "switch_context"
    /\ \A i \in s + 1 .. n : q.ops[i].kind # "switch_context"

\* No marker was put around the text from operation s up to operation i.
Bare(q, s, i) == \A j \in s + 1 .. i : q.ops[j].kind \notin MarkerKinds

\* The statement in the text t is what the first n operations of q ask for.
StandsFor(t, q, n, s) ==
    /\ SwitchedAt(q, n, s)
    /\ t.stmt.table = GetTableName(IF s = 0 THEN q.signal ELSE q.ops[s].signal)
    /\ t.stmt.rootOnly <=> s = 0 /\ q.signal = "traces"
    /\ t.wraps = <<>> <=> Bare(q, s, n)
    /\ \A mark \in Marks :
          Admits(t.stmt.clauses, mark) <=>
              \A i \in s + 1 .. n : q.ops[i].kind \in ConditionKinds /\ Bare(q, s, i)
                                       => mark \in q.ops[i].cond.marks
    /\ Limits(t.stmt) # {} => \E j \in 1 .. n : q.ops[j].kind = "limit"

\* How many operations of its query a request has translated.
Translated(r) == Len(query[r].ops) - Len(todo[r])

\* What is left to translate is the rest of the query.
TodoIsRest(r) ==
    /\ Translated(r) >= 0
    /\ \A i \in DOMAIN todo[r] : todo[r][i] = query[r].ops[Translated(r) + i]

Honoured(r) ==
    LET asked == Selected(query[r], TenantOf[r], seen[r]) IN
    /\ pc[r] = "idle" => base[r] = {}
    /\ pc[r] \in {"translate", "base"} =>
          /\ base[r] = {}
          /\ TodoIsRest(r)
          /\ \E s \in 0 .. Translated(r) : StandsFor(sql[r], query[r], Translated(r), s)
    /\ pc[r] = "base" => todo[r] = <<>>
    /\ SortsByColumns(query[r]) =>
          /\ base[r] \subseteq asked
          /\ (pc[r] \in {"expand", "correlate"} \/ Answered(r))
             /\ KindsOf(query[r], {"limit"}) = {} => base[r] = asked

-----------------------------------------------------------------------------
(* What one operation does to the statement in the text. *)

\* A further clause admits a row only if it admits it too.
LEMMA AdmitsAppend ==
    ASSUME NEW clauses \in Seq(Clause), NEW clause \in Clause, NEW mark
    PROVE  Admits(Append(clauses, clause), mark) <=>
              Admits(clauses, mark) /\ (clause.kind = "and" => mark \in clause.marks)
<1> DEFINE more == Append(clauses, clause)
<1>1. /\ \A i \in DOMAIN clauses : i \in DOMAIN more /\ more[i] = clauses[i]
      /\ Len(more) \in DOMAIN more /\ more[Len(more)] = clause
      /\ \A i \in DOMAIN more : i = Len(more) \/ i \in DOMAIN clauses
  OBVIOUS
<1> QED BY <1>1 DEF Admits

\* A further clause is the only one that can add a limit.
LEMMA LimitsAppend ==
    ASSUME NEW s \in Statement, NEW t \in Statement, NEW clause \in Clause,
           t.clauses = Append(s.clauses, clause), Limits(t) # {}
    PROVE  Limits(s) # {} \/ clause.kind = "limit"
<1>1. s.clauses \in Seq(Clause)
  BY DEF Statement
<1>2. \A i \in DOMAIN t.clauses :
         t.clauses[i] = clause \/ (i \in DOMAIN s.clauses /\ t.clauses[i] = s.clauses[i])
  BY <1>1
<1> QED BY <1>2 DEF Limits

\* From t to u the statement gains a condition that the marks satisfy.
Adds(t, u, marks) ==
    /\ u.stmt.table = t.stmt.table
    /\ u.stmt.rootOnly = t.stmt.rootOnly
    /\ u.wraps = <<>> <=> t.wraps = <<>>
    /\ \A mark \in Marks :
          Admits(u.stmt.clauses, mark) <=>
              Admits(t.stmt.clauses, mark) /\ (t.wraps = <<>> => mark \in marks)

\* Text is appended to the statement while no marker stands around it.
LEMMA AppendClauseStmt ==
    ASSUME NEW t \in Translation, NEW clause \in Clause
    PROVE  LET u == AppendClause(t, clause) IN
           /\ u \in Translation
           /\ u.wraps = <<>> <=> t.wraps = <<>>
           /\ t.wraps # <<>> => u.stmt = t.stmt
           /\ t.wraps = <<>> => u.stmt = [t.stmt EXCEPT !.clauses = Append(t.stmt.clauses, clause)]
<1>1. AppendClause(t, clause) \in Translation
  BY AppendClauseType
<1>2. CASE t.wraps = <<>>
  <2>1. AppendClause(t, clause) =
           [t EXCEPT !.stmt = [t.stmt EXCEPT !.clauses = Append(t.stmt.clauses, clause)]]
    BY <1>2 DEF AppendClause
  <2> QED BY <1>1, <1>2, <2>1 DEF Translation
<1>3. CASE t.wraps # <<>>
  <2> DEFINE last == Len(t.wraps)
             wrap == [t.wraps[last] EXCEPT !.tail = Append(t.wraps[last].tail, clause)]
             wraps == [t.wraps EXCEPT ![last] = wrap]
  <2>1. AppendClause(t, clause) = [t EXCEPT !.wraps = wraps]
    BY <1>3 DEF AppendClause
  <2>2. wraps # <<>>
    BY <1>3 DEF Translation
  <2> HIDE DEF wraps
  <2> QED BY <1>1, <1>3, <2>1, <2>2 DEF Translation
<1> QED BY <1>2, <1>3

\* Appending a clause to a text adds its condition, if it is one.
LEMMA AppendClauseAdds ==
    ASSUME NEW t \in Translation, NEW clause \in Clause
    PROVE  /\ Adds(t, AppendClause(t, clause),
                   IF clause.kind = "and" THEN clause.marks ELSE Marks)
           /\ Limits(AppendClause(t, clause).stmt) # {} =>
                 Limits(t.stmt) # {} \/ clause.kind = "limit"
<1> DEFINE u == AppendClause(t, clause)
<1>1. /\ u \in Translation
      /\ u.wraps = <<>> <=> t.wraps = <<>>
      /\ t.wraps # <<>> => u.stmt = t.stmt
      /\ t.wraps = <<>> => u.stmt = [t.stmt EXCEPT !.clauses = Append(t.stmt.clauses, clause)]
  BY AppendClauseStmt
<1>2. t.stmt \in Statement /\ u.stmt \in Statement /\ t.stmt.clauses \in Seq(Clause)
  BY <1>1 DEF Translation, Statement
<1> HIDE DEF u
<1>3. CASE t.wraps # <<>>
  BY <1>1, <1>3 DEF Adds, u
<1>4. CASE t.wraps = <<>>
  <2>1. /\ u.stmt.clauses = Append(t.stmt.clauses, clause)
        /\ u.stmt.table = t.stmt.table /\ u.stmt.rootOnly = t.stmt.rootOnly
    BY <1>1, <1>2, <1>4 DEF Statement
  <2>2. \A mark : Admits(u.stmt.clauses, mark) <=>
                     Admits(t.stmt.clauses, mark) /\ (clause.kind = "and" => mark \in clause.marks)
    BY <1>2, <2>1, AdmitsAppend
  <2>3. Limits(u.stmt) # {} => Limits(t.stmt) # {} \/ clause.kind = "limit"
    BY <1>2, <2>1, LimitsAppend
  <2> QED BY <1>1, <1>4, <2>1, <2>2, <2>3 DEF Adds, u
<1> QED BY <1>3, <1>4

\* Rewriting the select list adds no condition and no limit.
LEMMA ReplaceStarAdds ==
    ASSUME NEW t \in Translation, NEW select
    PROVE  LET u == ReplaceStar(t, select) IN
           /\ Adds(t, u, Marks) /\ Limits(u.stmt) = Limits(t.stmt)
           /\ u.wraps = t.wraps /\ u.groupBy = t.groupBy
  BY DEF ReplaceStar, Adds, Limits, Translation, Statement

\* An operation that is neither a condition, nor a marker, nor a switch leaves
\* the conditions of the statement as they are; only a limit adds a limit.
LEMMA PlainOpAdds ==
    ASSUME NEW t \in Translation, NEW op \in Operation, ~Rejected(op),
           op.kind \notin MarkerKinds \cup {"switch_context"}
    PROVE  LET u == TranslateOp(t, op) IN
           /\ Adds(t, u, IF op.kind \in ConditionKinds THEN op.cond.marks ELSE Marks)
           /\ Limits(u.stmt) # {} => Limits(t.stmt) # {} \/ op.kind = "limit"
<1> USE OperationFields
<1>1. CASE op.kind \in ConditionKinds
  <2>1. TranslateOp(t, op) = AppendClause(t, And(op.cond)) /\ And(op.cond) \in Clause
    BY <1>1, ClauseTypes DEF TranslateOp, ConditionKinds
  <2>2. And(op.cond).kind = "and" /\ And(op.cond).marks = op.cond.marks
    BY DEF And
  <2> QED BY <1>1, <2>1, <2>2, AppendClauseAdds
<1>2. CASE op.kind = "limit"
  <2>1. TranslateOp(t, op) = AppendClause(t, Limit(op.count)) /\ Limit(op.count) \in Clause
    BY <1>2, ClauseTypes DEF TranslateOp, ConditionKinds
  <2>2. Limit(op.count).kind = "limit"
    BY DEF Limit
  <2> QED BY <1>2, <2>1, <2>2, AppendClauseAdds DEF ConditionKinds
<1>3. CASE op.kind = "sort"
  <2> DEFINE w == AppendClause(t, OrderBy(op.fields))
  <2>1. TranslateOp(t, op) = [w EXCEPT !.sorted = TRUE] /\ OrderBy(op.fields) \in Clause
    BY <1>3, ClauseTypes DEF TranslateOp, ConditionKinds
  <2>2. OrderBy(op.fields).kind = "order" /\ w \in Translation
    BY <2>1, AppendClauseType DEF OrderBy
  <2>3. Adds(t, w, Marks) /\ (Limits(w.stmt) # {} => Limits(t.stmt) # {})
    BY <2>1, <2>2, AppendClauseAdds
  <2> HIDE DEF w
  <2>4. TranslateOp(t, op).stmt = w.stmt /\ TranslateOp(t, op).wraps = w.wraps
    BY <2>1, <2>2 DEF Translation
  <2> QED BY <1>3, <2>3, <2>4 DEF Adds, ConditionKinds
<1>4. CASE op.kind = "get_exemplars"
  <2> DEFINE select == [kind |-> "exemplars", columns |-> {"exemplar_trace_id"},
                        reads |-> {"exemplar_trace_id"}]
             clause == And([reads |-> {"exemplar_trace_id"}, marks |-> Marks])
             w == ReplaceStar(t, select)
  <2>1. TranslateOp(t, op) = AppendClause(w, clause)
    BY <1>4 DEF TranslateOp, ConditionKinds, TranslateGetExemplars
  <2>2. clause \in Clause /\ clause.kind = "and" /\ clause.marks = Marks /\ select \in SelectList
    BY DEF And, Clause, SelectList, ColumnNames, SortText
  <2>3. w \in Translation
    BY <2>2, ReplaceStarType
  <2>4. Adds(t, w, Marks) /\ Limits(w.stmt) = Limits(t.stmt)
    BY ReplaceStarAdds
  <2> HIDE DEF w, clause
  <2>5. /\ Adds(w, AppendClause(w, clause), Marks)
        /\ Limits(AppendClause(w, clause).stmt) # {} => Limits(w.stmt) # {}
    BY <2>2, <2>3, AppendClauseAdds
  <2> QED BY <1>4, <2>1, <2>4, <2>5 DEF Adds, ConditionKinds
<1>5. CASE op.kind = "extract"
  <2>1. TranslateOp(t, op) = ReplaceStar(t, [kind |-> "extract", columns |-> {op.alias},
                                             reads |-> {op.field}])
    BY <1>5 DEF TranslateOp, ConditionKinds
  <2> QED BY <1>5, <2>1, ReplaceStarAdds DEF ConditionKinds
<1>6. CASE op.kind = "group"
  <2>1. TranslateOp(t, op) = [t EXCEPT !.groupBy = op.fields]
    BY <1>6 DEF TranslateOp, ConditionKinds
  <2>2. TranslateOp(t, op).stmt = t.stmt /\ TranslateOp(t, op).wraps = t.wraps
    BY <2>1 DEF Translation
  <2> QED BY <1>6, <2>2 DEF Adds, ConditionKinds
<1>7. CASE op.kind = "aggregate"
  <2> DEFINE select == [kind |-> "aggregate", columns |-> t.groupBy \cup {"agg"},
                        reads |-> t.groupBy \cup op.reads]
             w == ReplaceStar(t, select)
  <2>1. TranslateOp(t, op) \in {w, AppendClause(w, GroupBy(t.groupBy))}
    BY <1>7 DEF TranslateOp, ConditionKinds, TranslateAggregate
  <2>2. t.groupBy \subseteq ColumnNames
    BY DEF Translation
  <2>3. GroupBy(t.groupBy) \in Clause /\ GroupBy(t.groupBy).kind = "group"
    BY <2>2, ClauseTypes DEF GroupBy
  <2>4. select \in SelectList
    BY <1>7, <2>2 DEF SelectList, ColumnNames
  <2>5. w \in Translation
    BY <2>4, ReplaceStarType
  <2>6. Adds(t, w, Marks) /\ Limits(w.stmt) = Limits(t.stmt)
    BY ReplaceStarAdds
  <2> HIDE DEF w
  <2>7. /\ Adds(w, AppendClause(w, GroupBy(t.groupBy)), Marks)
        /\ Limits(AppendClause(w, GroupBy(t.groupBy)).stmt) # {} => Limits(w.stmt) # {}
    BY <2>3, <2>5, AppendClauseAdds
  <2> QED BY <1>7, <2>1, <2>6, <2>7 DEF Adds, ConditionKinds
<1> QED
  BY <1>1, <1>2, <1>3, <1>4, <1>5, <1>6, <1>7 DEF Operation, ConditionKinds, MarkerKinds

\* An expand or a correlate closes the statement.
LEMMA MarkerWraps ==
    ASSUME NEW t \in Translation, NEW op \in Operation, ~Rejected(op), op.kind \in MarkerKinds
    PROVE  TranslateOp(t, op).stmt = t.stmt /\ TranslateOp(t, op).wraps # <<>>
<1>1. TranslateOp(t, op) \in {WrapText(t, "expand", <<>>), WrapText(t, "correlate", op.signals)}
  BY DEF TranslateOp, ConditionKinds, MarkerKinds
<1>2. \A kind, signals : /\ WrapText(t, kind, signals).stmt = t.stmt
                         /\ WrapText(t, kind, signals).wraps # <<>>
  <2> TAKE kind, signals
  <2> DEFINE wrap == [kind |-> kind, table |-> t.table, signals |-> signals, tail |-> <<>>]
  <2>1. WrapText(t, kind, signals) = [t EXCEPT !.wraps = Append(t.wraps, wrap)]
    BY DEF WrapText
  <2> HIDE DEF wrap
  <2>2. Append(t.wraps, wrap) # <<>>
    BY DEF Translation
  <2> QED BY <2>1, <2>2 DEF Translation
<1> QED BY <1>1, <1>2

\* A switch of the signal starts a new statement.
LEMMA SwitchStarts ==
    ASSUME NEW t \in Translation, NEW op \in Operation, op.kind = "switch_context"
    PROVE  LET u == TranslateOp(t, op) IN
           u.stmt = BaseStatement(op.signal, t.stmt.tenant, FALSE) /\ u.wraps = <<>>
<1>1. TranslateOp(t, op) =
         [t EXCEPT !.stmt = BaseStatement(op.signal, t.stmt.tenant, FALSE), !.wraps = <<>>]
  BY DEF TranslateOp, ConditionKinds, SwitchContext
<1> QED BY <1>1 DEF Translation

-----------------------------------------------------------------------------
(* The translation of a query stands for what the query asks. *)

\* The text of a query without operations.
LEMMA StandsForStart ==
    ASSUME NEW q \in Query, NEW tenant
    PROVE  StandsFor(StartTranslation(q.signal, tenant), q, 0, 0)
<1> DEFINE t == StartTranslation(q.signal, tenant)
<1>1. /\ t.stmt.table = GetTableName(q.signal) /\ (t.stmt.rootOnly <=> q.signal = "traces")
      /\ t.stmt.clauses = <<>> /\ t.wraps = <<>>
  BY DEF StartTranslation, BaseStatement
<1> HIDE DEF t
<1>2. Limits(t.stmt) = {} /\ \A mark : Admits(t.stmt.clauses, mark)
  BY <1>1 DEF Limits, Admits
<1>3. SwitchedAt(q, 0, 0) /\ Bare(q, 0, 0) /\ \A i : i \notin 1 .. 0
  BY DEF SwitchedAt, Bare
<1>4. StandsFor(t, q, 0, 0)
  BY <1>1, <1>2, <1>3 DEF StandsFor
<1> QED BY <1>4 DEF t

\* One more operation.
LEMMA StandsForNext ==
    ASSUME NEW t \in Translation, NEW q \in Query, NEW n \in Nat, n + 1 <= Len(q.ops),
           NEW s \in 0 .. n, StandsFor(t, q, n, s), ~Rejected(q.ops[n + 1])
    PROVE  \E last \in 0 .. n + 1 : StandsFor(TranslateOp(t, q.ops[n + 1]), q, n + 1, last)
<1> DEFINE op == q.ops[n + 1]
           u == TranslateOp(t, op)
<1>1. op \in Operation
  BY DEF Query
<1>2. CASE op.kind = "switch_context"
  <2>1. u.stmt = BaseStatement(op.signal, t.stmt.tenant, FALSE) /\ u.wraps = <<>>
    BY <1>1, <1>2, SwitchStarts
  <2>2. /\ u.stmt.table = GetTableName(op.signal) /\ u.stmt.rootOnly = FALSE
        /\ u.stmt.clauses = <<>>
    BY <2>1 DEF BaseStatement
  <2> HIDE DEF u
  <2>3. Limits(u.stmt) = {} /\ \A mark : Admits(u.stmt.clauses, mark)
    BY <2>2 DEF Limits, Admits
  <2>4. /\ SwitchedAt(q, n + 1, n + 1) /\ Bare(q, n + 1, n + 1) /\ n + 1 # 0
        /\ \A i : i \notin n + 1 + 1 .. n + 1
    BY <1>2 DEF SwitchedAt, Bare
  <2>5. StandsFor(u, q, n + 1, n + 1)
    BY <2>1, <2>2, <2>3, <2>4 DEF StandsFor
  <2> QED BY <2>5 DEF u
<1>3. CASE op.kind \in MarkerKinds
  <2>1. u.stmt = t.stmt /\ u.wraps # <<>>
    BY <1>1, <1>3, MarkerWraps
  <2> HIDE DEF u
  <2>2. op.kind \notin ConditionKinds \cup {"switch_context"}
    BY <1>3 DEF ConditionKinds, MarkerKinds
  <2>3. ~Bare(q, s, n + 1)
    BY <1>3 DEF Bare
  <2>4. SwitchedAt(q, n + 1, s)
    BY <2>2 DEF StandsFor, SwitchedAt
  <2>5. StandsFor(u, q, n + 1, s)
    BY <2>1, <2>2, <2>3, <2>4 DEF StandsFor
  <2> QED BY <2>5 DEF u
<1>4. CASE op.kind \notin MarkerKinds \cup {"switch_context"}
  <2> DEFINE marks == IF op.kind \in ConditionKinds THEN op.cond.marks ELSE Marks
  <2>1. /\ Adds(t, u, marks)
        /\ Limits(u.stmt) # {} => Limits(t.stmt) # {} \/ op.kind = "limit"
    BY <1>1, <1>4, PlainOpAdds
  <2> HIDE DEF u
  <2>2. Bare(q, s, n + 1) <=> Bare(q, s, n)
    BY <1>4 DEF Bare
  <2>3. SwitchedAt(q, n + 1, s)
    BY <1>4 DEF StandsFor, SwitchedAt
  <2>4. \A mark \in Marks :
          Admits(u.stmt.clauses, mark) <=>
              \A i \in s + 1 .. n + 1 : q.ops[i].kind \in ConditionKinds /\ Bare(q, s, i)
                                           => mark \in q.ops[i].cond.marks
    <3> TAKE mark \in Marks
    <3>1. Admits(u.stmt.clauses, mark) <=>
             /\ \A i \in s + 1 .. n : q.ops[i].kind \in ConditionKinds /\ Bare(q, s, i)
                                         => mark \in q.ops[i].cond.marks
             /\ Bare(q, s, n) => mark \in marks
      BY <2>1 DEF Adds, StandsFor
    <3>2. (Bare(q, s, n) => mark \in marks) <=>
             (op.kind \in ConditionKinds /\ Bare(q, s, n + 1) => mark \in op.cond.marks)
      BY <2>2
    <3>3. \A i : i \in s + 1 .. n + 1 <=> i \in s + 1 .. n \/ i = n + 1
      OBVIOUS
    <3> QED BY <3>1, <3>2, <3>3
  <2>5. u.wraps = <<>> <=> Bare(q, s, n + 1)
    BY <2>1, <2>2 DEF Adds, StandsFor
  <2>6. Limits(u.stmt) # {} => \E j \in 1 .. n + 1 : q.ops[j].kind = "limit"
    BY <2>1 DEF StandsFor
  <2>7. StandsFor(u, q, n + 1, s)
    BY <2>1, <2>3, <2>4, <2>5, <2>6 DEF StandsFor, Adds
  <2> QED BY <2>7 DEF u
<1> QED BY <1>2, <1>3, <1>4

\* The default ordering adds no condition and no limit.
LEMMA StandsForOrdered ==
    ASSUME NEW t \in Translation, NEW q, NEW n, NEW s, StandsFor(t, q, n, s), NEW signal
    PROVE  StandsFor(DefaultOrder(t, signal), q, n, s)
<1> DEFINE clause == OrderBy({"timestamp"})
           u == AppendClause(t, clause)
<1>1. clause \in Clause /\ clause.kind = "order"
  BY ClauseTypes DEF ColumnNames, SortText, OrderBy
<1>2. Adds(t, u, Marks) /\ (Limits(u.stmt) # {} => Limits(t.stmt) # {})
  BY <1>1, AppendClauseAdds
<1> HIDE DEF u
<1>3. StandsFor(u, q, n, s)
  BY <1>2 DEF StandsFor, Adds
<1>4. DefaultOrder(t, signal) \in {t, u}
  BY DEF DefaultOrder, u
<1> QED BY <1>3, <1>4

\* The last switch is the one that Selected looks for.
LEMMA LastSwitchIs ==
    ASSUME NEW q \in Query, NEW s, SwitchedAt(q, Len(q.ops), s)
    PROVE  LastSwitch(q) = s
<1> DEFINE all == {0} \cup KindsOf(q, {"switch_context"})
<1>1. all \subseteq Nat /\ s \in all /\ \A i \in all : s >= i
  BY DEF KindsOf, SwitchedAt, Query
<1>2. LastSwitch(q) = CHOOSE x \in all : \A y \in all : x >= y
  BY DEF LastSwitch, Max
<1> HIDE DEF all
<1>3. LastSwitch(q) \in all /\ \A y \in all : LastSwitch(q) >= y
  BY <1>1, <1>2
<1>4. /\ LastSwitch(q) \in Nat /\ s \in Nat
      /\ LastSwitch(q) >= s /\ s >= LastSwitch(q)
  BY <1>1, <1>3
<1> QED BY <1>4

\* A mark is asked of the base by the conditions since the last switch that no
\* marker precedes.
LEMMA InBaseIs ==
    ASSUME NEW q \in Query, NEW s, SwitchedAt(q, Len(q.ops), s),
           NEW i \in DOMAIN q.ops, q.ops[i].kind \in ConditionKinds
    PROVE  InBase(q, i) <=> i \in s + 1 .. Len(q.ops) /\ Bare(q, s, i)
<1>1. LastSwitch(q) = s
  BY LastSwitchIs
<1>2. s \in 0 .. Len(q.ops) /\ i \in 1 .. Len(q.ops) /\ Len(q.ops) \in Nat
  BY DEF SwitchedAt, Query
<1>3. q.ops[i].kind \notin MarkerKinds
  BY DEF ConditionKinds, MarkerKinds
<1>4. s # 0 => q.ops[s].kind \notin MarkerKinds
  BY DEF SwitchedAt, MarkerKinds
<1>5. \A j : j \in KindsOf(q, MarkerKinds) <=> j \in 1 .. Len(q.ops) /\ q.ops[j].kind \in MarkerKinds
  BY DEF KindsOf, Query
<1>6. InBase(q, i) <=> i > s /\ \A j \in KindsOf(q, MarkerKinds) : j < s \/ i < j
  BY <1>1 DEF InBase, MarkerKinds
<1> QED BY <1>2, <1>3, <1>4, <1>5, <1>6 DEF Bare

\* Over any rows the base statement selects what the query asks for.
LEMMA BaseIsAsked ==
    ASSUME NEW q \in Query, NEW s, NEW t, StandsFor(t, q, Len(q.ops), s),
           NEW rows \in SUBSET Rows
    PROVE  Matching(t.stmt, rows) = Selected(q, t.stmt.tenant, rows)
<1>1. SwitchedAt(q, Len(q.ops), s)
  BY DEF StandsFor
<1>2. LastSwitch(q) = s /\ t.stmt.table = GetTableName(AskedSignal(q))
  BY <1>1, LastSwitchIs DEF StandsFor, AskedSignal
<1>3. \A row \in rows : row.mark \in Marks
  BY QueryServerAssumption DEF Row
<1>4. DOMAIN q.ops = 1 .. Len(q.ops) /\ s \in 0 .. Len(q.ops) /\ Len(q.ops) \in Nat
  BY <1>1 DEF Query, SwitchedAt
<1>5. \A mark \in Marks :
         Admits(t.stmt.clauses, mark) <=>
            \A i \in KindsOf(q, ConditionKinds) : InBase(q, i) => mark \in q.ops[i].cond.marks
  <2> TAKE mark \in Marks
  <2>1. Admits(t.stmt.clauses, mark) <=>
           \A i \in s + 1 .. Len(q.ops) : q.ops[i].kind \in ConditionKinds /\ Bare(q, s, i)
                                             => mark \in q.ops[i].cond.marks
    BY DEF StandsFor
  <2>2. \A i : i \in KindsOf(q, ConditionKinds) <=>
                  i \in 1 .. Len(q.ops) /\ q.ops[i].kind \in ConditionKinds
    BY <1>4 DEF KindsOf
  <2>3. \A i \in KindsOf(q, ConditionKinds) :
           InBase(q, i) <=> i \in s + 1 .. Len(q.ops) /\ Bare(q, s, i)
    BY <1>1, InBaseIs DEF KindsOf
  <2> QED BY <1>4, <2>1, <2>2, <2>3
<1>6. t.stmt.rootOnly <=> LastSwitch(q) = 0 /\ q.signal = "traces"
  BY <1>2 DEF StandsFor
<1> QED BY <1>2, <1>3, <1>5, <1>6 DEF Matching, Selected

\* What the base returns is asked for; without a limit it is all of it.
LEMMA BaseHonoured ==
    ASSUME NEW q \in Query, NEW s, NEW t \in Translation, StandsFor(t, q, Len(q.ops), s),
           ~FreeText(t.stmt),
           NEW stored \in SUBSET Rows, NEW rows \in Returned(t.stmt, stored)
    PROVE  /\ rows \subseteq Selected(q, t.stmt.tenant, stored)
           /\ KindsOf(q, {"limit"}) = {} => rows = Selected(q, t.stmt.tenant, stored)
<1> DEFINE matching == Matching(t.stmt, stored)
<1>1. matching = Selected(q, t.stmt.tenant, stored)
  BY BaseIsAsked
<1>2. rows \subseteq matching /\ Cardinality(rows) = Min({Cardinality(matching)} \cup Limits(t.stmt))
  BY DEF Returned
<1>3. ASSUME KindsOf(q, {"limit"}) = {} PROVE rows = matching
  <2>1. Limits(t.stmt) = {}
    BY <1>3 DEF StandsFor, KindsOf, Query
  <2>2. matching \subseteq Rows
    BY DEF Matching
  <2> HIDE DEF matching
  <2>3. IsFiniteSet(matching)
    BY <2>2, FS_Subset, QueryServerAssumption
  <2>4. Cardinality(matching) \in Nat
    BY <2>3, FS_CardinalityType
  <2>5. Min({Cardinality(matching)}) = Cardinality(matching)
    BY <2>4 DEF Min
  <2>6. Cardinality(rows) = Cardinality(matching)
    BY <1>2, <2>1, <2>5
  <2> QED BY <1>2, <2>3, <2>6, FS_Subset
<1> QED BY <1>1, <1>2, <1>3

-----------------------------------------------------------------------------
(* Every step keeps the base what the query asks for. *)

\* A pipeline has a signal and operations.
LEMMA QueryType ==
    ASSUME TypeOK, NEW r \in Requests
    PROVE  /\ query[r] \in Query /\ query[r].ops \in Seq(Operation)
           /\ Len(query[r].ops) \in Nat /\ DOMAIN query[r].ops = 1 .. Len(query[r].ops)
           /\ todo[r] \in Seq(Operation) /\ Len(todo[r]) \in Nat
           /\ DOMAIN todo[r] = 1 .. Len(todo[r])
<1>1. NoQuery \in Query
  <2>1. <<>> \in Seq(Operation)
    OBVIOUS
  <2> QED BY <2>1 DEF NoQuery, Query, Signals
<1>2. query[r] \in Query
  BY <1>1, QueryServerAssumption DEF TypeOK
<1> QED BY <1>2 DEF Query, TypeOK

\* A request of which only the list of signals, the traces and the result sets
\* move stays honoured.
LEMMA HonouredFrame ==
    ASSUME NEW r \in Requests, Honoured(r), query'[r] = query[r], todo'[r] = todo[r],
           sql'[r] = sql[r], base'[r] = base[r], seen'[r] = seen[r],
           \/ pc'[r] = pc[r] /\ status'[r] = status[r]
           \/ pc[r] \in {"expand", "correlate"} /\ pc'[r] \in {"correlate", "done"}
    PROVE  Honoured(r)'
<1>1. Translated(r)' = Translated(r) /\ (TodoIsRest(r) => TodoIsRest(r)')
  BY DEF Translated, TodoIsRest
<1> DEFINE asked == Selected(query[r], TenantOf[r], seen[r])
<1>2. asked' = asked
  OBVIOUS
<1> HIDE DEF asked
<1>3. CASE pc'[r] = pc[r] /\ status'[r] = status[r]
  BY <1>1, <1>2, <1>3 DEF Honoured, Answered, asked
<1>4. CASE pc[r] \in {"expand", "correlate"} /\ pc'[r] \in {"correlate", "done"}
  BY <1>1, <1>2, <1>4 DEF Honoured, Answered, asked
<1> QED BY <1>3, <1>4

\* A request that fails before its base ran has none.
LEMMA FailHonoured ==
    ASSUME TypeOK, NEW r \in Requests, Honoured(r), Fail(r), query'[r] = query[r],
           SortsByColumns(query[r]) =>
              base'[r] \subseteq Selected(query[r], TenantOf[r], seen'[r])
    PROVE  Honoured(r)'
<1>1. pc'[r] = "done" /\ status'[r] = "error"
  BY DEF Fail, Answer, GoTo, TypeOK
<1> QED BY <1>1 DEF Honoured, Answered

\* A request begins with its whole query to translate.
LEMMA AskHonoured ==
    ASSUME TypeOK, TypeOK', NEW r \in Requests, Honoured(r), Ask(r)
    PROVE  Honoured(r)'
<1>1. PICK q \in Queries :
          query'[r] = q /\ todo'[r] = q.ops /\ sql'[r] = StartTranslation(q.signal, TenantOf[r])
  BY DEF Ask, Submit, TypeOK
<1>2. pc[r] = "idle" /\ pc'[r] = "translate" /\ base' = base
  BY DEF Ask, Submit, At, GoTo, TypeOK, history
<1>3. base'[r] = {}
  BY <1>2 DEF Honoured
<1>4. q \in Query /\ q.ops \in Seq(Operation)
  BY QueryServerAssumption DEF Query
<1>5. Translated(r)' = 0 /\ TodoIsRest(r)'
  BY <1>1, <1>4 DEF Translated, TodoIsRest
<1>6. StandsFor(sql'[r], query'[r], 0, 0)
  BY <1>1, <1>4, StandsForStart
<1> QED BY <1>2, <1>3, <1>5, <1>6 DEF Honoured, Answered

\* One operation more is translated.
LEMMA NextTodo ==
    ASSUME TypeOK, NEW r \in Requests, TodoIsRest(r), TranslateNext(r)
    PROVE  /\ Translated(r) \in Nat /\ Translated(r) + 1 <= Len(query[r].ops)
           /\ Head(todo[r]) = query[r].ops[Translated(r) + 1]
           /\ Translated(r)' = Translated(r) + 1 /\ TodoIsRest(r)'
           /\ sql'[r] = TranslateOp(sql[r], query[r].ops[Translated(r) + 1])
           /\ ~Rejected(query[r].ops[Translated(r) + 1])
           /\ query' = query /\ base' = base /\ via' = via /\ pc[r] = "translate" /\ pc' = pc
<1>1. /\ todo[r] # <<>> /\ todo'[r] = Tail(todo[r]) /\ query' = query /\ base' = base
      /\ sql'[r] = TranslateOp(sql[r], Head(todo[r])) /\ pc[r] = "translate" /\ pc' = pc
      /\ via' = via /\ ~Rejected(Head(todo[r]))
  BY DEF TranslateNext, At, TypeOK, request, history
<1>2. /\ todo[r] \in Seq(Operation) /\ Len(todo[r]) \in Nat /\ Len(query[r].ops) \in Nat
      /\ DOMAIN todo[r] = 1 .. Len(todo[r])
  BY QueryType
<1>3. /\ Len(todo[r]) >= 1 /\ Len(Tail(todo[r])) = Len(todo[r]) - 1
      /\ Head(todo[r]) = todo[r][1]
      /\ Tail(todo[r]) \in Seq(Operation)
      /\ \A i \in 1 .. Len(todo[r]) - 1 : Tail(todo[r])[i] = todo[r][i + 1]
  BY <1>1, <1>2
<1>4. Head(todo[r]) = query[r].ops[Translated(r) + 1]
  BY <1>2, <1>3 DEF TodoIsRest
<1>5. Translated(r) \in Nat /\ Translated(r)' = Translated(r) + 1
  <2>1. Translated(r) = Len(query[r].ops) - Len(todo[r])
    BY DEF Translated
  <2>2. Translated(r)' = Len(query[r].ops) - Len(todo'[r])
    BY <1>1 DEF Translated
  <2>3. Translated(r) >= 0
    BY DEF TodoIsRest
  <2>4. /\ Len(todo[r]) \in Nat /\ Len(query[r].ops) \in Nat
        /\ Len(todo'[r]) = Len(todo[r]) - 1
    BY <1>1, <1>2, <1>3
  <2> QED BY <2>1, <2>2, <2>3, <2>4
<1>6. TodoIsRest(r)'
  <2>1. DOMAIN todo'[r] = 1 .. Len(todo[r]) - 1
    BY <1>1, <1>2, <1>3
  <2>2. \A i \in DOMAIN todo'[r] : todo'[r][i] = query[r].ops[Translated(r) + 1 + i]
    <3> TAKE i \in DOMAIN todo'[r]
    <3>1. i \in 1 .. Len(todo[r]) - 1 /\ i + 1 \in DOMAIN todo[r]
      BY <1>2, <2>1
    <3>2. todo[r][i + 1] = query[r].ops[Translated(r) + (i + 1)]
      BY <3>1 DEF TodoIsRest
    <3>3. Translated(r) + (i + 1) = Translated(r) + 1 + i
      BY <1>5, <3>1
    <3> QED BY <1>1, <1>3, <3>1, <3>2, <3>3
  <2>3. Translated(r)' >= 0
    BY <1>5
  <2> QED BY <1>1, <1>5, <2>2, <2>3 DEF TodoIsRest
<1>7. Translated(r) \in Nat /\ Translated(r) + 1 <= Len(query[r].ops)
  BY <1>2, <1>3, <1>5 DEF Translated
<1> QED BY <1>1, <1>4, <1>5, <1>6, <1>7

\* An iteration of TranslateQuery.
LEMMA TranslateHonoured ==
    ASSUME TypeOK, NEW r \in Requests, Honoured(r), TranslateNext(r)
    PROVE  Honoured(r)'
<1> DEFINE n == Translated(r)
           op == query[r].ops[n + 1]
<1>1. pc[r] = "translate"
  BY DEF TranslateNext, At
<1>2. TodoIsRest(r) /\ base[r] = {}
  BY <1>1 DEF Honoured
<1>3. PICK s \in 0 .. n : StandsFor(sql[r], query[r], n, s)
  BY <1>1 DEF Honoured
<1>4. /\ n \in Nat /\ n + 1 <= Len(query[r].ops) /\ n' = n + 1 /\ TodoIsRest(r)'
      /\ sql'[r] = TranslateOp(sql[r], op) /\ ~Rejected(op)
      /\ query' = query /\ base' = base /\ pc' = pc
  BY <1>2, NextTodo
<1>5. query[r] \in Query /\ sql[r] \in Translation
  BY QueryType DEF TypeOK
<1>6. \E last \in 0 .. n + 1 : StandsFor(TranslateOp(sql[r], op), query[r], n + 1, last)
  <2> HIDE DEF n
  <2> QED BY <1>3, <1>4, <1>5, StandsForNext
<1> QED BY <1>1, <1>2, <1>4, <1>6 DEF Honoured, Answered

\* The end of the translation: the text stands for the whole query.
LEMMA FinishHonoured ==
    ASSUME TypeOK, NEW r \in Requests, Honoured(r), FinishTranslation(r)
    PROVE  Honoured(r)'
<1>1. /\ pc[r] = "translate" /\ pc'[r] = "base" /\ todo[r] = <<>>
      /\ query' = query /\ todo' = todo /\ base' = base
      /\ sql'[r] = DefaultOrder(sql[r], query[r].signal)
  BY DEF FinishTranslation, At, GoTo, TypeOK, request, history
<1>2. PICK s \in 0 .. Translated(r) : StandsFor(sql[r], query[r], Translated(r), s)
  BY <1>1 DEF Honoured
<1>3. StandsFor(sql'[r], query[r], Translated(r), s)
  BY <1>1, <1>2, StandsForOrdered DEF TypeOK
<1>4. Translated(r)' = Translated(r) /\ TodoIsRest(r)' /\ base[r] = {}
  BY <1>1 DEF Honoured, Translated, TodoIsRest
<1> QED BY <1>1, <1>2, <1>3, <1>4 DEF Honoured, Answered

\* The three actions that run the base statement.
LEMMA BaseRunHonoured ==
    ASSUME TypeOK, NEW r \in Requests, Scoped(r), Honoured(r),
           RunPlain(r) \/ RunExpandBase(r) \/ RunCorrelateBase(r)
    PROVE  Honoured(r)'
<1>1. PICK rows \in Returned(sql[r].stmt, db) : base' = [base EXCEPT ![r] = rows]
  BY DEF RunPlain, RunExpandBase, RunCorrelateBase
<1>2. /\ pc[r] = "base" /\ pc'[r] \in {"expand", "correlate", "done"}
      /\ query' = query /\ todo' = todo /\ sql' = sql
      /\ seen' = [seen EXCEPT ![r] = db]
  BY DEF RunPlain, RunExpandBase, RunCorrelateBase, Fail, Answer, GoTo, At, TypeOK,
     request, translation
<1>3. base'[r] = rows /\ seen'[r] = db
  BY <1>1, <1>2 DEF TypeOK
<1>4. todo[r] = <<>> /\ \E s : StandsFor(sql[r], query[r], Translated(r), s)
  BY <1>2 DEF Honoured
<1>5. Translated(r) = Len(query[r].ops)
  BY <1>4, QueryType DEF Translated
<1>6. PICK s : StandsFor(sql[r], query[r], Len(query[r].ops), s)
  BY <1>4, <1>5
<1>7. /\ query[r] \in Query /\ sql[r] \in Translation /\ db \in SUBSET Rows
      /\ sql[r].stmt.tenant = TenantOf[r]
  BY QueryType DEF TypeOK, Scoped
<1>8. ASSUME SortsByColumns(query[r])
      PROVE  /\ rows \subseteq Selected(query[r], TenantOf[r], db)
             /\ KindsOf(query[r], {"limit"}) = {} => rows = Selected(query[r], TenantOf[r], db)
  <2>1. ~FreeText(sql[r].stmt)
    BY <1>8 DEF Scoped
  <2> QED BY <1>1, <1>6, <1>7, <2>1, BaseHonoured
<1> QED BY <1>2, <1>3, <1>8 DEF Honoured

\* Every step of the handler.
LEMMA HandleHonoured ==
    ASSUME TypeOK, NEW r \in Requests, Scoped(r), Honoured(r), Handle(r)
    PROVE  Honoured(r)'
<1>1. CASE TranslateNext(r) \/ FinishTranslation(r)
  BY <1>1, TranslateHonoured, FinishHonoured
<1>2. CASE RunPlain(r) \/ RunExpandBase(r) \/ RunCorrelateBase(r)
  BY <1>2, BaseRunHonoured
<1>3. CASE RejectNext(r) \/ RefuseBase(r) \/ BaseWithoutTraceColumn(r)
           \/ RefuseExpand(r) \/ OutageFatal(r)
  <2>1. Fail(r) /\ query' = query /\ base' = base /\ seen' = seen
    BY <1>3 DEF RejectNext, RefuseBase, BaseWithoutTraceColumn, RefuseExpand, OutageFatal,
       request, history
  <2> QED BY <2>1, FailHonoured DEF Honoured
<1>4. CASE \/ SkipSignal(r) \/ CorrelateSignal(r) \/ RefuseSignal(r) \/ OutageOfSignal(r)
           \/ RunExpand(r) \/ FinishCorrelate(r)
  <2>1. UNCHANGED <<query, todo, sql, base, seen>>
    BY <1>4 DEF SkipSignal, CorrelateSignal, RefuseSignal, OutageOfSignal, RunExpand,
       FinishCorrelate, request, translation, history
  <2>2. \/ pc' = pc /\ status' = status
        \/ pc[r] \in {"expand", "correlate"} /\ pc'[r] \in {"correlate", "done"}
    BY <1>4 DEF SkipSignal, CorrelateSignal, RefuseSignal, OutageOfSignal, RunExpand,
       FinishCorrelate, At, Answer, GoTo, TypeOK
  <2> QED BY <2>1, <2>2, HonouredFrame
<1> QED BY <1>1, <1>2, <1>3, <1>4 DEF Handle

\* No step of a request touches the query of another one.
LEMMA OtherQueriesUntouched ==
    ASSUME TypeOK, NEW r \in Requests, Ask(r) \/ Handle(r), NEW s \in Requests \ {r}
    PROVE  query'[s] = query[s] /\ todo'[s] = todo[s] /\ (s \in faulted' <=> s \in faulted)
<1> USE DEF TypeOK, request, translation, history
<1>0. CASE Ask(r)
  BY <1>0 DEF Ask, Submit
<1>1. CASE TranslateNext(r) \/ RejectNext(r) \/ FinishTranslation(r)
  BY <1>1 DEF TranslateNext, RejectNext, FinishTranslation
<1>2. CASE RefuseBase(r) \/ RunPlain(r) \/ BaseWithoutTraceColumn(r)
  BY <1>2 DEF RefuseBase, RunPlain, BaseWithoutTraceColumn
<1>3. CASE RunExpandBase(r) \/ RunCorrelateBase(r) \/ RunExpand(r) \/ RefuseExpand(r)
  BY <1>3 DEF RunExpandBase, RunCorrelateBase, RunExpand, RefuseExpand
<1>4. CASE SkipSignal(r) \/ CorrelateSignal(r) \/ RefuseSignal(r) \/ FinishCorrelate(r)
  BY <1>4 DEF SkipSignal, CorrelateSignal, RefuseSignal, FinishCorrelate
<1>5. CASE OutageFatal(r) \/ OutageOfSignal(r)
  BY <1>5 DEF OutageFatal, OutageOfSignal
<1> QED BY <1>0, <1>1, <1>2, <1>3, <1>4, <1>5 DEF Handle

AllHonoured == \A r \in Requests : Honoured(r)

LEMMA NextHonoured ==
    ASSUME IInv, TypeOK', AllHonoured, [Next]_vars
    PROVE  AllHonoured'
<1>1. ASSUME NEW r \in Requests, Ask(r) \/ Handle(r), NEW s \in Requests
      PROVE  Honoured(s)'
  <2>1. TypeOK /\ Scoped(r) /\ Honoured(r) /\ Honoured(s)
    BY DEF IInv, AllHonoured
  <2>2. CASE s = r
    BY <1>1, <2>1, <2>2, AskHonoured, HandleHonoured
  <2>3. CASE s # r
    <3>1. /\ pc'[s] = pc[s] /\ sql'[s] = sql[s] /\ status'[s] = status[s]
          /\ seen'[s] = seen[s] /\ base'[s] = base[s]
      BY <1>1, <2>1, <2>3, OthersUntouched
    <3>2. query'[s] = query[s] /\ todo'[s] = todo[s]
      BY <1>1, <2>1, <2>3, OtherQueriesUntouched
    <3> QED BY <2>1, <3>1, <3>2, HonouredFrame
  <2> QED BY <2>2, <2>3
<1>2. ASSUME (\E batch \in Batches : Insert(batch)) \/ UNCHANGED vars, NEW s \in Requests
      PROVE  Honoured(s)'
  <2>1. UNCHANGED <<pc, query, todo, sql, status, base, seen>>
    BY <1>2 DEF Insert, request, translation, history, vars
  <2> QED BY <2>1, HonouredFrame DEF AllHonoured
<1> QED BY <1>1, <1>2 DEF Next, AllHonoured

LEMMA HonouredAlways == Spec => []AllHonoured
<1>1. Init => AllHonoured
  BY DEF Init, AllHonoured, Honoured, Answered
<1>2. IInv /\ TypeOK' /\ AllHonoured /\ [Next]_vars => AllHonoured'
  BY NextHonoured
<1> QED BY <1>1, <1>2, TypeCorrect, Invariance, PTL DEF Spec

\* Whatever pipeline is asked, with any number of conditions, switches and
\* markers in any order, the rows TranslateQuery's base statement returns
\* satisfy every condition of the base, and without a limit none is missing.
THEOREM Conditions == Spec => []ConditionsHonoured
<1>1. AllHonoured => ConditionsHonoured
  BY DEF AllHonoured, Honoured, ConditionsHonoured
<1> QED BY <1>1, HonouredAlways, PTL

-----------------------------------------------------------------------------
(* The text that a supported pipeline makes. *)

ClausesFit(t, q, n) ==
    /\ WellOrdered(t.stmt.clauses)
    /\ \A i \in DOMAIN t.stmt.clauses :
          LET clause == t.stmt.clauses[i] IN
          /\ clause.reads \subseteq Columns(t.table)
          /\ clause.kind \in {"and", "order", "limit"}
          /\ clause.kind = "order" => \E j \in 1 .. n : q.ops[j].kind = "sort"
          /\ clause.kind = "limit" => \E j \in 1 .. n : q.ops[j].kind = "limit"

MarkersFit(t, q, n) ==
    /\ t.wraps = <<>> <=> \A j \in 1 .. n : q.ops[j].kind \notin MarkerKinds
    /\ \A i \in DOMAIN t.wraps :
          /\ t.wraps[i].tail = <<>> /\ t.wraps[i].table = t.table
          /\ \E j \in 1 .. n : q.ops[j].kind = t.wraps[i].kind
    /\ \/ Len(t.wraps) \in {0, 1}
       \/ Len(t.wraps) = 2 /\ t.wraps[1].kind = "expand" /\ t.wraps[2].kind = "correlate"

\* The text that the first n operations of a supported query make.
Workable(t, q, n) ==
    /\ t.table = GetTableName(q.signal)
    /\ t.stmt.table = t.table
    /\ t.stmt.select = Star
    /\ t.sorted <=> \E i \in 1 .. n : q.ops[i].kind = "sort"
    /\ ClausesFit(t, q, n)
    /\ MarkersFit(t, q, n)

\* Once translated, such a query can be run to its end.
Runnable(r) ==
    /\ BaseExecutable(r)
    /\ Plan(r) # "direct" => /\ "trace_id" \in OutputColumns(sql[r].stmt)
                             /\ FollowUpExecutable(ExpandTable(r))

Served(r) ==
    Supported(query[r]) /\ via[r] = "api" =>
        /\ pc[r] = "translate" => Workable(sql[r], query[r], Translated(r))
        /\ pc[r] \in {"base", "expand"} => Runnable(r)
        /\ pc[r] = "done" => \/ status[r] = "ok"
                             \/ r \in faulted
                             \/ Plan(r) = "correlate_expand" /\ TracesOf(base[r]) = {}

\* Which operations may come before one of a supported query.
LEMMA SupportedOrder ==
    ASSUME NEW q \in Query, Supported(q), NEW j \in DOMAIN q.ops, NEW i \in DOMAIN q.ops, i < j
    PROVE  /\ q.ops[j].kind \in ConditionKinds \cup {"sort"} => q.ops[i].kind \in ConditionKinds
           /\ q.ops[j].kind = "limit" => q.ops[i].kind \in ConditionKinds \cup {"sort"}
           /\ q.ops[j].kind = "expand" => q.ops[i].kind \in ConditionKinds \cup {"sort", "limit"}
           /\ q.ops[j].kind = "correlate" =>
                 q.ops[i].kind \in ConditionKinds \cup {"sort", "limit", "expand"}
<1>1. /\ q.ops[i].kind \in ConditionKinds \cup {"sort", "limit", "expand", "correlate"}
      /\ q.ops[j].kind \in ConditionKinds \cup {"sort", "limit", "expand", "correlate"}
  BY DEF Supported, StageOf
<1>2. \/ q.ops[i].kind \in ConditionKinds
      \/ q.ops[j].kind \notin ConditionKinds /\ StageOf[q.ops[i].kind] < StageOf[q.ops[j].kind]
  BY DEF Supported
<1>3. /\ StageOf["sort"] = 1 /\ StageOf["limit"] = 2
      /\ StageOf["expand"] = 3 /\ StageOf["correlate"] = 4
  BY DEF StageOf
<1>4. \A kind \in ConditionKinds : kind \notin {"sort", "limit", "expand", "correlate"}
  BY DEF ConditionKinds
<1> QED BY <1>1, <1>2, <1>3, <1>4

\* No operation of a supported query is rejected.
LEMMA SupportedAccepted ==
    ASSUME NEW q \in Query, Supported(q), NEW i \in DOMAIN q.ops
    PROVE  ~Rejected(q.ops[i])
  BY DEF Supported, Legible, StageOf, ConditionKinds, Rejected

\* The text of a supported query without operations.
LEMMA WorkableStart ==
    ASSUME NEW q \in Query, NEW tenant
    PROVE  Workable(StartTranslation(q.signal, tenant), q, 0)
<1> DEFINE t == StartTranslation(q.signal, tenant)
<1>1. /\ t.table = GetTableName(q.signal) /\ t.stmt.table = t.table /\ t.stmt.select = Star
      /\ t.stmt.clauses = <<>> /\ t.wraps = <<>> /\ t.sorted = FALSE
  BY DEF StartTranslation, BaseStatement
<1> HIDE DEF t
<1>2. ClausesFit(t, q, 0)
  BY <1>1 DEF ClausesFit, WellOrdered
<1>3. MarkersFit(t, q, 0)
  BY <1>1 DEF MarkersFit
<1>4. Workable(t, q, 0)
  BY <1>1, <1>2, <1>3 DEF Workable
<1> QED BY <1>4 DEF t

\* A clause of a later rank can follow.
LEMMA WellOrderedAppend ==
    ASSUME NEW clauses \in Seq(Clause), NEW clause \in Clause, WellOrdered(clauses),
           \A i \in DOMAIN clauses :
              \/ ClauseRank[clauses[i].kind] < ClauseRank[clause.kind]
              \/ clauses[i].kind = "and" /\ clause.kind = "and"
    PROVE  WellOrdered(Append(clauses, clause))
<1> DEFINE more == Append(clauses, clause)
<1>1. /\ DOMAIN clauses = 1 .. Len(clauses) /\ Len(clauses) \in Nat
      /\ DOMAIN more = 1 .. Len(clauses) + 1
      /\ more[Len(clauses) + 1] = clause
      /\ \A i \in DOMAIN clauses : more[i] = clauses[i]
  OBVIOUS
<1> HIDE DEF more
<1>2. ASSUME NEW i \in DOMAIN more, NEW j \in DOMAIN more, i < j
      PROVE  \/ ClauseRank[more[i].kind] < ClauseRank[more[j].kind]
             \/ more[i].kind = "and" /\ more[j].kind = "and"
  <2>1. i \in DOMAIN clauses /\ more[i] = clauses[i]
    BY <1>1, <1>2
  <2>2. CASE j = Len(clauses) + 1
    BY <1>1, <2>1, <2>2
  <2>3. CASE j # Len(clauses) + 1
    <3>1. j \in DOMAIN clauses /\ more[j] = clauses[j]
      BY <1>1, <2>3
    <3> QED BY <1>2, <2>1, <3>1 DEF WellOrdered
  <2> QED BY <2>2, <2>3
<1>3. WellOrdered(more)
  BY <1>2 DEF WellOrdered
<1> QED BY <1>3 DEF more

\* A condition, a sort or a limit of a supported query, appended in its turn.
LEMMA ClausesFitAppend ==
    ASSUME NEW t \in Translation, NEW q, NEW n \in Nat, ClausesFit(t, q, n), t.wraps = <<>>,
           NEW clause \in Clause, clause.reads \subseteq Columns(t.table),
           clause.kind \in {"and", "order", "limit"},
           clause.kind = "order" => q.ops[n + 1].kind = "sort",
           clause.kind = "limit" => q.ops[n + 1].kind = "limit",
           clause.kind \in {"and", "order"} =>
              \A j \in 1 .. n : q.ops[j].kind \notin {"sort", "limit"},
           clause.kind = "limit" => \A j \in 1 .. n : q.ops[j].kind # "limit"
    PROVE  LET u == AppendClause(t, clause) IN
           /\ ClausesFit(u, q, n + 1)
           /\ u.stmt.table = t.stmt.table /\ u.stmt.select = t.stmt.select
           /\ u.wraps = t.wraps /\ u.table = t.table /\ u.sorted = t.sorted
<1> DEFINE u == AppendClause(t, clause)
           clauses == t.stmt.clauses
<1>1. u = [t EXCEPT !.stmt = [t.stmt EXCEPT !.clauses = Append(clauses, clause)]]
  BY DEF AppendClause
<1>2. t.stmt \in Statement /\ clauses \in Seq(Clause)
  BY DEF Translation, Statement
<1>3. /\ u.stmt = [t.stmt EXCEPT !.clauses = Append(clauses, clause)]
      /\ u.wraps = t.wraps /\ u.table = t.table /\ u.sorted = t.sorted
  BY <1>1 DEF Translation
<1>4. /\ u.stmt.clauses = Append(clauses, clause)
      /\ u.stmt.table = t.stmt.table /\ u.stmt.select = t.stmt.select
  BY <1>2, <1>3 DEF Statement
<1> HIDE DEF u
<1>5. \A i \in DOMAIN clauses :
         \/ ClauseRank[clauses[i].kind] < ClauseRank[clause.kind]
         \/ clauses[i].kind = "and" /\ clause.kind = "and"
  <2> TAKE i \in DOMAIN clauses
  <2>1. /\ clauses[i].kind \in {"and", "order", "limit"}
        /\ clauses[i].kind = "order" => \E j \in 1 .. n : q.ops[j].kind = "sort"
        /\ clauses[i].kind = "limit" => \E j \in 1 .. n : q.ops[j].kind = "limit"
    BY DEF ClausesFit
  <2>2. ClauseRank["and"] = 1 /\ ClauseRank["order"] = 3 /\ ClauseRank["limit"] = 4
    BY DEF ClauseRank
  <2> QED BY <2>1, <2>2
<1>6. WellOrdered(u.stmt.clauses)
  BY <1>2, <1>4, <1>5, WellOrderedAppend DEF ClausesFit
<1>7. \A i \in DOMAIN u.stmt.clauses :
         u.stmt.clauses[i] = clause \/ (i \in DOMAIN clauses /\ u.stmt.clauses[i] = clauses[i])
  BY <1>2, <1>4
<1>8. \A kind : (\E j \in 1 .. n : q.ops[j].kind = kind) => \E j \in 1 .. n + 1 : q.ops[j].kind = kind
  OBVIOUS
<1>9. n + 1 \in 1 .. n + 1
  OBVIOUS
<1>10. ClausesFit(u, q, n + 1)
  <2> SUFFICES ASSUME NEW i \in DOMAIN u.stmt.clauses
               PROVE  LET c == u.stmt.clauses[i] IN
                      /\ c.reads \subseteq Columns(u.table)
                      /\ c.kind \in {"and", "order", "limit"}
                      /\ c.kind = "order" => \E j \in 1 .. n + 1 : q.ops[j].kind = "sort"
                      /\ c.kind = "limit" => \E j \in 1 .. n + 1 : q.ops[j].kind = "limit"
    BY <1>6 DEF ClausesFit
  <2>1. CASE u.stmt.clauses[i] = clause
    BY <1>3, <1>9, <2>1
  <2>2. CASE i \in DOMAIN clauses /\ u.stmt.clauses[i] = clauses[i]
    BY <1>3, <1>8, <2>2 DEF ClausesFit
  <2> QED BY <1>7, <2>1, <2>2
<1> QED BY <1>3, <1>4, <1>10 DEF u

\* A marker put around the text, in the order a supported query has them.
LEMMA MarkersFitWrap ==
    ASSUME NEW t \in Translation, NEW q, NEW n \in Nat, MarkersFit(t, q, n),
           NEW kind \in MarkerKinds, NEW signals, q.ops[n + 1].kind = kind,
           kind = "expand" => \A j \in 1 .. n : q.ops[j].kind \notin MarkerKinds,
           kind = "correlate" => \A j \in 1 .. n : q.ops[j].kind # "correlate"
    PROVE  LET u == WrapText(t, kind, signals) IN
           /\ MarkersFit(u, q, n + 1)
           /\ u.stmt = t.stmt /\ u.table = t.table /\ u.sorted = t.sorted
<1> DEFINE wrap == [kind |-> kind, table |-> t.table, signals |-> signals, tail |-> <<>>]
           u == WrapText(t, kind, signals)
<1>1. u = [t EXCEPT !.wraps = Append(t.wraps, wrap)]
  BY DEF WrapText
<1>2. wrap.kind = kind /\ wrap.table = t.table /\ wrap.tail = <<>>
  OBVIOUS
<1> HIDE DEF wrap, u
<1>3. /\ u.wraps = Append(t.wraps, wrap)
      /\ u.stmt = t.stmt /\ u.table = t.table /\ u.sorted = t.sorted
  BY <1>1 DEF Translation
<1>4. t.wraps \in Seq(Wrap) /\ Len(t.wraps) \in Nat
  BY DEF Translation
<1>5. /\ u.wraps # <<>> /\ Len(u.wraps) = Len(t.wraps) + 1
      /\ u.wraps[Len(t.wraps) + 1] = wrap
      /\ DOMAIN u.wraps = 1 .. Len(t.wraps) + 1
      /\ \A i \in DOMAIN t.wraps : u.wraps[i] = t.wraps[i]
      /\ DOMAIN t.wraps = 1 .. Len(t.wraps)
      /\ t.wraps = <<>> <=> Len(t.wraps) = 0
  BY <1>3, <1>4
<1>6. n + 1 \in 1 .. n + 1 /\ \A j \in 1 .. n : j \in 1 .. n + 1
  OBVIOUS
<1>7. u.wraps = <<>> <=> \A j \in 1 .. n + 1 : q.ops[j].kind \notin MarkerKinds
  BY <1>5, <1>6
<1>8. \A i \in DOMAIN u.wraps :
         /\ u.wraps[i].tail = <<>> /\ u.wraps[i].table = u.table
         /\ \E j \in 1 .. n + 1 : q.ops[j].kind = u.wraps[i].kind
  <2> TAKE i \in DOMAIN u.wraps
  <2>1. CASE i = Len(t.wraps) + 1
    BY <1>2, <1>3, <1>5, <1>6, <2>1
  <2>2. CASE i \in DOMAIN t.wraps
    BY <1>3, <1>5, <1>6, <2>2 DEF MarkersFit
  <2> QED BY <1>4, <1>5, <2>1, <2>2
<1>9. CASE kind = "expand"
  <2>1. Len(t.wraps) = 0
    BY <1>5, <1>9 DEF MarkersFit
  <2> QED BY <1>3, <1>5, <1>7, <1>8, <2>1 DEF MarkersFit, u
<1>10. CASE kind = "correlate"
  <2>1. \A i \in DOMAIN t.wraps : t.wraps[i].kind = "expand"
    <3> TAKE i \in DOMAIN t.wraps
    <3>1. t.wraps[i] \in Wrap
      BY <1>4, <1>5
    <3>2. t.wraps[i].kind \in MarkerKinds
      BY <3>1 DEF Wrap, MarkerKinds
    <3> QED BY <1>10, <3>2 DEF MarkersFit, MarkerKinds
  <2>2. Len(t.wraps) \in {0, 1}
    BY <1>5, <2>1 DEF MarkersFit
  <2>3. Len(t.wraps) = 1 => u.wraps[1].kind = "expand" /\ u.wraps[2].kind = "correlate"
    BY <1>2, <1>5, <1>10, <2>1
  <2> QED BY <1>3, <1>5, <1>7, <1>8, <2>2, <2>3 DEF MarkersFit, u
<1> QED BY <1>9, <1>10 DEF MarkerKinds

\* One more operation of a supported query.
LEMMA WorkableNext ==
    ASSUME NEW t \in Translation, NEW q \in Query, Supported(q), NEW n \in Nat,
           n + 1 <= Len(q.ops), Workable(t, q, n)
    PROVE  Workable(TranslateOp(t, q.ops[n + 1]), q, n + 1)
<1> DEFINE op == q.ops[n + 1]
           u == TranslateOp(t, op)
<1>1. /\ q.ops \in Seq(Operation) /\ Len(q.ops) \in Nat /\ n + 1 \in DOMAIN q.ops
      /\ \A j \in 1 .. n : j \in DOMAIN q.ops /\ j < n + 1
      /\ op \in Operation
  BY DEF Query
<1>2. \A j \in 1 .. n :
         /\ op.kind \in ConditionKinds \cup {"sort"} => q.ops[j].kind \in ConditionKinds
         /\ op.kind = "limit" => q.ops[j].kind \in ConditionKinds \cup {"sort"}
         /\ op.kind = "expand" => q.ops[j].kind \in ConditionKinds \cup {"sort", "limit"}
         /\ op.kind = "correlate" =>
               q.ops[j].kind \in ConditionKinds \cup {"sort", "limit", "expand"}
  BY <1>1, SupportedOrder
<1>3. /\ op.kind \in ConditionKinds \cup {"sort", "limit"} \cup MarkerKinds
      /\ Legible(op, t.table)
  BY <1>1 DEF Supported, StageOf, MarkerKinds, Workable
<1>4. \A kind \in ConditionKinds : kind \notin {"sort", "limit"} \cup MarkerKinds
  BY DEF ConditionKinds, MarkerKinds
<1>5. /\ t.stmt \in Statement /\ t.table = GetTableName(q.signal) /\ t.stmt.table = t.table
      /\ t.stmt.select = Star /\ (t.sorted <=> \E j \in 1 .. n : q.ops[j].kind = "sort")
      /\ ClausesFit(t, q, n) /\ MarkersFit(t, q, n)
  BY DEF Workable, Translation
<1>6. \A j : j \in 1 .. n + 1 <=> j \in 1 .. n \/ j = n + 1
  OBVIOUS
<1>7. ASSUME op.kind \notin MarkerKinds PROVE t.wraps = <<>>
  <2>1. \A j \in 1 .. n : q.ops[j].kind \notin MarkerKinds
    BY <1>2, <1>3, <1>4, <1>7 DEF MarkerKinds
  <2> QED BY <1>5, <2>1 DEF MarkersFit
<1>8. ASSUME op.kind \notin MarkerKinds, NEW clause \in Clause,
             clause.reads \subseteq Columns(t.table),
             clause.kind \in {"and", "order", "limit"},
             clause.kind = "and" => op.kind \in ConditionKinds,
             clause.kind = "order" => op.kind = "sort",
             clause.kind = "limit" => op.kind = "limit"
      PROVE  LET v == AppendClause(t, clause) IN
             /\ ClausesFit(v, q, n + 1) /\ MarkersFit(v, q, n + 1)
             /\ v.table = t.table /\ v.stmt.table = t.table /\ v.stmt.select = Star
             /\ v.sorted = t.sorted
             /\ v \in Translation
  <2>1. /\ clause.kind \in {"and", "order"} =>
              \A j \in 1 .. n : q.ops[j].kind \notin {"sort", "limit"}
        /\ clause.kind = "limit" => \A j \in 1 .. n : q.ops[j].kind # "limit"
    BY <1>2, <1>4, <1>8
  <2>a. /\ clause.kind = "order" => q.ops[n + 1].kind = "sort"
        /\ clause.kind = "limit" => q.ops[n + 1].kind = "limit"
        /\ t.wraps = <<>> /\ ClausesFit(t, q, n)
    BY <1>5, <1>7, <1>8
  <2> DEFINE v == AppendClause(t, clause)
  <2>2. /\ ClausesFit(v, q, n + 1)
        /\ v.stmt.table = t.stmt.table /\ v.stmt.select = t.stmt.select
        /\ v.wraps = t.wraps /\ v.table = t.table /\ v.sorted = t.sorted
    BY <1>8, <2>1, <2>a, ClausesFitAppend
  <2>3. v \in Translation
    BY <1>8, AppendClauseType
  <2> HIDE DEF v
  <2>4. v.stmt.table = t.table /\ v.stmt.select = Star
    BY <1>5, <2>2 DEF Statement
  <2>5. MarkersFit(v, q, n + 1)
    <3>1. \A j \in 1 .. n + 1 : q.ops[j].kind \notin MarkerKinds
      BY <1>2, <1>3, <1>4, <1>6, <1>8 DEF MarkerKinds
    <3> QED BY <1>7, <1>8, <2>2, <3>1 DEF MarkersFit
  <2> QED BY <2>2, <2>3, <2>4, <2>5 DEF v
<1>9. CASE op.kind \in ConditionKinds
  <2> DEFINE clause == And(op.cond)
  <2>1. u = AppendClause(t, clause)
    BY <1>9 DEF TranslateOp, ConditionKinds
  <2>2. /\ clause \in Clause /\ clause.kind = "and"
        /\ clause.reads \subseteq Columns(t.table)
    BY <1>1, <1>3, <1>9, OperationFields, ClauseTypes DEF And, Legible
  <2> HIDE DEF clause, u
  <2>3. /\ ClausesFit(u, q, n + 1) /\ MarkersFit(u, q, n + 1)
        /\ u.table = t.table /\ u.stmt.table = t.table /\ u.stmt.select = Star
        /\ u.sorted = t.sorted
    BY <1>4, <1>8, <1>9, <2>1, <2>2
  <2>4. t.sorted <=> \E j \in 1 .. n + 1 : q.ops[j].kind = "sort"
    BY <1>4, <1>5, <1>6, <1>9
  <2>5. Workable(u, q, n + 1)
    BY <1>5, <2>3, <2>4 DEF Workable
  <2> QED BY <2>5 DEF u
<1>10. CASE op.kind = "limit"
  <2> DEFINE clause == Limit(op.count)
  <2>1. u = AppendClause(t, clause)
    BY <1>10 DEF TranslateOp, ConditionKinds
  <2>2. /\ clause \in Clause /\ clause.kind = "limit"
        /\ clause.reads \subseteq Columns(t.table)
    BY <1>1, <1>10, OperationFields, ClauseTypes DEF Limit
  <2> HIDE DEF clause, u
  <2>3. op.kind \notin MarkerKinds
    BY <1>10 DEF MarkerKinds
  <2>4. /\ ClausesFit(u, q, n + 1) /\ MarkersFit(u, q, n + 1)
        /\ u.table = t.table /\ u.stmt.table = t.table /\ u.stmt.select = Star
        /\ u.sorted = t.sorted
    BY <1>8, <1>10, <2>1, <2>2, <2>3
  <2>5. t.sorted <=> \E j \in 1 .. n + 1 : q.ops[j].kind = "sort"
    BY <1>5, <1>6, <1>10
  <2>6. Workable(u, q, n + 1)
    BY <1>5, <2>4, <2>5 DEF Workable
  <2> QED BY <2>6 DEF u
<1>11. CASE op.kind = "sort"
  <2> DEFINE clause == OrderBy(op.fields)
             v == AppendClause(t, clause)
  <2>1. u = [v EXCEPT !.sorted = TRUE]
    BY <1>11 DEF TranslateOp, ConditionKinds
  <2>2. /\ clause \in Clause /\ clause.kind = "order"
        /\ clause.reads \subseteq Columns(t.table)
    BY <1>1, <1>3, <1>11, OperationFields, ClauseTypes DEF OrderBy, Legible
  <2>3. op.kind \notin MarkerKinds
    BY <1>11 DEF MarkerKinds
  <2> HIDE DEF clause
  <2>4. /\ ClausesFit(v, q, n + 1) /\ MarkersFit(v, q, n + 1)
        /\ v.table = t.table /\ v.stmt.table = t.table /\ v.stmt.select = Star
        /\ v \in Translation
    BY <1>8, <1>11, <2>2, <2>3
  <2> HIDE DEF v, u
  <2>5. /\ u.table = v.table /\ u.stmt = v.stmt /\ u.wraps = v.wraps /\ u.sorted = TRUE
    BY <2>1, <2>4 DEF Translation
  <2>6. ClausesFit(u, q, n + 1) /\ MarkersFit(u, q, n + 1)
    BY <2>4, <2>5 DEF ClausesFit, MarkersFit
  <2>7. \E j \in 1 .. n + 1 : q.ops[j].kind = "sort"
    BY <1>6, <1>11
  <2>8. Workable(u, q, n + 1)
    BY <1>5, <2>4, <2>5, <2>6, <2>7 DEF Workable
  <2> QED BY <2>8 DEF u
<1>12. CASE op.kind \in MarkerKinds
  <2>1. \E signals : u = WrapText(t, op.kind, signals)
    BY <1>12 DEF TranslateOp, ConditionKinds, MarkerKinds
  <2>2. PICK signals : u = WrapText(t, op.kind, signals)
    BY <2>1
  <2>3. /\ op.kind = "expand" => \A j \in 1 .. n : q.ops[j].kind \notin MarkerKinds
        /\ op.kind = "correlate" => \A j \in 1 .. n : q.ops[j].kind # "correlate"
    BY <1>2, <1>4 DEF MarkerKinds
  <2> HIDE DEF u
  <2>4. /\ MarkersFit(u, q, n + 1)
        /\ u.stmt = t.stmt /\ u.table = t.table /\ u.sorted = t.sorted
    BY <1>5, <1>12, <2>2, <2>3, MarkersFitWrap
  <2>5. ClausesFit(u, q, n + 1)
    BY <1>5, <1>6, <2>4 DEF ClausesFit
  <2>6. u.sorted <=> \E j \in 1 .. n + 1 : q.ops[j].kind = "sort"
    BY <1>5, <1>6, <1>12, <2>4 DEF MarkerKinds
  <2>7. Workable(u, q, n + 1)
    BY <1>5, <2>4, <2>5, <2>6 DEF Workable
  <2> QED BY <2>7 DEF u
<1> QED BY <1>3, <1>9, <1>10, <1>11, <1>12

\* The default ordering follows conditions alone, so the finished text runs.
LEMMA WorkableFinish ==
    ASSUME NEW t \in Translation, NEW q \in Query, Supported(q), Workable(t, q, Len(q.ops))
    PROVE  LET u == DefaultOrder(t, q.signal) IN
           /\ Executable(u.stmt) /\ u.stmt.select = Star
           /\ u.stmt.table = t.table /\ u.wraps = t.wraps
<1> DEFINE n == Len(q.ops)
           clause == OrderBy({"timestamp"})
           u == DefaultOrder(t, q.signal)
<1>1. n \in Nat /\ DOMAIN q.ops = 1 .. n /\ t.stmt \in Statement
  BY DEF Query, Translation
<1>2. clause \in Clause /\ clause.kind = "order" /\ clause.reads = {"timestamp"}
  BY ClauseTypes DEF ColumnNames, SortText, OrderBy
<1>3. "timestamp" \in Columns(t.table)
  BY DEF Workable, Columns, GetTableName
<1>4. ASSUME NEW m, ClausesFit(u, q, m), u.stmt.select = Star,
             u.stmt.table = t.table, u.table = t.table
      PROVE  Executable(u.stmt)
  <2> HIDE DEF u
  <2>1. ColumnsKnown(u.stmt)
    BY <1>4 DEF ClausesFit, ColumnsKnown, Star
  <2>2. GroupingLegal(u.stmt)
    BY <1>4 DEF ClausesFit, GroupingLegal, Star
  <2> QED BY <1>4, <2>1, <2>2 DEF ClausesFit, Executable
<1>5. CASE ~t.sorted /\ t.wraps = <<>> /\ q.signal # "metrics"
  <2>1. u = AppendClause(t, clause)
    BY <1>5 DEF DefaultOrder
  <2>2. \A j \in 1 .. n : q.ops[j].kind \notin {"sort"} \cup MarkerKinds
    BY <1>5 DEF Workable, MarkersFit
  <2>3. KindsOf(q, {"expand", "correlate"}) = {} /\ KindsOf(q, {"sort"}) = {}
    BY <1>1, <2>2 DEF KindsOf, MarkerKinds
  <2>4. KindsOf(q, {"limit"}) = {}
    BY <1>5, <2>3 DEF Supported
  <2>5. \A i \in DOMAIN t.stmt.clauses : t.stmt.clauses[i].kind = "and"
    BY <1>1, <2>2, <2>4 DEF Workable, ClausesFit, KindsOf
  <2> DEFINE clauses == t.stmt.clauses
  <2>6. clauses \in Seq(Clause) /\ WellOrdered(clauses)
    BY <1>1 DEF Statement, Workable, ClausesFit
  <2>7. ClauseRank["and"] < ClauseRank["order"]
    BY DEF ClauseRank
  <2>8. WellOrdered(Append(clauses, clause))
    BY <1>2, <2>5, <2>6, <2>7, WellOrderedAppend
  <2>9. /\ u.stmt = [t.stmt EXCEPT !.clauses = Append(clauses, clause)]
        /\ u.wraps = t.wraps /\ u.table = t.table
    <3>1. u = [t EXCEPT !.stmt = [t.stmt EXCEPT !.clauses = Append(clauses, clause)]]
      BY <1>5, <2>1 DEF AppendClause
    <3> QED BY <3>1 DEF Translation
  <2>10. /\ u.stmt.clauses = Append(clauses, clause)
         /\ u.stmt.select = Star /\ u.stmt.table = t.table
    BY <1>1, <2>9 DEF Statement, Workable
  <2> HIDE DEF u, clause
  <2>11. \A i \in DOMAIN u.stmt.clauses :
            u.stmt.clauses[i] = clause \/ (i \in DOMAIN clauses /\ u.stmt.clauses[i] = clauses[i])
    BY <2>6, <2>10
  <2>12. ColumnsKnown(u.stmt)
    BY <1>2, <1>3, <2>10, <2>11 DEF ColumnsKnown, Star, Workable, ClausesFit
  <2>13. GroupingLegal(u.stmt)
    BY <1>2, <2>5, <2>10, <2>11 DEF GroupingLegal, Star
  <2> QED BY <2>8, <2>9, <2>10, <2>12, <2>13 DEF Executable, u
<1>6. CASE ~(~t.sorted /\ t.wraps = <<>> /\ q.signal # "metrics")
  <2>1. u = t
    BY <1>6 DEF DefaultOrder
  <2> QED BY <2>1, <1>4 DEF Workable
<1> QED BY <1>5, <1>6

-----------------------------------------------------------------------------
(* A supported pipeline is refused by nothing but an outage. *)

\* The finished text of a supported query can be run over the query API.
LEMMA FinishRuns ==
    ASSUME TypeOK, TypeOK', NEW r \in Requests, FinishTranslation(r),
           Supported(query[r]), via[r] = "api",
           Workable(sql[r], query[r], Len(query[r].ops))
    PROVE  Runnable(r)'
<1> DEFINE q == query[r]
           t == sql[r]
           n == Len(q.ops)
           wraps == sql'[r].wraps
<1>1. sql'[r] = DefaultOrder(t, q.signal) /\ via' = via
  BY DEF FinishTranslation, TypeOK, request
<1>2. q \in Query /\ t \in Translation /\ sql'[r] \in Translation
  BY QueryType DEF TypeOK
<1>3. /\ Executable(sql'[r].stmt) /\ sql'[r].stmt.select = Star
      /\ sql'[r].stmt.table = t.table /\ wraps = t.wraps
  BY <1>1, <1>2, WorkableFinish
<1>4. MarkersFit(t, q, n) /\ t.table = GetTableName(q.signal)
  BY DEF Workable
<1>5. wraps \in Seq(Wrap) /\ Len(wraps) \in Nat /\ DOMAIN wraps = 1 .. Len(wraps)
      /\ (wraps = <<>> <=> Len(wraps) = 0)
  BY <1>2 DEF Translation
<1> HIDE DEF wraps
<1>6. \A i \in DOMAIN wraps : wraps[i].tail = <<>> /\ wraps[i].table = t.table
                              /\ wraps[i].kind \in {"expand", "correlate"}
  <2> TAKE i \in DOMAIN wraps
  <2>1. wraps[i] \in Wrap
    BY <1>5
  <2> QED BY <1>3, <1>4, <2>1 DEF MarkersFit, Wrap
<1>7. \/ Len(wraps) \in {0, 1}
      \/ Len(wraps) = 2 /\ wraps[1].kind = "expand" /\ wraps[2].kind = "correlate"
  BY <1>3, <1>4 DEF MarkersFit
<1>8. Plan(r)' = IF Len(wraps) = 0 THEN "direct"
                 ELSE IF wraps[Len(wraps)].kind = "expand" THEN "expand"
                 ELSE IF Len(wraps) > 1 /\ wraps[Len(wraps) - 1].kind = "expand"
                      THEN "correlate_expand" ELSE "correlate"
  BY <1>1, <1>5 DEF Plan, Last, wraps
<1>9. Stripped(r)' = Len(wraps)
  <2>1. CASE Len(wraps) = 0
    BY <1>8, <2>1 DEF Stripped
  <2>2. CASE Len(wraps) = 1
    BY <1>5, <1>6, <1>8, <2>2 DEF Stripped
  <2>3. CASE Len(wraps) = 2 /\ wraps[1].kind = "expand" /\ wraps[2].kind = "correlate"
    BY <1>8, <2>3 DEF Stripped
  <2> QED BY <1>7, <2>1, <2>2, <2>3
<1>10. BaseExecutable(r)'
  BY <1>3, <1>9 DEF BaseExecutable, wraps
<1>11. ASSUME Plan(r)' # "direct"
       PROVE  /\ "trace_id" \in OutputColumns(sql'[r].stmt)
              /\ FollowUpExecutable(ExpandTable(r)')
  <2>1. Len(wraps) # 0
    BY <1>8, <1>11
  <2>2. \E j \in 1 .. n : q.ops[j].kind \in MarkerKinds
    BY <1>3, <1>4, <1>5, <2>1 DEF MarkersFit
  <2>3. KindsOf(q, {"expand", "correlate"}) # {}
    BY <2>2, QueryType DEF KindsOf, MarkerKinds
  <2>4. q.signal # "metrics"
    BY <2>3 DEF Supported
  <2>5. "trace_id" \in Columns(t.table)
    BY <1>4, <2>4 DEF Columns, GetTableName
  <2>6. ExpandTable(r)' = t.table
    BY <1>5, <1>6, <2>1 DEF ExpandTable, TableOfWrap, wraps
  <2> QED BY <1>3, <2>5, <2>6 DEF OutputColumns, FollowUpExecutable, Star
<1> QED BY <1>10, <1>11 DEF Runnable

\* A request that does not move stays served, whoever else meets an outage.
LEMMA ServedFrame ==
    ASSUME NEW r \in Requests, Served(r), query'[r] = query[r], todo'[r] = todo[r],
           via'[r] = via[r], sql'[r] = sql[r], base'[r] = base[r],
           pc'[r] = pc[r], status'[r] = status[r], r \in faulted => r \in faulted'
    PROVE  Served(r)'
<1>1. /\ Plan(r)' = Plan(r) /\ ExpandTable(r)' = ExpandTable(r)
      /\ Translated(r)' = Translated(r) /\ Stripped(r)' = Stripped(r)
  BY DEF Plan, ExpandTable, Translated, Stripped
<1>2. Runnable(r)' <=> Runnable(r)
  BY <1>1 DEF Runnable, BaseExecutable
<1>3. TracesOf(base[r])' = TracesOf(base[r])
  BY DEF TracesOf
<1> QED BY <1>1, <1>2, <1>3 DEF Served

\* A supported query begins as a text that can be run.
LEMMA AskServed ==
    ASSUME TypeOK, NEW r \in Requests, Ask(r)
    PROVE  Served(r)'
<1>1. PICK q \in Queries :
          query'[r] = q /\ todo'[r] = q.ops /\ sql'[r] = StartTranslation(q.signal, TenantOf[r])
  BY DEF Ask, Submit, TypeOK
<1>2. pc'[r] = "translate"
  BY DEF Ask, Submit, GoTo, TypeOK
<1>3. q \in Query /\ q.ops \in Seq(Operation)
  BY QueryServerAssumption DEF Query
<1>4. Translated(r)' = 0
  BY <1>1, <1>3 DEF Translated
<1>5. Workable(sql'[r], query'[r], 0)
  BY <1>1, <1>3, WorkableStart
<1> QED BY <1>2, <1>4, <1>5 DEF Served

\* An iteration keeps it one, and is not refused.
LEMMA TranslateServed ==
    ASSUME TypeOK, NEW r \in Requests, Honoured(r), Served(r), TranslateNext(r)
    PROVE  Served(r)'
<1> DEFINE n == Translated(r)
<1>1. TodoIsRest(r)
  BY DEF TranslateNext, At, Honoured
<1>2. /\ n \in Nat /\ n + 1 <= Len(query[r].ops) /\ n' = n + 1
      /\ sql'[r] = TranslateOp(sql[r], query[r].ops[n + 1])
      /\ query' = query /\ via' = via /\ pc[r] = "translate" /\ pc' = pc
  BY <1>1, NextTodo
<1>3. ASSUME Supported(query[r]), via[r] = "api"
      PROVE  Workable(sql'[r], query[r], n + 1)
  <2>1. Workable(sql[r], query[r], n) /\ query[r] \in Query /\ sql[r] \in Translation
    BY <1>2, <1>3, QueryType DEF Served, TypeOK
  <2> HIDE DEF n
  <2> QED BY <1>2, <1>3, <2>1, WorkableNext
<1> QED BY <1>2, <1>3 DEF Served

\* The text of the whole of a supported query can be run.
LEMMA FinishServed ==
    ASSUME TypeOK, TypeOK', NEW r \in Requests, Served(r), FinishTranslation(r)
    PROVE  Served(r)'
<1>1. /\ pc[r] = "translate" /\ pc'[r] = "base" /\ todo[r] = <<>>
      /\ query' = query /\ via' = via
      /\ sql'[r] = DefaultOrder(sql[r], query[r].signal)
  BY DEF FinishTranslation, At, GoTo, TypeOK, request
<1>2. Translated(r) = Len(query[r].ops)
  BY <1>1, QueryType DEF Translated
<1>3. ASSUME Supported(query[r]), via[r] = "api"
      PROVE  Runnable(r)'
  <2>1. Workable(sql[r], query[r], Len(query[r].ops))
    BY <1>1, <1>2, <1>3 DEF Served
  <2> QED BY <1>3, <2>1, FinishRuns
<1> QED BY <1>1, <1>3 DEF Served

\* No refusal of a supported query comes from the text.
LEMMA RefusalsServed ==
    ASSUME TypeOK, NEW r \in Requests, Traced(r), Honoured(r), Served(r),
           \/ RejectNext(r) \/ RefuseBase(r) \/ BaseWithoutTraceColumn(r)
           \/ RefuseExpand(r) \/ OutageFatal(r)
    PROVE  Served(r)'
<1>1. /\ pc'[r] = "done" /\ query' = query /\ via' = via
  BY DEF RejectNext, RefuseBase, BaseWithoutTraceColumn, RefuseExpand, OutageFatal,
     Fail, Answer, GoTo, TypeOK, request
<1>2. CASE OutageFatal(r)
  <2>1. r \in faulted'
    BY <1>2 DEF OutageFatal
  <2> QED BY <1>1, <2>1 DEF Served
<1>3. CASE RejectNext(r)
  <2>1. /\ pc[r] = "translate" /\ todo[r] # <<>> /\ Rejected(Head(todo[r]))
        /\ TodoIsRest(r)
    BY <1>3 DEF RejectNext, At, Honoured
  <2>2. Head(todo[r]) = query[r].ops[Translated(r) + 1] /\ Translated(r) + 1 \in DOMAIN query[r].ops
    <3>1. /\ todo[r] \in Seq(Operation) /\ Len(todo[r]) \in Nat
          /\ Len(query[r].ops) \in Nat /\ DOMAIN todo[r] = 1 .. Len(todo[r])
          /\ DOMAIN query[r].ops = 1 .. Len(query[r].ops)
      BY QueryType
    <3>2. 1 \in DOMAIN todo[r] /\ Head(todo[r]) = todo[r][1] /\ Len(todo[r]) >= 1
      BY <2>1, <3>1
    <3>3. Translated(r) + 1 \in 1 .. Len(query[r].ops)
      <4>1. Translated(r) >= 0
        BY <2>1 DEF TodoIsRest
      <4>2. Translated(r) = Len(query[r].ops) - Len(todo[r])
        BY DEF Translated
      <4>3. Len(todo[r]) \in Nat /\ Len(query[r].ops) \in Nat /\ Len(todo[r]) >= 1
        BY <3>1, <3>2
      <4>4. \A a, b \in Nat : b >= 1 /\ a - b >= 0 => (a - b) + 1 \in 1 .. a
        OBVIOUS
      <4> QED BY <4>1, <4>2, <4>3, <4>4
    <3> QED BY <2>1, <3>1, <3>2, <3>3 DEF TodoIsRest
  <2>3. ~Supported(query[r])
    BY <2>1, <2>2, QueryType, SupportedAccepted
  <2> QED BY <1>1, <2>3 DEF Served
<1>4. CASE RefuseBase(r) \/ BaseWithoutTraceColumn(r) \/ RefuseExpand(r)
  <2>1. pc[r] \in {"base", "expand"}
    BY <1>4 DEF RefuseBase, BaseWithoutTraceColumn, RefuseExpand, At
  <2>2. CASE RefuseBase(r)
    BY <1>1, <2>1, <2>2 DEF RefuseBase, Served, Runnable
  <2>3. CASE BaseWithoutTraceColumn(r)
    BY <1>1, <2>1, <2>3 DEF BaseWithoutTraceColumn, Served, Runnable
  <2>4. CASE RefuseExpand(r)
    <3>1. pc[r] = "expand" /\ Plan(r) # "direct"
      BY <2>4 DEF RefuseExpand, At, Traced, Underway
    <3> QED BY <1>1, <2>4, <3>1 DEF RefuseExpand, Served, Runnable
  <2> QED BY <1>4, <2>2, <2>3, <2>4
<1> QED BY <1>2, <1>3, <1>4

\* The steps that run a statement of a request, or handle a signal of it.
LEMMA RunServed ==
    ASSUME TypeOK, NEW r \in Requests, Served(r),
           \/ RunPlain(r) \/ RunExpandBase(r) \/ RunExpand(r) \/ RunCorrelateBase(r)
           \/ SkipSignal(r) \/ CorrelateSignal(r) \/ RefuseSignal(r) \/ OutageOfSignal(r)
           \/ FinishCorrelate(r)
    PROVE  Served(r)'
<1>1. query' = query /\ via' = via /\ sql' = sql /\ pc[r] \in {"base", "expand", "correlate"}
  BY DEF RunPlain, RunExpandBase, RunExpand, RunCorrelateBase, SkipSignal, CorrelateSignal,
     RefuseSignal, OutageOfSignal, FinishCorrelate, At, request, translation
<1>2. /\ Plan(r)' = Plan(r) /\ ExpandTable(r)' = ExpandTable(r) /\ Stripped(r)' = Stripped(r)
  BY <1>1 DEF Plan, ExpandTable, Stripped
<1>3. Runnable(r)' <=> Runnable(r)
  BY <1>1, <1>2 DEF Runnable, BaseExecutable
<1>4. CASE \/ RunPlain(r) \/ RunCorrelateBase(r) \/ RunExpand(r) \/ FinishCorrelate(r)
  <2>1. pc'[r] = "correlate" \/ (pc'[r] = "done" /\ status'[r] = "ok")
    BY <1>4 DEF RunPlain, RunCorrelateBase, RunExpand, FinishCorrelate, Answer, GoTo, TypeOK
  <2> QED BY <2>1 DEF Served
<1>5. CASE RunExpandBase(r)
  <2>1. PICK rows \in Returned(sql[r].stmt, db) :
          /\ base' = [base EXCEPT ![r] = rows]
          /\ \/ GoTo(r, "expand")
             \/ Answer(r, "ok", <<[table |-> "none", columns |-> {}, rows |-> {}]>>)
             \/ TraceIds(rows) = {} /\ Plan(r) = "correlate_expand" /\ Fail(r)
    BY <1>5 DEF RunExpandBase
  <2>2. base'[r] = rows /\ rows \in SUBSET Rows
    BY <2>1, ReturnedType DEF TypeOK
  <2>3. TracesOf(base[r])' = TraceIds(rows)
    BY <2>2, TraceIdsOfRows DEF TracesOf
  <2>4. pc[r] = "base"
    BY <1>5 DEF RunExpandBase, At
  <2>5. \/ pc'[r] = "expand"
        \/ pc'[r] = "done" /\ status'[r] = "ok"
        \/ pc'[r] = "done" /\ Plan(r) = "correlate_expand" /\ TraceIds(rows) = {}
    BY <2>1 DEF Fail, Answer, GoTo, TypeOK
  <2> QED BY <1>1, <1>2, <1>3, <2>3, <2>4, <2>5 DEF Served
<1>6. CASE SkipSignal(r) \/ CorrelateSignal(r) \/ RefuseSignal(r) \/ OutageOfSignal(r)
  <2>1. pc'[r] = "correlate"
    BY <1>6 DEF SkipSignal, CorrelateSignal, RefuseSignal, OutageOfSignal, At
  <2> QED BY <2>1 DEF Served
<1> QED BY <1>4, <1>5, <1>6

\* An outage that a request met is not forgotten.
LEMMA OutagesRemembered == TypeOK /\ [Next]_vars => faulted \subseteq faulted'
<1> SUFFICES ASSUME TypeOK, [Next]_vars PROVE faulted \subseteq faulted'
  OBVIOUS
<1>1. ASSUME NEW r \in Requests, Handle(r) PROVE faulted \subseteq faulted'
  BY <1>1 DEF Handle, TranslateNext, RejectNext, FinishTranslation, RefuseBase, RunPlain,
     BaseWithoutTraceColumn, RunExpandBase, RunExpand, RefuseExpand, RunCorrelateBase,
     SkipSignal, CorrelateSignal, RefuseSignal, FinishCorrelate, OutageFatal,
     OutageOfSignal, history
<1>2. ASSUME NEW r \in Requests, Ask(r) PROVE faulted \subseteq faulted'
  BY <1>2 DEF Ask, Submit, history
<1>3. CASE (\E batch \in Batches : Insert(batch)) \/ UNCHANGED vars
  BY <1>3 DEF Insert, history, vars
<1> QED BY <1>1, <1>2, <1>3 DEF Next

AllServed == \A r \in Requests : Served(r)

LEMMA NextServed ==
    ASSUME TypeOK, TypeOK', AllTraced, AllHonoured, AllServed, [Next]_vars
    PROVE  AllServed'
<1>1. faulted \subseteq faulted'
  BY OutagesRemembered
<1>2. ASSUME NEW r \in Requests, Ask(r) \/ Handle(r), NEW s \in Requests
      PROVE  Served(s)'
  <2>1. Traced(r) /\ Honoured(r) /\ Served(r) /\ Served(s)
    BY DEF AllTraced, AllHonoured, AllServed
  <2>2. CASE s = r
    BY <1>2, <2>1, <2>2, AskServed, TranslateServed, FinishServed, RefusalsServed, RunServed
    DEF Handle
  <2>3. CASE s # r
    <3>1. /\ pc'[s] = pc[s] /\ sql'[s] = sql[s] /\ status'[s] = status[s]
          /\ via'[s] = via[s] /\ base'[s] = base[s]
      BY <1>2, <2>3, OthersUntouched
    <3>2. query'[s] = query[s] /\ todo'[s] = todo[s]
      BY <1>2, <2>3, OtherQueriesUntouched
    <3> QED BY <1>1, <2>1, <3>1, <3>2, ServedFrame
  <2> QED BY <2>2, <2>3
<1>3. ASSUME (\E batch \in Batches : Insert(batch)) \/ UNCHANGED vars, NEW s \in Requests
      PROVE  Served(s)'
  <2>1. UNCHANGED <<pc, via, query, todo, sql, status, base, faulted>>
    BY <1>3 DEF Insert, request, translation, history, vars
  <2> QED BY <2>1, ServedFrame DEF AllServed
<1> QED BY <1>2, <1>3 DEF Next, AllServed

LEMMA ServedAlways == Spec => []AllServed
<1>1. Init => AllServed
  BY DEF Init, AllServed, Served
<1>2. TypeOK /\ TypeOK' /\ AllTraced /\ AllHonoured /\ AllServed /\ [Next]_vars => AllServed'
  BY NextServed
<1> QED BY <1>1, <1>2, TypeCorrect, TracedAlways, HonouredAlways, PTL DEF Spec

\* A pipeline of conditions, a sort, a limit, an expand and a correlate, in
\* this order and over columns the table has, is answered by the query API
\* whenever ClickHouse answers, unless the expand finds no trace to correlate.
THEOREM SupportedPipelines == Spec => []SupportedAnswered
<1>1. TypeOK /\ AllServed => SupportedAnswered
  BY DEF AllServed, Served, SupportedAnswered
<1> QED BY <1>1, TypeCorrect, ServedAlways, PTL
=============================================================================
