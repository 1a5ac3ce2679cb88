--------------------------- MODULE MCQueryServer ---------------------------
(***************************************************************************)
(* Instances of QueryServer for TLC: two tenants that use the same trace   *)
(* id, one request, and the pipelines the documentation shows.             *)
(***************************************************************************)
EXTENDS QueryServer

CONSTANTS acme, beta, r1, t1, t2, none, slow, fast

MCTenants == {acme, beta}
MCMarks == {slow, fast}
MCRequests == {r1}
MCTenantOf == [r \in MCRequests |-> acme]
MCTraces == {t1, t2}

Span(tenant, trace, mark, root) ==
    [table |-> "otel_spans", tenant |-> tenant, trace |-> trace, mark |-> mark, root |-> root]
Log(tenant, trace, mark) ==
    [table |-> "otel_logs", tenant |-> tenant, trace |-> trace, mark |-> mark, root |-> FALSE]
Metric(tenant, trace, mark) ==
    [table |-> "otel_metrics", tenant |-> tenant, trace |-> trace, mark |-> mark, root |-> FALSE]

\* One batch is one OTLP request: the spans or the logs of it, stored at once.
MCBatches ==
    { {Span(acme, t1, slow, TRUE), Span(acme, t1, fast, FALSE)},
      {Span(acme, t2, slow, FALSE)},
      {Log(acme, t1, fast), Log(acme, none, slow)},
      {Metric(acme, t1, slow)},
      {Span(beta, t1, slow, TRUE)},
      {Log(beta, t1, slow), Log(beta, none, fast)} }
MCRows == UNION MCBatches

\* Nothing, a row of the tenant and rows of the other one, stored or not.
MCFreeAnswers == { {}, {Span(acme, t2, slow, FALSE)},
                   {Span(beta, t1, slow, TRUE), Log(beta, none, fast)} }

-----------------------------------------------------------------------------
(* Operations. *)

Where(marks) == [kind |-> "where", cond |-> [reads |-> {"mark"}, marks |-> marks]]
WhereTrace == [kind |-> "where", cond |-> [reads |-> {"trace_id"}, marks |-> MCMarks]]
Since(marks) == [kind |-> "since", cond |-> [reads |-> {"timestamp"}, marks |-> marks]]
LimitTo(n) == [kind |-> "limit", count |-> n]
SortBy(columns) == [kind |-> "sort", fields |-> columns]
Expand == [kind |-> "expand", type |-> "trace"]
Correlate(signals) == [kind |-> "correlate", signals |-> signals]
GetExemplars == [kind |-> "get_exemplars"]
Switch(signal) == [kind |-> "switch_context", signal |-> signal]
Extract(field, alias) == [kind |-> "extract", field |-> field, alias |-> alias]
Group(columns) == [kind |-> "group", fields |-> columns]
Count == [kind |-> "aggregate", reads |-> {}]

On(signal, ops) == [signal |-> signal, ops |-> ops]

\* README.md, SPEC.md, examples/queries.md and the help of the MCP tool, and
\* pipelines that put the same operations in another order.
MCQueries ==
    { On("traces", <<Where({slow})>>),
      On("logs", <<Since({slow, fast}), Where({fast})>>),
      On("spans", <<Where({slow}), SortBy({"timestamp"}), LimitTo(1)>>),
      On("spans", <<Where({slow}), LimitTo(1)>>),
      On("metrics", <<Where({slow}), LimitTo(1)>>),
      On("spans", <<LimitTo(1), Where({slow})>>),
      On("spans", <<Where({slow}), Expand>>),
      On("spans", <<Where({slow}), LimitTo(1), Expand>>),
      On("logs", <<Where({slow}), Expand>>),
      On("spans", <<Expand, Where({fast})>>),
      On("spans", <<Expand, Expand>>),
      On("spans", <<Where({slow}), Correlate(<<"metrics", "spans", "logs">>)>>),
      On("logs", <<Correlate(<<"logs", "traces">>)>>),
      On("logs", <<Correlate(<<"logs", "spans">>), Where({slow})>>),
      On("spans", <<Where({slow}), Expand, Correlate(<<"logs", "metrics">>)>>),
      On("spans", <<Correlate(<<"logs">>), Expand>>),
      On("metrics", <<Where({slow}), GetExemplars>>),
      On("metrics", <<Where({slow}), GetExemplars, Expand, Correlate(<<"logs">>)>>),
      On("metrics", <<Extract("exemplar_trace_id", "trace_id"), Correlate(<<"spans">>)>>),
      On("metrics", <<Where({slow}), Extract("exemplar.trace_id", "agg")>>),
      On("metrics", <<Where({slow}), Switch("spans"), WhereTrace, Where({fast})>>),
      On("logs", <<Where({slow}), Switch("spans"), Expand, Correlate(<<"logs">>)>>),
      On("metrics", <<Switch("spans"), Where({slow}), Expand>>),
      On("spans", <<[kind |-> "expand", type |-> "other"]>>),
      On("logs", <<[kind |-> "where", cond |-> [reads |-> {"exemplar_trace_id"},
                                                marks |-> MCMarks]]>>),
      On("spans", <<Group({"mark"}), Count>>),
      On("metrics", <<Group({"mark"}), Count>>),
      On("spans", <<Where({slow}), SortBy({NoColumn})>>),
      On("logs", <<SortBy({NoColumn, "timestamp"}), Expand, Correlate(<<"metrics">>)>>),
      On("spans", <<SortBy({NoColumn}), Switch("logs"), Correlate(<<"spans">>)>>) }
-----------------------------------------------------------------------------
(* The pipelines of the claims. *)

\* README.md:118, README.md:248
LimitQueries == {On("spans", <<Where({slow}), LimitTo(1)>>)}

\* pkg/mcp/server.go:78
McpQueries == {On("spans", <<Where({slow}), Expand>>)}
=============================================================================
