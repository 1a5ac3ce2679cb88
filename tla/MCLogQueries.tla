----------------------------- MODULE MCLogQueries -----------------------------
(* Model checking of LogQueries: two columns and an attribute, seconds of two *)
(* milliseconds, instants from 12 to 18, seconds from 6 to 9.                 *)
EXTENDS LogQueries

MCColumnOfLabel == [level |-> "log_level", log_level |-> "log_level", service |-> "service_name"]

MCDefaultLimit == [query |-> 1, query_range |-> 2]

At(time, tenant, level, app, body) ==
    [time |-> time, tenant |-> tenant, body |-> body,
     labels |-> [log_level |-> level, service_name |-> "shop", app |-> app]]

\* Three lines of one label set, one without the attribute, one without a time
\* and a foreign one that meets every condition.
MCLines ==
    {At(13, "t1", "error", "web", "refused"), At(14, "t1", "error", "web", "refused"),
     At(16, "t1", "error", "web", "timeout"), At(15, "t1", "info", "", "refused"),
     At(0, "t1", "error", "", "timeout"), At(14, "t2", "error", "batch", "refused")}

MCDatabases == {d \in SUBSET MCLines : Cardinality(d) <= 3}

Matching(label, sought, found) ==
    [label |-> label, positive |-> TRUE, text |-> IF found = sought THEN "same" ELSE "wider",
     sought |-> sought, found |-> found]
Equal(label, value) == Matching(label, {value}, {value})
NotEqual(label, value) == [Equal(label, value) EXCEPT !.positive = FALSE]

Has(body) == [kind |-> "filter", positive |-> TRUE, text |-> "same",
              sought |-> {body}, found |-> {body}]
Lacks(body) == [Has(body) EXCEPT !.positive = FALSE]
Wider(filter) == [filter EXCEPT !.text = "wider", !.found = Bodies]
Empty == [Has("refused") EXCEPT !.text = "empty", !.sought = Bodies, !.found = Bodies]
Parser(name) == [kind |-> "parser", name |-> name, parameter |-> FALSE]
WithParameter(name) == [Parser(name) EXCEPT !.parameter = TRUE]
Drop == [kind |-> "labels"]
LabelFilter == [kind |-> "label_filter"]

Log(matchers, pipeline) ==
    [kind |-> "log", matchers |-> matchers, pipeline |-> pipeline, range |-> 0]

Error == {Equal("level", "error")}

MCLogs ==
    {Log(Error, p) : p \in {<<>>, <<Has("refused")>>, <<Lacks("refused"), Parser("json")>>,
                            <<Parser("logfmt"), Has("refused")>>,
                            <<Has("refused"), Lacks("timeout"), Drop>>,
                            <<Parser("json"), LabelFilter>>, <<Drop, Parser("json")>>,
                            <<Wider(Has("refused"))>>, <<Wider(Lacks("refused"))>>,
                            <<Empty>>, <<WithParameter("pattern")>>}}
    \cup {Log({Equal("service", "shop"), NotEqual("level", "info")}, <<>>),
          Log({Equal("app", "web"), Equal("log_level", "error")}, <<>>),
          Log({NotEqual("level", "info")}, <<>>), Log({NotEqual("level", "")}, <<>>),
          Log({Matching("level", {"error"}, {"error", "info"})}, <<>>),
          Log({Equal("service", "shop"),
               [Matching("level", {}, {"info"}) EXCEPT !.positive = FALSE]}, <<>>),
          Log({}, <<>>), [Log(Error, <<>>) EXCEPT !.range = 4]}

Metric(function, aggregation, by, grouping, pipeline) ==
    [kind |-> "metric", matchers |-> Error, pipeline |-> pipeline, range |-> 4,
     function |-> function, aggregation |-> aggregation, by |-> by, grouping |-> grouping]

MCMetrics ==
    {Metric(f, "none", {}, "before", p) :
         f \in {"count_over_time", "bytes_rate"}, p \in {<<>>, <<Has("refused")>>}}
    \cup {Metric(f, "sum", {"level"}, g, p) :
              f \in {"rate", "bytes_over_time", "other"}, g \in {"before", "after"},
              p \in {<<>>, <<Parser("json")>>, <<Parser("regexp")>>}}
    \cup {Metric("rate", "topk", {}, "before", <<>>), Metric("bytes_rate", "topk", {}, "before", <<>>)}

MCInstant ==
    {[endpoint |-> "query", query |-> q, limit |-> l, direction |-> d] :
         q \in MCLogs \cup MCMetrics \cup {[kind |-> "scalar"]},
         l \in {<<>>, <<0>>, <<2>>}, d \in {"forward", "backward"}}

Written(unit, at) == [unit |-> unit, at |-> at]

MCRange ==
    {[endpoint |-> "query_range", query |-> q, limit |-> l, direction |-> "backward",
      start |-> from, end |-> Written(v, 16)] :
         q \in MCLogs \cup {Metric("count_over_time", "none", {}, "before", <<>>)},
         l \in {<<>>, <<1>>}, v \in {"s", "ms", "ns"},
         from \in {Written("date", 15), Written("s", 14), Written("ms", 14)}}

MCLists ==
    {[endpoint |-> "labels", limit |-> <<>>, start |-> <<>>, end |-> <<>>]}
    \cup {[endpoint |-> "label_values", label |-> n, limit |-> l, start |-> s, end |-> e] :
              n \in {"level", "app", "service"}, l \in {<<>>, <<1>>},
              s \in {<<>>, <<Written("s", 14)>>}, e \in {<<>>, <<Written("ms", 16)>>}}

MCRequests == MCInstant \cup MCRange \cup MCLists
=============================================================================
