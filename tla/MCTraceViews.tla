---------------------------- MODULE MCTraceViews ----------------------------
(* Model checking of TraceViews: two traces of one tenant and a span of      *)
(* another tenant under one of their ids, in milliseconds of two nanoseconds.*)
EXTENDS TraceViews

SpanOf(tenant, trace, id, parent, service, start, end, failed) ==
    [tenant |-> tenant, trace |-> trace, id |-> id, parent |-> parent,
     service |-> service, start |-> start, end |-> end, failed |-> failed]

\* A trace of three levels with a span that has no service, took no time and
\* began before its parent by a clock of its own; one of two roots.
FrontSpan == SpanOf("acme", "t1", "front", Nothing, "shop", 4, 21, FALSE)
CartSpan  == SpanOf("acme", "t1", "cart", "front", "shop", 7, 9, FALSE)
PaySpan   == SpanOf("acme", "t1", "pay", "front", "bank", 10, 19, TRUE)
BookSpan  == SpanOf("acme", "t1", "book", "pay", Nothing, 9, 9, FALSE)
RetrySpan == SpanOf("acme", "t2", "retry", Nothing, "shop", 15, 17, FALSE)
OtherSpan == SpanOf("acme", "t2", "other", Nothing, "bank", 1, 6, TRUE)
AlienSpan == SpanOf("rival", "t2", "alien", Nothing, "bank", 5, 8, FALSE)

MCBatches == {{BookSpan, PaySpan}, {FrontSpan}, {CartSpan}, {OtherSpan, RetrySpan}, {AlienSpan}}

\* The root is exported twice.
MCCopies == [batch \in MCBatches |-> IF FrontSpan \in batch THEN 2 ELSE 1]

AllSpans == UNION MCBatches
Failed == {span \in AllSpans : span.failed}
OfBank == {span \in AllSpans : span.service = "bank"}
OfShop == {span \in AllSpans : span.service = "shop"}

Sign(kind) == [kind |-> kind, admits |-> {}]
Condition(spans) == [kind |-> "condition", admits |-> spans]
Text(kinds) == [i \in DOMAIN kinds |-> Sign(kinds[i])]

Braces(spans) == <<Sign("{"), Condition(spans), Sign("}")>>
Joined(sign, spans1, spans2) ==
    <<Sign("{"), Condition(spans1), Sign(sign), Condition(spans2), Sign("}")>>

SearchFor(version, text, from, limit) ==
    [version |-> version, text |-> text, from |-> from, to |-> 20, limit |-> limit]

\* Texts that are not a filter: none, empty braces, arithmetic, and aggregations
\* without and with fields, with an argument, and unfinished.
OtherTexts ==
    {Text(kinds) : kinds \in
        {<<>>, <<"{", "}">>, <<"scalar">>,
         <<"function", "(", ")">>,
         <<"function", "(", ")", "by", "(", "field", ",", "field", ")">>,
         <<"function", "(", "field", ")">>,
         <<"function", "(", ")", "by", "(", "field", ",", ")">>}}

\* Filters; in the last what follows the first pair of braces is dropped.
MCSearches ==
    {SearchFor("v1", Braces(AllSpans), 0, 2),
     SearchFor("v1", Braces(OfShop), 0, 20),
     SearchFor("v2", Joined("&&", OfBank, Failed), 0, 20),
     SearchFor("v2", Braces(AllSpans) \o <<Sign("&&")>> \o Braces(OfShop), 4, 20)}
    \cup {SearchFor(version, text, 0, 20) : version \in {"v1", "v2"}, text \in OtherTexts}

MCLists ==
    {[tag |-> tag, from |-> from, to |-> 20] :
        tag \in {"resource.service.name", "span.error"}, from \in {0, 4}}
    \cup {[tag |-> tag, from |-> 0, to |-> 20] : tag \in {"span.other", "unscoped"}}

OrSearches == {SearchFor("v2", Joined("||", OfShop, Failed), 0, 20)}
=============================================================================
