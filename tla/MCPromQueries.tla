--------------------------- MODULE MCPromQueries ---------------------------
(* Model checking of PromQueries: two labels, two values of each, up to      *)
(* ten milliseconds in seconds of two.                                       *)
EXTENDS PromQueries

At(time, name, job, value, tenant) ==
    [time |-> time, tenant |-> tenant, labels |-> [name |-> name, job |-> job],
     value |-> value]

\* Five points of the series that is asked for, one per bucket of a step of
\* two, two of them in one bucket of a step of four; and others beside it.
MCPoints ==
    {At(3, "cpu", "api", "low", "t1"), At(4, "cpu", "api", "high", "t1"),
     At(6, "cpu", "api", "low", "t1"), At(9, "cpu", "api", "high", "t1"),
     At(4, "cpu", "web", "low", "t1"), At(6, "mem", "api", "low", "t1"),
     At(6, "cpu", "api", "low", "t2")}

MCDatabases == {d \in SUBSET MCPoints : Cardinality(d) <= 4}

Selector(matchers) == [kind |-> "selector", matchers |-> matchers]
Matrix(matchers, range) == [kind |-> "matrix", matchers |-> matchers, range |-> range]
By(labels) == [kind |-> "aggregate", by |-> labels, without |-> FALSE]
Without(labels) == [kind |-> "aggregate", by |-> labels, without |-> TRUE]
Rate == [kind |-> "rate"]
High == [kind |-> "compare", admits |-> {"high"}]
Offset == [kind |-> "unsupported"]

Is(value) == [op |-> "=", text |-> "same", sought |-> {value}, found |-> {value}]
Like(sought, found) ==
    [op |-> "=~", text |-> IF found = sought THEN "same" ELSE "wider",
     sought |-> sought, found |-> found]
Not(matcher, op) == [matcher EXCEPT !.op = op]
Rewritten(value) == [Is(value) EXCEPT !.text = "rewritten", !.found = {}]

Cpu == [name |-> Is("cpu")]
CpuOfApi == [name |-> Is("cpu"), job |-> Is("api")]
CpuOfAny == [name |-> Is("cpu"), job |-> Like({"api", "web"}, {"api", "web"})]
OfApi == [job |-> Is("api")]
CpuOfWider == [name |-> Is("cpu"), job |-> Like({"api"}, {"api", "web"})]
CpuOfNone == [name |-> Is("cpu"), job |-> Not(Like({}, {"web"}), "!~")]
CpuOfDotted == [name |-> Is("cpu"), job |-> Not(Rewritten("api"), "!=")]
AnyName == [name |-> Like({"cpu", "mem"}, {"cpu", "mem"}), job |-> Is("api")]

MCExpressions ==
    {<<Selector(Cpu)>>, <<Selector(CpuOfApi)>>, <<Selector(CpuOfAny)>>, <<Selector(OfApi)>>,
     <<Selector(CpuOfAny), High>>, <<Selector(Cpu), Offset>>,
     <<Matrix(CpuOfApi, 4)>>, <<Matrix(CpuOfAny, 4), Rate>>,
     <<Matrix(Cpu, 4), Rate, By({"job"})>>,
     <<Selector(Cpu), By({})>>, <<Selector(Cpu), By({"job"})>>, <<Selector(Cpu), Without({})>>,
     <<Selector(CpuOfAny), By({"job"})>>, <<Selector(CpuOfApi), By({"name"})>>,
     <<Selector(CpuOfAny), By({"job"}), High>>, <<Selector(CpuOfAny), By({"job"}), High, By({})>>,
     <<Selector(Cpu), By({"job"}), By({})>>,
     <<Selector(CpuOfWider)>>, <<Selector(CpuOfNone)>>, <<Selector(CpuOfDotted)>>,
     <<Selector(AnyName)>>, <<Matrix(AnyName, 4), Rate>>}

MCInstant == {[endpoint |-> "query", layers |-> e, start |-> 0, end |-> 0, step |-> 0] :
                 e \in MCExpressions}

\* Ranges that are aligned to their step and ranges that are not, and a step
\* that rounds to nothing.
MCRange == {[endpoint |-> "query_range", layers |-> e, start |-> r[1], end |-> r[2], step |-> r[3]] :
               e \in MCExpressions, r \in {<<3, 9, 2>>, <<2, 9, 4>>, <<4, 6, 3>>, <<3, 9, 1>>, <<3, 9, 0>>}}

MCQueries == MCInstant \cup MCRange
=============================================================================
