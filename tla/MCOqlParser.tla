----------------------------- MODULE MCOqlParser ----------------------------
(***************************************************************************)
(* Texts for OqlParser: pipelines printed from the operations they mean,   *)
(* in the four layouts of the documentation and the tests, and short       *)
(* sequences of signs that mean nothing.                                   *)
(***************************************************************************)
EXTENDS OqlParser

Kinds ==
    [w \in {"5", "2"} |-> "number"] @@ [w \in {"1h", "2s"} |-> "duration"]
    @@ [w \in {"true"} |-> "boolean"] @@ [w \in {"5.5.5s"} |-> "invalid"]

Is(left, operator, kind, s) ==
    [left |-> <<left>>, operator |-> operator, right |-> [kind |-> kind, text |-> s]]
Cond(op, joint, parts) == [op |-> op, condition |-> [joint |-> joint, parts |-> parts]]

\* One or two ways to write each operation, with what it means.
Samples == {
    [text |-> <<"where", " ", "a", " ", "==", " ", "5">>,
     ops |-> <<Cond("where", "one", <<Is("a", "==", "number", <<"5">>)>>)>>],
    [text |-> <<"where", " ", "a", "=", "true", " ", "or", " ", "b", " ", "!=", " ", "\"", "b", " ", "a", "\"">>,
     ops |-> <<Cond("where", "or", <<Is("a", "=", "boolean", <<"true">>),
                                     Is("b", "!=", "string", <<"b", " ", "a">>)>>)>>],
    [text |-> <<"filter", " ", "a", ">=", "2s", " ", "and", " ", "b", " ", "<", " ", "now", "(", ")",
                " ", "-", " ", "1h">>,
     ops |-> <<Cond("filter", "and", <<Is("a", ">=", "duration", <<"2s">>),
                                       Is("b", "<", "offset", <<"-", "1h">>)>>)>>],
    [text |-> <<"expand", " ", "trace">>, ops |-> <<[op |-> "expand"]>>],
    [text |-> <<"correlate", " ", "logs", ",", " ", "metric">>,
     ops |-> <<[op |-> "correlate", signals |-> <<"logs", "metrics">>]>>],
    [text |-> <<"get_exemplars", "(", ")">>, ops |-> <<[op |-> "get_exemplars"]>>],
    [text |-> <<"switch_context", " ", "signal=", "l">>,
     ops |-> <<[op |-> "switch_context", signal |-> "logs"]>>],
    [text |-> <<"extract", " ", "a", " ", "as", " ", "b">>,
     ops |-> <<[op |-> "extract", field |-> <<"a">>, alias |-> <<"b">>]>>],
    [text |-> <<"limit", " ", "5">>, ops |-> <<[op |-> "limit", count |-> <<"5">>]>>],
    [text |-> <<"sort", " ", "a", " ", "desc", ",", " ", "b">>,
     ops |-> <<[op |-> "sort", fields |-> <<[field |-> <<"a">>, desc |-> TRUE],
                                            [field |-> <<"b">>, desc |-> FALSE]>>]>>],
    [text |-> <<"avg", "(", "a", ")", " ", "as", " ", "b">>,
     ops |-> <<[op |-> "aggregate", function |-> <<"avg">>, field |-> <<"a">>, alias |-> <<"b">>]>>],
    [text |-> <<"aggregate", " ", "count", "(", ")">>,
     ops |-> <<[op |-> "aggregate", function |-> <<"count">>, field |-> <<>>, alias |-> <<>>]>>],
    [text |-> <<"group", " ", "by", " ", "a", ",", "b">>,
     ops |-> <<[op |-> "group", fields |-> <<<<"a">>, <<"b">>>>]>>],
    [text |-> <<"since", " ", "1h">>, ops |-> <<[op |-> "since", duration |-> <<"1h">>]>>],
    [text |-> <<"between", " ", "a", " ", "and", " ", "b">>,
     ops |-> <<[op |-> "between", start |-> <<"a">>, end |-> <<"b">>]>>] }

Layouts == {<<" ">>, <<" ", "|", " ">>, <<"|">>, <<"\n", "|", "\t">>}

Printed ==
    {[text |-> <<" ", "signal=", "spans">> \o layout \o x.text \o layout \o y.text \o <<"\n">>,
      known |-> TRUE, ops |-> x.ops \o y.ops] : layout \in Layouts, x \in Samples, y \in Samples}

Alphabet == {" ", "|", "(", ")", ",", "==", "a", "where", "as", "count", "trace"}
Beginnings == {<<>>, <<"where", " ", "a", "==">>, <<"avg">>, <<"sort", " ", "a">>, <<"limit", " ">>,
               <<"extract", " ">>, <<"between", " ", "a">>, <<"group", " ">>, <<"expand", " ">>,
               <<"correlate", " ">>, <<"get_exemplars">>, <<"switch_context", " ", "signal=">>}
Noise ==
    {[text |-> <<"signal=", "s", " ">> \o b \o s, known |-> FALSE, ops |-> <<>>] :
        b \in Beginnings, s \in [1 .. 2 -> Alphabet]}
    \cup {[text |-> <<"signal=", "s", " ">> \o s, known |-> FALSE, ops |-> <<>>] : s \in [1 .. 3 -> Alphabet]}
    \cup {[text |-> <<w>> \o s, known |-> FALSE, ops |-> <<>>] :
        w \in {"signal=", "a"}, s \in {<<>>, <<"a">>, <<" ">>, <<"spans", "(">>}}

Lines == Printed \cup Noise

Appended ==
    {s \in Samples : Head(s.text) \in {"filter", "limit", "aggregate"}}

\* What the reference's section on precedence is about.
Mixed ==
    {[text |-> <<"signal=", "spans", " ", "where", " ", "a", "==", "5", " ", c[1], " ", "b", "==", "2", " ", c[2],
                 " ", "a", "==", "2", " ">> \o s.text,
      known |-> FALSE, ops |-> <<>>] : c \in [1 .. 2 -> {"and", "or"}], s \in Samples}

NoRefinements == {}

Tokens == UNION {ToSet(line.text) : line \in Lines \cup Mixed} \cup {"and", "or", ",", "|", " "}
=============================================================================
