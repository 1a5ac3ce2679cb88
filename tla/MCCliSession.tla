---------------------------- MODULE MCCliSession ----------------------------
(***************************************************************************)
(* An instance of CliSession for TLC: two traces, one of two spans that    *)
(* the server returns child first.                                         *)
(***************************************************************************)
EXTENDS CliSession

CONSTANTS t1, t2, root, child, other, none

MCTraces == {t1, t2}
MCSpans == {root, child, other}

MCRow(trace, span, rank) == [trace |-> trace, span |-> span, rank |-> rank]
Set(signal, rows) == [signal |-> signal, rows |-> rows]

MCResultSets ==
    { Set("spans", <<MCRow(t1, child, 2), MCRow(t1, root, 1)>>),
      Set("spans", <<MCRow(t2, other, 3)>>),
      Set("logs", <<MCRow(t1, child, 5), MCRow(none, none, 4)>>),
      Set("logs", <<>>),
      Set("metrics", <<MCRow(none, none, 6)>>) }

Line(kind, stage) == [kind |-> kind, stage |-> [kind |-> stage, of |-> none]]

\* signal=spans; expand trace, et; correlate logs; cl, expand; name = "x";
\* where name = "x"
MCCommands ==
    { Line("base", "list"), Line("op", "expand"), Line("op", "correlate"),
      Line("word", "expand"), Line("word", "correlate"),
      Line("condition", "filter"), Line("condition", "malformed") }
=============================================================================
