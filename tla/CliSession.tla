----------------------------- MODULE CliSession -----------------------------
(***************************************************************************)
(* cmd/oql-cli/main.go: the session of the interactive shell.              *)
(*                                                                         *)
(* The shell sends queries to the query API and keeps, between prompts,    *)
(* the stack of queries that undo walks back, the last response, the rows  *)
(* it numbered on the screen, the trace or span the user focused on, and   *)
(* the commands that ! recalls.  The same line means different things in   *)
(* different sessions: "et" refines the last query or, under a focus,      *)
(* starts a new one.  The server answers each query, refuses it, or cannot *)
(* be reached, and two answers to the same query may differ.               *)
(*                                                                         *)
(* A query is the sequence of its stages; a row is its ids and its rank,   *)
(* its place in the waterfall of a trace or in the time order of logs.     *)
(***************************************************************************)
EXTENDS Naturals, Sequences, FiniteSetsExt, TLC

CONSTANTS
    Traces, Spans,   \* ids
    None,            \* the empty id
    Commands,        \* the lines a user types that lead to a query
    ResultSets,      \* the result sets the server may answer with
    MaxCommands      \* bound: the commands recorded in one session

Stages ==
    [kind : {"list", "expand", "correlate", "filter", "malformed"}, of : {None}]
    \cup [kind : {"trace"}, of : Traces]    \* signal=spans | where trace_id == of
    \cup [kind : {"span"}, of : Spans]      \* signal=logs | where span_id == of

Stage(kind) == [kind |-> kind, of |-> None]

\* base: "signal=...".  op: a line that isRefinementOperation knows.  word: an
\* abbreviation it does not know ("cl", a bare "expand").  condition: a line
\* with a comparison in it.
Command == [kind : {"base", "op", "word", "condition"}, stage : Stages]

Row == [trace : Traces \cup {None}, span : Spans \cup {None}, rank : Nat]
NoRow == [trace |-> None, span |-> None, rank |-> 0]

ResultSet == [signal : {"spans", "logs", "metrics"}, rows : Seq(Row)]

ASSUME CliAssumption ==
    /\ None \notin Traces \cup Spans
    /\ Commands \subseteq Command
    /\ ResultSets \subseteq ResultSet
    /\ MaxCommands \in Nat

VARIABLES
    queryHistory,     \* the stack of queries
    lastResponse,     \* the result sets of the last answer (<<>>: none)
    lastQuery,        \* the query it answers
    displayRows,      \* the rows numbered on the screen (<<>>: nil)
    focusedTraceID, focusedSpanID,
    commandHistory,   \* what !! and !n recall
    jsonOutput,       \* the -json flag
    out,              \* history: the row the last print or focus took, and its number
    undoLost,         \* history: the last undo was not answered
    oldTable          \* history: displayRows is the table of an earlier answer

session == <<lastResponse, lastQuery, displayRows>>
focus == <<focusedTraceID, focusedSpanID>>
vars == <<queryHistory, session, focus, commandHistory, jsonOutput, out, undoLost, oldTable>>

Quiet == [cmd |-> "none", n |-> 0, row |-> NoRow]

Init ==
    /\ queryHistory = <<>>
    /\ lastResponse = <<>>
    /\ lastQuery = <<>>
    /\ displayRows = <<>>
    /\ focusedTraceID = None
    /\ focusedSpanID = None
    /\ commandHistory = <<>>
    /\ jsonOutput \in BOOLEAN
    /\ out = Quiet
    /\ undoLost = FALSE
    /\ oldTable = FALSE

-----------------------------------------------------------------------------
(* The query a line stands for. *)

Last(s) == s[Len(s)]

Has(query, kind) == \E i \in DOMAIN query : query[i].kind = kind

\* expandAbbreviations under a focus: the line becomes a full query.
Injected(cmd) ==
    IF focusedSpanID # None /\ cmd.stage.kind = "correlate"
    THEN <<[kind |-> "span", of |-> focusedSpanID]>>
    ELSE IF focusedTraceID # None /\ focusedSpanID = None /\ cmd.stage.kind = "expand"
    THEN <<[kind |-> "trace", of |-> focusedTraceID], Stage("expand")>>
    ELSE <<>>

\* mutant: a full query made of a focus still counts as a refinement
RefinesUnderFocus(cmd) == cmd.kind \in {"op", "condition"}

Refines(cmd) == Injected(cmd) = <<>> /\ cmd.kind \in {"op", "condition"}

QueryOf(cmd) ==
    IF Injected(cmd) # <<>> THEN Injected(cmd)
    ELSE IF Refines(cmd) THEN Append(Last(queryHistory), cmd.stage)
    ELSE <<cmd.stage>>

\* What the server can parse: a signal first, then operations.
WellFormed(query) ==
    /\ query[1].kind \in {"list", "trace", "span"}
    /\ \A i \in DOMAIN query \ {1} : query[i].kind \in {"expand", "correlate", "filter"}

\* What it answers: one result set; for a correlate the base and its logs, the
\* logs alone if the base was expanded, nothing if it has no trace.
AnswersTo(query) ==
    LET Of(signal) == {set \in ResultSets : set.signal = signal} IN
    IF Has(query, "correlate") /\ Has(query, "expand")
    THEN {<<>>} \cup {<<logs>> : logs \in Of("logs")}
    ELSE IF Has(query, "correlate")
    THEN {<<>>} \cup {<<base, logs>> : base \in Of("spans"), logs \in Of("logs")}
    ELSE IF query[1].kind = "span" THEN {<<set>> : set \in Of("logs")}
    ELSE IF query[1].kind = "list" /\ ~Has(query, "expand") THEN {<<set>> : set \in ResultSets}
    ELSE {<<set>> : set \in Of("spans")}

-----------------------------------------------------------------------------
(* The table on the screen. *)

InOrder(rows) == SortSeq(rows, LAMBDA a, b : a.rank < b.rank)

\* The waterfall needs the parent ids, which only spans have.
TableRows(query, set) ==
    IF \/ Has(query, "expand") /\ set.signal = "spans"
       \/ ~Has(query, "expand") /\ Has(query, "correlate") /\ set.signal = "logs"
    THEN InOrder(set.rows) ELSE set.rows

\* printResultsNumbered remembers the rows of the last result set that has any.
Numbered(query, response) ==
    LET shown == {i \in DOMAIN response : response[i].rows # <<>>} IN
    IF shown = {} THEN displayRows ELSE TableRows(query, response[Max(shown)])

ShowNumbered(query, response) ==
    /\ displayRows' = Numbered(query, response)
    /\ oldTable' = (displayRows # <<>> /\ \A i \in DOMAIN response : response[i].rows = <<>>)

\* Output that leaves the numbered rows alone: JSON, or the table of undo.
ShowOtherwise ==
    /\ UNCHANGED displayRows
    /\ oldTable' = (displayRows # <<>>)

-----------------------------------------------------------------------------
(* Commands. *)

\* mutant: the query is pushed before the server has answered
RecordRefusal(cmd) ==
    queryHistory' = IF Refines(cmd) THEN Append(queryHistory, QueryOf(cmd)) ELSE <<QueryOf(cmd)>>

\* A refused query leaves the stack as it was.
KeepStack(cmd) == UNCHANGED queryHistory

PushQuery(cmd) ==
    queryHistory' = IF Refines(cmd) THEN Append(queryHistory, QueryOf(cmd)) ELSE <<QueryOf(cmd)>>

\* A line may be run: not a refinement of nothing, and below the bound.
Ready(cmd) ==
    /\ Refines(cmd) => queryHistory # <<>>
    /\ Len(commandHistory) < MaxCommands

Answered(cmd) ==
    /\ Ready(cmd)
    /\ WellFormed(QueryOf(cmd))
    /\ \E response \in AnswersTo(QueryOf(cmd)) :
          /\ PushQuery(cmd)
          /\ lastResponse' = response
          /\ lastQuery' = QueryOf(cmd)
          /\ IF jsonOutput THEN ShowOtherwise ELSE ShowNumbered(QueryOf(cmd), response)
    /\ commandHistory' = Append(commandHistory, cmd)
    /\ out' = Quiet
    /\ undoLost' = FALSE
    /\ UNCHANGED <<focus, jsonOutput>>

\* The server cannot be reached or reports an error; the line is recorded so
\* that it can be recalled.
Refused(cmd) ==
    /\ Ready(cmd)
    /\ KeepStack(cmd)
    /\ commandHistory' = Append(commandHistory, cmd)
    /\ out' = Quiet
    /\ UNCHANGED <<session, focus, jsonOutput, undoLost, oldTable>>

Run(cmd) == Answered(cmd) \/ Refused(cmd)

Type == \E cmd \in Commands : Run(cmd)

\* !! and !n
Recall == \E i \in DOMAIN commandHistory : Run(commandHistory[i])

Shorter == SubSeq(queryHistory, 1, Len(queryHistory) - 1)

\* mutant: the answer of undo is shown, but the session keeps the undone query
UndoneKeepsQuery(query) == lastQuery' = lastQuery

Undone(query) == lastQuery' = query

\* The stack is popped first; the query below is run again.
UndoAnswered ==
    /\ Len(queryHistory) > 1
    /\ queryHistory' = Shorter
    /\ \E response \in AnswersTo(Last(Shorter)) : lastResponse' = response
    /\ Undone(Last(Shorter))
    /\ ShowOtherwise
    /\ out' = Quiet
    /\ undoLost' = FALSE
    /\ UNCHANGED <<focus, commandHistory, jsonOutput>>

UndoRefused ==
    /\ Len(queryHistory) > 1
    /\ queryHistory' = Shorter
    /\ out' = Quiet
    /\ undoLost' = TRUE
    /\ UNCHANGED <<session, focus, commandHistory, jsonOutput, oldTable>>

\* print #n: the numbered rows, or the first result set when there are none.
PrintRow(n) ==
    /\ lastResponse # <<>>
    /\ LET rows == IF displayRows # <<>> THEN displayRows ELSE lastResponse[1].rows IN
          /\ n \in DOMAIN rows
          /\ out' = [cmd |-> "print", n |-> n, row |-> rows[n]]
    /\ UNCHANGED <<queryHistory, session, focus, commandHistory, jsonOutput, undoLost, oldTable>>

\* mutant: a trace focus keeps the span focused before
FocusKeepingSpan(trace, span) ==
    /\ focusedTraceID' = trace
    /\ focusedSpanID' = IF Has(lastQuery, "expand") /\ span # None THEN span ELSE focusedSpanID

\* In the view of an expanded trace a row with a span id focuses on the span.
SetFocus(trace, span) ==
    /\ focusedTraceID' = trace
    /\ focusedSpanID' = IF Has(lastQuery, "expand") THEN span ELSE None

\* focus #n: the first result set, in the order of the server.
FocusRow(n) ==
    /\ lastResponse # <<>>
    /\ n \in DOMAIN lastResponse[1].rows
    /\ lastResponse[1].signal # "metrics"
    /\ LET row == lastResponse[1].rows[n] IN
          /\ SetFocus(row.trace, row.span)
          /\ out' = [cmd |-> "focus", n |-> n, row |-> row]
    /\ UNCHANGED <<queryHistory, session, commandHistory, jsonOutput, undoLost, oldTable>>

\* focus <traceid>: any id, whether or not the results hold it.
FocusTrace(trace) ==
    /\ lastResponse # <<>>
    /\ SetFocus(trace, None)
    /\ out' = Quiet
    /\ UNCHANGED <<queryHistory, session, commandHistory, jsonOutput, undoLost, oldTable>>

\* unfocus shows the last response again, as a table even under -json.
Unfocus ==
    /\ focusedTraceID # None \/ focusedSpanID # None
    /\ focusedTraceID' = None
    /\ focusedSpanID' = None
    /\ ShowNumbered(lastQuery, lastResponse)
    /\ out' = Quiet
    /\ UNCHANGED <<queryHistory, lastResponse, lastQuery, commandHistory, jsonOutput, undoLost>>

RowNumbers == 1 .. Max({0} \cup {Len(set.rows) : set \in ResultSets})

Next ==
    \/ Type
    \/ Recall
    \/ UndoAnswered
    \/ UndoRefused
    \/ \E n \in RowNumbers : PrintRow(n) \/ FocusRow(n)
    \/ \E trace \in Traces : FocusTrace(trace)
    \/ Unfocus

Spec == Init /\ [][Next]_vars
-----------------------------------------------------------------------------
(* Properties. *)

Query == Seq(Stages)

TypeOK ==
    /\ queryHistory \in Seq(Query)
    /\ lastResponse \in Seq(ResultSets)
    /\ lastQuery \in Query
    /\ displayRows \in Seq(Row)
    /\ focusedTraceID \in Traces \cup {None}
    /\ focusedSpanID \in Spans \cup {None}
    /\ commandHistory \in Seq(Commands)
    /\ Len(commandHistory) <= MaxCommands
    /\ jsonOutput \in BOOLEAN
    /\ out \in [cmd : {"none", "print", "focus"}, n : Nat, row : Row]
    /\ undoLost \in BOOLEAN
    /\ oldTable \in BOOLEAN

\* Whatever is typed, recalled or injected, every query of the stack is one
\* the server parses: undo never goes back to a line that was refused, and a
\* refinement never builds on one.
StackRunnable == \A i \in DOMAIN queryHistory : WellFormed(queryHistory[i])

\* The screen and the stack agree: the last response answers the query that a
\* refinement would extend, unless the last undo met an error (it has popped
\* the stack and still shows the response of the query it undid).
ScreenInStep ==
    queryHistory # <<>> /\ ~undoLost => lastQuery = Last(queryHistory)

\* A focus is one thing: the span in focus is a span of the trace in focus,
\* through any sequence of focus commands over lists and expanded traces.
FocusConsistent ==
    focusedSpanID # None =>
        \E set \in ResultSets : \E i \in DOMAIN set.rows :
            set.rows[i].trace = focusedTraceID /\ set.rows[i].span = focusedSpanID

\* print #n shows a row of the last response as long as the numbered rows are
\* those of its table.
PrintsLastTable ==
    out.cmd = "print" /\ ~oldTable =>
        \E i \in DOMAIN lastResponse : \E k \in DOMAIN lastResponse[i].rows :
            lastResponse[i].rows[k] = out.row

Stack == INSTANCE UndoStack WITH stack <- queryHistory

\* The session keeps the promise of UndoStack: a query made out of a focus is
\* a new base, a refinement extends the top by what was typed, undo pops one.
ImplementsUndoStack == Stack!Spec

-----------------------------------------------------------------------------
(* Claims of the help text of the shell. *)

\* "print #N  Show full details of row N from last results"
PrintShowsLastResults ==
    out.cmd = "print" =>
        \E i \in DOMAIN lastResponse : \E k \in DOMAIN lastResponse[i].rows :
            lastResponse[i].rows[k] = out.row
=============================================================================
