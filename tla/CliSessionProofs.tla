-------------------------- MODULE CliSessionProofs --------------------------
(***************************************************************************)
(* The stack and the focus of the interactive shell, for any commands,     *)
(* answers and length of the session.                                      *)
(***************************************************************************)
EXTENDS CliSession, TLAPS

\* What the stack depends on: queries are stages, the focus is an id that was
\* in an answer, a recalled line is one that was typed.
SessionType ==
    /\ queryHistory \in Seq(Seq(Stages))
    /\ lastResponse \in Seq(ResultSets)
    /\ focusedTraceID \in Traces \cup {None}
    /\ focusedSpanID \in Spans \cup {None}
    /\ commandHistory \in Seq(Commands)
    /\ undoLost \in BOOLEAN

IInv == SessionType /\ StackRunnable /\ ScreenInStep

LEMMA StageTypes ==
    /\ \A kind \in {"list", "expand", "correlate", "filter", "malformed"} : Stage(kind) \in Stages
    /\ \A trace \in Traces : [kind |-> "trace", of |-> trace] \in Stages
    /\ \A span \in Spans : [kind |-> "span", of |-> span] \in Stages
    /\ \A cmd \in Commands : cmd.stage \in Stages
BY CliAssumption DEF Stage, Stages, Command

\* The query a line stands for is either a new base or the top with one more stage.
LEMMA QueryOfCommand ==
    ASSUME SessionType, NEW cmd \in Commands, Ready(cmd)
    PROVE  /\ QueryOf(cmd) \in Seq(Stages) \ {<<>>}
           /\ Refines(cmd) => /\ queryHistory # <<>>
                              /\ QueryOf(cmd) = Append(Last(queryHistory), cmd.stage)
<1>1. CASE Injected(cmd) # <<>>
  <2>1. Injected(cmd) \in Seq(Stages)
    <3>1. CASE focusedSpanID # None /\ cmd.stage.kind = "correlate"
      BY <3>1, StageTypes DEF Injected, SessionType
    <3>2. CASE /\ ~(focusedSpanID # None /\ cmd.stage.kind = "correlate")
               /\ focusedTraceID # None /\ focusedSpanID = None /\ cmd.stage.kind = "expand"
      BY <3>2, StageTypes DEF Injected, SessionType
    <3> QED BY <1>1, <3>1, <3>2 DEF Injected
  <2> QED BY <1>1, <2>1 DEF QueryOf, Refines
<1>2. CASE Injected(cmd) = <<>> /\ Refines(cmd)
  <2>1. queryHistory # <<>> /\ QueryOf(cmd) = Append(Last(queryHistory), cmd.stage)
    BY <1>2 DEF Ready, QueryOf
  <2>2. Last(queryHistory) \in Seq(Stages)
    BY <2>1 DEF SessionType, Last
  <2> QED BY <2>1, <2>2, StageTypes
<1>3. CASE Injected(cmd) = <<>> /\ ~Refines(cmd)
  BY <1>3, StageTypes DEF QueryOf
<1> QED BY <1>1, <1>2, <1>3

LEMMA OneMore ==
    ASSUME NEW S, NEW seq \in Seq(S), NEW e \in S
    PROVE  /\ Append(seq, e) \in Seq(S)
           /\ Len(Append(seq, e)) = Len(seq) + 1
           /\ \A i \in DOMAIN Append(seq, e) :
                 IF i = Len(seq) + 1 THEN Append(seq, e)[i] = e
                 ELSE i \in DOMAIN seq /\ Append(seq, e)[i] = seq[i]
OBVIOUS

LEMMA Singleton ==
    ASSUME NEW S, NEW e \in S
    PROVE  <<e>> \in Seq(S) /\ DOMAIN <<e>> = {1} /\ Len(<<e>>) = 1 /\ <<e>>[1] = e
OBVIOUS

LEMMA Pair ==
    ASSUME NEW S, NEW a \in S, NEW b \in S
    PROVE  <<a, b>> \in Seq(S)
OBVIOUS

LEMMA AnswerTypes ==
    ASSUME NEW query PROVE AnswersTo(query) \subseteq Seq(ResultSets)
<1> DEFINE Of(signal) == {set \in ResultSets : set.signal = signal}
           Two == {<<base, logs>> : base \in Of("spans"), logs \in Of("logs")}
           One(sets) == {<<set>> : set \in sets}
<1>1. <<>> \in Seq(ResultSets)
  OBVIOUS
<1>2. \A sets \in SUBSET ResultSets : One(sets) \subseteq Seq(ResultSets)
  BY Singleton, Zenon
<1>3. Two \subseteq Seq(ResultSets)
  <2>1. \A base \in Of("spans"), logs \in Of("logs") : <<base, logs>> \in Seq(ResultSets)
    BY Pair, Zenon
  <2>2. ASSUME NEW response \in Two PROVE response \in Seq(ResultSets)
    <3>1. PICK base \in Of("spans"), logs \in Of("logs") : response = <<base, logs>>
      OBVIOUS
    <3> HIDE DEF Of, Two
    <3> QED BY <2>1, <3>1, Zenon
  <2> HIDE DEF Of, Two
  <2> QED BY <2>2, Zenon
<1>4. Of("spans") \in SUBSET ResultSets /\ Of("logs") \in SUBSET ResultSets
  OBVIOUS
<1>5. \/ AnswersTo(query) = {<<>>} \cup One(Of("logs"))
      \/ AnswersTo(query) = {<<>>} \cup Two
      \/ AnswersTo(query) = One(Of("logs"))
      \/ AnswersTo(query) = One(ResultSets)
      \/ AnswersTo(query) = One(Of("spans"))
  <2>1. CASE Has(query, "correlate") /\ Has(query, "expand")
    BY <2>1 DEF AnswersTo
  <2>2. CASE Has(query, "correlate") /\ ~Has(query, "expand")
    BY <2>2 DEF AnswersTo
  <2>3. CASE ~Has(query, "correlate") /\ query[1].kind = "span"
    BY <2>3 DEF AnswersTo
  <2>4. CASE ~Has(query, "correlate") /\ query[1].kind = "list" /\ ~Has(query, "expand")
    BY <2>4 DEF AnswersTo
  <2>5. CASE /\ ~Has(query, "correlate") /\ query[1].kind # "span"
             /\ ~(query[1].kind = "list" /\ ~Has(query, "expand"))
    BY <2>5 DEF AnswersTo
  <2> QED BY <2>1, <2>2, <2>3, <2>4, <2>5
<1> HIDE DEF Of, One, Two
<1> QED BY <1>1, <1>2, <1>3, <1>4, <1>5

LEMMA InitIInv == Init => IInv
<1> SUFFICES ASSUME Init PROVE IInv
  OBVIOUS
<1>1. SessionType
  <2>1. <<>> \in Seq(Seq(Stages)) /\ <<>> \in Seq(ResultSets) /\ <<>> \in Seq(Commands)
    OBVIOUS
  <2> QED BY <2>1 DEF Init, SessionType
<1>2. StackRunnable /\ ScreenInStep
  BY DEF Init, StackRunnable, ScreenInStep
<1> QED BY <1>1, <1>2 DEF IInv

LEMMA AnsweredIInv ==
    ASSUME IInv, NEW cmd \in Commands, Answered(cmd)
    PROVE  IInv'
<1>1. /\ Ready(cmd) /\ WellFormed(QueryOf(cmd)) /\ PushQuery(cmd)
      /\ lastQuery' = QueryOf(cmd) /\ undoLost' = FALSE
      /\ lastResponse' \in Seq(ResultSets)
      /\ commandHistory' = Append(commandHistory, cmd)
      /\ UNCHANGED focus
  BY AnswerTypes DEF Answered
<1>2. QueryOf(cmd) \in Seq(Stages)
  BY <1>1, QueryOfCommand DEF IInv
<1>3. queryHistory' = Append(queryHistory, QueryOf(cmd)) \/ queryHistory' = <<QueryOf(cmd)>>
  BY <1>1 DEF PushQuery
<1>4. SessionType'
  <2>1. queryHistory' \in Seq(Seq(Stages))
    <3>1. queryHistory \in Seq(Seq(Stages))
      BY DEF IInv, SessionType
    <3>2. /\ Append(queryHistory, QueryOf(cmd)) \in Seq(Seq(Stages))
          /\ <<QueryOf(cmd)>> \in Seq(Seq(Stages))
      BY <1>2, <3>1, OneMore, Singleton, Zenon
    <3> QED BY <1>3, <3>2, Zenon
  <2>2. commandHistory' \in Seq(Commands)
    BY <1>1, OneMore DEF IInv, SessionType
  <2> QED BY <1>1, <2>1, <2>2 DEF IInv, SessionType, focus
<1>5. ASSUME NEW i \in DOMAIN queryHistory' PROVE WellFormed(queryHistory'[i])
  <2>1. \/ queryHistory'[i] = QueryOf(cmd)
        \/ (i \in DOMAIN queryHistory /\ queryHistory'[i] = queryHistory[i])
    <3>1. queryHistory \in Seq(Seq(Stages))
      BY DEF IInv, SessionType
    <3>2. CASE queryHistory' = Append(queryHistory, QueryOf(cmd))
      BY <1>2, <3>1, <3>2, OneMore
    <3>3. CASE queryHistory' = <<QueryOf(cmd)>>
      BY <3>3
    <3> QED BY <1>3, <3>2, <3>3
  <2> QED BY <1>1, <2>1 DEF IInv, StackRunnable
<1>6. Last(queryHistory') = QueryOf(cmd)
  <2>1. queryHistory \in Seq(Seq(Stages)) /\ Len(queryHistory) \in Nat
    BY DEF IInv, SessionType
  <2>2. CASE queryHistory' = Append(queryHistory, QueryOf(cmd))
    BY <1>2, <2>1, <2>2, OneMore DEF Last
  <2>3. CASE queryHistory' = <<QueryOf(cmd)>>
    BY <2>3 DEF Last
  <2> QED BY <1>3, <2>2, <2>3
<1> QED BY <1>1, <1>4, <1>5, <1>6 DEF IInv, StackRunnable, ScreenInStep

LEMMA RefusedIInv ==
    ASSUME IInv, NEW cmd \in Commands, Refused(cmd)
    PROVE  IInv'
BY DEF IInv, Refused, KeepStack, session, focus, SessionType, StackRunnable, ScreenInStep, Last

LEMMA UndoIInv ==
    ASSUME IInv, UndoAnswered \/ UndoRefused
    PROVE  IInv'
<1>1. /\ Len(queryHistory) > 1
      /\ queryHistory' = SubSeq(queryHistory, 1, Len(queryHistory) - 1)
      /\ UNCHANGED <<focus, commandHistory>>
      /\ lastResponse' \in Seq(ResultSets) \cup {lastResponse}
      /\ undoLost' \in BOOLEAN
      /\ undoLost' \/ lastQuery' = Last(queryHistory')
  BY AnswerTypes DEF UndoAnswered, UndoRefused, Shorter, Undone, session
<1>2. /\ queryHistory \in Seq(Seq(Stages))
      /\ queryHistory' \in Seq(Seq(Stages))
      /\ DOMAIN queryHistory' \subseteq DOMAIN queryHistory
      /\ \A i \in DOMAIN queryHistory' : queryHistory'[i] = queryHistory[i]
  BY <1>1 DEF IInv, SessionType
<1>3. SessionType'
  BY <1>1, <1>2 DEF IInv, SessionType, focus
<1> QED BY <1>1, <1>2, <1>3 DEF IInv, StackRunnable, ScreenInStep

LEMMA FocusIInv ==
    ASSUME IInv,
           \/ \E n \in RowNumbers : PrintRow(n) \/ FocusRow(n)
           \/ \E trace \in Traces : FocusTrace(trace)
           \/ Unfocus
    PROVE  IInv'
<1>1. UNCHANGED <<queryHistory, lastResponse, lastQuery, commandHistory, undoLost>>
  BY DEF PrintRow, FocusRow, FocusTrace, Unfocus, session
<1>2. /\ focusedTraceID' \in Traces \cup {None}
      /\ focusedSpanID' \in Spans \cup {None}
  <2>1. ASSUME NEW n \in RowNumbers, PrintRow(n) PROVE UNCHANGED focus
    BY <2>1 DEF PrintRow
  <2>2. ASSUME NEW n \in RowNumbers, FocusRow(n)
        PROVE  /\ focusedTraceID' \in Traces \cup {None}
               /\ focusedSpanID' \in Spans \cup {None}
    <3>1. lastResponse[1] \in ResultSet
      BY <2>2, CliAssumption DEF FocusRow, IInv, SessionType
    <3>2. lastResponse[1].rows[n] \in Row
      BY <2>2, <3>1 DEF FocusRow, ResultSet
    <3> QED BY <2>2, <3>2 DEF FocusRow, SetFocus, Row
  <2>3. ASSUME NEW trace \in Traces, FocusTrace(trace)
        PROVE  focusedTraceID' = trace /\ focusedSpanID' = None
    BY <2>3 DEF FocusTrace, SetFocus
  <2> QED BY <2>1, <2>2, <2>3 DEF Unfocus, IInv, SessionType, focus
<1> QED BY <1>1, <1>2 DEF IInv, SessionType, StackRunnable, ScreenInStep, Last

LEMMA NextIInv == IInv /\ [Next]_vars => IInv'
<1> SUFFICES ASSUME IInv, [Next]_vars PROVE IInv'
  OBVIOUS
<1>1. ASSUME NEW cmd \in Commands, Run(cmd) PROVE IInv'
  BY <1>1, AnsweredIInv, RefusedIInv DEF Run
<1>2. CASE Recall
  <2>1. PICK i \in DOMAIN commandHistory : Run(commandHistory[i])
    BY <1>2 DEF Recall
  <2>2. commandHistory[i] \in Commands
    BY DEF IInv, SessionType
  <2> QED BY <1>1, <2>1, <2>2
<1>3. CASE UNCHANGED vars
  BY <1>3 DEF vars, session, focus, IInv, SessionType, StackRunnable, ScreenInStep, Last
<1> QED BY <1>1, <1>2, <1>3, UndoIInv, FocusIInv DEF Next, Type

LEMMA Invariance == Spec => []IInv
<1> QED BY InitIInv, NextIInv, PTL DEF Spec

-----------------------------------------------------------------------------
(* The theorems. *)

\* executeQuery and handleUndoCommand: the stack never holds a query that the
\* server refused, however lines are typed, recalled and undone.
THEOREM StackStaysRunnable == Spec => []StackRunnable
<1>1. IInv => StackRunnable
  BY DEF IInv
<1> QED BY <1>1, Invariance, PTL

\* The response on record answers the query that a refinement would extend,
\* except after an undo that was not answered.
THEOREM ScreenStaysInStep == Spec => []ScreenInStep
<1>1. IInv => ScreenInStep
  BY DEF IInv
<1> QED BY <1>1, Invariance, PTL

\* What focus #n takes is a row of the first result set; what focus <traceid>
\* takes has no span.
LEMMA FocusNext ==
    ASSUME IInv, FocusConsistent, [Next]_vars
    PROVE  FocusConsistent'
<1>1. CASE UNCHANGED focus
  BY <1>1 DEF focus, FocusConsistent
<1>2. ASSUME NEW cmd \in Commands, Run(cmd) PROVE UNCHANGED focus
  BY <1>2 DEF Run, Answered, Refused
<1>3. CASE Recall
  <2>1. PICK i \in DOMAIN commandHistory : Run(commandHistory[i])
    BY <1>3 DEF Recall
  <2>2. commandHistory[i] \in Commands
    BY DEF IInv, SessionType
  <2> QED BY <1>1, <1>2, <2>1, <2>2
<1>4. ASSUME NEW n \in RowNumbers, FocusRow(n) PROVE FocusConsistent'
  <2> DEFINE set == lastResponse[1]
  <2>1. set \in ResultSets /\ n \in DOMAIN set.rows
    BY <1>4 DEF FocusRow, IInv, SessionType
  <2>2. /\ focusedTraceID' = set.rows[n].trace
        /\ focusedSpanID' \in {set.rows[n].span, None}
    BY <1>4 DEF FocusRow, SetFocus
  <2> HIDE DEF set
  <2> QED BY <2>1, <2>2 DEF FocusConsistent
<1>5. CASE Unfocus \/ \E trace \in Traces : FocusTrace(trace)
  <2>1. focusedSpanID' = None
    BY <1>5 DEF Unfocus, FocusTrace, SetFocus
  <2> QED BY <2>1 DEF FocusConsistent
<1>6. CASE \/ UndoAnswered \/ UndoRefused
           \/ \E n \in RowNumbers : PrintRow(n)
           \/ UNCHANGED vars
  BY <1>1, <1>6 DEF UndoAnswered, UndoRefused, PrintRow, vars
<1> QED BY <1>1, <1>2, <1>3, <1>4, <1>5, <1>6 DEF Next, Type

\* handleFocusCommand and unfocus: whatever lists and expanded traces a session
\* goes through, the span in focus is one the server showed in the trace in
\* focus.
THEOREM FocusStaysConsistent == Spec => []FocusConsistent
<1>1. Init => FocusConsistent
  BY DEF Init, FocusConsistent
<1>2. IInv /\ FocusConsistent /\ [Next]_vars => FocusConsistent'
  BY FocusNext
<1> QED BY <1>1, <1>2, Invariance, PTL DEF Spec

LEMMA AnsweredStep ==
    ASSUME IInv, NEW cmd \in Commands, Answered(cmd)
    PROVE  Stack!Next
<1>1. Ready(cmd) /\ PushQuery(cmd)
  BY DEF Answered
<1>2. CASE Refines(cmd)
  <2>1. /\ queryHistory # <<>>
        /\ queryHistory' = Append(queryHistory, Append(Last(queryHistory), cmd.stage))
    BY <1>1, <1>2, QueryOfCommand DEF IInv, PushQuery
  <2> QED BY <2>1, StageTypes DEF Stack!Next, Stack!Refine, Stack!Top, Last
<1>3. CASE ~Refines(cmd)
  <2>1. queryHistory' = <<QueryOf(cmd)>> /\ QueryOf(cmd) \in Seq(Stages) \ {<<>>}
    BY <1>1, <1>3, QueryOfCommand DEF IInv, PushQuery
  <2> QED BY <2>1 DEF Stack!Next, Stack!Base
<1> QED BY <1>2, <1>3

\* The session implements the stack of queries that undo walks back.
THEOREM Refinement == Spec => ImplementsUndoStack
<1>1. Init => Stack!Init
  BY DEF Init, Stack!Init
<1>2. ASSUME IInv, [Next]_vars PROVE [Stack!Next]_queryHistory
  <2>1. ASSUME NEW cmd \in Commands, Run(cmd) PROVE [Stack!Next]_queryHistory
    BY <1>2, <2>1, AnsweredStep DEF Run, Refused, KeepStack
  <2>2. CASE Recall
    <3>1. PICK i \in DOMAIN commandHistory : Run(commandHistory[i])
      BY <2>2 DEF Recall
    <3>2. commandHistory[i] \in Commands
      BY <1>2 DEF IInv, SessionType
    <3> QED BY <2>1, <3>1, <3>2
  <2>3. CASE UndoAnswered \/ UndoRefused
    BY <2>3 DEF UndoAnswered, UndoRefused, Shorter, Stack!Next, Stack!Undo
  <2>4. CASE \/ \E n \in RowNumbers : PrintRow(n) \/ FocusRow(n)
             \/ \E trace \in Traces : FocusTrace(trace)
             \/ Unfocus
    BY <2>4 DEF PrintRow, FocusRow, FocusTrace, Unfocus
  <2>5. CASE UNCHANGED vars
    BY <2>5 DEF vars
  <2> QED BY <1>2, <2>1, <2>2, <2>3, <2>4, <2>5 DEF Next, Type
<1> QED BY <1>1, <1>2, Invariance, PTL DEF Spec, ImplementsUndoStack, Stack!Spec
=============================================================================
