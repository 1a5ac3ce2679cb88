----------------------------- MODULE OqlParser ------------------------------
(***************************************************************************)
(* pkg/oql/parser.go: the hand-written parser of OQL, one action per parse *)
(* function, and the refinements the shell appends to a query that was     *)
(* answered (cmd/oql-cli/main.go).  There is no tokenizer in the code: it  *)
(* walks over the characters with pos, and what ends an operation is the   *)
(* next "|", the next line or the next " keyword " it meets, in quotes or  *)
(* not.  Here a text is a sequence of words, spaces and signs, in which no *)
(* two words are adjacent.                                                 *)
(***************************************************************************)
EXTENDS Integers, Sequences, SequencesExt

CONSTANTS
    Words,        \* the words and signs that texts are made of
    Texts,        \* lines given to the parser: [text, known, ops]
    Refinements,  \* what the shell appends to one: [text, ops]
    MaxRefinements,
    Literals      \* the kind of each word that is not a plain string

Spaces == {" ", "\t", "\n"}

\* The shell trims a line and asks for no empty one.
ASSUME ParserAssumption ==
    /\ MaxRefinements \in Nat
    /\ {" ", "|", ",", "and", "or"} \subseteq Words
    /\ \A line \in Texts : line.text \in Seq(Words)
    /\ \A r \in Refinements : r.text \in Seq(Words) \ {<<>>} /\ Last(r.text) \notin Spaces

VARIABLES
    text,      \* Parser.input
    pos,       \* Parser.pos, of the next sign to read
    signal,    \* Query.Signal, "unread" before it is
    ops,       \* Query.Operations
    status,    \* "reading", "accepted" or "refused"
    meant,     \* what the writer of the text means: [known, ops]
    refined    \* how many refinements the text holds

vars == <<text, pos, signal, ops, status, meant, refined>>

-----------------------------------------------------------------------------
(* The cursor. *)

Comparators == <<"==", "!=", ">=", "<=", ">", "<", "=">>

AggregateWords == {"aggregate", "avg", "min", "max", "count", "sum"}

\* mutant: operationKeywords misses a keyword that parseOperation knows.
KeywordsButExemplars ==
    AggregateWords \cup {"where", "expand", "correlate", "switch_context",
                         "extract", "filter", "limit", "sort", "group", "since", "between"}

Keywords ==
    AggregateWords \cup {"where", "expand", "correlate", "get_exemplars", "switch_context",
                     "extract", "filter", "limit", "sort", "group", "since", "between"}

\* normalizeSignalType; a name of another case is the same word here.
SignalNames ==
    [w \in {"metrics", "metric", "m", "logs", "log", "l", "spans", "span", "s", "traces", "trace", "t"} |->
        CASE w \in {"metrics", "metric", "m"} -> "metrics"
          [] w \in {"logs", "log", "l"} -> "logs"
          [] w \in {"spans", "span", "s"} -> "spans"
          [] OTHER -> "traces"]

Past(s) == Len(s) + 1

\* The first of the positions S from p on, or the end of the text.
NextIn(s, p, S) ==
    LET ahead == {q \in S : q >= p} IN IF ahead = {} THEN Past(s) ELSE Min(ahead)

Skip(s, p) == NextIn(s, p, {q \in DOMAIN s : s[q] \notin Spaces})

WordEnd(s, p) == NextIn(s, p, {q \in DOMAIN s : s[q] \in Spaces \cup {"|", "("}})

\* Where readUntil(operationKeywords()) stops: a keyword counts only between a
\* space and a space or a parenthesis.
OperationEnd(s, p) ==
    NextIn(s, p, {q \in DOMAIN s :
        \/ s[q] \in {"|", "\n"}
        \/ /\ s[q] = " "
           /\ q + 2 <= Len(s)
           /\ s[q + 1] \in Keywords
           /\ s[q + 2] \in {" ", "("}})

\* Where parseAggregate's readUntil(")", " as ") stops.
FieldEnd(s, p) ==
    NextIn(s, p, {q \in DOMAIN s :
        \/ s[q] = ")"
        \/ /\ q + 2 <= Len(s)
           /\ SubSeq(s, q, q + 2) = <<" ", "as", " ">>})

Between(s, p, q) == SubSeq(s, p, q - 1)
Word(s, p) == Between(s, p, WordEnd(s, p))
SignAt(s, p, sign) == p \in DOMAIN s /\ s[p] = sign

(* Functions of a text, and how its conditions read. *)

Signs == Seq(Words)

Trim[s \in Signs] ==
    LET kept == {i \in DOMAIN s : s[i] \notin Spaces}
    IN  IF kept = {} THEN <<>> ELSE SubSeq(s, Min(kept), Max(kept))

\* strings.Split
Split[s \in Signs, separator \in Signs] ==
    LET found == {i \in DOMAIN s : IsPrefix(separator, SubSeq(s, i, Len(s)))}
        from[i \in 1 .. Len(s) + 1] ==
            LET cuts == {j \in found : j >= i}
            IN  IF cuts = {} THEN <<SubSeq(s, i, Len(s))>>
                ELSE <<SubSeq(s, i, Min(cuts) - 1)>> \o from[Min(cuts) + Len(separator)]
    IN  from[1]

TrimmedParts[s \in Signs, separator \in Signs] ==
    LET parts == Split[s, separator] IN [i \in DOMAIN parts |-> Trim[parts[i]]]

-----------------------------------------------------------------------------
(* Values and conditions. *)

Value(kind, s) == [kind |-> kind, text |-> s]

KindOf(word) == IF word \in DOMAIN Literals THEN Literals[word] ELSE "string"

Now == <<"now", "(", ")">>

\* parseTimeExpression, on what follows now().
ParseTimeExpression[offset \in Signs] ==
    IF offset = <<>> THEN Value("now", <<>>)
    ELSE LET duration == Trim[Tail(offset)]
         IN  IF /\ Head(offset) \in {"+", "-"}
                /\ Len(duration) = 1 /\ KindOf(duration[1]) = "duration"
             THEN Value("offset", <<Head(offset)>> \o duration)
             ELSE Value("invalid", offset)

Unquoted[s \in Signs] ==
    LET kept == {i \in DOMAIN s : s[i] # "\""}
    IN  IF kept = {} THEN <<>> ELSE SubSeq(s, Min(kept), Max(kept))

ParseValue[s \in Signs] ==
    IF IsPrefix(Now, s) THEN ParseTimeExpression[Trim[SubSeq(s, 4, Len(s))]]
    ELSE IF s[1] = "\"" /\ Last(s) = "\"" THEN Value("string", Unquoted[s])
    ELSE Value(IF Len(s) = 1 THEN KindOf(s[1]) ELSE "string", s)

\* The comparison a condition is cut at: the first of Comparators, in their
\* order, that it holds anywhere.
CutAt[s \in Signs] ==
    LET held == {c \in DOMAIN Comparators : \E i \in DOMAIN s : s[i] = Comparators[c]}
    IN  IF held = {} THEN 0 ELSE Min({i \in DOMAIN s : s[i] = Comparators[Min(held)]})

IsComparison[s \in Signs] ==
    /\ CutAt[s] # 0
    /\ Trim[SubSeq(s, 1, CutAt[s] - 1)] # <<>>
    /\ Trim[SubSeq(s, CutAt[s] + 1, Len(s))] # <<>>

ParseSingleCondition[s \in Signs] ==
    [left |-> Trim[SubSeq(s, 1, CutAt[s] - 1)],
     operator |-> s[CutAt[s]],
     right |-> ParseValue[Trim[SubSeq(s, CutAt[s] + 1, Len(s))]]]

Joint[s \in Signs] ==
    IF Len(Split[s, <<" ", "and", " ">>]) > 1 THEN "and"
    ELSE IF Len(Split[s, <<" ", "or", " ">>]) > 1 THEN "or" ELSE "one"

Comparisons[s \in Signs] == IF Joint[s] = "one" THEN <<s>> ELSE TrimmedParts[s, <<" ", Joint[s], " ">>]

IsCondition[s \in Signs] == \A i \in DOMAIN Comparisons[s] : IsComparison[Comparisons[s][i]]

ParseCondition[s \in Signs] ==
    [joint |-> Joint[s],
     parts |-> [i \in DOMAIN Comparisons[s] |-> ParseSingleCondition[Comparisons[s][i]]]]

-----------------------------------------------------------------------------
(* What each parse function returns for a text with its keyword at k: an       *)
(* operation and where it ends, or an error.                                 *)

Returned(op, end) == [op |-> op, end |-> end]

Error == Returned([op |-> "none"], 0)

\* The first sign after a keyword and the spaces that follow it.
Argument(s, k) == Skip(s, k + 1)

\* What stands from p on, up to the next operation.
Rest(s, p) == Trim[Between(s, p, OperationEnd(s, p))]

IsSignal(s) == Len(s) = 1 /\ s[1] \in DOMAIN SignalNames

\* parseWhere and parseFilter
Where(s, k) ==
    LET from == Argument(s, k)
    IN  IF IsCondition[Rest(s, from)]
        THEN Returned([op |-> s[k], condition |-> ParseCondition[Rest(s, from)]], OperationEnd(s, from))
        ELSE Error

Expand(s, k) ==
    LET type == Argument(s, k)
    IN  IF Word(s, type) = <<"trace">> THEN Returned([op |-> "expand"], WordEnd(s, type)) ELSE Error

Correlate(s, k) ==
    LET from == Argument(s, k)
        names == TrimmedParts[Rest(s, from), <<",">>]
    IN  IF \A i \in DOMAIN names : IsSignal(names[i])
        THEN Returned([op |-> "correlate",
                       signals |-> [i \in DOMAIN names |-> SignalNames[names[i][1]]]],
                      OperationEnd(s, from))
        ELSE Error

\* mutant: "()" is skipped without a look at what follows.
SkipsTwoSigns(s, k) == Returned([op |-> "get_exemplars"], Argument(s, k) + 2)

GetExemplars(s, k) ==
    LET open == Argument(s, k)
    IN  Returned([op |-> "get_exemplars"],
                 IF SignAt(s, open, "(")
                 THEN IF SignAt(s, open + 1, ")") THEN open + 2 ELSE open + 1
                 ELSE open)

SwitchContext(s, k) ==
    LET sign == Argument(s, k)
        name == Rest(s, sign + 1)
    IN  IF SignAt(s, sign, "signal=") /\ IsSignal(name)
        THEN Returned([op |-> "switch_context", signal |-> SignalNames[name[1]]],
                      OperationEnd(s, sign + 1))
        ELSE Error

Extract(s, k) ==
    LET field == Argument(s, k)
        as == Skip(s, WordEnd(s, field))
        alias == Skip(s, as + 1)
    IN  IF Word(s, field) # <<>> /\ Word(s, as) = <<"as">> /\ Word(s, alias) # <<>>
        THEN Returned([op |-> "extract", field |-> Word(s, field), alias |-> Word(s, alias)],
                      WordEnd(s, alias))
        ELSE Error

Limit(s, k) ==
    LET at == Argument(s, k)
        count == Word(s, at)
    IN  IF Len(count) = 1 /\ KindOf(count[1]) = "number"
        THEN Returned([op |-> "limit", count |-> count], WordEnd(s, at))
        ELSE Error

\* One field of a sort: the last of several words is its direction, if it is
\* one; the words before it are joined by single spaces.
SortField[s \in Signs] ==
    LET words == {i \in DOMAIN s : s[i] \notin Spaces}
        directed == Cardinality(words) > 1 /\ Last(s) \in {"asc", "desc"} /\ s[Len(s) - 1] \in Spaces
    IN  [field |-> IF directed THEN Trim[Front(s)] ELSE s, desc |-> directed /\ Last(s) = "desc"]

Sort(s, k) ==
    LET from == Argument(s, k)
        named == SelectSeq(TrimmedParts[Rest(s, from), <<",">>], LAMBDA part : part # <<>>)
    IN  IF named # <<>>
        THEN Returned([op |-> "sort", fields |-> [i \in DOMAIN named |-> SortField[named[i]]]],
                      OperationEnd(s, from))
        ELSE Error

\* mutant: an aggregate without parentheses is read and not consumed.
PeeksAtFunction(s, k) == Returned([op |-> "aggregate", function |-> Word(s, k), field |-> <<>>, alias |-> <<>>], k)

\* [aggregate] function[(field)] [as alias]
Aggregate(s, k) ==
    LET name == IF s[k] = "aggregate" THEN Argument(s, k) ELSE k
        open == Skip(s, WordEnd(s, name))
        called == SignAt(s, open, "(")
        close == FieldEnd(s, open + 1)
        as == Skip(s, IF ~called THEN open
                      ELSE IF SignAt(s, close, ")") THEN close + 1 ELSE close)
        named == Word(s, as) = <<"as">>
        alias == Skip(s, as + 1)
    IN  Returned([op |-> "aggregate", function |-> Word(s, name),
                  field |-> IF called THEN Trim[Between(s, open + 1, close)] ELSE <<>>,
                  alias |-> IF named THEN Word(s, alias) ELSE <<>>],
                 IF named THEN WordEnd(s, alias) ELSE as)

GroupBy(s, k) ==
    LET by == Argument(s, k)
        from == Skip(s, by + 1)
    IN  IF Word(s, by) = <<"by">>
        THEN Returned([op |-> "group", fields |-> TrimmedParts[Rest(s, from), <<",">>]],
                      OperationEnd(s, from))
        ELSE Error

Since(s, k) ==
    LET at == Argument(s, k)
    IN  Returned([op |-> "since", duration |-> Word(s, at)], WordEnd(s, at))

TimeRange(s, k) ==
    LET start == Argument(s, k)
        and == Skip(s, WordEnd(s, start))
        end == Skip(s, and + 1)
    IN  IF Word(s, and) = <<"and">>
        THEN Returned([op |-> "between", start |-> Word(s, start), end |-> Word(s, end)],
                      WordEnd(s, end))
        ELSE Error

-----------------------------------------------------------------------------
(* One action per parse function. *)

\* Where Parse, after the separator if there is one, looks for an operation.
Start(s, p) == LET q == Skip(s, p) IN IF SignAt(s, q, "|") THEN Skip(s, q + 1) ELSE q

Here == Start(text, pos)

\* One of the keywords is a word that stands at k.
KeywordAt(s, k, keywords) ==
    k \in DOMAIN s /\ s[k] \in keywords /\ WordEnd(s, k) = k + 1

At(keywords) == status = "reading" /\ signal # "unread" /\ KeywordAt(text, Here, keywords)

Accept(op, end) ==
    /\ ops' = Append(ops, op)
    /\ pos' = end
    /\ UNCHANGED <<text, signal, status, meant, refined>>

Refuse ==
    /\ status' = "refused"
    /\ UNCHANGED <<text, pos, signal, ops, meant, refined>>

Take(result) == IF result = Error THEN Refuse ELSE Accept(result.op, result.end)

ReadSignal ==
    /\ status = "reading" /\ signal = "unread"
    /\ IF SignAt(text, 1, "signal=") /\ IsSignal(Rest(text, 2))
       THEN /\ signal' = SignalNames[Rest(text, 2)[1]]
            /\ pos' = OperationEnd(text, 2)
            /\ UNCHANGED <<text, ops, status, meant, refined>>
       ELSE Refuse

ParseWhere == At({"where", "filter"}) /\ Take(Where(text, Here))

ParseExpand == At({"expand"}) /\ Take(Expand(text, Here))

ParseCorrelate == At({"correlate"}) /\ Take(Correlate(text, Here))

ParseGetExemplars == At({"get_exemplars"}) /\ Take(GetExemplars(text, Here))

ParseSwitchContext == At({"switch_context"}) /\ Take(SwitchContext(text, Here))

ParseExtract == At({"extract"}) /\ Take(Extract(text, Here))

ParseLimit == At({"limit"}) /\ Take(Limit(text, Here))

ParseSort == At({"sort"}) /\ Take(Sort(text, Here))

ParseAggregate == At(AggregateWords) /\ Take(Aggregate(text, Here))

ParseGroupBy == At({"group"}) /\ Take(GroupBy(text, Here))

ParseSince == At({"since"}) /\ Take(Since(text, Here))

ParseBetween == At({"between"}) /\ Take(TimeRange(text, Here))

UnknownOperation ==
    /\ status = "reading" /\ signal # "unread"
    /\ Here <= Len(text)
    /\ ~KeywordAt(text, Here, Keywords)
    /\ Refuse

Finish ==
    /\ status = "reading" /\ signal # "unread"
    /\ Here > Len(text)
    /\ status' = "accepted"
    /\ pos' = Here
    /\ UNCHANGED <<text, signal, ops, meant, refined>>

ParseOperation ==
    \/ ParseWhere
    \/ ParseExpand
    \/ ParseCorrelate
    \/ ParseGetExemplars
    \/ ParseSwitchContext
    \/ ParseExtract
    \/ ParseLimit
    \/ ParseSort
    \/ ParseAggregate
    \/ ParseGroupBy
    \/ ParseSince
    \/ ParseBetween
    \/ UnknownOperation

-----------------------------------------------------------------------------
(* The lines given to the parser. *)

\* Nothing appended to s becomes a part of its last operation: behind every "("
\* there is a ")", and s does not end in a separator or in a word that is a
\* keyword once a space follows it.
Closed(s) ==
    /\ \A i \in DOMAIN s : s[i] = "(" => \E j \in DOMAIN s : j > i /\ s[j] = ")"
    /\ Last(s) \notin Keywords \cup {"|"}

Init ==
    \E line \in Texts :
        /\ text = Trim[line.text]
        /\ pos = 1
        /\ signal = "unread"
        /\ ops = <<>>
        /\ status = "reading"
        /\ meant = [known |-> line.known, ops |-> line.ops]
        /\ refined = 0

\* The shell sends lastQuery + " | " + the line it was given.
Refine ==
    /\ status = "accepted"
    /\ refined < MaxRefinements
    /\ \E r \in Refinements :
        /\ text' = Trim[text \o <<" ", "|", " ">> \o r.text]
        /\ meant' = [known |-> Closed(text), ops |-> ops \o r.ops]
    /\ refined' = refined + 1
    /\ pos' = 1
    /\ signal' = "unread"
    /\ ops' = <<>>
    /\ status' = "reading"

Parse == ReadSignal \/ ParseOperation \/ Finish

Next == Parse \/ Refine

Spec == Init /\ [][Next]_vars /\ WF_vars(Parse)

-----------------------------------------------------------------------------
(* Properties. *)

\* pos never leaves the text: no slice of the parser is out of range, whatever
\* the text, unclosed parentheses and missing arguments included.
WithinText == pos \in 1 .. Past(text)

\* A text written as the documentation writes queries is read as its writer
\* means it, and a refinement of any query the parser took, if it is closed,
\* reads as the operations of that query and then its own: what was accepted
\* before is neither swallowed nor read otherwise because more follows.
ReadsAsMeant ==
    meant.known /\ status # "reading" => status = "accepted" /\ ops = meant.ops

\* "and" and "or" join comparisons and are never a part of one: a comparison
\* has one field and one value (OQL_REFERENCE.md, Operator Precedence).
ConnectivesConnect ==
    \A i \in DOMAIN ops : ops[i].op \in {"where", "filter"} =>
        \A j \in DOMAIN ops[i].condition.parts :
            LET part == ops[i].condition.parts[j]
            IN  {"and", "or"} \cap (ToSet(part.left) \cup ToSet(part.right.text)) = {}

\* The loop of Parse never reads an operation from where the one before began.
Advances == [][status = "reading" /\ status' = "reading" => pos' > pos]_vars

\* Every text is answered: the loops of the parser end.
Answered == []<>(status # "reading")

=============================================================================
