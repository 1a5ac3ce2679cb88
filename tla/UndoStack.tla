------------------------------ MODULE UndoStack ------------------------------
(***************************************************************************)
(* What the interactive shell promises about its queries, without saying   *)
(* how: the stack holds queries, each the one below it with one more       *)
(* operation.  A new base query starts it afresh, a refinement extends its *)
(* top, undo drops the top but never the base.                             *)
(***************************************************************************)
EXTENDS Naturals, Sequences

CONSTANT Stages   \* what a query is made of

VARIABLE stack

Top == stack[Len(stack)]

Init == stack = <<>>

Base ==
    /\ Len(stack') = 1
    /\ stack'[1] \in Seq(Stages) \ {<<>>}

Refine(stage) ==
    /\ stack # <<>>
    /\ stack' = Append(stack, Append(Top, stage))

Undo ==
    /\ Len(stack) > 1
    /\ stack' = SubSeq(stack, 1, Len(stack) - 1)

Next ==
    \/ Base
    \/ \E stage \in Stages : Refine(stage)
    \/ Undo

Spec == Init /\ [][Next]_stack
=============================================================================
