---------------------------- MODULE TenantQueries ----------------------------
(***************************************************************************)
(* What the query path promises its callers, without saying how: a request *)
(* is asked once and answered at most once, in one step, with an error or  *)
(* with rows; the rows of a plain request are its own tenant's and stored  *)
(* at that moment.  The store only grows, and neither asking nor answering *)
(* changes it.                                                             *)
(***************************************************************************)
EXTENDS Naturals

CONSTANTS Requests, TenantOf, Rows, Batches

VARIABLES
    db,       \* the rows stored
    phase,    \* "new", "open" or "closed"
    plain,    \* whether a request sorts by names of columns, if at all
    answer    \* the rows each closed request was answered with

vars == <<db, phase, plain, answer>>

Init ==
    /\ db = {}
    /\ phase = [r \in Requests |-> "new"]
    /\ plain = [r \in Requests |-> TRUE]
    /\ answer = [r \in Requests |-> {}]

Ask(r) ==
    /\ phase[r] = "new"
    /\ phase' = [phase EXCEPT ![r] = "open"]
    /\ \E sorts \in BOOLEAN : plain' = [plain EXCEPT ![r] = sorts]
    /\ UNCHANGED <<db, answer>>

\* The rows a request may be answered with.
Promised(r) == IF plain[r] THEN {row \in db : row.tenant = TenantOf[r]} ELSE Rows

\* An error is an answer without rows.
Answer(r) ==
    /\ phase[r] = "open"
    /\ phase' = [phase EXCEPT ![r] = "closed"]
    /\ \E rows \in SUBSET Promised(r) : answer' = [answer EXCEPT ![r] = rows]
    /\ UNCHANGED <<db, plain>>

Insert(batch) ==
    /\ db' = db \cup batch
    /\ UNCHANGED <<phase, plain, answer>>

Next ==
    \/ \E r \in Requests : Ask(r) \/ Answer(r)
    \/ \E batch \in Batches : Insert(batch)

Spec == Init /\ [][Next]_vars
=============================================================================
