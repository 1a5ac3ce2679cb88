---------------------------- MODULE AtLeastOnce ----------------------------
(***************************************************************************)
(* What ingestion promises an exporter, without saying how: the batch of   *)
(* an export is stored whole or not at all, possibly more than once, under *)
(* one tenant; it is acknowledged only once it is stored; and what is      *)
(* stored or acknowledged stays so.                                        *)
(***************************************************************************)
CONSTANTS
    Exports,
    Copies,    \* names of the copies of a batch
    Tenants

VARIABLES
    batch,    \* the points each export has to store
    stored,   \* records [export, copy, tenant, point]
    acked     \* the exports acknowledged

vars == <<batch, stored, acked>>

Init == stored = {} /\ acked = {}

CopyOf(e, copy, tenant) ==
    {[export |-> e, copy |-> copy, tenant |-> tenant, point |-> p] : p \in batch[e]}

Store(e, copy) ==
    /\ \A rec \in stored : ~(rec.export = e /\ rec.copy = copy)
    /\ \E tenant \in Tenants : stored' = stored \cup CopyOf(e, copy, tenant)
    /\ UNCHANGED <<batch, acked>>

Acknowledge(e) ==
    /\ \E copy \in Copies, tenant \in Tenants : CopyOf(e, copy, tenant) \subseteq stored
    /\ acked' = acked \cup {e}
    /\ UNCHANGED <<batch, stored>>

Next == \E e \in Exports : Acknowledge(e) \/ \E copy \in Copies : Store(e, copy)

Spec == Init /\ [][Next]_vars
=============================================================================
