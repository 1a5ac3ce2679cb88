------------------------------- MODULE Ingest -------------------------------
(***************************************************************************)
(* Ingestion: pkg/receiver (OTLP over gRPC and HTTP), pkg/ingestion and    *)
(* pkg/clickhouse Insert, between an exporter that retries and a database  *)
(* that may answer late or not at all.                                     *)
(*                                                                         *)
(* An exporter sends an export and waits.  The receiver authenticates the  *)
(* call, reads it, converts its points to records that carry the tenant    *)
(* of the call, and stores all of them with ONE insert statement.  Nothing *)
(* is kept between calls: an exporter that is refused, or that hears       *)
(* nothing, sends the export again, while the first call may still run,    *)
(* and the database may store a batch after the receiver gave up on it.    *)
(***************************************************************************)
EXTENDS Auth

CONSTANTS
    Exports,        \* the exports of the run
    Requests,       \* what an export may be: headers and points
    MaxAttempts,    \* bound: how often an exporter sends one export
    MaxKills        \* bound: how often the service is killed and restarted

\* A point of an export: a span, a log record or a data point of a metric.
\* "other": the metric types the ingester has no case for (summary,
\* exponential histogram).  finite: JSON has no NaN and no infinity.
PointTypes == {"span", "log", "gauge", "sum", "histogram", "other"}
Point == [id : Nat, type : PointTypes, finite : BOOLEAN]
Request == [headers : Headers, points : SUBSET Point]

ASSUME IngestAssumption ==
    /\ Requests \subseteq Request
    /\ MaxAttempts \in Nat \ {0}
    /\ MaxKills \in Nat

Attempts == 1 .. MaxAttempts
Calls == Exports \X Attempts

VARIABLES
    mode,       \* how the service authenticates, fixed at its start
    request,    \* what each export is
    client,     \* what each exporter does
    sent,       \* how often it has sent its export
    handler,    \* where the receiver is with each call
    tenant,     \* the tenant in the context of each call
    insert,     \* the insert statement of each call, as the database sees it
    reply,      \* what the receiver answered
    db,         \* the records stored
    kills

calls == <<handler, tenant, insert, reply>>
vars == <<mode, request, client, sent, handler, tenant, insert, reply, db, kills>>

Running == {"auth", "read", "convert", "insert"}

Init ==
    /\ mode \in Modes
    /\ request \in [Exports -> Requests]
    /\ client = [e \in Exports |-> "ready"]
    /\ sent = [e \in Exports |-> 0]
    /\ handler = [c \in Calls |-> "none"]
    /\ tenant = [c \in Calls |-> Refused]
    /\ insert = [c \in Calls |-> "none"]
    /\ reply = [c \in Calls |-> "none"]
    /\ db = {}
    /\ kills = 0

-----------------------------------------------------------------------------
(* The exporter (external): it sends, waits for an answer to the last call,  *)
(* and sends again when the call failed or was not answered in time.         *)

Send(e) ==
    /\ client[e] = "ready"
    /\ sent[e] < MaxAttempts
    /\ sent' = [sent EXCEPT ![e] = @ + 1]
    /\ client' = [client EXCEPT ![e] = "waiting"]
    /\ handler' = [handler EXCEPT ![<<e, sent[e] + 1>>] = "auth"]
    /\ UNCHANGED <<mode, request, tenant, insert, reply, db, kills>>

LastCall(e) == <<e, sent[e]>>

HearAnswer(e) ==
    /\ client[e] = "waiting"
    /\ \/ /\ reply[LastCall(e)] = "ok"
          /\ client' = [client EXCEPT ![e] = "acked"]
       \/ /\ reply[LastCall(e)] \in {"unauthenticated", "bad"}
          /\ client' = [client EXCEPT ![e] = "dropped"]
       \/ /\ reply[LastCall(e)] = "failed"
          /\ \E next \in {"ready", "dropped"} : client' = [client EXCEPT ![e] = next]
    /\ UNCHANGED <<mode, request, sent, calls, db, kills>>

\* Its deadline passes, or the connection is lost.
HearNothing(e) ==
    /\ client[e] = "waiting"
    /\ \E next \in {"ready", "dropped"} : client' = [client EXCEPT ![e] = next]
    /\ UNCHANGED <<mode, request, sent, calls, db, kills>>

-----------------------------------------------------------------------------
(* The receiver. *)

RequestOf(c) == request[c[1]]

Reply(c, answer) ==
    /\ handler' = [handler EXCEPT ![c] = "done"]
    /\ reply' = [reply EXCEPT ![c] = answer]

AuthenticateCall(c) ==
    /\ handler[c] = "auth"
    /\ LET who == Authenticate(mode, RequestOf(c).headers) IN
          \/ /\ who = Refused
             /\ Reply(c, "unauthenticated")
             /\ UNCHANGED tenant
          \/ /\ who # Refused
             /\ tenant' = [tenant EXCEPT ![c] = who]
             /\ handler' = [handler EXCEPT ![c] = "read"]
             /\ UNCHANGED reply
    /\ UNCHANGED <<mode, request, client, sent, insert, db, kills>>

ReadBody(c) ==
    /\ handler[c] = "read"
    /\ handler' = [handler EXCEPT ![c] = "convert"]
    /\ UNCHANGED <<mode, request, client, sent, tenant, insert, reply, db, kills>>

\* The body ends early or is not an OTLP message.  Over gRPC the library
\* decodes the message before the handler is called.
ReadBodyFails(c) ==
    /\ handler[c] = "read"
    /\ RequestOf(c).headers.transport = "http"
    /\ Reply(c, "bad")
    /\ UNCHANGED <<mode, request, client, sent, tenant, insert, db, kills>>

\* mutant: points that JSON cannot hold are left out
ConvertSkippingNaN(req) == {p \in req.points : p.type # "other" /\ p.finite}

\* IngestTraces, IngestLogs, IngestMetrics: a record per point, none for the
\* metric types without a case.
Convert(req) == {p \in req.points : p.type # "other"}

Encodable(req) == \A p \in Convert(req) : p.finite

\* Nothing to store is a success.
IngestNothing(c) ==
    /\ handler[c] = "convert"
    /\ Convert(RequestOf(c)) = {}
    /\ Reply(c, "ok")
    /\ UNCHANGED <<mode, request, client, sent, tenant, insert, db, kills>>

\* The first record that JSON cannot hold ends Insert before it sends anything.
EncodingFails(c) ==
    /\ handler[c] = "convert"
    /\ ~Encodable(RequestOf(c))
    /\ Reply(c, "failed")
    /\ UNCHANGED <<mode, request, client, sent, tenant, insert, db, kills>>

SendInsert(c) ==
    /\ handler[c] = "convert"
    /\ Convert(RequestOf(c)) # {}
    /\ Encodable(RequestOf(c))
    /\ handler' = [handler EXCEPT ![c] = "insert"]
    /\ insert' = [insert EXCEPT ![c] = "open"]
    /\ UNCHANGED <<mode, request, client, sent, tenant, reply, db, kills>>

\* mutant: the call is answered once the statement is sent
ConfirmedWhenSent(c) == insert[c] \in {"open", "stored"}

Confirmed(c) == insert[c] = "stored"

InsertSucceeds(c) ==
    /\ handler[c] = "insert"
    /\ Confirmed(c)
    /\ Reply(c, "ok")
    /\ UNCHANGED <<mode, request, client, sent, tenant, insert, db, kills>>

\* mutant: no timeout, only a refusal ends the wait
GivesUpWhenRefused(c) == handler[c] = "insert" /\ insert[c] = "refused"

\* An error status, or no answer within the timeout of the HTTP client,
\* whatever the database has done or will still do with the statement.
GivesUp(c) == handler[c] = "insert"

InsertFails(c) ==
    /\ GivesUp(c)
    /\ Reply(c, "failed")
    /\ UNCHANGED <<mode, request, client, sent, tenant, insert, db, kills>>

Handle(c) ==
    \/ AuthenticateCall(c)
    \/ ReadBody(c)
    \/ ReadBodyFails(c)
    \/ IngestNothing(c)
    \/ EncodingFails(c)
    \/ SendInsert(c)
    \/ InsertSucceeds(c)
    \/ InsertFails(c)

-----------------------------------------------------------------------------
(* ClickHouse (external): a statement is stored as one block or refused; it  *)
(* may be stored after the receiver stopped waiting for it.                  *)

\* mutant: the records carry the default tenant
RecordsOfDefault(c) ==
    {[export |-> c[1], copy |-> c[2], tenant |-> DefaultTenant, point |-> p] :
        p \in Convert(RequestOf(c))}

\* mutant: a record is lost on the way
RecordsButOne(c) ==
    {[export |-> c[1], copy |-> c[2], tenant |-> tenant[c], point |-> p] :
        p \in {q \in Convert(RequestOf(c)) : \E other \in Convert(RequestOf(c)) : other.id > q.id}}

\* Each record of the statement carries the tenant of the call.
Records(c) ==
    {[export |-> c[1], copy |-> c[2], tenant |-> tenant[c], point |-> p] :
        p \in Convert(RequestOf(c))}

StoreBatch(c) ==
    /\ insert[c] = "open"
    /\ insert' = [insert EXCEPT ![c] = "stored"]
    /\ db' = db \cup Records(c)
    /\ UNCHANGED <<mode, request, client, sent, handler, tenant, reply, kills>>

RefuseBatch(c) ==
    /\ insert[c] = "open"
    /\ insert' = [insert EXCEPT ![c] = "refused"]
    /\ UNCHANGED <<mode, request, client, sent, handler, tenant, reply, db, kills>>

\* The service is killed and started again.  It keeps nothing: the calls that
\* run are lost, the statements they sent are not.
Kill ==
    /\ kills < MaxKills
    /\ kills' = kills + 1
    /\ handler' = [c \in Calls |-> IF handler[c] \in Running THEN "gone" ELSE handler[c]]
    /\ UNCHANGED <<mode, request, client, sent, tenant, insert, reply, db>>

Next ==
    \/ \E e \in Exports : Send(e) \/ HearAnswer(e) \/ HearNothing(e)
    \/ \E c \in Calls : Handle(c) \/ StoreBatch(c) \/ RefuseBatch(c)
    \/ Kill

Spec == Init /\ [][Next]_vars

\* The goroutine of a call runs on; the HTTP client has a timeout.  Nothing is
\* assumed of the database and of the exporter.
FairSpec == Spec /\ \A c \in Calls : WF_vars(Handle(c))
-----------------------------------------------------------------------------
(* Properties. *)

Record == [export : Exports, copy : Attempts, tenant : Tenants, point : Point]

TypeOK ==
    /\ mode \in Modes
    /\ request \in [Exports -> Requests]
    /\ client \in [Exports -> {"ready", "waiting", "acked", "dropped"}]
    /\ sent \in [Exports -> 0 .. MaxAttempts]
    /\ handler \in [Calls -> Running \cup {"none", "done", "gone"}]
    /\ tenant \in [Calls -> Tenants \cup {Refused}]
    /\ insert \in [Calls -> {"none", "open", "stored", "refused"}]
    /\ reply \in [Calls -> {"none", "ok", "unauthenticated", "bad", "failed"}]
    /\ db \subseteq Record
    /\ kills \in 0 .. MaxKills

\* The points that the tables have a place for.
Kept(req) == {p \in req.points : p.type \in {"span", "log", "gauge", "sum", "histogram"}}

\* No acknowledged data is lost: when an exporter hears a success, every point
\* that has a table is stored, as one copy of one call, however many calls of
\* the export ran at once and whatever was killed in between.
AckedIsStored ==
    \A e \in Exports :
        client[e] = "acked" =>
            \A p \in Kept(request[e]) :
                \E rec \in db : rec.export = e /\ rec.copy = sent[e] /\ rec.point = p

\* What is stored belongs to a tenant that the headers of its export entitle
\* it to, by the two files or in test mode by the header; the export of a
\* caller who is entitled to nothing leaves no trace.
StoredForEntitled ==
    \A rec \in db : rec.tenant \in Entitled(mode, request[rec.export].headers)

\* One point that JSON cannot hold keeps its whole export out of the database,
\* however often it is sent, and the exporter is never told it was stored.
PoisonedNeverStored ==
    \A e \in Exports :
        (\E p \in Kept(request[e]) : ~p.finite) =>
            client[e] # "acked" /\ \A rec \in db : rec.export # e

\* Every call is answered, or lost with the service, whatever the database does.
EveryCallAnswered ==
    \A c \in Calls : handler[c] \in Running ~> handler[c] \in {"done", "gone"}

Delivery == INSTANCE AtLeastOnce
    WITH Copies <- Attempts,
         batch <- [e \in Exports |-> Convert(request[e])],
         stored <- db,
         acked <- {e \in Exports : client[e] = "acked"}

\* Ingestion delivers at least once: batches are stored whole, each call
\* stores at most one copy, an acknowledgement follows a copy.
DeliversAtLeastOnce == Delivery!Spec
=============================================================================
