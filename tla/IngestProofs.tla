---------------------------- MODULE IngestProofs ----------------------------
(***************************************************************************)
(* The decision of the middlewares grants no more than the files and the   *)
(* headers do; the safety of Ingest and its refinement of AtLeastOnce, for *)
(* any files, exporters, requests and bounds.                              *)
(***************************************************************************)
EXTENDS Ingest, WellFoundedInduction, TLAPS

-----------------------------------------------------------------------------
(* The middlewares.                                                          *)

\* The last index of a non-empty set of indices is one of them.
LEMMA LastIndex ==
    ASSUME NEW n \in Nat, NEW S \in SUBSET (1 .. n), S # {}
    PROVE  Max(S) \in S
<1> DEFINE T == {n - i : i \in S}
<1>1. T \subseteq Nat
  BY SMT
<1>2. PICK x \in T : \A y \in T : ~(<<y, x>> \in OpToRel(<, Nat))
  <2>1. T # {}
    OBVIOUS
  <2> HIDE DEF T
  <2> QED BY <1>1, <2>1, NatLessThanWellFounded, WFMin, Zenon
<1>3. \A y \in T : ~(y < x)
  <2> HIDE DEF T
  <2> QED BY <1>1, <1>2 DEF OpToRel
<1>4. PICK m \in S : x = n - m
  BY <1>2
<1>5. \A i \in S : m >= i
  <2> SUFFICES ASSUME NEW i \in S PROVE m >= i
    OBVIOUS
  <2>1. n - i \in T
    OBVIOUS
  <2>2. ~(n - i < n - m)
    BY <1>3, <1>4, <2>1
  <2> HIDE DEF T
  <2> QED BY <2>2
<1> QED BY <1>4, <1>5, Zenon DEF Max

\* The store finds the tenant of some record of users.csv whose user has a
\* record with the key in api-keys.csv.
LEMMA TenantOfAPIKey ==
    ASSUME NEW key \in Keys, AuthenticateAPIKey(key) # Refused
    PROVE  /\ AuthenticateAPIKey(key) \in TenantsOfKey(key)
           /\ AuthenticateAPIKey(key) \in Tenants
<1> DEFINE user == APIKeys[key]
           keyRecords == {i \in DOMAIN APIKeysFile : APIKeysFile[i].key = key}
           userRecords == {i \in DOMAIN UsersFile : UsersFile[i].user = user}
<1>1. /\ key \in DOMAIN APIKeys
      /\ user \in DOMAIN UserTenants
      /\ AuthenticateAPIKey(key) = UserTenants[user]
  BY DEF AuthenticateAPIKey
<1>2. PICK j \in keyRecords : user = APIKeysFile[j].user
  <2>1. keyRecords # {} /\ user = APIKeysFile[Max(keyRecords)].user
    BY <1>1 DEF APIKeys
  <2>2. keyRecords \in SUBSET (1 .. Len(APIKeysFile)) /\ Len(APIKeysFile) \in Nat
    BY AuthAssumption
  <2>3. Max(keyRecords) \in keyRecords
    <3> HIDE DEF keyRecords
    <3> QED BY <2>1, <2>2, LastIndex
  <2> QED BY <2>1, <2>3
<1>3. PICK i \in userRecords : UserTenants[user] = UsersFile[i].tenant
  <2> HIDE DEF user
  <2>1. userRecords # {} /\ UserTenants[user] = UsersFile[Max(userRecords)].tenant
    BY <1>1 DEF UserTenants
  <2>2. userRecords \in SUBSET (1 .. Len(UsersFile)) /\ Len(UsersFile) \in Nat
    BY AuthAssumption
  <2>3. Max(userRecords) \in userRecords
    <3> HIDE DEF userRecords
    <3> QED BY <2>1, <2>2, LastIndex
  <2> QED BY <2>1, <2>3
<1>4. UsersFile[i].tenant \in Tenants
  <2>1. UsersFile[i] \in UserRecord
    <3>1. UsersFile \in Seq(UserRecord) /\ i \in DOMAIN UsersFile
      BY AuthAssumption
    <3> HIDE DEF userRecords
    <3> QED BY <3>1
  <2> QED BY <2>1 DEF UserRecord
<1>5. UsersFile[i].tenant \in TenantsOfKey(key)
  BY <1>2 DEF TenantsOfKey
<1> QED BY <1>1, <1>3, <1>4, <1>5

\* In every mode, over both transports: who is not refused acts for a tenant
\* that the two files, or in test mode the header, entitle the caller to.
THEOREM GrantsEntitled ==
    ASSUME NEW how \in Modes, NEW h \in Headers, Authenticate(how, h) # Refused
    PROVE  Authenticate(how, h) \in Entitled(how, h) \cap Tenants
<1>1. /\ h.authorization \in Authorizations
      /\ h.tenant \in TenantHeaders
      /\ h.transport \in Transports
  BY DEF Headers
<1>2. ASSUME ValidateTenantID(h.tenant) # Refused
      PROVE  ValidateTenantID(h.tenant) \in
                (IF h.tenant \in Tenants THEN {h.tenant} ELSE {DefaultTenant}) \cap Tenants
  BY <1>1, <1>2, AuthAssumption DEF ValidateTenantID, TenantHeaders
<1>3. CASE how = "header"
  BY <1>2, <1>3 DEF Authenticate, Entitled
<1>4. CASE how # "header" /\ HasAuthorization(h)
  <2>1. /\ h.authorization \in Keys
        /\ Authenticate(how, h) = AuthenticateAPIKey(h.authorization)
    BY <1>4 DEF Authenticate, AuthenticateBearer
  <2>2. how \in {"keys", "keys_or_header"}
    BY <1>4 DEF Modes
  <2> QED BY <2>1, <2>2, TenantOfAPIKey DEF Entitled
<1>5. CASE how # "header" /\ ~HasAuthorization(h)
  <2>1. how = "keys_or_header" /\ Authenticate(how, h) = ValidateTenantID(h.tenant)
    BY <1>5 DEF Authenticate, Modes
  <2>2. h.authorization \notin Keys
    BY <1>5, AuthAssumption DEF HasAuthorization
  <2> QED BY <1>2, <2>1, <2>2 DEF Entitled
<1> QED BY <1>3, <1>4, <1>5

-----------------------------------------------------------------------------
(* The receivers and the ingester.                                           *)

\* A call is an export and the number of the attempt.
LEMMA CallOf == \A c \in Calls : c[1] \in Exports /\ c[2] \in Attempts /\ c = <<c[1], c[2]>>
BY DEF Calls

LEMMA RequestType ==
    ASSUME TypeOK, NEW c \in Calls
    PROVE  /\ RequestOf(c) \in Request
           /\ Convert(RequestOf(c)) \subseteq Point
<1>1. RequestOf(c) \in Request
  BY CallOf, IngestAssumption DEF TypeOK, RequestOf
<1> QED BY <1>1 DEF Convert, Request

\* Every variable keeps its type.
LEMMA InitType == Init => TypeOK
BY IngestAssumption DEF Init, TypeOK

LEMMA ExporterType ==
    ASSUME TypeOK, NEW e \in Exports, Send(e) \/ HearAnswer(e) \/ HearNothing(e)
    PROVE  TypeOK'
<1>1. CASE Send(e)
  <2>1. <<e, sent[e] + 1>> \in Calls
    BY <1>1, IngestAssumption DEF TypeOK, Send, Calls, Attempts
  <2> QED BY <1>1, <2>1, IngestAssumption DEF TypeOK, Send, Running
<1>2. CASE HearAnswer(e)
  BY <1>2 DEF TypeOK, HearAnswer, calls
<1>3. CASE HearNothing(e)
  BY <1>3 DEF TypeOK, HearNothing, calls
<1> QED BY <1>1, <1>2, <1>3

LEMMA HandleType ==
    ASSUME TypeOK, NEW c \in Calls, Handle(c)
    PROVE  TypeOK'
<1>1. CASE AuthenticateCall(c)
  <2>1. RequestOf(c).headers \in Headers
    BY RequestType DEF Request
  <2>2. Authenticate(mode, RequestOf(c).headers) \in Tenants \cup {Refused}
    BY <2>1, GrantsEntitled DEF TypeOK
  <2> QED BY <1>1, <2>2 DEF TypeOK, AuthenticateCall, Reply, Running
<1>2. CASE ReadBody(c)
  BY <1>2 DEF TypeOK, ReadBody, Running
<1>3. CASE ReadBodyFails(c)
  BY <1>3 DEF TypeOK, ReadBodyFails, Reply
<1>4. CASE IngestNothing(c) \/ EncodingFails(c)
  BY <1>4 DEF TypeOK, IngestNothing, EncodingFails, Reply
<1>5. CASE SendInsert(c)
  BY <1>5 DEF TypeOK, SendInsert, Running
<1>6. CASE InsertSucceeds(c) \/ InsertFails(c)
  BY <1>6 DEF TypeOK, InsertSucceeds, InsertFails, Reply
<1> QED BY <1>1, <1>2, <1>3, <1>4, <1>5, <1>6 DEF Handle
-----------------------------------------------------------------------------
(***************************************************************************)
(* The properties speak of exporters and of the database; what links them  *)
(* is the state of each call.  The inductive invariant says how far a call *)
(* is by its handler, whose tenant it carries, what a confirmed insert     *)
(* stored, and that a record comes from a stored insert of a call.         *)
(***************************************************************************)

\* A call that was not made yet.
Unsent(c) == c[2] > sent[c[1]] => handler[c] = "none"

\* A statement is sent after the conversion, an answer ends the handler.
Phased(c) ==
    /\ handler[c] \in {"none", "auth", "read", "convert"} => insert[c] = "none"
    /\ handler[c] # "done" => reply[c] = "none"

\* Past the middleware a call carries a tenant it is entitled to.
Scoped(c) ==
    handler[c] \in {"read", "convert", "insert"} \/ insert[c] # "none" =>
        tenant[c] \in Entitled(mode, RequestOf(c).headers) \cap Tenants

\* Only what JSON can hold is sent, a stored statement left all its records,
\* and a success means that it is stored.
Confirming(c) ==
    /\ insert[c] # "none" => Encodable(RequestOf(c))
    /\ insert[c] = "stored" => Records(c) \subseteq db
    /\ reply[c] = "ok" => Convert(RequestOf(c)) = {} \/ insert[c] = "stored"

CallInv(c) == Unsent(c) /\ Phased(c) /\ Scoped(c) /\ Confirming(c)

\* A record comes from a statement that was stored.
FromStored(rec) ==
    \E c \in Calls : insert[c] = "stored" /\ rec \in Records(c)

\* An exporter has heard the last call it made.
Heard(e) ==
    /\ client[e] = "waiting" => sent[e] >= 1
    /\ client[e] = "acked" => sent[e] >= 1 /\ reply[LastCall(e)] = "ok"

IInv ==
    /\ TypeOK
    /\ \A c \in Calls : CallInv(c)
    /\ \A rec \in db : FromStored(rec)
    /\ \A e \in Exports : Heard(e)

LEMMA InitIInv == Init => IInv
<1> SUFFICES ASSUME Init PROVE IInv
  OBVIOUS
<1>1. \A c \in Calls : CallInv(c)
  BY DEF Init, CallInv, Unsent, Phased, Scoped, Confirming
<1>2. \A e \in Exports : Heard(e)
  BY DEF Init, Heard
<1> QED BY <1>1, <1>2, InitType DEF Init, IInv

\* What an exporter does concerns its own last call.
LEMMA ExporterIInv ==
    ASSUME IInv, NEW e \in Exports, Send(e) \/ HearAnswer(e) \/ HearNothing(e)
    PROVE  IInv'
<1>1. TypeOK /\ TypeOK'
  BY ExporterType DEF IInv
<1>2. CASE Send(e)
  <2>1. /\ sent[e] \in Nat
        /\ sent' = [sent EXCEPT ![e] = sent[e] + 1]
        /\ <<e, sent[e] + 1>> \in Calls
        /\ handler' = [handler EXCEPT ![<<e, sent[e] + 1>>] = "auth"]
        /\ UNCHANGED <<mode, request, tenant, insert, reply, db, kills>>
    BY <1>1, <1>2, IngestAssumption DEF TypeOK, Send, Calls, Attempts
  <2>2. ASSUME NEW c \in Calls PROVE CallInv(c)'
    <3>1. CallInv(c) /\ c[1] \in Exports /\ c[2] \in Nat /\ c = <<c[1], c[2]>>
      BY CallOf DEF IInv, Attempts
    <3>2. CASE c = <<e, sent[e] + 1>>
      <4>1. handler[c] = "none" /\ handler'[c] = "auth"
        BY <1>1, <2>1, <3>1, <3>2 DEF CallInv, Unsent, TypeOK
      <4>2. ~(c[2] > sent'[c[1]])
        BY <1>1, <2>1, <3>2 DEF TypeOK
      <4> QED BY <2>1, <3>1, <4>1, <4>2
              DEF CallInv, Unsent, Phased, Scoped, Confirming, RequestOf, Records
    <3>3. CASE c # <<e, sent[e] + 1>>
      <4>1. handler'[c] = handler[c]
        BY <1>1, <2>1, <3>3 DEF TypeOK
      <4>2. Unsent(c)'
        BY <1>1, <2>1, <3>1, <4>1 DEF CallInv, Unsent, TypeOK
      <4> QED BY <2>1, <3>1, <4>1, <4>2
              DEF CallInv, Phased, Scoped, Confirming, RequestOf, Records
    <3> QED BY <3>2, <3>3
  <2>3. ASSUME NEW f \in Exports PROVE Heard(f)'
    BY <1>1, <1>2, <2>1 DEF IInv, Heard, Send, TypeOK, LastCall
  <2>4. \A rec \in db' : FromStored(rec)'
    BY <2>1 DEF IInv, FromStored, Records, RequestOf
  <2> QED BY <1>1, <2>2, <2>3, <2>4 DEF IInv
<1>3. CASE HearAnswer(e) \/ HearNothing(e)
  <2>1. UNCHANGED <<mode, request, sent, handler, tenant, insert, reply, db, kills>>
    BY <1>3 DEF HearAnswer, HearNothing, calls
  <2>2. \A c \in Calls : CallInv(c)'
    BY <2>1 DEF IInv, CallInv, Unsent, Phased, Scoped, Confirming, RequestOf, Records
  <2>3. ASSUME NEW f \in Exports PROVE Heard(f)'
    BY <1>1, <1>3, <2>1 DEF IInv, Heard, HearAnswer, HearNothing, TypeOK, LastCall
  <2>4. \A rec \in db' : FromStored(rec)'
    BY <2>1 DEF IInv, FromStored, Records, RequestOf
  <2> QED BY <1>1, <2>2, <2>3, <2>4 DEF IInv
<1> QED BY <1>2, <1>3

\* The handler of a call changes nothing of another call.
LEMMA HandleFrame ==
    ASSUME TypeOK, NEW c \in Calls, Handle(c), NEW d \in Calls, d # c
    PROVE  /\ handler'[d] = handler[d]
           /\ tenant'[d] = tenant[d]
           /\ insert'[d] = insert[d]
           /\ reply'[d] = reply[d]
BY DEF TypeOK, Handle, AuthenticateCall, ReadBody, ReadBodyFails, IngestNothing,
       EncodingFails, SendInsert, InsertSucceeds, InsertFails, GivesUp, Reply

LEMMA HandleUnchanged ==
    ASSUME NEW c \in Calls, Handle(c)
    PROVE  UNCHANGED <<mode, request, client, sent, db, kills>>
BY DEF Handle, AuthenticateCall, ReadBody, ReadBodyFails, IngestNothing,
       EncodingFails, SendInsert, InsertSucceeds, InsertFails, Reply

\* A step of a handler keeps the invariant of its call, and takes back
\* neither a stored statement nor an answer.
LEMMA HandleCall ==
    ASSUME IInv, NEW c \in Calls, Handle(c)
    PROVE  /\ CallInv(c)'
           /\ insert[c] = "stored" => insert'[c] = "stored" /\ tenant'[c] = tenant[c]
           /\ reply[c] = "ok" => reply'[c] = "ok"
<1>1. TypeOK /\ CallInv(c)
  BY DEF IInv
<1>2. UNCHANGED <<mode, request, client, sent, db, kills>>
  BY HandleUnchanged
<1> USE DEF CallInv, Unsent, Phased, Scoped, Confirming, RequestOf
<1>3. CASE AuthenticateCall(c)
  <2>1. /\ handler[c] = "auth" /\ insert[c] = "none" /\ insert' = insert
        /\ reply[c] = "none"
    BY <1>1, <1>3 DEF AuthenticateCall
  <2>2. CASE Authenticate(mode, RequestOf(c).headers) = Refused
    <3>1. handler'[c] = "done" /\ reply'[c] = "unauthenticated"
      BY <1>1, <1>3, <2>2 DEF AuthenticateCall, Reply, TypeOK
    <3> QED BY <1>1, <1>2, <2>1, <3>1
  <2>3. CASE Authenticate(mode, RequestOf(c).headers) # Refused
    <3>1. RequestOf(c).headers \in Headers /\ mode \in Modes
      BY <1>1, RequestType DEF Request, TypeOK
    <3>2. /\ handler'[c] = "read" /\ reply'[c] = "none"
          /\ tenant'[c] = Authenticate(mode, RequestOf(c).headers)
      BY <1>1, <1>3, <2>1, <2>3 DEF AuthenticateCall, TypeOK
    <3>3. tenant'[c] \in Entitled(mode, RequestOf(c).headers) \cap Tenants
      BY <2>3, <3>1, <3>2, GrantsEntitled
    <3> QED BY <1>1, <1>2, <2>1, <3>2, <3>3
  <2> QED BY <2>2, <2>3
<1>4. CASE ReadBody(c)
  BY <1>1, <1>2, <1>4 DEF ReadBody, TypeOK
<1>5. CASE ReadBodyFails(c)
  BY <1>1, <1>2, <1>5 DEF ReadBodyFails, Reply, TypeOK
<1>6. CASE IngestNothing(c)
  BY <1>1, <1>2, <1>6 DEF IngestNothing, Reply, TypeOK
<1>7. CASE EncodingFails(c)
  BY <1>1, <1>2, <1>7 DEF EncodingFails, Reply, TypeOK
<1>8. CASE SendInsert(c)
  BY <1>1, <1>2, <1>8 DEF SendInsert, TypeOK
<1>9. CASE InsertSucceeds(c)
  BY <1>1, <1>2, <1>9 DEF InsertSucceeds, Confirmed, Reply, Records, TypeOK
<1>10. CASE InsertFails(c)
  BY <1>1, <1>2, <1>10 DEF InsertFails, GivesUp, Reply, Records, TypeOK
<1> QED BY <1>3, <1>4, <1>5, <1>6, <1>7, <1>8, <1>9, <1>10 DEF Handle

LEMMA HandleIInv ==
    ASSUME IInv, NEW c \in Calls, Handle(c)
    PROVE  IInv'
<1>1. TypeOK /\ TypeOK'
  BY HandleType DEF IInv
<1>2. UNCHANGED <<mode, request, client, sent, db, kills>>
  BY HandleUnchanged
<1>3. ASSUME NEW d \in Calls PROVE CallInv(d)'
  <2>1. CASE d = c
    BY <2>1, HandleCall
  <2>2. CASE d # c
    BY <1>1, <1>2, <2>2, HandleFrame
       DEF IInv, CallInv, Unsent, Phased, Scoped, Confirming, RequestOf, Records
  <2> QED BY <2>1, <2>2
<1>4. \A d \in Calls : insert[d] = "stored" => insert'[d] = "stored" /\ tenant'[d] = tenant[d]
  BY <1>1, HandleFrame, HandleCall
<1>5. \A d \in Calls : reply[d] = "ok" => reply'[d] = "ok"
  BY <1>1, HandleFrame, HandleCall
<1>6. ASSUME NEW rec \in db' PROVE FromStored(rec)'
  <2>1. PICK d \in Calls : insert[d] = "stored" /\ rec \in Records(d)
    BY <1>2 DEF IInv, FromStored
  <2>2. insert'[d] = "stored" /\ Records(d)' = Records(d)
    BY <1>2, <1>4, <2>1 DEF Records, RequestOf
  <2> QED BY <2>1, <2>2 DEF FromStored
<1>7. ASSUME NEW e \in Exports PROVE Heard(e)'
  <2>1. Heard(e)
    BY DEF IInv
  <2>2. sent[e] >= 1 => LastCall(e) \in Calls
    BY <1>1 DEF TypeOK, LastCall, Calls, Attempts
  <2> QED BY <1>2, <1>5, <2>1, <2>2 DEF Heard, LastCall
<1> QED BY <1>1, <1>3, <1>6, <1>7 DEF IInv

LEMMA StoreBatchIInv ==
    ASSUME IInv, NEW c \in Calls, StoreBatch(c)
    PROVE  IInv'
<1>1. TypeOK /\ CallInv(c) /\ insert[c] = "open"
  BY DEF IInv, StoreBatch
<1>2. /\ insert' = [insert EXCEPT ![c] = "stored"]
      /\ db' = db \cup Records(c)
      /\ UNCHANGED <<mode, request, client, sent, handler, tenant, reply, kills>>
  BY DEF StoreBatch
<1>3. Records(c) \subseteq Record
  <2>1. tenant[c] \in Tenants
    BY <1>1 DEF CallInv, Scoped
  <2> QED BY <1>1, <2>1, CallOf, RequestType DEF Records, Record
<1>4. TypeOK'
  BY <1>1, <1>2, <1>3 DEF TypeOK
<1>5. \A d \in Calls : Records(d)' = Records(d)
  BY <1>2 DEF Records, RequestOf
<1>6. \A d \in Calls : insert'[d] = (IF d = c THEN "stored" ELSE insert[d])
  BY <1>1, <1>2 DEF TypeOK
<1>7. ASSUME NEW d \in Calls PROVE CallInv(d)'
  <2>1. CallInv(d)
    BY DEF IInv
  <2>2. Unsent(d)' /\ Phased(d)'
    BY <1>1, <1>2, <1>6, <2>1 DEF CallInv, Unsent, Phased
  <2>3. Scoped(d)' /\ Confirming(d)'
    BY <1>1, <1>2, <1>5, <1>6, <2>1 DEF CallInv, Scoped, Confirming, RequestOf
  <2> QED BY <2>2, <2>3 DEF CallInv
<1>8. ASSUME NEW rec \in db' PROVE FromStored(rec)'
  <2>1. PICK d \in Calls : insert'[d] = "stored" /\ rec \in Records(d)
    BY <1>2, <1>6 DEF IInv, FromStored
  <2> QED BY <1>5, <2>1 DEF FromStored
<1>9. \A e \in Exports : Heard(e)'
  BY <1>2 DEF IInv, Heard, LastCall
<1> QED BY <1>4, <1>7, <1>8, <1>9 DEF IInv

LEMMA RefuseBatchIInv ==
    ASSUME IInv, NEW c \in Calls, RefuseBatch(c)
    PROVE  IInv'
<1>1. TypeOK /\ CallInv(c) /\ insert[c] = "open"
  BY DEF IInv, RefuseBatch
<1>2. /\ insert' = [insert EXCEPT ![c] = "refused"]
      /\ UNCHANGED <<mode, request, client, sent, handler, tenant, reply, db, kills>>
  BY DEF RefuseBatch
<1>3. TypeOK'
  BY <1>1, <1>2 DEF TypeOK
<1>4. \A d \in Calls : insert'[d] = (IF d = c THEN "refused" ELSE insert[d])
  BY <1>1, <1>2 DEF TypeOK
<1>5. \A d \in Calls : CallInv(d)'
  BY <1>1, <1>2, <1>4
     DEF IInv, CallInv, Unsent, Phased, Scoped, Confirming, RequestOf, Records
<1>6. \A rec \in db' : FromStored(rec)'
  BY <1>1, <1>2, <1>4 DEF IInv, FromStored, Records, RequestOf
<1>7. \A e \in Exports : Heard(e)'
  BY <1>2 DEF IInv, Heard, LastCall
<1> QED BY <1>3, <1>5, <1>6, <1>7 DEF IInv

LEMMA KillIInv ==
    ASSUME IInv, Kill
    PROVE  IInv'
<1>1. TypeOK
  BY DEF IInv
<1>2. /\ kills < MaxKills
      /\ kills' = kills + 1
      /\ handler' = [c \in Calls |-> IF handler[c] \in Running THEN "gone" ELSE handler[c]]
      /\ UNCHANGED <<mode, request, client, sent, tenant, insert, reply, db>>
  BY DEF Kill
<1>3. TypeOK'
  BY <1>1, <1>2, IngestAssumption DEF TypeOK, Running
<1>4. \A c \in Calls : CallInv(c)'
  BY <1>1, <1>2
     DEF IInv, CallInv, Unsent, Phased, Scoped, Confirming, RequestOf, Records, Running
<1>5. \A rec \in db' : FromStored(rec)'
  BY <1>2 DEF IInv, FromStored, Records, RequestOf
<1>6. \A e \in Exports : Heard(e)'
  BY <1>2 DEF IInv, Heard, LastCall
<1> QED BY <1>3, <1>4, <1>5, <1>6 DEF IInv

LEMMA NextIInv == IInv /\ [Next]_vars => IInv'
<1> SUFFICES ASSUME IInv, [Next]_vars PROVE IInv'
  OBVIOUS
<1>1. ASSUME NEW e \in Exports, Send(e) \/ HearAnswer(e) \/ HearNothing(e) PROVE IInv'
  BY <1>1, ExporterIInv
<1>2. ASSUME NEW c \in Calls, Handle(c) PROVE IInv'
  BY <1>2, HandleIInv
<1>3. ASSUME NEW c \in Calls, StoreBatch(c) PROVE IInv'
  BY <1>3, StoreBatchIInv
<1>4. ASSUME NEW c \in Calls, RefuseBatch(c) PROVE IInv'
  BY <1>4, RefuseBatchIInv
<1>5. CASE Kill
  BY <1>5, KillIInv
<1>6. CASE UNCHANGED vars
  BY <1>6 DEF vars, calls, IInv, TypeOK, CallInv, Unsent, Phased, Scoped, Confirming,
              FromStored, Heard, LastCall, RequestOf, Records
<1> QED BY <1>1, <1>2, <1>3, <1>4, <1>5, <1>6 DEF Next

LEMMA Invariance == Spec => []IInv
<1> QED BY InitIInv, NextIInv, PTL DEF Spec

-----------------------------------------------------------------------------
(* The theorems. *)

\* Every variable of the ingestion path keeps its type; a stored record always
\* carries a tenant, never the answer of a refused caller.
THEOREM TypeCorrect == Spec => []TypeOK
<1>1. IInv => TypeOK
  BY DEF IInv
<1> QED BY <1>1, Invariance, PTL

\* IngestTraces, IngestLogs and IngestMetrics acknowledge only what is stored,
\* however often an export is sent and whatever is killed in between.
THEOREM NoAckedLoss == Spec => []AckedIsStored
<1>1. ASSUME IInv PROVE AckedIsStored
  <2> SUFFICES ASSUME NEW e \in Exports, client[e] = "acked", NEW p \in Kept(request[e])
               PROVE  \E rec \in db : rec.export = e /\ rec.copy = sent[e] /\ rec.point = p
    BY DEF AckedIsStored
  <2>1. /\ LastCall(e) \in Calls
        /\ reply[LastCall(e)] = "ok"
        /\ RequestOf(LastCall(e)) = request[e]
    BY <1>1 DEF IInv, Heard, TypeOK, LastCall, Calls, Attempts, RequestOf
  <2>2. p \in Convert(request[e])
    BY DEF Kept, Convert
  <2>3. Records(LastCall(e)) \subseteq db
    BY <1>1, <2>1, <2>2 DEF IInv, CallInv, Confirming
  <2> DEFINE rec == [export |-> e, copy |-> sent[e], tenant |-> tenant[LastCall(e)], point |-> p]
  <2>4. rec \in Records(LastCall(e))
    BY <2>1, <2>2 DEF Records, LastCall
  <2>5. rec \in db /\ rec.export = e /\ rec.copy = sent[e] /\ rec.point = p
    BY <2>3, <2>4
  <2> QED BY <2>5
<1> QED BY <1>1, Invariance, PTL

\* A record belongs to a tenant that its caller was entitled to, by the files
\* or, in test mode, by the header.
THEOREM StoredAsEntitled == Spec => []StoredForEntitled
<1>1. ASSUME IInv PROVE StoredForEntitled
  <2> SUFFICES ASSUME NEW rec \in db
               PROVE  rec.tenant \in Entitled(mode, request[rec.export].headers)
    BY DEF StoredForEntitled
  <2>1. PICK c \in Calls : insert[c] = "stored" /\ rec \in Records(c)
    BY <1>1 DEF IInv, FromStored
  <2>2. rec.tenant = tenant[c] /\ request[rec.export] = RequestOf(c)
    BY <2>1 DEF Records, RequestOf
  <2>3. tenant[c] \in Entitled(mode, RequestOf(c).headers)
    BY <1>1, <2>1 DEF IInv, CallInv, Scoped
  <2> QED BY <2>2, <2>3
<1> QED BY <1>1, Invariance, PTL

\* An export with a point that JSON cannot hold is refused as a whole, on
\* every attempt.
THEOREM PoisonedRefused == Spec => []PoisonedNeverStored
<1>1. ASSUME IInv PROVE PoisonedNeverStored
  <2> SUFFICES ASSUME NEW e \in Exports, NEW p \in Kept(request[e]), ~p.finite
               PROVE  client[e] # "acked" /\ \A rec \in db : rec.export # e
    BY DEF PoisonedNeverStored
  <2>1. p \in Convert(request[e]) /\ ~Encodable(request[e])
    BY DEF Kept, Convert, Encodable
  <2>2. ASSUME NEW c \in Calls, RequestOf(c) = request[e] PROVE insert[c] = "none"
    BY <1>1, <2>1, <2>2 DEF IInv, CallInv, Confirming
  <2>3. client[e] # "acked"
    <3> SUFFICES ASSUME client[e] = "acked" PROVE FALSE
      OBVIOUS
    <3>1. /\ LastCall(e) \in Calls
          /\ reply[LastCall(e)] = "ok"
          /\ RequestOf(LastCall(e)) = request[e]
      BY <1>1 DEF IInv, Heard, TypeOK, LastCall, Calls, Attempts, RequestOf
    <3>2. insert[LastCall(e)] = "stored"
      BY <1>1, <2>1, <3>1 DEF IInv, CallInv, Confirming
    <3> QED BY <2>2, <3>1, <3>2
  <2>4. ASSUME NEW rec \in db, rec.export = e PROVE FALSE
    <3>1. PICK c \in Calls : insert[c] = "stored" /\ rec \in Records(c)
      BY <1>1 DEF IInv, FromStored
    <3>2. RequestOf(c) = request[e]
      BY <2>4, <3>1 DEF Records, RequestOf
    <3> QED BY <2>2, <3>1, <3>2
  <2> QED BY <2>3, <2>4
<1> QED BY <1>1, Invariance, PTL

-----------------------------------------------------------------------------
(***************************************************************************)
(* The refinement of AtLeastOnce.  A stored statement is a Store, hearing  *)
(* a success is an Acknowledge, every other step stutters.                 *)
(***************************************************************************)

Batch == [e \in Exports |-> Convert(request[e])]
Acked == {e \in Exports : client[e] = "acked"}

LEMMA StoreStep ==
    ASSUME IInv, NEW c \in Calls, StoreBatch(c)
    PROVE  Delivery!Store(c[1], c[2])
<1>1. /\ insert[c] = "open"
      /\ db' = db \cup Records(c)
      /\ UNCHANGED <<request, client>>
  BY DEF StoreBatch
<1>2. c = <<c[1], c[2]>> /\ c[1] \in Exports /\ tenant[c] \in Tenants
  BY <1>1, CallOf DEF IInv, CallInv, Scoped
<1>3. Records(c) = Delivery!CopyOf(c[1], c[2], tenant[c])
  BY <1>2 DEF Records, RequestOf, Delivery!CopyOf
<1>4. ASSUME NEW rec \in db, rec.export = c[1], rec.copy = c[2] PROVE FALSE
  <2>1. PICK d \in Calls : insert[d] = "stored" /\ rec \in Records(d)
    BY DEF IInv, FromStored
  <2>2. d = c
    BY <1>2, <1>4, <2>1, CallOf DEF Records
  <2> QED BY <1>1, <2>1, <2>2
<1>5. UNCHANGED <<Batch, Acked>>
  BY <1>1 DEF Batch, Acked
<1> QED BY <1>1, <1>2, <1>3, <1>4, <1>5 DEF Delivery!Store, Batch, Acked

LEMMA AcknowledgeStep ==
    ASSUME IInv, NEW e \in Exports, HearAnswer(e), client'[e] = "acked"
    PROVE  Delivery!Acknowledge(e)
<1>1. TypeOK /\ Heard(e)
  BY DEF IInv
<1>2. /\ client[e] = "waiting"
      /\ reply[LastCall(e)] = "ok"
      /\ client' = [client EXCEPT ![e] = "acked"]
      /\ UNCHANGED <<request, sent, db>>
  BY <1>1 DEF HearAnswer, TypeOK
<1>3. /\ LastCall(e) \in Calls /\ RequestOf(LastCall(e)) = request[e]
      /\ sent[e] \in Attempts
  BY <1>1, <1>2 DEF Heard, TypeOK, LastCall, Calls, Attempts, RequestOf
<1>4. \E copy \in Attempts, who \in Tenants : Delivery!CopyOf(e, copy, who) \subseteq db
  <2>1. CASE Convert(request[e]) = {}
    <3>1. Delivery!CopyOf(e, sent[e], DefaultTenant) = {}
      BY <2>1 DEF Delivery!CopyOf
    <3> QED BY <1>3, <3>1, AuthAssumption
  <2>2. CASE Convert(request[e]) # {}
    <3>1. insert[LastCall(e)] = "stored" /\ Records(LastCall(e)) \subseteq db
      BY <1>2, <1>3, <2>2 DEF IInv, CallInv, Confirming
    <3>2. tenant[LastCall(e)] \in Tenants
      BY <1>3, <3>1 DEF IInv, CallInv, Scoped
    <3>3. Records(LastCall(e)) = Delivery!CopyOf(e, sent[e], tenant[LastCall(e)])
      BY <1>3 DEF Records, LastCall, RequestOf, Delivery!CopyOf
    <3> QED BY <1>3, <3>1, <3>2, <3>3
  <2> QED BY <2>1, <2>2
<1>5. Acked' = Acked \cup {e}
  BY <1>1, <1>2 DEF Acked, TypeOK
<1>6. UNCHANGED Batch
  BY <1>2 DEF Batch
<1> QED BY <1>2, <1>4, <1>5, <1>6 DEF Delivery!Acknowledge, Batch, Acked

\* An acknowledgement is never taken back, and only HearAnswer gives one.
LEMMA ExporterStutters ==
    ASSUME IInv, NEW e \in Exports, Send(e) \/ HearAnswer(e) \/ HearNothing(e),
           client'[e] # "acked"
    PROVE  UNCHANGED <<Batch, db, Acked>>
<1>1. TypeOK
  BY DEF IInv
<1>2. UNCHANGED <<request, db>> /\ client[e] # "acked"
  BY DEF Send, HearAnswer, HearNothing
<1>3. \A f \in Exports : f # e => client'[f] = client[f]
  BY <1>1 DEF Send, HearAnswer, HearNothing, TypeOK
<1> QED BY <1>2, <1>3 DEF Batch, Acked

\* However exporters, calls, the database and kills interleave, ingestion
\* delivers at least once.
THEOREM Refinement == Spec => DeliversAtLeastOnce
<1>1. Init => Delivery!Init
  BY DEF Init, Delivery!Init
<1>2. ASSUME IInv, [Next]_vars PROVE [Delivery!Next]_(Delivery!vars)
  <2>1. ASSUME NEW e \in Exports, Send(e) \/ HearAnswer(e) \/ HearNothing(e)
        PROVE  [Delivery!Next]_(Delivery!vars)
    <3>1. CASE client'[e] = "acked"
      <4>1. HearAnswer(e)
        BY <1>2, <2>1, <3>1 DEF IInv, TypeOK, Send, HearNothing
      <4> QED BY <1>2, <3>1, <4>1, AcknowledgeStep DEF Delivery!Next
    <3>2. CASE client'[e] # "acked"
      BY <1>2, <2>1, <3>2, ExporterStutters DEF Delivery!vars, Batch, Acked
    <3> QED BY <3>1, <3>2
  <2>2. ASSUME NEW c \in Calls, Handle(c) PROVE UNCHANGED (Delivery!vars)
    BY <2>2, HandleUnchanged DEF Delivery!vars
  <2>3. ASSUME NEW c \in Calls, StoreBatch(c) PROVE Delivery!Next
    <3>1. c[1] \in Exports /\ c[2] \in Attempts
      BY CallOf
    <3>2. Delivery!Store(c[1], c[2])
      BY <1>2, <2>3, StoreStep
    <3> QED BY <3>1, <3>2 DEF Delivery!Next
  <2>4. ASSUME NEW c \in Calls, RefuseBatch(c) PROVE UNCHANGED (Delivery!vars)
    BY <2>4 DEF RefuseBatch, Delivery!vars
  <2>5. CASE Kill
    BY <2>5 DEF Kill, Delivery!vars
  <2>6. CASE UNCHANGED vars
    BY <2>6 DEF vars, Delivery!vars
  <2> QED BY <1>2, <2>1, <2>2, <2>3, <2>4, <2>5, <2>6 DEF Next
<1> QED BY <1>1, <1>2, Invariance, PTL DEF Spec, DeliversAtLeastOnce, Delivery!Spec
=============================================================================
