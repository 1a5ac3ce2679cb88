-------------------------------- MODULE Auth --------------------------------
(***************************************************************************)
(* Who a request is: cmd/otel-oql/main.go initAuth, pkg/userstore,         *)
(* pkg/auth/middleware.go and pkg/tenant.                                  *)
(*                                                                         *)
(* The service reads two files once, at its start: users.csv (username,    *)
(* tenant_id) and api-keys.csv (username, api_key).  It then runs in one   *)
(* of three ways.                                                          *)
(*   "keys"            production: a request needs a Bearer key            *)
(*   "keys_or_header"  test mode with the files: a key if there is an      *)
(*                     Authorization header, else the tenant-id header     *)
(*   "header"          test mode without the files: the tenant-id header,  *)
(*                     the Authorization header is not looked at           *)
(* HTTP and gRPC read the headers with code of their own.                  *)
(***************************************************************************)
EXTENDS Naturals, Sequences, FiniteSetsExt

CONSTANTS
    Tenants,          \* tenant ids: non-negative numbers
    DefaultTenant,    \* tenant 0
    Users, Keys,
    UsersFile,        \* the records of users.csv, in order
    APIKeysFile,      \* the records of api-keys.csv, in order
    Refused           \* what is not a tenant

UserRecord == [user : Users, tenant : Tenants]
KeyRecord == [user : Users, key : Keys]

Modes == {"keys", "keys_or_header", "header"}
Transports == {"http", "grpc"}

\* An Authorization header: none, an empty one, one that is not
\* "Bearer <token>", or a token.
Authorizations == {"absent", "empty", "malformed"} \cup Keys

\* A tenant-id header: none, an empty one, not a non-negative number, or one.
TenantHeaders == {"absent", "empty", "malformed"} \cup Tenants

Headers == [transport : Transports, authorization : Authorizations, tenant : TenantHeaders]

\* The records that the loaders of the store accept (they fail on any other,
\* and the service does not start).
ASSUME AuthAssumption ==
    /\ DefaultTenant \in Tenants
    /\ Refused \notin Tenants
    /\ UsersFile \in Seq(UserRecord)
    /\ APIKeysFile \in Seq(KeyRecord)
    /\ Keys \cap {"absent", "empty", "malformed"} = {}
    /\ Tenants \cap {"absent", "empty", "malformed"} = {}

-----------------------------------------------------------------------------
(* The store. *)

\* A later record of the same name replaces an earlier one.
UserTenants ==
    [user \in {UsersFile[i].user : i \in DOMAIN UsersFile} |->
        UsersFile[Max({i \in DOMAIN UsersFile : UsersFile[i].user = user})].tenant]

APIKeys ==
    [key \in {APIKeysFile[i].key : i \in DOMAIN APIKeysFile} |->
        APIKeysFile[Max({i \in DOMAIN APIKeysFile : APIKeysFile[i].key = key})].user]

AuthenticateAPIKey(key) ==
    IF key \in DOMAIN APIKeys /\ APIKeys[key] \in DOMAIN UserTenants
    THEN UserTenants[APIKeys[key]] ELSE Refused

-----------------------------------------------------------------------------
(* The middleware. *)

\* The validator of test mode, the only one that is built.
ValidateTenantID(header) ==
    IF header \in {"absent", "empty"} THEN DefaultTenant
    ELSE IF header = "malformed" THEN Refused ELSE header

\* http.Header.Get does not tell an empty header from none; metadata.MD does.
HasAuthorization(h) ==
    h.authorization \notin (IF h.transport = "http" THEN {"absent", "empty"} ELSE {"absent"})

AuthenticateBearer(authorization) ==
    IF authorization \in Keys THEN AuthenticateAPIKey(authorization) ELSE Refused

\* mutant: the tenant-id header is believed outside test mode
AuthenticateByHeader(mode, h) ==
    IF mode # "header" /\ HasAuthorization(h) THEN AuthenticateBearer(h.authorization)
    ELSE ValidateTenantID(h.tenant)

\* HTTPMiddleware and GRPCUnaryInterceptor, of the middleware or of the validator.
Authenticate(mode, h) ==
    IF mode = "header" THEN ValidateTenantID(h.tenant)
    ELSE IF HasAuthorization(h) THEN AuthenticateBearer(h.authorization)
    ELSE IF mode = "keys" THEN Refused
    ELSE ValidateTenantID(h.tenant)

-----------------------------------------------------------------------------
(* What the files and the headers entitle a request to, whatever the code    *)
(* that reads them: a tenant of a user of its key, or in test mode, without  *)
(* a key that is looked at, the tenant it names or the default one.          *)

TenantsOfKey(key) ==
    {UsersFile[i].tenant : i \in {k \in DOMAIN UsersFile :
        \E j \in DOMAIN APIKeysFile :
            APIKeysFile[j].key = key /\ APIKeysFile[j].user = UsersFile[k].user}}

Entitled(mode, h) ==
    IF mode = "keys" \/ (mode = "keys_or_header" /\ h.authorization \in Keys)
    THEN (IF h.authorization \in Keys THEN TenantsOfKey(h.authorization) ELSE {})
    ELSE IF h.tenant \in Tenants THEN {h.tenant}
    ELSE {DefaultTenant}
=============================================================================
