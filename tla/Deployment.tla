----------------------------- MODULE Deployment -----------------------------
(***************************************************************************)
(* From an empty ClickHouse to a service that runs: the setup-schema       *)
(* command and scripts/start.sh, the configuration of internal/config, the *)
(* middleware that initAuth builds, and the telemetry that                 *)
(* pkg/observability sends about the service, composed with the start and  *)
(* stop of the servers (ServiceLifecycle) and with who is let in (Auth).   *)
(*                                                                         *)
(* Of the settings, those are left out that only print (the debug flags);  *)
(* exit-on-failure is read by nobody.  Of the telemetry, one unit is what  *)
(* one request leaves behind, and the readings of the meter are left out.  *)
(***************************************************************************)
EXTENDS ServiceLifecycle, Auth

CONSTANTS
    Urls, LocalUrl,   \* the ClickHouse servers; http://localhost:8123
    Deployments,      \* what a service is started with
    Zero,             \* the port 0, the empty string
    Garbage,          \* a number or Boolean that does not parse
    MaxPending        \* bound: units of telemetry that wait to be sent

Tables == <<"otel_spans", "otel_metrics", "otel_logs">>

PortOf == [grpc  |-> "otlp-grpc-port", http |-> "otlp-http-port",
           query |-> "query-api-port", mcp  |-> "mcp-port"]
Flags == {"test-mode", "observability-enabled"}

Settings ==
    {PortOf[s] : s \in Servers} \cup Flags \cup
    {"mode", "clickhouse-url", "users-file", "api-keys-file", "observability-endpoint",
     "observability-tenant-id"}

\* What is used when no source gives a setting.
Default ==
    [s \in Settings |->
        CASE s \in Flags -> FALSE
          [] s = "otlp-grpc-port" -> 4317
          [] s = "otlp-http-port" -> 4318
          [] s = "query-api-port" -> 8080
          [] s = "mcp-port" -> 8090
          [] s = "mode" -> "all"
          [] s = "clickhouse-url" -> LocalUrl
          [] s = "users-file" -> "./users.csv"
          [] s = "api-keys-file" -> "./api-keys.csv"
          [] s = "observability-endpoint" -> 4317
          [] s = "observability-tenant-id" -> DefaultTenant]

\* A deployment: the settings the config file, the environment and the command
\* line give; whether the file is there, can be read and was named; what is at
\* the paths of the user files.  A port of the environment may be Zero.
ASSUME DeploymentAssumption ==
    /\ LocalUrl \in Urls
    /\ MaxPending \in Nat \ {0}
    /\ \A d \in Deployments :
        /\ d.config \in {"none", "found", "bad", "named", "named_unreadable", "unreadable"}
        /\ DOMAIN d.file \subseteq Settings /\ DOMAIN d.env \subseteq Settings
        /\ \A s \in Flags \cap DOMAIN d.file : d.file[s] \in BOOLEAN
        /\ \A s \in Flags \cap DOMAIN d.env : d.env[s] \in BOOLEAN \cup {Garbage}
        /\ \A s \in Flags \cap DOMAIN d.flags : d.flags[s] \in BOOLEAN
        /\ "clickhouse-url" \in DOMAIN d.env => d.env["clickhouse-url"] \in Urls
        /\ \A path \in DOMAIN d.paths : d.paths[path] \in {"good", "bad"}

VARIABLES
    deployment,   \* the deployment
    stage,        \* how far start.sh, or the service, is
    up,           \* the ClickHouse servers that answer
    tables,       \* the tables of each
    attempt,      \* the setup-schema commands that run: of start.sh, and one by hand
    reported,     \* history: the servers a command that succeeded was given
    config,       \* the configuration in effect
    authMode,     \* the middleware
    pending,      \* the service's own telemetry, not yet sent
    own,          \* its exports in flight to its own receiver
    lost          \* history: why telemetry was lost

service == <<config, authMode>>
telemetry == <<pending, own, lost>>
setup == <<attempt, tables, reported>>
deploymentVars == <<deployment, stage, up, setup, service, telemetry, vars>>

Idle == [asked |-> LocalUrl, at |-> LocalUrl, next |-> 0]

DeploymentInit ==
    /\ Init
    /\ mode = "all" /\ taken = {}
    /\ deployment \in Deployments
    /\ stage \in {"ping", "by_hand"}
    /\ up \in SUBSET Urls
    /\ tables = [url \in Urls |-> {}]
    /\ attempt = [who \in {"script", "hand"} |-> Idle]
    /\ reported = {}
    /\ config = Default
    /\ authMode = "none"
    /\ pending = 0 /\ own = 0 /\ lost = {}

-----------------------------------------------------------------------------
(* The schema. *)

Preparing == stage \in {"ping", "wait", "setup", "by_hand"}

\* flag.Parse reads the arguments from the first one on and stops at it: it is
\* "setup-schema", no flag, so --clickhouse-url is never read.
SetupTarget(asked) == LocalUrl

RunSetup(who, asked) ==
    /\ Preparing
    /\ attempt[who].next = 0
    /\ attempt' = [attempt EXCEPT ![who] = [asked |-> asked, at |-> SetupTarget(asked), next |-> 1]]
    /\ UNCHANGED <<tables, reported>>

\* mutant: CREATE TABLE without IF NOT EXISTS
CreatedIfNew(present, table) == table \notin present

\* CREATE TABLE IF NOT EXISTS succeeds whether the table is there or not.
Creates(present, table) == TRUE

CreateTable(who) ==
    LET at == attempt[who].at
        next == attempt[who].next
    IN  /\ next \in DOMAIN Tables
        /\ at \in up
        /\ Creates(tables[at], Tables[next])
        /\ tables' = [tables EXCEPT ![at] = @ \cup {Tables[next]}]
        /\ attempt' = [attempt EXCEPT ![who].next = @ + 1]
        /\ UNCHANGED reported

\* mutant: a table that cannot be created is passed over
PassOver(run) == [run EXCEPT !.next = @ + 1]

Stop(run) == Idle

\* The first table that cannot be created ends the command: the server does
\* not answer, or refuses.
CreateFails(who) ==
    /\ attempt[who].next \in DOMAIN Tables
    /\ attempt' = [attempt EXCEPT ![who] = Stop(@)]
    /\ UNCHANGED <<tables, reported>>

\* The command is killed.
Interrupt(who) ==
    /\ attempt[who].next # 0
    /\ attempt' = [attempt EXCEPT ![who] = Idle]
    /\ UNCHANGED <<tables, reported>>

ReportSuccess(who) ==
    /\ attempt[who].next = Len(Tables) + 1
    /\ reported' = reported \cup {attempt[who].asked}
    /\ attempt' = [attempt EXCEPT ![who] = Idle]
    /\ UNCHANGED tables

SetupByHand ==
    /\ Preparing \/ attempt["hand"].next # 0
    /\ stage # "running"
    /\ \/ \E url \in Urls : RunSetup("hand", url)
       \/ CreateTable("hand") \/ CreateFails("hand") \/ Interrupt("hand") \/ ReportSuccess("hand")
    /\ UNCHANGED <<deployment, stage, up, service, telemetry, vars>>

-----------------------------------------------------------------------------
(* scripts/start.sh: $CLICKHOUSE_URL is the server it asks for, and the      *)
(* server of the service it starts.                                          *)

ScriptUrl == IF "clickhouse-url" \in DOMAIN deployment.env
             THEN deployment.env["clickhouse-url"] ELSE LocalUrl

\* The server answers: no setup.  Else a local one is started.
Ping ==
    /\ stage = "ping"
    /\ stage' = IF ScriptUrl \in up THEN "loading" ELSE "wait"
    /\ up' = IF ScriptUrl \in up THEN up ELSE up \cup {LocalUrl}
    /\ UNCHANGED setup

WaitForServer ==
    /\ stage = "wait"
    /\ \/ ScriptUrl \in up /\ stage' = "setup" /\ RunSetup("script", ScriptUrl)
       \/ ScriptUrl \notin up /\ stage' = "refused" /\ UNCHANGED setup
    /\ UNCHANGED up

ScriptSetup ==
    /\ stage = "setup"
    /\ \/ CreateTable("script") /\ stage' = "setup"
       \/ (CreateFails("script") \/ Interrupt("script")) /\ stage' = "refused"
       \/ ReportSuccess("script") /\ stage' = "loading"
    /\ UNCHANGED up

\* A service is also started without the script.
StartByHand ==
    /\ stage = "by_hand"
    /\ stage' \in {"ping", "loading"}
    /\ UNCHANGED <<up, setup>>

Script ==
    /\ Ping \/ WaitForServer \/ ScriptSetup \/ StartByHand
    /\ UNCHANGED <<deployment, service, telemetry, vars>>

\* ClickHouse comes and goes.
Outage ==
    /\ Preparing
    /\ \E url \in Urls : up' = up \cup {url} \/ up' = up \ {url}
    /\ UNCHANGED <<deployment, stage, setup, service, telemetry, vars>>

-----------------------------------------------------------------------------
(* The configuration. *)

Unset(s) == IF s \in Flags THEN FALSE ELSE Zero

FromFile(d, s) ==
    IF d.config \in {"found", "named"} /\ s \in DOMAIN d.file THEN d.file[s] ELSE Unset(s)

\* A number or a Boolean that does not parse is passed over.
FromEnvironment(d, s) ==
    IF s \in DOMAIN d.env /\ d.env[s] # Garbage THEN d.env[s] ELSE FromFile(d, s)

\* A flag counts when it has another value than the one it has if it is not
\* given: zero or false.
FromCommandLine(d, s) ==
    IF s \in DOMAIN d.flags /\ d.flags[s] # Unset(s) THEN d.flags[s] ELSE FromEnvironment(d, s)

Load(d) ==
    [s \in Settings |->
        IF FromCommandLine(d, s) = Unset(s) THEN Default[s] ELSE FromCommandLine(d, s)]

Ports == 1 .. 65535

ServersOf(cfg) == {Order[cfg["mode"]][i] : i \in DOMAIN Order[cfg["mode"]]}

\* flag.Parse ends the process at a flag it does not know.  A file that cannot
\* be read is an error if it was named.
Loads(d) ==
    /\ DOMAIN d.flags \subseteq Settings
    /\ d.config \notin {"bad", "named_unreadable"}
    /\ Load(d)["mode"] \in DOMAIN Order
    /\ \A s \in ServersOf(Load(d)) : Load(d)[PortOf[s]] \in Ports

\* mutant: without the files there is nothing to check, test mode or not
AuthByFiles(cfg, paths) ==
    IF {cfg["users-file"], cfg["api-keys-file"]} \subseteq DOMAIN paths
    THEN IF cfg["test-mode"] THEN "keys_or_header" ELSE "keys"
    ELSE "header"

\* mutant: test mode is forgotten when the store is built
AuthStrict(cfg, paths) ==
    IF {cfg["users-file"], cfg["api-keys-file"]} \subseteq DOMAIN paths
    THEN "keys" ELSE IF cfg["test-mode"] THEN "header" ELSE "error"

\* The middleware of the store, or in test mode without the files the
\* validator.
InitAuth(cfg, paths) ==
    LET files == {cfg["users-file"], cfg["api-keys-file"]}
    IN  IF ~(files \subseteq DOMAIN paths) THEN (IF cfg["test-mode"] THEN "header" ELSE "error")
        ELSE IF \E file \in files : paths[file] = "bad" THEN "error"
        ELSE IF cfg["test-mode"] THEN "keys_or_header" ELSE "keys"

\* The ports that this process cannot have: those of other processes, and of
\* two servers with one port the one that comes second.  The gRPC receiver
\* comes first; the others race.
CannotHave(cfg, ports) ==
    \A s, t \in ServersOf(cfg) : s # t /\ cfg[PortOf[s]] = cfg[PortOf[t]] =>
        IF s = "grpc" THEN t \in ports ELSE {s, t} \cap ports # {}

Refuse ==
    /\ stage' = "refused"
    /\ Exit("error")
    /\ UNCHANGED <<service, mode, taken, todo, signalled, atSignal>>

\* Who sets the schema up by hand starts no service beside it.  A service looks
\* at no server but its own, and at no report.
StartService ==
    /\ stage = "loading"
    /\ attempt["hand"].next = 0
    /\ reported' = {}
    /\ LET cfg == Load(deployment)
           how == InitAuth(cfg, deployment.paths)
       IN  IF ~Loads(deployment) \/ how = "error" THEN Refuse
           ELSE /\ stage' = "running"
                /\ config' = cfg
                /\ authMode' = how
                /\ mode' = cfg["mode"]
                /\ todo' = Order[cfg["mode"]]
                /\ taken' \in {ports \in SUBSET Servers : CannotHave(cfg, ports)}
                /\ UNCHANGED <<main, server, inflight, signalled, exit, cut, atSignal>>
    /\ up' = up \cap {Load(deployment)["clickhouse-url"]}
    /\ UNCHANGED <<deployment, attempt, tables, telemetry>>

-----------------------------------------------------------------------------
(* The telemetry of the service. *)

Enabled == config["observability-enabled"]

\* The service is its own collector: it names its own gRPC port.
ToItself == "grpc" \in ServersOf(config)
            /\ config["observability-endpoint"] = config["otlp-grpc-port"]

\* tenantInterceptor: a tenant-id, and no key.
OwnHeaders == [transport |-> "grpc", authorization |-> "absent",
               tenant |-> config["observability-tenant-id"]]

\* What a request that is let in leaves behind, up to what the queue holds.
\* The MCP server leaves nothing.
Recorded(s) ==
    IF Enabled /\ s # "mcp" THEN Min({pending + 1, MaxPending}) ELSE pending

\* Why a receiver that does not take a call does not.
WhyNot == IF main = "stopping" THEN "stopped" ELSE "unreachable"

\* The batch that waits goes to the collector, one export at a time.  Without
\* an answer the exporter retries, and gives up after a minute.
SendToItself ==
    /\ ToItself
    /\ \/ /\ Is("grpc", Serving)
          /\ Authenticate(authMode, OwnHeaders) \in Tenants
          /\ inflight' = [inflight EXCEPT !["grpc"] = @ + 1]
          /\ own' = 1
          /\ UNCHANGED <<lost, mode, taken, main, todo, server, signalled, exit, cut, atSignal>>
       \/ /\ Is("grpc", Serving)
          /\ Authenticate(authMode, OwnHeaders) = Refused
          /\ lost' = lost \cup {"refused"}
          /\ UNCHANGED <<own, vars>>
       \/ /\ ~Is("grpc", Serving)
          /\ lost' = lost \cup {WhyNot}
          /\ UNCHANGED <<own, vars>>

SendElsewhere ==
    /\ ~ToItself
    /\ lost' \in {lost, lost \cup {"unreachable"}}
    /\ UNCHANGED <<own, vars>>

SendOwn ==
    /\ exit = "running"
    /\ pending > 0
    /\ own = 0
    /\ pending' = 0
    /\ SendToItself \/ SendElsewhere

\* The receiver stores it, if the tables are there, and traces the call.
OwnAnswered ==
    /\ own > 0
    /\ Finish("grpc")
    /\ own' = 0
    /\ pending' = Recorded("grpc")
    /\ \/ /\ config["clickhouse-url"] \in up
          /\ tables[config["clickhouse-url"]] = {Tables[i] : i \in DOMAIN Tables}
          /\ UNCHANGED lost
       \/ lost' = lost \cup {"database"}

FinishRequest(s) ==
    /\ inflight[s] > (IF s = "grpc" THEN own ELSE 0)
    /\ Finish(s)
    /\ pending' = Recorded(s)
    /\ UNCHANGED <<own, lost>>

\* What the end of main does to the telemetry that waits: obs.Shutdown, which is
\* deferred, sends it, after the servers were stopped if they were.
FlushEnds ==
    IF ~ToItself THEN {{}, {"unreachable"}}
    ELSE IF server["grpc"] # "up" THEN {{"stopped"}}
    ELSE IF Authenticate(authMode, OwnHeaders) = Refused THEN {{"refused"}}
    ELSE {{}, {"database"}}

\* The process ends, and its telemetry in one of these ways.
EndWith(end, ways) ==
    /\ end
    /\ pending' = 0 /\ own' = 0
    /\ \E why \in ways : lost' = IF pending + own > 0 THEN lost \cup why ELSE lost

InService(step) ==
    /\ stage = "running"
    /\ step
    /\ UNCHANGED <<deployment, stage, up, setup, service>>

MainGoesOn ==
    /\ \/ StartGRPC \/ StartMCP \/ Notify
       \/ \E s \in Servers : Launch(s) \/ BeginDrain(s) \/ EndDrain(s)
    /\ UNCHANGED telemetry

RunMain == MainGoesOn \/ EndWith(Return, FlushEnds) \/ EndWith(StartFails, FlushEnds)

Interrupted == (Signal /\ Handled /\ UNCHANGED telemetry) \/ EndWith(Signal /\ ~Handled, {{"killed"}})

Served(s) == FinishRequest(s) \/ (s = "grpc" /\ OwnAnswered)

DeploymentNext ==
    \/ SetupByHand
    \/ Script
    \/ Outage
    \/ StartService
    \/ InService(RunMain)
    \/ InService(Interrupted)
    \/ InService(SendOwn)
    \/ \E s \in Servers :
        InService(((Bind(s) \/ Accept(s)) /\ UNCHANGED telemetry) \/ Served(s))

DeploymentSpec == DeploymentInit /\ [][DeploymentNext]_deploymentVars

\* The table at the place i is asked for by the command that is run by hand.
CreatesByHand(i) == attempt["hand"].next = i /\ SetupByHand /\ attempt'["hand"].next = i + 1

\* The service runs on as in ServiceLifecycle.  Who sets the schema up by hand
\* tries again, and a statement that is asked for again and again is not
\* refused for ever; a server need never answer, and no service be started.
DeploymentFairSpec ==
    /\ DeploymentSpec
    /\ WF_deploymentVars(InService(RunMain))
    /\ \A s \in Servers :
        /\ WF_deploymentVars(InService(Bind(s) /\ UNCHANGED telemetry))
        /\ WF_deploymentVars(InService(Served(s)))
    /\ WF_deploymentVars(SetupByHand /\ attempt["hand"].next = 0)
    /\ \A i \in DOMAIN Tables : SF_deploymentVars(CreatesByHand(i))
-----------------------------------------------------------------------------
(* Properties. *)

Complete(url) == tables[url] = {Tables[i] : i \in DOMAIN Tables}

DeploymentTypeOK ==
    /\ deployment \in Deployments
    /\ stage \in {"ping", "wait", "setup", "by_hand", "loading", "running", "refused"}
    /\ up \subseteq Urls /\ reported \subseteq Urls
    /\ \A who \in DOMAIN attempt : attempt[who].next \in 0 .. Len(Tables) + 1
    /\ DOMAIN config = Settings
    /\ authMode \in Modes \cup {"none"}
    /\ pending \in 0 .. MaxPending /\ own \in {0, 1}
    /\ lost \subseteq {"refused", "unreachable", "stopped", "killed", "database"}

\* setup-schema that reports success left every table at the server it worked
\* on, whatever commands before it or beside it were cut short or refused.
SuccessMeansComplete == \A asked \in reported : Complete(SetupTarget(asked))

\* A setup that was cut short is made good by running it again: if the server
\* stays up and nobody starts the service meanwhile, all tables come to be.
RerunCompletes == <>[](Preparing /\ LocalUrl \in up) => <>Complete(LocalUrl)

\* CONFIG.md: a command line flag comes before the environment, and the
\* environment before the file.
TestModeAsked(d) ==
    \/ "test-mode" \in DOMAIN d.flags /\ d.flags["test-mode"]
    \/ IF "test-mode" \in DOMAIN d.env /\ d.env["test-mode"] # Garbage
       THEN d.env["test-mode"]
       ELSE d.config \in {"found", "named"} /\ "test-mode" \in DOMAIN d.file /\ d.file["test-mode"]

\* Whatever the three sources say and whichever user files are there: a
\* service takes a request without a key only if it was asked for test mode.
KeysUnlessTestMode ==
    (\E s \in Servers : server[s] = "up" /\ s # "mcp") /\ authMode # "keys"
        => TestModeAsked(deployment)

\* CONFIG.md: "The service can send its own telemetry to itself".  In test mode
\* it takes what it sends, from the first request to the last: what is lost is
\* lost to the database, or to the end of the service.
OwnTelemetryTaken ==
    stage = "running" /\ ToItself /\ config["test-mode"] /\ "grpc" \notin taken
        /\ config["observability-tenant-id"] \in Tenants
        => lost \subseteq {"database", "stopped", "killed"}

\* pkg/integration/integration_test.go: "ensure schemas are created: ./otel-oql
\* setup-schema --clickhouse-url=" and the server: the tables are where the
\* command was asked to create them.
SchemaWhereAsked == \A asked \in reported : Complete(asked)
=============================================================================
