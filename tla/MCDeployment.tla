---------------------------- MODULE MCDeployment ----------------------------
(***************************************************************************)
(* Deployments for TLC: the settings are given by each source and by       *)
(* several at once, with and without the user files, and in the ways that  *)
(* keep a service from starting.                                           *)
(***************************************************************************)
EXTENDS Deployment, TLC

CONSTANTS t0, t1, alice, ka, nobody, local, remote, zero, garbage

MCTenants == {t0, t1}
MCUsersFile == << [user |-> alice, tenant |-> t1] >>
MCAPIKeysFile == << [user |-> alice, key |-> ka] >>

Nothing == <<>>
Given(s, v) == s :> v
On(s) == s :> TRUE
Off(s) == s :> FALSE
Observed == On("observability-enabled")
Test == On("test-mode")
Mode(m) == "mode" :> m
Good == "./users.csv" :> "good" @@ "./api-keys.csv" :> "good"

D(c, file, env, flags, paths) ==
    [config |-> c, file |-> file, env |-> env, flags |-> flags, paths |-> paths]

\* Services that start.
Starting ==
    { D("none", Nothing, Nothing, Test, Nothing),
      D("none", Nothing, Observed, Test, Good),
      D("found", Observed, Nothing, Nothing, Good),
      D("found", Test @@ Observed @@ Mode("all"), Off("test-mode"), Mode("ingestion"), Good),
      D("named", Test @@ Mode("ingestion"), Observed @@ Given("test-mode", garbage), Nothing, Good),
      D("unreadable", Test, Mode("query") @@ Observed, Nothing, Good),
      D("none", Nothing, Given("clickhouse-url", remote) @@ Mode("ingestion"), Test @@ Observed, Nothing),
      D("none", Nothing, Test @@ Observed, Given("otlp-http-port", 4317), Nothing),
      D("none", Nothing, Nothing, Test @@ Mode("query") @@ Given("mcp-port", 8080), Nothing),
      D("found", Given("otlp-grpc-port", 9000), Given("otlp-grpc-port", zero) @@ Mode("ingestion"),
        Observed @@ Test @@ Given("observability-tenant-id", "malformed"), Nothing),
      D("found", Mode("ingestion") @@ Given("users-file", "/etc/users"), Nothing,
        Given("mcp-port", 70000), Given("/etc/users", "good") @@ Good) }

\* Services that do not.
Failing ==
    { D("found", Test, Off("test-mode"), Nothing, Nothing),
      D("none", Nothing, Nothing, Nothing, "./users.csv" :> "good"),
      D("none", Nothing, Nothing, Test, "./users.csv" :> "bad" @@ Good),
      D("none", Nothing, Given("mcp-port", 70000), Test, Nothing),
      D("bad", Nothing, Nothing, Test, Nothing),
      D("named_unreadable", Nothing, Nothing, Test, Nothing),
      D("none", Nothing, Nothing, Test @@ Mode("both"), Nothing),
      D("none", Nothing, Nothing, Test @@ Given("pinot-url", remote), Nothing) }

MCDeployments == Starting \cup Failing
=============================================================================
