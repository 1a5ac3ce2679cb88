-------------------------- MODULE ServiceLifecycle --------------------------
(***************************************************************************)
(* cmd/otel-oql/main.go: how the service starts its servers, waits for a   *)
(* signal and stops them, in each of its three modes.                      *)
(*                                                                         *)
(* The main goroutine starts the servers in order.  The gRPC receiver      *)
(* listens before its Start returns; the HTTP receiver and the query API   *)
(* bind their port in a goroutine, after Start has returned; the MCP       *)
(* server is served by the main goroutine itself.  Only then is the signal *)
(* handler installed.  When main returns, the process ends and takes every *)
(* request with it.                                                        *)
(***************************************************************************)
EXTENDS Naturals, Sequences

CONSTANT MaxInFlight   \* bound: requests a server handles at once

Servers == {"grpc", "http", "query", "mcp"}

ASSUME LifecycleAssumption == MaxInFlight \in Nat \ {0}

\* The order of Start calls, and of Stop calls.
Order == [all       |-> <<"grpc", "http", "query", "mcp">>,
          ingestion |-> <<"grpc", "http">>,
          query     |-> <<"query", "mcp">>]

VARIABLES
    mode,       \* all, ingestion or query
    taken,      \* the ports that another process holds
    main,       \* where the main goroutine is
    todo,       \* the servers it has yet to start or stop
    server,     \* the state of each server
    inflight,   \* the requests each server handles
    signalled,  \* SIGTERM or SIGINT was sent
    exit,       \* how the process ended
    cut,        \* history: the servers whose requests the end of the process cut off
    atSignal    \* history: where the main goroutine was when the signal came

vars == <<mode, taken, main, todo, server, inflight, signalled, exit, cut, atSignal>>

Init ==
    /\ mode \in DOMAIN Order
    /\ taken \in SUBSET Servers
    /\ main = "starting"
    /\ todo = Order[mode]
    /\ server = [s \in Servers |-> "off"]
    /\ inflight = [s \in Servers |-> 0]
    /\ signalled = FALSE
    /\ exit = "running"
    /\ cut = {}
    /\ atSignal = "none"

Exit(how) ==
    /\ exit' = how
    /\ main' = "ended"
    /\ cut' = {s \in Servers : inflight[s] > 0}
    /\ server' = [s \in Servers |-> "off"]
    /\ inflight' = [s \in Servers |-> 0]

Is(s, states) == exit = "running" /\ server[s] \in states

Becomes(s, state) == server' = [server EXCEPT ![s] = state]

NextIs(phase, s) == main = phase /\ todo # <<>> /\ Head(todo) = s

-----------------------------------------------------------------------------
(* Starting. *)

\* net.Listen in Start.
StartGRPC ==
    /\ NextIs("starting", "grpc")
    /\ "grpc" \notin taken
    /\ Becomes("grpc", "up")
    /\ todo' = Tail(todo)
    /\ UNCHANGED <<mode, taken, main, inflight, signalled, exit, cut, atSignal>>

\* go ListenAndServe(); Start returns at once.
Launch(s) ==
    /\ s \in {"http", "query"}
    /\ NextIs("starting", s)
    /\ Becomes(s, "launched")
    /\ todo' = Tail(todo)
    /\ UNCHANGED <<mode, taken, main, inflight, signalled, exit, cut, atSignal>>

\* The goroutine gets the port, or prints that it did not.
Bind(s) ==
    /\ Is(s, {"launched"})
    /\ Becomes(s, IF s \in taken THEN "failed" ELSE "up")
    /\ UNCHANGED <<mode, taken, main, todo, inflight, signalled, exit, cut, atSignal>>

\* ListenAndServe of the MCP server does not return while it serves.
StartMCP ==
    /\ NextIs("starting", "mcp")
    /\ "mcp" \notin taken
    /\ Becomes("mcp", "up")
    /\ main' = "serving"
    /\ todo' = Tail(todo)
    /\ UNCHANGED <<mode, taken, inflight, signalled, exit, cut, atSignal>>

\* mutant: the MCP server binds its port in a goroutine too
FatalPortsOfReceiver == {"grpc"}

\* The servers whose Start reports that the port is taken.
FatalPorts == {"grpc", "mcp"}

\* Start returns the error of the port; run returns it and main exits with 1.
StartFails ==
    /\ main = "starting"
    /\ todo # <<>>
    /\ Head(todo) \in FatalPorts \cap taken
    /\ Exit("error")
    /\ UNCHANGED <<mode, taken, todo, signalled, atSignal>>

Notify ==
    /\ main = "starting"
    /\ todo = <<>>
    /\ main' = "waiting"
    /\ UNCHANGED <<mode, taken, todo, server, inflight, signalled, exit, cut, atSignal>>

-----------------------------------------------------------------------------
(* Stopping. *)

\* mutant: the handler is never installed
NeverHandled == FALSE

\* signal.Notify has been called.
Handled == main = "waiting"

Signal ==
    /\ exit = "running"
    /\ ~signalled
    /\ signalled' = TRUE
    /\ atSignal' = main
    /\ \/ /\ Handled
          /\ main' = "stopping"
          /\ todo' = Order[mode]
          /\ UNCHANGED <<server, inflight, exit, cut>>
       \/ /\ ~Handled
          /\ Exit("killed")
          /\ UNCHANGED todo
    /\ UNCHANGED <<mode, taken>>

\* mutant: the listener stays open while the server drains
ServesWhileDraining == {"up", "draining"}

\* The states in which a server takes a request.
Serving == {"up"}

\* Stop: the listener is closed.  A goroutine that had not come to bind the
\* port finds the server closed.
BeginDrain(s) ==
    /\ NextIs("stopping", s)
    /\ server[s] # "draining"
    /\ Becomes(s, "draining")
    /\ UNCHANGED <<mode, taken, main, todo, inflight, signalled, exit, cut, atSignal>>

Drained(s) == inflight[s] = 0

\* GracefulStop and Shutdown return when no request is left; they have no
\* deadline.
EndDrain(s) ==
    /\ NextIs("stopping", s)
    /\ server[s] = "draining"
    /\ Drained(s)
    /\ Becomes(s, "stopped")
    /\ todo' = Tail(todo)
    /\ UNCHANGED <<mode, taken, main, inflight, signalled, exit, cut, atSignal>>

Return ==
    /\ main = "stopping"
    /\ todo = <<>>
    /\ Exit("ok")
    /\ UNCHANGED <<mode, taken, todo, signalled, atSignal>>

-----------------------------------------------------------------------------
(* Requests. *)

Accept(s) ==
    /\ Is(s, Serving)
    /\ inflight[s] < MaxInFlight
    /\ inflight' = [inflight EXCEPT ![s] = @ + 1]
    /\ UNCHANGED <<mode, taken, main, todo, server, signalled, exit, cut, atSignal>>

WithoutOne(n) == n - 1

Finish(s) ==
    /\ inflight[s] > 0
    /\ inflight' = [inflight EXCEPT ![s] = WithoutOne(@)]
    /\ UNCHANGED <<mode, taken, main, todo, server, signalled, exit, cut, atSignal>>

Main ==
    \/ StartGRPC
    \/ \E s \in Servers : Launch(s)
    \/ StartMCP
    \/ StartFails
    \/ Notify
    \/ \E s \in Servers : BeginDrain(s) \/ EndDrain(s)
    \/ Return

Next ==
    \/ Main
    \/ Signal
    \/ \E s \in Servers : Bind(s) \/ Accept(s) \/ Finish(s)

Spec == Init /\ [][Next]_vars

\* The main goroutine and the goroutines it launched run on; a request ends,
\* since every call it makes has a timeout.  Nobody has to send a signal.
FairSpec ==
    /\ Spec
    /\ WF_vars(Main)
    /\ \A s \in Servers : WF_vars(Bind(s)) /\ WF_vars(Finish(s))
-----------------------------------------------------------------------------
(* Properties. *)

TypeOK ==
    /\ mode \in DOMAIN Order
    /\ taken \subseteq Servers
    /\ main \in {"starting", "serving", "waiting", "stopping", "ended"}
    /\ todo \in Seq(Servers)
    /\ server \in [Servers -> {"off", "launched", "up", "failed", "draining", "stopped"}]
    /\ inflight \in [Servers -> 0 .. MaxInFlight]
    /\ signalled \in BOOLEAN
    /\ exit \in {"running", "ok", "error", "killed"}
    /\ cut \subseteq Servers
    /\ atSignal \in {"none", "starting", "serving", "waiting"}

\* Once a service that only ingests waits for its signal, no export is cut
\* off: the exporter of a call that was accepted gets its answer, through both
\* receivers, however the stop and the calls interleave.
IngestionDrains == mode = "ingestion" /\ atSignal \in {"none", "waiting"} => cut = {}

\* A service ends normally only after every server of its mode was stopped,
\* and then nothing is cut off.
NormalEndCutsNothing == exit = "ok" => cut = {} /\ atSignal = "waiting"

\* A service whose gRPC or MCP port is taken does not stay up without it: the
\* process ends, whatever the other servers already do.
TakenPortEndsService ==
    (\E i \in DOMAIN Order[mode] : Order[mode][i] \in {"grpc", "mcp"} \cap taken)
        ~> exit # "running"

\* A signal ends the process: the drains have no deadline, but no new request
\* joins those that are waited for.
SignalEndsProcess == signalled ~> exit # "running"

\* docs/development/CHECKPOINT.md: "Graceful Shutdown: Proper cleanup of all
\* services": a signal that comes when the service has settled (main has
\* nothing left to start) does not cut requests off.
GracefulShutdown == atSignal \in {"serving", "waiting"} => cut = {}
=============================================================================
