-------------------------- MODULE DeploymentProofs --------------------------
(***************************************************************************)
(* The life of the service and its deployments.  For any number of         *)
(* requests and any ports taken, an orderly stop leaves nothing undone;    *)
(* for any deployments, ClickHouse servers and bounds, what setup-schema   *)
(* reports is so, no service takes a request without a key that was not    *)
(* asked for test mode, and one that is its own collector takes what it    *)
(* sends.                                                                  *)
(***************************************************************************)
EXTENDS Deployment, TLAPS

Within(s, seq) == \E i \in DOMAIN seq : seq[i] = s

\* A server is started, or stopped, once.
Once(seq) == \A i, j \in DOMAIN seq : seq[i] = seq[j] => i = j

\* Taking the first server off leaves the others.
LEMMA TailOfTodo ==
    ASSUME NEW seq \in Seq(Servers), seq # <<>>, Once(seq)
    PROVE  /\ Tail(seq) \in Seq(Servers)
           /\ Once(Tail(seq))
           /\ \A s : Within(s, Tail(seq)) <=> Within(s, seq) /\ s # Head(seq)
           /\ \A i \in DOMAIN Tail(seq) : i + 1 \in DOMAIN seq /\ Tail(seq)[i] = seq[i + 1]
           /\ Within(Head(seq), seq)
<1>1. /\ Len(seq) \in Nat \ {0}
      /\ Tail(seq) \in Seq(Servers)
      /\ Len(Tail(seq)) = Len(seq) - 1
      /\ DOMAIN seq = 1 .. Len(seq)
      /\ DOMAIN Tail(seq) = 1 .. Len(seq) - 1
      /\ Head(seq) = seq[1]
  OBVIOUS
<1>2. \A i \in DOMAIN Tail(seq) : i + 1 \in DOMAIN seq /\ Tail(seq)[i] = seq[i + 1]
  BY <1>1
<1>3. Once(Tail(seq))
  BY <1>1, <1>2 DEF Once
<1>4. ASSUME NEW s PROVE Within(s, Tail(seq)) <=> Within(s, seq) /\ s # Head(seq)
  <2>1. ASSUME NEW i \in DOMAIN Tail(seq), Tail(seq)[i] = s
        PROVE  Within(s, seq) /\ s # Head(seq)
    BY <1>1, <1>2, <2>1 DEF Within, Once
  <2>2. ASSUME NEW i \in DOMAIN seq, seq[i] = s, s # Head(seq)
        PROVE  Within(s, Tail(seq))
    <3>1. i - 1 \in DOMAIN Tail(seq) /\ Tail(seq)[i - 1] = s
      BY <1>1, <1>2, <2>2
    <3> QED BY <3>1 DEF Within
  <2> QED BY <2>1, <2>2 DEF Within
<1> QED BY <1>1, <1>2, <1>3, <1>4 DEF Within

-----------------------------------------------------------------------------
(* The inductive invariant of the service, also of one that sends its own    *)
(* telemetry to itself beside what its clients send.                         *)

Typed ==
    /\ mode \in DOMAIN Order
    /\ taken \subseteq Servers
    /\ main \in {"starting", "serving", "waiting", "stopping", "ended"}
    /\ todo \in Seq(Servers)
    /\ server \in [Servers -> {"off", "launched", "up", "failed", "draining", "stopped"}]
    /\ inflight \in [Servers -> Nat]
    /\ signalled \in BOOLEAN
    /\ exit \in {"running", "ok", "error", "killed"}
    /\ cut \subseteq Servers
    /\ atSignal \in {"none", "starting", "serving", "waiting"}

\* What clients send stays within the bound.
Bounded == \A s \in Servers : inflight[s] \in 0 .. MaxInFlight

\* Only a server that serves or drains has requests.
Unburdened == \A s \in Servers : server[s] \notin {"up", "draining"} => inflight[s] = 0

\* todo holds servers of the mode, each once; the gRPC receiver is the first.
Todo ==
    /\ Once(todo)
    /\ \A s \in Servers : Within(s, todo) => Within(s, Order[mode])
    /\ \A i \in DOMAIN todo : todo[i] = "grpc" => i = 1

\* What is still to be started does not run, and until the gRPC receiver
\* listens nothing does; a server of another mode never does.
Started ==
    /\ \A s \in Servers : ~Within(s, Order[mode]) => server[s] = "off"
    /\ main = "starting" => \A s \in Servers : Within(s, todo) => server[s] = "off"
    /\ main = "starting" /\ Within("grpc", todo) => \A s \in Servers : server[s] = "off"
    /\ main = "serving" => mode # "ingestion"

\* What is no longer to be stopped is stopped.
Stopped ==
    main = "stopping" =>
        \A s \in Servers : Within(s, Order[mode]) /\ ~Within(s, todo) => server[s] = "stopped"

\* A stop follows a signal that was waited for.
Signalled ==
    /\ main = "stopping" => signalled /\ atSignal = "waiting"
    /\ ~signalled => atSignal = "none"
    /\ exit # "running" <=> main = "ended"
    /\ exit = "running" => cut = {}

IInv ==
    /\ Typed
    /\ Unburdened
    /\ Todo
    /\ Started
    /\ Stopped
    /\ Signalled
    /\ IngestionDrains
    /\ NormalEndCutsNothing

LEMMA Orders ==
    ASSUME NEW m \in DOMAIN Order
    PROVE  /\ Order[m] \in Seq(Servers)
           /\ Once(Order[m])
           /\ \A i \in DOMAIN Order[m] : Order[m][i] = "grpc" => i = 1
           /\ m = "ingestion" => ~Within("mcp", Order[m])
<1>1. CASE m = "all"
  BY <1>1 DEF Order, Once, Servers, Within
<1>2. CASE m = "ingestion"
  BY <1>2 DEF Order, Once, Servers, Within
<1>3. CASE m = "query"
  BY <1>3 DEF Order, Once, Servers, Within
<1> QED BY <1>1, <1>2, <1>3 DEF Order

LEMMA InitIInv == Init => IInv
<1> SUFFICES ASSUME Init PROVE IInv
  OBVIOUS
<1>1. mode \in DOMAIN Order /\ todo = Order[mode]
  BY DEF Init
<1>2. Typed
  <2>1. todo \in Seq(Servers)
    BY <1>1, Orders
  <2> QED BY <2>1 DEF Init, Typed
<1>3. Todo
  BY <1>1, Orders DEF Todo
<1>4. Unburdened /\ Started /\ Stopped /\ Signalled
  BY DEF Init, Unburdened, Started, Stopped, Signalled
<1> QED BY <1>2, <1>3, <1>4 DEF Init, IInv, IngestionDrains, NormalEndCutsNothing

\* A step that takes the first server off todo.
LEMMA TodoTail ==
    ASSUME Typed, Todo, todo # <<>>, todo' = Tail(todo), mode' = mode
    PROVE  Todo' /\ todo' \in Seq(Servers)
<1>1. todo \in Seq(Servers) /\ Once(todo)
  BY DEF Typed, Todo
<1>2. \A i \in DOMAIN todo' : todo'[i] = "grpc" => i = 1
  <2> SUFFICES ASSUME NEW i \in DOMAIN todo', todo'[i] = "grpc" PROVE FALSE
    OBVIOUS
  <2>1. i + 1 \in DOMAIN todo /\ todo[i + 1] = "grpc"
    BY <1>1, TailOfTodo
  <2>2. i \in Nat \ {0}
    BY <1>1, TailOfTodo
  <2> QED BY <2>1, <2>2 DEF Todo
<1> QED BY <1>1, <1>2, TailOfTodo DEF Todo

LEMMA StartIInv ==
    ASSUME IInv, NEW s \in Servers, StartGRPC \/ Launch(s) \/ StartMCP
    PROVE  IInv'
<1> DEFINE h == Head(todo)
<1>1. /\ main = "starting" /\ todo # <<>> /\ todo' = Tail(todo)
      /\ h \in Servers
      /\ \E state \in {"up", "launched"} : server' = [server EXCEPT ![h] = state]
      /\ main' \in {"starting", "serving"}
      /\ main' = "serving" => h = "mcp"
      /\ UNCHANGED <<mode, taken, inflight, signalled, exit, cut, atSignal>>
  BY DEF StartGRPC, Launch, StartMCP, NextIs, Becomes, Servers
<1>2. /\ Once(todo) /\ todo \in Seq(Servers)
      /\ Within(h, todo)
      /\ \A t \in Servers : Within(t, todo') <=> Within(t, todo) /\ t # h
      /\ Todo' /\ todo' \in Seq(Servers)
  BY <1>1, TailOfTodo, TodoTail DEF IInv, Typed, Todo
<1> HIDE DEF h
<1>3. Typed'
  BY <1>1, <1>2 DEF IInv, Typed
<1>4. Unburdened'
  <2>1. server[h] = "off"
    BY <1>1, <1>2 DEF IInv, Started
  <2> QED BY <1>1, <2>1 DEF IInv, Unburdened, Typed
<1>5. Started'
  <2>1. Within(h, Order[mode])
    BY <1>1, <1>2 DEF IInv, Todo
  <2>2. ~Within("grpc", todo')
    <3> SUFFICES ASSUME Within("grpc", todo) PROVE h = "grpc"
      BY <1>2 DEF Servers
    <3> QED BY <1>1, <1>2 DEF IInv, Todo, Within, h
  <2>3. main' = "serving" => mode # "ingestion"
    BY <1>1, <2>1, Orders DEF IInv, Typed
  <2> QED BY <1>1, <1>2, <2>1, <2>2, <2>3 DEF IInv, Started, Typed
<1>6. Stopped' /\ Signalled' /\ IngestionDrains' /\ NormalEndCutsNothing'
  BY <1>1 DEF IInv, Stopped, Signalled, IngestionDrains, NormalEndCutsNothing
<1> QED BY <1>2, <1>3, <1>4, <1>5, <1>6 DEF IInv

\* A receiver whose port is taken is the first server of its mode.
LEMMA StartFailsIInv ==
    ASSUME IInv, StartFails
    PROVE  IInv'
<1>1. /\ main = "starting" /\ todo # <<>> /\ Head(todo) \in {"grpc", "mcp"}
      /\ exit' = "error" /\ main' = "ended"
      /\ cut' = {s \in Servers : inflight[s] > 0}
      /\ server' = [s \in Servers |-> "off"]
      /\ inflight' = [s \in Servers |-> 0]
      /\ UNCHANGED <<mode, taken, todo, signalled, atSignal>>
  BY DEF StartFails, Exit, FatalPorts
<1>2. Within(Head(todo), todo)
  BY <1>1, TailOfTodo DEF IInv, Typed, Todo
<1>3. mode = "ingestion" => cut' = {}
  <2> SUFFICES ASSUME mode = "ingestion" PROVE cut' = {}
    OBVIOUS
  <2>1. Head(todo) = "grpc"
    BY <1>1, <1>2, Orders DEF IInv, Todo, Typed, Servers
  <2>2. \A s \in Servers : inflight[s] = 0
    BY <1>1, <1>2, <2>1 DEF IInv, Started, Unburdened
  <2> QED BY <1>1, <2>2
<1>4. Typed' /\ Unburdened' /\ Started' /\ Stopped'
  BY <1>1 DEF IInv, Typed, Unburdened, Started, Stopped
<1>5. Todo' /\ Signalled'
  BY <1>1 DEF IInv, Todo, Signalled
<1>6. IngestionDrains' /\ NormalEndCutsNothing'
  BY <1>1, <1>3 DEF IngestionDrains, NormalEndCutsNothing
<1> QED BY <1>4, <1>5, <1>6 DEF IInv

LEMMA NotifyIInv == ASSUME IInv, Notify PROVE IInv'
BY DEF IInv, Notify, Typed, Unburdened, Todo, Started, Stopped, Signalled, IngestionDrains,
       NormalEndCutsNothing

LEMMA SignalIInv ==
    ASSUME IInv, Signal
    PROVE  IInv'
<1>1. /\ exit = "running" /\ ~signalled /\ signalled' = TRUE /\ atSignal' = main
      /\ UNCHANGED <<mode, taken>>
      /\ main \in {"starting", "serving", "waiting"}
      /\ mode \in DOMAIN Order
  BY DEF Signal, IInv, Typed, Signalled
<1>2. CASE Handled
  <2>1. /\ main = "waiting" /\ main' = "stopping" /\ todo' = Order[mode]
        /\ UNCHANGED <<server, inflight, exit, cut>>
    BY <1>2 DEF Signal, Handled
  <2>2. Todo' /\ todo' \in Seq(Servers)
    BY <1>1, <2>1, Orders DEF Todo
  <2>3. Typed' /\ Unburdened' /\ Started' /\ Stopped' /\ Signalled'
    BY <1>1, <2>1, <2>2 DEF IInv, Typed, Unburdened, Started, Stopped, Signalled
  <2>4. IngestionDrains' /\ NormalEndCutsNothing'
    BY <1>1, <2>1 DEF IInv, Signalled, IngestionDrains, NormalEndCutsNothing
  <2> QED BY <2>2, <2>3, <2>4 DEF IInv
<1>3. CASE ~Handled
  <2>1. /\ main \in {"starting", "serving"}
        /\ exit' = "killed" /\ main' = "ended" /\ cut' \subseteq Servers
        /\ server' = [s \in Servers |-> "off"]
        /\ inflight' = [s \in Servers |-> 0]
        /\ UNCHANGED todo
    BY <1>1, <1>3 DEF Signal, Handled, Exit
  <2>2. Typed' /\ Unburdened' /\ Todo' /\ Started' /\ Stopped' /\ Signalled'
    BY <1>1, <2>1 DEF IInv, Typed, Unburdened, Todo, Started, Stopped, Signalled
  <2>3. IngestionDrains' /\ NormalEndCutsNothing'
    BY <1>1, <2>1 DEF IngestionDrains, NormalEndCutsNothing
  <2> QED BY <2>2, <2>3 DEF IInv
<1> QED BY <1>2, <1>3

LEMMA DrainIInv ==
    ASSUME IInv, NEW s \in Servers, BeginDrain(s) \/ EndDrain(s)
    PROVE  IInv'
<1>1. /\ main = "stopping" /\ todo # <<>> /\ Head(todo) = s
      /\ UNCHANGED <<mode, taken, main, inflight, signalled, exit, cut, atSignal>>
  BY DEF BeginDrain, EndDrain, NextIs
<1>2. /\ todo \in Seq(Servers) /\ Once(todo) /\ Within(s, todo)
      /\ Within(s, Order[mode])
  BY <1>1, TailOfTodo DEF IInv, Typed, Todo
<1>3. CASE BeginDrain(s)
  <2>1. todo' = todo /\ server' = [server EXCEPT ![s] = "draining"]
    BY <1>3 DEF BeginDrain, Becomes
  <2>2. Typed' /\ Unburdened' /\ Todo' /\ Started'
    BY <1>1, <1>2, <2>1 DEF IInv, Typed, Unburdened, Todo, Started
  <2>3. Stopped'
    BY <1>1, <1>2, <2>1 DEF IInv, Typed, Stopped
  <2>4. Signalled' /\ IngestionDrains' /\ NormalEndCutsNothing'
    BY <1>1 DEF IInv, Signalled, IngestionDrains, NormalEndCutsNothing
  <2> QED BY <2>2, <2>3, <2>4 DEF IInv
<1>4. CASE EndDrain(s)
  <2>1. /\ todo' = Tail(todo) /\ server' = [server EXCEPT ![s] = "stopped"]
        /\ inflight[s] = 0
    BY <1>4 DEF EndDrain, Becomes, Drained
  <2>2. Todo' /\ todo' \in Seq(Servers)
    BY <1>1, <2>1, TodoTail DEF IInv
  <2>3. \A t \in Servers : Within(t, todo') <=> Within(t, todo) /\ t # s
    BY <1>1, <1>2, <2>1, TailOfTodo
  <2>4. Typed' /\ Unburdened' /\ Started'
    BY <1>1, <1>2, <2>1, <2>2 DEF IInv, Typed, Unburdened, Started
  <2>5. Stopped'
    BY <1>1, <1>2, <2>1, <2>3 DEF IInv, Typed, Stopped
  <2>6. Signalled' /\ IngestionDrains' /\ NormalEndCutsNothing'
    BY <1>1 DEF IInv, Signalled, IngestionDrains, NormalEndCutsNothing
  <2> QED BY <2>2, <2>4, <2>5, <2>6 DEF IInv
<1> QED BY <1>3, <1>4

LEMMA ReturnIInv ==
    ASSUME IInv, Return
    PROVE  IInv'
<1>1. /\ main = "stopping" /\ todo = <<>>
      /\ exit' = "ok" /\ main' = "ended"
      /\ cut' = {s \in Servers : inflight[s] > 0}
      /\ server' = [s \in Servers |-> "off"]
      /\ inflight' = [s \in Servers |-> 0]
      /\ UNCHANGED <<mode, taken, todo, signalled, atSignal>>
  BY DEF Return, Exit
<1>2. ASSUME NEW s \in Servers PROVE inflight[s] = 0
  <2>1. ~Within(s, todo)
    BY <1>1 DEF Within
  <2>2. server[s] \in {"off", "stopped"}
    BY <1>1, <2>1 DEF IInv, Started, Stopped
  <2> QED BY <2>2 DEF IInv, Unburdened
<1>3. cut' = {} /\ atSignal = "waiting"
  BY <1>1, <1>2 DEF IInv, Signalled
<1>4. Typed' /\ Unburdened' /\ Todo' /\ Started' /\ Stopped' /\ Signalled'
  BY <1>1, <1>3 DEF IInv, Typed, Unburdened, Todo, Started, Stopped, Signalled
<1> QED BY <1>1, <1>3, <1>4 DEF IInv, IngestionDrains, NormalEndCutsNothing

\* A server that serves takes a request.
LEMMA TakenIInv ==
    ASSUME IInv, NEW s \in Servers, Is(s, Serving),
           inflight' = [inflight EXCEPT ![s] = @ + 1],
           UNCHANGED <<mode, taken, main, todo, server, signalled, exit, cut, atSignal>>
    PROVE  IInv'
<1>1. Typed' /\ Unburdened'
  BY DEF Is, Serving, IInv, Typed, Unburdened
<1> QED BY <1>1 DEF IInv, Todo, Started, Stopped, Signalled, IngestionDrains, NormalEndCutsNothing

LEMMA ServerIInv ==
    ASSUME IInv, NEW s \in Servers, Bind(s) \/ Accept(s) \/ Finish(s)
    PROVE  IInv'
<1>1. UNCHANGED <<mode, taken, main, todo, signalled, exit, cut, atSignal>>
  BY DEF Bind, Accept, Finish
<1>2. /\ Typed'
      /\ Unburdened'
      /\ server' = server \/ (server[s] = "launched" /\ \E state \in {"up", "failed"} :
                                 server' = [server EXCEPT ![s] = state])
  <2>1. CASE Bind(s)
    <3>1. PICK state \in {"up", "failed"} :
             server[s] = "launched" /\ server' = [server EXCEPT ![s] = state] /\ inflight' = inflight
      BY <2>1 DEF Bind, Is, Becomes
    <3> QED BY <1>1, <3>1 DEF IInv, Typed, Unburdened
  <2>2. CASE Accept(s)
    BY <1>1, <2>2 DEF Accept, Is, Serving, IInv, Typed, Unburdened
  <2>3. CASE Finish(s)
    BY <1>1, <2>3 DEF Finish, WithoutOne, IInv, Typed, Unburdened
  <2> QED BY <2>1, <2>2, <2>3
<1>3. Started' /\ Stopped'
  BY <1>1, <1>2 DEF IInv, Typed, Started, Stopped
<1>4. Todo' /\ Signalled' /\ IngestionDrains' /\ NormalEndCutsNothing'
  BY <1>1 DEF IInv, Todo, Signalled, IngestionDrains, NormalEndCutsNothing
<1> QED BY <1>2, <1>3, <1>4 DEF IInv

\* A request joins only what is below the bound.
LEMMA NextBounded ==
    ASSUME IInv, Bounded, [Next]_vars
    PROVE  Bounded'
<1> USE DEF IInv, Typed, Bounded
<1>1. CASE UNCHANGED inflight
  BY <1>1
<1>2. CASE inflight' = [s \in Servers |-> 0]
  BY <1>2, LifecycleAssumption
<1>3. ASSUME NEW s \in Servers, Accept(s) \/ Finish(s) PROVE Bounded'
  BY <1>3, LifecycleAssumption DEF Accept, Finish, WithoutOne
<1> QED BY <1>1, <1>2, <1>3 DEF Next, Main, StartGRPC, Launch, StartMCP, StartFails, Notify, BeginDrain,
             EndDrain, Return, Exit, Signal, Bind, vars

LEMMA NextIInv == IInv /\ [Next]_vars => IInv'
<1> SUFFICES ASSUME IInv, [Next]_vars PROVE IInv'
  OBVIOUS
<1>1. CASE StartGRPC \/ StartMCP \/ \E s \in Servers : Launch(s)
  BY <1>1, StartIInv DEF Servers
<1>2. CASE \E s \in Servers : BeginDrain(s) \/ EndDrain(s)
  BY <1>2, DrainIInv
<1>3. CASE \E s \in Servers : Bind(s) \/ Accept(s) \/ Finish(s)
  BY <1>3, ServerIInv
<1>4. CASE UNCHANGED vars
  BY <1>4 DEF vars, IInv, Typed, Unburdened, Todo, Started, Stopped, Signalled,
              IngestionDrains, NormalEndCutsNothing
<1> QED BY <1>1, <1>2, <1>3, <1>4, StartFailsIInv, NotifyIInv, SignalIInv, ReturnIInv
        DEF Next, Main

LEMMA Invariance == Spec => [](IInv /\ Bounded)
<1>1. Init => Bounded
  BY LifecycleAssumption DEF Init, Bounded
<1> QED BY <1>1, InitIInv, NextIInv, NextBounded, PTL DEF Spec

-----------------------------------------------------------------------------
(* The theorems of the process. *)


\* The state of the process keeps its type; no server has more or fewer
\* requests than it accepted.
THEOREM TypeCorrect == Spec => []TypeOK
<1>1. IInv /\ Bounded => TypeOK
  BY DEF IInv, Typed, Bounded, TypeOK
<1> QED BY <1>1, Invariance, PTL

\* runIngestionMode: once the signal is waited for, no export is cut off.
THEOREM NoExportCutOff == Spec => []IngestionDrains
<1>1. IInv => IngestionDrains
  BY DEF IInv
<1> QED BY <1>1, Invariance, PTL

\* A normal end follows a signal that was waited for and the drain of every
\* server of the mode.
THEOREM NormalEndDrained == Spec => []NormalEndCutsNothing
<1>1. IInv => NormalEndCutsNothing
  BY DEF IInv
<1> QED BY <1>1, Invariance, PTL

-----------------------------------------------------------------------------
(* The tables. *)

Whos == {"script", "hand"}
TableNames == {"otel_spans", "otel_metrics", "otel_logs"}

LEMMA TheTables ==
    /\ DOMAIN Tables = 1 .. 3
    /\ Len(Tables) = 3
    /\ {Tables[i] : i \in DOMAIN Tables} = TableNames
    /\ \A i \in 1 .. 3 : Tables[i] \in TableNames
  BY DEF Tables, TableNames

-----------------------------------------------------------------------------
(* The setup.  A command that has come to its n-th table left the ones       *)
(* before it at its server, since the first refusal ends it and nothing      *)
(* drops a table.                                                            *)

Run == [asked : Urls, at : Urls, next : 0 .. 4]

SetupType ==
    /\ tables \in [Urls -> SUBSET TableNames]
    /\ attempt \in [Whos -> Run]
    /\ deployment \in Deployments

LeftBehind(who) ==
    \A i \in 1 .. 3 : i < attempt[who].next => Tables[i] \in tables[attempt[who].at]

AtTarget(who) == attempt[who].next > 0 => attempt[who].at = SetupTarget(attempt[who].asked)

Reported == \A asked \in reported : tables[SetupTarget(asked)] = TableNames

SetupInv ==
    /\ SetupType
    /\ \A who \in Whos : LeftBehind(who) /\ AtTarget(who)
    /\ Reported

LEMMA SetupInit ==
    ASSUME DeploymentInit PROVE SetupInv
<1>1. LocalUrl \in Urls
  BY DeploymentAssumption
<1>2. Idle \in Run /\ Idle.next = 0
  BY <1>1 DEF Idle, Run
<1>3. /\ attempt = [who \in Whos |-> Idle]
      /\ tables = [url \in Urls |-> {}]
      /\ reported = {}
      /\ deployment \in Deployments
  BY DEF DeploymentInit, Whos
<1>4. SetupType
  BY <1>2, <1>3 DEF SetupType
<1>5. ASSUME NEW who \in Whos PROVE LeftBehind(who) /\ AtTarget(who)
  <2>1. attempt[who].next = 0
    BY <1>2, <1>3
  <2> QED BY <2>1 DEF LeftBehind, AtTarget
<1> QED BY <1>3, <1>4, <1>5 DEF SetupInv, Reported

\* What runs a command does to the tables and the commands.
Setups(who) ==
    \/ \E url \in Urls : RunSetup(who, url)
    \/ CreateTable(who)
    \/ CreateFails(who)
    \/ Interrupt(who)
    \/ ReportSuccess(who)

LEMMA SetupStep ==
    ASSUME SetupInv, NEW who \in Whos, Setups(who), deployment' = deployment
    PROVE  SetupInv'
<1> USE DEF SetupInv
<1>0. /\ LocalUrl \in Urls
      /\ Idle \in Run /\ Idle.next = 0
      /\ attempt[who] \in Run
      /\ \A w \in Whos : attempt[w] \in Run
  BY DeploymentAssumption DEF Idle, Run, SetupType
<1>1. CASE \E url \in Urls : RunSetup(who, url)
  <2>1. PICK url \in Urls : RunSetup(who, url)
    BY <1>1
  <2> DEFINE new == [asked |-> url, at |-> SetupTarget(url), next |-> 1]
  <2>2. /\ attempt' = [attempt EXCEPT ![who] = new]
        /\ tables' = tables /\ reported' = reported
    BY <2>1 DEF RunSetup
  <2>3. new \in Run /\ new.next = 1 /\ new.at = SetupTarget(new.asked)
    BY <1>0 DEF Run, SetupTarget
  <2> HIDE DEF new
  <2>4. SetupType'
    BY <2>2, <2>3 DEF SetupType
  <2>5. ASSUME NEW w \in Whos PROVE LeftBehind(w)' /\ AtTarget(w)'
    <3>1. CASE w = who
      <4>1. attempt'[w] = new
        BY <2>2, <3>1 DEF SetupType
      <4> QED BY <4>1, <2>3 DEF LeftBehind, AtTarget
    <3>2. CASE w # who
      <4>1. attempt'[w] = attempt[w]
        BY <2>2, <3>2 DEF SetupType
      <4> QED BY <4>1, <2>2 DEF LeftBehind, AtTarget
    <3> QED BY <3>1, <3>2
  <2>6. Reported'
    BY <2>2 DEF Reported
  <2> QED BY <2>4, <2>5, <2>6
<1>2. CASE CreateTable(who)
  <2> DEFINE at == attempt[who].at
             next == attempt[who].next
  <2>1. /\ next \in 1 .. 3
        /\ tables' = [tables EXCEPT ![at] = @ \cup {Tables[next]}]
        /\ attempt' = [attempt EXCEPT ![who].next = @ + 1]
        /\ reported' = reported
    BY <1>2, TheTables DEF CreateTable
  <2>2. at \in Urls
    BY <1>0 DEF Run
  <2>3. /\ Tables[next] \in TableNames
        /\ tables' \in [Urls -> SUBSET TableNames]
        /\ \A url \in Urls : tables[url] \subseteq tables'[url]
        /\ Tables[next] \in tables'[at]
    BY <2>1, <2>2, TheTables DEF SetupType
  <2>4. /\ attempt'[who] = [attempt[who] EXCEPT !.next = @ + 1]
        /\ \A w \in Whos : w # who => attempt'[w] = attempt[w]
        /\ attempt' \in [Whos -> Run]
    BY <2>1, <1>0 DEF SetupType, Run
  <2>5. /\ attempt'[who].next = next + 1
        /\ attempt'[who].at = at
        /\ attempt'[who].asked = attempt[who].asked
    BY <2>4, <1>0 DEF Run
  <2>6. SetupType'
    BY <2>3, <2>4 DEF SetupType
  <2>7. ASSUME NEW w \in Whos PROVE LeftBehind(w)' /\ AtTarget(w)'
    <3>1. CASE w = who
      <4>1. \A i \in 1 .. 3 : i < next + 1 => i < next \/ i = next
        BY <2>1
      <4>2. LeftBehind(w)'
        BY <3>1, <4>1, <2>2, <2>3, <2>5 DEF LeftBehind
      <4>3. AtTarget(w)'
        BY <3>1, <2>1, <2>5 DEF AtTarget, SetupTarget
      <4> QED BY <4>2, <4>3
    <3>2. CASE w # who
      <4>1. attempt'[w] = attempt[w] /\ attempt[w].at \in Urls
        BY <3>2, <2>4, <1>0 DEF Run
      <4> QED BY <4>1, <2>3 DEF LeftBehind, AtTarget
    <3> QED BY <3>1, <3>2
  <2>8. Reported'
    BY <1>0, <2>1, <2>3 DEF Reported, SetupTarget
  <2> QED BY <2>6, <2>7, <2>8
<1>3. CASE attempt' = [attempt EXCEPT ![who] = Idle] /\ tables' = tables /\ Reported'
  <2>1. SetupType'
    BY <1>0, <1>3 DEF SetupType
  <2>2. ASSUME NEW w \in Whos PROVE LeftBehind(w)' /\ AtTarget(w)'
    <3>1. attempt'[w] = Idle \/ attempt'[w] = attempt[w]
      BY <1>3 DEF SetupType
    <3> QED BY <3>1, <1>0, <1>3 DEF LeftBehind, AtTarget
  <2> QED BY <1>3, <2>1, <2>2
<1>4. CASE CreateFails(who)
  <2>1. Reported'
    BY <1>4 DEF CreateFails, Reported
  <2> QED BY <2>1, <1>3, <1>4 DEF CreateFails, Stop
<1>5. CASE Interrupt(who)
  <2>1. Reported'
    BY <1>5 DEF Interrupt, Reported
  <2> QED BY <2>1, <1>3, <1>5 DEF Interrupt
<1>6. CASE ReportSuccess(who)
  <2>1. /\ attempt[who].next = 4
        /\ reported' = reported \cup {attempt[who].asked}
        /\ attempt' = [attempt EXCEPT ![who] = Idle]
        /\ tables' = tables
    BY <1>6, TheTables DEF ReportSuccess
  <2>2. attempt[who].at \in Urls /\ tables[attempt[who].at] \subseteq TableNames
    BY <1>0 DEF SetupType, Run
  <2>3. \A i \in 1 .. 3 : Tables[i] \in tables[attempt[who].at]
    BY <2>1 DEF LeftBehind
  <2>4. TableNames \subseteq tables[attempt[who].at]
    BY <2>3, TheTables
  <2>5. tables[SetupTarget(attempt[who].asked)] = TableNames
    <3>1. AtTarget(who)
      OBVIOUS
    <3>2. attempt[who].at = SetupTarget(attempt[who].asked)
      BY <2>1, <3>1 DEF AtTarget
    <3> QED BY <2>2, <2>4, <3>2
  <2>6. Reported'
    BY <2>1, <2>5 DEF Reported, SetupTarget
  <2> QED BY <2>1, <2>6, <1>3
<1> QED BY <1>1, <1>2, <1>4, <1>5, <1>6 DEF Setups

LEMMA SetupNext ==
    ASSUME SetupInv, [DeploymentNext]_deploymentVars
    PROVE  SetupInv'
<1>1. CASE UNCHANGED <<setup, deployment>>
  BY <1>1 DEF setup, SetupInv, SetupType, LeftBehind, AtTarget, Reported
<1>2. CASE SetupByHand
  BY <1>2, SetupStep DEF SetupByHand, Setups, Whos
<1>3. CASE Script
  <2>0. deployment' = deployment
    BY <1>3 DEF Script
  <2>1. CASE Ping
    BY <2>0, <2>1, <1>1 DEF Ping
  <2>2. CASE WaitForServer
    <3>1. ScriptUrl \in Urls
      BY DeploymentAssumption DEF ScriptUrl, SetupInv, SetupType
    <3>2. CASE RunSetup("script", ScriptUrl)
      BY <2>0, <3>1, <3>2, SetupStep DEF Setups, Whos
    <3> QED BY <2>0, <2>2, <3>2, <1>1 DEF WaitForServer
  <2>3. CASE ScriptSetup
    BY <2>0, <2>3, SetupStep DEF ScriptSetup, Setups, Whos
  <2>4. CASE StartByHand
    BY <2>0, <2>4, <1>1 DEF StartByHand
  <2> QED BY <1>3, <2>1, <2>2, <2>3, <2>4 DEF Script
<1>4. CASE Outage
  BY <1>4, <1>1 DEF Outage
<1>5. CASE StartService
  BY <1>5 DEF StartService, SetupInv, SetupType, LeftBehind, AtTarget, Reported
<1>6. CASE UNCHANGED <<deployment, stage, up, setup, service>>
  BY <1>6, <1>1
<1>7. CASE UNCHANGED deploymentVars
  BY <1>7, <1>1 DEF deploymentVars
<1> QED BY <1>2, <1>3, <1>4, <1>5, <1>6, <1>7 DEF DeploymentNext, InService

\* A setup-schema that reports success left every table at the server it
\* worked on, for any servers and whatever else was tried before and beside it.
THEOREM SetupReports == DeploymentSpec => []SuccessMeansComplete
<1>1. DeploymentInit => SetupInv
  BY SetupInit
<1>2. SetupInv /\ [DeploymentNext]_deploymentVars => SetupInv'
  BY SetupNext
<1>3. SetupInv => SuccessMeansComplete
  BY TheTables DEF SetupInv, Reported, SuccessMeansComplete, Complete
<1> QED BY <1>1, <1>2, <1>3, PTL DEF DeploymentSpec

-----------------------------------------------------------------------------
(* The middleware.  It is built from the configuration in effect before the  *)
(* first server starts, and neither changes while the service runs.          *)

\* Test mode is in effect only if a source that counts says so.
LEMMA TestModeInEffect ==
    ASSUME NEW d \in Deployments, Load(d)["test-mode"] # FALSE
    PROVE  TestModeAsked(d)
<1>1. "test-mode" \in Flags /\ "test-mode" \in Settings
  BY DEF Flags, Settings
<1>2. Unset("test-mode") = FALSE /\ Default["test-mode"] = FALSE
  BY <1>1 DEF Unset, Default
<1>3. FromCommandLine(d, "test-mode") # FALSE
  BY <1>1, <1>2 DEF Load
<1>4. CASE "test-mode" \in DOMAIN d.flags /\ d.flags["test-mode"] # FALSE
  <2>1. d.flags["test-mode"] \in BOOLEAN
    BY <1>1, <1>4, DeploymentAssumption
  <2>2. d.flags["test-mode"] = TRUE
    BY <1>4, <2>1
  <2> QED BY <1>4, <2>2 DEF TestModeAsked
<1>5. CASE ~("test-mode" \in DOMAIN d.flags /\ d.flags["test-mode"] # FALSE)
  <2>1. FromEnvironment(d, "test-mode") # FALSE
    BY <1>2, <1>3, <1>5 DEF FromCommandLine
  <2>2. CASE "test-mode" \in DOMAIN d.env /\ d.env["test-mode"] # Garbage
    <3>1. d.env["test-mode"] # FALSE
      BY <2>1, <2>2 DEF FromEnvironment
    <3>2. d.env["test-mode"] \in BOOLEAN \cup {Garbage}
      BY <1>1, <2>2, DeploymentAssumption
    <3>3. d.env["test-mode"] = TRUE
      BY <2>2, <3>1, <3>2
    <3> QED BY <2>2, <3>3, Zenon DEF TestModeAsked
  <2>3. CASE ~("test-mode" \in DOMAIN d.env /\ d.env["test-mode"] # Garbage)
    <3>1. FromFile(d, "test-mode") # FALSE
      BY <2>1, <2>3 DEF FromEnvironment
    <3>2. /\ d.config \in {"found", "named"}
          /\ "test-mode" \in DOMAIN d.file
          /\ d.file["test-mode"] # FALSE
      BY <1>2, <3>1 DEF FromFile
    <3> QED BY <1>1, <2>3, <3>2, DeploymentAssumption DEF TestModeAsked
  <2> QED BY <2>2, <2>3
<1> QED BY <1>4, <1>5

\* What initAuth builds without test mode is the middleware of the keys.
LEMMA AuthOfTestMode ==
    ASSUME NEW cfg, NEW paths, InitAuth(cfg, paths) \notin {"keys", "error"}
    PROVE  cfg["test-mode"] # FALSE
  BY DEF InitAuth

\* No server runs before the middleware is built.
AuthInv ==
    /\ deployment \in Deployments
    /\ server \in [Servers -> {"off", "launched", "up", "failed", "draining", "stopped"}]
    /\ stage # "running" => \A s \in Servers : server[s] = "off"
    /\ stage = "running" => authMode = "keys" \/ TestModeAsked(deployment)

LEMMA ServerType ==
    ASSUME AuthInv, InService(RunMain) \/ InService(Interrupted) \/ InService(SendOwn)
        \/ \E s \in Servers :
            InService(((Bind(s) \/ Accept(s)) /\ UNCHANGED telemetry) \/ Served(s))
    PROVE  server' \in [Servers -> {"off", "launched", "up", "failed", "draining", "stopped"}]
<1> DEFINE States == {"off", "launched", "up", "failed", "draining", "stopped"}
<1>1. server \in [Servers -> States]
  BY DEF AuthInv
<1>2. ASSUME NEW s, NEW state \in States, Becomes(s, state) PROVE server' \in [Servers -> States]
  BY <1>1, <1>2 DEF Becomes
<1>3. ASSUME NEW how, Exit(how) PROVE server' \in [Servers -> States]
  BY <1>3 DEF Exit
<1>4. CASE UNCHANGED server
  BY <1>1, <1>4
<1>5. CASE InService(RunMain)
  <2>1. CASE MainGoesOn
    BY <2>1, <1>2, <1>4
    DEF MainGoesOn, StartGRPC, StartMCP, Notify, Launch, BeginDrain, EndDrain
  <2>2. CASE EndWith(Return, FlushEnds)
    BY <2>2, <1>3 DEF EndWith, Return
  <2>3. CASE EndWith(StartFails, FlushEnds)
    BY <2>3, <1>3 DEF EndWith, StartFails
  <2> QED BY <1>5, <2>1, <2>2, <2>3 DEF InService, RunMain
<1>6. CASE InService(Interrupted)
  BY <1>6, <1>3, <1>4 DEF InService, Interrupted, EndWith, Signal
<1>7. CASE InService(SendOwn)
  BY <1>7, <1>4 DEF InService, SendOwn, SendToItself, SendElsewhere, vars
<1>8. ASSUME NEW s \in Servers,
             InService(((Bind(s) \/ Accept(s)) /\ UNCHANGED telemetry) \/ Served(s))
      PROVE  server' \in [Servers -> States]
  <2>1. CASE Bind(s)
    BY <2>1, <1>2 DEF Bind
  <2>2. CASE Accept(s)
    BY <2>2, <1>4 DEF Accept
  <2>3. CASE Served(s)
    BY <2>3, <1>4 DEF Served, FinishRequest, OwnAnswered, Finish
  <2> QED BY <1>8, <2>1, <2>2, <2>3 DEF InService
<1> QED BY <1>5, <1>6, <1>7, <1>8

LEMMA AuthNext ==
    ASSUME AuthInv, [DeploymentNext]_deploymentVars
    PROVE  AuthInv'
<1>1. CASE UNCHANGED <<deployment, vars>> /\ stage # "running" /\ stage' # "running"
  BY <1>1 DEF AuthInv, vars, TestModeAsked
<1>2. CASE SetupByHand
  BY <1>2, <1>1 DEF SetupByHand
<1>3. CASE Script
  <2>1. stage # "running" /\ stage' # "running"
    BY <1>3 DEF Script, Ping, WaitForServer, ScriptSetup, StartByHand
  <2> QED BY <1>3, <1>1, <2>1 DEF Script
<1>4. CASE Outage
  BY <1>4, <1>1 DEF Outage, Preparing
<1>5. CASE StartService
  <2> DEFINE cfg == Load(deployment)
             how == InitAuth(cfg, deployment.paths)
  <2>1. deployment' = deployment /\ stage = "loading"
    BY <1>5 DEF StartService
  <2>2. CASE ~Loads(deployment) \/ how = "error"
    <3>1. Refuse
      BY <1>5, <2>2 DEF StartService
    <3> QED BY <2>1, <3>1 DEF Refuse, Exit, AuthInv
  <2>3. CASE ~(~Loads(deployment) \/ how = "error")
    <3>1. stage' = "running" /\ authMode' = how /\ server' = server
      BY <1>5, <2>3 DEF StartService
    <3>2. how = "keys" \/ TestModeAsked(deployment)
      BY <2>3, AuthOfTestMode, TestModeInEffect DEF AuthInv
    <3>3. (TestModeAsked(deployment))' <=> TestModeAsked(deployment)
      BY <2>1 DEF TestModeAsked
    <3> QED BY <2>1, <3>1, <3>2, <3>3 DEF AuthInv
  <2> QED BY <2>2, <2>3
<1>6. CASE InService(RunMain) \/ InService(Interrupted) \/ InService(SendOwn)
        \/ \E s \in Servers :
            InService(((Bind(s) \/ Accept(s)) /\ UNCHANGED telemetry) \/ Served(s))
  <2>1. stage = "running" /\ UNCHANGED <<deployment, stage, service>>
    BY <1>6 DEF InService
  <2>2. server' \in [Servers -> {"off", "launched", "up", "failed", "draining", "stopped"}]
    BY <1>6, ServerType
  <2> QED BY <2>1, <2>2 DEF AuthInv, service, TestModeAsked
<1>7. CASE UNCHANGED deploymentVars
  BY <1>7 DEF deploymentVars, service, vars, AuthInv, TestModeAsked
<1> QED BY <1>2, <1>3, <1>4, <1>5, <1>6, <1>7 DEF DeploymentNext

LEMMA AuthAlways == DeploymentSpec => []AuthInv
<1>1. DeploymentInit => AuthInv
  BY DEF DeploymentInit, Init, AuthInv
<1>2. AuthInv /\ [DeploymentNext]_deploymentVars => AuthInv'
  BY AuthNext
<1> QED BY <1>1, <1>2, PTL DEF DeploymentSpec

\* However the file, the environment and the command line are combined and
\* whichever user files there are, for any of them: a service takes requests
\* without keys only if it was asked for test mode.
THEOREM NoKeysOnlyIfAsked == DeploymentSpec => []KeysUnlessTestMode
<1>1. AuthInv => KeysUnlessTestMode
  BY DEF AuthInv, KeysUnlessTestMode
<1> QED BY <1>1, AuthAlways, PTL

-----------------------------------------------------------------------------
(* The service's own telemetry.  The gRPC receiver listens before anything   *)
(* can leave telemetry behind, and stays up until the stop; the middleware   *)
(* of test mode takes the header that the exporter sends.                    *)

\* What a service that can be its own collector is started with.
OwnCollector ==
    /\ ToItself
    /\ config["test-mode"]
    /\ "grpc" \notin taken
    /\ config["observability-tenant-id"] \in Tenants

\* Nothing has run, nothing waits to be sent.
Fresh ==
    /\ \A s \in Servers : server[s] = "off" /\ inflight[s] = 0
    /\ pending = 0 /\ own = 0

\* Until the stop, the receiver is up, or it is the first that main will start.
ReceiverFirst ==
    exit = "running" /\ main # "stopping" =>
        \/ server["grpc"] = "up"
        \/ Fresh /\ main = "starting" /\ todo # <<>> /\ Head(todo) = "grpc"

OwnInv ==
    /\ pending \in Nat /\ own \in Nat
    /\ inflight \in [Servers -> Int]
    /\ stage # "running" => Fresh /\ lost = {}
    /\ stage \notin {"running", "refused"} => main = "starting"
    /\ stage = "running" /\ OwnCollector =>
          /\ authMode \in {"header", "keys_or_header"}
          /\ ReceiverFirst
          /\ lost \subseteq {"database", "stopped", "killed"}

\* The middleware of test mode, with the files or without, reads the tenant-id
\* that the exporter sends, and the exporter sends no key.
LEMMA OwnHeadersTaken ==
    ASSUME authMode \in {"header", "keys_or_header"}, config["observability-tenant-id"] \in Tenants
    PROVE  Authenticate(authMode, OwnHeaders) \in Tenants
<1> DEFINE h == OwnHeaders
<1>1. /\ h.transport = "grpc" /\ h.authorization = "absent"
      /\ h.tenant = config["observability-tenant-id"]
  BY DEF OwnHeaders
<1>2. ~HasAuthorization(h)
  BY <1>1 DEF HasAuthorization
<1>3. ValidateTenantID(h.tenant) = h.tenant
  BY <1>1, AuthAssumption DEF ValidateTenantID
<1> HIDE DEF h
<1>4. Authenticate(authMode, h) = ValidateTenantID(h.tenant)
  BY <1>2 DEF Authenticate
<1> QED BY <1>1, <1>3, <1>4 DEF h

\* The gRPC receiver, where there is one, is the first to be started.
LEMMA ReceiverHeads ==
    ASSUME NEW cfg, cfg["mode"] \in DOMAIN Order, "grpc" \in ServersOf(cfg)
    PROVE  Order[cfg["mode"]] # <<>> /\ Head(Order[cfg["mode"]]) = "grpc"
<1>1. cfg["mode"] \in {"all", "ingestion", "query"}
  BY DEF Order
<1>2. CASE cfg["mode"] = "query"
  BY <1>2 DEF ServersOf, Order
<1>3. CASE cfg["mode"] \in {"all", "ingestion"}
  BY <1>3 DEF Order
<1> QED BY <1>1, <1>2, <1>3

LEMMA OwnInit ==
    ASSUME DeploymentInit PROVE OwnInv
<1>1. /\ pending = 0 /\ own = 0 /\ lost = {} /\ main = "starting"
      /\ server = [s \in Servers |-> "off"] /\ inflight = [s \in Servers |-> 0]
      /\ stage \in {"ping", "by_hand"}
  BY DEF DeploymentInit, Init
<1> QED BY <1>1 DEF OwnInv, Fresh

\* What starts the service leaves nothing behind.
LEMMA OwnStart ==
    ASSUME OwnInv, StartService
    PROVE  OwnInv'
<1> DEFINE cfg == Load(deployment)
           how == InitAuth(cfg, deployment.paths)
<1>1. /\ stage = "loading" /\ main = "starting" /\ Fresh /\ lost = {}
      /\ pending' = 0 /\ own' = 0 /\ lost' = {}
  BY DEF StartService, OwnInv, telemetry, Fresh
<1>2. CASE ~Loads(deployment) \/ how = "error"
  <2>1. Refuse
    BY <1>2 DEF StartService
  <2>2. /\ stage' = "refused"
        /\ server' = [s \in Servers |-> "off"] /\ inflight' = [s \in Servers |-> 0]
    BY <2>1 DEF Refuse, Exit
  <2> QED BY <1>1, <2>2 DEF OwnInv, Fresh
<1>3. CASE ~(~Loads(deployment) \/ how = "error")
  <2>1. /\ stage' = "running" /\ config' = cfg /\ authMode' = how
        /\ todo' = Order[cfg["mode"]]
        /\ UNCHANGED <<main, server, inflight>>
    BY <1>3 DEF StartService
  <2>2. Fresh'
    BY <1>1, <2>1 DEF Fresh
  <2>3. ASSUME OwnCollector' PROVE how \in {"header", "keys_or_header"} /\ ReceiverFirst'
    <3>1. cfg["mode"] \in DOMAIN Order
      BY <1>3 DEF Loads
    <3>2. "grpc" \in ServersOf(cfg) /\ cfg["test-mode"]
      BY <2>1, <2>3 DEF OwnCollector, ToItself
    <3>3. how \in {"header", "keys_or_header"}
      BY <1>3, <3>2 DEF InitAuth
    <3>4. todo' # <<>> /\ Head(todo') = "grpc"
      BY <2>1, <3>1, <3>2, ReceiverHeads
    <3> QED BY <1>1, <2>1, <2>2, <3>3, <3>4 DEF ReceiverFirst
  <2> HIDE DEF cfg, how
  <2> QED BY <1>1, <2>1, <2>2, <2>3 DEF OwnInv
<1> QED BY <1>2, <1>3

\* A step of the service keeps its configuration.
LEMMA OwnService ==
    ASSUME OwnInv, stage = "running", UNCHANGED <<stage, service, taken>>,
           pending' \in Nat, own' \in Nat, inflight' \in [Servers -> Int],
           OwnCollector => ReceiverFirst' /\ lost' \subseteq {"database", "stopped", "killed"}
    PROVE  OwnInv'
<1>1. OwnCollector' <=> OwnCollector
  BY DEF service, OwnCollector, ToItself, ServersOf
<1> QED BY <1>1 DEF OwnInv, service

LEMMA RecordedType ==
    ASSUME NEW s, pending \in Nat PROVE Recorded(s) \in Nat
<1>1. pending + 1 \in Nat /\ MaxPending \in Nat
  BY DeploymentAssumption
<1>2. Min({pending + 1, MaxPending}) \in {pending + 1, MaxPending}
  BY <1>1 DEF Min
<1> QED BY <1>1, <1>2 DEF Recorded

\* The end of the process takes every server with it.
LEMMA OwnEnds ==
    ASSUME OwnInv, stage = "running", UNCHANGED <<stage, service, taken>>,
           NEW how \in {"ok", "error", "killed"}, Exit(how),
           pending' = 0, own' = 0,
           OwnCollector => lost' \subseteq {"database", "stopped", "killed"}
    PROVE  OwnInv'
<1>1. exit' # "running" /\ inflight' \in [Servers -> Int]
  BY DEF Exit
<1> QED BY <1>1, OwnService DEF ReceiverFirst

\* The flush at the end loses nothing to an own receiver that is up.
LEMMA FlushLoses ==
    ASSUME OwnInv, stage = "running", OwnCollector, NEW why \in FlushEnds
    PROVE  why \subseteq {"database", "stopped", "killed"}
<1>1. Authenticate(authMode, OwnHeaders) \in Tenants
  BY OwnHeadersTaken DEF OwnInv, OwnCollector
<1>2. Authenticate(authMode, OwnHeaders) # Refused
  BY <1>1, AuthAssumption
<1> QED BY <1>2 DEF FlushEnds, OwnCollector

LEMMA OwnMain ==
    ASSUME OwnInv, AuthInv, InService(RunMain)
    PROVE  OwnInv'
<1>1. stage = "running" /\ UNCHANGED <<stage, service>>
  BY DEF InService
<1>2. CASE MainGoesOn
  <2>1. UNCHANGED <<telemetry, taken, inflight, exit>>
    BY <1>2 DEF MainGoesOn, StartGRPC, StartMCP, Notify, Launch, BeginDrain, EndDrain
  <2>2. ASSUME OwnCollector PROVE ReceiverFirst'
    <3>1. server \in [Servers -> {"off", "launched", "up", "failed", "draining", "stopped"}]
      BY DEF AuthInv
    <3>2. ReceiverFirst /\ "grpc" \notin taken
      BY <1>1, <2>2 DEF OwnInv, OwnCollector
    <3>3. CASE StartGRPC
      BY <3>1, <3>3 DEF StartGRPC, Becomes, ReceiverFirst, Servers
    <3>4. CASE StartMCP
      BY <3>1, <3>2, <3>4, <2>1 DEF StartMCP, NextIs, Becomes, ReceiverFirst
    <3>5. CASE Notify
      BY <3>2, <3>5, <2>1 DEF Notify, ReceiverFirst
    <3>6. ASSUME NEW s \in Servers, Launch(s) PROVE ReceiverFirst'
      BY <3>1, <3>2, <3>6, <2>1 DEF Launch, NextIs, Becomes, ReceiverFirst
    <3>7. ASSUME NEW s \in Servers, BeginDrain(s) \/ EndDrain(s) PROVE ReceiverFirst'
      BY <3>7 DEF BeginDrain, EndDrain, NextIs, ReceiverFirst
    <3> QED BY <1>2, <3>3, <3>4, <3>5, <3>6, <3>7 DEF MainGoesOn
  <2> QED BY <1>1, <2>1, <2>2, OwnService DEF OwnInv, telemetry
<1>3. ASSUME EndWith(Return, FlushEnds) \/ EndWith(StartFails, FlushEnds) PROVE OwnInv'
  <2>1. UNCHANGED taken /\ pending' = 0 /\ own' = 0 /\ (Exit("ok") \/ Exit("error"))
    BY <1>3 DEF EndWith, Return, StartFails
  <2>2. ASSUME OwnCollector PROVE lost' \subseteq {"database", "stopped", "killed"}
    <3>1. PICK why \in FlushEnds : lost' \in {lost, lost \cup why}
      BY <1>3 DEF EndWith
    <3>2. why \subseteq {"database", "stopped", "killed"}
      BY <1>1, <2>2, FlushLoses
    <3>3. lost \subseteq {"database", "stopped", "killed"}
      BY <1>1, <2>2 DEF OwnInv
    <3> QED BY <3>1, <3>2, <3>3
  <2> QED BY <1>1, <2>1, <2>2, OwnEnds
<1> QED BY <1>2, <1>3 DEF InService, RunMain

LEMMA OwnInterrupted ==
    ASSUME OwnInv, InService(Interrupted)
    PROVE  OwnInv'
<1>1. stage = "running" /\ UNCHANGED <<stage, service>>
  BY DEF InService
<1>2. CASE Signal /\ Handled /\ UNCHANGED telemetry
  <2>1. UNCHANGED <<taken, inflight>> /\ main' = "stopping"
    BY <1>2 DEF Signal
  <2> QED BY <1>1, <1>2, <2>1, OwnService DEF OwnInv, ReceiverFirst, telemetry
<1>3. CASE EndWith(Signal /\ ~Handled, {{"killed"}})
  <2>1. UNCHANGED taken /\ pending' = 0 /\ own' = 0 /\ Exit("killed")
    BY <1>3 DEF EndWith, Signal
  <2>2. lost' \in {lost, lost \cup {"killed"}}
    BY <1>3 DEF EndWith
  <2> QED BY <1>1, <2>1, <2>2, OwnEnds DEF OwnInv
<1> QED BY <1>2, <1>3 DEF InService, Interrupted

\* What is sent is taken, or the receiver is stopped: nothing is sent before
\* the receiver listens, since nothing has been recorded.
LEMMA OwnSent ==
    ASSUME OwnInv, InService(SendOwn)
    PROVE  OwnInv'
<1>1. /\ stage = "running" /\ UNCHANGED <<stage, service>>
      /\ exit = "running" /\ pending > 0 /\ pending' = 0
      /\ SendToItself \/ SendElsewhere
  BY DEF InService, SendOwn
<1>2. /\ UNCHANGED <<taken, server, main, todo, exit>>
      /\ own' \in Nat /\ inflight' \in [Servers -> Int]
  BY <1>1 DEF SendToItself, SendElsewhere, vars, OwnInv
<1>3. ASSUME OwnCollector
      PROVE  ReceiverFirst' /\ lost' \subseteq {"database", "stopped", "killed"}
  <2>1. ReceiverFirst /\ lost \subseteq {"database", "stopped", "killed"}
    BY <1>1, <1>3 DEF OwnInv
  <2>2. main = "stopping" \/ server["grpc"] = "up"
    BY <1>1, <2>1 DEF ReceiverFirst, Fresh
  <2>3. Authenticate(authMode, OwnHeaders) # Refused
    BY <1>1, <1>3, OwnHeadersTaken, AuthAssumption DEF OwnInv, OwnCollector
  <2>4. SendToItself
    BY <1>1, <1>3 DEF SendElsewhere, OwnCollector
  <2>5. lost' \in {lost, lost \cup {"stopped"}}
    BY <1>1, <2>2, <2>3, <2>4 DEF SendToItself, WhyNot, Is, Serving
  <2>6. ReceiverFirst'
    BY <1>2, <2>2 DEF ReceiverFirst
  <2> QED BY <2>1, <2>5, <2>6
<1> QED BY <1>1, <1>2, <1>3, OwnService

LEMMA OwnRequests ==
    ASSUME OwnInv, AuthInv, NEW s \in Servers,
           InService(((Bind(s) \/ Accept(s)) /\ UNCHANGED telemetry) \/ Served(s))
    PROVE  OwnInv'
<1>1. stage = "running" /\ UNCHANGED <<stage, service>>
  BY DEF InService
<1>2. /\ UNCHANGED <<taken, main, todo, exit>>
      /\ inflight' \in [Servers -> Int]
  <2>1. inflight \in [Servers -> Int]
    BY DEF OwnInv
  <2>2. CASE Bind(s)
    BY <2>1, <2>2 DEF Bind
  <2>3. CASE Accept(s)
    BY <2>1, <2>3 DEF Accept
  <2>4. CASE Served(s)
    BY <2>1, <2>4 DEF Served, FinishRequest, OwnAnswered, Finish, WithoutOne, Servers
  <2> QED BY <2>2, <2>3, <2>4 DEF InService
<1>3. pending' \in Nat /\ own' \in Nat
  <2>1. CASE UNCHANGED telemetry
    BY <2>1 DEF telemetry, OwnInv
  <2>2. CASE Served(s)
    BY <2>2, RecordedType DEF Served, FinishRequest, OwnAnswered, OwnInv
  <2> QED BY <2>1, <2>2 DEF InService
<1>4. ASSUME OwnCollector
      PROVE  ReceiverFirst' /\ lost' \subseteq {"database", "stopped", "killed"}
  <2>1. ReceiverFirst /\ lost \subseteq {"database", "stopped", "killed"}
    BY <1>1, <1>4 DEF OwnInv
  <2>2. server \in [Servers -> {"off", "launched", "up", "failed", "draining", "stopped"}]
    BY DEF AuthInv
  <2>3. lost' \in {lost, lost \cup {"database"}}
    BY DEF InService, telemetry, Served, FinishRequest, OwnAnswered
  <2>4. CASE exit = "running" /\ main # "stopping" /\ server["grpc"] = "up"
    <3>1. server'["grpc"] = "up"
      <4>1. CASE Bind(s)
        BY <2>2, <2>4, <4>1 DEF Bind, Is, Becomes
      <4>2. CASE UNCHANGED server
        BY <2>4, <4>2
      <4> QED BY <4>1, <4>2 DEF InService, Accept, Served, FinishRequest, OwnAnswered, Finish
    <3> QED BY <2>1, <2>3, <3>1 DEF ReceiverFirst
  <2>5. CASE exit = "running" /\ main # "stopping" /\ server["grpc"] # "up"
    <3>1. \A t \in Servers : server[t] = "off" /\ inflight[t] = 0
      BY <2>1, <2>5 DEF ReceiverFirst, Fresh
    <3>2. own = 0
      BY <2>1, <2>5 DEF ReceiverFirst, Fresh
    <3> QED BY <3>1, <3>2 DEF InService, Bind, Accept, Is, Serving, Served, FinishRequest,
                              OwnAnswered, Finish
  <2>6. CASE ~(exit = "running" /\ main # "stopping")
    BY <1>2, <2>1, <2>3, <2>6 DEF ReceiverFirst
  <2> QED BY <2>4, <2>5, <2>6
<1> QED BY <1>1, <1>2, <1>3, <1>4, OwnService

LEMMA OwnNext ==
    ASSUME OwnInv, AuthInv, [DeploymentNext]_deploymentVars
    PROVE  OwnInv'
<1>1. CASE /\ UNCHANGED <<telemetry, service, vars>>
           /\ stage \notin {"running", "refused"} /\ stage' # "running"
  BY <1>1 DEF OwnInv, Fresh, telemetry, vars
<1>2. CASE UNCHANGED <<stage, telemetry, service, vars>>
  BY <1>2 DEF OwnInv, Fresh, OwnCollector, ReceiverFirst, ToItself, ServersOf, telemetry,
              service, vars
<1>3. CASE SetupByHand \/ Outage \/ UNCHANGED deploymentVars
  BY <1>2, <1>3 DEF SetupByHand, Outage, deploymentVars
<1>4. CASE Script
  <2>1. stage \notin {"running", "refused"} /\ stage' # "running"
    BY <1>4 DEF Script, Ping, WaitForServer, ScriptSetup, StartByHand
  <2> QED BY <1>1, <1>4, <2>1 DEF Script
<1> QED BY <1>3, <1>4, OwnStart, OwnMain, OwnInterrupted, OwnSent, OwnRequests DEF DeploymentNext

\* pkg/observability and the receivers: a service in test mode that is its own
\* collector takes what it sends, from its first request to its stop, whatever
\* the three sources of the configuration and the user files are.
THEOREM OwnTelemetryIsTaken == DeploymentSpec => []OwnTelemetryTaken
<1>1. DeploymentInit => OwnInv
  BY OwnInit
<1>2. OwnInv /\ AuthInv /\ [DeploymentNext]_deploymentVars => OwnInv'
  BY OwnNext
<1>3. OwnInv => OwnTelemetryTaken
  BY DEF OwnInv, OwnCollector, OwnTelemetryTaken
<1> QED BY <1>1, <1>2, <1>3, AuthAlways, PTL DEF DeploymentSpec

-----------------------------------------------------------------------------
(* The drain of the deployed service.  Beside the requests of its clients it  *)
(* has its own exports, and its mode is the one that was configured.         *)

\* Before the service starts there is nothing to cut off.
Unstarted ==
    /\ main = "starting" /\ ~signalled /\ exit = "running" /\ cut = {} /\ atSignal = "none"
    /\ \A s \in Servers : server[s] = "off" /\ inflight[s] = 0

LifeInv ==
    /\ IInv
    /\ stage \notin {"running", "refused"} => Unstarted

LEMMA LifeInit ==
    ASSUME DeploymentInit PROVE LifeInv
<1>1. Init
  BY DEF DeploymentInit
<1> QED BY <1>1, InitIInv DEF Init, LifeInv, Unstarted

LEMMA LifeStart ==
    ASSUME LifeInv, StartService
    PROVE  LifeInv'
<1> DEFINE cfg == Load(deployment)
<1>1. IInv /\ Unstarted /\ stage' \in {"running", "refused"}
  BY DEF StartService, Refuse, LifeInv
<1>2. CASE Refuse
  <2>1. /\ exit' = "error" /\ main' = "ended" /\ cut' = {}
        /\ server' = [s \in Servers |-> "off"]
        /\ inflight' = [s \in Servers |-> 0]
        /\ UNCHANGED <<mode, taken, todo, signalled, atSignal>>
    BY <1>1, <1>2 DEF Refuse, Exit, Unstarted
  <2>2. Typed' /\ Unburdened' /\ Todo' /\ Started' /\ Stopped' /\ Signalled'
    BY <1>1, <2>1 DEF IInv, Typed, Unburdened, Todo, Started, Stopped, Signalled, Unstarted
  <2> QED BY <1>1, <2>1, <2>2 DEF LifeInv, IInv, IngestionDrains, NormalEndCutsNothing
<1>3. CASE ~Refuse
  <2>1. /\ Loads(deployment)
        /\ mode' = cfg["mode"] /\ todo' = Order[cfg["mode"]]
        /\ taken' \subseteq Servers
        /\ UNCHANGED <<main, server, inflight, signalled, exit, cut, atSignal>>
    BY <1>3 DEF StartService
  <2>2. cfg["mode"] \in DOMAIN Order
    BY <2>1 DEF Loads
  <2> HIDE DEF cfg
  <2>3. Todo' /\ todo' \in Seq(Servers)
    BY <2>1, <2>2, Orders DEF Todo
  <2>4. Typed'
    BY <1>1, <2>1, <2>2, <2>3 DEF IInv, Typed
  <2>5. Unburdened' /\ Started' /\ Stopped' /\ Signalled'
    BY <1>1, <2>1 DEF IInv, Unburdened, Started, Stopped, Signalled, Unstarted
  <2> QED BY <1>1, <2>1, <2>3, <2>4, <2>5
          DEF LifeInv, IInv, IngestionDrains, NormalEndCutsNothing, Unstarted
<1> QED BY <1>2, <1>3

LEMMA LifeRuns ==
    ASSUME LifeInv,
           \/ InService(RunMain) \/ InService(Interrupted) \/ InService(SendOwn)
           \/ \E s \in Servers :
               InService(((Bind(s) \/ Accept(s)) /\ UNCHANGED telemetry) \/ Served(s))
    PROVE  LifeInv'
<1>1. IInv /\ stage' = "running"
  BY DEF LifeInv, InService
<1>2. CASE Next \/ UNCHANGED vars
  BY <1>1, <1>2, NextIInv DEF LifeInv
<1>3. CASE InService(RunMain)
  BY <1>2, <1>3 DEF InService, RunMain, MainGoesOn, EndWith, Next, Main
<1>4. CASE InService(Interrupted)
  BY <1>2, <1>4 DEF InService, Interrupted, EndWith, Next
<1>5. CASE InService(SendOwn)
  <2>1. CASE UNCHANGED vars
    BY <1>2, <2>1
  <2>2. CASE ~UNCHANGED vars
    <3>1. SendToItself
      BY <1>5, <2>2 DEF InService, SendOwn, SendElsewhere
    <3>2. /\ "grpc" \in Servers /\ Is("grpc", Serving)
          /\ inflight' = [inflight EXCEPT !["grpc"] = @ + 1]
          /\ UNCHANGED <<mode, taken, main, todo, server, signalled, exit, cut, atSignal>>
      BY <2>2, <3>1 DEF SendToItself, Servers
    <3>3. IInv'
      BY <1>1, <3>2, TakenIInv
    <3> QED BY <1>1, <3>3 DEF LifeInv
  <2> QED BY <2>1, <2>2
<1>6. ASSUME NEW s \in Servers,
             InService(((Bind(s) \/ Accept(s)) /\ UNCHANGED telemetry) \/ Served(s))
      PROVE  LifeInv'
  <2>1. Bind(s) \/ Accept(s) \/ Finish(s)
    BY <1>6 DEF InService, Served, FinishRequest, OwnAnswered
  <2> QED BY <1>2, <2>1 DEF Next
<1> QED BY <1>3, <1>4, <1>5, <1>6

LEMMA LifeNext ==
    ASSUME LifeInv, [DeploymentNext]_deploymentVars
    PROVE  LifeInv'
<1>1. CASE UNCHANGED vars /\ (stage' \notin {"running", "refused"} => stage \notin {"running", "refused"})
  BY <1>1 DEF vars, LifeInv, IInv, Typed, Unburdened, Todo, Started, Stopped, Signalled, Unstarted,
              IngestionDrains, NormalEndCutsNothing
<1>2. CASE SetupByHand \/ Outage \/ UNCHANGED deploymentVars
  BY <1>1, <1>2 DEF SetupByHand, Outage, deploymentVars
<1>3. CASE Script
  <2>1. stage \notin {"running", "refused"}
    BY <1>3 DEF Script, Ping, WaitForServer, ScriptSetup, StartByHand
  <2> QED BY <1>1, <1>3, <2>1 DEF Script
<1> QED BY <1>2, <1>3, LifeStart, LifeRuns DEF DeploymentNext

\* Whatever mode is configured, and with the exports that the service sends to
\* itself among the others: no export is cut off once the signal is waited for
\* by a service that only ingests.
THEOREM DeployedExportsDrain == DeploymentSpec => []IngestionDrains
<1>1. DeploymentInit => LifeInv
  BY LifeInit
<1>2. LifeInv /\ [DeploymentNext]_deploymentVars => LifeInv'
  BY LifeNext
<1>3. LifeInv => IngestionDrains
  BY DEF LifeInv, IInv
<1> QED BY <1>1, <1>2, <1>3, PTL DEF DeploymentSpec
=============================================================================
