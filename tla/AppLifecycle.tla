---------------------------- MODULE AppLifecycle ----------------------------
(***************************************************************************)
(* One process of the API from start to end: bootstrap.New wires it up,    *)
(* app.Run runs every component in a goroutine of an errgroup, and         *)
(* app.Close closes what New has opened (cmd/main.go, internal/app,        *)
(* internal/bootstrap, and the Run methods of internal/routing,            *)
(* internal/telemetry and internal/consume).                               *)
(*                                                                         *)
(* The consumers' loop is ConsumerGroup; here a consumer only runs until   *)
(* its context is done.  net/http, grpc and errgroup are modelled as the   *)
(* code uses them.                                                         *)
(***************************************************************************)
EXTENDS Naturals, Sequences, FiniteSets

CONSTANTS
    Consumers,          \* the Kafka consumers, of both groups
    HTTPRequests,       \* requests that may reach the HTTP server
    GRPCRequests,       \* requests that may reach the gRPC server
    StorageType,        \* config: "sql" or "memory"
    TelemetryEnabled,   \* config
    NilCloser,          \* a nil io.Closer
    Nobody              \* no component has returned an error

Servers    == {"http", "grpc"}
Components == Servers \cup {"telemetry"} \cup Consumers
Requests   == HTTPRequests \cup GRPCRequests
ServerOf(r) == IF r \in HTTPRequests THEN "http" ELSE "grpc"

ASSUME ConfigAssumption ==
    /\ StorageType \in {"sql", "memory"}
    /\ TelemetryEnabled \in BOOLEAN
    /\ HTTPRequests \cap GRPCRequests = {}
    /\ Nobody \notin Components
ASSUME ClosersAssumption ==
    /\ IsFiniteSet(Consumers)
    /\ NilCloser \notin Consumers \cup {"redis", "mysql"}

VARIABLES
    phase,      \* where main is
    booted,     \* how many steps of New are done
    closers,    \* what New has collected to be closed, in order
    nclosed,    \* how many of them Close has closed
    signalled,  \* the signal handler has cancelled the context
    comp,       \* the Run method of each component
    first,      \* the component whose error the errgroup keeps
    stopped,    \* the servers whose Shutdown or Stop has been called
    req         \* the requests

vars == <<phase, booted, closers, nclosed, signalled, comp, first, stopped, req>>

\* The context of the components is done.
Cancelled == signalled \/ first # Nobody

Closed == {closers[n] : n \in 1..nclosed}

Init ==
    /\ phase = "boot"
    /\ booted = 0
    /\ closers = <<>>
    /\ nclosed = 0
    /\ signalled = FALSE
    /\ comp = [c \in Components |-> "new"]
    /\ first = Nobody
    /\ stopped = {}
    /\ req = [r \in Requests |-> "idle"]

\* The process is gone: whoever still waits for an answer gets none.
End(how) ==
    /\ phase' = how
    /\ req' = [r \in Requests |-> IF req[r] = "active" THEN "dropped" ELSE req[r]]

----------------------------------------------------------------------------
(* bootstrap.New.                                                          *)

\* The readers' order is that of NewConsumers; it makes no difference here.
Readers == CHOOSE s \in [1..Cardinality(Consumers) -> Consumers] :
               \A c \in Consumers : \E i \in DOMAIN s : s[i] = c

\* newUserStorage hands back its *sql.DB, or a nil io.Closer with the memory
\* storage; addCloser compares the slice of its arguments with nil, never
\* what is in it.
StorageCloser == IF StorageType = "sql" THEN <<"mysql">> ELSE <<NilCloser>>

\* Every step that can fail, with what it adds to the closers: the Redis
\* client, the Elasticsearch client, the storage, the topics, the decoder,
\* the consumers.
BootSteps == << <<"redis">>, <<>>, StorageCloser, <<>>, <<>>, Readers >>

BootStep ==
    /\ phase = "boot" /\ booted < Len(BootSteps)
    /\ booted' = booted + 1
    /\ closers' = closers \o BootSteps[booted + 1]
    /\ UNCHANGED <<phase, nclosed, signalled, comp, first, stopped, req>>

\* Redis, MySQL, Kafka or the schema registry cannot be reached: New panics,
\* before main has deferred Close.
BootFailure ==
    /\ phase = "boot" /\ booted < Len(BootSteps)
    /\ End("panicked")
    /\ UNCHANGED <<booted, closers, nclosed, signalled, comp, first, stopped>>

\* New returns, Run starts a goroutine per component.
Start ==
    /\ phase = "boot" /\ booted = Len(BootSteps)
    /\ phase' = "running"
    /\ UNCHANGED <<booted, closers, nclosed, signalled, comp, first, stopped, req>>

----------------------------------------------------------------------------
(* The components.                                                         *)

\* The goroutine of c returns to the errgroup, which keeps the first error.
Return(c, err) ==
    /\ comp' = [comp EXCEPT ![c] = "returned"]
    /\ first' = IF err /\ first = Nobody THEN c ELSE first

Enter(c, s) == comp' = [comp EXCEPT ![c] = s] /\ UNCHANGED first

At(c, s) == phase = "running" /\ comp[c] = s

\* telemetry.Run: the providers are set up, or an error ends it at once.
TelemetryStart ==
    /\ At("telemetry", "new")
    /\ \/ Enter("telemetry", "up")
       \/ TelemetryEnabled /\ Return("telemetry", TRUE)
    /\ UNCHANGED <<phase, booted, closers, nclosed, signalled, stopped, req>>

\* ... and at the end they are shut down with the context that is done; an
\* error other than its cancellation is returned.
TelemetryStop ==
    /\ At("telemetry", "up") /\ Cancelled
    /\ \/ Return("telemetry", FALSE)
       \/ TelemetryEnabled /\ Return("telemetry", TRUE)
    /\ UNCHANGED <<phase, booted, closers, nclosed, signalled, stopped, req>>

\* A provider that shuts down without an error after all: Run logs
\* err.Error() of the nil error.
TelemetryPanic ==
    /\ TelemetryEnabled
    /\ At("telemetry", "up") /\ Cancelled
    /\ End("panicked")
    /\ UNCHANGED <<booted, closers, nclosed, signalled, comp, first, stopped>>

\* net.Listen succeeds, and the goroutine that waits for the context starts.
Listen(s) ==
    /\ s \in Servers /\ At(s, "new")
    /\ Enter(s, "up")
    /\ UNCHANGED <<phase, booted, closers, nclosed, signalled, stopped, req>>

\* net.Listen fails: the HTTP router returns the error, the gRPC router
\* panics in its goroutine, which ends the process there and then.
HTTPListenFailure ==
    /\ At("http", "new")
    /\ comp' = [comp EXCEPT !["http"] = "refused"]
    /\ first' = IF first = Nobody THEN "http" ELSE first
    /\ UNCHANGED <<phase, booted, closers, nclosed, signalled, stopped, req>>

GRPCListenFailure ==
    /\ At("grpc", "new")
    /\ End("panicked")
    /\ UNCHANGED <<booted, closers, nclosed, signalled, comp, first, stopped>>

\* Serve begins to accept.  Called on a server that has been stopped already
\* it returns instead: http.ErrServerClosed, which Run turns into nil, or
\* grpc.ErrServerStopped, which Run returns.
Serve(s) ==
    /\ s \in Servers /\ At(s, "up")
    /\ IF s \in stopped THEN Return(s, s = "grpc") ELSE Enter(s, "serving")
    /\ UNCHANGED <<phase, booted, closers, nclosed, signalled, stopped, req>>

\* The listener fails while serving.
ServeFailure(s) ==
    /\ s \in Servers /\ At(s, "serving") /\ s \notin stopped
    /\ Return(s, TRUE)
    /\ UNCHANGED <<phase, booted, closers, nclosed, signalled, stopped, req>>

\* The goroutine of a server sees that the context is done.  Shutdown of the
\* HTTP server is given this very context: it closes the listener and does
\* not wait for the requests.  Stop of the gRPC server closes the connections
\* and cancels the requests.
StopServer(s) ==
    /\ s \in Servers /\ phase \in {"running", "closing"}
    /\ comp[s] \notin {"new", "refused"} /\ s \notin stopped /\ Cancelled
    /\ stopped' = stopped \cup {s}
    /\ req' = [r \in Requests |-> IF s = "grpc" /\ r \in GRPCRequests /\ req[r] = "active"
                                  THEN "dropped" ELSE req[r]]
    /\ UNCHANGED <<phase, booted, closers, nclosed, signalled, comp, first>>

\* A slip: Serve returns only when its handlers have ended.
ServeDrains(s) ==
    /\ s \in stopped /\ At(s, "serving")
    /\ \A r \in Requests : ServerOf(r) = s => req[r] # "active"
    /\ Return(s, FALSE)
    /\ UNCHANGED <<phase, booted, closers, nclosed, signalled, stopped, req>>

\* Serve notices and returns.
ServeEnds(s) ==
    /\ s \in stopped /\ At(s, "serving")
    /\ Return(s, FALSE)
    /\ UNCHANGED <<phase, booted, closers, nclosed, signalled, stopped, req>>

\* consumer.Run loops, and returns nil once its context is done.
ConsumerStart(c) ==
    /\ c \in Consumers /\ At(c, "new")
    /\ Enter(c, "up")
    /\ UNCHANGED <<phase, booted, closers, nclosed, signalled, stopped, req>>

ConsumerStop(c) ==
    /\ c \in Consumers /\ At(c, "up") /\ Cancelled
    /\ Return(c, FALSE)
    /\ UNCHANGED <<phase, booted, closers, nclosed, signalled, stopped, req>>

\* A request reaches a server, whose handler runs in a goroutine of its own.
Arrive(r) ==
    /\ At(ServerOf(r), "serving") /\ ServerOf(r) \notin stopped
    /\ req[r] = "idle"
    /\ req' = [req EXCEPT ![r] = "active"]
    /\ UNCHANGED <<phase, booted, closers, nclosed, signalled, comp, first, stopped>>

\* The handler uses one of the stores and answers; with a client that has
\* been closed under its hands it can only answer an error.
Answer(r) ==
    /\ phase \in {"running", "closing"} /\ req[r] = "active"
    /\ \E client \in {"redis", "search", "mysql"} :
          req' = [req EXCEPT ![r] = IF client \in Closed THEN "failed" ELSE "answered"]
    /\ UNCHANGED <<phase, booted, closers, nclosed, signalled, comp, first, stopped>>

----------------------------------------------------------------------------
(* main.                                                                   *)

\* An interrupt: the handler cancels the context.  Before main has installed
\* the handler it kills the process.
Signal ==
    /\ phase \in {"boot", "running"} /\ ~signalled
    /\ IF phase = "boot" THEN End("killed") /\ UNCHANGED signalled
       ELSE signalled' = TRUE /\ UNCHANGED <<phase, req>>
    /\ UNCHANGED <<booted, closers, nclosed, comp, first, stopped>>

AllReturned == \A c \in Components : comp[c] \in {"returned", "refused"}

\* A slip: Run gives up waiting as soon as its context is done.
WaitForContext ==
    /\ phase = "running" /\ Cancelled
    /\ phase' = "closing"
    /\ UNCHANGED <<booted, closers, nclosed, signalled, comp, first, stopped, req>>

\* eg.Wait returns, and main calls Close.
WaitReturns ==
    /\ phase = "running" /\ AllReturned
    /\ phase' = "closing"
    /\ UNCHANGED <<booted, closers, nclosed, signalled, comp, first, stopped, req>>

\* A slip: the loop of Close goes one too far.
CloseBeyond ==
    /\ phase = "closing" /\ nclosed <= Len(closers)
    /\ nclosed' = nclosed + 1
    /\ UNCHANGED <<phase, booted, closers, signalled, comp, first, stopped, req>>

\* The next closer is closed, whatever it returns; a nil one has no Close.
Close ==
    /\ phase = "closing" /\ nclosed < Len(closers)
    /\ IF closers[nclosed + 1] = NilCloser
       THEN End("panicked") /\ UNCHANGED nclosed
       ELSE nclosed' = nclosed + 1 /\ UNCHANGED <<phase, req>>
    /\ UNCHANGED <<booted, closers, signalled, comp, first, stopped>>

\* A slip: the loop of Close ends at the first error.
ExitOnCloseError ==
    /\ phase = "closing" /\ nclosed > 0
    /\ End("exited")
    /\ UNCHANGED <<booted, closers, nclosed, signalled, comp, first, stopped>>

Exit ==
    /\ phase = "closing" /\ nclosed = Len(closers)
    /\ End("exited")
    /\ UNCHANGED <<booted, closers, nclosed, signalled, comp, first, stopped>>

----------------------------------------------------------------------------

ServerStep(s) == Listen(s) \/ Serve(s) \/ StopServer(s) \/ ServeEnds(s)
ConsumerStep(c) == ConsumerStart(c) \/ ConsumerStop(c)
TelemetryStep == TelemetryStart \/ TelemetryStop \/ TelemetryPanic
MainStep == BootStep \/ Start \/ WaitReturns \/ Close \/ Exit
Failure == BootFailure \/ HTTPListenFailure \/ GRPCListenFailure \/ \E s \in Servers : ServeFailure(s)

Ended == phase \in {"exited", "panicked", "killed"}

\* The process is gone.
Finished == Ended /\ UNCHANGED vars

Next ==
    \/ MainStep \/ TelemetryStep \/ Signal \/ Failure \/ Finished
    \/ \E s \in Servers : ServerStep(s)
    \/ \E c \in Consumers : ConsumerStep(c)
    \/ \E r \in Requests : Arrive(r) \/ Answer(r)

\* Every goroutine is scheduled; requests, signals and failures come as they
\* like, and a handler may take for ever.
Fairness ==
    /\ WF_vars(MainStep) /\ WF_vars(TelemetryStep)
    /\ \A s \in Servers : WF_vars(ServerStep(s))
    /\ \A c \in Consumers : WF_vars(ConsumerStep(c))

Spec == Init /\ [][Next]_vars /\ Fairness

----------------------------------------------------------------------------
(* Properties.                                                             *)

\* The type invariant.
TypeOK ==
    /\ phase \in {"boot", "running", "closing", "exited", "panicked", "killed"}
    /\ booted \in 0..Len(BootSteps)
    /\ closers \in Seq({"redis", "mysql", NilCloser} \cup Consumers)
    /\ nclosed \in 0..Len(closers)
    /\ signalled \in BOOLEAN
    /\ comp \in [Components -> {"new", "up", "serving", "returned", "refused"}]
    /\ first \in Components \cup {Nobody}
    /\ stopped \subseteq Servers
    /\ req \in [Requests -> {"idle", "active", "answered", "failed", "dropped"}]

\* No client and no reader is closed while a component can still use it
\* (main.go: Close is deferred, and runs after Run; app.go: Run waits).
ClosedAfterReturn == nclosed > 0 => AllReturned

\* When the process ends after all components have returned, every reader of
\* the consumers has been closed, so that it leaves its group (app.go: Close).
ReadersAreClosed == Ended /\ AllReturned => Consumers \subseteq Closed

\* A signal, or the error of any component, ends the process (app.go: error
\* propagation and Context cancellation).
CancellationEnds == Cancelled ~> Ended

\* What the docs promise of a shutdown: an interrupt loses no HTTP request
\* the server has accepted.
HTTPIsGraceful ==
    phase = "exited" /\ first = Nobody => \A r \in HTTPRequests : req[r] \in {"idle", "answered"}

----------------------------------------------------------------------------
(* The inductive invariants behind the properties.                         *)

IInv ==
    /\ nclosed \in Nat
    /\ phase \in {"boot", "running"} => nclosed = 0
    /\ phase = "closing" => AllReturned
    /\ ClosedAfterReturn

Collected == {closers[n] : n \in 1..Len(closers)}

\* What New has collected once it is done, and that only Close takes a process
\* whose components have all returned to its end.
WiredUp ==
    /\ phase = "boot" => \A c \in Components : comp[c] = "new"
    /\ phase \in {"running", "closing", "exited"} => booted = Len(BootSteps)
    /\ booted = Len(BootSteps) => Consumers \subseteq Collected
    /\ StorageType = "sql" => NilCloser \notin Collected
    /\ Ended /\ AllReturned => booted = Len(BootSteps)
    /\ Ended /\ AllReturned /\ StorageType = "sql" => nclosed = Len(closers)

ClosingInv == TypeOK /\ WiredUp

=============================================================================
