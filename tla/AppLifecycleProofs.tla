------------------------- MODULE AppLifecycleProofs -------------------------
(***************************************************************************)
(* Theorems about AppLifecycle, for every number of consumers and requests *)
(* and either storage.                                                     *)
(***************************************************************************)
EXTENDS AppLifecycle, FiniteSetTheorems, TLAPS

LEMMA InitHolds == Init => IInv
BY DEF Init, IInv, ClosedAfterReturn

\* A step that leaves main where it is, and moves a component only while Run
\* waits for it.
Aside ==
    /\ UNCHANGED <<phase, nclosed>>
    /\ UNCHANGED comp \/ phase = "running"

\* A step after which the process is gone, with the components as they were.
Gone ==
    /\ phase' \in {"exited", "panicked", "killed"}
    /\ UNCHANGED <<nclosed, comp>>

LEMMA AsideKeeps == IInv /\ Aside => IInv'
BY DEF IInv, Aside, ClosedAfterReturn, AllReturned

LEMMA GoneKeeps == IInv /\ Gone => IInv'
BY DEF IInv, Gone, ClosedAfterReturn, AllReturned

LEMMA ComponentKeeps ==
    ASSUME IInv, \/ TelemetryStep
                 \/ \E s \in Servers : ServerStep(s)
                 \/ \E c \in Consumers : ConsumerStep(c)
                 \/ \E r \in Requests : Arrive(r) \/ Answer(r)
                 \/ Failure
    PROVE  IInv'
<1>1. ASSUME TelemetryStart \/ TelemetryStop \/ HTTPListenFailure PROVE Aside
    BY <1>1 DEF TelemetryStart, TelemetryStop, HTTPListenFailure, At, Aside
<1>2. ASSUME TelemetryPanic \/ GRPCListenFailure \/ BootFailure PROVE Gone
    BY <1>2 DEF TelemetryPanic, GRPCListenFailure, BootFailure, End, Gone
<1>3. ASSUME NEW s \in Servers, ServerStep(s) \/ ServeFailure(s) PROVE Aside
    BY <1>3 DEF ServerStep, Listen, Serve, StopServer, ServeEnds, ServeFailure, At, Aside
<1>4. ASSUME NEW c \in Consumers, ConsumerStep(c) PROVE Aside
    BY <1>4 DEF ConsumerStep, ConsumerStart, ConsumerStop, At, Aside
<1>5. ASSUME NEW r \in Requests, Arrive(r) \/ Answer(r) PROVE Aside
    BY <1>5 DEF Arrive, Answer, Aside
<1> QED BY <1>1, <1>2, <1>3, <1>4, <1>5, AsideKeeps, GoneKeeps DEF TelemetryStep, Failure

LEMMA MainKeeps ==
    ASSUME IInv, MainStep \/ Signal \/ Finished
    PROVE  IInv'
<1>1. CASE BootStep \/ Finished
    BY <1>1, AsideKeeps DEF BootStep, Finished, vars, Aside
<1>2. CASE Start \/ WaitReturns
    BY <1>2 DEF Start, WaitReturns, IInv, ClosedAfterReturn, AllReturned
<1>3. CASE Close
    <2>1. CASE closers[nclosed + 1] = NilCloser
        BY <1>3, <2>1, GoneKeeps DEF Close, End, Gone
    <2>2. CASE closers[nclosed + 1] # NilCloser
        BY <1>3, <2>2 DEF Close, IInv, ClosedAfterReturn, AllReturned
    <2> QED BY <2>1, <2>2
<1>4. CASE Exit
    BY <1>4, GoneKeeps DEF Exit, End, Gone
<1>5. CASE Signal
    <2>1. CASE phase = "boot"
        BY <1>5, <2>1, GoneKeeps DEF Signal, End, Gone
    <2>2. CASE phase # "boot"
        BY <1>5, <2>2, AsideKeeps DEF Signal, Aside
    <2> QED BY <2>1, <2>2
<1> QED BY <1>1, <1>2, <1>3, <1>4, <1>5 DEF MainStep

\* Close is deferred to the end of Run, and Run waits for every component:
\* no client and no reader is closed under a component that still runs,
\* whatever fails and in whatever order the components return.
THEOREM ClosedLast == Spec => []ClosedAfterReturn
<1>1. IInv /\ [Next]_vars => IInv'
    <2>1. IInv /\ UNCHANGED vars => IInv'
        BY AsideKeeps DEF vars, Aside
    <2> QED BY <2>1, ComponentKeeps, MainKeeps DEF Next
<1>2. IInv => ClosedAfterReturn
    BY DEF IInv
<1> QED BY <1>1, <1>2, InitHolds, PTL DEF Spec

----------------------------------------------------------------------------
(* The types, and that everything is closed.                               *)

Closers == {"redis", "mysql", NilCloser} \cup Consumers

\* The readers are a sequence with every consumer in it.
LEMMA ReadersType ==
    /\ Readers \in Seq(Consumers)
    /\ \A c \in Consumers : \E i \in 1..Len(Readers) : Readers[i] = c
<1> DEFINE n == Cardinality(Consumers)
<1>1. n \in Nat /\ ExistsBijection(1..n, Consumers)
    BY FS_CardinalityType, ClosersAssumption
<1>2. \E s \in [1..n -> Consumers] : \A c \in Consumers : \E i \in DOMAIN s : s[i] = c
    BY <1>1 DEF ExistsBijection, Bijection, Surjection
<1>3. /\ Readers \in [1..n -> Consumers]
      /\ \A c \in Consumers : \E i \in DOMAIN Readers : Readers[i] = c
    BY <1>2 DEF Readers
<1> QED BY <1>1, <1>3

\* Of the steps of New, with the nil closer only if the storage is not MySQL.
LEMMA BootStepsType ==
    /\ Len(BootSteps) = 6
    /\ \A k \in 1..6 : BootSteps[k] \in Seq(Closers)
    /\ BootSteps[6] = Readers
    /\ StorageType = "sql" => \A k \in 1..6 : \A i \in 1..Len(BootSteps[k]) : BootSteps[k][i] # NilCloser
<1>1. Len(BootSteps) = 6 /\ BootSteps[6] = Readers
    BY DEF BootSteps
<1>2. \A k \in 1..5 : BootSteps[k] \in {<<"redis">>, <<>>, StorageCloser}
    BY DEF BootSteps
<1>3. \A k \in 1..5 : BootSteps[k] \in Seq(Closers)
    <2>1. StorageCloser \in {<<"mysql">>, <<NilCloser>>}
        BY DEF StorageCloser
    <2>2. {<<"redis">>, <<>>, <<"mysql">>, <<NilCloser>>} \subseteq Seq(Closers)
        BY DEF Closers
    <2> QED BY <1>2, <2>1, <2>2
<1>4. \A k \in 1..6 : BootSteps[k] \in Seq(Closers)
    <2>1. Readers \in Seq(Closers)
        BY ReadersType DEF Closers
    <2>2. \A k \in 1..6 : k \in 1..5 \/ k = 6
        OBVIOUS
    <2> QED BY <1>1, <1>3, <2>1, <2>2
<1>5. ASSUME StorageType = "sql", NEW k \in 1..6, NEW i \in 1..Len(BootSteps[k])
      PROVE  BootSteps[k][i] # NilCloser
    <2>1. CASE k = 6
        <3>1. BootSteps[k][i] \in Consumers
            BY <1>1, <2>1, ReadersType
        <3> QED BY <3>1, ClosersAssumption
    <2>2. CASE k # 6
        <3>1. BootSteps[k] \in {<<"redis">>, <<>>, <<"mysql">>}
            BY <1>2, <1>5, <2>2 DEF StorageCloser
        <3>2. BootSteps[k][i] \in {"redis", "mysql"}
            BY <3>1
        <3> QED BY <3>2, ClosersAssumption
    <2> QED BY <2>1, <2>2
<1> QED BY <1>1, <1>4, <1>5

LEMMA ClosingInit == Init => ClosingInv
<1> SUFFICES ASSUME Init PROVE ClosingInv
    OBVIOUS
<1>1. TypeOK
    <2>1. closers = <<>> /\ nclosed = 0 /\ booted = 0
        BY DEF Init
    <2>2. closers \in Seq({"redis", "mysql", NilCloser} \cup Consumers) /\ nclosed \in 0..Len(closers)
        BY <2>1
    <2>3. booted \in 0..Len(BootSteps)
        BY <2>1, BootStepsType
    <2> QED BY <2>2, <2>3 DEF Init, TypeOK
<1>2. WiredUp
    BY BootStepsType DEF Init, WiredUp, Ended, Collected
<1> QED BY <1>1, <1>2 DEF ClosingInv

\* A step of New appends what it has opened.
LEMMA BootStepKeeps == ClosingInv /\ BootStep => ClosingInv'
<1> SUFFICES ASSUME ClosingInv, BootStep PROVE ClosingInv'
    OBVIOUS
<1> DEFINE more == BootSteps[booted + 1]
<1>1. /\ closers \in Seq(Closers) /\ more \in Seq(Closers)
      /\ closers' = closers \o more /\ booted \in 0..5 /\ booted' = booted + 1
      /\ phase = "boot" /\ nclosed \in 0..Len(closers)
      /\ UNCHANGED <<phase, nclosed, signalled, comp, first, stopped, req>>
    BY BootStepsType DEF ClosingInv, TypeOK, BootStep, Closers
<1>2. /\ closers' \in Seq(Closers) /\ Len(closers') = Len(closers) + Len(more)
      /\ \A n \in 1..Len(closers) : closers'[n] = closers[n]
      /\ \A n \in 1..Len(more) : closers'[Len(closers) + n] = more[n]
    BY <1>1
<1>3. TypeOK'
    BY <1>1, <1>2, BootStepsType DEF ClosingInv, TypeOK, Closers
<1>4. (\A c \in Components : comp[c] = "new")'
    BY <1>1 DEF ClosingInv, WiredUp
<1>5. (booted = Len(BootSteps) => Consumers \subseteq Collected)'
    <2> SUFFICES ASSUME booted = 5, NEW c \in Consumers PROVE c \in Collected'
        BY <1>1, BootStepsType
    <2>1. PICK i \in 1..Len(more) : more[i] = c
        BY BootStepsType, ReadersType
    <2>2. Len(closers) + i \in 1..Len(closers') /\ closers'[Len(closers) + i] = c
        BY <1>1, <1>2, <2>1
    <2> QED BY <2>2 DEF Collected
<1>6. (StorageType = "sql" => NilCloser \notin Collected)'
    <2> SUFFICES ASSUME StorageType = "sql", NEW n \in 1..Len(closers') PROVE closers'[n] # NilCloser
        BY DEF Collected
    <2>1. CASE n <= Len(closers)
        BY <1>1, <1>2, <2>1 DEF ClosingInv, WiredUp, Collected
    <2>2. CASE n > Len(closers)
        <3>1. n - Len(closers) \in 1..Len(more) /\ closers'[n] = more[n - Len(closers)]
            BY <1>1, <1>2, <2>2
        <3>2. booted + 1 \in 1..6
            BY <1>1
        <3>3. \A i \in 1..Len(more) : more[i] # NilCloser
            BY <3>2, BootStepsType
        <3> QED BY <3>1, <3>3
    <2> QED BY <1>1, <2>1, <2>2
<1>7. phase' = "boot"
    BY <1>1
<1> QED BY <1>3, <1>4, <1>5, <1>6, <1>7 DEF ClosingInv, WiredUp, Ended

\* A step beside main, and the death of a process that has not come to Close;
\* both leave what has been collected alone.
Quiet ==
    /\ UNCHANGED <<booted, closers, nclosed, phase>>
    /\ UNCHANGED comp \/ phase = "running"

Dies ==
    /\ UNCHANGED <<booted, closers, nclosed, comp>>
    /\ phase' \in {"panicked", "killed"} /\ ~AllReturned

LEMMA QuietKeeps == WiredUp /\ Quiet => WiredUp'
BY DEF WiredUp, Quiet, Ended, AllReturned, Collected

LEMMA DiesKeeps == WiredUp /\ Dies => WiredUp'
BY DEF WiredUp, Dies, Ended, AllReturned, Collected

\* The types a component step and the end of a process keep.
LEMMA ReturnType ==
    ASSUME TypeOK, NEW c \in Components, NEW err \in BOOLEAN, Return(c, err)
    PROVE  TypeOK!6' /\ TypeOK!7'
BY DEF TypeOK, Return

LEMMA EnterType ==
    ASSUME TypeOK, NEW c \in Components, NEW l \in {"up", "serving"}, Enter(c, l)
    PROVE  TypeOK!6' /\ TypeOK!7'
BY DEF TypeOK, Enter

LEMMA EndType ==
    ASSUME TypeOK, NEW how \in {"exited", "panicked", "killed"}, End(how)
    PROVE  TypeOK!1' /\ TypeOK!9'
BY DEF TypeOK, End

\* A component's Run goes on or returns.
LEMMA ComponentTypes ==
    ASSUME TypeOK, \/ TelemetryStart \/ TelemetryStop \/ HTTPListenFailure
                   \/ \E s \in Servers : Listen(s) \/ Serve(s) \/ ServeEnds(s) \/ ServeFailure(s)
                   \/ \E c \in Consumers : ConsumerStep(c)
    PROVE  TypeOK' /\ Quiet
<1>1. CASE TelemetryStart
    <2>1. TypeOK!6' /\ TypeOK!7'
        BY <1>1, ReturnType, EnterType DEF TelemetryStart, Components
    <2> QED BY <1>1, <2>1 DEF TelemetryStart, TypeOK, Quiet, At
<1>2. CASE TelemetryStop
    <2>1. TypeOK!6' /\ TypeOK!7'
        BY <1>2, ReturnType, EnterType DEF TelemetryStop, Components
    <2> QED BY <1>2, <2>1 DEF TelemetryStop, TypeOK, Quiet, At
<1>3. CASE HTTPListenFailure
    <2>1. TypeOK!6' /\ TypeOK!7'
        BY <1>3 DEF HTTPListenFailure, TypeOK, Components, Servers
    <2> QED BY <1>3, <2>1 DEF HTTPListenFailure, TypeOK, Quiet, At
<1>4. ASSUME NEW s \in Servers, Listen(s) \/ Serve(s) \/ ServeEnds(s) \/ ServeFailure(s)
      PROVE  TypeOK' /\ Quiet
    <2>1. TypeOK!6' /\ TypeOK!7'
        BY <1>4, ReturnType, EnterType DEF Listen, Serve, ServeEnds, ServeFailure, Components
    <2> QED BY <1>4, <2>1 DEF Listen, Serve, ServeEnds, ServeFailure, TypeOK, Quiet, At
<1>5. ASSUME NEW c \in Consumers, ConsumerStep(c)
      PROVE  TypeOK' /\ Quiet
    <2>1. TypeOK!6' /\ TypeOK!7'
        BY <1>5, ReturnType, EnterType DEF ConsumerStep, ConsumerStart, ConsumerStop, Components
    <2> QED BY <1>5, <2>1 DEF ConsumerStep, ConsumerStart, ConsumerStop, TypeOK, Quiet, At
<1> QED BY <1>1, <1>2, <1>3, <1>4, <1>5

\* The servers stop, and the requests come and are answered.
LEMMA RequestTypes ==
    ASSUME TypeOK, \/ \E s \in Servers : StopServer(s)
                   \/ \E r \in Requests : Arrive(r) \/ Answer(r)
    PROVE  TypeOK' /\ Quiet
<1>1. ASSUME NEW s \in Servers, StopServer(s) PROVE TypeOK' /\ Quiet
    <2>1. TypeOK!8' /\ TypeOK!9'
        BY <1>1 DEF StopServer, TypeOK
    <2> QED BY <1>1, <2>1 DEF StopServer, TypeOK, Quiet
<1>2. ASSUME NEW r \in Requests, Arrive(r) \/ Answer(r) PROVE TypeOK' /\ Quiet
    <2>1. TypeOK!9'
        BY <1>2 DEF Arrive, Answer, TypeOK
    <2> QED BY <1>2, <2>1 DEF Arrive, Answer, TypeOK, Quiet
<1> QED BY <1>1, <1>2

\* A process that has not come to its end is taken there by a failure.
LEMMA DeathTypes ==
    ASSUME ClosingInv, TelemetryPanic \/ GRPCListenFailure \/ BootFailure
    PROVE  TypeOK' /\ Dies
<1>1. TypeOK'
    BY EndType DEF ClosingInv, TypeOK, TelemetryPanic, GRPCListenFailure, BootFailure
<1>2. {"telemetry", "grpc"} \subseteq Components
    BY DEF Components, Servers
<1>3. ~AllReturned
    BY <1>2 DEF ClosingInv, WiredUp, AllReturned, TelemetryPanic, GRPCListenFailure, BootFailure, At
<1> QED BY <1>1, <1>3 DEF TelemetryPanic, GRPCListenFailure, BootFailure, Dies, End

LEMMA SignalKeeps == ClosingInv /\ Signal => ClosingInv'
<1> SUFFICES ASSUME ClosingInv, Signal PROVE ClosingInv'
    OBVIOUS
<1>1. CASE phase = "boot"
    <2>1. TypeOK'
        BY <1>1, EndType DEF ClosingInv, TypeOK, Signal
    <2>2. Dies
        BY <1>1 DEF ClosingInv, WiredUp, Signal, Dies, End, AllReturned, Components
    <2> QED BY <2>1, <2>2, DiesKeeps DEF ClosingInv
<1>2. CASE phase # "boot"
    <2>1. TypeOK' /\ Quiet
        BY <1>2 DEF ClosingInv, TypeOK, Signal, Quiet
    <2> QED BY <2>1, QuietKeeps DEF ClosingInv
<1> QED BY <1>1, <1>2

LEMMA MainTypes ==
    ASSUME ClosingInv, Start \/ WaitReturns \/ Close \/ Exit
    PROVE  ClosingInv'
<1>1. CASE Start
    BY <1>1 DEF Start, ClosingInv, TypeOK, WiredUp, Ended, AllReturned, Collected
<1>2. CASE WaitReturns
    BY <1>2 DEF WaitReturns, ClosingInv, TypeOK, WiredUp, Ended, AllReturned, Collected
<1>3. CASE Exit
    <2>1. TypeOK'
        BY <1>3, EndType DEF Exit, ClosingInv, TypeOK
    <2>2. WiredUp'
        BY <1>3 DEF Exit, End, ClosingInv, WiredUp, Ended, AllReturned, Collected
    <2> QED BY <2>1, <2>2 DEF ClosingInv
<1>4. CASE Close /\ closers[nclosed + 1] = NilCloser
    <2>1. TypeOK'
        BY <1>4, EndType DEF Close, ClosingInv, TypeOK
    <2>2. NilCloser \in Collected
        BY <1>4 DEF Close, Collected, ClosingInv, TypeOK
    <2>3. WiredUp'
        BY <1>4, <2>2 DEF Close, End, ClosingInv, WiredUp, Ended, AllReturned, Collected
    <2> QED BY <2>1, <2>3 DEF ClosingInv
<1>5. CASE Close /\ closers[nclosed + 1] # NilCloser
    <2>1. TypeOK'
        BY <1>5 DEF Close, ClosingInv, TypeOK
    <2>2. WiredUp'
        BY <1>5 DEF Close, ClosingInv, WiredUp, Ended, AllReturned, Collected
    <2> QED BY <2>1, <2>2 DEF ClosingInv
<1> QED BY <1>1, <1>2, <1>3, <1>4, <1>5

LEMMA ClosingKeeps == ClosingInv /\ [Next]_vars => ClosingInv'
<1> SUFFICES ASSUME ClosingInv, [Next]_vars PROVE ClosingInv'
    OBVIOUS
<1>1. CASE UNCHANGED vars
    BY <1>1 DEF vars, ClosingInv, TypeOK, WiredUp, Ended, AllReturned, Collected
<1>2. ASSUME TypeOK' /\ Quiet PROVE ClosingInv'
    BY <1>2, QuietKeeps DEF ClosingInv
<1>3. ASSUME TypeOK' /\ Dies PROVE ClosingInv'
    BY <1>3, DiesKeeps DEF ClosingInv
<1>4. CASE MainStep \/ Signal
    BY <1>4, BootStepKeeps, MainTypes, SignalKeeps DEF MainStep
<1>5. CASE TelemetryStep \/ Failure
    BY <1>2, <1>3, <1>5, ComponentTypes, DeathTypes DEF TelemetryStep, Failure, ClosingInv
<1>6. CASE \E s \in Servers : ServerStep(s)
    BY <1>2, <1>6, ComponentTypes, RequestTypes DEF ServerStep, ClosingInv
<1>7. CASE \E c \in Consumers : ConsumerStep(c)
    BY <1>2, <1>7, ComponentTypes DEF ClosingInv
<1>8. CASE \E r \in Requests : Arrive(r) \/ Answer(r)
    BY <1>2, <1>8, RequestTypes DEF ClosingInv
<1> QED BY <1>1, <1>4, <1>5, <1>6, <1>7, <1>8 DEF Next, Finished

\* What main keeps track of has its type, whatever fails and panics.
THEOREM TypeCorrect == Spec => []TypeOK
<1>1. ClosingInv => TypeOK
    BY DEF ClosingInv
<1> QED BY <1>1, ClosingInit, ClosingKeeps, PTL DEF Spec

\* With MySQL a process whose components have all returned leaves no reader
\* open: whatever New had collected has been closed when it ends.
THEOREM ReadersClosed == StorageType = "sql" => (Spec => []ReadersAreClosed)
<1> SUFFICES ASSUME StorageType = "sql" PROVE Spec => []ReadersAreClosed
    OBVIOUS
<1>1. ClosingInv => ReadersAreClosed
    BY DEF ClosingInv, TypeOK, WiredUp, ReadersAreClosed, Closed, Collected
<1> QED BY <1>1, ClosingInit, ClosingKeeps, PTL DEF Spec

\* The memory storage leaves its nil closer right behind the Redis client,
\* and Close gets no further than that.
StuckAtNil ==
    /\ booted = 0 => closers = <<>>
    /\ booted >= 1 => Len(closers) >= 1 /\ closers[1] = "redis"
    /\ booted \in {1, 2} => Len(closers) = 1
    /\ booted >= 3 => Len(closers) >= 2 /\ closers[2] = NilCloser
    /\ nclosed <= 1
    /\ nclosed = 1 => booted = 6
    /\ phase # "exited"

LEMMA MemoryBoots ==
    ASSUME StorageType = "memory", TypeOK, StuckAtNil, BootStep
    PROVE  StuckAtNil'
<1> DEFINE more == BootSteps[booted + 1]
<1>1. /\ closers \in Seq(Closers) /\ more \in Seq(Closers)
      /\ closers' = closers \o more /\ booted \in 0..5 /\ booted' = booted + 1
      /\ phase = "boot" /\ UNCHANGED <<phase, nclosed>>
    BY BootStepsType DEF TypeOK, BootStep, Closers
<1>2. /\ booted = 0 => more = <<"redis">>
      /\ booted = 1 => more = <<>>
      /\ booted = 2 => more = <<NilCloser>>
    BY DEF BootSteps, StorageCloser
<1> HIDE DEF more
<1>3. /\ Len(closers') = Len(closers) + Len(more)
      /\ \A n \in 1..Len(closers) : closers'[n] = closers[n]
      /\ \A n \in 1..Len(more) : closers'[Len(closers) + n] = more[n]
    BY <1>1
<1>4. CASE booted = 0
    <2>1. closers = <<>> /\ more = <<"redis">>
        BY <1>2, <1>4 DEF StuckAtNil
    <2>2. Len(closers) = 0 /\ Len(more) = 1 /\ more[1] = "redis"
        BY <2>1
    <2>3. Len(closers') = 1 /\ closers'[1] = "redis"
        BY <1>3, <2>2
    <2> QED BY <1>1, <1>4, <2>3 DEF StuckAtNil
<1>5. CASE booted = 1
    <2>1. Len(more) = 0
        BY <1>2, <1>5
    <2> QED BY <1>1, <1>3, <1>5, <2>1 DEF StuckAtNil
<1>6. CASE booted = 2
    <2>1. Len(more) = 1 /\ more[1] = NilCloser
        BY <1>2, <1>6
    <2> QED BY <1>1, <1>3, <1>6, <2>1 DEF StuckAtNil
<1>7. CASE booted > 2
    <2>1. Len(closers) \in Nat /\ Len(more) \in Nat
        BY <1>1
    <2> QED BY <1>1, <1>3, <1>7, <2>1 DEF StuckAtNil
<1> QED BY <1>1, <1>4, <1>5, <1>6, <1>7

LEMMA MemoryKeeps ==
    ASSUME StorageType = "memory", ClosingInv, StuckAtNil, [Next]_vars
    PROVE  StuckAtNil'
<1> USE DEF ClosingInv
<1>1. booted \in 0..6 /\ nclosed \in Nat
    BY BootStepsType DEF TypeOK
<1>2. CASE BootStep
    BY <1>2, MemoryBoots
<1>3. CASE Close
    <2>1. booted = 6 /\ nclosed \in {0, 1} /\ Len(closers) >= 2
        BY <1>1, <1>3, BootStepsType DEF Close, WiredUp, StuckAtNil
    <2>2. closers[1] = "redis" /\ closers[2] = NilCloser
        BY <2>1 DEF StuckAtNil
    <2>3. UNCHANGED <<booted, closers>>
        BY <1>3 DEF Close
    <2>4. CASE nclosed = 1
        BY <1>3, <2>2, <2>3, <2>4 DEF Close, End, StuckAtNil
    <2>5. CASE nclosed = 0
        <3>1. closers[nclosed + 1] # NilCloser
            BY <2>2, <2>5, ClosersAssumption
        <3> QED BY <1>3, <2>1, <2>3, <2>5, <3>1 DEF Close, StuckAtNil
    <2> QED BY <2>1, <2>4, <2>5
<1>4. ~Exit
    BY <1>1, BootStepsType DEF Exit, TypeOK, WiredUp, StuckAtNil
<1>5. BootStep \/ Close \/ Exit \/ (UNCHANGED <<booted, closers, nclosed>> /\ phase' \in {phase, "running", "closing", "panicked", "killed"})
    BY DEF Next, MainStep, Start, WaitReturns, TelemetryStep, TelemetryStart,
           TelemetryStop, TelemetryPanic, Signal, Failure, BootFailure, HTTPListenFailure,
           GRPCListenFailure, ServeFailure, Finished, ServerStep, Listen, Serve, StopServer,
           ServeEnds, ConsumerStep, ConsumerStart, ConsumerStop, Arrive, Answer, End, vars
<1>6. CASE UNCHANGED <<booted, closers, nclosed>> /\ phase' \in {phase, "running", "closing", "panicked", "killed"}
    BY <1>6 DEF StuckAtNil
<1> QED BY <1>2, <1>3, <1>4, <1>5, <1>6

\* With the memory storage Close never gets past the Redis client, and no
\* process ends by itself: the nil closer makes it panic (bootstrap.go:
\* addCloser, app.go: Close), whatever there is to be closed behind it.
THEOREM MemoryClosesOnlyRedis ==
    StorageType = "memory" => (Spec => [](phase # "exited" /\ Closed \subseteq {"redis"}))
<1> SUFFICES ASSUME StorageType = "memory"
             PROVE  Spec => [](phase # "exited" /\ Closed \subseteq {"redis"})
    OBVIOUS
<1>1. Init => StuckAtNil
    BY DEF Init, StuckAtNil
<1>2. ASSUME ClosingInv, StuckAtNil PROVE phase # "exited" /\ Closed \subseteq {"redis"}
    BY <1>2, BootStepsType DEF ClosingInv, TypeOK, StuckAtNil, Closed
<1> QED BY <1>1, <1>2, ClosingInit, ClosingKeeps, MemoryKeeps, PTL DEF Spec

----------------------------------------------------------------------------
(* That a process comes to its end.  Fairness is left to TLC; what it rests *)
(* on holds for every number of consumers: once the context is done nobody  *)
(* waits for ever, and the steps of all but the requests run out.           *)

\* The guards of the steps that are fairly taken.
MainCan ==
    \/ phase \in {"boot", "closing"}
    \/ phase = "running" /\ AllReturned
ComponentCan(c) ==
    /\ phase = "running"
    /\ \/ comp[c] = "new"
       \/ comp[c] = "up" /\ (c \in Servers \/ Cancelled)
       \/ comp[c] = "serving" /\ c \in Servers /\ (c \in stopped \/ Cancelled)

\* Whoever waits for the context to be done, waits for a component to return
\* or for Serve to end is waiting for somebody who has a step to take.
NeverStuck == Cancelled => Ended \/ MainCan \/ \E c \in Components : ComponentCan(c)

OnlyServersServe == \A c \in Components : comp[c] = "serving" => c \in Servers

LEMMA ServingKeeps == TypeOK /\ OnlyServersServe /\ [Next]_vars => OnlyServersServe'
<1> SUFFICES ASSUME TypeOK, OnlyServersServe, [Next]_vars PROVE OnlyServersServe'
    OBVIOUS
<1>1. ASSUME NEW c \in Components, NEW l, comp' = [comp EXCEPT ![c] = l], l = "serving" => c \in Servers
      PROVE  OnlyServersServe'
    BY <1>1 DEF TypeOK, OnlyServersServe
<1>2. ASSUME UNCHANGED comp PROVE OnlyServersServe'
    BY <1>2 DEF OnlyServersServe
<1>3. Servers \subseteq Components /\ Consumers \subseteq Components /\ "telemetry" \in Components
    BY DEF Components
<1>4. CASE MainStep \/ Signal \/ Finished \/ UNCHANGED vars
    BY <1>2, <1>4 DEF MainStep, BootStep, Start, WaitReturns, Close, Exit, Signal, Finished, vars
<1>5. CASE TelemetryStep
    BY <1>1, <1>2, <1>3, <1>5
       DEF TelemetryStep, TelemetryStart, TelemetryStop, TelemetryPanic, Enter, Return
<1>6. CASE Failure
    BY <1>1, <1>2, <1>3, <1>6
       DEF Failure, BootFailure, HTTPListenFailure, GRPCListenFailure, ServeFailure, Servers, Return
<1>7. ASSUME NEW s \in Servers, ServerStep(s) PROVE OnlyServersServe'
    BY <1>1, <1>2, <1>3, <1>7 DEF ServerStep, Listen, Serve, StopServer, ServeEnds, Enter, Return
<1>8. ASSUME NEW c \in Consumers, ConsumerStep(c) PROVE OnlyServersServe'
    BY <1>1, <1>3, <1>8 DEF ConsumerStep, ConsumerStart, ConsumerStop, Enter, Return
<1>9. ASSUME NEW r \in Requests, Arrive(r) \/ Answer(r) PROVE OnlyServersServe'
    BY <1>2, <1>9 DEF Arrive, Answer
<1> QED BY <1>4, <1>5, <1>6, <1>7, <1>8, <1>9 DEF Next

\* A shutdown never comes to a stop: with any number of consumers, whichever
\* components have failed, returned or not yet started, a process whose
\* context is done has ended or has a step to take.
THEOREM NobodyWaitsForEver == Spec => []NeverStuck
<1>1. TypeOK /\ OnlyServersServe => NeverStuck
    <2> SUFFICES ASSUME TypeOK, OnlyServersServe, Cancelled, phase = "running", ~AllReturned
                 PROVE  \E c \in Components : ComponentCan(c)
        BY DEF NeverStuck, MainCan, Ended, TypeOK
    <2>1. PICK c \in Components : comp[c] \notin {"returned", "refused"}
        BY DEF AllReturned
    <2> QED BY <2>1 DEF TypeOK, OnlyServersServe, ComponentCan
<1>2. Init => OnlyServersServe
    BY DEF Init, OnlyServersServe
<1> QED BY <1>1, <1>2, TypeCorrect, ServingKeeps, PTL DEF Spec

----------------------------------------------------------------------------
(* The steps run out.                                                      *)

\* Every step of New opens one client at most, the last one the readers.
MostClosers == 5 + Cardinality(Consumers)
ClosersFit == Len(closers) <= (IF booted = 6 THEN MostClosers ELSE booted)

LEMMA ConsumersCounted == Cardinality(Consumers) \in Nat /\ Len(Readers) = Cardinality(Consumers)
<1> DEFINE n == Cardinality(Consumers)
<1>1. n \in Nat /\ ExistsBijection(1..n, Consumers)
    BY FS_CardinalityType, ClosersAssumption
<1>2. \E s \in [1..n -> Consumers] : \A c \in Consumers : \E i \in DOMAIN s : s[i] = c
    BY <1>1 DEF ExistsBijection, Bijection, Surjection
<1>3. Readers \in [1..n -> Consumers]
    BY <1>2 DEF Readers
<1> QED BY <1>1, <1>3

LEMMA ClosersFitKeeps == TypeOK /\ ClosersFit /\ [Next]_vars => ClosersFit'
<1> SUFFICES ASSUME TypeOK, ClosersFit, [Next]_vars PROVE ClosersFit'
    OBVIOUS
<1>1. CASE BootStep
    <2> DEFINE more == BootSteps[booted + 1]
    <2>1. booted \in 0..5 /\ booted' = booted + 1 /\ closers' = closers \o more
        BY <1>1, BootStepsType DEF BootStep, TypeOK
    <2>2. more \in Seq(Closers) /\ closers \in Seq(Closers)
        BY <2>1, BootStepsType DEF TypeOK, Closers
    <2>3. Len(closers') = Len(closers) + Len(more)
        BY <2>1, <2>2
    <2>4. booted = 5 => Len(more) = Cardinality(Consumers)
        BY BootStepsType, ConsumersCounted
    <2>5. booted # 5 => more \in {<<"redis">>, <<>>, <<"mysql">>, <<NilCloser>>}
        BY <2>1 DEF BootSteps, StorageCloser
    <2> HIDE DEF more
    <2>6. Len(<<"redis">>) = 1 /\ Len(<<>>) = 0 /\ Len(<<"mysql">>) = 1 /\ Len(<<NilCloser>>) = 1
        OBVIOUS
    <2>7. booted # 5 => Len(more) = 0 \/ Len(more) = 1
        BY <2>5, <2>6
    <2> QED BY <2>1, <2>2, <2>3, <2>4, <2>7, ConsumersCounted DEF ClosersFit, MostClosers
<1>2. CASE UNCHANGED <<booted, closers>>
    BY <1>2 DEF ClosersFit
<1>3. BootStep \/ UNCHANGED <<booted, closers>>
    BY DEF Next, MainStep, Start, WaitReturns, Close, Exit, TelemetryStep, TelemetryStart,
           TelemetryStop, TelemetryPanic, Signal, Failure, BootFailure, HTTPListenFailure,
           GRPCListenFailure, ServeFailure, Finished, ServerStep, Listen, Serve, StopServer,
           ServeEnds, ConsumerStep, ConsumerStart, ConsumerStop, Arrive, Answer, vars
<1> QED BY <1>1, <1>2, <1>3

\* What is left to do of a process, as pairs of what and who or which.
Tasks ==
    ((({"boot"} \X (1..6)) \cup ({"close"} \X (1..MostClosers)))
        \cup ({"start", "serve", "return"} \X Components))
    \cup (({"stop"} \X Servers) \cup ({"signal", "run", "wait", "end"} \X {0}))
Due(t, x) ==
    \/ t = "boot" /\ x > booted
    \/ t = "close" /\ x > nclosed
    \/ t = "start" /\ comp[x] = "new"
    \/ t = "serve" /\ comp[x] \in {"new", "up"}
    \/ t = "return" /\ comp[x] \in {"new", "up", "serving"}
    \/ t = "stop" /\ x \notin stopped
    \/ t = "signal" /\ ~signalled
    \/ t = "run" /\ phase = "boot"
    \/ t = "wait" /\ phase \in {"boot", "running"}
    \/ t = "end" /\ ~Ended
Left == {y \in Tasks : Due(y[1], y[2])}

LEMMA FewAreFinite ==
    ASSUME NEW a, NEW b, NEW c, NEW d
    PROVE  IsFiniteSet({a}) /\ IsFiniteSet({a, b, c}) /\ IsFiniteSet({a, b, c, d})
<1>1. IsFiniteSet({a}) /\ IsFiniteSet({b}) /\ IsFiniteSet({c}) /\ IsFiniteSet({d})
    BY FS_Singleton
<1>2. IsFiniteSet({a} \cup {b})
    BY <1>1, FS_Union
<1>3. IsFiniteSet(({a} \cup {b}) \cup {c})
    BY <1>1, <1>2, FS_Union
<1>4. IsFiniteSet((({a} \cup {b}) \cup {c}) \cup {d})
    BY <1>1, <1>3, FS_Union
<1>5. /\ ({a} \cup {b}) \cup {c} = {a, b, c}
      /\ (({a} \cup {b}) \cup {c}) \cup {d} = {a, b, c, d}
    OBVIOUS
<1> QED BY <1>1, <1>3, <1>4, <1>5

LEMMA TasksAreFinite == IsFiniteSet(Tasks)
<1>1. IsFiniteSet({"boot"} \X (1..6)) /\ IsFiniteSet({"close"} \X (1..MostClosers))
    <2>1. 1 \in Int /\ 6 \in Int /\ MostClosers \in Int
        BY ConsumersCounted DEF MostClosers
    <2>2. IsFiniteSet(1..6) /\ IsFiniteSet(1..MostClosers)
        BY <2>1, FS_Interval
    <2>3. IsFiniteSet({"boot"}) /\ IsFiniteSet({"close"})
        BY FS_Singleton
    <2>4. IsFiniteSet({"boot"} \X (1..6))
        BY <2>2, <2>3, FS_Product
    <2>5. IsFiniteSet({"close"} \X (1..MostClosers))
        BY <2>2, <2>3, FS_Product
    <2> QED BY <2>4, <2>5
<1>2. IsFiniteSet(Servers)
    <2>1. IsFiniteSet({"http"} \cup {"grpc"})
        BY FewAreFinite, FS_Union
    <2>2. {"http"} \cup {"grpc"} = Servers
        BY DEF Servers
    <2> QED BY <2>1, <2>2
<1>3. IsFiniteSet(Components)
    <2>1. IsFiniteSet(Servers \cup {"telemetry"})
        BY <1>2, FewAreFinite, FS_Union
    <2> QED BY <2>1, ClosersAssumption, FS_Union DEF Components
<1>4. IsFiniteSet({"start", "serve", "return"} \X Components)
    BY <1>3, FewAreFinite, FS_Product
<1>5. IsFiniteSet({"stop"} \X Servers) /\ IsFiniteSet({"signal", "run", "wait", "end"} \X {0})
    BY <1>2, FewAreFinite, FS_Product
<1>6. IsFiniteSet((({"boot"} \X (1..6)) \cup ({"close"} \X (1..MostClosers)))
                    \cup ({"start", "serve", "return"} \X Components))
    <2>1. IsFiniteSet(({"boot"} \X (1..6)) \cup ({"close"} \X (1..MostClosers)))
        BY <1>1, FS_Union
    <2> QED BY <1>4, <2>1, FS_Union
<1>7. IsFiniteSet(({"stop"} \X Servers) \cup ({"signal", "run", "wait", "end"} \X {0}))
    BY <1>5, FS_Union
<1> QED BY <1>6, <1>7, FS_Union DEF Tasks

LEMMA LeftIsFinite == IsFiniteSet(Left) /\ Cardinality(Left) \in Nat
<1>1. Left \in SUBSET Tasks
    BY DEF Left
<1> QED BY <1>1, TasksAreFinite, FS_Subset, FS_CardinalityType

\* A step that makes nothing due and something done has less left after it.
LEMMA LessLeft ==
    ASSUME \A y \in Tasks : Due(y[1], y[2])' => Due(y[1], y[2]),
           NEW z \in Tasks, Due(z[1], z[2]), ~Due(z[1], z[2])'
    PROVE  Cardinality(Left') < Cardinality(Left)
<1>1. Tasks' = Tasks
    BY Zenon DEF Tasks, MostClosers, Components, Servers
<1>2. Left' \in SUBSET Left
    BY <1>1 DEF Left
<1>3. z \in Left /\ z \notin Left'
    BY <1>1 DEF Left
<1>4. Cardinality(Left') <= Cardinality(Left) /\ Left' # Left /\ Cardinality(Left') \in Nat
    BY <1>2, <1>3, LeftIsFinite, FS_Subset, FS_CardinalityType
<1> QED BY <1>2, <1>4, LeftIsFinite, FS_Subset

\* A component goes on.
LEMMA ComponentGoesOn ==
    ASSUME TypeOK, NEW c \in Components, NEW l, comp' = [comp EXCEPT ![c] = l],
           \/ comp[c] = "new" /\ l \in {"up", "returned", "refused"}
           \/ comp[c] = "up" /\ l \in {"serving", "returned"}
           \/ comp[c] = "serving" /\ l = "returned",
           UNCHANGED <<phase, booted, nclosed, signalled, stopped>>
    PROVE  Cardinality(Left') < Cardinality(Left)
<1>1. comp'[c] = l /\ \A d \in Components \ {c} : comp'[d] = comp[d]
    BY DEF TypeOK
<1>2. ASSUME NEW y \in Tasks, Due(y[1], y[2])' PROVE Due(y[1], y[2])
    <2>1. y[1] \in {"start", "serve", "return"} => y[2] \in Components
        BY DEF Tasks
    <2>2. CASE y[1] \in {"start", "serve", "return"}
        BY <1>1, <1>2, <2>1, <2>2 DEF Due
    <2>3. CASE y[1] \notin {"start", "serve", "return"}
        BY <1>2, <2>3 DEF Due, Ended
    <2> QED BY <2>2, <2>3
<1>3. \A t \in {"start", "serve", "return"} : <<t, c>> \in Tasks
    BY DEF Tasks
<1>4. \E t \in {"start", "serve", "return"} : Due(t, c) /\ ~Due(t, c)'
    BY <1>1 DEF Due
<1>5. PICK t \in {"start", "serve", "return"} : Due(t, c) /\ ~Due(t, c)'
    BY <1>4
<1>6. <<t, c>>[1] = t /\ <<t, c>>[2] = c
    OBVIOUS
<1> QED BY <1>2, <1>3, <1>5, <1>6, LessLeft

\* The phase of the process goes on, whether or not it is ended by its steps.
LEMMA PhaseGoesOn ==
    ASSUME \/ phase = "boot" /\ phase' \in {"running", "panicked", "killed"}
           \/ phase = "running" /\ phase' \in {"closing", "panicked"}
           \/ phase = "closing" /\ phase' \in {"exited", "panicked"},
           UNCHANGED <<comp, booted, nclosed, signalled, stopped>>
    PROVE  Cardinality(Left') < Cardinality(Left)
<1>1. ASSUME NEW y \in Tasks, Due(y[1], y[2])' PROVE Due(y[1], y[2])
    BY <1>1 DEF Due, Ended
<1>2. \A t \in {"run", "wait", "end"} : <<t, 0>> \in Tasks
    BY DEF Tasks
<1>3. PICK t \in {"run", "wait", "end"} : Due(t, 0) /\ ~Due(t, 0)'
    BY DEF Due, Ended
<1>4. <<t, 0>>[1] = t /\ <<t, 0>>[2] = 0
    OBVIOUS
<1> QED BY <1>1, <1>2, <1>3, <1>4, LessLeft

LEMMA TaskNumbers ==
    ASSUME NEW y \in Tasks
    PROVE  (y[1] = "boot" => y[2] \in 1..6) /\ (y[1] = "close" => y[2] \in Nat)
<1>1. MostClosers \in Nat
    BY ConsumersCounted DEF MostClosers
<1>2. \/ y \in {"boot"} \X (1..6)
      \/ y \in {"close"} \X (1..MostClosers)
      \/ y \in {"start", "serve", "return"} \X Components
      \/ y \in {"stop"} \X Servers
      \/ y \in {"signal", "run", "wait", "end"} \X {0}
    BY DEF Tasks
<1> QED BY <1>1, <1>2

LEMMA MainGoesOn ==
    ASSUME TypeOK, ClosersFit, MainStep
    PROVE  Cardinality(Left') < Cardinality(Left)
<1>1. CASE BootStep
    <2>1. /\ booted \in 0..5 /\ booted' = booted + 1
          /\ UNCHANGED <<phase, nclosed, signalled, comp, stopped>>
        BY <1>1, BootStepsType DEF BootStep, TypeOK
    <2>2. ASSUME NEW y \in Tasks, Due(y[1], y[2])' PROVE Due(y[1], y[2])
        <3>1. CASE y[1] = "boot"
            <4>1. y[2] \in 1..6 /\ y[2] > booted'
                BY <2>2, <3>1, TaskNumbers DEF Due
            <4> QED BY <2>1, <3>1, <4>1 DEF Due
        <3>2. CASE y[1] # "boot"
            BY <2>1, <2>2, <3>2 DEF Due, Ended
        <3> QED BY <3>1, <3>2
    <2>3. PICK n \in 1..6 : n = booted + 1
        BY <2>1
    <2>4. <<"boot", n>> \in Tasks /\ <<"boot", n>>[1] = "boot" /\ <<"boot", n>>[2] = n
        BY DEF Tasks
    <2>5. Due("boot", n) /\ ~Due("boot", n)'
        BY <2>1, <2>3 DEF Due
    <2> QED BY <2>2, <2>4, <2>5, LessLeft
<1>2. CASE Start \/ WaitReturns \/ Exit
    BY <1>2, PhaseGoesOn DEF Start, WaitReturns, Exit, End
<1>3. CASE Close /\ closers[nclosed + 1] = NilCloser
    BY <1>3, PhaseGoesOn DEF Close, End
<1>4. CASE Close /\ closers[nclosed + 1] # NilCloser
    <2>0. /\ nclosed < Len(closers) /\ nclosed' = nclosed + 1
          /\ UNCHANGED <<phase, booted, signalled, comp, stopped>>
        BY <1>4 DEF Close
    <2>1. nclosed \in Nat /\ nclosed + 1 \in 1..MostClosers
        <3>1. nclosed \in 0..Len(closers) /\ Len(closers) \in Nat /\ booted \in 0..6
            <4>1. booted \in 0..6
                BY BootStepsType DEF TypeOK
            <4>2. closers \in Seq(Closers) /\ nclosed \in 0..Len(closers)
                BY DEF TypeOK, Closers
            <4> QED BY <4>1, <4>2
        <3>2. MostClosers \in Nat /\ MostClosers >= 5
            BY ConsumersCounted DEF MostClosers
        <3>3. Len(closers) <= MostClosers \/ (Len(closers) <= booted /\ booted # 6)
            BY DEF ClosersFit
        <3>4. Len(closers) <= MostClosers
            BY <3>1, <3>2, <3>3
        <3> QED BY <2>0, <3>1, <3>2, <3>4
    <2>2. ASSUME NEW y \in Tasks, Due(y[1], y[2])' PROVE Due(y[1], y[2])
        <3>1. CASE y[1] = "close"
            <4>1. y[2] \in Nat /\ y[2] > nclosed'
                BY <2>2, <3>1, TaskNumbers DEF Due
            <4> QED BY <2>0, <2>1, <3>1, <4>1 DEF Due
        <3>2. CASE y[1] # "close"
            BY <2>0, <2>2, <3>2 DEF Due, Ended
        <3> QED BY <3>1, <3>2
    <2>3. PICK n \in 1..MostClosers : n = nclosed + 1
        BY <2>1
    <2>4. <<"close", n>> \in Tasks /\ <<"close", n>>[1] = "close" /\ <<"close", n>>[2] = n
        BY DEF Tasks
    <2>5. n \in Nat
        BY <2>1, <2>3
    <2>6. Due("close", n) /\ ~Due("close", n)'
        BY <2>0, <2>1, <2>3, <2>5 DEF Due
    <2> QED BY <2>2, <2>4, <2>6, LessLeft
<1> QED BY <1>1, <1>2, <1>3, <1>4 DEF MainStep

LEMMA SignalGoesOn ==
    ASSUME Signal PROVE Cardinality(Left') < Cardinality(Left)
<1>1. CASE phase = "boot"
    BY <1>1, PhaseGoesOn DEF Signal, End
<1>2. CASE phase # "boot"
    <2>1. ~signalled /\ signalled' /\ UNCHANGED <<phase, booted, nclosed, comp, stopped>>
        BY <1>2 DEF Signal
    <2>2. ASSUME NEW y \in Tasks, Due(y[1], y[2])' PROVE Due(y[1], y[2])
        BY <2>1, <2>2 DEF Due, Ended
    <2>3. <<"signal", 0>> \in Tasks /\ <<"signal", 0>>[1] = "signal" /\ <<"signal", 0>>[2] = 0
        BY DEF Tasks
    <2>4. Due("signal", 0) /\ ~Due("signal", 0)'
        BY <2>1 DEF Due
    <2> QED BY <2>2, <2>3, <2>4, LessLeft
<1> QED BY <1>1, <1>2

LEMMA StopGoesOn ==
    ASSUME NEW s \in Servers, StopServer(s) PROVE Cardinality(Left') < Cardinality(Left)
<1>1. /\ s \notin stopped /\ stopped' = stopped \cup {s}
      /\ UNCHANGED <<phase, booted, nclosed, signalled, comp>>
    BY DEF StopServer
<1>2. ASSUME NEW y \in Tasks, Due(y[1], y[2])' PROVE Due(y[1], y[2])
    BY <1>1, <1>2 DEF Due, Ended
<1>3. <<"stop", s>> \in Tasks /\ <<"stop", s>>[1] = "stop" /\ <<"stop", s>>[2] = s
    BY DEF Tasks
<1>4. Due("stop", s) /\ ~Due("stop", s)'
    BY <1>1 DEF Due
<1> QED BY <1>2, <1>3, <1>4, LessLeft

LEMMA StepGoesOn ==
    ASSUME TypeOK, ClosersFit, [Next]_vars
    PROVE  \/ Cardinality(Left') < Cardinality(Left)
           \/ \E r \in Requests : Arrive(r) \/ Answer(r)
           \/ UNCHANGED vars
<1> DEFINE Less == Cardinality(Left') < Cardinality(Left)
<1>1. Servers \subseteq Components /\ Consumers \subseteq Components /\ "telemetry" \in Components
    BY DEF Components
<1>2. CASE MainStep \/ Signal
    BY <1>2, MainGoesOn, SignalGoesOn
<1>3. CASE TelemetryStep
    <2>1. CASE TelemetryStart \/ TelemetryStop
        BY <1>1, <2>1, ComponentGoesOn DEF TelemetryStart, TelemetryStop, At, Enter, Return
    <2>2. CASE TelemetryPanic
        BY <2>2, PhaseGoesOn DEF TelemetryPanic, At, End
    <2> QED BY <1>3, <2>1, <2>2 DEF TelemetryStep
<1>4. CASE Failure
    <2>1. CASE BootFailure \/ GRPCListenFailure
        BY <2>1, PhaseGoesOn DEF BootFailure, GRPCListenFailure, At, End
    <2>2. CASE HTTPListenFailure
        BY <1>1, <2>2, ComponentGoesOn DEF HTTPListenFailure, At, Servers
    <2>3. ASSUME NEW s \in Servers, ServeFailure(s) PROVE Less
        BY <1>1, <2>3, ComponentGoesOn DEF ServeFailure, At, Return
    <2> QED BY <1>4, <2>1, <2>2, <2>3 DEF Failure
<1>5. ASSUME NEW s \in Servers, Listen(s) \/ Serve(s) \/ ServeEnds(s) PROVE Less
    BY <1>1, <1>5, ComponentGoesOn DEF Listen, Serve, ServeEnds, At, Enter, Return
<1>6. ASSUME NEW c \in Consumers, ConsumerStep(c) PROVE Less
    BY <1>1, <1>6, ComponentGoesOn DEF ConsumerStep, ConsumerStart, ConsumerStop, At, Enter, Return
<1> HIDE DEF Less
<1> QED BY <1>2, <1>3, <1>4, <1>5, <1>6, StopGoesOn DEF Next, ServerStep, Finished, Less

\* The steps run out: each step of a process but those of its requests leaves
\* less to do, whatever fails on the way.
THEOREM StepsRunOut ==
    Spec => [][\/ Cardinality(Left') < Cardinality(Left)
               \/ \E r \in Requests : Arrive(r) \/ Answer(r)]_vars
<1>1. TypeOK /\ ClosersFit /\ [Next]_vars
        => [\/ Cardinality(Left') < Cardinality(Left)
            \/ \E r \in Requests : Arrive(r) \/ Answer(r)]_vars
    BY StepGoesOn
<1>2. Init => ClosersFit
    BY DEF Init, ClosersFit
<1> QED BY <1>1, <1>2, TypeCorrect, ClosersFitKeeps, PTL DEF Spec

=============================================================================
