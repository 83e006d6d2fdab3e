--------------------------- MODULE ConsumerMetrics --------------------------
(***************************************************************************)
(* The count of consumed messages (internal/metrics/metrics.go, and the    *)
(* registration in consume.NewConsumers): a Kafka reader counts what it    *)
(* reads since it was last asked, a callback asks it and keeps the total,  *)
(* and the telemetry collects the callbacks and exports, or fails to.      *)
(*                                                                         *)
(* The telemetry is enabled.  kafka-go and the OpenTelemetry SDK are        *)
(* modelled as the code uses them; queue length, capacity and lag are      *)
(* passed on as they are.                                                  *)
(***************************************************************************)
EXTENDS Integers

CONSTANTS
    Num,            \* config: the readers of each group
    GroupID,        \* config: the Kafka group of each destination
    MaxMessages,    \* messages a reader reads
    MaxFaults       \* exports that fail

Destinations == {"cache", "search"}

ASSUME MetricsAssumption ==
    /\ Num \in [Destinations -> Nat]
    /\ DOMAIN GroupID = Destinations
    /\ MaxMessages \in Nat /\ MaxFaults \in Nat

\* NewConsumers numbers the readers of each destination.
Readers == UNION {{[dest |-> d, i |-> n] : n \in 0..(Num[d] - 1)} : d \in Destinations}

\* The attributes an observation is made with: the consumer, which is the
\* group's id and the number, and the destination.  Observations with the same
\* attributes are of the same series.
Series(r) == <<GroupID[r.dest], r.i, r.dest>>

AllSeries == {Series(r) : r \in Readers}

\* newConsumers makes the readers of the cache group first, then those of the
\* search group, each group in the order of the numbers.
Precedes(q, r) == \/ q.dest = "cache" /\ r.dest = "search"
                  \/ q.dest = r.dest /\ q.i < r.i

VARIABLES
    made,       \* the readers that New has made
    read,       \* messages each reader has read
    snapshot,   \* those since Stats was last called
    registered, \* the readers whose callback is registered
    total,      \* totalMsgCount, of which every callback has a copy
    todo,       \* the callbacks of this collection that have not run
    phase,      \* New still runs, or where the periodic reader of the telemetry is
    observed,   \* what this collection has observed of each series
    exported,   \* what the outside last heard of each series
    atStart,    \* history: read when this collection began
    faults      \* exports that have failed

vars == <<made, read, snapshot, registered, total, todo, phase, observed, exported, atStart, faults>>

Init ==
    /\ made = {}
    /\ read = [r \in Readers |-> 0]
    /\ snapshot = [r \in Readers |-> 0]
    /\ registered = {}
    /\ total = [r \in Readers |-> 0]
    /\ todo = {}
    /\ phase = "new"
    /\ observed = [s \in AllSeries |-> 0]
    /\ exported = [s \in AllSeries |-> 0]
    /\ atStart = [r \in Readers |-> 0]
    /\ faults = 0

\* The reader reads from Kafka as soon as it is made.
Read(r) ==
    /\ r \in made /\ read[r] < MaxMessages
    /\ read' = [read EXCEPT ![r] = @ + 1]
    /\ snapshot' = [snapshot EXCEPT ![r] = @ + 1]
    /\ UNCHANGED <<made, registered, total, todo, phase, observed, exported, atStart, faults>>

\* A slip: a callback is registered for the first reader of a destination.
RegisterFirst(r) ==
    /\ registered' = IF r.i = 0 THEN registered \cup {r} ELSE registered
    /\ total' = [total EXCEPT ![r] = 0]

\* RegisterMetrics: the callback closes over a copy of the collector, since
\* the method has a value for its receiver.
Register(r) ==
    /\ registered' = registered \cup {r}
    /\ total' = [total EXCEPT ![r] = 0]

\* A round of the loop of NewConsumers: a reader is made, and registered.
NewConsumer(r) ==
    /\ phase = "new" /\ r \notin made
    /\ \A q \in Readers : Precedes(q, r) => q \in made
    /\ made' = made \cup {r}
    /\ Register(r)
    /\ UNCHANGED <<read, snapshot, todo, phase, observed, exported, atStart, faults>>

\* New has returned, and App.Run has run the telemetry, which sets the meter
\* provider: from here on there are collections.
SetMeterProvider ==
    /\ phase = "new" /\ made = Readers
    /\ phase' = "idle"
    /\ UNCHANGED <<made, read, snapshot, registered, total, todo, observed, exported, atStart, faults>>

\* The periodic reader begins a collection.
Collect ==
    /\ phase = "idle"
    /\ phase' = "collecting"
    /\ todo' = registered
    /\ observed' = [s \in AllSeries |-> 0]
    /\ atStart' = read
    /\ UNCHANGED <<made, read, snapshot, registered, total, exported, faults>>

\* A slip: the method has a pointer for its receiver, and the callbacks of a
\* destination one total between them.
CallbackShared(r) ==
    /\ phase = "collecting" /\ r \in todo
    /\ LET n == total[r] + snapshot[r]
       IN  /\ total' = [q \in Readers |-> IF q.dest = r.dest THEN n ELSE total[q]]
           /\ observed' = [observed EXCEPT ![Series(r)] = n]
    /\ snapshot' = [snapshot EXCEPT ![r] = 0]
    /\ todo' = todo \ {r}
    /\ UNCHANGED <<made, read, registered, phase, exported, atStart, faults>>

\* A slip: what the reader says is observed as it is.
CallbackDelta(r) ==
    /\ phase = "collecting" /\ r \in todo
    /\ total' = [total EXCEPT ![r] = @ + snapshot[r]]
    /\ observed' = [observed EXCEPT ![Series(r)] = snapshot[r]]
    /\ snapshot' = [snapshot EXCEPT ![r] = 0]
    /\ todo' = todo \ {r}
    /\ UNCHANGED <<made, read, registered, phase, exported, atStart, faults>>

\* A slip: the change since the last collection is observed.
CallbackDifference(r) ==
    /\ phase = "collecting" /\ r \in todo
    /\ total' = [total EXCEPT ![r] = @ + snapshot[r]]
    /\ observed' = [observed EXCEPT ![Series(r)] = snapshot[r] - total[r]]
    /\ snapshot' = [snapshot EXCEPT ![r] = 0]
    /\ todo' = todo \ {r}
    /\ UNCHANGED <<made, read, registered, phase, exported, atStart, faults>>

\* The callback of r: Stats returns the messages since it was last called, and
\* the total that includes them is observed.
Callback(r) ==
    /\ phase = "collecting" /\ r \in todo
    /\ total' = [total EXCEPT ![r] = @ + snapshot[r]]
    /\ observed' = [observed EXCEPT ![Series(r)] = total[r] + snapshot[r]]
    /\ snapshot' = [snapshot EXCEPT ![r] = 0]
    /\ todo' = todo \ {r}
    /\ UNCHANGED <<made, read, registered, phase, exported, atStart, faults>>

\* What was observed is exported: the series of the callbacks that ran.
Export ==
    /\ phase = "collecting" /\ todo = {}
    /\ phase' = "idle"
    /\ exported' = [s \in AllSeries |-> IF observed[s] > 0 THEN observed[s] ELSE exported[s]]
    /\ UNCHANGED <<made, read, snapshot, registered, total, todo, observed, atStart, faults>>

\* The export fails, and what was observed is thrown away.
ExportFails ==
    /\ phase = "collecting" /\ todo = {} /\ faults < MaxFaults
    /\ phase' = "idle"
    /\ faults' = faults + 1
    /\ UNCHANGED <<made, read, snapshot, registered, total, todo, observed, exported, atStart>>

----------------------------------------------------------------------------

Next ==
    \/ \E r \in Readers : NewConsumer(r) \/ Read(r) \/ Callback(r)
    \/ SetMeterProvider \/ Collect \/ Export \/ ExportFails

\* New and the start of the telemetry come to their end, and collections go on.
Fairness ==
    /\ \A r \in Readers : WF_vars(NewConsumer(r)) /\ WF_vars(Callback(r))
    /\ WF_vars(SetMeterProvider) /\ WF_vars(Collect) /\ WF_vars(Export)

Spec == Init /\ [][Next]_vars /\ Fairness

----------------------------------------------------------------------------
(* Properties.                                                             *)

Counts == [Readers -> Nat]

\* The type invariant.
TypeOK ==
    /\ read \in Counts /\ snapshot \in Counts /\ total \in Counts /\ atStart \in Counts
    /\ made \subseteq Readers /\ registered \subseteq made /\ todo \subseteq registered
    /\ phase \in {"new", "idle", "collecting"}
    /\ observed \in [AllSeries -> Nat] /\ exported \in [AllSeries -> Nat]
    /\ faults \in 0..MaxFaults

\* No message is lost between a reader and its callback, or counted twice,
\* whenever the reader reads and however often it is asked (metrics.go: the
\* total is kept because Stats starts anew each time it is called).
NothingUncounted == \A r \in Readers : total[r] + snapshot[r] = read[r]

\* What becomes known of a reader is what it had read at some moment of the
\* collection, whatever the others have read and however many exports failed.
ExportedIsCurrent ==
    [][\A r \in Readers : LET n == exported'[Series(r)]
                          IN  n = exported[Series(r)] \/ (atStart[r] <= n /\ n <= read[r])]_vars

\* The count of a series never goes back: each is the count of one reader,
\* though the groups of both destinations may have the same id, as they have
\* by default (consumer.go: groupID; metrics.go: the attributes).
ExportedOnlyGrows == [][\A s \in AllSeries : exported[s] <= exported'[s]]_vars

\* In the end everything that was read is reported.
EventuallyReported == \A r \in Readers : <>[](exported[Series(r)] = read[r])

----------------------------------------------------------------------------
(* The inductive invariant behind the properties.                          *)

\* A callback that has run has observed the total, which it had brought up to
\* date since the collection began; what is exported is never ahead of it.
Observed ==
    \A r \in Readers :
        /\ exported[Series(r)] <= total[r]
        /\ observed[Series(r)] <= total[r]
        /\ atStart[r] <= read[r]
        /\ phase = "collecting" /\ observed[Series(r)] > 0 =>
               atStart[r] <= observed[Series(r)] /\ exported[Series(r)] <= observed[Series(r)]

\* A callback that is yet to be registered has counted nothing.
Unregistered == \A r \in Readers : r \notin registered => total[r] = 0

IInv == TypeOK /\ NothingUncounted /\ Observed /\ Unregistered

=============================================================================
