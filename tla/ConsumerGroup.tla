--------------------------- MODULE ConsumerGroup ---------------------------
(***************************************************************************)
(* The consumers of the users topic: internal/consume/consumer.go and the  *)
(* processor it calls, internal/user/consume/processor.go.                 *)
(*                                                                         *)
(* A group of consumers copies the creations published on a partitioned    *)
(* Kafka topic into one store (Redis for the cache group, Elasticsearch    *)
(* for the search group).  Every consumer is a goroutine in the loop of    *)
(* c.Run: fetch a message, process it, commit its offset, whatever the     *)
(* outcome fetch the next one.                                             *)
(*                                                                         *)
(* Code outside src/ is modelled as src/ uses it: the connector that       *)
(* publishes the changes of the users table, the broker that compacts the  *)
(* topic, keeps the committed offsets and hands out partitions, and the    *)
(* fetch loop of the kafka-go reader.                                      *)
(*                                                                         *)
(* A message is a pair <<p, n>>: the n-th message of partition p, counted  *)
(* from 1.  An offset is the number of messages it lies behind, so a       *)
(* committed offset k says that messages 1..k need not be read again.      *)
(***************************************************************************)
EXTENDS Naturals, Sequences, FiniteSets

CONSTANTS
    Consumers,      \* the readers of the group, each modelled as a process
    Partitions,     \* the partitions of the topic
    Ids,            \* user ids (uuid.New: an id is inserted at most once)
    Versions,       \* the contents a row can hold besides its id
    PartitionOf,    \* the partition a key is published to
    NoUser,         \* user.User{}, and the absence of a row or of an entry
    NoMessage,      \* a consumer has no message in hand
    Nobody,         \* a partition has no owner
    SilentRejects,  \* TRUE if the store's Create returns nil for a rejected
                    \* write, as storage/elastic does
    MaxEvents,      \* bound: messages per partition
    MaxFaults       \* bound: crashes, failures, spurious rebalances, ...

Users == [id : Ids, version : Versions]
Messages == Partitions \X (Nat \ {0})

ASSUME PartitionOfAssumption == PartitionOf \in [Ids -> Partitions]
ASSUME NoUserAssumption == NoUser \notin Users
ASSUME NoMessageAssumption == NoMessage \notin Messages
ASSUME NobodyAssumption == Nobody \notin Consumers
ASSUME SilentRejectsAssumption == SilentRejects \in BOOLEAN
ASSUME BoundsAssumption == MaxEvents \in Nat /\ MaxFaults \in Nat

VARIABLES
    \* the source of the messages
    table,      \* the current row of each id in MySQL
    topic,      \* the messages of each partition, in order
    compacted,  \* the messages log compaction has removed
    \* the group coordinator
    committed,  \* the committed offset of each partition
    owner,      \* the consumer each partition is assigned to
    members,    \* the consumers that take part in the current generation
    synced,     \* those that have picked up its assignment
    \* the consumers
    pc,         \* where the loop of each consumer is
    ctxDone,    \* the consumers whose context has been cancelled
    hand,       \* the message a consumer has fetched and is dealing with
    view,       \* the partitions a consumer fetches from
    position,   \* the offset it fetches from next
    \* the store, and what was written to the log instead
    store,      \* the entry of each id
    failed,     \* messages whose processing ended in a logged error
    rejected,   \* messages whose write the store refused, unnoticed
    faults      \* how many disturbances there have been

topicVars == <<table, topic, compacted>>
coordVars == <<committed, owner, members, synced>>
loopVars  == <<pc, ctxDone, hand, view, position>>
storeVars == <<store, failed, rejected>>
vars == <<topicVars, coordVars, loopVars, storeVars, faults>>

----------------------------------------------------------------------------
(* Events.  A change carries the row before and after; a tombstone has a   *)
(* key and no value; an undecodable message is one Decode returns an error *)
(* for.                                                                    *)

Change(k, b, a) == [kind |-> "change", key |-> k, before |-> b, after |-> a]
Tombstone(k)    == [kind |-> "tombstone", key |-> k, before |-> NoUser, after |-> NoUser]
Undecodable(k)  == [kind |-> "undecodable", key |-> k, before |-> NoUser, after |-> NoUser]

Events == [kind : {"change", "tombstone", "undecodable"}, key : Ids,
           before : Users \cup {NoUser}, after : Users \cup {NoUser}]

\* The three cases of Process.
IsNoChange(e) == e.kind = "change" /\ e.before = e.after
IsCreate(e)   == e.kind = "change" /\ e.before # e.after /\ e.before = NoUser
IsOther(e)    == e.kind = "change" /\ e.before # e.after /\ e.before # NoUser

Published(m) == m[1] \in Partitions /\ m[2] \in 1..Len(topic[m[1]])
EventOf(m) == topic[m[1]][m[2]]

\* Every event published so far.
Log == UNION {{topic[p][n] : n \in 1..Len(topic[p])} : p \in Partitions}

----------------------------------------------------------------------------
(* The consumer, the store and the group at the start: nothing published,  *)
(* nobody has joined, the readers are running (NewConsumers started them). *)

Init ==
    /\ table = [i \in Ids |-> NoUser]
    /\ topic = [p \in Partitions |-> <<>>]
    /\ compacted = {}
    /\ committed = [p \in Partitions |-> 0]
    /\ owner = [p \in Partitions |-> Nobody]
    /\ members = {}
    /\ synced = {}
    /\ pc = [c \in Consumers |-> "fetch"]
    /\ ctxDone = {}
    /\ hand = [c \in Consumers |-> NoMessage]
    /\ view = [c \in Consumers |-> {}]
    /\ position = [c \in Consumers |-> [p \in Partitions |-> 0]]
    /\ store = [i \in Ids |-> NoUser]
    /\ failed = {}
    /\ rejected = {}
    /\ faults = 0

\* One disturbance of the budget is used up.
Fault == faults < MaxFaults /\ faults' = faults + 1

----------------------------------------------------------------------------
(* The users table and the connector (external).  Its key is the id, so    *)
(* all messages of an id are in one partition, in the order of the changes.*)

Append1(p, e) ==
    /\ Len(topic[p]) < MaxEvents
    /\ topic' = [topic EXCEPT ![p] = Append(@, e)]

Inserted(i) == \E e \in Log : e.key = i /\ IsCreate(e)

\* A row is inserted.  Create draws a fresh uuid: an id that has had a row
\* never gets one again.
Insert(u) ==
    /\ ~Inserted(u.id)
    /\ table' = [table EXCEPT ![u.id] = u]
    /\ Append1(PartitionOf[u.id], Change(u.id, NoUser, u))
    /\ UNCHANGED <<compacted, coordVars, loopVars, storeVars, faults>>

\* A row is updated by hand, perhaps only in a column the processor does not
\* decode.
Update(u) ==
    /\ table[u.id] # NoUser
    /\ table' = [table EXCEPT ![u.id] = u]
    /\ Append1(PartitionOf[u.id], Change(u.id, table[u.id], u))
    /\ UNCHANGED <<compacted, coordVars, loopVars, storeVars, faults>>

\* A row is deleted by hand: the connector publishes the change and then a
\* tombstone.
Delete(i) ==
    LET p == PartitionOf[i] IN
    /\ table[i] # NoUser
    /\ Len(topic[p]) + 1 < MaxEvents
    /\ table' = [table EXCEPT ![i] = NoUser]
    /\ topic' = [topic EXCEPT ![p] = @ \o <<Change(i, table[i], NoUser), Tombstone(i)>>]
    /\ UNCHANGED <<compacted, coordVars, loopVars, storeVars, faults>>

\* The connector delivers at least once: after a restart of its own it
\* publishes again what it has published before.
Replay(m) ==
    /\ Published(m)
    /\ Append1(m[1], EventOf(m))
    /\ Fault
    /\ UNCHANGED <<table, compacted, coordVars, loopVars, storeVars>>

\* Something that is not an Avro message of the expected schema.
PublishUndecodable(i) ==
    /\ Append1(PartitionOf[i], Undecodable(i))
    /\ Fault
    /\ UNCHANGED <<table, compacted, coordVars, loopVars, storeVars>>

\* The topic is compacted (config.go): a message may be removed as soon as a
\* later one has its key.
Compact(m) ==
    /\ Published(m) /\ m \notin compacted
    /\ \E n \in m[2]+1..Len(topic[m[1]]) : topic[m[1]][n].key = EventOf(m).key
    /\ compacted' = compacted \cup {m}
    /\ Fault
    /\ UNCHANGED <<table, topic, coordVars, loopVars, storeVars>>

TopicStep ==
    \/ \E u \in Users : Insert(u) \/ Update(u)
    \/ \E i \in Ids : Delete(i) \/ PublishUndecodable(i)
    \/ \E p \in Partitions, n \in 1..MaxEvents : Replay(<<p, n>>) \/ Compact(<<p, n>>)

----------------------------------------------------------------------------
(* The group coordinator and the reader's own goroutines (external).       *)

Alive == {c \in Consumers : pc[c] # "down"}

\* A new generation: the partitions are assigned anew among those alive, and
\* a member of the previous generation can no longer commit.
NewGeneration ==
    /\ members' = Alive
    /\ \/ Alive = {} /\ owner' = [p \in Partitions |-> Nobody]
       \/ owner' \in [Partitions -> Alive]
    /\ synced' = {}
    /\ UNCHANGED <<committed, topicVars, loopVars, storeVars>>

\* A consumer has joined, has left, or has missed its heartbeats.
Rebalance == members # Alive /\ NewGeneration /\ UNCHANGED faults

\* A consumer only seemed to be gone.
SpuriousRebalance == members = Alive /\ Alive # {} /\ NewGeneration /\ Fault

\* A slip: new readers are configured to start from the end of the topic.
LastOffset(p) == Len(topic[p])

\* Where a reader begins in a partition it is assigned.
StartOffset(p) == committed[p]

\* A reader picks up its assignment and starts again from the committed
\* offsets, wherever the loop of the consumer is; what the consumer has in
\* hand stays there.
Sync(c) ==
    /\ c \in members \cap Alive /\ c \notin synced
    /\ synced' = synced \cup {c}
    /\ view' = [view EXCEPT ![c] = {p \in Partitions : owner[p] = c}]
    /\ position' = [position EXCEPT ![c] =
                      [p \in Partitions |-> IF owner[p] = c THEN StartOffset(p) ELSE 0]]
    /\ UNCHANGED <<committed, owner, members, pc, ctxDone, hand, topicVars, storeVars, faults>>

----------------------------------------------------------------------------
(* The loop of a consumer: c.Run, consume and Process.                     *)

\* The next message of p: those compaction has removed are stepped over.
IsNext(c, m) ==
    /\ m[1] \in view[c] /\ Published(m) /\ m \notin compacted /\ m[2] > position[c][m[1]]
    /\ \A n \in position[c][m[1]]+1..m[2]-1 : <<m[1], n>> \in compacted

\* FetchMessage returns a message.  A reader that has not heard of the new
\* generation yet goes on delivering from its old partitions.  With the
\* context cancelled and a message waiting the reader may still return it.
Fetch(c, m) ==
    /\ pc[c] = "fetch"
    /\ IsNext(c, m)
    /\ pc' = [pc EXCEPT ![c] = "consume"]
    /\ hand' = [hand EXCEPT ![c] = m]
    /\ position' = [position EXCEPT ![c][m[1]] = m[2]]
    /\ UNCHANGED <<ctxDone, view, topicVars, coordVars, storeVars, faults>>

\* A slip: the error of the cancelled context is logged like any other.
FetchRetried(c) == pc[c] = "fetch" /\ c \in ctxDone /\ UNCHANGED vars

\* FetchMessage returns the error of the cancelled context: Run returns nil.
\* Any other error is logged and the fetch is tried again, which changes
\* nothing.
FetchCancelled(c) ==
    /\ pc[c] = "fetch" /\ c \in ctxDone
    /\ pc' = [pc EXCEPT ![c] = "returned"]
    /\ UNCHANGED <<ctxDone, hand, view, position, topicVars, coordVars, storeVars, faults>>

Goto(c, l) == pc' = [pc EXCEPT ![c] = l]

\* Back to the top of the loop without the message.
Release(c) == Goto(c, "fetch") /\ hand' = [hand EXCEPT ![c] = NoMessage]

Consuming(c, m) == pc[c] = "consume" /\ hand[c] = m

\* A slip: Run gives up on the first error.
ReturnError(c, m) == Goto(c, "error") /\ UNCHANGED hand /\ failed' = failed \cup {m}

\* The error of consume is logged, and that is all: the offset is not
\* committed, the position of the reader stays behind the message.
LogError(c, m) == Release(c) /\ failed' = failed \cup {m}

\* A store operation may fail: on its own, which counts as a disturbance,
\* or because the context it was called with is cancelled.
MayFail(c) == IF c \in ctxDone THEN UNCHANGED faults ELSE Fault

\* msg.Value == nil.
ConsumeTombstone(c, m) ==
    /\ Consuming(c, m) /\ EventOf(m).kind = "tombstone"
    /\ Goto(c, "commit")
    /\ UNCHANGED <<ctxDone, hand, view, position, topicVars, coordVars, storeVars, faults>>

DecodeError(c, m) ==
    /\ Consuming(c, m) /\ EventOf(m).kind = "undecodable"
    /\ LogError(c, m)
    /\ UNCHANGED <<ctxDone, view, position, topicVars, coordVars, store, rejected, faults>>

\* Process, first case: before == after.
ProcessNoChange(c, m) ==
    /\ Consuming(c, m) /\ IsNoChange(EventOf(m))
    /\ Goto(c, "commit")
    /\ UNCHANGED <<ctxDone, hand, view, position, topicVars, coordVars, storeVars, faults>>

\* Process, second case: before is empty, Create is called.  It is an upsert
\* keyed by the id, in Redis (MSET) and in Elasticsearch (index) alike.
Upsert(u) == store' = [store EXCEPT ![u.id] = u]

ProcessCreate(c, m) ==
    /\ Consuming(c, m) /\ IsCreate(EventOf(m))
    /\ Upsert(EventOf(m).after)
    /\ Goto(c, "commit")
    /\ UNCHANGED <<ctxDone, hand, view, position, topicVars, coordVars, failed, rejected, faults>>

\* A slip: consume does not look at the error of Process.
ProcessErrorIgnored(c, m) ==
    /\ Consuming(c, m) /\ IsCreate(EventOf(m))
    /\ Goto(c, "commit")
    /\ MayFail(c)
    /\ UNCHANGED <<ctxDone, hand, view, position, topicVars, coordVars, storeVars>>

\* Create returns an error; the store may have applied the write before the
\* answer was lost.
ProcessCreateError(c, m) ==
    /\ Consuming(c, m) /\ IsCreate(EventOf(m))
    /\ Upsert(EventOf(m).after) \/ UNCHANGED store
    /\ LogError(c, m)
    /\ MayFail(c)
    /\ UNCHANGED <<ctxDone, view, position, topicVars, coordVars, rejected>>

\* The store answers with an error status that Create does not look at.
ProcessCreateRejected(c, m) ==
    /\ SilentRejects
    /\ Consuming(c, m) /\ IsCreate(EventOf(m))
    /\ rejected' = rejected \cup {m}
    /\ Goto(c, "commit")
    /\ Fault
    /\ UNCHANGED <<ctxDone, hand, view, position, topicVars, coordVars, store, failed>>

\* A slip: an update is written to the store like a creation.
ProcessUpdate(c, m) ==
    /\ Consuming(c, m) /\ IsOther(EventOf(m)) /\ EventOf(m).after # NoUser
    /\ Upsert(EventOf(m).after)
    /\ Goto(c, "commit")
    /\ UNCHANGED <<ctxDone, hand, view, position, topicVars, coordVars, failed, rejected, faults>>

\* Process, default case: "not implemented".
ProcessOther(c, m) ==
    /\ Consuming(c, m) /\ IsOther(EventOf(m))
    /\ LogError(c, m)
    /\ UNCHANGED <<ctxDone, view, position, topicVars, coordVars, store, rejected, faults>>

\* CommitMessages.  The broker accepts the offset of any member of the
\* current generation, for any partition, higher or lower than the last one.
Commit(c, m) ==
    /\ pc[c] = "commit" /\ hand[c] = m
    /\ c \in synced
    /\ committed' = [committed EXCEPT ![m[1]] = m[2]]
    /\ Release(c)
    /\ UNCHANGED <<owner, members, synced, ctxDone, view, position, topicVars, storeVars, faults>>

\* CommitMessages returns an error, which is logged.  A member of an older
\* generation may get one at once, or be kept waiting (see Waits).
CommitError(c, m) ==
    /\ pc[c] = "commit" /\ hand[c] = m
    /\ Release(c)
    /\ IF c \in synced THEN MayFail(c) ELSE UNCHANGED faults
    /\ UNCHANGED <<ctxDone, view, position, topicVars, coordVars, storeVars>>

Consume(c, m) ==
    \/ ConsumeTombstone(c, m) \/ DecodeError(c, m) \/ ProcessNoChange(c, m)
    \/ ProcessCreate(c, m) \/ ProcessCreateError(c, m) \/ ProcessCreateRejected(c, m)
    \/ ProcessOther(c, m) \/ Commit(c, m) \/ CommitError(c, m)

\* What the goroutine of c.Run does next.
RunStep(c) ==
    \/ FetchCancelled(c)
    \/ \E p \in Partitions, n \in 1..MaxEvents : Fetch(c, <<p, n>>) \/ Consume(c, <<p, n>>)

----------------------------------------------------------------------------
(* The process a consumer runs in.                                         *)

\* The signal handler of main cancels the context.
Shutdown(c) ==
    /\ c \in Alive \ ctxDone
    /\ ctxDone' = ctxDone \cup {c}
    /\ Fault
    /\ UNCHANGED <<pc, hand, view, position, topicVars, coordVars, storeVars>>

\* The process is gone, and with it all the consumer had in memory.
Forget(c) ==
    /\ Goto(c, "down")
    /\ hand' = [hand EXCEPT ![c] = NoMessage]
    /\ ctxDone' = ctxDone \ {c}
    /\ view' = [view EXCEPT ![c] = {}]
    /\ position' = [position EXCEPT ![c] = [p \in Partitions |-> 0]]
    /\ synced' = synced \ {c}
    /\ UNCHANGED <<committed, owner, members, topicVars, storeVars>>

\* After Run has returned app.Close closes the reader and main ends.
Close(c) == pc[c] = "returned" /\ Forget(c) /\ UNCHANGED faults

Crash(c) == c \in Alive /\ Forget(c) /\ Fault

Restart(c) ==
    /\ pc[c] = "down"
    /\ c \notin members  \* the new process is a new member of the group
    /\ Goto(c, "fetch")
    /\ UNCHANGED <<ctxDone, hand, view, position, topicVars, coordVars, storeVars, faults>>

ProcessStep(c) == Shutdown(c) \/ Close(c) \/ Crash(c) \/ Restart(c)

----------------------------------------------------------------------------

ConsumerStep(c) == Sync(c) \/ RunStep(c) \/ ProcessStep(c)

GroupStep == Rebalance \/ SpuriousRebalance \/ \E c \in Consumers : ConsumerStep(c)

Next == TopicStep \/ GroupStep

Spec == Init /\ [][Next]_vars

\* A commit between two generations need not end before the reader has joined
\* the next one, or its context is done.
Waits(c) == pc[c] = "commit" /\ c \notin synced \cup ctxDone

\* The goroutines of a consumer are scheduled, the coordinator notices who
\* has come and gone, and main ends once Run has returned.  Nothing is
\* assumed of the connector, and nobody is assumed to restart a process.
Fairness ==
    /\ WF_vars(Rebalance)
    /\ \A c \in Consumers :
          WF_vars(Sync(c)) /\ WF_vars(~Waits(c) /\ RunStep(c)) /\ WF_vars(Close(c))

FairSpec == Spec /\ Fairness

----------------------------------------------------------------------------
(* Properties.                                                             *)

Locations == {"fetch", "consume", "commit", "returned", "down"}

\* The type invariant.
TypeOK ==
    /\ table \in [Ids -> Users \cup {NoUser}]
    /\ topic \in [Partitions -> Seq(Events)]
    /\ compacted \subseteq Messages
    /\ committed \in [Partitions -> Nat]
    /\ owner \in [Partitions -> Consumers \cup {Nobody}]
    /\ members \subseteq Consumers
    /\ synced \subseteq Consumers
    /\ pc \in [Consumers -> Locations]
    /\ ctxDone \subseteq Consumers
    /\ hand \in [Consumers -> Messages \cup {NoMessage}]
    /\ view \in [Consumers -> SUBSET Partitions]
    /\ position \in [Consumers -> [Partitions -> Nat]]
    /\ store \in [Ids -> Users \cup {NoUser}]
    /\ failed \subseteq Messages
    /\ rejected \subseteq Messages
    /\ faults \in Nat

\* A message asks nothing more of the group: its user is in the store, its
\* failure is in the log, the store refused it, or compaction took it away.
Settled(m) ==
    \/ ~IsCreate(EventOf(m))
    \/ store[EventOf(m).after.id] = EventOf(m).after
    \/ m \in failed \cup rejected \cup compacted

\* Whatever the committed offset of a partition leaves behind is settled: no
\* rebalance, crash, late commit of a former owner or cancelled context makes
\* the group skip a creation nobody has dealt with (consumer.go: Process
\* comes before CommitMessages).
CommittedIsSettled ==
    \A p \in Partitions : \A n \in 1..committed[p] : Published(<<p, n>>) /\ Settled(<<p, n>>)

\* The store holds only what some creation published (processor.go: only the
\* second case writes, and it writes the row after).
StoreIsPublished ==
    \A i \in Ids : store[i] # NoUser => Change(i, NoUser, store[i]) \in Log

\* No step removes or changes an entry: redelivery after a rebalance, a
\* replay of the connector, an update or a deletion leave it as it is.
StoreOnlyGrows == [][\A i \in Ids : store[i] # NoUser => store'[i] = store[i]]_vars

\* As long as one consumer keeps running, every published creation is
\* settled in the end, however the partitions were moved about.
EventuallySettled ==
    <>[](\E c \in Consumers : pc[c] # "down" /\ c \notin ctxDone) =>
        <>[](\A p \in Partitions : \A n \in 1..Len(topic[p]) : Settled(<<p, n>>))

\* A cancelled context ends the process (consumer.go: Run returns nil), even
\* with messages waiting: no consumer stays cancelled for ever.
ShutdownEnds == \A c \in Consumers : []<>(c \notin ctxDone)

\* The store is a projection of the users whose creation has been published.
Created == {e.after : e \in {d \in Log : IsCreate(d)}}
Projection == INSTANCE UserProjection WITH created <- Created
ImplementsProjection == Projection!Spec

\* What the docs promise of the group: a creation it could read and has put
\* behind it is in the store (README: the stores are populated by the events).
CommittedIsStored ==
    \A p \in Partitions : \A n \in 1..committed[p] :
        LET e == EventOf(<<p, n>>) IN
        IsCreate(e) /\ <<p, n>> \notin compacted => store[e.after.id] = e.after

----------------------------------------------------------------------------
(* The inductive invariant behind TypeOK and CommittedIsSettled.           *)

\* A consumer has a message in hand exactly between fetch and commit.
HandOK ==
    \A c \in Consumers :
        IF pc[c] \in {"consume", "commit"}
        THEN hand[c] \in Messages /\ Published(hand[c])
        ELSE hand[c] = NoMessage

\* However often the creation of an id is published, it is the same creation.
CreationsAgree ==
    \A d, e \in Log : IsCreate(d) =>
        /\ d.after.id = d.key
        /\ IsCreate(e) /\ e.key = d.key => e.after = d.after

\* All that precedes the message in hand is settled, even if the reader has
\* been assigned other partitions since it was fetched.
BehindHand ==
    \A c \in Consumers : hand[c] # NoMessage =>
        \A n \in 1..hand[c][2]-1 : Settled(<<hand[c][1], n>>)

\* The message about to be committed is settled itself.
CommitIsSettled ==
    \A c \in Consumers : pc[c] = "commit" => Settled(hand[c])

\* All that a reader has gone past is settled, but for the message in hand.
BehindPosition ==
    \A c \in Consumers : \A p \in view[c] : \A n \in 1..position[c][p] :
        Published(<<p, n>>) /\ (Settled(<<p, n>>) \/ hand[c] = <<p, n>>)

IInv ==
    /\ TypeOK /\ HandOK /\ CreationsAgree /\ StoreIsPublished
    /\ CommittedIsSettled /\ BehindHand /\ CommitIsSettled /\ BehindPosition

=============================================================================
