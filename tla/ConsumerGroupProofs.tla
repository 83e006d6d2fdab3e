------------------------ MODULE ConsumerGroupProofs ------------------------
(***************************************************************************)
(* Theorems about ConsumerGroup, for every number of consumers,            *)
(* partitions, ids and messages and every number of disturbances.          *)
(***************************************************************************)
EXTENDS ConsumerGroup, SequenceTheorems, WellFoundedInduction, TLAPS

USE PartitionOfAssumption, NoUserAssumption, NoMessageAssumption, NobodyAssumption,
    SilentRejectsAssumption, BoundsAssumption

----------------------------------------------------------------------------
(* Events and the topic.                                                   *)

LEMMA EventType ==
    ASSUME NEW k \in Ids, NEW b \in Users \cup {NoUser}, NEW a \in Users \cup {NoUser}
    PROVE  /\ Change(k, b, a) \in Events
           /\ Tombstone(k) \in Events
           /\ Undecodable(k) \in Events
BY DEF Change, Tombstone, Undecodable, Events

LEMMA PublishedIsMessage ==
    ASSUME TypeOK, NEW p \in Partitions, NEW n \in 1..MaxEvents
    PROVE  /\ <<p, n>> \in Messages
           /\ Published(<<p, n>>) => EventOf(<<p, n>>) \in Events
BY DEF TypeOK, Messages, Published, EventOf

LEMMA UserId == \A u \in Users : u.id \in Ids
BY DEF Users

\* A created user: what the second case of Process hands to Create.
LEMMA CreatedUser ==
    ASSUME NEW e \in Events, IsCreate(e)
    PROVE  e.after \in Users /\ e.after.id \in Ids /\ e.after # NoUser
BY DEF Events, IsCreate, Users

\* What a step leaves of the topic: nothing published is changed.
TopicGrows ==
    \A p \in Partitions :
        /\ Len(topic[p]) <= Len(topic'[p])
        /\ \A n \in 1..Len(topic[p]) : topic'[p][n] = topic[p][n]

\* What a step leaves of the store and of the record of failures.
StoreGrows ==
    /\ \A i \in Ids : store[i] # NoUser => store'[i] = store[i]
    /\ failed \subseteq failed' /\ rejected \subseteq rejected' /\ compacted \subseteq compacted'

LEMMA LenIsNat == ASSUME TypeOK, NEW p \in Partitions PROVE Len(topic[p]) \in Nat
BY LenProperties DEF TypeOK

LEMMA UnchangedTopicGrows == ASSUME TypeOK, topic' = topic PROVE TopicGrows
BY LenIsNat DEF TopicGrows

LEMMA PublishedStays ==
    ASSUME TypeOK, TopicGrows, topic' \in [Partitions -> Seq(Events)], NEW m \in Messages, Published(m)
    PROVE  Published(m)' /\ EventOf(m)' = EventOf(m) /\ EventOf(m) \in Events
<1>1. m[1] \in Partitions /\ m[2] \in 1..Len(topic[m[1]]) /\ Len(topic[m[1]]) \in Nat
    BY LenIsNat DEF Published
<1>2. Len(topic'[m[1]]) \in Nat /\ Len(topic[m[1]]) <= Len(topic'[m[1]])
    BY <1>1, LenProperties DEF TopicGrows
<1>3. topic[m[1]][m[2]] \in Events
    BY <1>1, ElementOfSeq DEF TypeOK
<1> QED BY <1>1, <1>2, <1>3 DEF Published, EventOf, TopicGrows

\* A settled message stays settled.
LEMMA SettledStays ==
    ASSUME TypeOK, TopicGrows, StoreGrows, topic' \in [Partitions -> Seq(Events)],
           NEW m \in Messages, Published(m), Settled(m)
    PROVE  Published(m)' /\ Settled(m)'
<1>1. Published(m)' /\ EventOf(m)' = EventOf(m) /\ EventOf(m) \in Events
    BY PublishedStays
<1>2. CASE ~IsCreate(EventOf(m))
    BY <1>1, <1>2 DEF Settled, IsCreate
<1>3. CASE IsCreate(EventOf(m)) /\ store[EventOf(m).after.id] = EventOf(m).after
    BY <1>1, <1>3, CreatedUser DEF Settled, StoreGrows
<1>4. CASE m \in failed \cup rejected \cup compacted
    BY <1>1, <1>4 DEF Settled, StoreGrows
<1> QED BY <1>1, <1>2, <1>3, <1>4 DEF Settled

----------------------------------------------------------------------------
(* The steps of the source.                                                *)

LEMMA TypeInit == Init => TypeOK
BY DEF Init, TypeOK, Locations

LEMMA TwoEvents ==
    ASSUME NEW d \in Events, NEW e \in Events
    PROVE  <<d, e>> \in Seq(Events) /\ Len(<<d, e>>) = 2 /\ <<d, e>>[1] = d /\ <<d, e>>[2] = e
OBVIOUS

LEMMA AppendGrows ==
    ASSUME TypeOK, NEW p \in Partitions, NEW e \in Events, Append1(p, e)
    PROVE  topic' \in [Partitions -> Seq(Events)] /\ TopicGrows
<1>1. Append(topic[p], e) \in Seq(Events)
    BY AppendProperties DEF TypeOK
<1>2. topic' \in [Partitions -> Seq(Events)]
    BY <1>1 DEF Append1, TypeOK
<1>3. ASSUME NEW q \in Partitions
      PROVE  /\ Len(topic[q]) <= Len(topic'[q])
             /\ \A n \in 1..Len(topic[q]) : topic'[q][n] = topic[q][n]
    <2>1. CASE q = p
        BY <2>1, AppendProperties, LenProperties DEF Append1, TypeOK
    <2>2. CASE q # p
        BY <2>2, LenProperties DEF Append1, TypeOK
    <2> QED BY <2>1, <2>2
<1> QED BY <1>2, <1>3 DEF TopicGrows

\* A step of the source keeps the types, publishes at the end of a partition
\* and touches nothing of the group.
LEMMA TopicStepGrows ==
    ASSUME TypeOK, TopicStep
    PROVE  /\ TypeOK' /\ TopicGrows /\ compacted \subseteq compacted'
           /\ UNCHANGED <<coordVars, loopVars, storeVars>>
<1> USE DEF coordVars, loopVars, storeVars
<1> DEFINE Goal == /\ TypeOK' /\ TopicGrows /\ compacted \subseteq compacted'
                   /\ UNCHANGED <<coordVars, loopVars, storeVars>>
<1>1. ASSUME NEW u \in Users, Insert(u) PROVE Goal
    <2>1. topic' \in [Partitions -> Seq(Events)] /\ TopicGrows
        BY <1>1, AppendGrows, EventType, UserId DEF Insert
    <2> QED BY <1>1, <2>1, UserId DEF Insert, TypeOK
<1>2. ASSUME NEW u \in Users, Update(u) PROVE Goal
    <2>1. topic' \in [Partitions -> Seq(Events)] /\ TopicGrows
        BY <1>2, AppendGrows, EventType, UserId DEF Update, TypeOK
    <2> QED BY <1>2, <2>1, UserId DEF Update, TypeOK
<1>3. ASSUME NEW i \in Ids, Delete(i) PROVE Goal
    <2> DEFINE s == <<Change(i, table[i], NoUser), Tombstone(i)>>
               q == PartitionOf[i]
    <2>1. s \in Seq(Events)
        <3>1. Change(i, table[i], NoUser) \in Events /\ Tombstone(i) \in Events
            BY EventType DEF TypeOK
        <3> QED BY <3>1, TwoEvents
    <2> HIDE DEF s
    <2>2. /\ topic[q] \o s \in Seq(Events)
          /\ Len(topic[q] \o s) = Len(topic[q]) + Len(s)
          /\ \A n \in 1..Len(topic[q]) : (topic[q] \o s)[n] = topic[q][n]
        BY <2>1, ConcatProperties, LenProperties DEF TypeOK
    <2>3. topic' = [topic EXCEPT ![q] = @ \o s]
        BY <1>3 DEF Delete, s
    <2>4. topic' \in [Partitions -> Seq(Events)]
        BY <2>2, <2>3 DEF TypeOK
    <2>5. ASSUME NEW p \in Partitions
          PROVE  /\ Len(topic[p]) <= Len(topic'[p])
                 /\ \A n \in 1..Len(topic[p]) : topic'[p][n] = topic[p][n]
        <3>1. Len(s) \in Nat /\ Len(topic[p]) \in Nat
            BY <2>1, LenProperties DEF TypeOK
        <3>2. CASE p = q
            <4>1. topic'[p] = topic[q] \o s
                BY <2>3, <3>2 DEF TypeOK
            <4> QED BY <3>1, <3>2, <4>1, <2>2
        <3>3. CASE p # q
            BY <2>3, <3>1, <3>3 DEF TypeOK
        <3> QED BY <3>2, <3>3
    <2> QED BY <1>3, <2>4, <2>5 DEF Delete, TypeOK, TopicGrows
<1>4. ASSUME NEW i \in Ids, PublishUndecodable(i) PROVE Goal
    <2>1. Undecodable(i) \in Events
        BY DEF Undecodable, Events
    <2>2. topic' \in [Partitions -> Seq(Events)] /\ TopicGrows
        BY <1>4, <2>1, AppendGrows DEF PublishUndecodable
    <2> QED BY <1>4, <2>2 DEF PublishUndecodable, Fault, TypeOK
<1>5. ASSUME NEW p \in Partitions, NEW n \in 1..MaxEvents, Replay(<<p, n>>) PROVE Goal
    <2>1. topic' \in [Partitions -> Seq(Events)] /\ TopicGrows
        BY <1>5, PublishedIsMessage, AppendGrows DEF Replay
    <2> QED BY <1>5, <2>1 DEF Replay, Fault, TypeOK
<1>6. ASSUME NEW p \in Partitions, NEW n \in 1..MaxEvents, Compact(<<p, n>>) PROVE Goal
    <2>1. TopicGrows
        BY <1>6, UnchangedTopicGrows DEF Compact
    <2> QED BY <1>6, <2>1, PublishedIsMessage DEF Compact, Fault, TypeOK
<1> QED BY <1>1, <1>2, <1>3, <1>4, <1>5, <1>6 DEF TopicStep

LEMMA InLog ==
    ASSUME NEW e
    PROVE  /\ e \in Log <=> \E p \in Partitions : \E n \in 1..Len(topic[p]) : e = topic[p][n]
           /\ e \in Log' <=> \E p \in Partitions : \E n \in 1..Len(topic'[p]) : e = topic'[p][n]
BY DEF Log

LEMMA LogOfAppend ==
    ASSUME TypeOK, NEW p \in Partitions, NEW e \in Events, Append1(p, e)
    PROVE  Log' = Log \cup {e}
<1>1. Len(topic[p]) \in Nat /\ topic' = [topic EXCEPT ![p] = Append(topic[p], e)]
    BY LenIsNat DEF Append1
<1>2. /\ Len(Append(topic[p], e)) = Len(topic[p]) + 1
      /\ \A n \in 1..Len(topic[p]) : Append(topic[p], e)[n] = topic[p][n]
      /\ Append(topic[p], e)[Len(topic[p]) + 1] = e
    BY AppendProperties DEF TypeOK
<1>3. topic'[p] = Append(topic[p], e) /\ \A q \in Partitions : q # p => topic'[q] = topic[q]
    BY <1>1 DEF TypeOK
<1>4. ASSUME NEW q \in Partitions, NEW n \in 1..Len(topic'[q])
      PROVE  topic'[q][n] \in Log \cup {e}
    BY <1>1, <1>2, <1>3 DEF Log
<1>5. ASSUME NEW q \in Partitions, NEW n \in 1..Len(topic[q])
      PROVE  n \in 1..Len(topic'[q]) /\ topic'[q][n] = topic[q][n]
    BY <1>1, <1>2, <1>3
<1>6. e \in Log'
    <2>1. Len(topic[p]) + 1 \in 1..Len(topic'[p]) /\ topic'[p][Len(topic[p]) + 1] = e
        BY <1>1, <1>2, <1>3
    <2> QED BY <2>1 DEF Log
<1>7. ASSUME NEW d \in Log' PROVE d \in Log \cup {e}
    BY <1>4, InLog
<1>8. ASSUME NEW d \in Log PROVE d \in Log'
    BY <1>5, InLog
<1> QED BY <1>6, <1>7, <1>8

LEMMA LogGrows == ASSUME TypeOK, TopicGrows, TypeOK' PROVE Log \subseteq Log'
<1>1. ASSUME NEW p \in Partitions, NEW n \in 1..Len(topic[p])
      PROVE  n \in 1..Len(topic'[p]) /\ topic'[p][n] = topic[p][n]
    BY LenProperties DEF TypeOK, TopicGrows
<1> QED BY <1>1 DEF Log

LEMMA LogType == ASSUME TypeOK PROVE Log \subseteq Events
BY ElementOfSeq DEF TypeOK, Log

\* An event may join the log if it is no creation, or agrees with those of
\* its key.
Agrees(e) ==
    IsCreate(e) => /\ e.after.id = e.key
                   /\ \A d \in Log : IsCreate(d) /\ d.key = e.key => d.after = e.after

LEMMA AppendAgrees ==
    ASSUME CreationsAgree, NEW e, Agrees(e), Log' = Log \cup {e}
    PROVE  CreationsAgree'
<1>1. \A d \in Log' : IsCreate(d)' = IsCreate(d)
    BY DEF IsCreate
<1> QED BY <1>1 DEF CreationsAgree, Agrees, IsCreate

LEMMA DeleteLog ==
    ASSUME TypeOK, NEW i \in Ids, Delete(i)
    PROVE  Log' \subseteq Log \cup {Change(i, table[i], NoUser), Tombstone(i)}
<1> DEFINE d == Change(i, table[i], NoUser)
           t == Tombstone(i)
           q == PartitionOf[i]
<1>1. d \in Events /\ t \in Events
    BY EventType DEF TypeOK
<1>2. topic' = [topic EXCEPT ![q] = @ \o <<d, t>>]
    BY DEF Delete
<1> HIDE DEF d, t
<1>3. topic[q] \in Seq(Events) /\ <<d, t>> \in Seq(Events) /\ Len(<<d, t>>) = 2
      /\ Len(topic[q]) \in Nat
    BY <1>1, TwoEvents, LenIsNat DEF TypeOK
<1>4. /\ Len(topic[q] \o <<d, t>>) = Len(topic[q]) + 2
      /\ \A n \in 1..Len(topic[q]) + 2 : (topic[q] \o <<d, t>>)[n] \in Log \cup {d, t}
    <2>1. \A n \in 1..Len(topic[q]) : topic[q][n] \in Log
        BY DEF Log
    <2>2. <<d, t>>[1] = d /\ <<d, t>>[2] = t
        OBVIOUS
    <2> QED BY <1>3, <2>1, <2>2, ConcatProperties
<1>5. topic'[q] = topic[q] \o <<d, t>> /\ \A p \in Partitions : p # q => topic'[p] = topic[p]
    BY <1>2 DEF TypeOK
<1>6. ASSUME NEW p \in Partitions, NEW n \in 1..Len(topic'[p])
      PROVE  topic'[p][n] \in Log \cup {d, t}
    <2>1. CASE p = q
        BY <1>3, <1>4, <1>5, <2>1
    <2>2. CASE p # q
        BY <1>5, <2>2, InLog
    <2> QED BY <2>1, <2>2
<1> QED BY <1>6, InLog DEF d, t

LEMMA TopicStepAgrees == ASSUME TypeOK, CreationsAgree, TopicStep PROVE CreationsAgree'
<1>1. ASSUME NEW u \in Users, Insert(u) PROVE CreationsAgree'
    <2> DEFINE e == Change(u.id, NoUser, u)
    <2>1. e \in Events /\ e.key = u.id /\ e.after = u
        BY EventType, UserId DEF Change
    <2> HIDE DEF e
    <2>2. Log' = Log \cup {e}
        BY <1>1, <2>1, LogOfAppend, UserId DEF Insert, e
    <2>3. Agrees(e)
        BY <1>1, <2>1 DEF Insert, Inserted, Agrees
    <2> QED BY <2>2, <2>3, AppendAgrees
<1>2. ASSUME NEW u \in Users, Update(u) PROVE CreationsAgree'
    <2> DEFINE e == Change(u.id, table[u.id], u)
    <2>1. e \in Events
        BY EventType, UserId DEF TypeOK
    <2>2. Agrees(e)
        BY <1>2 DEF Update, Agrees, IsCreate, Change
    <2>3. Log' = Log \cup {e}
        BY <1>2, <2>1, LogOfAppend, UserId DEF Update
    <2> HIDE DEF e
    <2> QED BY <2>2, <2>3, AppendAgrees
<1>3. ASSUME NEW i \in Ids, Delete(i) PROVE CreationsAgree'
    <2> DEFINE d == Change(i, table[i], NoUser)
               t == Tombstone(i)
    <2>2. ~IsCreate(d) /\ ~IsCreate(t) /\ ~IsCreate(d)' /\ ~IsCreate(t)'
        BY <1>3 DEF Delete, IsCreate, Change, Tombstone
    <2>6. Log' \subseteq Log \cup {d, t}
        BY <1>3, DeleteLog
    <2> HIDE DEF d, t
    <2>7. \A e \in Log' : IsCreate(e)' => IsCreate(e) /\ e \in Log
        BY <2>2, <2>6 DEF IsCreate
    <2> QED BY <2>7 DEF CreationsAgree, IsCreate
<1>4. ASSUME NEW i \in Ids, PublishUndecodable(i) PROVE CreationsAgree'
    <2>1. Undecodable(i) \in Events /\ Agrees(Undecodable(i))
        BY DEF Undecodable, Events, Agrees, IsCreate
    <2>2. Log' = Log \cup {Undecodable(i)}
        BY <1>4, <2>1, LogOfAppend DEF PublishUndecodable
    <2> QED BY <2>1, <2>2, AppendAgrees
<1>5. ASSUME NEW p \in Partitions, NEW n \in 1..MaxEvents, Replay(<<p, n>>) PROVE CreationsAgree'
    <2> DEFINE e == EventOf(<<p, n>>)
    <2>1. e \in Log /\ e \in Events
        BY <1>5, PublishedIsMessage, InLog DEF Replay, Published, EventOf
    <2>2. Log' = Log \cup {e}
        BY <1>5, <2>1, LogOfAppend DEF Replay
    <2> HIDE DEF e
    <2>3. Agrees(e)
        BY <2>1 DEF CreationsAgree, Agrees
    <2> QED BY <2>2, <2>3, AppendAgrees
<1>6. ASSUME NEW p \in Partitions, NEW n \in 1..MaxEvents, Compact(<<p, n>>) PROVE CreationsAgree'
    <2>1. topic' = topic
        BY <1>6 DEF Compact
    <2>2. Log' = Log
        BY <2>1 DEF Log
    <2> QED BY <2>2 DEF CreationsAgree, IsCreate
<1> QED BY <1>1, <1>2, <1>3, <1>4, <1>5, <1>6 DEF TopicStep

----------------------------------------------------------------------------
(* The inductive invariant, and the frame of its proof: a step that leaves *)
(* the committed offsets alone and moves no reader forward keeps it, if    *)
(* what it puts down or is about to commit is settled.                     *)

LEMMA InvInit == Init => IInv
<1> SUFFICES ASSUME Init PROVE IInv
    OBVIOUS
<1>1. TypeOK
    BY TypeInit
<1>2. Log = {}
    BY InLog DEF Init
<1>3. HandOK /\ StoreIsPublished /\ CommittedIsSettled /\ BehindHand /\ CommitIsSettled
      /\ BehindPosition
    BY DEF Init, HandOK, StoreIsPublished, CommittedIsSettled, BehindHand, CommitIsSettled,
           BehindPosition
<1>4. CreationsAgree
    BY <1>2 DEF CreationsAgree
<1> QED BY <1>1, <1>3, <1>4 DEF IInv

\* The step settles the message consumer d had in hand before it.
SettlesHand(d) == \A m \in Messages : m = hand[d] => Settled(m)'

Frame ==
    /\ committed' = committed
    /\ \A d \in Consumers :
          /\ hand'[d] \in {hand[d], NoMessage}
          /\ pc'[d] = "commit" => hand'[d] = hand[d] /\ (pc[d] = "commit" \/ SettlesHand(d))
          /\ \A p \in view'[d] : p \in view[d] /\ position'[d][p] <= position[d][p]
          /\ hand'[d] = hand[d] \/ view'[d] = {} \/ SettlesHand(d)

LEMMA FramePreserves ==
    ASSUME IInv, TypeOK', HandOK', CreationsAgree', StoreIsPublished',
           TopicGrows, StoreGrows, Frame
    PROVE  IInv'
<1>0. TypeOK /\ HandOK
    BY DEF IInv
<1>1. ASSUME NEW m \in Messages, Published(m), Settled(m)
      PROVE  Published(m)' /\ Settled(m)'
    BY <1>0, <1>1, SettledStays DEF TypeOK
<1>2. ASSUME NEW p \in Partitions, NEW n \in Nat \ {0}
      PROVE  <<p, n>> \in Messages /\ <<p, n>>[1] = p /\ <<p, n>>[2] = n
    BY DEF Messages
<1>3. ASSUME NEW m \in Messages PROVE m = <<m[1], m[2]>> /\ m[1] \in Partitions /\ m[2] \in Nat \ {0}
    BY DEF Messages
<1>4. CommittedIsSettled'
    <2>1. ASSUME NEW p \in Partitions, NEW n \in 1..committed'[p]
          PROVE  Published(<<p, n>>)' /\ Settled(<<p, n>>)'
        <3>1. n \in Nat \ {0} /\ n \in 1..committed[p]
            BY <1>0 DEF Frame, TypeOK
        <3> QED BY <1>1, <1>2, <3>1 DEF IInv, CommittedIsSettled
    <2> QED BY <2>1 DEF CommittedIsSettled
<1>5. BehindHand'
    <2>1. ASSUME NEW d \in Consumers, hand'[d] # NoMessage, NEW n \in 1..hand'[d][2]-1
          PROVE  \A q : q = hand'[d][1] => Settled(<<q, n>>)'
        <3>1. PICK h \in Messages : h = hand[d] /\ hand'[d] = h /\ Published(h)
            BY <1>0, <2>1 DEF Frame, HandOK
        <3>2. h[1] \in Partitions /\ h[2] \in Nat \ {0} /\ n \in Nat \ {0} /\ n \in 1..h[2]-1
            BY <1>3, <2>1, <3>1
        <3>3. Published(<<h[1], n>>)
            <4>1. h[2] \in 1..Len(topic[h[1]]) /\ Len(topic[h[1]]) \in Nat
                BY <1>0, <3>1, <3>2, LenIsNat DEF Published
            <4> QED BY <1>2, <3>2, <4>1 DEF Published
        <3>4. Settled(<<h[1], n>>)
            BY <2>1, <3>1, <3>2 DEF IInv, BehindHand
        <3>5. Settled(<<h[1], n>>)'
            BY <1>1, <1>2, <3>2, <3>3, <3>4
        <3> QED BY <3>1, <3>5
    <2> QED BY <2>1 DEF BehindHand, Settled, EventOf
<1>6. CommitIsSettled'
    <2>1. ASSUME NEW d \in Consumers, pc'[d] = "commit"
          PROVE  \A m : m = hand'[d] => Settled(m)'
        <3>1. PICK h \in Messages : h = hand[d] /\ hand'[d] = h
            BY <1>0, <2>1 DEF Frame, HandOK, TypeOK
        <3>2. CASE SettlesHand(d)
            BY <3>1, <3>2 DEF SettlesHand
        <3>3. CASE pc[d] = "commit"
            BY <1>0, <1>1, <3>1, <3>3 DEF HandOK, IInv, CommitIsSettled
        <3> QED BY <2>1, <3>2, <3>3 DEF Frame
    <2> QED BY <2>1 DEF CommitIsSettled, Settled, EventOf
<1>7. BehindPosition'
    <2>1. ASSUME NEW d \in Consumers, NEW p \in view'[d], NEW n \in 1..position'[d][p]
          PROVE  Published(<<p, n>>)' /\ (Settled(<<p, n>>)' \/ hand'[d] = <<p, n>>)
        <3>1. p \in view[d] /\ p \in Partitions /\ position'[d][p] <= position[d][p]
            BY <1>0 DEF Frame, TypeOK
        <3>2. position[d][p] \in Nat /\ position'[d][p] \in Nat
            BY <1>0, <3>1 DEF TypeOK
        <3>3. n \in Nat \ {0} /\ n \in 1..position[d][p] /\ <<p, n>> \in Messages
            BY <1>2, <3>1, <3>2
        <3>4. Published(<<p, n>>) /\ (Settled(<<p, n>>) \/ hand[d] = <<p, n>>)
            BY <3>1, <3>3 DEF IInv, BehindPosition
        <3>5. Published(<<p, n>>)'
            BY <1>0, <3>3, <3>4, PublishedStays DEF TypeOK
        <3>6. CASE Settled(<<p, n>>)
            BY <1>1, <3>3, <3>4, <3>6
        <3>7. CASE hand[d] = <<p, n>>
            BY <3>3, <3>5, <3>7 DEF Frame, SettlesHand
        <3> QED BY <3>4, <3>6, <3>7
    <2> QED BY <2>1 DEF BehindPosition
<1> QED BY <1>4, <1>5, <1>6, <1>7 DEF IInv

----------------------------------------------------------------------------
(* Every step keeps the inductive invariant.                               *)

LEMMA StoreStaysPublished ==
    ASSUME StoreIsPublished, store' = store, Log \subseteq Log'
    PROVE  StoreIsPublished'
BY DEF StoreIsPublished, Change

LEMMA TopicStepPreserves == ASSUME IInv, TopicStep PROVE IInv'
<1>0. TypeOK /\ HandOK /\ CreationsAgree /\ StoreIsPublished
    BY DEF IInv
<1>1. /\ TypeOK' /\ TopicGrows /\ compacted \subseteq compacted'
      /\ UNCHANGED <<coordVars, loopVars, storeVars>>
    BY <1>0, TopicStepGrows
<1>2. HandOK'
    BY <1>0, <1>1, PublishedStays DEF HandOK, loopVars, TypeOK
<1>3. CreationsAgree'
    BY <1>0, TopicStepAgrees
<1>4. StoreIsPublished'
    BY <1>0, <1>1, LogGrows, StoreStaysPublished DEF storeVars
<1>5. StoreGrows
    BY <1>1 DEF StoreGrows, storeVars
<1>6. Frame
    BY <1>0, <1>1 DEF Frame, coordVars, loopVars, TypeOK
<1> QED BY <1>1, <1>2, <1>3, <1>4, <1>5, <1>6, FramePreserves

\* A step of the group that publishes nothing and leaves the store alone.
LEMMA QuietPreserves ==
    ASSUME IInv, TypeOK', HandOK', UNCHANGED <<topic, compacted>>, UNCHANGED store,
           failed \subseteq failed', rejected \subseteq rejected', Frame
    PROVE  IInv'
<1>0. TypeOK /\ CreationsAgree /\ StoreIsPublished
    BY DEF IInv
<1>1. Log' = Log /\ TopicGrows
    BY <1>0, UnchangedTopicGrows DEF Log
<1>2. CreationsAgree' /\ StoreIsPublished'
    BY <1>0, <1>1 DEF CreationsAgree, StoreIsPublished, IsCreate, Change
<1>3. StoreGrows
    BY DEF StoreGrows
<1> QED BY <1>1, <1>2, <1>3, FramePreserves

LEMMA NewGenerationPreserves ==
    ASSUME IInv, NewGeneration, faults' \in Nat PROVE IInv'
<1>0. TypeOK /\ HandOK
    BY DEF IInv
<1>1. TypeOK'
    BY <1>0 DEF NewGeneration, TypeOK, Alive, topicVars, loopVars, storeVars
<1>2. HandOK'
    BY <1>0 DEF NewGeneration, HandOK, Published, topicVars, loopVars
<1>3. Frame
    BY <1>0 DEF NewGeneration, Frame, loopVars, TypeOK
<1> QED BY <1>1, <1>2, <1>3, QuietPreserves DEF NewGeneration, topicVars, storeVars

\* Nothing is published and nothing dealt with.
SameRecord == UNCHANGED <<topic, compacted, store, failed, rejected>>

LEMMA SameSettled ==
    ASSUME SameRecord, NEW m
    PROVE  (Published(m)' <=> Published(m)) /\ (Settled(m)' <=> Settled(m))
BY DEF SameRecord, Published, Settled, EventOf, IsCreate

LEMMA SameSource ==
    ASSUME IInv, SameRecord
    PROVE  CreationsAgree' /\ StoreIsPublished'
<1>1. Log' = Log
    BY DEF Log, SameRecord
<1> QED BY <1>1 DEF IInv, CreationsAgree, StoreIsPublished, IsCreate, Change, SameRecord

LEMMA SyncPreserves == ASSUME IInv, NEW c \in Consumers, Sync(c) PROVE IInv'
<1>0. TypeOK /\ HandOK
    BY DEF IInv
<1>1. TypeOK'
    <2>1. [p \in Partitions |-> IF owner[p] = c THEN StartOffset(p) ELSE 0] \in [Partitions -> Nat]
        BY <1>0 DEF TypeOK, StartOffset
    <2> QED BY <1>0, <2>1 DEF Sync, TypeOK, topicVars, storeVars
<1>2. SameRecord /\ UNCHANGED <<committed, hand, pc>>
    BY DEF Sync, topicVars, storeVars, SameRecord
<1>3. HandOK' /\ CommittedIsSettled'
    BY <1>0, <1>2, SameSettled DEF IInv, HandOK, CommittedIsSettled
<1>5. BehindHand' /\ CommitIsSettled'
    BY <1>2 DEF IInv, BehindHand, CommitIsSettled, Settled, EventOf, IsCreate, SameRecord
<1>4. BehindPosition'
    <2>1. ASSUME NEW d \in Consumers, NEW p \in view'[d], NEW n \in 1..position'[d][p]
          PROVE  Published(<<p, n>>)' /\ (Settled(<<p, n>>)' \/ hand'[d] = <<p, n>>)
        <3>1. CASE d = c
            <4>1. p \in Partitions /\ position'[d][p] = committed[p]
                BY <1>0, <3>1 DEF Sync, TypeOK, StartOffset
            <4> QED BY <1>2, <4>1, SameSettled DEF IInv, CommittedIsSettled
        <3>2. CASE d # c
            <4>1. view'[d] = view[d] /\ position'[d] = position[d]
                BY <1>0, <3>2 DEF Sync, TypeOK
            <4> QED BY <1>2, <4>1, SameSettled DEF IInv, BehindPosition
        <3> QED BY <3>1, <3>2
    <2> QED BY <2>1 DEF BehindPosition
<1> QED BY <1>1, <1>2, <1>3, <1>4, <1>5, SameSource DEF IInv

LEMMA FetchPreserves ==
    ASSUME IInv, NEW c \in Consumers, NEW m \in Messages, Fetch(c, m) PROVE IInv'
<1>0. TypeOK /\ HandOK
    BY DEF IInv
<1>1. m[1] \in Partitions /\ m[2] \in Nat \ {0} /\ m = <<m[1], m[2]>>
    BY DEF Messages
<1>2. TypeOK'
    BY <1>0, <1>1 DEF Fetch, TypeOK, Locations, topicVars, coordVars, storeVars
<1>3. SameRecord /\ UNCHANGED <<committed, view>>
    BY DEF Fetch, topicVars, storeVars, coordVars, SameRecord
<1>4. hand[c] = NoMessage /\ Published(m) /\ pc[c] = "fetch"
    BY <1>0 DEF Fetch, HandOK, IsNext
<1>5. /\ hand'[c] = m /\ pc'[c] = "consume" /\ position'[c][m[1]] = m[2]
      /\ \A p \in Partitions : p # m[1] => position'[c][p] = position[c][p]
      /\ \A d \in Consumers : d # c => /\ hand'[d] = hand[d] /\ pc'[d] = pc[d]
                                       /\ position'[d] = position[d]
    BY <1>0, <1>1 DEF Fetch, TypeOK
<1>6. HandOK'
    BY <1>0, <1>3, <1>4, <1>5 DEF HandOK, Published, SameRecord
<1>7. CommittedIsSettled'
    BY <1>3, SameSettled DEF IInv, CommittedIsSettled
<1>11. CommitIsSettled'
    BY <1>3, <1>5 DEF IInv, CommitIsSettled, Settled, EventOf, IsCreate, SameRecord
<1>8. \A n \in 1..m[2]-1 : Published(<<m[1], n>>) /\ Settled(<<m[1], n>>)
    <2>1. ASSUME NEW n \in 1..m[2]-1 PROVE Published(<<m[1], n>>) /\ Settled(<<m[1], n>>)
        <3>0. m[1] \in view[c] /\ position[c][m[1]] \in Nat
            BY <1>0, <1>1 DEF Fetch, IsNext, TypeOK
        <3>1. CASE n <= position[c][m[1]]
            <4>1. n \in 1..position[c][m[1]] /\ <<m[1], n>> # NoMessage
                BY <1>1, <3>0, <3>1 DEF Messages
            <4> QED BY <1>4, <3>0, <4>1 DEF IInv, BehindPosition
        <3>2. CASE n > position[c][m[1]]
            <4>1. <<m[1], n>> \in compacted
                BY <1>1, <3>0, <3>2 DEF Fetch, IsNext
            <4>2. Len(topic[m[1]]) \in Nat
                BY <1>0, <1>1, LenIsNat
            <4> QED BY <1>1, <1>4, <4>1, <4>2 DEF Settled, Published
        <3> QED BY <1>1, <3>0, <3>1, <3>2
    <2> QED BY <2>1
<1>9. BehindHand'
    BY <1>3, <1>5, <1>8 DEF IInv, BehindHand, Settled, EventOf, IsCreate, SameRecord
<1>10. BehindPosition'
    <2>1. ASSUME NEW d \in Consumers, NEW p \in view'[d], NEW n \in 1..position'[d][p]
          PROVE  Published(<<p, n>>) /\ (Settled(<<p, n>>) \/ hand'[d] = <<p, n>>)
        <3>0. p \in view[d] /\ p \in Partitions
            BY <1>0, <1>3 DEF TypeOK
        <3>1. CASE d # c
            BY <1>5, <3>0, <3>1 DEF IInv, BehindPosition
        <3>2. CASE d = c /\ p # m[1]
            <4>1. <<p, n>> # NoMessage /\ n \in 1..position[c][p]
                BY <1>0, <1>2, <1>5, <3>0, <3>2 DEF TypeOK, Messages
            <4> QED BY <1>4, <3>0, <3>2, <4>1 DEF IInv, BehindPosition
        <3>3. CASE d = c /\ p = m[1]
            <4>1. n \in 1..m[2]-1 \/ n = m[2]
                BY <1>1, <1>5, <3>3
            <4> QED BY <1>1, <1>4, <1>5, <1>8, <3>3, <4>1
        <3> QED BY <3>1, <3>2, <3>3
    <2> QED BY <1>3, <2>1, SameSettled DEF BehindPosition
<1> QED BY <1>2, <1>3, <1>6, <1>7, <1>9, <1>10, <1>11, SameSource DEF IInv

\* A creation in hand is written to the store under its id.  If an entry is
\* there already it is the same one, for creations of an id agree.
LEMMA UpsertGrows ==
    ASSUME IInv, NEW m \in Messages, Published(m), IsCreate(EventOf(m)), topic' = topic,
           Upsert(EventOf(m).after)
    PROVE  /\ store' \in [Ids -> Users \cup {NoUser}]
           /\ store'[EventOf(m).after.id] = EventOf(m).after
           /\ \A i \in Ids : store[i] # NoUser => store'[i] = store[i]
           /\ StoreIsPublished'
<1> DEFINE u == EventOf(m).after
<1>0. TypeOK /\ CreationsAgree /\ StoreIsPublished
    BY DEF IInv
<1>1. EventOf(m) \in Log /\ EventOf(m) \in Events
    BY <1>0, InLog, LogType DEF Published, EventOf
<1>2. u \in Users /\ u.id \in Ids /\ u # NoUser /\ EventOf(m).key = u.id
    BY <1>0, <1>1, CreatedUser DEF CreationsAgree
<1>3. EventOf(m) = Change(u.id, NoUser, u)
    BY <1>1, <1>2 DEF IsCreate, Events, Change
<1>4. store[u.id] # NoUser => store[u.id] = u
    <2>1. SUFFICES ASSUME store[u.id] # NoUser PROVE store[u.id] = u
        OBVIOUS
    <2> DEFINE d == Change(u.id, NoUser, store[u.id])
    <2>2. d \in Log
        BY <1>0, <1>2, <2>1 DEF StoreIsPublished
    <2>3. IsCreate(d) /\ d.key = u.id /\ d.after = store[u.id]
        BY <2>1 DEF IsCreate, Change
    <2> HIDE DEF d
    <2> QED BY <1>0, <1>1, <1>2, <2>2, <2>3 DEF CreationsAgree
<1>5. /\ store' = [store EXCEPT ![u.id] = u]
      /\ Log' = Log
    BY DEF Upsert, Log
<1> HIDE DEF u
<1>6. /\ store' \in [Ids -> Users \cup {NoUser}] /\ store'[u.id] = u
      /\ \A i \in Ids : i # u.id => store'[i] = store[i]
    BY <1>0, <1>2, <1>5 DEF TypeOK
<1>7. StoreIsPublished'
    BY <1>0, <1>1, <1>3, <1>5, <1>6 DEF StoreIsPublished, Change
<1> QED BY <1>4, <1>6, <1>7 DEF u

\* consume has dealt with the message in hand: it goes on to commit it or
\* lets go of it, and the message is settled.
LEMMA DealtPreserves ==
    ASSUME IInv, NEW c \in Consumers, NEW m \in Messages, hand[c] = m, pc[c] = "consume",
           UNCHANGED <<ctxDone, view, position, topicVars, coordVars>>, faults' \in Nat,
           failed \subseteq failed', failed' \subseteq Messages,
           rejected \subseteq rejected', rejected' \subseteq Messages,
           UNCHANGED store \/ (IsCreate(EventOf(m)) /\ Upsert(EventOf(m).after)),
           (Goto(c, "commit") /\ UNCHANGED hand) \/ Release(c),
           Settled(m)'
    PROVE  IInv'
<1>0. TypeOK /\ HandOK /\ CreationsAgree /\ StoreIsPublished /\ Published(m)
    BY DEF IInv, HandOK
<1>1. Log' = Log /\ TopicGrows
    BY <1>0, UnchangedTopicGrows DEF Log, topicVars
<1>2. CreationsAgree'
    BY <1>0, <1>1 DEF CreationsAgree, IsCreate
<1>3. /\ store' \in [Ids -> Users \cup {NoUser}]
      /\ \A i \in Ids : store[i] # NoUser => store'[i] = store[i]
      /\ StoreIsPublished'
    <2>1. CASE UNCHANGED store
        BY <1>0, <1>1, <2>1, StoreStaysPublished DEF TypeOK
    <2>2. CASE IsCreate(EventOf(m)) /\ Upsert(EventOf(m).after)
        BY <1>0, <2>2, UpsertGrows DEF topicVars
    <2> QED BY <2>1, <2>2
<1>4. StoreGrows
    BY <1>3 DEF StoreGrows, topicVars
<1>5. pc' \in [Consumers -> Locations] /\ hand' \in [Consumers -> Messages \cup {NoMessage}]
    BY <1>0 DEF TypeOK, Goto, Release, Locations
<1>6. TypeOK'
    BY <1>0, <1>3, <1>5 DEF TypeOK, topicVars, coordVars
<1>7. \A d \in Consumers :
        /\ d # c => hand'[d] = hand[d] /\ pc'[d] = pc[d]
        /\ d = c => \/ hand'[d] = hand[d] /\ pc'[d] = "commit"
                    \/ hand'[d] = NoMessage /\ pc'[d] = "fetch"
    BY <1>0 DEF TypeOK, Goto, Release
<1>8. HandOK'
    BY <1>0, <1>7 DEF HandOK, Published, topicVars
<1>9. SettlesHand(c)
    BY DEF SettlesHand, Settled, EventOf
<1>10. Frame
    BY <1>0, <1>7, <1>9 DEF Frame, TypeOK, coordVars
<1> QED BY <1>1, <1>2, <1>3, <1>4, <1>6, <1>8, <1>10, FramePreserves

LEMMA FaultType == ASSUME TypeOK, Fault PROVE faults' \in Nat
BY DEF Fault, TypeOK

LEMMA MayFailType == ASSUME TypeOK, NEW c, MayFail(c) PROVE faults' \in Nat
BY FaultType DEF MayFail, TypeOK

LEMMA ProcessPreserves ==
    ASSUME IInv, NEW c \in Consumers, NEW m \in Messages,
           \/ ConsumeTombstone(c, m) \/ DecodeError(c, m) \/ ProcessNoChange(c, m)
           \/ ProcessCreate(c, m) \/ ProcessCreateError(c, m) \/ ProcessCreateRejected(c, m)
           \/ ProcessOther(c, m)
    PROVE  IInv'
<1>0. TypeOK /\ HandOK
    BY DEF IInv
<1>1. TypeOK /\ failed \subseteq Messages /\ rejected \subseteq Messages /\ faults \in Nat
    BY <1>0 DEF TypeOK
<1>2. ASSUME Consuming(c, m) PROVE hand[c] = m /\ pc[c] = "consume" /\ Published(m)
    BY <1>0, <1>2 DEF Consuming, HandOK
<1>3. ASSUME UNCHANGED topicVars PROVE EventOf(m)' = EventOf(m)
    BY <1>3 DEF topicVars, EventOf
<1>4. CASE ConsumeTombstone(c, m)
    <2>1. Settled(m)'
        BY <1>3, <1>4 DEF ConsumeTombstone, Settled, IsCreate
    <2> QED BY <1>1, <1>2, <1>4, <2>1, DealtPreserves DEF ConsumeTombstone, storeVars
<1>5. CASE DecodeError(c, m)
    <2>1. Settled(m)'
        BY <1>5 DEF DecodeError, LogError, Settled
    <2> QED BY <1>1, <1>2, <1>5, <2>1, DealtPreserves DEF DecodeError, LogError
<1>6. CASE ProcessNoChange(c, m)
    <2>1. Settled(m)'
        BY <1>3, <1>6 DEF ProcessNoChange, IsNoChange, Settled, IsCreate
    <2> QED BY <1>1, <1>2, <1>6, <2>1, DealtPreserves DEF ProcessNoChange, storeVars
<1>7. CASE ProcessCreate(c, m)
    <2>1. store'[EventOf(m).after.id] = EventOf(m).after
        BY <1>2, <1>7, UpsertGrows DEF ProcessCreate, topicVars
    <2>2. Settled(m)'
        BY <1>3, <1>7, <2>1 DEF ProcessCreate, Settled
    <2> QED BY <1>1, <1>2, <1>7, <2>2, DealtPreserves DEF ProcessCreate
<1>8. CASE ProcessCreateError(c, m)
    <2>1. Settled(m)'
        BY <1>8 DEF ProcessCreateError, LogError, Settled
    <2>2. faults' \in Nat
        BY <1>0, <1>8, MayFailType DEF ProcessCreateError
    <2> QED BY <1>1, <1>2, <1>8, <2>1, <2>2, DealtPreserves DEF ProcessCreateError, LogError
<1>9. CASE ProcessCreateRejected(c, m)
    <2>1. Settled(m)'
        BY <1>9 DEF ProcessCreateRejected, Settled
    <2>2. faults' \in Nat
        BY <1>0, <1>9, FaultType DEF ProcessCreateRejected
    <2> QED BY <1>1, <1>2, <1>9, <2>1, <2>2, DealtPreserves DEF ProcessCreateRejected
<1>10. CASE ProcessOther(c, m)
    <2>1. Settled(m)'
        BY <1>10 DEF ProcessOther, LogError, Settled
    <2> QED BY <1>1, <1>2, <1>10, <2>1, DealtPreserves DEF ProcessOther, LogError
<1> QED BY <1>4, <1>5, <1>6, <1>7, <1>8, <1>9, <1>10

\* The offset committed is that of the message in hand, which is settled and
\* has nothing unsettled before it: it does not matter whether the consumer
\* still owns the partition, or whether the offset moves back.
LEMMA CommitPreserves ==
    ASSUME IInv, NEW c \in Consumers, NEW m \in Messages, Commit(c, m) PROVE IInv'
<1>0. TypeOK /\ HandOK
    BY DEF IInv
<1>1. m[1] \in Partitions /\ m[2] \in Nat \ {0} /\ m = <<m[1], m[2]>>
    BY DEF Messages
<1>2. hand[c] = m /\ hand[c] # NoMessage /\ Published(m) /\ pc[c] = "commit"
    BY <1>0 DEF Commit, HandOK
<1>3. SameRecord /\ UNCHANGED <<view, position>>
    BY DEF Commit, topicVars, storeVars, SameRecord
<1>4. /\ committed'[m[1]] = m[2]
      /\ \A p \in Partitions : p # m[1] => committed'[p] = committed[p]
      /\ hand'[c] = NoMessage /\ pc'[c] = "fetch"
      /\ \A d \in Consumers : d # c => hand'[d] = hand[d] /\ pc'[d] = pc[d]
    BY <1>0, <1>1 DEF Commit, Release, Goto, TypeOK
<1>5. TypeOK'
    BY <1>0, <1>1 DEF Commit, Release, Goto, TypeOK, Locations, topicVars, storeVars
<1>6. HandOK'
    BY <1>0, <1>3, <1>4 DEF HandOK, Published, SameRecord
<1>7. Len(topic[m[1]]) \in Nat
    BY <1>0, <1>1, LenIsNat
<1>8. \A n \in 1..m[2] : Published(<<m[1], n>>) /\ Settled(<<m[1], n>>)
    <2>1. Settled(m) /\ \A n \in 1..m[2]-1 : Settled(<<m[1], n>>)
        BY <1>2 DEF IInv, BehindHand, CommitIsSettled
    <2>2. \A n \in 1..m[2] : n \in 1..m[2]-1 \/ n = m[2]
        BY <1>1
    <2>3. \A n \in 1..m[2] : Published(<<m[1], n>>)
        BY <1>1, <1>2, <1>7 DEF Published
    <2> QED BY <1>1, <2>1, <2>2, <2>3
<1>9. CommittedIsSettled'
    <2>1. ASSUME NEW p \in Partitions, NEW n \in 1..committed'[p]
          PROVE  Published(<<p, n>>) /\ Settled(<<p, n>>)
        <3>1. CASE p = m[1]
            BY <1>4, <1>8, <3>1
        <3>2. CASE p # m[1]
            BY <1>4, <3>2 DEF IInv, CommittedIsSettled
        <3> QED BY <3>1, <3>2
    <2> QED BY <1>3, <2>1, SameSettled DEF CommittedIsSettled
<1>10. BehindHand' /\ CommitIsSettled'
    <2>1. BehindHand'
        BY <1>3, <1>4 DEF IInv, BehindHand, Settled, EventOf, IsCreate, SameRecord
    <2>2. CommitIsSettled'
        BY <1>3, <1>4 DEF IInv, CommitIsSettled, Settled, EventOf, IsCreate, SameRecord
    <2> QED BY <2>1, <2>2
<1>11. BehindPosition'
    <2>1. ASSUME NEW d \in Consumers, NEW p \in view[d], NEW n \in 1..position[d][p]
          PROVE  Published(<<p, n>>) /\ (Settled(<<p, n>>) \/ hand'[d] = <<p, n>>)
        <3>1. Published(<<p, n>>) /\ (Settled(<<p, n>>) \/ hand[d] = <<p, n>>)
            BY DEF IInv, BehindPosition
        <3>2. CASE d = c
            <4>1. hand[d] = <<p, n>> => Settled(<<p, n>>)
                BY <1>2, <3>2 DEF IInv, CommitIsSettled
            <4> QED BY <3>1, <4>1
        <3>3. CASE d # c
            BY <1>4, <3>1, <3>3
        <3> QED BY <3>2, <3>3
    <2> QED BY <1>3, <2>1, SameSettled DEF BehindPosition
<1> QED BY <1>3, <1>5, <1>6, <1>9, <1>10, <1>11, SameSource DEF IInv

LEMMA CommitErrorPreserves ==
    ASSUME IInv, NEW c \in Consumers, NEW m \in Messages, CommitError(c, m) PROVE IInv'
<1>0. TypeOK /\ HandOK
    BY DEF IInv
<1>1. hand[c] = m /\ Settled(m)
    BY DEF CommitError, IInv, CommitIsSettled
<1>2. SameRecord /\ UNCHANGED <<view, position, committed>>
    BY DEF CommitError, topicVars, storeVars, coordVars, SameRecord
<1>3. /\ hand'[c] = NoMessage /\ pc'[c] = "fetch"
      /\ \A d \in Consumers : d # c => hand'[d] = hand[d] /\ pc'[d] = pc[d]
    BY <1>0 DEF CommitError, Release, Goto, TypeOK
<1>4. faults' \in Nat
    BY <1>0, MayFailType DEF CommitError, TypeOK
<1>5. TypeOK'
    BY <1>0, <1>4 DEF CommitError, Release, Goto, TypeOK, Locations, topicVars, storeVars, coordVars
<1>6. HandOK'
    BY <1>0, <1>2, <1>3 DEF HandOK, Published, SameRecord
<1>7. SettlesHand(c)
    BY <1>1, <1>2, SameSettled DEF SettlesHand
<1>8. Frame
    BY <1>0, <1>2, <1>3, <1>7 DEF Frame, TypeOK
<1> QED BY <1>2, <1>5, <1>6, <1>8, QuietPreserves DEF SameRecord

LEMMA RunStepPreserves == ASSUME IInv, NEW c \in Consumers, RunStep(c) PROVE IInv'
<1>0. TypeOK /\ HandOK
    BY DEF IInv
<1>1. CASE FetchCancelled(c)
    <2>1. TypeOK'
        BY <1>0, <1>1 DEF FetchCancelled, Goto, TypeOK, Locations, topicVars, storeVars, coordVars
    <2>2. HandOK'
        BY <1>0, <1>1 DEF FetchCancelled, Goto, TypeOK, HandOK, Published, topicVars
    <2>3. Frame
        BY <1>0, <1>1 DEF FetchCancelled, Goto, TypeOK, Frame, coordVars
    <2> QED BY <1>1, <2>1, <2>2, <2>3, QuietPreserves DEF FetchCancelled, topicVars, storeVars
<1>2. ASSUME NEW p \in Partitions, NEW n \in 1..MaxEvents,
             Fetch(c, <<p, n>>) \/ Consume(c, <<p, n>>)
      PROVE  IInv'
    <2>1. <<p, n>> \in Messages
        BY <1>0, PublishedIsMessage
    <2> QED BY <1>2, <2>1, FetchPreserves, ProcessPreserves, CommitPreserves, CommitErrorPreserves
            DEF Consume
<1> QED BY <1>1, <1>2 DEF RunStep

LEMMA ForgetPreserves ==
    ASSUME IInv, NEW c \in Consumers, Forget(c), faults' \in Nat PROVE IInv'
<1>0. TypeOK /\ HandOK
    BY DEF IInv
<1>1. TypeOK'
    BY <1>0 DEF Forget, Goto, TypeOK, Locations, topicVars, storeVars
<1>2. HandOK'
    BY <1>0 DEF Forget, Goto, TypeOK, HandOK, Published, topicVars
<1>3. Frame
    BY <1>0 DEF Forget, Goto, TypeOK, Frame
<1> QED BY <1>1, <1>2, <1>3, QuietPreserves DEF Forget, topicVars, storeVars

LEMMA ProcessStepPreserves == ASSUME IInv, NEW c \in Consumers, ProcessStep(c) PROVE IInv'
<1>0. TypeOK /\ HandOK
    BY DEF IInv
<1>1. CASE Shutdown(c)
    <2>1. TypeOK'
        BY <1>0, <1>1, FaultType DEF Shutdown, TypeOK, topicVars, storeVars, coordVars
    <2>2. HandOK' /\ Frame
        BY <1>0, <1>1 DEF Shutdown, HandOK, Published, Frame, TypeOK, topicVars, coordVars
    <2> QED BY <1>1, <2>1, <2>2, QuietPreserves DEF Shutdown, topicVars, storeVars
<1>2. CASE Close(c)
    BY <1>0, <1>2, ForgetPreserves DEF Close, TypeOK
<1>3. CASE Crash(c)
    BY <1>0, <1>3, ForgetPreserves, FaultType DEF Crash
<1>4. CASE Restart(c)
    <2>1. TypeOK'
        BY <1>0, <1>4 DEF Restart, Goto, TypeOK, Locations, topicVars, storeVars, coordVars
    <2>2. HandOK' /\ Frame
        BY <1>0, <1>4 DEF Restart, Goto, HandOK, Published, Frame, TypeOK, topicVars, coordVars
    <2> QED BY <1>4, <2>1, <2>2, QuietPreserves DEF Restart, topicVars, storeVars
<1> QED BY <1>1, <1>2, <1>3, <1>4 DEF ProcessStep

LEMMA InvNext == IInv /\ [Next]_vars => IInv'
<1> SUFFICES ASSUME IInv, [Next]_vars PROVE IInv'
    OBVIOUS
<1>0. TypeOK /\ HandOK
    BY DEF IInv
<1>1. CASE TopicStep
    BY <1>1, TopicStepPreserves
<1>2. CASE Rebalance
    BY <1>0, <1>2, NewGenerationPreserves DEF Rebalance, TypeOK
<1>3. CASE SpuriousRebalance
    BY <1>0, <1>3, NewGenerationPreserves, FaultType DEF SpuriousRebalance
<1>4. ASSUME NEW c \in Consumers, ConsumerStep(c) PROVE IInv'
    BY <1>4, SyncPreserves, RunStepPreserves, ProcessStepPreserves DEF ConsumerStep
<1>5. CASE UNCHANGED vars
    <2>1. TypeOK' /\ HandOK' /\ Frame
        BY <1>0, <1>5 DEF vars, topicVars, coordVars, loopVars, storeVars, TypeOK, HandOK,
                          Published, Frame
    <2> QED BY <1>5, <2>1, QuietPreserves DEF vars, topicVars, storeVars
<1> QED BY <1>1, <1>2, <1>3, <1>4, <1>5 DEF Next, GroupStep

----------------------------------------------------------------------------
(* The theorems.                                                           *)

\* The inductive invariant holds of every behaviour.
THEOREM Invariance == Spec => []IInv
BY InvInit, InvNext, PTL DEF Spec

\* Every variable keeps to its type.
THEOREM TypeCorrect == Spec => []TypeOK
<1>1. IInv => TypeOK
    BY DEF IInv
<1> QED BY <1>1, Invariance, PTL

\* No offset is ever committed past a creation nobody has dealt with,
\* whatever consumers crash, lag behind a rebalance, or are shut down
\* (consumer.go: Process before CommitMessages).
THEOREM NothingSkipped == Spec => []CommittedIsSettled
<1>1. IInv => CommittedIsSettled
    BY DEF IInv
<1> QED BY <1>1, Invariance, PTL

\* The store never holds anything but what a creation has published.
THEOREM StoreSound == Spec => []StoreIsPublished
<1>1. IInv => StoreIsPublished
    BY DEF IInv
<1> QED BY <1>1, Invariance, PTL

LEMMA StoreStep ==
    ASSUME IInv, [Next]_vars
    PROVE  \A i \in Ids : store[i] # NoUser => store'[i] = store[i]
<1> DEFINE Goal == \A i \in Ids : store[i] # NoUser => store'[i] = store[i]
<1>1. CASE TopicStep
    BY <1>1, TopicStepGrows DEF IInv, storeVars
<1>2. CASE Rebalance \/ SpuriousRebalance \/ UNCHANGED vars
    BY <1>2 DEF Rebalance, SpuriousRebalance, NewGeneration, storeVars, vars
<1>3. ASSUME NEW c \in Consumers, Sync(c) \/ ProcessStep(c) \/ FetchCancelled(c) PROVE Goal
    BY <1>3 DEF Sync, ProcessStep, Shutdown, Close, Crash, Forget, Restart, FetchCancelled,
                storeVars
<1>4. ASSUME NEW c \in Consumers, NEW p \in Partitions, NEW n \in 1..MaxEvents,
             Fetch(c, <<p, n>>) \/ Consume(c, <<p, n>>)
      PROVE  Goal
    <2> DEFINE m == <<p, n>>
    <2>1. m \in Messages
        BY PublishedIsMessage DEF IInv
    <2> HIDE DEF m
    <2>2. CASE ProcessCreate(c, m) \/ ProcessCreateError(c, m)
        <3>1. Published(m) /\ IsCreate(EventOf(m)) /\ topic' = topic
            BY <2>2 DEF ProcessCreate, ProcessCreateError, Consuming, IInv, HandOK, topicVars
        <3> QED BY <2>1, <2>2, <3>1, UpsertGrows DEF ProcessCreate, ProcessCreateError
    <2>3. CASE ~(ProcessCreate(c, m) \/ ProcessCreateError(c, m))
        <3>1. store' = store
            BY <1>4, <2>3 DEF Fetch, Consume, ConsumeTombstone, DecodeError, ProcessNoChange,
                  ProcessCreateRejected, ProcessOther, Commit, CommitError, storeVars, m
        <3> QED BY <3>1
    <2> QED BY <2>2, <2>3
<1> QED BY <1>1, <1>2, <1>3, <1>4 DEF Next, GroupStep, ConsumerStep, RunStep

\* An entry of the store is never lost or changed, however often messages are
\* delivered again and whatever is updated or deleted in MySQL.
THEOREM StoreMonotone == Spec => StoreOnlyGrows
<1>1. IInv /\ [Next]_vars => [\A i \in Ids : store[i] # NoUser => store'[i] = store[i]]_vars
    BY StoreStep
<1> QED BY <1>1, Invariance, PTL DEF Spec, StoreOnlyGrows


----------------------------------------------------------------------------
(* ConsumerGroup implements UserProjection: every step of the group, of    *)
(* its coordinator and of the connector is a step of the projection or     *)
(* leaves it as it is.                                                     *)

LEMMA CreatedMembers ==
    ASSUME NEW u
    PROVE  /\ u \in Created <=> \E e \in Log : IsCreate(e) /\ e.after = u
           /\ u \in Created' <=> \E e \in Log' : IsCreate(e) /\ e.after = u
BY DEF Created, IsCreate

LEMMA InitRefines == Init => Projection!Init
<1> SUFFICES ASSUME Init PROVE Projection!Init
    OBVIOUS
<1>1. Log = {}
    BY InLog DEF Init
<1> QED BY <1>1 DEF Init, Projection!Init, Created

\* A message that is no new creation leaves the set of created users alone.
LEMMA AppendNoCreation ==
    ASSUME NEW e, Log' = Log \cup {e}, ~IsCreate(e) \/ e \in Log PROVE Created' = Created
<1>1. ASSUME NEW u PROVE u \in Created' <=> u \in Created
    BY CreatedMembers
<1> QED BY <1>1

LEMMA TopicStepRefines ==
    ASSUME IInv, TopicStep PROVE Projection!Next \/ UNCHANGED <<Created, store>>
<1>0. TypeOK /\ CreationsAgree /\ store' = store
    BY TopicStepGrows DEF IInv, storeVars
<1> DEFINE Goal == Projection!Next \/ UNCHANGED <<Created, store>>
<1>1. ASSUME NEW u \in Users, Insert(u) PROVE Goal
    <2> DEFINE e == Change(u.id, NoUser, u)
    <2>1. e \in Events /\ IsCreate(e) /\ e.after = u
        BY EventType, UserId DEF Change, IsCreate
    <2> HIDE DEF e
    <2>2. Log' = Log \cup {e}
        BY <1>0, <1>1, <2>1, LogOfAppend, UserId DEF Insert, e
    <2>3. Created' = Created \cup {u}
        <3>1. ASSUME NEW v PROVE v \in Created' <=> v \in Created \cup {u}
            BY <2>1, <2>2, CreatedMembers
        <3> QED BY <3>1
    <2>4. \A v \in Created : v.id # u.id
        BY <1>0, <1>1, CreatedMembers DEF Insert, Inserted, CreationsAgree
    <2>5. Projection!Create(u)
        BY <1>0, <2>3, <2>4 DEF Projection!Create
    <2> QED BY <2>5 DEF Projection!Next, Projection!Users, Users
<1>2. ASSUME NEW u \in Users, Update(u) PROVE Goal
    <2> DEFINE e == Change(u.id, table[u.id], u)
    <2>1. e \in Events /\ ~IsCreate(e)
        BY <1>0, <1>2, EventType, UserId DEF Update, TypeOK, IsCreate, Change
    <2>2. Log' = Log \cup {e}
        BY <1>0, <1>2, <2>1, LogOfAppend, UserId DEF Update
    <2> HIDE DEF e
    <2> QED BY <1>0, <2>1, <2>2, AppendNoCreation
<1>3. ASSUME NEW i \in Ids, Delete(i) PROVE Goal
    <2>1. \A e \in Log' : IsCreate(e) => e \in Log
        <3>1. Log' \subseteq Log \cup {Change(i, table[i], NoUser), Tombstone(i)}
            BY <1>0, <1>3, DeleteLog
        <3>2. ~IsCreate(Change(i, table[i], NoUser)) /\ ~IsCreate(Tombstone(i))
            BY <1>3 DEF Delete, IsCreate, Change, Tombstone
        <3> QED BY <3>1, <3>2
    <2>2. Log \subseteq Log'
        BY <1>0, <1>3, TopicStepGrows, LogGrows
    <2>3. ASSUME NEW u PROVE u \in Created' <=> u \in Created
        BY <2>1, <2>2, CreatedMembers
    <2> QED BY <1>0, <2>3
<1>4. ASSUME NEW i \in Ids, PublishUndecodable(i) PROVE Goal
    <2>1. Undecodable(i) \in Events /\ ~IsCreate(Undecodable(i))
        BY DEF Undecodable, Events, IsCreate
    <2>2. Log' = Log \cup {Undecodable(i)}
        BY <1>0, <1>4, <2>1, LogOfAppend DEF PublishUndecodable
    <2> QED BY <1>0, <2>1, <2>2, AppendNoCreation
<1>5. ASSUME NEW p \in Partitions, NEW n \in 1..MaxEvents, Replay(<<p, n>>) PROVE Goal
    <2> DEFINE e == EventOf(<<p, n>>)
    <2>1. e \in Log /\ e \in Events
        BY <1>0, <1>5, PublishedIsMessage, InLog DEF Replay, Published, EventOf
    <2>2. Log' = Log \cup {e}
        BY <1>0, <1>5, <2>1, LogOfAppend DEF Replay
    <2> HIDE DEF e
    <2> QED BY <1>0, <2>1, <2>2, AppendNoCreation
<1>6. ASSUME NEW p \in Partitions, NEW n \in 1..MaxEvents, Compact(<<p, n>>) PROVE Goal
    <2>1. Log' = Log
        BY <1>6 DEF Compact, Log
    <2>2. ASSUME NEW u PROVE u \in Created' <=> u \in Created
        BY <2>1, CreatedMembers
    <2> QED BY <1>0, <2>2
<1> QED BY <1>1, <1>2, <1>3, <1>4, <1>5, <1>6 DEF TopicStep

LEMMA SameLogSameCreated == ASSUME topic' = topic PROVE Created' = Created
<1>1. Log' = Log
    BY DEF Log
<1>2. ASSUME NEW u PROVE u \in Created' <=> u \in Created
    BY <1>1, CreatedMembers
<1> QED BY <1>2

LEMMA GroupStepRefines ==
    ASSUME IInv, GroupStep \/ UNCHANGED vars
    PROVE  Projection!Next \/ UNCHANGED <<Created, store>>
<1> DEFINE Goal == Projection!Next \/ UNCHANGED <<Created, store>>
<1>1. CASE Rebalance \/ SpuriousRebalance \/ UNCHANGED vars
    BY <1>1, SameLogSameCreated DEF Rebalance, SpuriousRebalance, NewGeneration, storeVars,
       topicVars, vars
<1>2. ASSUME NEW c \in Consumers, Sync(c) \/ ProcessStep(c) \/ FetchCancelled(c) PROVE Goal
    BY <1>2, SameLogSameCreated DEF Sync, ProcessStep, Shutdown, Close, Crash, Forget, Restart,
       FetchCancelled, storeVars, topicVars
<1>3. ASSUME NEW c \in Consumers, NEW p \in Partitions, NEW n \in 1..MaxEvents,
             Fetch(c, <<p, n>>) \/ Consume(c, <<p, n>>)
      PROVE  Goal
    <2> DEFINE m == <<p, n>>
    <2> HIDE DEF m
    <2>1. Created' = Created
        <3>1. topic' = topic
            BY <1>3 DEF Fetch, Consume, ConsumeTombstone, DecodeError, ProcessNoChange,
               ProcessCreate, ProcessCreateError, ProcessCreateRejected, ProcessOther, Commit,
               CommitError, topicVars
        <3> QED BY <3>1, SameLogSameCreated
    <2>2. CASE (ProcessCreate(c, m) \/ ProcessCreateError(c, m)) /\ store' # store
        <3> DEFINE u == EventOf(m).after
        <3>1. Published(m) /\ IsCreate(EventOf(m))
            BY <2>2 DEF ProcessCreate, ProcessCreateError, Consuming, IInv, HandOK
        <3>2. EventOf(m) \in Log /\ EventOf(m) \in Events
            BY <3>1, InLog, LogType DEF Published, EventOf, IInv
        <3>3. u \in Users /\ u \in Created
            BY <3>1, <3>2, CreatedUser, CreatedMembers
        <3>4. Projection!Project(u)
            BY <2>1, <2>2, <3>3 DEF ProcessCreate, ProcessCreateError, Upsert, Projection!Project
        <3> QED BY <3>3, <3>4 DEF Projection!Next, Projection!Users, Users
    <2>3. CASE ~(ProcessCreate(c, m) \/ ProcessCreateError(c, m))
        <3>1. store' = store
            BY <1>3, <2>3 DEF Fetch, Consume, ConsumeTombstone, DecodeError, ProcessNoChange,
                  ProcessCreateRejected, ProcessOther, Commit, CommitError, storeVars, m
        <3> QED BY <2>1, <3>1
    <2> QED BY <2>1, <2>2, <2>3
<1> QED BY <1>1, <1>2, <1>3 DEF GroupStep, ConsumerStep, RunStep

\* The group, its coordinator and the connector together implement the
\* projection that the readers of the store rely on.
THEOREM Refinement == Spec => ImplementsProjection
<1>1. IInv /\ [Next]_vars => [Projection!Next]_<<Created, store>>
    BY TopicStepRefines, GroupStepRefines DEF Next
<1> QED BY <1>1, InitRefines, Invariance, PTL
        DEF Spec, ImplementsProjection, Projection!Spec

----------------------------------------------------------------------------
(* The safety half of EventuallySettled: a group that has come to rest has *)
(* settled everything, and nothing in it waits but for the next message.   *)

\* The guards of a fair RunStep, but for the price of failures: what the loop
\* of a consumer can always go on with.
CanRun(c) ==
    \/ pc[c] = "fetch" /\ c \in ctxDone
    \/ \E p \in Partitions, n \in 1..MaxEvents :
          \/ pc[c] = "fetch" /\ IsNext(c, <<p, n>>)
          \/ /\ Consuming(c, <<p, n>>)
             /\ LET e == EventOf(<<p, n>>) IN
                \/ e.kind \in {"tombstone", "undecodable"}
                \/ IsNoChange(e) \/ IsCreate(e) \/ IsOther(e)
          \/ pc[c] = "commit" /\ hand[c] = <<p, n>> /\ ~Waits(c)

\* The guard of Rebalance, and that of Sync.
JoinsNext(c) == members # Alive \/ c \in (members \cap Alive) \ synced

\* A consumer waits for the next message, or with a commit for the next
\* generation, which is on its way; either only until its context is done.
OnlyKafkaIsWaitedFor ==
    \A c \in Alive :
        \/ CanRun(c) \/ pc[c] = "returned"
        \/ c \notin ctxDone /\ (pc[c] = "fetch" \/ (pc[c] = "commit" /\ JoinsNext(c)))

\* Rebalance, Sync, RunStep and Close have nothing left to do.
AtRest ==
    /\ members = Alive /\ Alive \subseteq synced
    /\ \A c \in Consumers : ~CanRun(c) /\ pc[c] # "returned"

SettledAtRest ==
    AtRest /\ Alive # {} => \A p \in Partitions : \A n \in 1..Len(topic[p]) : Settled(<<p, n>>)

TopicFits == \A p \in Partitions : Len(topic[p]) <= MaxEvents

LEMMA GroupStepTopic == ASSUME GroupStep PROVE topic' = topic
<1> USE DEF topicVars
<1>1. CASE Rebalance \/ SpuriousRebalance
    BY <1>1 DEF Rebalance, SpuriousRebalance, NewGeneration
<1>2. ASSUME NEW c, NEW m, Fetch(c, m) \/ Consume(c, m) PROVE topic' = topic
    BY <1>2 DEF Fetch, Consume, ConsumeTombstone, DecodeError, ProcessNoChange, ProcessCreate,
                ProcessCreateError, ProcessCreateRejected, ProcessOther, Commit, CommitError
<1>3. ASSUME NEW c, Sync(c) \/ FetchCancelled(c) PROVE topic' = topic
    BY <1>3 DEF Sync, FetchCancelled
<1>4. ASSUME NEW c, ProcessStep(c) PROVE topic' = topic
    BY <1>4 DEF ProcessStep, Shutdown, Close, Crash, Forget, Restart
<1> QED BY <1>1, <1>2, <1>3, <1>4 DEF GroupStep, ConsumerStep, RunStep

LEMMA TopicStaysFit == TypeOK /\ TopicFits /\ [Next]_vars => TopicFits'
<1> SUFFICES ASSUME TypeOK, TopicFits, [Next]_vars PROVE TopicFits'
    OBVIOUS
<1>1. CASE topic' = topic
    BY <1>1 DEF TopicFits
<1>2. ASSUME NEW p \in Partitions, NEW e \in Events, Append1(p, e) PROVE TopicFits'
    <2>1. Len(Append(topic[p], e)) = Len(topic[p]) + 1 /\ Len(topic[p]) \in Nat
        BY AppendProperties, LenIsNat DEF TypeOK
    <2> QED BY <1>2, <2>1 DEF Append1, TypeOK, TopicFits
<1>3. ASSUME NEW i \in Ids, Delete(i) PROVE TopicFits'
    <2> DEFINE p == PartitionOf[i]
               d == Change(i, table[i], NoUser)
               t == Tombstone(i)
    <2>1. d \in Events /\ t \in Events
        BY EventType DEF TypeOK
    <2>2. topic' = [topic EXCEPT ![p] = @ \o <<d, t>>] /\ Len(topic[p]) + 1 < MaxEvents
        BY <1>3 DEF Delete
    <2> HIDE DEF d, t
    <2>3. <<d, t>> \in Seq(Events) /\ Len(<<d, t>>) = 2 /\ Len(topic[p]) \in Nat
        BY <2>1, TwoEvents, LenIsNat
    <2>4. Len(topic[p] \o <<d, t>>) = Len(topic[p]) + 2
        BY <2>3, ConcatProperties DEF TypeOK
    <2> QED BY <2>2, <2>3, <2>4 DEF TypeOK, TopicFits
<1>4. ASSUME NEW u \in Users, Insert(u) \/ Update(u) PROVE TopicFits'
    BY <1>2, <1>4, EventType, UserId DEF Insert, Update, TypeOK
<1>5. ASSUME NEW i \in Ids, PublishUndecodable(i) PROVE TopicFits'
    BY <1>2, <1>5, EventType DEF PublishUndecodable
<1>6. ASSUME NEW p \in Partitions, NEW n \in 1..MaxEvents, Replay(<<p, n>>) PROVE TopicFits'
    BY <1>2, <1>6, PublishedIsMessage DEF Replay
<1>7. ASSUME NEW p \in Partitions, NEW n \in 1..MaxEvents, Compact(<<p, n>>) PROVE topic' = topic
    BY <1>7 DEF Compact
<1>8. CASE TopicStep
    BY <1>1, <1>3, <1>4, <1>5, <1>6, <1>7, <1>8 DEF TopicStep
<1>9. CASE GroupStep \/ UNCHANGED vars
    BY <1>1, <1>9, GroupStepTopic DEF vars, topicVars
<1> QED BY <1>8, <1>9 DEF Next

LEMMA HandFits ==
    ASSUME IInv, TopicFits, NEW c \in Consumers, hand[c] # NoMessage
    PROVE  \E p \in Partitions, n \in 1..MaxEvents :
              hand[c] = <<p, n>> /\ EventOf(<<p, n>>) \in Events
<1>1. hand[c] \in Messages /\ Published(hand[c])
    BY DEF IInv, HandOK
<1>2. PICK p \in Partitions, n \in Nat \ {0} : hand[c] = <<p, n>>
    BY <1>1 DEF Messages
<1>3. n \in 1..MaxEvents
    BY <1>1, <1>2, LenIsNat DEF Published, TopicFits, IInv
<1> QED BY <1>1, <1>2, <1>3, PublishedIsMessage DEF IInv

LEMMA NobodyElseWaits == IInv /\ TopicFits => OnlyKafkaIsWaitedFor
<1>0. ASSUME NEW c \in Alive, Waits(c) PROVE c \notin ctxDone /\ pc[c] = "commit" /\ JoinsNext(c)
    BY <1>0 DEF Waits, JoinsNext
<1> SUFFICES ASSUME IInv, TopicFits, NEW c \in Alive, pc[c] \in {"consume", "commit"}, ~Waits(c)
             PROVE  CanRun(c)
    BY <1>0 DEF OnlyKafkaIsWaitedFor, IInv, TypeOK, Locations, Alive, CanRun
<1>1. c \in Consumers /\ hand[c] # NoMessage
    BY DEF Alive, IInv, HandOK
<1>2. PICK p \in Partitions, n \in 1..MaxEvents : hand[c] = <<p, n>> /\ EventOf(<<p, n>>) \in Events
    BY <1>1, HandFits
<1>3. \/ EventOf(<<p, n>>).kind \in {"tombstone", "undecodable"}
      \/ IsNoChange(EventOf(<<p, n>>)) \/ IsCreate(EventOf(<<p, n>>)) \/ IsOther(EventOf(<<p, n>>))
    BY <1>2 DEF Events, IsNoChange, IsCreate, IsOther
<1> QED BY <1>2, <1>3 DEF CanRun, Consuming

\* Each partition belongs to a member once there are any, and a member that
\* has picked up its assignment reads what it has been assigned.
Assigned ==
    /\ members = {} \/ \A p \in Partitions : owner[p] \in members
    /\ synced \subseteq members \cap Alive
    /\ \A c \in synced : view[c] = {p \in Partitions : owner[p] = c}

LEMMA StaysAssigned == IInv /\ Assigned /\ [Next]_vars => Assigned'
<1> SUFFICES ASSUME TypeOK, Assigned, [Next]_vars PROVE Assigned'
    BY DEF IInv
<1> USE DEF coordVars, loopVars
<1>1. CASE TopicStep \/ UNCHANGED vars
    BY <1>1, TopicStepGrows DEF Assigned, Alive, vars
<1>2. CASE Rebalance \/ SpuriousRebalance
    BY <1>2 DEF Rebalance, SpuriousRebalance, NewGeneration, Assigned
<1>3. ASSUME NEW c \in Consumers, Sync(c) PROVE Assigned'
    BY <1>3 DEF Sync, Assigned, Alive, TypeOK
<1>4. ASSUME NEW c \in Consumers, RunStep(c) PROVE Assigned'
    <2>1. UNCHANGED <<owner, members, synced, view>>
          /\ \E l \in Locations \ {"down"} : Goto(c, l)
        <3>1. ASSUME NEW m, Fetch(c, m) \/ Consume(c, m) PROVE <2>1!:
            BY <3>1 DEF Fetch, Consume, ConsumeTombstone, DecodeError, ProcessNoChange, ProcessCreate,
                        ProcessCreateError, ProcessCreateRejected, ProcessOther, Commit, CommitError,
                        LogError, Release, Goto, Locations
        <3>2. CASE FetchCancelled(c)
            BY <3>2 DEF FetchCancelled, Goto, Locations
        <3> QED BY <1>4, <3>1, <3>2 DEF RunStep
    <2>2. Alive \subseteq Alive'
        BY <2>1 DEF Goto, Alive, TypeOK
    <2> QED BY <2>1, <2>2 DEF Assigned
<1>5. ASSUME NEW c \in Consumers, ProcessStep(c) PROVE Assigned'
    <2>1. CASE Shutdown(c)
        BY <2>1 DEF Shutdown, Assigned, Alive
    <2>2. CASE Close(c) \/ Crash(c)
        BY <2>2 DEF Close, Crash, Forget, Goto, Assigned, Alive, TypeOK
    <2>3. CASE Restart(c)
        BY <2>3 DEF Restart, Goto, Assigned, Alive, TypeOK
    <2> QED BY <1>5, <2>1, <2>2, <2>3 DEF ProcessStep
<1> QED BY <1>1, <1>2, <1>3, <1>4, <1>5 DEF Next, GroupStep, ConsumerStep

LEMMA LeastNumber ==
    ASSUME NEW T, T \subseteq Nat, T # {}
    PROVE  \E n \in T : \A m \in T : n <= m
<1>1. PICK n \in T : \A m \in T : ~ (<<m, n>> \in OpToRel(<, Nat))
    BY NatLessThanWellFounded, WFMin
<1>2. ASSUME NEW m \in T, m < n PROVE FALSE
    <2>1. <<m, n>> \in OpToRel(<, Nat)
        BY <1>2 DEF OpToRel
    <2> QED BY <1>1, <2>1
<1> QED BY <1>2

\* If a reader has no next message, compaction has removed all that follows:
\* otherwise the first message that is left would be next.
LEMMA NothingNext ==
    ASSUME TypeOK, TopicFits, NEW c \in Consumers, NEW p \in view[c],
           \A n \in 1..MaxEvents : ~IsNext(c, <<p, n>>),
           NEW k \in 1..Len(topic[p]), k > position[c][p]
    PROVE  <<p, k>> \in compacted
<1>1. p \in Partitions /\ position[c][p] \in Nat /\ Len(topic[p]) \in Nat
    BY LenIsNat DEF TypeOK
<1> DEFINE left == {n \in 1..Len(topic[p]) : n > position[c][p] /\ <<p, n>> \notin compacted}
<1>2. ASSUME <<p, k>> \notin compacted PROVE FALSE
    <2>1. left \subseteq Nat /\ left # {}
        BY <1>1, <1>2
    <2>2. PICK n \in left : \A m \in left : n <= m
        BY <2>1, LeastNumber
    <2>3. n \in 1..MaxEvents
        BY <1>1, <2>2 DEF TopicFits
    <2>4. ASSUME NEW m \in position[c][p]+1..n-1 PROVE <<p, m>> \in compacted
        <3>1. m \in 1..Len(topic[p]) /\ m > position[c][p] /\ ~(n <= m)
            BY <1>1, <2>2
        <3> QED BY <2>2, <3>1
    <2>5. IsNext(c, <<p, n>>)
        BY <1>1, <2>2, <2>4 DEF IsNext, Published
    <2> QED BY <2>3, <2>5
<1> QED BY <1>2

LEMMA RestSettles == IInv /\ TopicFits /\ Assigned => SettledAtRest
<1> SUFFICES ASSUME IInv, TopicFits, Assigned, AtRest, Alive # {},
                    NEW p \in Partitions, NEW n \in 1..Len(topic[p])
             PROVE  Settled(<<p, n>>)
    BY DEF SettledAtRest
<1>1. TypeOK /\ Len(topic[p]) \in Nat
    BY LenIsNat DEF IInv
<1>2. PICK c \in Consumers : c = owner[p] /\ c \in Alive /\ p \in view[c]
    BY DEF AtRest, Assigned, Alive
<1>3. ~CanRun(c) /\ pc[c] = "fetch"
    BY <1>2, NobodyElseWaits DEF AtRest, OnlyKafkaIsWaitedFor, JoinsNext
<1>4. \A k \in 1..MaxEvents : ~IsNext(c, <<p, k>>)
    BY <1>3 DEF CanRun
<1>5. CASE n \in 1..position[c][p]
    <2>1. Settled(<<p, n>>) \/ hand[c] = <<p, n>>
        BY <1>2, <1>5 DEF IInv, BehindPosition
    <2>2. hand[c] = NoMessage /\ <<p, n>> \in Messages
        BY <1>1, <1>3 DEF IInv, HandOK, Messages
    <2> QED BY <2>1, <2>2
<1>6. CASE n > position[c][p]
    BY <1>1, <1>2, <1>4, <1>6, NothingNext DEF Settled
<1> QED BY <1>1, <1>2, <1>5, <1>6 DEF TypeOK

\* How far the loop of a consumer still is from its next fetch, or from its
\* end, and what its reader has still to deliver.
Stage(l) == CASE l = "consume" -> 3 [] l = "commit" -> 2 [] l = "fetch" -> 1 [] OTHER -> 0
Unread(c) == {m \in Messages : Published(m) /\ m[1] \in view[c] /\ m[2] > position[c][m[1]]}

LoopGetsOn ==
    \A c \in Consumers : RunStep(c) =>
        \/ Unread(c)' \subseteq Unread(c) /\ Unread(c)' # Unread(c)
        \/ Unread(c)' = Unread(c) /\ Stage(pc'[c]) < Stage(pc[c])

LEMMA GetsOn == ASSUME IInv, NEW c \in Consumers, RunStep(c)
                PROVE  \/ Unread(c)' \subseteq Unread(c) /\ Unread(c)' # Unread(c)
                       \/ Unread(c)' = Unread(c) /\ Stage(pc'[c]) < Stage(pc[c])
<1>0. TypeOK
    BY DEF IInv
<1>1. ASSUME UNCHANGED <<topic, view, position>> PROVE Unread(c)' = Unread(c)
    BY <1>1 DEF Unread, Published
<1>2. CASE FetchCancelled(c)
    BY <1>0, <1>1, <1>2 DEF FetchCancelled, Goto, TypeOK, topicVars, Stage
<1>3. ASSUME NEW m, Consume(c, m)
      PROVE  Unread(c)' = Unread(c) /\ Stage(pc'[c]) < Stage(pc[c])
    <2>1. UNCHANGED <<topic, view, position>>
        BY <1>3 DEF Consume, ConsumeTombstone, DecodeError, ProcessNoChange, ProcessCreate,
                    ProcessCreateError, ProcessCreateRejected, ProcessOther, Commit, CommitError, topicVars
    <2>2. \/ pc[c] = "consume" /\ pc'[c] \in {"commit", "fetch"}
          \/ pc[c] = "commit" /\ pc'[c] = "fetch"
        BY <1>0, <1>3 DEF Consume, ConsumeTombstone, DecodeError, ProcessNoChange, ProcessCreate,
                    ProcessCreateError, ProcessCreateRejected, ProcessOther, Commit, CommitError,
                    Consuming, LogError, Release, Goto, TypeOK
    <2> QED BY <1>1, <2>1, <2>2 DEF Stage
<1>4. ASSUME NEW p \in Partitions, NEW n \in 1..MaxEvents, Fetch(c, <<p, n>>)
      PROVE  Unread(c)' \subseteq Unread(c) /\ Unread(c)' # Unread(c)
    <2>1. /\ p \in view[c] /\ Published(<<p, n>>) /\ n > position[c][p]
          /\ position' = [position EXCEPT ![c][p] = n] /\ UNCHANGED <<topic, view>>
        BY <1>4 DEF Fetch, IsNext, topicVars
    <2>2. /\ position[c] \in [Partitions -> Nat] /\ n \in Nat
          /\ position'[c] = [position[c] EXCEPT ![p] = n]
        BY <1>0, <2>1 DEF TypeOK
    <2>3. <<p, n>> \in Unread(c) /\ <<p, n>> \notin Unread(c)'
        BY <2>1, <2>2 DEF Unread, Messages
    <2>4. ASSUME NEW m \in Unread(c)' PROVE m \in Unread(c)
        <3>1. /\ m \in Messages /\ m[1] \in Partitions /\ m[2] \in Nat /\ Published(m)
              /\ m[1] \in view[c] /\ m[2] > position'[c][m[1]]
            BY <2>1 DEF Unread, Messages, Published
        <3>2. m[2] > position[c][m[1]]
            BY <2>1, <2>2, <3>1
        <3> QED BY <3>1, <3>2 DEF Unread
    <2> QED BY <2>3, <2>4
<1> QED BY <1>2, <1>3, <1>4 DEF RunStep

\* The loop of a consumer never goes round for nothing: each of its steps
\* leaves its reader less to deliver, or leaves that as it is and brings it
\* closer to the next fetch or to its end: no error of Process or of
\* CommitMessages makes it spin.
THEOREM TheLoopGetsOn == Spec => [][LoopGetsOn]_vars
<1>1. IInv /\ [Next]_vars => [LoopGetsOn]_vars
    BY GetsOn DEF LoopGetsOn
<1> QED BY <1>1, Invariance, PTL DEF Spec

\* A consumer waits for nothing but the next message and, with a commit, the
\* next generation, and for these no longer than its context allows: every
\* message in hand, of whatever kind, has a way on that takes no failure,
\* whether or not the partition is still its own, and every cancelled consumer
\* has one to its end.
THEOREM OnlyKafkaIsEverWaitedFor == Spec => []OnlyKafkaIsWaitedFor
<1>1. Init => TopicFits
    BY DEF Init, TopicFits
<1>2. IInv => TypeOK
    BY DEF IInv
<1> QED BY <1>1, <1>2, TopicStaysFit, NobodyElseWaits, Invariance, PTL DEF Spec

\* A group that has come to rest with one consumer alive has settled all that
\* was ever published: no rebalance, crash, compaction or late commit leaves a
\* message behind that nobody will fetch again.
THEOREM RestMeansSettled == Spec => []SettledAtRest
<1>1. Init => TopicFits /\ Assigned
    BY DEF Init, TopicFits, Assigned
<1>2. IInv => TypeOK
    BY DEF IInv
<1> QED BY <1>1, <1>2, TopicStaysFit, StaysAssigned, RestSettles, Invariance, PTL DEF Spec

----------------------------------------------------------------------------
(* Without a disturbance nothing is lost.                                  *)

\* Until the first fault nobody is shut down, nothing is compacted or refused,
\* and only changes that no creation is among end in an error.
Undisturbed ==
    faults = 0 =>
        /\ ctxDone = {} /\ compacted = {} /\ rejected = {}
        /\ \A m \in failed : Published(m) /\ ~IsCreate(EventOf(m))

LEMMA OneFaultMore ==
    ASSUME TypeOK
    PROVE  /\ Fault => faults' # 0
           /\ \A c \in Consumers : ctxDone = {} /\ MayFail(c) => faults' # 0
BY DEF TypeOK, Fault, MayFail

LEMMA TopicStepUndisturbed == ASSUME IInv, Undisturbed, TopicStep PROVE Undisturbed'
<1> SUFFICES ASSUME faults' = 0
             PROVE  (/\ ctxDone = {} /\ compacted = {} /\ rejected = {}
                     /\ \A m \in failed : Published(m) /\ ~IsCreate(EventOf(m)))'
    BY DEF Undisturbed
<1>1. TypeOK /\ TypeOK' /\ TopicGrows /\ UNCHANGED <<coordVars, loopVars, storeVars>>
    BY TopicStepGrows DEF IInv
<1>2. UNCHANGED <<faults, compacted>>
    BY <1>1, OneFaultMore DEF TopicStep, Insert, Update, Delete, PublishUndecodable, Replay, Compact
<1>3. /\ ctxDone' = {} /\ compacted' = {} /\ rejected' = {} /\ failed' = failed
      /\ \A m \in failed : Published(m) /\ ~IsCreate(EventOf(m))
    BY <1>1, <1>2 DEF Undisturbed, loopVars, storeVars
<1>4. ASSUME NEW m \in failed PROVE Published(m)' /\ ~IsCreate(EventOf(m))'
    <2>1. m \in Messages /\ topic' \in [Partitions -> Seq(Events)]
        BY <1>1 DEF TypeOK
    <2>2. Published(m)' /\ EventOf(m)' = EventOf(m)
        BY <1>1, <1>3, <2>1, PublishedStays
    <2> QED BY <1>3, <2>2 DEF IsCreate
<1> QED BY <1>3, <1>4

LEMMA GroupStepUndisturbed == ASSUME IInv, Undisturbed, GroupStep PROVE Undisturbed'
<1> SUFFICES ASSUME faults' = 0
             PROVE  (/\ ctxDone = {} /\ compacted = {} /\ rejected = {}
                     /\ \A m \in failed : Published(m) /\ ~IsCreate(EventOf(m)))'
    BY DEF Undisturbed
<1> USE DEF topicVars, coordVars, loopVars, storeVars
<1>0. TypeOK /\ HandOK /\ topic' = topic /\ faults \in Nat
    BY GroupStepTopic DEF IInv, TypeOK
<1>1. faults = 0
    <2>1. ASSUME NEW c, NEW m, Fetch(c, m) \/ Consume(c, m) PROVE faults' = faults \/ Fault
        BY <2>1 DEF Fetch, Consume, ConsumeTombstone, DecodeError, ProcessNoChange, ProcessCreate,
                    ProcessCreateError, ProcessCreateRejected, ProcessOther, Commit, CommitError, MayFail
    <2>2. ASSUME NEW c, Sync(c) \/ ProcessStep(c) \/ FetchCancelled(c) PROVE faults' = faults \/ Fault
        BY <2>2 DEF Sync, ProcessStep, Shutdown, Close, Crash, Restart, FetchCancelled
    <2>3. Rebalance \/ SpuriousRebalance => faults' = faults \/ Fault
        BY DEF Rebalance, SpuriousRebalance
    <2>4. faults' = faults \/ Fault
        BY <2>1, <2>2, <2>3 DEF GroupStep, ConsumerStep, RunStep
    <2> QED BY <1>0, <2>4, OneFaultMore
<1>2. /\ ctxDone = {} /\ compacted = {} /\ rejected = {}
      /\ \A m \in failed : Published(m)' /\ ~IsCreate(EventOf(m))'
    BY <1>0, <1>1 DEF Undisturbed, Published, EventOf, IsCreate
<1>3. ASSUME UNCHANGED <<ctxDone, compacted, storeVars>> PROVE Undisturbed'
    BY <1>2, <1>3 DEF Undisturbed
<1>4. ASSUME Rebalance \/ SpuriousRebalance PROVE Undisturbed'
    <2>1. NewGeneration
        BY <1>4 DEF Rebalance, SpuriousRebalance
    <2>2. /\ ctxDone' = ctxDone /\ compacted' = compacted
          /\ store' = store /\ failed' = failed /\ rejected' = rejected
        BY <2>1 DEF NewGeneration
    <2> QED BY <1>3, <2>2
<1>5. ASSUME NEW c \in Consumers, Sync(c) \/ ProcessStep(c) \/ FetchCancelled(c) PROVE Undisturbed'
    <2>1. ~Shutdown(c)
        BY <1>0, OneFaultMore DEF Shutdown
    <2>2. ctxDone' = {} /\ UNCHANGED <<compacted, storeVars>>
        BY <1>2, <1>5, <2>1 DEF Sync, ProcessStep, Close, Crash, Forget, Restart, FetchCancelled
    <2> QED BY <1>2, <1>3, <2>2
<1>6. ASSUME NEW c \in Consumers, NEW m, Fetch(c, m) \/ Consume(c, m) PROVE Undisturbed'
    <2>1. UNCHANGED <<ctxDone, compacted>>
        BY <1>6 DEF Fetch, Consume, ConsumeTombstone, DecodeError, ProcessNoChange, ProcessCreate,
                    ProcessCreateError, ProcessCreateRejected, ProcessOther, Commit, CommitError
    <2>2. ~ProcessCreateError(c, m) /\ ~ProcessCreateRejected(c, m)
        BY <1>0, <1>2, OneFaultMore DEF ProcessCreateError, ProcessCreateRejected
    <2>3. CASE DecodeError(c, m) \/ ProcessOther(c, m)
        <3>1. /\ Consuming(c, m) /\ ~IsCreate(EventOf(m))
              /\ failed' = failed \cup {m} /\ rejected' = rejected
            BY <2>3 DEF DecodeError, ProcessOther, LogError, IsOther, IsCreate
        <3>2. Published(m)' /\ ~IsCreate(EventOf(m))'
            BY <1>0, <3>1 DEF HandOK, Consuming, Published, EventOf, IsCreate
        <3> QED BY <1>2, <2>1, <3>1, <3>2 DEF Undisturbed
    <2>4. CASE failed' = failed /\ rejected' = rejected
        BY <1>2, <2>1, <2>4 DEF Undisturbed
    <2> QED BY <1>6, <2>2, <2>3, <2>4
            DEF Fetch, Consume, ConsumeTombstone, ProcessNoChange, ProcessCreate, Commit, CommitError
<1>7. Undisturbed'
    <2>1. ASSUME NEW c \in Consumers, RunStep(c) PROVE Undisturbed'
        BY <1>5, <1>6, <2>1 DEF RunStep
    <2> QED BY <1>4, <1>5, <2>1 DEF GroupStep, ConsumerStep
<1> QED BY <1>7 DEF Undisturbed

\* Until the first fault every creation that the group has put behind it is
\* in the store, and every one there is once it has come to rest.
StoredUntilTheFirstFault ==
    faults = 0 =>
        /\ CommittedIsStored
        /\ AtRest /\ Alive # {} =>
               \A p \in Partitions : \A n \in 1..Len(topic[p]) :
                   LET e == EventOf(<<p, n>>)
                   IN  IsCreate(e) => store[e.after.id] = e.after

\* The group loses nothing by itself: what the run group_lost finds takes a
\* failure.  Neither the errors of updates and deletions nor members that
\* join and hold on to messages make a creation go missing.
THEOREM NothingIsLostByItself == Spec => []StoredUntilTheFirstFault
<1>1. Init => Undisturbed
    BY DEF Init, Undisturbed
<1>2. IInv /\ Undisturbed /\ [Next]_vars => Undisturbed'
    <2> SUFFICES ASSUME IInv, Undisturbed, UNCHANGED vars PROVE Undisturbed'
        BY TopicStepUndisturbed, GroupStepUndisturbed DEF Next
    <2> QED BY DEF vars, topicVars, loopVars, storeVars, Undisturbed, Published, EventOf, IsCreate
<1>3. IInv /\ Undisturbed /\ SettledAtRest => StoredUntilTheFirstFault
    <2> SUFFICES ASSUME IInv, Undisturbed, SettledAtRest, faults = 0 PROVE StoredUntilTheFirstFault
        BY DEF StoredUntilTheFirstFault
    <2>1. ASSUME NEW m, Settled(m), IsCreate(EventOf(m))
          PROVE  store[EventOf(m).after.id] = EventOf(m).after
        BY <2>1 DEF Settled, Undisturbed
    <2>2. CommittedIsStored
        BY <2>1 DEF IInv, CommittedIsSettled, CommittedIsStored
    <2>3. ASSUME AtRest, Alive # {}, NEW p \in Partitions, NEW n \in 1..Len(topic[p])
          PROVE  Settled(<<p, n>>)
        BY <2>3 DEF SettledAtRest
    <2> QED BY <2>1, <2>2, <2>3 DEF StoredUntilTheFirstFault
<1> QED BY <1>1, <1>2, <1>3, Invariance, RestMeansSettled, PTL DEF Spec

=============================================================================
