-------------------------- MODULE CacheScanProofs --------------------------
(***************************************************************************)
(* Theorems about CacheScan, for every number of users, calls, pages and   *)
(* faults: what a list holds, and that a read of the cache is a read of a  *)
(* store as Listing has it.                                                *)
(***************************************************************************)
EXTENDS CacheScan, FiniteSetTheorems, SequenceTheorems, TLAPS

USE SizeAssumption, EmptyAssumption

----------------------------------------------------------------------------
(* The pages.                                                              *)

\* SetToSeq, which is given by CHOOSE, lists the set: one to one, from a
\* segment of the numbers that has as many members as the set.
LEMMA SetToSeqLists ==
    ASSUME NEW S, IsFiniteSet(S)
    PROVE  SetToSeq(S) \in Seq(S) /\ Range(SetToSeq(S)) = S
<1> DEFINE n == Cardinality(S)
           f == SetToSeq(S)
<1>1. n \in Nat /\ ExistsBijection(1..n, S)
    BY FS_CardinalityType
<1>2. \E g \in [1..n -> S] : IsInjective(g)
    BY <1>1 DEF ExistsBijection, Bijection, Injection
<1>3. f \in [1..n -> S] /\ IsInjective(f)
    BY <1>2 DEF SetToSeq
<1> HIDE DEF f
<1>4. IsFiniteSet(1..n) /\ Cardinality(1..n) = n
    BY <1>1, FS_Interval
<1>5. f \in Surjection(1..n, S)
    BY <1>3, <1>4, FS_Injection DEF Injection
<1>6. f \in Seq(S)
    BY <1>1, <1>3
<1>7. Range(f) = S
    BY <1>3, <1>5 DEF Range, Surjection
<1> QED BY <1>6, <1>7 DEF f

LEMMA ConcatRange ==
    ASSUME NEW T, NEW s \in Seq(T), NEW t \in Seq(T)
    PROVE  s \o t \in Seq(T) /\ Range(s \o t) = Range(s) \cup Range(t)
BY RangeConcatenation

\* What a page adds to the keys: the users of its bucket, and keys the call
\* has already.
LEMMA PageAdds ==
    ASSUME NEW T, NEW old \in Seq(T), NEW S \in SUBSET T, IsFiniteSet(S),
           NEW again \in {<<>>} \cup {<<k>> : k \in T \cap Range(old)}
    PROVE  LET all == old \o SetToSeq(S) \o again
           IN  all \in Seq(T) /\ Range(all) = Range(old) \cup S
<1> DEFINE two == old \o SetToSeq(S)
<1>1. SetToSeq(S) \in Seq(S) /\ Range(SetToSeq(S)) = S
    BY SetToSeqLists
<1>2. SetToSeq(S) \in Seq(T)
    BY <1>1
<1>3. two \in Seq(T) /\ Range(two) = Range(old) \cup S
    BY <1>1, <1>2, ConcatRange
<1>4. again \in Seq(T) /\ Range(again) \subseteq Range(old)
    <2>1. CASE again = <<>>
        BY <2>1 DEF Range
    <2>2. CASE again \in {<<k>> : k \in T \cap Range(old)}
        <3>1. PICK k \in T \cap Range(old) : again = <<k>>
            BY <2>2
        <3>2. again \in Seq(T) /\ DOMAIN again = {1} /\ again[1] = k
            BY <3>1
        <3> QED BY <3>1, <3>2 DEF Range
    <2> QED BY <2>1, <2>2
<1> HIDE DEF two
<1>5. two \o again \in Seq(T) /\ Range(two \o again) = Range(two) \cup Range(again)
    BY <1>3, <1>4, ConcatRange
<1> QED BY <1>3, <1>4, <1>5 DEF two

----------------------------------------------------------------------------
(* The invariant.                                                          *)

\* A call starts at the first page, and lists nothing before it returns.
NoPages == \A c \in Calls : pc[c] = "idle" => cursor[c] = 0
NothingYet == \A c \in Calls : pc[c] # "returned" => users[c] = <<>>

\* What makes the list complete: while a call scans, Redis still holds what
\* is owed to it, and of that the call has found all the users in the buckets
\* it has passed - those that it has not passed cannot be in the pages it has.
Found == \A c \in Calls :
    pc[c] = "scanning" => /\ owed[c] \subseteq cache
                          /\ \A u \in owed[c] : bucket[u] <= cursor[c] => u \in Range(keys[c])

IInv == TypeOK /\ IsFiniteSet(cache) /\ NoPages /\ NothingYet /\ Found

LEMMA InitIInv == Init => IInv
<1> SUFFICES ASSUME Init PROVE IInv
    OBVIOUS
<1> USE DEF Init
<1>1. TypeOK
    BY DEF TypeOK
<1>2. IsFiniteSet(cache)
    BY FS_EmptySet
<1>3. NoPages /\ NothingYet /\ Found
    BY DEF NoPages, NothingYet, Found
<1> QED BY <1>1, <1>2, <1>3 DEF IInv

\* The users come and go: whoever goes is owed to nobody any more.
LEMMA CreateIInv ==
    ASSUME IInv, NEW u \in Users, Create(u) PROVE IInv'
<1> USE DEF IInv, Create, callVars
<1>1. TypeOK'
    BY DEF TypeOK
<1>2. IsFiniteSet(cache)'
    BY FS_AddElement
<1>3. NoPages' /\ NothingYet' /\ Found'
    BY DEF NoPages, NothingYet, Found
<1> QED BY <1>1, <1>2, <1>3

LEMMA EvictIInv ==
    ASSUME IInv, NEW u \in Users, Evict(u) PROVE IInv'
<1> USE DEF IInv, Evict, Fault, callVars
<1>1. TypeOK'
    BY DEF TypeOK
<1>2. IsFiniteSet(cache)'
    BY FS_RemoveElement
<1>3. NoPages' /\ NothingYet' /\ Found'
    BY DEF NoPages, NothingYet, Found
<1> QED BY <1>1, <1>2, <1>3

\* What a call is owed is all Redis holds when it begins; every bucket comes
\* after the cursor then.
LEMMA ScanIInv ==
    ASSUME IInv, NEW c \in Calls, Scan(c) PROVE IInv'
<1> USE DEF IInv, Scan, Goto
<1>1. TypeOK'
    BY DEF TypeOK
<1>2. NoPages' /\ NothingYet'
    BY DEF NoPages, NothingYet, TypeOK
<1>3. Found'
    <2> SUFFICES ASSUME NEW d \in Calls, pc'[d] = "scanning"
                 PROVE  /\ owed'[d] \subseteq cache'
                        /\ \A u \in owed'[d] :
                              bucket'[u] <= cursor'[d] => u \in Range(keys'[d])
        BY DEF Found
    <2>1. CASE d = c
        BY <2>1 DEF TypeOK, NoPages
    <2>2. CASE d # c
        BY <2>2 DEF Found, TypeOK
    <2> QED BY <2>1, <2>2
<1> QED BY <1>1, <1>2, <1>3

\* A page makes no user that is owed missing: those in its bucket are in it,
\* and the call keeps what it has found before.
LEMMA NextPageIInv ==
    ASSUME IInv, NEW c \in Calls, NextPage(c) PROVE IInv'
<1> USE DEF IInv, NextPage
<1>1. PICK again \in Again(c) :
        keys' = [keys EXCEPT ![c] = @ \o SetToSeq(InBucket(cursor[c] + 1)) \o again]
    OBVIOUS
<1> DEFINE b == cursor[c] + 1
           all == keys[c] \o SetToSeq(InBucket(b)) \o again
<1>2. cursor[c] \in 0..Buckets /\ cursor' = [cursor EXCEPT ![c] = b] /\ b \in 1..Buckets
    BY DEF TypeOK
<1>3. all \in Seq(Users) /\ Range(all) = Range(keys[c]) \cup InBucket(b)
    <2>1. keys[c] \in Seq(Users) /\ InBucket(b) \subseteq Users
        BY DEF TypeOK, InBucket
    <2>2. IsFiniteSet(InBucket(b))
        BY FS_Subset DEF InBucket
    <2>3. again \in {<<>>} \cup {<<k>> : k \in Users \cap Range(keys[c])}
        BY DEF Again, TypeOK
    <2> QED BY <2>1, <2>2, <2>3, PageAdds
<1>4. keys' = [keys EXCEPT ![c] = all]
    BY <1>1
<1> HIDE DEF all
<1> HIDE DEF b
<1>5. TypeOK'
    <2>1. UNCHANGED <<bucket, cache, pc, owed, users, faults>>
        OBVIOUS
    <2>2. cursor' \in [Calls -> 0..Buckets]
        BY <1>2 DEF TypeOK
    <2>3. keys' \in [Calls -> Seq(Users)]
        BY <1>3, <1>4 DEF TypeOK
    <2> QED BY <2>1, <2>2, <2>3 DEF TypeOK
<1>6. NoPages' /\ NothingYet'
    BY <1>2 DEF NoPages, NothingYet, TypeOK
<1>7. Found'
    <2> SUFFICES ASSUME NEW d \in Calls, pc[d] = "scanning"
                 PROVE  /\ owed[d] \subseteq cache
                        /\ \A u \in owed[d] :
                              bucket[u] <= cursor'[d] => u \in Range(keys'[d])
        BY DEF Found
    <2>1. CASE d = c
        <3>1. ASSUME NEW u \in owed[c], bucket[u] <= b PROVE u \in Range(all)
            <4>1. u \in cache /\ u \in Users /\ bucket[u] \in 1..Buckets
                BY <2>1 DEF Found, TypeOK
            <4>2. CASE bucket[u] <= cursor[c]
                BY <2>1, <1>3, <4>2 DEF Found
            <4>3. CASE bucket[u] = b
                BY <1>3, <4>1, <4>3 DEF InBucket
            <4>4. cursor[c] + 1 = b
                BY DEF b
            <4> QED BY <1>2, <3>1, <4>1, <4>2, <4>3, <4>4
        <3>2. cursor'[d] = b /\ keys'[d] = all
            BY <1>2, <1>4, <2>1 DEF TypeOK
        <3> QED BY <2>1, <3>1, <3>2 DEF Found
    <2>2. CASE d # c
        BY <1>2, <1>4, <2>2 DEF Found, TypeOK
    <2> QED BY <2>1, <2>2
<1> QED BY <1>5, <1>6, <1>7

\* The steps by which a call ends.
LEMMA EndIInv ==
    ASSUME IInv, NEW c \in Calls, ScanFails(c) \/ NoKeys(c) \/ MGet(c) \/ MGetFails(c)
    PROVE  IInv'
<1> USE DEF IInv
<1>1. /\ pc[c] = "scanning"
      /\ \E l \in {"failed", "returned"} : pc' = [pc EXCEPT ![c] = l]
      /\ UNCHANGED <<bucket, cache, cursor, keys, owed>>
    BY DEF ScanFails, NoKeys, MGet, MGetFails, Goto
<1>2. \/ UNCHANGED users
      \/ users' = [users EXCEPT ![c] = keys[c]] /\ pc' = [pc EXCEPT ![c] = "returned"]
    BY DEF ScanFails, NoKeys, MGet, MGetFails, Goto
<1>3. faults' \in 0..MaxFaults
    BY DEF ScanFails, NoKeys, MGet, MGetFails, Fault, TypeOK
<1>4. TypeOK'
    BY <1>1, <1>2, <1>3 DEF TypeOK
<1>5. NoPages' /\ NothingYet'
    BY <1>1, <1>2 DEF NoPages, NothingYet, TypeOK
<1>6. Found'
    BY <1>1 DEF Found, TypeOK
<1> QED BY <1>1, <1>4, <1>5, <1>6

LEMMA NextIInv == IInv /\ [Next]_vars => IInv'
<1> SUFFICES ASSUME IInv, [Next]_vars PROVE IInv'
    OBVIOUS
<1>1. ASSUME NEW u \in Users, Create(u) \/ Evict(u) PROVE IInv'
    BY <1>1, CreateIInv, EvictIInv
<1>2. ASSUME NEW c \in Calls, Scan(c) \/ ReadStep(c) PROVE IInv'
    BY <1>2, ScanIInv, NextPageIInv, EndIInv DEF ReadStep
<1>3. CASE UNCHANGED vars
    BY <1>3 DEF vars, callVars, IInv, TypeOK, NoPages, NothingYet, Found
<1> QED BY <1>1, <1>2, <1>3 DEF Next

\* For every number of users, calls and pages, a list has only users that
\* were created: the type invariant of the runs.
THEOREM TypeCorrect == Spec => []TypeOK
<1>1. Spec => []IInv
    BY InitIInv, NextIInv, PTL DEF Spec
<1> QED BY <1>1, PTL DEF IInv

----------------------------------------------------------------------------
(* A read of the cache is a read of a store as Listing has it.             *)

LEMMA InitRefines == Init => Listed!Init
<1> SUFFICES ASSUME Init PROVE Listed!Init
    OBVIOUS
<1> QED BY DEF Init, Listed!Init

\* What the read shows of itself: where it is for its caller, and its list.
Shown(c) == CASE pc[c] = "scanning" -> "open"
              [] pc[c] = "returned" -> "listed"
              [] OTHER -> "idle"
ListedTo(c) == IF pc[c] = "returned" THEN Range(users[c]) ELSE {}

LEMMA UsersRefine ==
    ASSUME IInv, NEW u \in Users, Create(u) \/ Evict(u) PROVE Listed!Next
<1>1. CASE Create(u)
    BY <1>1 DEF Create, callVars, Listed!Create, Listed!Next
<1>2. CASE Evict(u)
    BY <1>2 DEF Evict, callVars, Listed!Lose, Listed!Next
<1> QED BY <1>1, <1>2

LEMMA ScanRefines ==
    ASSUME IInv, NEW c \in Calls, Scan(c) PROVE Listed!Begin(c)
BY DEF IInv, TypeOK, Scan, Goto, Listed!Begin

LEMMA NextPageRefines ==
    ASSUME IInv, NEW c \in Calls, NextPage(c) PROVE UNCHANGED Listed!vars
BY DEF NextPage, Listed!vars

\* A call that fails does so for its caller.
LEMMA FailureRefines ==
    ASSUME IInv, NEW c \in Calls, pc[c] = "scanning", pc' = [pc EXCEPT ![c] = "failed"],
           UNCHANGED <<cache, owed, users>>
    PROVE  Listed!Fail
<1> DEFINE shown == [d \in Calls |-> Shown(d)]
           list == [d \in Calls |-> ListedTo(d)]
<1>1. shown' = [d \in Calls |-> IF d \in {c} THEN "idle" ELSE shown[d]]
    BY DEF IInv, TypeOK, Shown
<1>2. list' = list
    BY DEF IInv, TypeOK, ListedTo
<1>3. {c} \in SUBSET {d \in Calls : shown[d] = "open"}
    BY DEF Shown
<1> QED BY <1>1, <1>2, <1>3 DEF Listed!Fail, Shown, ListedTo

\* A call that returns leaves out nothing of what is owed, or everything.
LEMMA ReturnRefines ==
    ASSUME IInv, NEW c \in Calls, pc[c] = "scanning", pc' = [pc EXCEPT ![c] = "returned"],
           UNCHANGED <<cache, owed>>,
           \/ UNCHANGED users
           \/ /\ users' = [users EXCEPT ![c] = keys[c]]
              /\ Range(keys[c]) \subseteq cache
              /\ owed[c] \subseteq Range(keys[c])
    PROVE  Listed!Return(c)
<1> DEFINE shown == [d \in Calls |-> Shown(d)]
           list == [d \in Calls |-> ListedTo(d)]
           found == Range(users'[c])
<1>1. users[c] = <<>> /\ Range(users[c]) = {}
    BY DEF IInv, NothingYet, Range
<1>2. found \in SUBSET cache /\ (found = {} \/ owed[c] \subseteq found)
    BY <1>1 DEF IInv, TypeOK
<1>3. shown[c] = "open" /\ shown' = [shown EXCEPT ![c] = "listed"]
    BY DEF IInv, TypeOK, Shown
<1>4. list' = [list EXCEPT ![c] = found]
    BY DEF IInv, TypeOK, ListedTo
<1> QED BY <1>2, <1>3, <1>4 DEF Listed!Return, Shown, ListedTo

\* MGet returns with all the keys only when Redis has a value for each, and
\* all that is owed is among them: every bucket has been passed.
LEMMA ReadStepRefines ==
    ASSUME IInv, NEW c \in Calls, ReadStep(c) PROVE Listed!Next \/ UNCHANGED Listed!vars
<1>1. CASE NextPage(c)
    BY <1>1, NextPageRefines
<1>2. CASE ScanFails(c)
    BY <1>2, FailureRefines DEF ScanFails, Goto, Listed!Next
<1>3. CASE NoKeys(c)
    BY <1>3, ReturnRefines DEF NoKeys, Goto, Listed!Next
<1>4. CASE MGet(c)
    <2>1. \A u \in owed[c] : u \in Users /\ bucket[u] <= cursor[c]
        BY <1>4 DEF MGet, IInv, TypeOK
    <2>2. owed[c] \subseteq Range(keys[c])
        BY <1>4, <2>1 DEF MGet, IInv, Found
    <2>3. CASE Range(keys[c]) \subseteq cache
        BY <1>4, <2>2, <2>3, ReturnRefines DEF MGet, Goto, Listed!Next
    <2>4. CASE ~(Range(keys[c]) \subseteq cache)
        BY <1>4, <2>4, FailureRefines DEF MGet, Goto, Listed!Next
    <2> QED BY <2>3, <2>4
<1>5. CASE MGetFails(c)
    BY <1>5, ReturnRefines DEF MGetFails, Goto, Listed!Next
<1> QED BY <1>1, <1>2, <1>3, <1>4, <1>5 DEF ReadStep

LEMMA StepRefines == IInv /\ [Next]_vars => [Listed!Next]_Listed!vars
<1> SUFFICES ASSUME IInv, [Next]_vars PROVE Listed!Next \/ UNCHANGED Listed!vars
    OBVIOUS
<1>1. ASSUME NEW u \in Users, Create(u) \/ Evict(u) PROVE Listed!Next
    BY <1>1, UsersRefine
<1>2. ASSUME NEW c \in Calls, Scan(c) PROVE Listed!Next
    BY <1>2, ScanRefines DEF Listed!Next
<1>3. ASSUME NEW c \in Calls, ReadStep(c) PROVE Listed!Next \/ UNCHANGED Listed!vars
    BY <1>3, ReadStepRefines
<1>4. CASE UNCHANGED vars
    BY <1>4 DEF vars, callVars, Listed!vars
<1> QED BY <1>1, <1>2, <1>3, <1>4 DEF Next

\* However many pages a list takes and whatever is written, evicted or refused
\* between them, a read of the cache is a read of the abstract store: it leaves
\* out all or nothing of what Redis has held since it began, and has only what
\* Redis holds at its end.
THEOREM ListingRefinement == Spec => ImplementsListing
<1>1. Spec => []IInv
    BY InitIInv, NextIInv, PTL DEF Spec
<1> QED BY <1>1, InitRefines, StepRefines, PTL DEF Spec, ImplementsListing, Listed!Spec

----------------------------------------------------------------------------
(* A list ends.                                                            *)

\* The commands a call has yet to send, at most: the pages that are left, and
\* MGET.
CommandsLeft(c) == IF pc[c] = "scanning" THEN Buckets - cursor[c] + 1 ELSE 0

\* Each step of a call leaves it fewer commands, and no step of another call
\* and no write gives it more.
ListsRunOut ==
    \A c \in Calls :
        /\ ReadStep(c) => CommandsLeft(c)' < CommandsLeft(c)
        /\ pc[c] = "scanning" => CommandsLeft(c)' <= CommandsLeft(c)

LEMMA FewerCommands ==
    ASSUME TypeOK, NEW c \in Calls, ReadStep(c)
    PROVE  /\ CommandsLeft(c)' \in Nat /\ CommandsLeft(c)' < CommandsLeft(c)
           /\ \A d \in Calls \ {c} : CommandsLeft(d)' = CommandsLeft(d)
<1>1. pc[c] = "scanning" /\ cursor[c] \in 0 .. Buckets
    BY DEF TypeOK, ReadStep, NextPage, ScanFails, NoKeys, MGet, MGetFails
<1>2. \/ /\ cursor[c] < Buckets /\ cursor' = [cursor EXCEPT ![c] = @ + 1] /\ UNCHANGED pc
      \/ /\ \E l \in {"failed", "returned"} : Goto(c, l)
         /\ UNCHANGED cursor
    BY DEF ReadStep, NextPage, ScanFails, NoKeys, MGet, MGetFails
<1>3. CASE cursor[c] < Buckets /\ cursor' = [cursor EXCEPT ![c] = @ + 1] /\ UNCHANGED pc
    BY <1>1, <1>3 DEF TypeOK, CommandsLeft
<1>4. CASE (\E l \in {"failed", "returned"} : Goto(c, l)) /\ UNCHANGED cursor
    BY <1>1, <1>4 DEF TypeOK, Goto, CommandsLeft
<1> QED BY <1>2, <1>3, <1>4

\* A list ends after a page for each bucket and one MGET, however much is
\* written, evicted and listed beside it, and whichever pages are empty.
THEOREM EveryListRunsOut == Spec => [][ListsRunOut]_vars
<1>1. TypeOK /\ [Next]_vars => [ListsRunOut]_vars
    <2> SUFFICES ASSUME TypeOK, Next, NEW c \in Calls
                 PROVE  /\ ReadStep(c) => CommandsLeft(c)' < CommandsLeft(c)
                        /\ pc[c] = "scanning" => CommandsLeft(c)' <= CommandsLeft(c)
        BY DEF ListsRunOut
    <2>1. CommandsLeft(c) \in Nat
        BY DEF TypeOK, CommandsLeft
    <2>2. CASE ReadStep(c)
        BY <2>1, <2>2, FewerCommands
    <2>3. ASSUME NEW d \in Calls \ {c}, ReadStep(d) PROVE CommandsLeft(c)' = CommandsLeft(c)
        BY <2>3, FewerCommands
    <2>4. ASSUME NEW d \in Calls, Scan(d), pc[c] = "scanning" PROVE CommandsLeft(c)' = CommandsLeft(c)
        BY <2>4 DEF Scan, Goto, TypeOK, CommandsLeft
    <2>5. ASSUME NEW u \in Users, Create(u) \/ Evict(u) PROVE CommandsLeft(c)' = CommandsLeft(c)
        BY <2>5 DEF Create, Evict, callVars, CommandsLeft
    <2> QED BY <2>1, <2>2, <2>3, <2>4, <2>5 DEF Next
<1> QED BY <1>1, TypeCorrect, PTL DEF Spec

=============================================================================
