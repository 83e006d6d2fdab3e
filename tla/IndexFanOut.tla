---------------------------- MODULE IndexFanOut -----------------------------
(***************************************************************************)
(* One call of userSearch.Create (internal/storage/elastic/user.go): a     *)
(* goroutine per user sends an index request and hands what comes of it to *)
(* the caller over an unbuffered channel, another waits for all of them    *)
(* and closes the channel, and the caller collects until it is closed.     *)
(*                                                                         *)
(* The users are numbered in the order of the loop.                        *)
(***************************************************************************)
EXTENDS Naturals, FiniteSets

CONSTANT N      \* users of the call: the program passes one, the type any number

ASSUME NAssumption == N \in Nat

VARIABLES
    pc,         \* where the caller is
    next,       \* the user its loop has come to
    wg,         \* the counter of the WaitGroup
    worker,     \* the goroutine of each user
    outcome,    \* what came of its request
    closer,     \* the goroutine that closes the channel
    errs,       \* the users whose error has been joined into err
    reply,      \* what Create has returned
    indexed     \* the documents Elasticsearch has taken

vars == <<pc, next, wg, worker, outcome, closer, errs, reply, indexed>>

Users == 1..N

\* The goroutines that have not come to their deferred wg.Done.
Running == {i \in Users : worker[i] \in {"calling", "handing", "handed"}}

Init ==
    /\ pc = "spawning"
    /\ next = 1
    /\ wg = 0
    /\ worker = [i \in Users |-> "none"]
    /\ outcome = [i \in Users |-> "none"]
    /\ closer = "none"
    /\ errs = {}
    /\ reply = "none"
    /\ indexed = {}

WorkerGoto(i, l) == worker' = [worker EXCEPT ![i] = l]

----------------------------------------------------------------------------
(* The caller.                                                             *)

\* A slip: wg.Add is left to the goroutine, which has not come to it yet.
SpawnUncounted ==
    /\ pc = "spawning" /\ next <= N
    /\ WorkerGoto(next, "calling")
    /\ next' = next + 1
    /\ UNCHANGED <<pc, wg, outcome, closer, errs, reply, indexed>>

\* The next user is marshalled, counted and given a goroutine.
Spawn ==
    /\ pc = "spawning" /\ next <= N
    /\ wg' = wg + 1
    /\ WorkerGoto(next, "calling")
    /\ next' = next + 1
    /\ UNCHANGED <<pc, outcome, closer, errs, reply, indexed>>

\* json.Marshal fails: Create returns there and then, and nobody receives
\* from the goroutines that have been started.
MarshalFails ==
    /\ pc = "spawning" /\ next <= N
    /\ pc' = "returned"
    /\ reply' = "error"
    /\ UNCHANGED <<next, wg, worker, outcome, closer, errs, indexed>>

\* The loop is done: the goroutine that closes the channel is started.
StartCloser ==
    /\ pc = "spawning" /\ next > N
    /\ closer' = "waiting"
    /\ pc' = "collecting"
    /\ UNCHANGED <<next, wg, worker, outcome, errs, reply, indexed>>

\* A slip: each response replaces the error of the one before.
ReceiveReplacing(i) ==
    /\ pc = "collecting" /\ worker[i] = "handing"
    /\ WorkerGoto(i, "handed")
    /\ errs' = IF outcome[i] = "failed" THEN {i} ELSE {}
    /\ UNCHANGED <<pc, next, wg, outcome, closer, reply, indexed>>

\* A slip: the loop is left at the first error.
ReceiveUntilError(i) ==
    /\ pc = "collecting" /\ worker[i] = "handing"
    /\ WorkerGoto(i, "handed")
    /\ IF outcome[i] = "failed" THEN pc' = "returned" /\ reply' = "error" /\ errs' = {i}
       ELSE UNCHANGED <<pc, reply, errs>>
    /\ UNCHANGED <<next, wg, outcome, closer, indexed>>

\* A response is received.  Its error is joined to those before; its status
\* is not looked at.
Receive(i) ==
    /\ pc = "collecting" /\ worker[i] = "handing"
    /\ WorkerGoto(i, "handed")
    /\ errs' = IF outcome[i] = "failed" THEN errs \cup {i} ELSE errs
    /\ UNCHANGED <<pc, next, wg, outcome, closer, reply, indexed>>

Reply == reply' = IF errs = {} THEN "nil" ELSE "error"

\* A slip: the first response decides.
ReturnAtFirst ==
    /\ pc = "collecting" /\ \E i \in Users : worker[i] = "handed"
    /\ pc' = "returned"
    /\ Reply
    /\ UNCHANGED <<next, wg, worker, outcome, closer, errs, indexed>>

\* The channel is closed, and the loop over it ends.
Return ==
    /\ pc = "collecting" /\ closer = "closed"
    /\ pc' = "returned"
    /\ Reply
    /\ UNCHANGED <<next, wg, worker, outcome, closer, errs, indexed>>

----------------------------------------------------------------------------
(* The goroutines.                                                         *)

\* The request has come to its end: o is what it has come to.
Responded(i, o) ==
    /\ worker[i] = "calling"
    /\ outcome' = [outcome EXCEPT ![i] = o]
    /\ WorkerGoto(i, "handing")
    /\ UNCHANGED <<pc, next, wg, closer, errs, reply>>

\* Elasticsearch takes the document, or answers with a status that says no.
Indexed(i) == Responded(i, "ok") /\ indexed' = indexed \cup {i}
Refused(i) == Responded(i, "refused") /\ UNCHANGED indexed

\* The connection is lost or the context done, perhaps after the document was
\* taken.
RequestFails(i) ==
    /\ Responded(i, "failed")
    /\ indexed' \in {indexed, indexed \cup {i}}

\* A request that was given up arrives all the same.
IndexedLate(i) ==
    /\ outcome[i] = "failed" /\ i \notin indexed
    /\ indexed' = indexed \cup {i}
    /\ UNCHANGED <<pc, next, wg, worker, outcome, closer, errs, reply>>

\* The response has been handed over, the deferred wg.Done runs.
WorkerEnds(i) ==
    /\ worker[i] = "handed"
    /\ WorkerGoto(i, "done")
    /\ wg' = wg - 1
    /\ UNCHANGED <<pc, next, outcome, closer, errs, reply, indexed>>

\* A slip: the channel is closed without waiting.
CloseAtOnce ==
    /\ closer = "waiting"
    /\ closer' = "closed"
    /\ UNCHANGED <<pc, next, wg, worker, outcome, errs, reply, indexed>>

\* wg.Wait returns, and the channel is closed.
CloseChannel ==
    /\ closer = "waiting" /\ wg = 0
    /\ closer' = "closed"
    /\ UNCHANGED <<pc, next, wg, worker, outcome, errs, reply, indexed>>

----------------------------------------------------------------------------

CallerStep == Spawn \/ MarshalFails \/ StartCloser \/ Return \/ \E i \in Users : Receive(i)
WorkerStep(i) == Indexed(i) \/ Refused(i) \/ RequestFails(i) \/ WorkerEnds(i)

Next == CallerStep \/ CloseChannel \/ \E i \in Users : WorkerStep(i) \/ IndexedLate(i)

\* Every goroutine is scheduled, and a request ends, if only with its context.
Fairness ==
    /\ WF_vars(CallerStep) /\ WF_vars(CloseChannel)
    /\ \A i \in Users : WF_vars(WorkerStep(i))

Spec == Init /\ [][Next]_vars /\ Fairness

----------------------------------------------------------------------------
(* Properties.                                                             *)

\* The type invariant; a WaitGroup below zero is a panic.
TypeOK ==
    /\ pc \in {"spawning", "collecting", "returned"}
    /\ next \in 1..(N + 1)
    /\ wg \in 0..N
    /\ worker \in [Users -> {"none", "calling", "handing", "handed", "done"}]
    /\ outcome \in [Users -> {"none", "ok", "refused", "failed"}]
    /\ closer \in {"none", "waiting", "closed"}
    /\ errs \subseteq Users
    /\ reply \in {"none", "nil", "error"}
    /\ indexed \subseteq Users

\* No goroutine sends on the channel once it is closed, which would panic
\* (user.go: wg.Add comes before the goroutine, close after wg.Wait).
NeverSendsOnClosed ==
    closer = "closed" => \A i \in Users : worker[i] \notin {"calling", "handing"}

\* When all users could be marshalled, Create returns an error exactly if the
\* request of one of them has failed, whichever comes first or last.
ReplyIsRight ==
    pc = "returned" /\ next > N =>
        (reply = "error" <=> \E i \in Users : outcome[i] = "failed")

\* A goroutine outlives the call only if marshalling a later user has failed:
\* it is then blocked for ever (user.go: the early return).
NothingOutlivesTheCall ==
    pc = "returned" /\ next > N => \A i \in Users : worker[i] = "done"

\* What a caller may rely on.
Call == INSTANCE StoreWrite WITH
            written <- indexed,
            refused <- {i \in Users : outcome[i] = "refused"}
ImplementsStoreWrite == Call!Spec

\* Create returns, and unless it does so early every goroutine ends.
EverythingEnds ==
    /\ <>(pc = "returned")
    /\ pc = "collecting" ~> closer = "closed" /\ \A i \in Users : worker[i] = "done"

----------------------------------------------------------------------------
(* The inductive invariant behind the safety properties.                   *)

\* The WaitGroup counts the goroutines that run.
Counted == wg = Cardinality(Running)

\* Goroutines are started in the order of the loop.
Started == \A i \in Users : worker[i] = "none" <=> i >= next

\* A goroutine has a response from when it begins to hand it over.
Answered ==
    \A i \in Users :
        /\ outcome[i] = "none" <=> worker[i] \in {"none", "calling"}
        /\ outcome[i] = "ok" => i \in indexed
        /\ i \in indexed => outcome[i] \in {"ok", "failed"}

\* The errors joined are those of the responses received.
Joined == errs = {i \in Users : outcome[i] = "failed" /\ worker[i] \in {"handed", "done"}}

\* The caller is where its goroutines let it be.
Phases ==
    /\ pc = "spawning" => closer = "none"
    /\ pc = "collecting" => closer # "none" /\ next > N
    /\ pc = "returned" /\ next > N => closer = "closed"
    /\ closer # "none" => next > N
    /\ closer = "closed" => wg = 0
    /\ (reply = "none") <=> (pc # "returned")
    /\ pc = "returned" /\ next <= N => reply = "error"
    /\ pc = "returned" /\ next > N => (reply = "nil" <=> errs = {})

IInv == TypeOK /\ Counted /\ Started /\ Answered /\ Joined /\ Phases

=============================================================================
