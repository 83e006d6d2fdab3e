---------------------------- MODULE UserRequests ----------------------------
(***************************************************************************)
(* What the system does to the contents of a user: the HTTP and the gRPC   *)
(* handlers (internal/user/create, read and search, behind internal/routing *)
(* and generated), the statement and the columns of MySQL, the change      *)
(* event and the processor (internal/user/consume, internal/format), and   *)
(* the documents that lists and searches are answered from.                *)
(*                                                                         *)
(* UserPipeline says whether a user arrives, and when; this module says    *)
(* what it looks like.  A string is a sequence of characters, and a time   *)
(* is a number of milliseconds since the epoch.                            *)
(***************************************************************************)
EXTENDS Integers, Sequences, FiniteSets, SequencesExt

CONSTANTS
    HTTPClients, GRPCClients,   \* the callers, with one call each
    Ids,            \* the ids that uuid.New may draw
    Inputs,         \* the strings that are sent as names
    Terms,          \* and as search terms
    Letters,        \* the letters a-z and A-Z and the hyphen
    MinLen, MaxLen, \* validate:"required,min=3,max=100"
    ColumnWidth,    \* first_name varchar(100), last_name varchar(100)
    SearchTermMinLen,   \* const searchTermMinLen
    PageSize,       \* the number of hits Elasticsearch returns unless told
    PerSecond,      \* milliseconds in a second
    ZeroTime,       \* time.Time{}, long before the epoch
    Start, End      \* bounds: the clock

Clients == HTTPClients \cup GRPCClients

ASSUME ProtocolAssumption == HTTPClients \cap GRPCClients = {}
ASSUME LengthAssumption ==
    /\ MinLen \in Nat /\ MaxLen \in Nat /\ SearchTermMinLen \in Nat
    /\ ColumnWidth \in Nat /\ MaxLen <= ColumnWidth
    /\ PageSize \in Nat
ASSUME IdAssumption == Ids \subseteq Seq(STRING) \ {<<>>}
ASSUME InputAssumption == Inputs \subseteq Seq(STRING) /\ Terms \subseteq Seq(STRING)
ASSUME TimeAssumption ==
    /\ PerSecond \in Nat \ {0} /\ ZeroTime \in Int /\ ZeroTime < 0
    /\ Start \in Nat /\ End \in Nat /\ PerSecond <= Start /\ Start <= End

VARIABLES
    clock,      \* time.Now, in milliseconds
    at,         \* where each call is
    user,       \* the user its interactor has made
    term,       \* the term it searches for
    answer,     \* what it has been answered
    faulted,    \* the calls a store has failed
    rows,       \* the table users
    copied,     \* the creations each consumer group has processed
    docs        \* the documents in Redis ("cache") and Elasticsearch ("search")

callVars == <<at, user, term, answer, faulted>>
vars == <<clock, callVars, rows, copied, docs>>

Groups == {"cache", "search"}

Users == [id : Ids, first : Inputs, last : Inputs, created : Int]

\* user.User{}: the value of a struct nobody has filled.
EmptyUser == [id |-> <<>>, first |-> <<>>, last |-> <<>>, created |-> ZeroTime]

----------------------------------------------------------------------------
(* Conversions.                                                            *)

\* A slip: the upper bound is forgotten.
HasMinLen(name) == Len(name) >= MinLen

ValidName(name) == Len(name) \in MinLen .. MaxLen

\* A slip: only the spaces are removed.
WithoutSpaces(str) == SelectSeq(str, LAMBDA c : c # " ")

\* What is left of a term that comes in a path or a message.
AlphaWithHyphen(str) ==
    LET left[n \in 0 .. Len(str)] ==
          IF n = 0 THEN <<>>
          ELSE left[n - 1] \o (IF str[n] \in Letters THEN <<str[n]>> ELSE <<>>)
    IN  left[Len(str)]

\* The column is a datetime without a fraction: MySQL rounds to the second.
Column(time) == ((2 * time + PerSecond) \div (2 * PerSecond)) * PerSecond

\* A slip: time.Unix is given milliseconds for seconds.
MsecAsSec(msec) == IF msec > 0 THEN msec * PerSecond ELSE ZeroTime

\* A slip: zero is taken for a time like any other.
MsecAlways(msec) == msec

MsecToTime(msec) ==
    LET sec  == msec \div PerSecond
        rest == msec - sec * PerSecond
    IN  IF msec > 0 THEN sec * PerSecond + rest ELSE ZeroTime

\* The presenters' time.RFC3339 shows no fraction of a second.
ViewModel(u) == [u EXCEPT !.created = @ \div PerSecond]

\* The routes and the service description hand a call to its handler.
HTTPCall(c) == c \in HTTPClients /\ at[c] = "idle"
GRPCCall(c) == c \in GRPCClients /\ at[c] = "idle"

\* The answer's status; a plain error is codes.Unknown to a gRPC caller.
Status(c, outcome) ==
    IF c \in HTTPClients
    THEN CASE outcome = "created" -> "201" [] outcome = "found" -> "200"
           [] outcome = "invalid" -> "400" [] outcome = "failed" -> "500"
    ELSE IF outcome \in {"created", "found"} THEN "OK" ELSE "Unknown"

Good == {"201", "200", "OK"}

Reply(c, outcome, users) ==
    /\ at' = [at EXCEPT ![c] = "answered"]
    /\ answer' = [answer EXCEPT ![c] = [status |-> Status(c, outcome), users |-> users]]

----------------------------------------------------------------------------
Init ==
    /\ clock = Start
    /\ at = [c \in Clients |-> "idle"]
    /\ user = [c \in Clients |-> EmptyUser]
    /\ term = [c \in Clients |-> <<>>]
    /\ answer = [c \in Clients |-> [status |-> "none", users |-> {}]]
    /\ faulted = {}
    /\ rows = {}
    /\ copied = [g \in Groups |-> {}]
    /\ docs = [g \in Groups |-> {}]

Tick == /\ clock < End
        /\ clock' = clock + 1
        /\ UNCHANGED <<callVars, rows, copied, docs>>

----------------------------------------------------------------------------
(* Create.                                                                 *)

\* The interactor makes the user and hands it to the storage.
Create(c, first, last) ==
    \E id \in Ids \ {user[d].id : d \in Clients} :
        /\ at' = [at EXCEPT ![c] = "storing"]
        /\ user' = [user EXCEPT ![c] = [id |-> id, first |-> first, last |-> last, created |-> clock]]
        /\ UNCHANGED answer

ValidateStruct(first, last) == ValidName(first) /\ ValidName(last)

CreateHTTP(c) ==
    /\ HTTPCall(c)
    /\ \/ Reply(c, "invalid", {}) /\ UNCHANGED user     \* not a JSON body
       \/ \E first, last \in Inputs :
            IF ValidateStruct(first, last)
            THEN Create(c, first, last)
            ELSE Reply(c, "invalid", {}) /\ UNCHANGED user
    /\ UNCHANGED <<clock, term, faulted, rows, copied, docs>>

\* A slip: the gRPC handler leaves the validation to the proto.
CreateUnvalidated(c) ==
    /\ GRPCCall(c)
    /\ \E first, last \in Inputs : Create(c, first, last)
    /\ UNCHANGED <<clock, term, faulted, rows, copied, docs>>

CreateGRPC(c) ==
    /\ GRPCCall(c)
    /\ \E first, last \in Inputs :
         IF ValidateStruct(first, last)
         THEN Create(c, first, last)
         ELSE Reply(c, "invalid", {}) /\ UNCHANGED user
    /\ UNCHANGED <<clock, term, faulted, rows, copied, docs>>

Fits(u) == Len(u.first) <= ColumnWidth /\ Len(u.last) <= ColumnWidth

RowOf(u) == [u EXCEPT !.created = Column(@)]

\* A slip: the handler puts the user it has just stored in the cache.
InsertAndCache(c) ==
    /\ at[c] = "storing" /\ Fits(user[c])
    /\ at' = [at EXCEPT ![c] = "stored"]
    /\ rows' = rows \cup {RowOf(user[c])}
    /\ docs' = [docs EXCEPT !["cache"] = @ \cup {user[c]}]
    /\ UNCHANGED <<clock, user, term, answer, faulted, copied>>

\* The statement runs: what does not fit its column is an error.
Insert(c) ==
    /\ at[c] = "storing"
    /\ IF Fits(user[c])
       THEN /\ rows' = rows \cup {RowOf(user[c])}
            /\ at' = [at EXCEPT ![c] = "stored"]
            /\ UNCHANGED answer
       ELSE Reply(c, "failed", {}) /\ UNCHANGED rows
    /\ UNCHANGED <<clock, user, term, faulted, copied, docs>>

\* The statement, or the wait for its result, fails: the row may be there.
InsertFails(c) ==
    /\ at[c] = "storing"
    /\ rows' \in {rows} \cup (IF Fits(user[c]) THEN {rows \cup {RowOf(user[c])}} ELSE {})
    /\ Reply(c, "failed", {})
    /\ faulted' = faulted \cup {c}
    /\ UNCHANGED <<clock, user, term, copied, docs>>

CreateReturns(c) ==
    /\ at[c] = "stored"
    /\ Reply(c, "created", {ViewModel(user[c])})
    /\ UNCHANGED <<clock, user, term, faulted, rows, copied, docs>>

----------------------------------------------------------------------------
(* From the table to the documents.                                        *)

\* The connector's event of a row: a creation has nothing before, which the
\* processor decodes into a struct nobody fills.
Decoded(value) == [value EXCEPT !.created = MsecToTime(@)]
Before == Decoded([EmptyUser EXCEPT !.created = 0])

Process(users, before, after) ==
    IF before = after THEN users
    ELSE IF before = EmptyUser
         THEN {u \in users : u.id # after.id} \cup {after}
         ELSE users                     \* "not implemented", which is logged

\* A group gets the event of a row.
Consume(g, row) ==
    /\ row \in rows /\ row.id \notin copied[g]
    /\ copied' = [copied EXCEPT ![g] = @ \cup {row.id}]
    /\ docs' = [docs EXCEPT ![g] = Process(@, Before, Decoded(row))]
    /\ UNCHANGED <<clock, callVars, rows>>

----------------------------------------------------------------------------
(* Read and search.                                                        *)

\* The answer to a query, or the error of the store.
Query(c, users) ==
    \/ Reply(c, "found", {ViewModel(u) : u \in users}) /\ UNCHANGED faulted
    \/ Reply(c, "failed", {}) /\ faulted' = faulted \cup {c}

ReadHTTP(c) ==
    /\ HTTPCall(c)
    /\ Query(c, docs["cache"])
    /\ UNCHANGED <<clock, user, term, rows, copied, docs>>

ReadGRPC(c) ==
    /\ GRPCCall(c)
    /\ Query(c, docs["cache"])
    /\ UNCHANGED <<clock, user, term, rows, copied, docs>>

\* The query string *term* is matched against every field of a document.
HasTerm(str, t) == t \in SubSeqs(str)
FullName(u) == u.first \o <<" ">> \o u.last
Matches(u, t) == \E str \in {u.id, u.first, u.last, FullName(u)} : HasTerm(str, t)

\* No size is asked for: the hits are those of a first page.
Hits(t) ==
    LET found == {u \in docs["search"] : Matches(u, t)}
    IN  IF Cardinality(found) <= PageSize
        THEN {found}
        ELSE {page \in SUBSET found : Cardinality(page) = PageSize}

\* A term of which too little is left is refused; the others are looked up.
Search(c, t) ==
    /\ term' = [term EXCEPT ![c] = t]
    /\ IF Len(t) < SearchTermMinLen
       THEN Reply(c, "invalid", {}) /\ UNCHANGED faulted
       ELSE \E hits \in Hits(t) : Query(c, hits)
    /\ UNCHANGED <<clock, user, rows, copied, docs>>

\* Both handlers clean the term first.
SearchHTTP(c) ==
    /\ HTTPCall(c)
    /\ \E raw \in Terms : Search(c, AlphaWithHyphen(raw))

SearchGRPC(c) ==
    /\ GRPCCall(c)
    /\ \E raw \in Terms : Search(c, AlphaWithHyphen(raw))

----------------------------------------------------------------------------
Next ==
    \/ Tick
    \/ \E c \in Clients :
        \/ CreateHTTP(c) \/ CreateGRPC(c)
        \/ Insert(c) \/ InsertFails(c) \/ CreateReturns(c)
        \/ ReadHTTP(c) \/ ReadGRPC(c)
        \/ SearchHTTP(c) \/ SearchGRPC(c)
    \/ \E g \in Groups, row \in rows : Consume(g, row)

Spec == Init /\ [][Next]_vars

----------------------------------------------------------------------------
(* Properties.                                                             *)

Codes == {"none", "201", "200", "400", "500", "OK", "Unknown"}

\* The types of the variables; what is searched for has only letters.
TypeOK ==
    /\ clock \in Start .. End
    /\ at \in [Clients -> {"idle", "storing", "stored", "answered"}]
    /\ user \in [Clients -> Users \cup {EmptyUser}]
    /\ term \in [Clients -> Seq(Letters)]
    /\ answer \in [Clients -> [status : Codes, users : SUBSET Users]]
    /\ faulted \subseteq Clients
    /\ rows \subseteq Users
    /\ copied \in [Groups -> SUBSET Ids]
    /\ docs \in [Groups -> SUBSET Users]

\* The users that queries have been answered with.
Answered == {c \in Clients : answer[c].status \in Good}
Served == UNION {answer[c].users : c \in {d \in Answered : user[d] = EmptyUser}}

\* Whatever passes the validator of either handler fits the columns: a call
\* that has got as far as the storage fails only if the storage does.
NoInputBreaksTheStore ==
    \A c \in Clients :
        at[c] = "answered" /\ user[c] # EmptyUser => c \in Answered \cup faulted

\* Whichever protocol a user came in by, and whichever it is asked for by,
\* only users with names of a valid length are listed or found.
ServedNamesAreValid ==
    \A u \in Served : {Len(u.first), Len(u.last)} \subseteq MinLen .. MaxLen

\* A user is listed and found with the names its creation was answered with
\* and the time, or one second more: the answer cuts off what MySQL rounds.
ServedAsAnswered ==
    \A c \in Answered : \A u \in answer[c].users, v \in Served :
        user[c] # EmptyUser /\ u.id = v.id =>
            /\ <<u.first, u.last>> = <<v.first, v.last>>
            /\ v.created - u.created \in {0, 1}

\* Every answer shows a user in the same way: lists and searches, HTTP and
\* gRPC, before and after anything that happens in between.
SameEverywhere == \A u, v \in Served : u.id = v.id => u = v

\* The processor takes every creation for one: what is not there before,
\* converted, is the empty user it compares with.
CreationsAreRecognised ==
    \A g \in Groups : copied[g] = {u.id : u \in docs[g]}

----------------------------------------------------------------------------
(* The inductive invariant behind the safety properties.                   *)

\* A call has made a user by the time it stores one, valid, now or before.
Made ==
    \A c \in Clients :
        /\ at[c] = "idle" => user[c] = EmptyUser
        /\ at[c] \in {"storing", "stored"} => user[c] # EmptyUser
        /\ user[c] # EmptyUser =>
             ValidName(user[c].first) /\ ValidName(user[c].last) /\ user[c].created >= Start

\* No two calls make users of one id.
IdsDiffer ==
    \A c, d \in Clients : user[c] # EmptyUser /\ user[c].id = user[d].id => c = d

\* A row is what the columns make of a user that some call has made.
Makers == {c \in Clients : user[c] # EmptyUser}
RowsAreUsers == \A r \in rows : \E c \in Makers : r = RowOf(user[c])

\* The documents are the rows whose creation the group has processed.
DocsAreRows ==
    \A g \in Groups :
        /\ copied[g] \subseteq {r.id : r \in rows}
        /\ docs[g] = {r \in rows : r.id \in copied[g]}

\* A creation is answered with its user, a query with rows.
AnswersAre ==
    \A c \in Clients :
        /\ at[c] # "answered" => c \notin Answered
        /\ c \in Answered /\ user[c] # EmptyUser => answer[c].users = {ViewModel(user[c])}
        /\ c \in Answered /\ user[c] = EmptyUser =>
             answer[c].users \subseteq {ViewModel(r) : r \in rows}

IInv ==
    /\ TypeOK /\ Made /\ IdsDiffer /\ RowsAreUsers /\ DocsAreRows /\ AnswersAre
    /\ NoInputBreaksTheStore

=============================================================================
