------------------------- MODULE UserRequestsProofs -------------------------
(***************************************************************************)
(* Theorems about UserRequests, for any callers, names, terms, lengths and *)
(* times.                                                                  *)
(***************************************************************************)
EXTENDS UserRequests, SequenceTheorems, WellFoundedInduction, TLAPS

USE ProtocolAssumption, LengthAssumption, IdAssumption, InputAssumption,
    TimeAssumption DEF Clients, Groups

----------------------------------------------------------------------------
(* Division, rounding and cutting off.                                     *)

LEMMA Division ==
    ASSUME NEW a \in Int, NEW b \in Nat \ {0}
    PROVE  a \div b \in Int /\ (a \div b) * b <= a /\ a < (a \div b) * b + b
BY SMT

LEMMA Quotient ==
    ASSUME NEW a \in Int, NEW b \in Nat \ {0}, NEW q \in Int, q * b <= a, a < q * b + b
    PROVE  a \div b = q
BY SMT

LEMMA Multiple ==
    ASSUME NEW b \in Nat \ {0}, NEW q \in Int
    PROVE  (q * b) \div b = q
BY SMT

\* What MySQL keeps of a time is the second the answer shows, or the next;
\* it is never zero, which the processor would take for no time at all.
LEMMA ColumnRounds ==
    ASSUME NEW t \in Int, t >= PerSecond
    PROVE  /\ Column(t) \in Int /\ Column(t) > 0
           /\ Column(t) \div PerSecond - t \div PerSecond \in {0, 1}
<1> DEFINE P == PerSecond
           q == t \div P
           k == (2 * t + P) \div (2 * P)
<1>1. P \in Nat \ {0} /\ 2 * P \in Nat \ {0} /\ 2 * t + P \in Int
    OBVIOUS
<1>2. q \in Int /\ q * P <= t /\ t < q * P + P
    BY <1>1, Division
<1>3. q >= 1
    <2>1. CASE q <= 0
        <3>1. q * P <= 0
            BY <1>1, <1>2, <2>1
        <3> QED BY <1>1, <1>2, <3>1
    <2> QED BY <1>2, <2>1
<1>4. k \in {q, q + 1}
    <2>1. CASE 2 * t + P < (q + 1) * (2 * P)
        <3>1. q * (2 * P) <= 2 * t + P /\ 2 * t + P < q * (2 * P) + 2 * P
            BY <1>1, <1>2, <2>1
        <3> QED BY <1>1, <1>2, <3>1, Quotient
    <2>2. CASE 2 * t + P >= (q + 1) * (2 * P)
        <3>1. 2 * t + P < (q + 1) * (2 * P) + 2 * P
            BY <1>1, <1>2
        <3>2. q + 1 \in Int
            BY <1>2
        <3> QED BY <1>1, <2>2, <3>1, <3>2, Quotient
    <2> QED BY <1>1, <1>2, <2>1, <2>2
<1>5. Column(t) = k * P
    BY DEF Column
<1>6. k \in Int /\ k >= 1
    BY <1>2, <1>3, <1>4
<1>7. k * P \in Int /\ k * P > 0
    BY <1>1, <1>6
<1>8. (k * P) \div P = k
    BY <1>1, <1>6, Multiple
<1> HIDE DEF k, q, P
<1>9. k - q \in {0, 1}
    BY <1>2, <1>4
<1> QED BY <1>5, <1>7, <1>8, <1>9 DEF P, q

\* MsecToTime loses nothing of a time after the epoch.
LEMMA MsecKeeps ==
    ASSUME NEW msec \in Int, msec > 0
    PROVE  MsecToTime(msec) = msec
<1>1. msec \div PerSecond \in Int
    BY Division
<1>2. (msec \div PerSecond) * PerSecond \in Int
    BY <1>1
<1> QED BY <1>2 DEF MsecToTime

----------------------------------------------------------------------------
(* What is left of a search term.                                          *)

\* A function of the shape of AlphaWithHyphen's, on the first characters of a
\* string.
Step(str, left, n) ==
    IF n = 0 THEN <<>>
    ELSE left[n - 1] \o (IF str[n] \in Letters THEN <<str[n]>> ELSE <<>>)
Cleans(str, left, len) == left = [n \in 0 .. len |-> Step(str, left, n)]

\* What such a function says of the first n characters: their letters, no
\* more of them than characters, and the characters themselves when all of
\* them are letters.
Cleaned(str, left, n) ==
    /\ left[n] \in Seq(Letters)
    /\ Len(left[n]) <= n
    /\ Range(left[n]) = {str[i] : i \in 1 .. n} \cap Letters
    /\ {str[i] : i \in 1 .. n} \subseteq Letters => left[n] = SubSeq(str, 1, n)

\* A set of numbers that is not empty has a least member.
LEMMA LeastNumber ==
    ASSUME NEW T, T \subseteq Nat, T # {}
    PROVE  \E n \in T : \A m \in T : n <= m
<1>1. PICK n \in T : \A m \in T : ~ (<<m, n>> \in OpToRel(<, Nat))
    BY NatLessThanWellFounded, WFMin
<1>2. ASSUME NEW m \in T, m < n PROVE FALSE
    <2>1. <<m, n>> \in OpToRel(<, Nat)
        BY <1>2 DEF OpToRel
    <2> QED BY <1>1, <2>1
<1> QED BY <1>2

\* One character more.
LEMMA CleanedStep ==
    ASSUME NEW str \in Seq(STRING), NEW left, NEW n \in 1 .. Len(str),
           left[n] = Step(str, left, n), Cleaned(str, left, n - 1)
    PROVE  Cleaned(str, left, n)
<1> DEFINE old == left[n - 1]
           new == IF str[n] \in Letters THEN <<str[n]>> ELSE <<>>
           Chars(k) == {str[i] : i \in 1 .. k}
<1>1. left[n] = old \o new
    <2>1. n # 0
        OBVIOUS
    <2> QED BY <2>1 DEF Step
<1>2. old \in Seq(Letters) /\ Len(old) <= n - 1 /\ Range(old) = Chars(n - 1) \cap Letters
    BY DEF Cleaned
<1>3. new \in Seq(Letters) /\ Len(new) <= 1 /\ Range(new) = {str[n]} \cap Letters
    BY DEF Range
<1>4. Chars(n) = Chars(n - 1) \cup {str[n]}
    <2>1. 1 .. n = (1 .. (n - 1)) \cup {n}
        OBVIOUS
    <2> QED BY <2>1
<1> HIDE DEF old, new, Chars
<1>5. /\ old \o new \in Seq(Letters) /\ Len(old \o new) = Len(old) + Len(new)
      /\ Range(old \o new) = Range(old) \cup Range(new)
    BY <1>2, <1>3, RangeConcatenation, ConcatProperties
<1>6. ASSUME Chars(n) \subseteq Letters
      PROVE  old \o new = SubSeq(str, 1, n)
    <2>1. old = SubSeq(str, 1, n - 1)
        BY <1>4, <1>6 DEF Cleaned, old, Chars
    <2>2. new = <<str[n]>>
        BY <1>4, <1>6 DEF new
    <2> QED BY <2>1, <2>2
<1>7. Len(old \o new) <= n
    BY <1>2, <1>3, <1>5
<1>8. Range(old \o new) = Chars(n) \cap Letters
    BY <1>2, <1>3, <1>4, <1>5
<1> QED BY <1>1, <1>5, <1>6, <1>7, <1>8 DEF Cleaned, Chars

\* What holds of every prefix: were there one of which it does not hold, the
\* shortest of those would have one before it.
LEMMA AllCleaned ==
    ASSUME NEW str \in Seq(STRING), NEW left, Cleans(str, left, Len(str)),
           NEW n \in 0 .. Len(str)
    PROVE  Cleaned(str, left, n)
<1>1. \A k \in 0 .. Len(str) : left[k] = Step(str, left, k)
    BY DEF Cleans
<1> DEFINE bad == {k \in 0 .. Len(str) : ~ Cleaned(str, left, k)}
<1>2. SUFFICES ASSUME bad # {} PROVE FALSE
    OBVIOUS
<1>3. PICK k \in bad : \A m \in bad : k <= m
    <2>1. bad \subseteq Nat
        OBVIOUS
    <2> HIDE DEF bad
    <2> QED BY <1>2, <2>1, LeastNumber
<1>4. k # 0
    <2>1. left[0] = <<>>
        <3>1. 0 \in 0 .. Len(str)
            OBVIOUS
        <3> QED BY <1>1, <3>1 DEF Step
    <2>2. Cleaned(str, left, 0)
        <3>1. SubSeq(str, 1, 0) = <<>> /\ {str[i] : i \in 1 .. 0} = {}
            OBVIOUS
        <3>2. left[0] \in Seq(Letters) /\ Len(left[0]) = 0 /\ Range(left[0]) = {}
            BY <2>1 DEF Range
        <3> QED BY <2>1, <3>1, <3>2 DEF Cleaned
    <2> QED BY <2>2
<1>5. k - 1 \in 0 .. Len(str) /\ k - 1 \notin bad
    BY <1>3, <1>4
<1>6. Cleaned(str, left, k - 1)
    BY <1>5
<1>7. k \in 1 .. Len(str) /\ left[k] = Step(str, left, k)
    BY <1>1, <1>4
<1> QED BY <1>6, <1>7, CleanedStep

\* There is such a function, for every length: were there none for some, take
\* the least; the function for the length before it has one more step.
LEMMA SomeLeft ==
    ASSUME NEW str \in Seq(STRING)
    PROVE  \E left : Cleans(str, left, Len(str))
<1> DEFINE bad == {k \in Nat : ~ \E left : Cleans(str, left, k)}
<1>1. SUFFICES bad = {}
    <2>1. Len(str) \in Nat
        OBVIOUS
    <2> QED BY <2>1
<1>2. SUFFICES ASSUME bad # {} PROVE FALSE
    OBVIOUS
<1>3. PICK k \in bad : \A m \in bad : k <= m
    <2>1. bad \subseteq Nat
        OBVIOUS
    <2> HIDE DEF bad
    <2> QED BY <1>2, <2>1, LeastNumber
<1>4. k # 0
    <2> DEFINE none == [n \in 0 .. 0 |-> <<>>]
    <2>1. \A n \in 0 .. 0 : Step(str, none, n) = <<>>
        BY DEF Step
    <2>2. Cleans(str, none, 0)
        BY <2>1 DEF Cleans
    <2> QED BY <2>2
<1>5. PICK left : Cleans(str, left, k - 1)
    <2>1. k - 1 \in Nat /\ k - 1 \notin bad
        BY <1>3, <1>4
    <2> QED BY <2>1
<1> DEFINE more == [n \in 0 .. k |-> IF n = k THEN Step(str, left, k) ELSE left[n]]
<1>6. k \in Nat /\ k - 1 \in Nat /\ \A n \in 0 .. (k - 1) : left[n] = Step(str, left, n)
    <2>1. k \in Nat /\ k - 1 \in Nat
        BY <1>3, <1>4
    <2>2. \A n \in 0 .. (k - 1) : [m \in 0 .. (k - 1) |-> Step(str, left, m)][n] = Step(str, left, n)
        OBVIOUS
    <2> QED BY <1>5, <2>1, <2>2, Zenon DEF Cleans
<1>7. ASSUME NEW n \in 0 .. k
      PROVE  more[n] = Step(str, more, n)
    <2> HIDE DEF bad
    <2>1. n # k => n \in 0 .. (k - 1)
        BY <1>6
    <2>2. more[n] = Step(str, left, n)
        BY <1>6, <2>1
    <2>3. n # 0 => n - 1 \in 0 .. (k - 1)
        BY <1>6
    <2>4. n # 0 => n - 1 \in 0 .. k /\ n - 1 # k
        BY <1>6
    <2>5. n # 0 => more[n - 1] = left[n - 1]
        BY <2>4
    <2> HIDE DEF more
    <2> QED BY <2>2, <2>5 DEF Step
<1>8. Cleans(str, more, k)
    BY <1>7 DEF Cleans
<1> QED BY <1>3, <1>8

\* For every string, what is left of it has only letters, those that are in
\* it, no more of them than it has characters; and all of it is left when it
\* has nothing else, so that cleaning what is clean changes nothing.
THEOREM AlphaLeaves ==
    ASSUME NEW str \in Seq(STRING)
    PROVE  /\ AlphaWithHyphen(str) \in Seq(Letters)
           /\ Len(AlphaWithHyphen(str)) <= Len(str)
           /\ Range(AlphaWithHyphen(str)) = Range(str) \cap Letters
           /\ Range(str) \subseteq Letters => AlphaWithHyphen(str) = str
<1> DEFINE left[n \in 0 .. Len(str)] ==
              IF n = 0 THEN <<>>
              ELSE left[n - 1] \o (IF str[n] \in Letters THEN <<str[n]>> ELSE <<>>)
<1>1. left = CHOOSE f : Cleans(str, f, Len(str))
    BY Zenon DEF Cleans, Step, left
<1>2. AlphaWithHyphen(str) = left[Len(str)]
    BY Zenon DEF AlphaWithHyphen, left
<1> HIDE DEF left
<1>3. Cleaned(str, left, Len(str))
    BY <1>1, SomeLeft, AllCleaned
<1>4. {str[i] : i \in 1 .. Len(str)} = Range(str)
    BY DEF Range
<1>5. SubSeq(str, 1, Len(str)) = str
    BY SubSeqFull
<1> QED BY <1>2, <1>3, <1>4, <1>5 DEF Cleaned

----------------------------------------------------------------------------
(* Users, rows and documents.                                              *)

LEMMA EmptyIsNoUser == EmptyUser \notin Users
BY DEF EmptyUser, Users

LEMMA RowKeeps ==
    ASSUME NEW u \in Users, u.created >= Start
    PROVE  /\ RowOf(u) \in Users
           /\ RowOf(u).id = u.id /\ RowOf(u).first = u.first /\ RowOf(u).last = u.last
           /\ RowOf(u).created = Column(u.created)
           /\ RowOf(u).created > 0
<1>1. u.created \in Int /\ u.created >= PerSecond
    BY DEF Users
<1>2. Column(u.created) \in Int /\ Column(u.created) > 0
    BY <1>1, ColumnRounds
<1> QED BY <1>2 DEF RowOf, Users

LEMMA ViewKeeps ==
    ASSUME NEW u \in Users
    PROVE  /\ ViewModel(u) \in Users
           /\ ViewModel(u).id = u.id /\ ViewModel(u).first = u.first
           /\ ViewModel(u).last = u.last
           /\ ViewModel(u).created = u.created \div PerSecond
<1>1. u.created \div PerSecond \in Int
    BY Division DEF Users
<1> QED BY <1>1 DEF ViewModel, Users

\* What is not there before a creation is decoded into the empty user.
LEMMA BeforeIsEmpty == Before = EmptyUser
<1> DEFINE none == <<>>
           Blank(time) == [id |-> none, first |-> none, last |-> none, created |-> time]
<1>1. MsecToTime(0) = ZeroTime
    BY DEF MsecToTime
<1>2. EmptyUser = Blank(ZeroTime) /\ Before = Decoded([Blank(ZeroTime) EXCEPT !.created = 0])
    BY Zenon DEF EmptyUser, Before
<1> HIDE DEF none
<1>3. \A x, y : [Blank(x) EXCEPT !.created = y] = Blank(y)
    OBVIOUS
<1>4. Decoded(Blank(0)) = [Blank(0) EXCEPT !.created = MsecToTime(Blank(0).created)]
    BY Zenon DEF Decoded
<1>5. Blank(0).created = 0
    OBVIOUS
<1> HIDE DEF Blank
<1> QED BY <1>1, <1>2, <1>3, <1>4, <1>5, Zenon

\* An event brings a row as it is.
LEMMA DecodedIsRow ==
    ASSUME NEW row \in Users, row.created > 0
    PROVE  Decoded(row) = row
<1>1. MsecToTime(row.created) = row.created
    BY MsecKeeps DEF Users
<1> QED BY <1>1 DEF Decoded, Users

LEMMA ValidFits ==
    ASSUME NEW u \in Users, ValidName(u.first), ValidName(u.last)
    PROVE  Fits(u)
<1>1. Len(u.first) <= MaxLen /\ Len(u.last) <= MaxLen
    BY DEF ValidName
<1>2. u.first \in Seq(STRING) /\ u.last \in Seq(STRING)
    BY DEF Users
<1> QED BY <1>1, <1>2 DEF Fits

\* Only what has been created or found is answered with a good status.
LEMMA Statuses ==
    ASSUME NEW c \in Clients
    PROVE  /\ Status(c, "created") \in Good /\ Status(c, "found") \in Good
           /\ Status(c, "invalid") \notin Good /\ Status(c, "failed") \notin Good
           /\ \A o \in {"created", "found", "invalid", "failed"} : Status(c, o) \in Codes
BY DEF Status, Good, Codes

----------------------------------------------------------------------------
(* What the invariant says of rows.                                        *)

LEMMA MadeByOne ==
    ASSUME TypeOK, Made, NEW c \in Clients, user[c] # EmptyUser
    PROVE  /\ user[c] \in Users /\ RowOf(user[c]) \in Users
           /\ RowOf(user[c]).id = user[c].id
           /\ RowOf(user[c]).created > 0
<1>1. user[c] \in Users /\ user[c].created >= Start
    BY DEF TypeOK, Made
<1> QED BY <1>1, RowKeeps

\* A row has a maker, and rows of one id are one row.
LEMMA RowsDiffer ==
    ASSUME TypeOK, Made, IdsDiffer, RowsAreUsers
    PROVE  /\ \A r \in rows : r \in Users /\ r.created > 0
           /\ \A r, s \in rows : r.id = s.id => r = s
<1>1. ASSUME NEW r \in rows
      PROVE  \E c \in Clients : user[c] # EmptyUser /\ r = RowOf(user[c]) /\ r.id = user[c].id
                                /\ r \in Users /\ r.created > 0
    <2>1. PICK c \in Clients : user[c] # EmptyUser /\ r = RowOf(user[c])
        BY DEF RowsAreUsers, Makers
    <2> QED BY <2>1, MadeByOne
<1>2. ASSUME NEW r \in rows, NEW s \in rows, r.id = s.id
      PROVE  r = s
    <2>1. PICK c \in Clients : user[c] # EmptyUser /\ r = RowOf(user[c]) /\ r.id = user[c].id
        BY <1>1
    <2>2. PICK d \in Clients : user[d] # EmptyUser /\ s = RowOf(user[d]) /\ s.id = user[d].id
        BY <1>1
    <2> QED BY <1>2, <2>1, <2>2 DEF IdsDiffer
<1> QED BY <1>1, <1>2

----------------------------------------------------------------------------
(* The initial states and the steps.                                       *)

LEMMA InitHolds == Init => IInv
<1> SUFFICES ASSUME Init PROVE IInv
    OBVIOUS
<1>1. TypeOK
    BY DEF Init, TypeOK, Codes
<1>2. Made /\ IdsDiffer
    BY DEF Init, Made, IdsDiffer
<1>3. RowsAreUsers /\ DocsAreRows
    BY DEF Init, RowsAreUsers, DocsAreRows
<1>4. AnswersAre /\ NoInputBreaksTheStore
    BY DEF Init, AnswersAre, NoInputBreaksTheStore, Answered, Good
<1> QED BY <1>1, <1>2, <1>3, <1>4 DEF IInv

LEMMA TickHolds == ASSUME IInv, Tick PROVE IInv'
<1>1. UNCHANGED <<at, user, term, answer, faulted, rows, copied, docs>>
    BY DEF Tick, callVars
<1>2. TypeOK'
    BY <1>1 DEF IInv, TypeOK, Tick
<1>3. Made' /\ IdsDiffer' /\ RowsAreUsers' /\ DocsAreRows'
    BY <1>1 DEF IInv, Made, IdsDiffer, RowsAreUsers, Makers, DocsAreRows
<1>4. AnswersAre' /\ NoInputBreaksTheStore'
    BY <1>1 DEF IInv, AnswersAre, NoInputBreaksTheStore, Answered
<1> QED BY <1>2, <1>3, <1>4 DEF IInv

\* A valid user is made and handed to the storage.
LEMMA CreateHolds ==
    ASSUME IInv, NEW c \in Clients, at[c] = "idle",
           NEW first \in Inputs, NEW last \in Inputs, ValidName(first), ValidName(last),
           Create(c, first, last), UNCHANGED <<clock, term, faulted, rows, copied, docs>>
    PROVE  IInv'
<1> USE DEF IInv
<1>1. PICK id \in Ids \ {user[d].id : d \in Clients} :
        /\ at' = [at EXCEPT ![c] = "storing"]
        /\ user' = [user EXCEPT ![c] = [id |-> id, first |-> first, last |-> last, created |-> clock]]
        /\ UNCHANGED answer
    BY DEF Create
<1> DEFINE u == [id |-> id, first |-> first, last |-> last, created |-> clock]
<1>2. user[c] = EmptyUser /\ u \in Users /\ u # EmptyUser
    <2>1. u \in Users
        BY DEF Users, TypeOK
    <2> QED BY <2>1, EmptyIsNoUser DEF Made
<1>3. /\ user' \in [Clients -> Users \cup {EmptyUser}]
      /\ user'[c] = u /\ at'[c] = "storing"
      /\ \A d \in Clients \ {c} : user'[d] = user[d] /\ at'[d] = at[d]
    BY <1>1, <1>2 DEF TypeOK
<1>4. TypeOK'
    BY <1>1, <1>3 DEF TypeOK
<1>5. Made'
    BY <1>2, <1>3 DEF Made, TypeOK
<1>6. IdsDiffer'
    BY <1>1, <1>2, <1>3 DEF IdsDiffer
<1>7. RowsAreUsers'
    <2> SUFFICES ASSUME NEW r \in rows
                 PROVE  \E d \in Makers' : r = RowOf(user'[d])
        BY Zenon DEF RowsAreUsers, RowOf
    <2>1. PICK d \in Clients : user[d] # EmptyUser /\ r = RowOf(user[d])
        BY DEF RowsAreUsers, Makers
    <2>2. user'[d] = user[d] /\ d \in Makers'
        BY <1>2, <1>3, <2>1 DEF Makers
    <2> QED BY <2>1, <2>2
<1>8. DocsAreRows'
    BY DEF DocsAreRows
<1>9. AnswersAre'
    <2>1. c \notin Answered' /\ Answered' = Answered
        BY <1>1 DEF AnswersAre, Answered
    <2> QED BY <1>1, <1>3, <2>1 DEF AnswersAre
<1>10. NoInputBreaksTheStore'
    BY <1>1, <1>3 DEF NoInputBreaksTheStore, Answered
<1> QED BY <1>4, <1>5, <1>6, <1>7, <1>8, <1>9, <1>10

\* A call is answered, in one of the ways the handlers answer.
LEMMA ReplyHolds ==
    ASSUME IInv, NEW c \in Clients, at[c] # "answered",
           NEW o \in {"created", "found", "invalid", "failed"}, NEW users \in SUBSET Users,
           Reply(c, o, users), UNCHANGED <<clock, user, copied, docs>>,
           term' \in [Clients -> Seq(Letters)],
           faulted' \in SUBSET Clients, faulted \subseteq faulted',
           rows' \in SUBSET Users, rows \subseteq rows', RowsAreUsers', DocsAreRows',
           user[c] # EmptyUser => (o = "created" /\ users = {ViewModel(user[c])}) \/ c \in faulted',
           user[c] # EmptyUser => o \in {"created", "failed"},
           o = "created" => users = {ViewModel(user[c])} /\ user[c] # EmptyUser,
           o = "found" => users \subseteq {ViewModel(r) : r \in rows}
    PROVE  IInv'
<1> USE DEF IInv
<1> DEFINE a == [status |-> Status(c, o), users |-> users]
<1>1. /\ at' = [at EXCEPT ![c] = "answered"] /\ answer' = [answer EXCEPT ![c] = a]
      /\ a \in [status : Codes, users : SUBSET Users]
    BY Statuses DEF Reply
<1>2. /\ at'[c] = "answered" /\ answer'[c] = a
      /\ \A d \in Clients \ {c} : at'[d] = at[d] /\ answer'[d] = answer[d]
    BY <1>1 DEF TypeOK
<1>3. TypeOK'
    BY <1>1 DEF TypeOK
<1>4. Made' /\ IdsDiffer'
    BY <1>2 DEF Made, IdsDiffer
<1>5. c \in Answered' <=> o \in {"created", "found"}
    BY <1>2, Statuses DEF Answered
<1>6. \A d \in Clients \ {c} : d \in Answered' <=> d \in Answered
    BY <1>2 DEF Answered
<1>7. AnswersAre'
    <2> SUFFICES ASSUME NEW d \in Clients
                 PROVE  /\ at'[d] # "answered" => d \notin Answered'
                        /\ d \in Answered' /\ user[d] # EmptyUser
                             => answer'[d].users = {ViewModel(user[d])}
                        /\ d \in Answered' /\ user[d] = EmptyUser
                             => answer'[d].users \subseteq {ViewModel(r) : r \in rows'}
        BY DEF AnswersAre
    <2>1. CASE d = c
        BY <1>2, <1>5, <2>1
    <2>2. CASE d # c
        <3>1. d \in Answered /\ user[d] = EmptyUser
                => answer[d].users \subseteq {ViewModel(r) : r \in rows}
            BY DEF AnswersAre
        <3> QED BY <1>2, <1>6, <2>2, <3>1 DEF AnswersAre
    <2> QED BY <2>1, <2>2
<1>8. NoInputBreaksTheStore'
    BY <1>2, <1>5, <1>6 DEF NoInputBreaksTheStore
<1> QED BY <1>3, <1>4, <1>7, <1>8

\* A call that changes no row and no document leaves what is said of them.
LEMMA TablesStay ==
    ASSUME IInv, UNCHANGED <<user, rows, copied, docs>>
    PROVE  RowsAreUsers' /\ DocsAreRows'
BY Zenon DEF IInv, RowsAreUsers, DocsAreRows, Makers, RowOf

\* The row of a user is new, or the one that is there.
LEMMA RowAdded ==
    ASSUME IInv, NEW c \in Clients, user[c] # EmptyUser,
           rows' \in {rows, rows \cup {RowOf(user[c])}}, UNCHANGED <<user, copied, docs>>
    PROVE  rows' \in SUBSET Users /\ rows \subseteq rows' /\ RowsAreUsers' /\ DocsAreRows'
<1> USE DEF IInv
<1> DEFINE new == RowOf(user[c])
<1>1. new \in Users /\ new.id = user[c].id
    BY MadeByOne
<1>2. rows' \in SUBSET Users /\ rows \subseteq rows'
    BY <1>1 DEF TypeOK
<1>3. RowsAreUsers'
    <2> SUFFICES ASSUME NEW r \in rows'
                 PROVE  \E d \in Makers : r = RowOf(user[d])
        BY Zenon DEF RowsAreUsers, Makers, RowOf
    <2> QED BY DEF RowsAreUsers, Makers
<1>4. DocsAreRows'
    <2> SUFFICES ASSUME NEW g \in Groups
                 PROVE  /\ copied[g] \subseteq {r.id : r \in rows'}
                        /\ docs[g] = {r \in rows' : r.id \in copied[g]}
        BY DEF DocsAreRows
    <2>1. copied[g] \subseteq {r.id : r \in rows} /\ docs[g] = {r \in rows : r.id \in copied[g]}
        BY DEF DocsAreRows
    <2>2. ASSUME new.id \in copied[g]
          PROVE  new \in rows
        <3>1. PICK r \in rows : r.id = new.id
            BY <2>1, <2>2
        <3>2. PICK d \in Clients : user[d] # EmptyUser /\ r = RowOf(user[d])
            BY DEF RowsAreUsers, Makers
        <3>3. user[d].id = user[c].id
            BY <1>1, <3>1, <3>2, MadeByOne
        <3> QED BY <3>1, <3>2, <3>3 DEF IdsDiffer
    <2> HIDE DEF new
    <2>3. rows' \in {rows, rows \cup {new}}
        BY DEF new
    <2> QED BY <1>2, <2>1, <2>2, <2>3
<1> QED BY <1>2, <1>3, <1>4

LEMMA InsertHolds == ASSUME IInv, NEW c \in Clients, Insert(c) PROVE IInv'
<1> USE DEF IInv
<1>1. user[c] # EmptyUser
    BY DEF Insert, Made
<1>2. Fits(user[c])
    BY <1>1, MadeByOne, ValidFits DEF Made
<1>3. /\ at' = [at EXCEPT ![c] = "stored"] /\ rows' = rows \cup {RowOf(user[c])}
      /\ UNCHANGED <<clock, user, term, answer, faulted, copied, docs>>
    BY <1>2 DEF Insert
<1>4. rows' \in SUBSET Users /\ rows \subseteq rows' /\ RowsAreUsers' /\ DocsAreRows'
    BY <1>1, <1>3, RowAdded
<1>5. at'[c] = "stored" /\ at[c] = "storing" /\ \A d \in Clients \ {c} : at'[d] = at[d]
    BY <1>3 DEF TypeOK, Insert
<1>6. TypeOK'
    BY <1>3, <1>4 DEF TypeOK
<1>7. Made' /\ IdsDiffer'
    BY <1>1, <1>3, <1>5 DEF Made, IdsDiffer
<1>8. AnswersAre'
    <2>1. Answered' = Answered /\ c \notin Answered
        BY <1>3, <1>5 DEF AnswersAre, Answered
    <2>2. {ViewModel(r) : r \in rows} \subseteq {ViewModel(r) : r \in rows'}
        BY <1>4
    <2>3. ASSUME NEW d \in Clients
          PROVE  /\ at'[d] # "answered" => d \notin Answered
                 /\ d \in Answered /\ user[d] # EmptyUser => answer[d].users = {ViewModel(user[d])}
                 /\ d \in Answered /\ user[d] = EmptyUser
                      => answer[d].users \subseteq {ViewModel(r) : r \in rows'}
        BY <1>5, <2>1, <2>2 DEF AnswersAre
    <2> QED BY <1>3, <2>1, <2>3 DEF AnswersAre
<1>9. NoInputBreaksTheStore'
    BY <1>3, <1>5 DEF NoInputBreaksTheStore, Answered
<1> QED BY <1>4, <1>6, <1>7, <1>8, <1>9

LEMMA InsertFailsHolds == ASSUME IInv, NEW c \in Clients, InsertFails(c) PROVE IInv'
<1>1. user[c] # EmptyUser /\ at[c] # "answered"
    BY DEF InsertFails, Made, IInv
<1>2. /\ rows' \in {rows, rows \cup {RowOf(user[c])}} /\ Reply(c, "failed", {})
      /\ faulted' = faulted \cup {c} /\ UNCHANGED <<clock, user, term, copied, docs>>
    BY DEF InsertFails
<1>3. rows' \in SUBSET Users /\ rows \subseteq rows' /\ RowsAreUsers' /\ DocsAreRows'
    BY <1>1, <1>2, RowAdded
<1>4. faulted' \in SUBSET Clients /\ term' \in [Clients -> Seq(Letters)]
    BY <1>2 DEF IInv, TypeOK
<1> QED BY <1>1, <1>2, <1>3, <1>4, ReplyHolds

LEMMA CreateReturnsHolds == ASSUME IInv, NEW c \in Clients, CreateReturns(c) PROVE IInv'
<1>1. user[c] # EmptyUser /\ at[c] # "answered"
    BY DEF CreateReturns, Made, IInv
<1>2. /\ Reply(c, "created", {ViewModel(user[c])})
      /\ UNCHANGED <<clock, user, term, faulted, rows, copied, docs>>
    BY DEF CreateReturns
<1>3. {ViewModel(user[c])} \in SUBSET Users
    BY <1>1, ViewKeeps, MadeByOne DEF IInv
<1>4. /\ rows \in SUBSET Users /\ faulted \in SUBSET Clients
      /\ term \in [Clients -> Seq(Letters)]
    BY DEF IInv, TypeOK
<1> QED BY <1>1, <1>2, <1>3, <1>4, TablesStay, ReplyHolds

\* A call that is refused has made no user.
LEMMA RefusedHolds ==
    ASSUME IInv, NEW c \in Clients, at[c] = "idle", Reply(c, "invalid", {}),
           term' \in [Clients -> Seq(Letters)],
           UNCHANGED <<clock, user, faulted, rows, copied, docs>>
    PROVE  IInv'
<1>1. user[c] = EmptyUser
    BY DEF Made, IInv
<1>2. rows \in SUBSET Users /\ faulted \in SUBSET Clients /\ {} \in SUBSET Users
    BY DEF IInv, TypeOK
<1> QED BY <1>1, <1>2, TablesStay, ReplyHolds

LEMMA CreateHTTPHolds == ASSUME IInv, NEW c \in Clients, CreateHTTP(c) PROVE IInv'
<1>1. at[c] = "idle" /\ UNCHANGED <<clock, term, faulted, rows, copied, docs>>
    BY DEF CreateHTTP, HTTPCall
<1>0. term \in [Clients -> Seq(Letters)]
    BY DEF IInv, TypeOK
<1>2. CASE Reply(c, "invalid", {}) /\ UNCHANGED user
    BY <1>0, <1>1, <1>2, RefusedHolds
<1>3. CASE \E first, last \in Inputs : ValidateStruct(first, last) /\ Create(c, first, last)
    BY <1>1, <1>3, CreateHolds DEF ValidateStruct
<1> QED BY <1>2, <1>3 DEF CreateHTTP

LEMMA CreateGRPCHolds == ASSUME IInv, NEW c \in Clients, CreateGRPC(c) PROVE IInv'
<1>1. at[c] = "idle" /\ UNCHANGED <<clock, term, faulted, rows, copied, docs>>
    BY DEF CreateGRPC, GRPCCall
<1>0. term \in [Clients -> Seq(Letters)]
    BY DEF IInv, TypeOK
<1>2. CASE Reply(c, "invalid", {}) /\ UNCHANGED user
    BY <1>0, <1>1, <1>2, RefusedHolds
<1>3. CASE \E first, last \in Inputs : ValidateStruct(first, last) /\ Create(c, first, last)
    BY <1>1, <1>3, CreateHolds DEF ValidateStruct
<1> QED BY <1>2, <1>3 DEF CreateGRPC

\* A creation adds the row it brings to the documents, and nothing else.
LEMMA ConsumeHolds ==
    ASSUME IInv, NEW g \in Groups, NEW row \in rows, Consume(g, row)
    PROVE  IInv'
<1> USE DEF IInv
<1>1. row \in Users /\ row.created > 0 /\ \A r \in rows : r.id = row.id => r = row
    BY RowsDiffer
<1>2. Decoded(row) = row /\ Before = EmptyUser /\ row # EmptyUser
    BY <1>1, DecodedIsRow, BeforeIsEmpty, EmptyIsNoUser
<1>3. /\ copied' = [copied EXCEPT ![g] = @ \cup {row.id}]
      /\ docs' = [docs EXCEPT ![g] = {u \in docs[g] : u.id # row.id} \cup {row}]
      /\ UNCHANGED <<clock, at, user, term, answer, faulted, rows>>
    <2>1. Process(docs[g], EmptyUser, row) = {u \in docs[g] : u.id # row.id} \cup {row}
        BY <1>2, Zenon DEF Process
    <2>2. docs' = [docs EXCEPT ![g] = Process(docs[g], EmptyUser, row)]
        BY <1>2, Zenon DEF Consume
    <2>3. /\ copied' = [copied EXCEPT ![g] = copied[g] \cup {row.id}]
          /\ UNCHANGED <<clock, at, user, term, answer, faulted, rows>>
        BY Zenon DEF Consume, callVars
    <2> QED BY <2>1, <2>2, <2>3, Zenon
<1>4. row.id \notin copied[g] /\ row.id \in Ids
    BY <1>1 DEF Consume, Users
<1>5. TypeOK'
    BY <1>1, <1>3, <1>4 DEF TypeOK
<1>6. Made' /\ IdsDiffer' /\ RowsAreUsers'
    BY <1>3, Zenon DEF Made, IdsDiffer, RowsAreUsers, Makers, RowOf
<1>7. AnswersAre' /\ NoInputBreaksTheStore'
    BY <1>3, Zenon DEF AnswersAre, NoInputBreaksTheStore, Answered
<1>8. DocsAreRows'
    <2> SUFFICES ASSUME NEW h \in Groups
                 PROVE  /\ copied'[h] \subseteq {r.id : r \in rows}
                        /\ docs'[h] = {r \in rows : r.id \in copied'[h]}
        BY <1>3 DEF DocsAreRows
    <2>1. copied[h] \subseteq {r.id : r \in rows} /\ docs[h] = {r \in rows : r.id \in copied[h]}
        BY DEF DocsAreRows
    <2>2. CASE h = g
        <3>1. copied'[g] = copied[g] \cup {row.id}
              /\ docs'[g] = {u \in docs[g] : u.id # row.id} \cup {row}
            BY <1>3 DEF TypeOK
        <3> QED BY <1>1, <1>4, <2>1, <2>2, <3>1
    <2>3. CASE h # g
        BY <1>3, <2>1, <2>3 DEF TypeOK
    <2> QED BY <2>2, <2>3
<1> QED BY <1>5, <1>6, <1>7, <1>8

\* A query is answered with rows, or with the error of the store.
LEMMA QueryHolds ==
    ASSUME IInv, NEW c \in Clients, at[c] = "idle", NEW found \in SUBSET rows, Query(c, found),
           term' \in [Clients -> Seq(Letters)],
           UNCHANGED <<clock, user, rows, copied, docs>>
    PROVE  IInv'
<1>1. user[c] = EmptyUser
    BY DEF Made, IInv
<1>2. rows \in SUBSET Users /\ faulted \in SUBSET Clients
    BY DEF IInv, TypeOK
<1> DEFINE shown == {ViewModel(u) : u \in found}
<1>3. shown \in SUBSET Users /\ shown \subseteq {ViewModel(r) : r \in rows} /\ {} \in SUBSET Users
    BY <1>2, ViewKeeps
<1> HIDE DEF shown
<1>4. RowsAreUsers' /\ DocsAreRows'
    BY TablesStay
<1>5. CASE Reply(c, "found", shown) /\ UNCHANGED faulted
    BY <1>1, <1>2, <1>3, <1>4, <1>5, ReplyHolds
<1>6. CASE Reply(c, "failed", {}) /\ faulted' = faulted \cup {c}
    BY <1>1, <1>2, <1>3, <1>4, <1>6, ReplyHolds
<1> QED BY <1>5, <1>6 DEF Query, shown

LEMMA DocsInRows == ASSUME IInv PROVE \A g \in Groups : docs[g] \in SUBSET rows
BY DEF IInv, DocsAreRows

LEMMA ReadHolds == ASSUME IInv, NEW c \in Clients, ReadHTTP(c) \/ ReadGRPC(c) PROVE IInv'
<1>1. /\ at[c] = "idle" /\ Query(c, docs["cache"])
      /\ UNCHANGED <<clock, user, rows, copied, docs>>
      /\ term' \in [Clients -> Seq(Letters)]
    BY DEF ReadHTTP, ReadGRPC, HTTPCall, GRPCCall, IInv, TypeOK
<1> QED BY <1>1, DocsInRows, QueryHolds

LEMMA SearchHolds ==
    ASSUME IInv, NEW c \in Clients, SearchHTTP(c) \/ SearchGRPC(c)
    PROVE  IInv'
<1>1. PICK raw \in Terms : Search(c, AlphaWithHyphen(raw)) /\ at[c] = "idle"
    BY DEF SearchHTTP, SearchGRPC, HTTPCall, GRPCCall
<1> DEFINE t == AlphaWithHyphen(raw)
<1>2. t \in Seq(Letters)
    BY AlphaLeaves
<1> HIDE DEF t
<1>3. /\ term' = [term EXCEPT ![c] = t]
      /\ UNCHANGED <<clock, user, rows, copied, docs>>
    BY <1>1 DEF Search, t
<1>4. term' \in [Clients -> Seq(Letters)]
    BY <1>2, <1>3 DEF IInv, TypeOK
<1>5. CASE Reply(c, "invalid", {}) /\ UNCHANGED faulted
    BY <1>1, <1>3, <1>4, <1>5, RefusedHolds
<1>6. CASE \E hits \in Hits(t) : Query(c, hits)
    <2>1. PICK hits \in Hits(t) : Query(c, hits)
        BY <1>6
    <2>2. hits \in SUBSET docs["search"]
        BY DEF Hits
    <2> QED BY <1>1, <1>3, <1>4, <2>1, <2>2, DocsInRows, QueryHolds
<1> QED BY <1>1, <1>5, <1>6 DEF Search, t

LEMMA StepHolds == IInv /\ [Next]_vars => IInv'
<1> SUFFICES ASSUME IInv, [Next]_vars PROVE IInv'
    OBVIOUS
<1>1. CASE Tick
    BY <1>1, TickHolds
<1>2. ASSUME NEW c \in Clients, CreateHTTP(c) \/ CreateGRPC(c) PROVE IInv'
    BY <1>2, CreateHTTPHolds, CreateGRPCHolds
<1>3. ASSUME NEW c \in Clients, Insert(c) \/ InsertFails(c) \/ CreateReturns(c) PROVE IInv'
    BY <1>3, InsertHolds, InsertFailsHolds, CreateReturnsHolds
<1>4. ASSUME NEW c \in Clients, ReadHTTP(c) \/ ReadGRPC(c) \/ SearchHTTP(c) \/ SearchGRPC(c)
      PROVE  IInv'
    BY <1>4, ReadHolds, SearchHolds
<1>5. ASSUME NEW g \in Groups, NEW row \in rows, Consume(g, row) PROVE IInv'
    BY <1>5, ConsumeHolds
<1>6. CASE UNCHANGED vars
    <2>1. UNCHANGED <<clock, at, user, term, answer, faulted, rows, copied, docs>>
        BY <1>6 DEF vars, callVars
    <2>2. TypeOK' /\ Made' /\ IdsDiffer'
        BY <2>1 DEF IInv, TypeOK, Made, IdsDiffer
    <2>3. AnswersAre' /\ NoInputBreaksTheStore'
        BY <2>1, Zenon DEF IInv, AnswersAre, NoInputBreaksTheStore, Answered
    <2> QED BY <2>1, <2>2, <2>3, TablesStay DEF IInv
<1> QED BY <1>1, <1>2, <1>3, <1>4, <1>5, <1>6 DEF Next

LEMMA Invariance == Spec => []IInv
<1> QED BY InitHolds, StepHolds, PTL DEF Spec

----------------------------------------------------------------------------
(* What the answers show.                                                  *)

\* Who is served has been made by one call, and stored and shown as it was.
LEMMA ServedHasMaker ==
    ASSUME IInv, NEW u \in Served
    PROVE  \E d \in Clients :
              /\ user[d] # EmptyUser /\ user[d] \in Users
              /\ u = ViewModel(RowOf(user[d])) /\ u.id = user[d].id
              /\ u.first = user[d].first /\ u.last = user[d].last
              /\ u.created = Column(user[d].created) \div PerSecond
<1>1. PICK c \in Answered : user[c] = EmptyUser /\ u \in answer[c].users
    BY DEF Served
<1>2. PICK r \in rows : u = ViewModel(r)
    BY <1>1 DEF IInv, AnswersAre, Answered
<1>3. PICK d \in Clients : user[d] # EmptyUser /\ r = RowOf(user[d])
    BY <1>2 DEF IInv, RowsAreUsers, Makers
<1>4. user[d] \in Users /\ user[d].created >= Start
    BY <1>3 DEF IInv, TypeOK, Made
<1>5. /\ r \in Users /\ r.id = user[d].id /\ r.first = user[d].first /\ r.last = user[d].last
      /\ r.created = Column(user[d].created)
    BY <1>3, <1>4, RowKeeps
<1>6. /\ u.id = r.id /\ u.first = r.first /\ u.last = r.last
      /\ u.created = r.created \div PerSecond
    BY <1>2, <1>5, ViewKeeps
<1> QED BY <1>2, <1>3, <1>4, <1>5, <1>6

\* The types of the variables, for any callers and inputs: what is searched
\* for has only letters, whatever is sent.
THEOREM TypeCorrect == Spec => []TypeOK
<1>1. IInv => TypeOK
    BY DEF IInv
<1> QED BY <1>1, Invariance, PTL

\* Whatever the handlers let through fits the columns of the table, for any
\* bounds of the validator below the width of a column: a call that has got
\* as far as the storage fails only if the storage does.
THEOREM AcceptedFits == Spec => []NoInputBreaksTheStore
<1>1. IInv => NoInputBreaksTheStore
    BY DEF IInv
<1> QED BY <1>1, Invariance, PTL

\* Lists and searches only show users that the validator would let through,
\* whichever protocol they came in by.
THEOREM NamesAreValid == Spec => []ServedNamesAreValid
<1>1. IInv => ServedNamesAreValid
    <2> SUFFICES ASSUME IInv, NEW u \in Served
                 PROVE  {Len(u.first), Len(u.last)} \subseteq MinLen .. MaxLen
        BY DEF ServedNamesAreValid
    <2>1. PICK d \in Clients :
            user[d] # EmptyUser /\ u.first = user[d].first /\ u.last = user[d].last
        BY ServedHasMaker
    <2>2. ValidName(user[d].first) /\ ValidName(user[d].last)
        BY <2>1 DEF IInv, Made
    <2> QED BY <2>1, <2>2 DEF ValidName
<1> QED BY <1>1, Invariance, PTL

\* A user is listed and found with the names its creation was answered with,
\* and in the same second or the next, whatever the precision of the clock.
THEOREM AnswersAgree == Spec => []ServedAsAnswered
<1>1. IInv => ServedAsAnswered
    <2> SUFFICES ASSUME IInv, NEW c \in Answered, NEW u \in answer[c].users, NEW v \in Served,
                        user[c] # EmptyUser, u.id = v.id
                 PROVE  /\ <<u.first, u.last>> = <<v.first, v.last>>
                        /\ v.created - u.created \in {0, 1}
        BY DEF ServedAsAnswered
    <2>1. c \in Clients /\ u = ViewModel(user[c])
        BY DEF IInv, AnswersAre, Answered
    <2>2. user[c] \in Users /\ user[c].created >= Start
        BY <2>1 DEF IInv, TypeOK, Made
    <2>3. /\ u.id = user[c].id /\ u.first = user[c].first /\ u.last = user[c].last
          /\ u.created = user[c].created \div PerSecond
        BY <2>1, <2>2, ViewKeeps
    <2>4. PICK d \in Clients :
            /\ user[d] # EmptyUser /\ v.id = user[d].id
            /\ v.first = user[d].first /\ v.last = user[d].last
            /\ v.created = Column(user[d].created) \div PerSecond
        BY ServedHasMaker
    <2>5. d = c
        BY <2>1, <2>3, <2>4 DEF IInv, IdsDiffer
    <2>6. user[c].created \in Int /\ user[c].created >= PerSecond
        BY <2>2 DEF Users
    <2> QED BY <2>3, <2>4, <2>5, <2>6, ColumnRounds
<1> QED BY <1>1, Invariance, PTL

\* Two answers never show one id as two users.
THEOREM OneUserPerId == Spec => []SameEverywhere
<1>1. IInv => SameEverywhere
    <2> SUFFICES ASSUME IInv, NEW u \in Served, NEW v \in Served, u.id = v.id
                 PROVE  u = v
        BY DEF SameEverywhere
    <2>1. PICK c \in Clients :
            user[c] # EmptyUser /\ u = ViewModel(RowOf(user[c])) /\ u.id = user[c].id
        BY ServedHasMaker
    <2>2. PICK d \in Clients :
            user[d] # EmptyUser /\ v = ViewModel(RowOf(user[d])) /\ v.id = user[d].id
        BY ServedHasMaker
    <2> QED BY <2>1, <2>2 DEF IInv, IdsDiffer
<1> QED BY <1>1, Invariance, PTL

\* The processor takes every creation for one, at whatever time after the
\* first second of the epoch the user was made.
THEOREM EveryCreationCounts == Spec => []CreationsAreRecognised
<1>1. IInv => CreationsAreRecognised
    BY DEF IInv, DocsAreRows, CreationsAreRecognised
<1> QED BY <1>1, Invariance, PTL

=============================================================================
