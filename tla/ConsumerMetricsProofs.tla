------------------------ MODULE ConsumerMetricsProofs -----------------------
(***************************************************************************)
(* Theorems about ConsumerMetrics, for any number of readers, any group    *)
(* ids and any number of messages and failed exports.                      *)
(***************************************************************************)
EXTENDS ConsumerMetrics, TLAPS

USE MetricsAssumption

LEMMA ReaderType == \A r \in Readers : r = [dest |-> r.dest, i |-> r.i]
BY DEF Readers

\* Each reader has a series of its own, even if the groups have one id.
LEMMA SeriesDiffer == \A r, q \in Readers : Series(r) = Series(q) => r = q
BY ReaderType DEF Series

LEMMA SeriesIsOne == \A r \in Readers : Series(r) \in AllSeries
BY DEF AllSeries

LEMMA InitHolds == Init => IInv
<1> SUFFICES ASSUME Init PROVE IInv
    OBVIOUS
<1>1. TypeOK
    BY DEF Init, TypeOK, Counts
<1>2. NothingUncounted
    BY DEF Init, NothingUncounted
<1>3. Observed
    BY SeriesIsOne DEF Init, Observed
<1>4. Unregistered
    BY DEF Init, Unregistered
<1> QED BY <1>1, <1>2, <1>3, <1>4 DEF IInv

LEMMA CallbackKeeps ==
    ASSUME IInv, NEW r \in Readers, Callback(r)
    PROVE  IInv'
<1> DEFINE n == total[r] + snapshot[r]
<1>1. TypeOK /\ NothingUncounted /\ Observed
    BY DEF IInv
<1>2. n = read[r] /\ n \in Nat /\ total[r] <= n
    BY <1>1 DEF TypeOK, Counts, NothingUncounted
<1>3. /\ total' = [total EXCEPT ![r] = n] /\ snapshot' = [snapshot EXCEPT ![r] = 0]
      /\ observed' = [observed EXCEPT ![Series(r)] = n]
      /\ todo' = todo \ {r}
      /\ UNCHANGED <<made, read, registered, phase, exported, atStart, faults>>
    BY <1>1 DEF Callback, TypeOK, Counts
<1> HIDE DEF n
<1>4. TypeOK'
    BY <1>1, <1>2, <1>3, SeriesIsOne DEF TypeOK, Counts
<1>5. NothingUncounted'
    BY <1>1, <1>2, <1>3 DEF TypeOK, Counts, NothingUncounted
<1>6. Observed'
    <2> SUFFICES ASSUME NEW q \in Readers
                 PROVE  /\ exported'[Series(q)] <= total'[q]
                        /\ observed'[Series(q)] <= total'[q]
                        /\ atStart'[q] <= read'[q]
                        /\ phase' = "collecting" /\ observed'[Series(q)] > 0 =>
                              /\ atStart'[q] <= observed'[Series(q)]
                              /\ exported'[Series(q)] <= observed'[Series(q)]
        BY DEF Observed
    <2>1. CASE q = r
        <3>1. observed'[Series(q)] = n /\ total'[q] = n
            BY <1>1, <1>3, <2>1, SeriesIsOne DEF TypeOK, Counts
        <3>2. exported[Series(q)] <= total[q] /\ atStart[q] <= read[q]
            BY <1>1 DEF Observed
        <3> QED BY <1>1, <1>2, <1>3, <2>1, <3>1, <3>2, SeriesIsOne DEF TypeOK, Counts
    <2>2. CASE q # r
        <3>1. observed'[Series(q)] = observed[Series(q)] /\ total'[q] = total[q]
            BY <1>1, <1>3, <2>2, SeriesIsOne, SeriesDiffer DEF TypeOK, Counts
        <3> QED BY <1>1, <1>3, <3>1 DEF Observed
    <2> QED BY <2>1, <2>2
<1>7. Unregistered'
    <2>1. Unregistered /\ r \in registered
        BY <1>1 DEF IInv, TypeOK, Callback
    <2> QED BY <1>1, <1>3, <2>1 DEF TypeOK, Counts, Unregistered
<1> QED BY <1>4, <1>5, <1>6, <1>7 DEF IInv

LEMMA CollectKeeps ==
    ASSUME IInv, SetMeterProvider \/ Collect \/ Export \/ ExportFails \/ UNCHANGED vars
    PROVE  IInv'
<1>1. TypeOK /\ NothingUncounted /\ Observed
    BY DEF IInv
<1>2. UNCHANGED <<read, snapshot, total, registered>>
    BY DEF SetMeterProvider, Collect, Export, ExportFails, vars
<1>3. NothingUncounted' /\ Unregistered'
    BY <1>1, <1>2 DEF IInv, NothingUncounted, Unregistered
<1>4. CASE Collect
    <2>1. TypeOK'
        BY <1>1, <1>4 DEF Collect, TypeOK, Counts
    <2>2. Observed'
        BY <1>1, <1>4, SeriesIsOne DEF Collect, TypeOK, Counts, Observed
    <2> QED BY <1>3, <2>1, <2>2 DEF IInv
<1>5. CASE Export
    <2>1. TypeOK'
        BY <1>1, <1>5 DEF Export, TypeOK, Counts
    <2>2. Observed'
        BY <1>1, <1>5, SeriesIsOne DEF Export, TypeOK, Counts, Observed
    <2> QED BY <1>3, <2>1, <2>2 DEF IInv
<1>6. CASE ExportFails \/ UNCHANGED vars
    <2>1. TypeOK'
        BY <1>1, <1>6 DEF ExportFails, TypeOK, Counts, vars
    <2>2. Observed'
        BY <1>1, <1>6 DEF ExportFails, Observed, vars
    <2> QED BY <1>3, <2>1, <2>2 DEF IInv
<1>7. CASE SetMeterProvider
    <2>1. TypeOK'
        BY <1>1, <1>7 DEF SetMeterProvider, TypeOK, Counts
    <2>2. Observed'
        BY <1>1, <1>7 DEF SetMeterProvider, Observed
    <2> QED BY <1>3, <2>1, <2>2 DEF IInv
<1> QED BY <1>4, <1>5, <1>6, <1>7

LEMMA ReadKeeps ==
    ASSUME IInv, NEW r \in Readers, Read(r)
    PROVE  IInv'
<1>1. TypeOK /\ NothingUncounted /\ Observed
    BY DEF IInv
<1>2. TypeOK'
    BY <1>1 DEF Read, TypeOK, Counts
<1>3. NothingUncounted'
    BY <1>1 DEF Read, TypeOK, Counts, NothingUncounted
<1>5. Unregistered'
    BY DEF IInv, Read, Unregistered
<1>4. Observed'
    <2>1. \A q \in Readers : read[q] <= read'[q] /\ read[q] \in Nat /\ atStart[q] \in Nat
        BY <1>1 DEF Read, TypeOK, Counts
    <2> QED BY <1>1, <2>1 DEF Read, TypeOK, Counts, Observed
<1> QED BY <1>2, <1>3, <1>4, <1>5 DEF IInv

\* A reader's callback that is registered starts from a total of zero, which
\* it had anyway.
LEMMA NewConsumerKeeps ==
    ASSUME IInv, NEW r \in Readers, NewConsumer(r)
    PROVE  IInv'
<1>1. TypeOK /\ NothingUncounted /\ Observed
    BY DEF IInv
<1>2. total' = total
    BY <1>1 DEF IInv, NewConsumer, Register, Unregistered, TypeOK, Counts
<1>3. TypeOK'
    BY <1>1, <1>2 DEF NewConsumer, Register, TypeOK, Counts
<1>4. NothingUncounted' /\ Observed' /\ Unregistered'
    BY <1>1, <1>2 DEF IInv, NewConsumer, Register, NothingUncounted, Observed, Unregistered
<1> QED BY <1>3, <1>4 DEF IInv

\* What holds of the counts at any time.
THEOREM Invariance == Spec => []IInv
<1>1. IInv /\ [Next]_vars => IInv'
    BY CallbackKeeps, CollectKeeps, ReadKeeps, NewConsumerKeeps DEF Next
<1> QED BY <1>1, InitHolds, PTL DEF Spec

\* The types.
THEOREM TypeCorrect == Spec => []TypeOK
<1>1. IInv => TypeOK
    BY DEF IInv
<1> QED BY <1>1, Invariance, PTL

\* A total and what its reader has counted since make up all it has read.
THEOREM Complete == Spec => []NothingUncounted
<1>1. IInv => NothingUncounted
    BY DEF IInv
<1> QED BY <1>1, Invariance, PTL

\* An export changes nothing or the counts to those observed.
LEMMA ExportedBy ==
    ASSUME IInv, [Next]_vars, NEW r \in Readers
    PROVE  \/ exported'[Series(r)] = exported[Series(r)]
           \/ /\ atStart[r] <= exported'[Series(r)] /\ exported'[Series(r)] <= read[r]
              /\ exported[Series(r)] <= exported'[Series(r)]
<1>1. CASE Export
    <2>1. CASE observed[Series(r)] > 0
        <3>1. exported'[Series(r)] = observed[Series(r)]
            BY <1>1, <2>1, SeriesIsOne DEF Export
        <3>2. total[r] <= read[r]
            BY DEF IInv, TypeOK, Counts, NothingUncounted
        <3>3. observed[Series(r)] <= total[r]
            BY DEF IInv, Observed
        <3>4. /\ observed[Series(r)] \in Nat /\ total[r] \in Nat /\ read[r] \in Nat
            BY SeriesIsOne DEF IInv, TypeOK, Counts
        <3>5. atStart[r] <= observed[Series(r)] /\ exported[Series(r)] <= observed[Series(r)]
            BY <1>1, <2>1 DEF Export, IInv, Observed
        <3> QED BY <3>1, <3>2, <3>3, <3>4, <3>5
    <2>2. CASE ~(observed[Series(r)] > 0)
        BY <1>1, <2>2, SeriesIsOne DEF Export
    <2> QED BY <2>1, <2>2
<1>2. CASE ~Export
    <2>1. exported' = exported
        BY <1>2 DEF Next, Read, NewConsumer, SetMeterProvider, Callback, Collect, ExportFails, vars
    <2> QED BY <2>1
<1> QED BY <1>1, <1>2

\* The count that becomes known of a reader is one it had during the collection.
THEOREM Current == Spec => ExportedIsCurrent
<1>1. IInv /\ [Next]_vars =>
          [\A r \in Readers : LET n == exported'[Series(r)]
                              IN  n = exported[Series(r)] \/ (atStart[r] <= n /\ n <= read[r])]_vars
    BY ExportedBy
<1> QED BY <1>1, Invariance, PTL DEF Spec, ExportedIsCurrent

\* And it never goes back.
THEOREM Monotone == Spec => ExportedOnlyGrows
<1>1. IInv /\ [Next]_vars => [\A s \in AllSeries : exported[s] <= exported'[s]]_vars
    <2> SUFFICES ASSUME IInv, [Next]_vars, NEW s \in AllSeries PROVE exported[s] <= exported'[s]
        OBVIOUS
    <2>1. PICK r \in Readers : s = Series(r)
        BY DEF AllSeries
    <2>2. exported[s] \in Nat
        BY DEF IInv, TypeOK
    <2> QED BY <2>1, <2>2, ExportedBy
<1> QED BY <1>1, Invariance, PTL DEF Spec, ExportedOnlyGrows

----------------------------------------------------------------------------
(* The safety half of EventuallyReported.                                  *)

\* A collection has observed the totals of all readers but those whose
\* callbacks are still to run.
CollectedTotals ==
    phase = "collecting" => \A r \in Readers \ todo : observed[Series(r)] = total[r]

LEMMA TotalsStayCollected == IInv /\ CollectedTotals /\ [Next]_vars => CollectedTotals'
<1> SUFFICES ASSUME IInv, CollectedTotals, [Next]_vars PROVE CollectedTotals'
    OBVIOUS
<1>1. TypeOK /\ Unregistered
    BY DEF IInv
<1>2. ASSUME NEW r \in Readers, Read(r) PROVE CollectedTotals'
    BY <1>2 DEF Read, CollectedTotals
<1>3. CASE SetMeterProvider \/ \E r \in Readers : NewConsumer(r)
    BY <1>3 DEF SetMeterProvider, NewConsumer, CollectedTotals
<1>4. ASSUME NEW r \in Readers, Callback(r), NEW q \in Readers \ todo'
      PROVE  observed'[Series(q)] = total'[q]
    <2>1. CASE q = r
        BY <1>1, <1>4, <2>1, SeriesIsOne DEF Callback, TypeOK, Counts
    <2>2. CASE q # r
        <3>1. observed'[Series(q)] = observed[Series(q)] /\ total'[q] = total[q]
            BY <1>1, <1>4, <2>2, SeriesIsOne, SeriesDiffer DEF Callback, TypeOK, Counts
        <3> QED BY <1>4, <2>2, <3>1 DEF Callback, CollectedTotals
    <2> QED BY <2>1, <2>2
<1>5. CASE Collect
    BY <1>1, <1>5, SeriesIsOne DEF Collect, Unregistered, CollectedTotals
<1>6. CASE Export \/ ExportFails
    BY <1>6 DEF Export, ExportFails, CollectedTotals
<1>7. CASE UNCHANGED vars
    BY <1>7 DEF vars, CollectedTotals
<1> QED BY <1>2, <1>3, <1>4, <1>5, <1>6, <1>7 DEF Next, CollectedTotals

\* What an export says of every reader is its total, so that the reader has
\* read no more than that and what Stats still holds.
ExportSaysAll ==
    Export => \A r \in Readers :
        /\ exported'[Series(r)] = total[r]
        /\ exported'[Series(r)] + snapshot[r] = read[r]

\* An export that succeeds makes up for those that have failed: whatever was
\* observed and thrown away before, all that has been read by the time the
\* callback of a reader runs is then known outside.
THEOREM ExportsAreComplete == Spec => [][ExportSaysAll]_vars
<1>1. Init => CollectedTotals
    BY DEF Init, CollectedTotals
<1>2. IInv /\ CollectedTotals /\ [Next]_vars => [ExportSaysAll]_vars
    <2> SUFFICES ASSUME IInv, CollectedTotals, Export, NEW r \in Readers
                 PROVE  exported'[Series(r)] = total[r] /\ total[r] + snapshot[r] = read[r]
        BY DEF ExportSaysAll
    <2>1. observed[Series(r)] = total[r]
        BY DEF Export, CollectedTotals
    <2>2. /\ exported[Series(r)] <= total[r] /\ exported[Series(r)] \in Nat
          /\ total[r] \in Nat /\ total[r] + snapshot[r] = read[r]
        BY SeriesIsOne DEF IInv, Observed, TypeOK, Counts, NothingUncounted
    <2> QED BY <2>1, <2>2, SeriesIsOne DEF Export
<1> QED BY <1>1, <1>2, TotalsStayCollected, Invariance, PTL DEF Spec

=============================================================================
