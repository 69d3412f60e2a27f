----------------------------- MODULE FaultProofs -----------------------------
(***************************************************************************)
(* Proofs about StreamingFaults and DeliveryGate, for every manifest the   *)
(* assumptions admit and episodes of any length.                           *)
(*                                                                         *)
(* The streaming session delivers what the batch operators make of the     *)
(* whole trace, its cache never lacks a source and never holds more than   *)
(* it needs, and nothing but the window and the slots of the manifest is   *)
(* touched.  Two facts carry that.  The batch operators are causal: the    *)
(* record of step i depends on the clean records up to i only, so a longer *)
(* trace leaves the earlier deliveries as they are.  And no delivery of a  *)
(* window asks for a source older than the registered maximum age, which   *)
(* exists because each temporal operator has a delivery where its age is   *)
(* largest.                                                                *)
(*                                                                         *)
(* The gate passes a delivery of the operators exactly when the episode    *)
(* exposes the fault, and whatever else it passes shows the same pixels,   *)
(* vision and proprioception.  That proof brings the four batch families   *)
(* to one form, Reading, which says of each slot and step whether the      *)
(* fault strikes it and what the delivered reading then is; turns every    *)
(* set of failure codes into the condition under which it is empty; and    *)
(* compares the two, operator by operator.                                 *)
(***************************************************************************)
EXTENDS StreamingFaults, DeliveryGate, FiniteSetTheorems, SequenceTheorems, TLAPS

-----------------------------------------------------------------------------
(* Numbers, sequences and the four families of operators.                   *)

\* The greater of two numbers.
LEMMA MaxOfTwo ==
  ASSUME NEW a \in Int, NEW b \in Int
  PROVE  Max({a, b}) = IF a >= b THEN a ELSE b
<1>1. \A x : (x \in {a, b} /\ \A y \in {a, b} : x >= y) <=> x = (IF a >= b THEN a ELSE b)
  OBVIOUS
<1> QED BY <1>1 DEF Max

\* The lesser of two numbers.
LEMMA MinOfTwo ==
  ASSUME NEW a \in Int, NEW b \in Int
  PROVE  Min({a, b}) = IF a =< b THEN a ELSE b
<1>1. \A x : (x \in {a, b} /\ \A y \in {a, b} : x =< y) <=> x = (IF a =< b THEN a ELSE b)
  OBVIOUS
<1> QED BY <1>1 DEF Min

\* A function on 1 .. n is a sequence of length n, and appending extends it.
LEMMA Extended ==
  ASSUME NEW n \in Nat, NEW f, f = [k \in 1 .. n |-> f[k]], NEW x
  PROVE  /\ Len(f) = n
         /\ Append(f, x) = [k \in 1 .. n + 1 |-> IF k =< n THEN f[k] ELSE x]
<1> DEFINE S == {f[k] : k \in 1 .. n} \cup {x}
<1>1. f \in [1 .. n -> S]
  OBVIOUS
<1> HIDE DEF S
<1>2. f \in Seq(S) /\ x \in S
  BY <1>1 DEF S
<1>3. Len(f) = n
  BY <1>1, <1>2, LenProperties
<1>4. /\ Append(f, x) \in Seq(S) /\ Len(Append(f, x)) = n + 1
      /\ \A k \in 1 .. n : Append(f, x)[k] = f[k]
      /\ Append(f, x)[n + 1] = x
  BY <1>2, <1>3, AppendProperties
<1>5. Append(f, x) = [k \in 1 .. n + 1 |-> Append(f, x)[k]]
  BY <1>4, LenProperties
<1> QED BY <1>3, <1>4, <1>5

\* Availability faults look at the current record alone.
LEMMA AvailabilityStreams ==
  ASSUME NEW c, NEW m, NEW i
  PROVE  ApplyAvailability(c[i + 1], m, i) = BatchAvailability(c, m, i)
BY Zenon DEF ApplyAvailability, BatchAvailability

\* So do context faults.
LEMMA ContextStreams ==
  ASSUME NEW c, NEW m, NEW i
  PROVE  ApplyContext(c[i + 1], m, i) = BatchContext(c, m, i)
BY Zenon DEF ApplyContext, BatchContext, Misrouted

\* Two traces with the same record at i have the same delivery there.
LEMMA AvailabilityCausal ==
  ASSUME NEW c, NEW d, NEW m, NEW i, c[i + 1] = d[i + 1]
  PROVE  BatchAvailability(c, m, i) = BatchAvailability(d, m, i)
BY AvailabilityStreams

\* The same for context faults.
LEMMA ContextCausal ==
  ASSUME NEW c, NEW d, NEW m, NEW i, c[i + 1] = d[i + 1]
  PROVE  BatchContext(c, m, i) = BatchContext(d, m, i)
BY ContextStreams

\* With the history of the trace so far, a fidelity fault streams its batch.
LEMMA FidelityStreams ==
  ASSUME NEW c, NEW m, NEW i, NEW h,
         m.operator = "F6" => \A s \in Slots \cap Range(m.slots) : h[s] = History(c, s, i)
  PROVE  ApplyFidelity(c[i + 1], m, i, h) = BatchFidelity(c, m, i)
<1> DEFINE r == c[i + 1]
           S == {s \in Range(m.slots) :
                   m.operator \in {"F5", "F7"} => InContact(r.tactile[s].phase)}
           f(s) == MarkedReading(m, r.tactile[s],
                     IF m.operator = "F6" THEN Imprinted(r.tactile[s].payload, h[s])
                     ELSE Transformed(m, s, r.tactile[s].payload, i))
           g(s) == MarkedReading(m, r.tactile[s],
                     IF m.operator = "F6"
                     THEN Imprinted(r.tactile[s].payload, History(c, s, i))
                     ELSE Transformed(m, s, r.tactile[s].payload, i))
           F == [s \in Slots |-> IF s \in S THEN f(s) ELSE r.tactile[s]]
           G == [s \in Slots |-> IF s \in S THEN g(s) ELSE r.tactile[s]]
<1>1. F = G
  <2>1. ASSUME NEW s \in Slots, s \in S PROVE f(s) = g(s)
    <3>1. s \in Range(m.slots)
      BY <2>1
    <3> QED BY <3>1
  <2> HIDE DEF f, g, S
  <2> QED BY <2>1
<1>2. ApplyFidelity(r, m, i, h)
        = IF ~Active(m, i) THEN r ELSE [r EXCEPT !.tactile = F]
  BY Zenon DEF ApplyFidelity, ReplaceSlots
<1>3. BatchFidelity(c, m, i)
        = IF ~Active(m, i) THEN r ELSE [r EXCEPT !.tactile = G]
  BY Zenon DEF BatchFidelity, ReplaceSlots
<1> QED BY <1>1, <1>2, <1>3, Zenon

\* A fidelity fault depends on the frames up to the delivered one.
LEMMA FidelityCausal ==
  ASSUME NEW c, NEW d, NEW m, NEW i \in Nat, \A j \in 1 .. i + 1 : c[j] = d[j]
  PROVE  BatchFidelity(c, m, i) = BatchFidelity(d, m, i)
<1> DEFINE h == [s \in Slots |-> History(c, s, i)]
<1>1. \A s : History(c, s, i) = History(d, s, i)
  BY DEF History
<1>2. \A s \in Slots : h[s] = History(c, s, i) /\ h[s] = History(d, s, i)
  BY <1>1
<1>3. c[i + 1] = d[i + 1]
  OBVIOUS
<1> HIDE DEF h
<1>4. BatchFidelity(c, m, i) = ApplyFidelity(c[i + 1], m, i, h)
  BY <1>2, FidelityStreams
<1>5. BatchFidelity(d, m, i) = ApplyFidelity(d[i + 1], m, i, h)
  BY <1>2, FidelityStreams
<1> QED BY <1>3, <1>4, <1>5

\* With the sources it asks for, a temporal fault streams its batch.
LEMMA TemporalStreams ==
  ASSUME NEW c, NEW m, NEW i, NEW kept,
         \A s \in RoutedSlots(m, i) :
           kept[SourceIndex(m, s, i)] = c[SourceIndex(m, s, i) + 1]
  PROVE  ApplyTemporal(c[i + 1], m, i, kept) = BatchTemporal(c, m, i)
<1> DEFINE r == c[i + 1]
           S == RoutedSlots(m, i)
           T == {s \in Range(m.slots) : m.operator = "T2" => SourceIndex(m, s, i) # i}
           f(s) == RoutedReading(m, kept[SourceIndex(m, s, i)].tactile[s], r.tactile[s])
           g(s) == RoutedReading(m, c[SourceIndex(m, s, i) + 1].tactile[s], r.tactile[s])
           F == [s \in Slots |-> IF s \in S THEN f(s) ELSE r.tactile[s]]
           G == [s \in Slots |-> IF s \in T THEN g(s) ELSE r.tactile[s]]
<1>1. ApplyTemporal(r, m, i, kept)
        = IF ~Active(m, i) THEN r ELSE [r EXCEPT !.tactile = F]
  BY Zenon DEF ApplyTemporal, ReplaceSlots
<1>2. BatchTemporal(c, m, i)
        = IF ~Active(m, i) THEN r ELSE [r EXCEPT !.tactile = G]
  BY Zenon DEF BatchTemporal, ReplaceSlots
<1>3. CASE Active(m, i)
  <2>1. S = T
    BY <1>3 DEF RoutedSlots
  <2>2. \A s \in S : f(s) = g(s)
    OBVIOUS
  <2> HIDE DEF S, T, f, g
  <2>3. F = G
    BY <2>1, <2>2
  <2> QED BY <1>1, <1>2, <1>3, <2>3, Zenon
<1>4. CASE ~Active(m, i)
  BY <1>1, <1>2, <1>4
<1> QED BY <1>3, <1>4

\* A temporal fault asks for a record of the past.
LEMMA SourceIsPast ==
  ASSUME NEW m \in FaultManifest, m.operator \in Temporal,
         NEW s, NEW i \in Window(m)
  PROVE  SourceIndex(m, s, i) \in 0 .. i
<1>1. /\ m.level \in 1 .. 5 /\ m.start \in Nat /\ m.stop \in Nat /\ m.start < m.stop
      /\ m.operator = "T1" => m.start >= Lags.T1[m.level]
  BY DEF FaultManifest, Registered, ParametersOK
<1>2. i \in Int /\ m.start =< i /\ i < m.stop
  BY <1>1 DEF Window
<1>3. CASE m.operator = "T1"
  <2>1. Lags.T1[m.level] \in Nat
    BY <1>1 DEF Lags
  <2> QED BY <1>1, <1>2, <1>3, <2>1 DEF SourceIndex
<1>4. CASE m.operator = "T2"
  <2>1. HeldIndex(m) \in 0 .. m.start
    BY <1>1, MaxOfTwo DEF HeldIndex
  <2>2. SourceIndex(m, s, i) \in {HeldIndex(m), i}
    BY <1>4 DEF SourceIndex
  <2> QED BY <1>1, <1>2, <2>1, <2>2
<1>5. CASE m.operator = "T3"
  <2>1. Lags.T3[m.level] \in Nat
    BY <1>1 DEF Lags
  <2>2. Max({0, i - Lags.T3[m.level]}) \in 0 .. i
    BY <1>1, <1>2, <2>1, MaxOfTwo
  <2>3. SourceIndex(m, s, i) \in {Max({0, i - Lags.T3[m.level]}), i}
    BY <1>5 DEF SourceIndex
  <2> QED BY <1>1, <1>2, <2>2, <2>3
<1> QED BY <1>3, <1>4, <1>5 DEF Temporal

\* The slots of a manifest, and the delayed one among them.
LEMMA SlotsListed ==
  ASSUME NEW m \in FaultManifest
  PROVE  DelayedSlot(m) \in Range(m.slots) /\ Range(m.slots) \subseteq Slots
<1>1. m.slots \in Seq(Slots) /\ m.slots # <<>>
  BY DEF FaultManifest, Registered
<1> QED BY <1>1 DEF DelayedSlot, Range

\* What the registered ages of a temporal manifest are the ages of.
Ages(m) == {i - SourceIndex(m, s, i) : i \in Window(m), s \in Range(m.slots)}

\* Some delivery of the window asks for the oldest source.
LEMMA OldestExists ==
  ASSUME NEW m \in FaultManifest, m.operator \in Temporal
  PROVE  \E x \in Ages(m) : \A y \in Ages(m) : x >= y
<1>1. /\ m.level \in 1 .. 5 /\ m.start \in Nat /\ m.stop \in Nat /\ m.start < m.stop
  BY DEF FaultManifest, Registered
<1>2. Window(m) = m.start .. m.stop - 1
  BY DEF Window
<1>3. \A i \in Window(m), s \in Range(m.slots) : i - SourceIndex(m, s, i) \in Ages(m)
  BY DEF Ages
<1>4. \A y \in Ages(m) : \E i \in Window(m), s \in Range(m.slots) :
        y = i - SourceIndex(m, s, i)
  BY DEF Ages
<1>5. CASE m.operator = "T1"
  <2>1. Lags.T1[m.level] \in Nat
    BY <1>1 DEF Lags
  <2>2. \A i \in Window(m) : \A s : i - SourceIndex(m, s, i) = Lags.T1[m.level]
    BY <1>1, <1>2, <1>5, <2>1 DEF SourceIndex
  <2>3. m.start \in Window(m) /\ DelayedSlot(m) \in Range(m.slots)
    BY <1>1, <1>2, SlotsListed
  <2> QED BY <1>3, <1>4, <2>1, <2>2, <2>3
<1>6. CASE m.operator = "T2"
  <2> DEFINE hold == HoldDuration(m)
             held == HeldIndex(m)
             last == m.start + hold - 1
  <2>1. held \in 0 .. m.start
    BY <1>1, MaxOfTwo DEF HeldIndex
  <2>2. hold \in 1 .. m.stop - m.start
    <3>1. Lags.T2[m.level] \in Nat \ {0}
      BY <1>1 DEF Lags
    <3> QED BY <1>1, <3>1, MinOfTwo DEF HoldDuration, WindowLength
  <2> HIDE DEF hold, held
  <2>3. \A i \in Window(m) : \A s : i - SourceIndex(m, s, i)
          = IF i < m.start + hold THEN i - held ELSE 0
    BY <1>1, <1>2, <1>6, <2>1, <2>2 DEF SourceIndex, hold, held
  <2>4. last \in Window(m) /\ DelayedSlot(m) \in Range(m.slots)
    BY <1>1, <1>2, <2>2, SlotsListed
  <2>5. last - SourceIndex(m, DelayedSlot(m), last) = last - held
    BY <1>1, <2>2, <2>3, <2>4
  <2>6. \A i \in Window(m) : \A s : last - held >= i - SourceIndex(m, s, i)
    BY <1>1, <1>2, <2>1, <2>2, <2>3
  <2> QED BY <1>3, <1>4, <2>4, <2>5, <2>6
<1>7. CASE m.operator = "T3"
  <2> DEFINE lag == Lags.T3[m.level]
             last == m.stop - 1
             late(i) == IF 0 >= i - lag THEN 0 ELSE i - lag
  <2>1. lag \in Nat
    BY <1>1 DEF Lags
  <2>2. \A i \in Window(m) : Max({0, i - lag}) = late(i)
    BY <1>1, <1>2, <2>1, MaxOfTwo
  <2>3. \A i \in Window(m) : \A s : SourceIndex(m, s, i)
          = IF s = DelayedSlot(m) THEN late(i) ELSE i
    BY <1>7, <2>2 DEF SourceIndex
  <2> HIDE DEF lag
  <2>4. last \in Window(m) /\ DelayedSlot(m) \in Range(m.slots)
    BY <1>1, <1>2, SlotsListed
  <2>5. last - SourceIndex(m, DelayedSlot(m), last) = last - late(last)
    BY <2>3, <2>4
  <2>6. \A i \in Window(m) : \A s : last - late(last) >= i - SourceIndex(m, s, i)
    BY <1>1, <1>2, <2>1, <2>3
  <2> QED BY <1>3, <1>4, <2>4, <2>5, <2>6
<1> QED BY <1>5, <1>6, <1>7 DEF Temporal

\* No delivery of the window asks for a source older than the registered age.
LEMMA AgeRegistered ==
  ASSUME NEW m \in FaultManifest, m.operator \in Temporal
  PROVE  /\ MaximumSourceAge(m) \in Nat
         /\ \A i \in Window(m), s \in Range(m.slots) :
              SourceIndex(m, s, i) \in 0 .. i
              /\ SourceIndex(m, s, i) >= i - MaximumSourceAge(m)
<1>1. \A i \in Window(m), s \in Range(m.slots) : SourceIndex(m, s, i) \in 0 .. i
  BY SourceIsPast
<1>2. Window(m) \subseteq Nat
  BY DEF FaultManifest, Window
<1>3. Ages(m) \subseteq Nat
  BY <1>1, <1>2 DEF Ages
<1>4. Max(Ages(m)) \in Ages(m) /\ \A y \in Ages(m) : Max(Ages(m)) >= y
  BY OldestExists DEF Max
<1>5. MaximumSourceAge(m) = Max(Ages(m))
  BY DEF MaximumSourceAge, Ages
<1>6. \A i \in Window(m), s \in Range(m.slots) :
        MaximumSourceAge(m) >= i - SourceIndex(m, s, i)
  BY <1>4, <1>5 DEF Ages
<1> QED BY <1>1, <1>2, <1>3, <1>4, <1>5, <1>6

\* Each operator belongs to one family.
LEMMA Families ==
  ASSUME NEW c, NEW m, NEW i
  PROVE  /\ m.operator \in Availability => BatchRecord(c, m, i) = BatchAvailability(c, m, i)
         /\ m.operator \in Fidelity => BatchRecord(c, m, i) = BatchFidelity(c, m, i)
         /\ m.operator \in Temporal => BatchRecord(c, m, i) = BatchTemporal(c, m, i)
         /\ m.operator \in Context => BatchRecord(c, m, i) = BatchContext(c, m, i)
BY DEF BatchRecord, Availability, Fidelity, Temporal, Context

\* A batch operator looks at no record after the one it delivers.
LEMMA Causal ==
  ASSUME NEW c, NEW d, NEW m \in FaultManifest, NEW i \in Nat,
         \A j \in 1 .. i + 1 : c[j] = d[j]
  PROVE  BatchRecord(c, m, i) = BatchRecord(d, m, i)
<1>1. c[i + 1] = d[i + 1]
  OBVIOUS
<1>2. CASE m.operator \in Temporal
  <2> DEFINE kept == [j \in 0 .. i |-> c[j + 1]]
  <2>1. \A s \in RoutedSlots(m, i) : SourceIndex(m, s, i) \in 0 .. i
    BY <1>2, AgeRegistered DEF RoutedSlots, Active
  <2>2. \A j \in 0 .. i : kept[j] = c[j + 1] /\ kept[j] = d[j + 1]
    OBVIOUS
  <2> HIDE DEF kept
  <2>3. BatchTemporal(c, m, i) = ApplyTemporal(c[i + 1], m, i, kept)
    BY <2>1, <2>2, TemporalStreams
  <2>4. BatchTemporal(d, m, i) = ApplyTemporal(d[i + 1], m, i, kept)
    BY <2>1, <2>2, TemporalStreams
  <2>5. BatchTemporal(c, m, i) = BatchTemporal(d, m, i)
    BY <1>1, <2>3, <2>4
  <2> QED BY <1>2, <2>5, Families
<1>3. CASE m.operator \in Fidelity
  BY <1>3, FidelityCausal, Families
<1>4. CASE m.operator \in Availability
  BY <1>1, <1>4, AvailabilityCausal, Families
<1>5. CASE m.operator \in Context
  BY <1>1, <1>5, ContextCausal, Families
<1> QED BY <1>2, <1>3, <1>4, <1>5, Zenon DEF FaultManifest, OperatorIds

-----------------------------------------------------------------------------
\* The clean records an episode may bring.
Records == {CleanRecord(i, phase) : i \in Nat, phase \in Phases}

Typed == manifest \in FaultManifest /\ clean \in Seq(Records)

\* The cache holds the clean records no older than the registered age.
Kept ==
  IF manifest.operator \in Temporal
  THEN /\ DOMAIN sources = {j \in 0 .. Len(clean) - 1 :
                              j >= Len(clean) - 1 - RequiredAge(manifest)}
       /\ \A j \in DOMAIN sources : sources[j] = clean[j + 1]
  ELSE DOMAIN sources = {}

\* The histories of F6 hold every frame so far.
Remembered ==
  manifest.operator = "F6" =>
    \A s \in Slots \cap Range(manifest.slots) :
      histories[s] = History(clean, s, Len(clean) - 1)

IInv == Typed /\ StreamingMatchesBatch /\ Kept /\ Remembered

\* The session starts inside the invariant.
LEMMA InitInv == Init => IInv
<1> SUFFICES ASSUME Init PROVE IInv
  OBVIOUS
<1>1. Typed /\ Len(clean) = 0
  BY StreamingAssumption DEF Init, Typed
<1>2. StreamingMatchesBatch
  BY <1>1 DEF Init, StreamingMatchesBatch, Batch
<1>3. Kept
  BY <1>1 DEF Init, Kept
<1>4. Remembered
  BY <1>1 DEF Init, Remembered, History
<1> QED BY <1>1, <1>2, <1>3, <1>4 DEF IInv

-----------------------------------------------------------------------------
\* The clean trace grows by one record and keeps the earlier ones.
LEMMA Grown ==
  ASSUME Typed, NEW record \in Records, clean' = Append(clean, record)
  PROVE  /\ clean' \in Seq(Records) /\ Len(clean) \in Nat
         /\ Len(clean') = Len(clean) + 1
         /\ clean'[Len(clean) + 1] = record
         /\ \A j \in 1 .. Len(clean) : clean'[j] = clean[j]
BY AppendProperties, LenProperties DEF Typed

\* As many records were delivered as the batch of the clean trace has.
LEMMA Processed ==
  ASSUME Typed, StreamingMatchesBatch
  PROVE  /\ ProcessedCount = Len(clean) /\ Len(clean) \in Nat
         /\ delivered = [k \in 1 .. Len(clean) |-> BatchRecord(clean, manifest, k - 1)]
         /\ delivered = [k \in 1 .. Len(clean) |-> delivered[k]]
<1>1. Len(clean) \in Nat
  BY LenProperties DEF Typed
<1>2. delivered = [k \in 1 .. Len(clean) |-> BatchRecord(clean, manifest, k - 1)]
  BY DEF StreamingMatchesBatch, Batch
<1>3. delivered = [k \in 1 .. Len(clean) |-> delivered[k]]
  BY <1>2
<1>4. Len(delivered) = Len(clean)
  BY <1>1, <1>3, Extended
<1> QED BY <1>1, <1>2, <1>3, <1>4 DEF ProcessedCount

\* The batch of a grown trace is the batch so far and the new record's.
LEMMA BatchGrows ==
  ASSUME Typed, StreamingMatchesBatch,
         NEW record \in Records, clean' = Append(clean, record),
         delivered' = Append(delivered, BatchRecord(clean', manifest, Len(clean))),
         manifest' = manifest
  PROVE  StreamingMatchesBatch'
<1> DEFINE n == Len(clean)
<1>1. /\ n \in Nat /\ Len(clean') = n + 1
      /\ \A j \in 1 .. n : clean'[j] = clean[j]
  BY Grown
<1>2. \A k \in 1 .. n : delivered[k] = BatchRecord(clean', manifest, k - 1)
  <2> TAKE k \in 1 .. n
  <2>1. delivered[k] = BatchRecord(clean, manifest, k - 1)
    BY Processed
  <2>2. k - 1 \in Nat /\ \A j \in 1 .. (k - 1) + 1 : clean[j] = clean'[j]
    BY <1>1
  <2>3. BatchRecord(clean, manifest, k - 1) = BatchRecord(clean', manifest, k - 1)
    BY <2>2, Causal DEF Typed
  <2> QED BY <2>1, <2>3
<1>3. delivered' = [k \in 1 .. n + 1 |->
        IF k =< n THEN delivered[k] ELSE BatchRecord(clean', manifest, n)]
  BY <1>1, Processed, Extended
<1>4. \A k \in 1 .. n + 1 :
        (IF k =< n THEN delivered[k] ELSE BatchRecord(clean', manifest, n))
          = BatchRecord(clean', manifest, k - 1)
  <2> TAKE k \in 1 .. n + 1
  <2>1. CASE k =< n
    BY <1>1, <1>2, <2>1
  <2>2. CASE k = n + 1
    <3>1. k - 1 = n /\ ~(k =< n)
      BY <1>1, <2>2
    <3> QED BY <3>1
  <2> QED BY <1>1, <2>1, <2>2
<1>5. delivered' = [k \in 1 .. n + 1 |-> BatchRecord(clean', manifest, k - 1)]
  BY <1>3, <1>4
<1> QED BY <1>1, <1>5 DEF StreamingMatchesBatch, Batch

-----------------------------------------------------------------------------
\* A temporal delivery finds its sources and leaves the cache trimmed.
LEMMA TemporalInv ==
  ASSUME IInv, NEW record \in Records, DeliverTemporal(record)
  PROVE  IInv'
<1> DEFINE n == Len(clean)
           m == manifest
           age == RequiredAge(m)
           kept == Inserted(record, n)
<1>1. /\ Typed /\ m \in FaultManifest /\ m.operator \in Temporal
      /\ ProcessedCount = n /\ n \in Nat
      /\ clean' = Append(clean, record) /\ manifest' = m
  BY Processed DEF IInv, Typed, DeliverTemporal, Deliver
<1>2. /\ clean' \in Seq(Records) /\ Len(clean') = n + 1
      /\ clean'[n + 1] = record /\ \A j \in 1 .. n : clean'[j] = clean[j]
  BY <1>1, Grown
<1>3. /\ age \in Nat
      /\ \A i \in Window(m), s \in Range(m.slots) :
           SourceIndex(m, s, i) \in 0 .. i /\ SourceIndex(m, s, i) >= i - age
  BY <1>1, AgeRegistered DEF RequiredAge
<1> HIDE DEF age
<1>4. DOMAIN sources = {j \in 0 .. n - 1 : j >= n - 1 - age}
      /\ \A j \in DOMAIN sources : sources[j] = clean[j + 1]
  BY <1>1 DEF IInv, Kept, age
<1>5. DOMAIN kept = DOMAIN sources \cup {n}
      /\ \A j \in DOMAIN kept : kept[j] = IF j = n THEN record ELSE sources[j]
  BY <1>1 DEF Inserted
<1> HIDE DEF kept
<1>6. \A j \in 0 .. n : j >= n - age => j \in DOMAIN kept
  BY <1>1, <1>3, <1>4, <1>5
<1>7. \A j \in DOMAIN kept : kept[j] = clean'[j + 1]
  <2> TAKE j \in DOMAIN kept
  <2>1. CASE j = n
    BY <1>2, <1>5, <2>1
  <2>2. CASE j # n
    <3>1. j \in DOMAIN sources /\ j + 1 \in 1 .. n
      BY <1>1, <1>4, <1>5, <2>2
    <3> QED BY <1>2, <1>4, <1>5, <2>2, <3>1
  <2> QED BY <2>1, <2>2
<1>8. \A s \in RoutedSlots(m, n) : SourceIndex(m, s, n) \in DOMAIN kept
  BY <1>3, <1>6 DEF RoutedSlots, Active
<1>9. /\ delivered' = Append(delivered, ApplyTemporal(record, m, n, kept))
      /\ sources' = Trimmed(kept, n)
  BY <1>1, <1>8 DEF DeliverTemporal, Deliver, SourcesKept, kept
<1>10. ApplyTemporal(record, m, n, kept) = BatchTemporal(clean', m, n)
  BY <1>2, <1>7, <1>8, TemporalStreams
<1>11. StreamingMatchesBatch'
  <2>1. delivered' = Append(delivered, BatchRecord(clean', m, n))
    BY <1>1, <1>9, <1>10, Families
  <2> QED BY <1>1, <2>1, BatchGrows DEF IInv
<1>12. Kept'
  <2>1. sources' = [j \in {q \in DOMAIN kept : q >= n - age} |-> kept[j]]
    BY <1>9 DEF Trimmed, age
  <2>2. {q \in DOMAIN kept : q >= n - age} = {j \in 0 .. n : j >= n - age}
    BY <1>1, <1>3, <1>4, <1>5, <1>6
  <2>3. /\ DOMAIN sources' = {j \in 0 .. n : j >= n - age}
        /\ \A j \in DOMAIN sources' : j \in DOMAIN kept /\ sources'[j] = kept[j]
    BY <2>1, <2>2
  <2>4. /\ Len(clean') - 1 = n /\ RequiredAge(manifest') = age
        /\ manifest'.operator \in Temporal
    BY <1>1, <1>2 DEF age
  <2> QED BY <1>7, <2>3, <2>4 DEF Kept
<1>13. Remembered'
  BY <1>1 DEF Remembered, Temporal
<1> QED BY <1>1, <1>2, <1>11, <1>12, <1>13 DEF IInv, Typed

\* Without a temporal fault the cache stays empty.
LEMMA EmptyStays ==
  ASSUME Kept, manifest.operator \notin Temporal, manifest' = manifest,
         NEW i, sources' = Trimmed(sources, i)
  PROVE  Kept'
BY DEF Kept, Trimmed

\* A fidelity delivery has the history the batch operator builds.
LEMMA FidelityInv ==
  ASSUME IInv, NEW record \in Records, DeliverFidelity(record)
  PROVE  IInv'
<1> DEFINE n == Len(clean)
           m == manifest
           h == Accumulated(record, n)
<1>1. /\ Typed /\ m \in FaultManifest /\ m.operator \in Fidelity
      /\ ProcessedCount = n /\ n \in Nat
      /\ clean' = Append(clean, record) /\ manifest' = m
  BY Processed DEF IInv, Typed, DeliverFidelity, Deliver
<1>2. /\ clean' \in Seq(Records) /\ Len(clean') = n + 1
      /\ clean'[n + 1] = record /\ \A j \in 1 .. n : clean'[j] = clean[j]
  BY <1>1, Grown
<1>3. /\ delivered' = Append(delivered, ApplyFidelity(record, m, n, h))
      /\ sources' = Trimmed(sources, n) /\ histories' = h
  BY <1>1 DEF DeliverFidelity, Deliver
<1>4. m.operator = "F6" =>
        \A s \in Slots \cap Range(m.slots) : h[s] = History(clean', s, n)
  <2> SUFFICES ASSUME m.operator = "F6", NEW s \in Slots \cap Range(m.slots)
               PROVE  h[s] = History(clean', s, n)
    OBVIOUS
  <2> DEFINE x == record.tactile[s].payload
             past == histories[s]
  <2>1. h[s] = Append(past, x)
    BY DEF Accumulated
  <2>2. past = [k \in 1 .. n |-> clean[k].tactile[s].payload]
    <3>1. past = History(clean, s, n - 1)
      BY DEF IInv, Remembered
    <3>2. (n - 1) + 1 = n
      BY <1>1
    <3> QED BY <3>1, <3>2 DEF History
  <2>3. past = [k \in 1 .. n |-> past[k]]
    BY <2>2
  <2>4. \A k \in 1 .. n : past[k] = clean'[k].tactile[s].payload
    BY <1>2, <2>2
  <2> HIDE DEF past
  <2>5. Append(past, x) = [k \in 1 .. n + 1 |-> IF k =< n THEN past[k] ELSE x]
    BY <1>1, <2>3, Extended
  <2>6. \A k \in 1 .. n + 1 : (IF k =< n THEN past[k] ELSE x)
                                = clean'[k].tactile[s].payload
    <3> TAKE k \in 1 .. n + 1
    <3>1. CASE k =< n
      BY <1>1, <2>4, <3>1
    <3>2. CASE k = n + 1
      BY <1>1, <1>2, <3>2
    <3> QED BY <1>1, <3>1, <3>2
  <2>7. Append(past, x) = [k \in 1 .. n + 1 |-> clean'[k].tactile[s].payload]
    BY <2>5, <2>6
  <2> QED BY <2>1, <2>7 DEF History
<1> HIDE DEF h
<1>5. ApplyFidelity(record, m, n, h) = BatchFidelity(clean', m, n)
  BY <1>2, <1>4, FidelityStreams
<1>6. StreamingMatchesBatch'
  <2>1. delivered' = Append(delivered, BatchRecord(clean', m, n))
    BY <1>1, <1>3, <1>5, Families
  <2> QED BY <1>1, <2>1, BatchGrows DEF IInv
<1>7. Kept'
  BY <1>1, <1>3, EmptyStays DEF IInv, Fidelity, Temporal
<1>8. Remembered'
  <2>1. Len(clean') - 1 = n
    BY <1>1, <1>2
  <2> QED BY <1>1, <1>3, <1>4, <2>1 DEF Remembered
<1> QED BY <1>1, <1>2, <1>6, <1>7, <1>8 DEF IInv, Typed

\* The two stateless families deliver what their batch operators make of the
\* record.
LEMMA StatelessInv ==
  ASSUME IInv, NEW record \in Records,
         DeliverAvailability(record) \/ DeliverContext(record)
  PROVE  IInv'
<1> DEFINE n == Len(clean)
           m == manifest
<1>1. /\ Typed /\ m \in FaultManifest /\ m.operator \in Availability \cup Context
      /\ ProcessedCount = n /\ n \in Nat
      /\ clean' = Append(clean, record) /\ manifest' = m
      /\ sources' = Trimmed(sources, n)
  BY Processed DEF IInv, Typed, DeliverAvailability, DeliverContext, Deliver
<1>2. /\ clean' \in Seq(Records) /\ clean'[n + 1] = record
  BY <1>1, Grown
<1>3. delivered' = Append(delivered, BatchRecord(clean', m, n))
  <2>1. CASE DeliverAvailability(record)
    <3>1. /\ m.operator \in Availability
          /\ delivered' = Append(delivered, ApplyAvailability(record, m, n))
      BY <1>1, <2>1 DEF DeliverAvailability, Deliver
    <3>2. ApplyAvailability(record, m, n) = BatchAvailability(clean', m, n)
      BY <1>2, AvailabilityStreams
    <3>3. BatchRecord(clean', m, n) = BatchAvailability(clean', m, n)
      BY <3>1, Families
    <3> QED BY <3>1, <3>2, <3>3
  <2>2. CASE DeliverContext(record)
    <3>1. /\ m.operator \in Context
          /\ delivered' = Append(delivered, ApplyContext(record, m, n))
      BY <1>1, <2>2 DEF DeliverContext, Deliver
    <3>2. ApplyContext(record, m, n) = BatchContext(clean', m, n)
      BY <1>2, ContextStreams
    <3>3. BatchRecord(clean', m, n) = BatchContext(clean', m, n)
      BY <3>1, Families
    <3> QED BY <3>1, <3>2, <3>3
  <2> QED BY <2>1, <2>2
<1>4. StreamingMatchesBatch'
  BY <1>1, <1>3, BatchGrows DEF IInv
<1>5. Kept'
  BY <1>1, EmptyStays DEF IInv, Availability, Context, Temporal
<1>6. Remembered'
  BY <1>1 DEF Remembered, Availability, Context
<1> QED BY <1>1, <1>2, <1>4, <1>5, <1>6 DEF IInv, Typed

\* Every step keeps the invariant.
LEMMA NextInv == IInv /\ [Next]_vars => IInv'
<1> SUFFICES ASSUME IInv, [Next]_vars PROVE IInv'
  OBVIOUS
<1>1. CASE Next
  <2>1. PICK phase \in Phases :
          LET record == CleanRecord(ProcessedCount, phase)
          IN \/ DeliverTemporal(record)     \/ DeliverFidelity(record)
             \/ DeliverAvailability(record) \/ DeliverContext(record)
    BY <1>1 DEF Next
  <2>2. CleanRecord(ProcessedCount, phase) \in Records
    BY Processed DEF IInv, Records
  <2> QED BY <2>1, <2>2, TemporalInv, FidelityInv, StatelessInv
<1>2. CASE UNCHANGED vars
  BY <1>2 DEF vars, IInv, Typed, StreamingMatchesBatch, Kept, Remembered
<1> QED BY <1>1, <1>2

-----------------------------------------------------------------------------
\* The inductive invariant holds in every reachable state.
THEOREM Invariance == Spec => []IInv
BY InitInv, NextInv, PTL DEF Spec

\* Record by record, with the trimmed cache, every operator delivers what its
\* batch version makes of the whole trace: no source it asks for is ever gone
\* (streaming/session.py, _lookup_source and _trim_source_cache).
THEOREM StreamsTheBatch == Spec => []StreamingMatchesBatch
<1>1. IInv => StreamingMatchesBatch
  BY DEF IInv
<1> QED BY <1>1, Invariance, PTL

\* The cache never holds more than the oldest registered source and what came
\* after it, however long the episode.
THEOREM CacheStaysBounded == Spec => []CacheBounded
<1>1. IInv => CacheBounded
  <2> SUFFICES ASSUME IInv PROVE CacheBounded
    OBVIOUS
  <2> DEFINE n == Len(clean)
             age == MaximumSourceAge(manifest)
  <2>1. n \in Nat /\ manifest \in FaultManifest
    BY LenProperties DEF IInv, Typed
  <2>2. CASE manifest.operator \in Temporal
    <3>1. age \in Nat
      BY <2>1, <2>2, AgeRegistered
    <3>2. DOMAIN sources \subseteq (n - 1 - age) .. (n - 1)
      BY <2>1, <2>2, <3>1 DEF IInv, Kept, RequiredAge
    <3> HIDE DEF n, age
    <3>3. Cardinality((n - 1 - age) .. (n - 1)) = age + 1
      BY <2>1, <3>1, FS_Interval
    <3>4. Cardinality(DOMAIN sources) =< age + 1
      BY <2>1, <3>1, <3>2, <3>3, FS_Interval, FS_Subset
    <3> QED BY <3>4 DEF CacheBounded, age
  <2>3. CASE manifest.operator \notin Temporal
    <3>1. Cardinality(DOMAIN sources) = 0
      BY <2>3, FS_EmptySet DEF IInv, Kept
    <3>2. age = 0
      BY <2>3 DEF MaximumSourceAge
    <3> QED BY <3>1, <3>2 DEF CacheBounded
  <2> QED BY <2>2, <2>3
<1> QED BY <1>1, Invariance, PTL

-----------------------------------------------------------------------------
(* What a schedule affects, and what a delivery may change.                  *)

\* A rounded quotient of a product stays below the factor.
LEMMA RoundBounded ==
  ASSUME NEW x \in Nat, NEW d \in Nat \ {0}, NEW b \in Nat, x =< d
  PROVE  Round(x * b, d) \in 0 .. b
<1> DEFINE n == x * b
<1>1. n \in Nat /\ n =< d * b
  <2>1. \A u, v, w \in Nat : u =< v => u * w \in Nat /\ u * w =< v * w
    OBVIOUS
  <2> QED BY <2>1
<1> HIDE DEF n
<1> DEFINE q == n \div d
           r == n % d
<1>2. q \in Int /\ r \in 0 .. d - 1 /\ n = d * q + r
  BY <1>1
<1> HIDE DEF q, r
<1>3. q >= 0
  <2>1. SUFFICES ASSUME q =< -1 PROVE FALSE
    BY <1>2
  <2>2. d * q =< d * (-1)
    BY <2>1, <1>2
  <2> QED BY <1>1, <1>2, <2>2
<1>4. q =< b
  <2>1. SUFFICES ASSUME q >= b + 1 PROVE FALSE
    BY <1>2
  <2>2. d * q >= d * (b + 1)
    BY <2>1, <1>2
  <2>3. d * (b + 1) = d * b + d
    OBVIOUS
  <2>4. d * b \in Int /\ d * q \in Int
    BY <1>2
  <2> QED BY <1>1, <1>2, <2>2, <2>3, <2>4
<1>5. q = b => r = 0
  BY <1>1, <1>2
<1>6. Round(n, d) = IF 2 * r < d \/ (2 * r = d /\ q % 2 = 0) THEN q ELSE q + 1
  BY DEF Round, q, r
<1> QED BY <1>2, <1>3, <1>4, <1>5, <1>6 DEF n

\* A schedule affects at least one record, and at most the window.
LEMMA CountInWindow ==
  ASSUME NEW m \in FaultManifest
  PROVE  /\ WindowLength(m) \in Nat \ {0} /\ WindowLength(m) = m.stop - m.start
         /\ Count(m) \in 1 .. WindowLength(m)
<1> DEFINE length == WindowLength(m)
           dose   == Round(length * Percent[m.level], 100)
<1>1. m.level \in 1 .. 5 /\ m.start \in Nat /\ m.stop \in Nat /\ m.start < m.stop
  BY DEF FaultManifest, Registered
<1>2. length \in Nat \ {0} /\ length = m.stop - m.start
  BY <1>1 DEF WindowLength
<1>3. dose \in Int
  <2>1. Percent[m.level] \in Nat /\ Percent[m.level] =< 100
    BY <1>1 DEF Percent
  <2> DEFINE percent == Percent[m.level]
  <2> HIDE DEF percent, length
  <2>2. Round(percent * length, 100) \in 0 .. length
    BY <1>2, <2>1, RoundBounded DEF percent
  <2>3. length * percent = percent * length
    BY <1>2, <2>1 DEF percent
  <2> QED BY <1>2, <2>2, <2>3 DEF percent
<1>4. Count(m) = Max({1, Min({length, dose})})
  BY DEF Count
<1> HIDE DEF dose, length
<1>5. Min({length, dose}) \in Int /\ Min({length, dose}) =< length
  BY <1>2, <1>3, MinOfTwo
<1>6. \A x \in Int : Max({1, x}) = IF 1 >= x THEN 1 ELSE x
  BY MaxOfTwo
<1> QED BY <1>2, <1>4, <1>5, <1>6 DEF length

\* A1, A2 and C1 affect records of their window only.
LEMMA AffectedInWindow ==
  ASSUME NEW m \in FaultManifest
  PROVE  AffectedIndices(m) \subseteq Window(m)
<1> DEFINE length == WindowLength(m)
           count  == Count(m)
<1>1. /\ m.level \in 1 .. 5 /\ m.start \in Nat /\ m.stop \in Nat /\ m.start < m.stop
      /\ m.supplied \in Seq(Nat)
      /\ m.operator = "A2" /\ m.supplied # <<>>
           => Range(m.supplied) \subseteq 0 .. length - 1
  BY DEF FaultManifest, Registered, ParametersOK
<1>2. length \in Nat \ {0} /\ length = m.stop - m.start
  BY CountInWindow
<1>3. count \in 1 .. length
  BY CountInWindow
<1> HIDE DEF length, count
<1>4. Window(m) = m.start .. m.stop - 1
  BY DEF Window
<1>5. CASE m.operator \in {"A1", "C1"}
  <2>1. AffectedIndices(m) = m.start .. m.start + count - 1
    BY <1>5 DEF AffectedIndices, count
  <2> QED BY <1>1, <1>2, <1>3, <1>4, <2>1
<1>6. CASE m.operator = "A2"
  <2> DEFINE offsets == ErasedOffsets(m)
  <2>1. \A k \in DOMAIN offsets : offsets[k] \in 0 .. length - 1
    <3>1. CASE m.supplied # <<>>
      BY <1>1, <1>6, <3>1 DEF ErasedOffsets, Range
    <3>2. CASE m.supplied = <<>> /\ count = 1
      <4>1. offsets = <<0>>
        BY <3>2 DEF ErasedOffsets, SpreadOffsets, length, count
      <4> HIDE DEF offsets
      <4> QED BY <1>2, <4>1
    <3>3. CASE m.supplied = <<>> /\ count # 1
      <4>1. offsets = [p \in 1 .. count |-> Round((p - 1) * (length - 1), count - 1)]
        BY <3>3 DEF ErasedOffsets, SpreadOffsets, length, count
      <4> HIDE DEF offsets
      <4> SUFFICES ASSUME NEW p \in 1 .. count
                   PROVE  Round((p - 1) * (length - 1), count - 1) \in 0 .. length - 1
        BY <4>1
      <4>2. /\ p - 1 \in Nat /\ length - 1 \in Nat /\ count - 1 \in Nat \ {0}
            /\ p - 1 =< count - 1
        BY <1>2, <1>3, <3>3
      <4> QED BY <4>2, RoundBounded
    <3> QED BY <3>1, <3>2, <3>3
  <2>2. AffectedIndices(m) = {m.start + offsets[k] : k \in DOMAIN offsets}
    BY <1>6 DEF AffectedIndices
  <2> HIDE DEF offsets
  <2> QED BY <1>1, <1>2, <1>4, <2>1, <2>2
<1>7. CASE m.operator \notin {"A1", "A2", "C1"}
  BY <1>7 DEF AffectedIndices
<1> QED BY <1>5, <1>6, <1>7

\* C1 is registered for both slots.
LEMMA SwapsBoth ==
  ASSUME NEW m \in FaultManifest, m.operator = "C1"
  PROVE  Range(m.slots) = Slots
<1>1. m.slots \in Seq(Slots) /\ Len(m.slots) = 2 /\ IsInjective(m.slots)
  BY DEF FaultManifest, Registered
<1>2. m.slots[1] \in Slots /\ m.slots[2] \in Slots /\ m.slots[1] # m.slots[2]
      /\ DOMAIN m.slots = 1 .. 2
  BY <1>1 DEF IsInjective
<1> QED BY <1>2 DEF Range, Slots

-----------------------------------------------------------------------------
\* What a delivery r of the clean record c at step i may change.
Respects(r, c, m, i) ==
  /\ r.scene = c.scene /\ r.paired = c.paired
  /\ \A s \in Slots :
       /\ r.tactile[s].index =< i
       /\ r.tactile[s].delivered = i
       /\ s \notin Range(m.slots) \/ ~Active(m, i) => r.tactile[s] = c.tactile[s]

\* The clean record of step i, field by field.
LEMMA CleanFields ==
  ASSUME NEW i, NEW phase, NEW c, c = CleanRecord(i, phase)
  PROVE  /\ c = [tactile |-> c.tactile, scene |-> i, paired |-> i]
         /\ \A s \in Slots : /\ c.tactile[s] = CleanReading(s, i, phase)
                             /\ c.tactile[s].index = i /\ c.tactile[s].delivered = i
BY DEF CleanRecord, CleanReading

\* A clean record respects every footprint.
LEMMA CleanRespects ==
  ASSUME NEW i \in Int, NEW phase, NEW m, NEW c, c = CleanRecord(i, phase)
  PROVE  Respects(c, c, m, i)
<1>1. \A s \in Slots : c.tactile[s].index = i /\ c.tactile[s].delivered = i
  BY CleanFields
<1> QED BY <1>1 DEF Respects

\* Replacing readings replaces nothing else.
LEMMA OnlyTactile ==
  ASSUME NEW i, NEW phase, NEW c, c = CleanRecord(i, phase), NEW f
  PROVE  LET r == [c EXCEPT !.tactile = f]
         IN r.tactile = f /\ r.scene = c.scene /\ r.paired = c.paired
BY CleanFields

\* The fields that matter of what each operator makes of clean readings.
LEMMA ReadingFields ==
  ASSUME NEW m, NEW s, NEW t, NEW i, NEW j, NEW p, NEW q, NEW x,
         NEW source, source = CleanReading(t, j, q),
         NEW target, target = CleanReading(s, i, p)
  PROVE  /\ RoutedReading(m, source, target).index = j
         /\ RoutedReading(m, source, target).delivered = i
         /\ SwappedReading(m, source, target).index = j
         /\ SwappedReading(m, source, target).delivered = i
         /\ MarkedReading(m, target, x).index = i
         /\ MarkedReading(m, target, x).delivered = i
         /\ AbsentReading(m, target).index = NoIndex
         /\ AbsentReading(m, target).delivered = i
         /\ ShiftedReading(m, s, target).index = i
         /\ ShiftedReading(m, s, target).delivered = i
<1>1. /\ RoutedReading(m, source, target).index = j
      /\ RoutedReading(m, source, target).delivered = i
  BY DEF RoutedReading, CleanReading
<1>2. /\ SwappedReading(m, source, target).index = j
      /\ SwappedReading(m, source, target).delivered = i
  BY DEF SwappedReading, RoutedReading, CleanReading
<1>3. /\ MarkedReading(m, target, x).index = i
      /\ MarkedReading(m, target, x).delivered = i
  BY DEF MarkedReading, CleanReading
<1>4. /\ AbsentReading(m, target).index = NoIndex
      /\ AbsentReading(m, target).delivered = i
  BY DEF AbsentReading, CleanReading
<1>5. /\ ShiftedReading(m, s, target).index = i
      /\ ShiftedReading(m, s, target).delivered = i
  BY DEF ShiftedReading, CleanReading
<1> QED BY <1>1, <1>2, <1>3, <1>4, <1>5

\* A trace of clean records up to step i.
CleanUpTo(c, i) == \A j \in 0 .. i : \E p : c[j + 1] = CleanRecord(j, p)

\* Availability faults leave everything but their slots, in their window.
LEMMA AvailabilityRespects ==
  ASSUME NEW m \in FaultManifest, m.operator \in Availability,
         NEW c, NEW i \in Nat, CleanUpTo(c, i)
  PROVE  Respects(BatchAvailability(c, m, i), c[i + 1], m, i)
<1>1. PICK p : c[i + 1] = CleanRecord(i, p)
  BY DEF CleanUpTo
<1> DEFINE now == c[i + 1].tactile
           S   == Range(m.slots)
           g   == [s \in Slots |-> AbsentReading(m, now[s])]
<1>2. CASE i \notin AffectedIndices(m)
  <2>1. BatchAvailability(c, m, i) = c[i + 1]
    BY <1>2 DEF BatchAvailability
  <2> QED BY <1>1, <2>1, CleanRespects
<1>3. CASE i \in AffectedIndices(m)
  <2>1. Active(m, i)
    BY <1>3, AffectedInWindow DEF Active
  <2>2. \A s \in S \cap Slots : g[s].index =< i /\ g[s].delivered = i
    <3> TAKE s \in S \cap Slots
    <3>1. now[s] = CleanReading(s, i, p)
      BY <1>1, CleanFields
    <3>2. g[s].index = NoIndex /\ g[s].delivered = i
      BY <3>1, ReadingFields
    <3> HIDE DEF g
    <3> QED BY <3>2 DEF NoIndex
  <2>3. BatchAvailability(c, m, i) = [c[i + 1] EXCEPT !.tactile =
          [s \in Slots |-> IF s \in S THEN AbsentReading(m, now[s]) ELSE c[i + 1].tactile[s]]]
    BY <1>3, Zenon DEF BatchAvailability, ReplaceSlots
  <2>4. [s \in Slots |-> IF s \in S THEN AbsentReading(m, now[s]) ELSE c[i + 1].tactile[s]]
          = [s \in Slots |-> IF s \in S THEN g[s] ELSE c[i + 1].tactile[s]]
    OBVIOUS
  <2> HIDE DEF g
  <2>5. PICK f : f = [s \in Slots |-> IF s \in S THEN g[s] ELSE c[i + 1].tactile[s]]
    OBVIOUS
  <2>6. PICK r : r = [c[i + 1] EXCEPT !.tactile = f]
    OBVIOUS
  <2>7. r.tactile = f /\ r.scene = c[i + 1].scene /\ r.paired = c[i + 1].paired
    BY <1>1, <2>6, OnlyTactile
  <2>8. \A s \in Slots : r.tactile[s] = IF s \in S THEN g[s] ELSE c[i + 1].tactile[s]
    BY <2>5, <2>7
  <2>9. Respects(r, c[i + 1], m, i)
    <3>1. \A s \in Slots : c[i + 1].tactile[s].index = i
                           /\ c[i + 1].tactile[s].delivered = i
      BY <1>1, CleanFields
    <3> HIDE DEF now
    <3> QED BY <3>1, <2>1, <2>2, <2>7, <2>8 DEF Respects
  <2> QED BY <2>3, <2>4, <2>5, <2>6, <2>9, Zenon
<1> QED BY <1>2, <1>3

\* So do fidelity faults.
LEMMA FidelityRespects ==
  ASSUME NEW m \in FaultManifest, NEW c, NEW i \in Nat, CleanUpTo(c, i)
  PROVE  Respects(BatchFidelity(c, m, i), c[i + 1], m, i)
<1>1. PICK p : c[i + 1] = CleanRecord(i, p)
  BY DEF CleanUpTo
<1> DEFINE now == c[i + 1].tactile
           S   == {s \in Range(m.slots) :
                     m.operator \in {"F5", "F7"} => InContact(now[s].phase)}
           x(s) == IF m.operator = "F6" THEN Imprinted(now[s].payload, History(c, s, i))
                   ELSE Transformed(m, s, now[s].payload, i)
           g   == [s \in Slots |-> MarkedReading(m, now[s], x(s))]
<1>2. CASE ~Active(m, i)
  <2>1. BatchFidelity(c, m, i) = c[i + 1]
    BY <1>2, Zenon DEF BatchFidelity
  <2> QED BY <1>1, <2>1, CleanRespects
<1>3. CASE Active(m, i)
  <2>1. BatchFidelity(c, m, i) = [c[i + 1] EXCEPT !.tactile =
          [s \in Slots |-> IF s \in S THEN MarkedReading(m, now[s], x(s))
                          ELSE c[i + 1].tactile[s]]]
    BY <1>3, Zenon DEF BatchFidelity, ReplaceSlots
  <2> HIDE DEF x
  <2>2. \A s \in S \cap Slots : g[s].index =< i /\ g[s].delivered = i
    <3> TAKE s \in S \cap Slots
    <3>1. now[s] = CleanReading(s, i, p)
      BY <1>1, CleanFields
    <3>2. g[s].index = i /\ g[s].delivered = i
      BY <3>1, ReadingFields
    <3> HIDE DEF g
    <3> QED BY <3>2
  <2> HIDE DEF S
  <2>3. [s \in Slots |-> IF s \in S THEN MarkedReading(m, now[s], x(s))
                        ELSE c[i + 1].tactile[s]]
          = [s \in Slots |-> IF s \in S THEN g[s] ELSE c[i + 1].tactile[s]]
    OBVIOUS
  <2>4. S \subseteq Range(m.slots)
    BY DEF S
  <2> HIDE DEF g
  <2>5. PICK f : f = [s \in Slots |-> IF s \in S THEN g[s] ELSE c[i + 1].tactile[s]]
    OBVIOUS
  <2>6. PICK r : r = [c[i + 1] EXCEPT !.tactile = f]
    OBVIOUS
  <2>7. r.tactile = f /\ r.scene = c[i + 1].scene /\ r.paired = c[i + 1].paired
    BY <1>1, <2>6, OnlyTactile
  <2>8. \A s \in Slots : r.tactile[s] = IF s \in S THEN g[s] ELSE c[i + 1].tactile[s]
    BY <2>5, <2>7
  <2>9. Respects(r, c[i + 1], m, i)
    <3>1. \A s \in Slots : c[i + 1].tactile[s].index = i
                           /\ c[i + 1].tactile[s].delivered = i
      BY <1>1, CleanFields
    <3> HIDE DEF now
    <3> QED BY <3>1, <1>3, <2>2, <2>4, <2>7, <2>8 DEF Respects
  <2> QED BY <2>1, <2>3, <2>5, <2>6, <2>9, Zenon
<1> QED BY <1>2, <1>3

\* Temporal faults deliver a reading of the past under the metadata of now.
LEMMA TemporalRespects ==
  ASSUME NEW m \in FaultManifest, m.operator \in Temporal,
         NEW c, NEW i \in Nat, CleanUpTo(c, i)
  PROVE  Respects(BatchTemporal(c, m, i), c[i + 1], m, i)
<1>1. PICK p : c[i + 1] = CleanRecord(i, p)
  BY DEF CleanUpTo
<1> DEFINE now == c[i + 1].tactile
           S   == {s \in Range(m.slots) : m.operator = "T2" => SourceIndex(m, s, i) # i}
           source(s) == c[SourceIndex(m, s, i) + 1].tactile[s]
           g   == [s \in Slots |-> RoutedReading(m, source(s), now[s])]
<1>2. CASE ~Active(m, i)
  <2>1. BatchTemporal(c, m, i) = c[i + 1]
    BY <1>2, Zenon DEF BatchTemporal
  <2> QED BY <1>1, <2>1, CleanRespects
<1>3. CASE Active(m, i)
  <2>1. BatchTemporal(c, m, i) = [c[i + 1] EXCEPT !.tactile =
          [s \in Slots |-> IF s \in S THEN RoutedReading(m, source(s), now[s])
                          ELSE c[i + 1].tactile[s]]]
    BY <1>3, Zenon DEF BatchTemporal, ReplaceSlots
  <2>2. \A s \in S \cap Slots : g[s].index =< i /\ g[s].delivered = i
    <3> TAKE s \in S \cap Slots
    <3>1. now[s] = CleanReading(s, i, p)
      BY <1>1, CleanFields
    <3>2. PICK j : j = SourceIndex(m, s, i)
      OBVIOUS
    <3>3. j \in 0 .. i
      BY <1>3, <3>2, SourceIsPast DEF Active
    <3>4. PICK q : c[j + 1] = CleanRecord(j, q)
      BY <3>3 DEF CleanUpTo
    <3>5. source(s) = CleanReading(s, j, q)
      BY <3>2, <3>4, CleanFields
    <3> HIDE DEF source
    <3>6. g[s].index = j /\ g[s].delivered = i
      BY <3>1, <3>5, ReadingFields
    <3> HIDE DEF g
    <3> QED BY <3>3, <3>6
  <2> HIDE DEF S, source
  <2>3. [s \in Slots |-> IF s \in S THEN RoutedReading(m, source(s), now[s])
                        ELSE c[i + 1].tactile[s]]
          = [s \in Slots |-> IF s \in S THEN g[s] ELSE c[i + 1].tactile[s]]
    OBVIOUS
  <2>4. S \subseteq Range(m.slots)
    BY DEF S
  <2> HIDE DEF g
  <2>5. PICK f : f = [s \in Slots |-> IF s \in S THEN g[s] ELSE c[i + 1].tactile[s]]
    OBVIOUS
  <2>6. PICK r : r = [c[i + 1] EXCEPT !.tactile = f]
    OBVIOUS
  <2>7. r.tactile = f /\ r.scene = c[i + 1].scene /\ r.paired = c[i + 1].paired
    BY <1>1, <2>6, OnlyTactile
  <2>8. \A s \in Slots : r.tactile[s] = IF s \in S THEN g[s] ELSE c[i + 1].tactile[s]
    BY <2>5, <2>7
  <2>9. Respects(r, c[i + 1], m, i)
    <3>1. \A s \in Slots : c[i + 1].tactile[s].index = i
                           /\ c[i + 1].tactile[s].delivered = i
      BY <1>1, CleanFields
    <3> HIDE DEF now
    <3> QED BY <3>1, <1>3, <2>2, <2>4, <2>7, <2>8 DEF Respects
  <2> QED BY <2>1, <2>3, <2>5, <2>6, <2>9, Zenon
<1> QED BY <1>2, <1>3

\* Context faults change both slots together, C1, or shift the named ones, C2.
LEMMA ContextRespects ==
  ASSUME NEW m \in FaultManifest, NEW c, NEW i \in Nat, CleanUpTo(c, i)
  PROVE  Respects(BatchContext(c, m, i), c[i + 1], m, i)
<1>1. PICK p : c[i + 1] = CleanRecord(i, p)
  BY DEF CleanUpTo
<1> DEFINE now == c[i + 1].tactile
<1>2. CASE m.operator = "C1" /\ i \in AffectedIndices(m)
  <2> DEFINE S == Slots
             g == [s \in Slots |-> SwappedReading(m, now[Other(s)], now[s])]
  <2>1. BatchContext(c, m, i) = [c[i + 1] EXCEPT !.tactile =
          [s \in Slots |-> IF s \in S THEN SwappedReading(m, now[Other(s)], now[s])
                          ELSE c[i + 1].tactile[s]]]
    BY <1>2, Zenon DEF BatchContext, ReplaceSlots
  <2>2. \A s \in S \cap Slots : g[s].index =< i /\ g[s].delivered = i
    <3> TAKE s \in S \cap Slots
    <3>1. PICK t : t = Other(s)
      OBVIOUS
    <3>2. t \in Slots
      <4>1. \E u \in Slots : u # s
        BY DEF Slots
      <4> QED BY <3>1, <4>1 DEF Other
    <3>3. now[s] = CleanReading(s, i, p) /\ now[t] = CleanReading(t, i, p)
      BY <1>1, <3>2, CleanFields
    <3>4. g[s].index = i /\ g[s].delivered = i
      BY <3>1, <3>3, ReadingFields
    <3> HIDE DEF g
    <3> QED BY <3>4
  <2>3. [s \in Slots |-> IF s \in S THEN SwappedReading(m, now[Other(s)], now[s])
                        ELSE c[i + 1].tactile[s]]
          = [s \in Slots |-> IF s \in S THEN g[s] ELSE c[i + 1].tactile[s]]
    OBVIOUS
  <2>4. S \subseteq Range(m.slots) /\ Active(m, i)
    BY <1>2, SwapsBoth, AffectedInWindow DEF Active
  <2> HIDE DEF g, S
  <2>5. PICK f : f = [s \in Slots |-> IF s \in S THEN g[s] ELSE c[i + 1].tactile[s]]
    OBVIOUS
  <2>6. PICK r : r = [c[i + 1] EXCEPT !.tactile = f]
    OBVIOUS
  <2>7. r.tactile = f /\ r.scene = c[i + 1].scene /\ r.paired = c[i + 1].paired
    BY <1>1, <2>6, OnlyTactile
  <2>8. \A s \in Slots : r.tactile[s] = IF s \in S THEN g[s] ELSE c[i + 1].tactile[s]
    BY <2>5, <2>7
  <2>9. Respects(r, c[i + 1], m, i)
    <3>1. \A s \in Slots : c[i + 1].tactile[s].index = i
                           /\ c[i + 1].tactile[s].delivered = i
      BY <1>1, CleanFields
    <3> HIDE DEF now
    <3> QED BY <3>1, <2>2, <2>4, <2>7, <2>8 DEF Respects
  <2> QED BY <2>1, <2>3, <2>5, <2>6, <2>9, Zenon
<1>3. CASE m.operator = "C2" /\ Active(m, i)
  <2> DEFINE S == Range(m.slots)
             g == [s \in Slots |-> ShiftedReading(m, s, now[s])]
  <2>1. BatchContext(c, m, i) = [c[i + 1] EXCEPT !.tactile =
          [s \in Slots |-> IF s \in S THEN ShiftedReading(m, s, now[s])
                          ELSE c[i + 1].tactile[s]]]
    <3>1. m.operator # "C1"
      BY <1>3
    <3> QED BY <1>3, <3>1, Zenon DEF BatchContext, ReplaceSlots
  <2>2. \A s \in S \cap Slots : g[s].index =< i /\ g[s].delivered = i
    <3> TAKE s \in S \cap Slots
    <3>1. now[s] = CleanReading(s, i, p)
      BY <1>1, CleanFields
    <3>2. g[s].index = i /\ g[s].delivered = i
      BY <3>1, ReadingFields
    <3> HIDE DEF g
    <3> QED BY <3>2
  <2>3. [s \in Slots |-> IF s \in S THEN ShiftedReading(m, s, now[s])
                        ELSE c[i + 1].tactile[s]]
          = [s \in Slots |-> IF s \in S THEN g[s] ELSE c[i + 1].tactile[s]]
    OBVIOUS
  <2> HIDE DEF g
  <2>4. PICK f : f = [s \in Slots |-> IF s \in S THEN g[s] ELSE c[i + 1].tactile[s]]
    OBVIOUS
  <2>5. PICK r : r = [c[i + 1] EXCEPT !.tactile = f]
    OBVIOUS
  <2>6. r.tactile = f /\ r.scene = c[i + 1].scene /\ r.paired = c[i + 1].paired
    BY <1>1, <2>5, OnlyTactile
  <2>7. \A s \in Slots : r.tactile[s] = IF s \in S THEN g[s] ELSE c[i + 1].tactile[s]
    BY <2>4, <2>6
  <2>8. Respects(r, c[i + 1], m, i)
    <3>1. \A s \in Slots : c[i + 1].tactile[s].index = i
                           /\ c[i + 1].tactile[s].delivered = i
      BY <1>1, CleanFields
    <3> HIDE DEF now
    <3> QED BY <3>1, <1>3, <2>2, <2>6, <2>7 DEF Respects
  <2> QED BY <2>1, <2>3, <2>4, <2>5, <2>8, Zenon
<1>4. CASE /\ ~(m.operator = "C1" /\ i \in AffectedIndices(m))
           /\ ~(m.operator = "C2" /\ Active(m, i))
  <2>1. BatchContext(c, m, i) = c[i + 1]
    BY <1>4, Zenon DEF BatchContext
  <2> QED BY <1>1, <2>1, CleanRespects
<1> QED BY <1>2, <1>3, <1>4

-----------------------------------------------------------------------------
\* The session is given the clean record of each step, in order.
InOrder == \A k \in 1 .. Len(clean) : \E p \in Phases : clean[k] = CleanRecord(k - 1, p)

\* No step gives it another one.
LEMMA OrderKept == IInv /\ InOrder /\ [Next]_vars => InOrder'
<1> SUFFICES ASSUME IInv, InOrder, [Next]_vars PROVE InOrder'
  OBVIOUS
<1>1. CASE Next
  <2> DEFINE n == Len(clean)
  <2>1. ProcessedCount = n /\ n \in Nat /\ Typed
    BY Processed DEF IInv
  <2>2. PICK p \in Phases :
          LET record == CleanRecord(ProcessedCount, p)
          IN \/ DeliverTemporal(record)     \/ DeliverFidelity(record)
             \/ DeliverAvailability(record) \/ DeliverContext(record)
    BY <1>1 DEF Next
  <2>3. PICK record : record = CleanRecord(n, p)
    OBVIOUS
  <2>4. clean' = Append(clean, record)
    BY <2>1, <2>2, <2>3 DEF DeliverTemporal, DeliverFidelity, DeliverAvailability,
                            DeliverContext, Deliver
  <2>5. record \in Records
    BY <2>1, <2>3 DEF Records
  <2>6. /\ Len(clean') = n + 1 /\ clean'[n + 1] = record
        /\ \A j \in 1 .. n : clean'[j] = clean[j]
    BY <2>1, <2>4, <2>5, Grown
  <2> SUFFICES ASSUME NEW k \in 1 .. n + 1
               PROVE  \E q \in Phases : clean'[k] = CleanRecord(k - 1, q)
    BY <2>6 DEF InOrder
  <2>7. CASE k \in 1 .. n
    BY <2>6, <2>7 DEF InOrder
  <2>8. CASE k = n + 1
    <3>1. k - 1 = n
      BY <2>1, <2>8
    <3> QED BY <2>3, <2>6, <2>8, <3>1
  <2> QED BY <2>1, <2>7, <2>8
<1>2. CASE UNCHANGED vars
  BY <1>2 DEF vars, InOrder
<1> QED BY <1>1, <1>2

\* A fault touches what its manifest names and nothing else, and nothing that is
\* delivered comes from a later step: every operator's footprint is its window and
\* its slots (streaming/session.py, operators/).
THEOREM FootprintsRespected == Spec => []FootprintRespected
<1>1. Init => InOrder
  BY DEF Init, InOrder
<1>2. IInv /\ InOrder => FootprintRespected
  <2> SUFFICES ASSUME IInv, InOrder, NEW k \in 1 .. Len(delivered)
               PROVE  LET record == delivered[k]
                      IN /\ record.scene = clean[k].scene /\ record.paired = clean[k].paired
                         /\ \A s \in Slots :
                              /\ record.tactile[s].index =< k - 1
                              /\ record.tactile[s].delivered = k - 1
                              /\ s \notin Range(manifest.slots) \/ k =< manifest.start
                                   \/ k > manifest.stop
                                   => record.tactile[s] = clean[k].tactile[s]
    BY Zenon DEF FootprintRespected
  <2> DEFINE i == k - 1
  <2>1. /\ Len(delivered) = Len(clean) /\ Len(clean) \in Nat
        /\ delivered = [j \in 1 .. Len(clean) |-> BatchRecord(clean, manifest, j - 1)]
    BY Processed DEF IInv, ProcessedCount
  <2>2. i \in Nat /\ i + 1 = k /\ k \in 1 .. Len(clean)
    BY <2>1
  <2>3. delivered[k] = BatchRecord(clean, manifest, i)
    BY <2>1, <2>2
  <2>4. manifest \in FaultManifest
    BY DEF IInv, Typed
  <2>5. CleanUpTo(clean, i)
    <3> SUFFICES ASSUME NEW j \in 0 .. i
                 PROVE  \E p : clean[j + 1] = CleanRecord(j, p)
      BY DEF CleanUpTo
    <3>1. j + 1 \in 1 .. Len(clean) /\ (j + 1) - 1 = j
      BY <2>1, <2>2
    <3> QED BY <3>1 DEF InOrder
  <2>6. manifest.operator \in Availability \cup Fidelity \cup Temporal \cup Context
    BY <2>4, Zenon DEF FaultManifest, OperatorIds
  <2>7. Respects(BatchRecord(clean, manifest, i), clean[i + 1], manifest, i)
    BY <2>2, <2>4, <2>5, <2>6, Families, AvailabilityRespects, FidelityRespects,
       TemporalRespects, ContextRespects
  <2>8. k =< manifest.start \/ k > manifest.stop => ~Active(manifest, i)
    BY <2>2, <2>4 DEF FaultManifest, Active, Window
  <2> QED BY <2>2, <2>3, <2>7, <2>8 DEF Respects
<1>3. Spec => []InOrder
  BY <1>1, OrderKept, Invariance, PTL DEF Spec
<1> QED BY <1>2, <1>3, Invariance, PTL

-----------------------------------------------------------------------------
(* What the operators deliver, reading by reading.                          *)

GateTyped == fault \in FaultManifest /\ script \in Seq(Anywhere) /\ atRest \in BOOLEAN

Steps == 0 .. Len(script) - 1

\* The clean reading of a slot at a step of the episode.
CleanAt(s, i) == CleanReading(s, i, script[i + 1])

\* Whether a fault replaces it, and by what.
Struck(m, s, i) ==
  CASE m.operator \in Availability -> i \in AffectedIndices(m) /\ s \in Range(m.slots)
    [] m.operator \in Fidelity ->
         /\ Active(m, i) /\ s \in Range(m.slots)
         /\ m.operator \in {"F5", "F7"} => InContact(script[i + 1])
    [] m.operator \in Temporal ->
         /\ Active(m, i) /\ s \in Range(m.slots)
         /\ m.operator = "T2" => SourceIndex(m, s, i) # i
    [] m.operator = "C1" -> i \in AffectedIndices(m)
    [] m.operator = "C2" -> Active(m, i) /\ s \in Range(m.slots)

NewPayload(m, s, i) ==
  IF m.operator = "F6" THEN Imprinted(Frame(s, i), History(Episode, s, i))
  ELSE Transformed(m, s, Frame(s, i), i)

New(m, s, i) ==
  CASE m.operator \in Availability -> AbsentReading(m, CleanAt(s, i))
    [] m.operator \in Fidelity -> MarkedReading(m, CleanAt(s, i), NewPayload(m, s, i))
    [] m.operator \in Temporal ->
         RoutedReading(m, CleanAt(s, SourceIndex(m, s, i)), CleanAt(s, i))
    [] m.operator = "C1" -> SwappedReading(m, CleanAt(Other(s), i), CleanAt(s, i))
    [] m.operator = "C2" -> ShiftedReading(m, s, CleanAt(s, i))

Reading(m, s, i) == IF Struck(m, s, i) THEN New(m, s, i) ELSE CleanAt(s, i)

\* The record of a step, given its readings.
RecordOf(f, i) == [tactile |-> f, scene |-> i, paired |-> i]

\* The episode's records are clean.
LEMMA EpisodeRecords ==
  ASSUME GateTyped
  PROVE  /\ Len(script) \in Nat /\ DOMAIN Episode = 1 .. Len(script)
         /\ Len(Episode) = Len(script)
         /\ \A i \in Steps :
              /\ Episode[i + 1] = RecordOf([s \in Slots |-> CleanAt(s, i)], i)
              /\ \A s \in Slots : Episode[i + 1].tactile[s] = CleanAt(s, i)
<1>1. Len(script) \in Nat /\ DOMAIN script = 1 .. Len(script)
  BY LenProperties DEF GateTyped
<1> DEFINE n == Len(script)
<1>2. Episode = [k \in 1 .. n |-> CleanRecord(k - 1, script[k])]
  BY <1>1 DEF Episode
<1> HIDE DEF n
<1>3. Len(Episode) = n
  BY <1>1, <1>2 DEF n
<1>4. \A i \in 0 .. n - 1 : Episode[i + 1] = CleanRecord(i, script[i + 1])
  <2> TAKE i \in 0 .. n - 1
  <2>1. i + 1 \in 1 .. n /\ (i + 1) - 1 = i
    BY <1>1 DEF n
  <2> QED BY <1>2, <2>1
<1>5. \A i \in Steps : Episode[i + 1] = RecordOf([s \in Slots |-> CleanAt(s, i)], i)
  BY <1>4 DEF Steps, n, RecordOf, CleanRecord, CleanAt
<1>6. \A i \in Steps, s \in Slots : Episode[i + 1].tactile[s] = CleanAt(s, i)
  <2> TAKE i \in Steps, s \in Slots
  <2>1. PICK f : f = [t \in Slots |-> CleanAt(t, i)]
    OBVIOUS
  <2>2. PICK e : e = Episode[i + 1]
    OBVIOUS
  <2>3. e = RecordOf(f, i)
    BY <1>5, <2>1, <2>2
  <2>4. e.tactile = f
    BY <2>3 DEF RecordOf
  <2>5. f[s] = CleanAt(s, i)
    BY <2>1
  <2> QED BY <2>2, <2>4, <2>5
<1>7. DOMAIN Episode = 1 .. Len(script) /\ Len(Episode) = Len(script)
  BY <1>2, <1>3 DEF n
<1> QED BY <1>1, <1>5, <1>6, <1>7

\* Replacing the readings of a record.
LEMMA Replaced ==
  ASSUME NEW g, NEW i, NEW c, c = RecordOf(g, i), NEW f
  PROVE  [c EXCEPT !.tactile = f] = RecordOf(f, i)
BY DEF RecordOf

\* Availability.
LEMMA AvailabilityReads ==
  ASSUME GateTyped, NEW i \in Steps, fault.operator \in Availability
  PROVE  BatchAvailability(Episode, fault, i)
           = RecordOf([s \in Slots |-> Reading(fault, s, i)], i)
<1> DEFINE c == Episode[i + 1]
           m == fault
           S == Range(m.slots)
           f == [s \in Slots |-> IF s \in S THEN AbsentReading(m, c.tactile[s])
                                 ELSE c.tactile[s]]
<1>1. /\ c = RecordOf([s \in Slots |-> CleanAt(s, i)], i)
      /\ \A s \in Slots : c.tactile[s] = CleanAt(s, i)
  BY EpisodeRecords
<1>2. \A s : Struck(m, s, i) <=> i \in AffectedIndices(m) /\ s \in S
  BY DEF Struck, Availability, Fidelity, Temporal
<1>3. \A s : New(m, s, i) = AbsentReading(m, CleanAt(s, i))
  BY DEF New, Availability, Fidelity, Temporal
<1>4. CASE i \notin AffectedIndices(m)
  <2>1. BatchAvailability(Episode, m, i) = c
    BY <1>4 DEF BatchAvailability
  <2>2. \A s \in Slots : Reading(m, s, i) = CleanAt(s, i)
    BY <1>2, <1>4 DEF Reading
  <2>3. [s \in Slots |-> Reading(m, s, i)] = [s \in Slots |-> CleanAt(s, i)]
    BY <2>2
  <2> QED BY <1>1, <2>1, <2>3, Zenon
<1>5. CASE i \in AffectedIndices(m)
  <2>1. BatchAvailability(Episode, m, i) = [c EXCEPT !.tactile = f]
    BY <1>5, Zenon DEF BatchAvailability, ReplaceSlots
  <2>2. \A s \in Slots : f[s] = Reading(m, s, i)
    BY <1>1, <1>2, <1>3, <1>5 DEF Reading
  <2>3. f = [s \in Slots |-> Reading(m, s, i)]
    BY <2>2
  <2> HIDE DEF c, f
  <2>4. [c EXCEPT !.tactile = f] = RecordOf(f, i)
    BY <1>1, Replaced
  <2> QED BY <2>1, <2>3, <2>4
<1> QED BY <1>4, <1>5

\* Fidelity.
LEMMA FidelityReads ==
  ASSUME GateTyped, NEW i \in Steps, fault.operator \in Fidelity
  PROVE  BatchFidelity(Episode, fault, i)
           = RecordOf([s \in Slots |-> Reading(fault, s, i)], i)
<1> DEFINE c == Episode[i + 1]
           m == fault
           S == {s \in Range(m.slots) :
                   m.operator \in {"F5", "F7"} => InContact(c.tactile[s].phase)}
           x(s) == IF m.operator = "F6"
                   THEN Imprinted(c.tactile[s].payload, History(Episode, s, i))
                   ELSE Transformed(m, s, c.tactile[s].payload, i)
           f == [s \in Slots |-> IF s \in S THEN MarkedReading(m, c.tactile[s], x(s))
                                 ELSE c.tactile[s]]
<1>1. /\ c = RecordOf([s \in Slots |-> CleanAt(s, i)], i)
      /\ \A s \in Slots : c.tactile[s] = CleanAt(s, i)
  BY EpisodeRecords
<1>2. \A s : Struck(m, s, i) <=>
               /\ Active(m, i) /\ s \in Range(m.slots)
               /\ m.operator \in {"F5", "F7"} => InContact(script[i + 1])
  BY Zenon DEF Struck, Availability, Fidelity, Temporal
<1>3. \A s : New(m, s, i) = MarkedReading(m, CleanAt(s, i), NewPayload(m, s, i))
  BY DEF New, Availability, Fidelity, Temporal
<1>4. CASE ~Active(m, i)
  <2>1. BatchFidelity(Episode, m, i) = c
    BY <1>4, Zenon DEF BatchFidelity
  <2>2. \A s \in Slots : Reading(m, s, i) = CleanAt(s, i)
    BY <1>2, <1>4 DEF Reading
  <2>3. [s \in Slots |-> Reading(m, s, i)] = [s \in Slots |-> CleanAt(s, i)]
    BY <2>2
  <2> QED BY <1>1, <2>1, <2>3, Zenon
<1>5. CASE Active(m, i)
  <2>1. BatchFidelity(Episode, m, i) = [c EXCEPT !.tactile = f]
    BY <1>5, Zenon DEF BatchFidelity, ReplaceSlots
  <2>2. \A s \in Slots : f[s] = Reading(m, s, i)
    <3> TAKE s \in Slots
    <3>1. c.tactile[s] = CleanAt(s, i)
      BY <1>1
    <3>2. CleanAt(s, i).payload = Frame(s, i) /\ CleanAt(s, i).phase = script[i + 1]
      BY DEF CleanAt, CleanReading
    <3>3. x(s) = NewPayload(m, s, i)
      BY <3>1, <3>2, Zenon DEF NewPayload
    <3>4. s \in S <=> Struck(m, s, i)
      <4>1. InContact(c.tactile[s].phase) <=> InContact(script[i + 1])
        BY <3>1, <3>2
      <4> QED BY <4>1, <1>2, <1>5, Zenon
    <3>5. f[s] = IF s \in S THEN MarkedReading(m, c.tactile[s], x(s)) ELSE c.tactile[s]
      OBVIOUS
    <3> HIDE DEF f, x, S, c
    <3> QED BY <3>1, <3>3, <3>4, <3>5, <1>3, Zenon DEF Reading
  <2>3. f = [s \in Slots |-> Reading(m, s, i)]
    <3>1. f = [s \in Slots |-> f[s]]
      OBVIOUS
    <3> HIDE DEF f
    <3> QED BY <2>2, <3>1
  <2> HIDE DEF c, f
  <2>4. [c EXCEPT !.tactile = f] = RecordOf(f, i)
    BY <1>1, Replaced
  <2> QED BY <2>1, <2>3, <2>4
<1> QED BY <1>4, <1>5

\* Temporal.
LEMMA TemporalReads ==
  ASSUME GateTyped, NEW i \in Steps, fault.operator \in Temporal
  PROVE  BatchTemporal(Episode, fault, i)
           = RecordOf([s \in Slots |-> Reading(fault, s, i)], i)
<1> DEFINE c == Episode[i + 1]
           m == fault
           S == {s \in Range(m.slots) : m.operator = "T2" => SourceIndex(m, s, i) # i}
           x(s) == Episode[SourceIndex(m, s, i) + 1].tactile[s]
           f == [s \in Slots |-> IF s \in S THEN RoutedReading(m, x(s), c.tactile[s])
                                 ELSE c.tactile[s]]
<1>1. /\ c = RecordOf([s \in Slots |-> CleanAt(s, i)], i)
      /\ \A s \in Slots : c.tactile[s] = CleanAt(s, i)
  BY EpisodeRecords
<1>2. \A s : Struck(m, s, i) <=>
               /\ Active(m, i) /\ s \in Range(m.slots)
               /\ m.operator = "T2" => SourceIndex(m, s, i) # i
  BY Zenon DEF Struck, Availability, Fidelity, Temporal
<1>3. \A s : New(m, s, i) = RoutedReading(m, CleanAt(s, SourceIndex(m, s, i)), CleanAt(s, i))
  BY DEF New, Availability, Fidelity, Temporal
<1>4. CASE ~Active(m, i)
  <2>1. BatchTemporal(Episode, m, i) = c
    BY <1>4, Zenon DEF BatchTemporal
  <2>2. \A s \in Slots : Reading(m, s, i) = CleanAt(s, i)
    BY <1>2, <1>4 DEF Reading
  <2>3. [s \in Slots |-> Reading(m, s, i)] = [s \in Slots |-> CleanAt(s, i)]
    BY <2>2
  <2> QED BY <1>1, <2>1, <2>3, Zenon
<1>5. CASE Active(m, i)
  <2>1. BatchTemporal(Episode, m, i) = [c EXCEPT !.tactile = f]
    BY <1>5, Zenon DEF BatchTemporal, ReplaceSlots
  <2>2. \A s \in Slots : f[s] = Reading(m, s, i)
    <3> TAKE s \in Slots
    <3>1. c.tactile[s] = CleanAt(s, i)
      BY <1>1
    <3>2. s \in Range(m.slots) => x(s) = CleanAt(s, SourceIndex(m, s, i))
      <4>1. PICK j : j = SourceIndex(m, s, i)
        OBVIOUS
      <4>2. j \in 0 .. i
        BY <1>5, <4>1, SourceIsPast DEF Active, GateTyped
      <4>3. j \in Steps
        BY <4>2, EpisodeRecords DEF Steps
      <4> QED BY <4>1, <4>3, EpisodeRecords
    <3>4. s \in S <=> Struck(m, s, i)
      BY <1>2, <1>5, Zenon
    <3>5. f[s] = IF s \in S THEN RoutedReading(m, x(s), c.tactile[s]) ELSE c.tactile[s]
      OBVIOUS
    <3>6. s \in S => s \in Range(m.slots)
      OBVIOUS
    <3> HIDE DEF f, x, S, c
    <3> QED BY <3>1, <3>2, <3>4, <3>5, <3>6, <1>3, Zenon DEF Reading
  <2>3. f = [s \in Slots |-> Reading(m, s, i)]
    <3>1. f = [s \in Slots |-> f[s]]
      OBVIOUS
    <3> HIDE DEF f
    <3> QED BY <2>2, <3>1
  <2> HIDE DEF c, f
  <2>4. [c EXCEPT !.tactile = f] = RecordOf(f, i)
    BY <1>1, Replaced
  <2> QED BY <2>1, <2>3, <2>4
<1> QED BY <1>4, <1>5

\* The other slot is another one.
LEMMA OtherSlot == ASSUME NEW s \in Slots PROVE Other(s) \in Slots /\ Other(s) # s
<1>1. \E t \in Slots : t # s
  BY DEF Slots
<1> QED BY <1>1 DEF Other

\* Context.
LEMMA ContextReads ==
  ASSUME GateTyped, NEW i \in Steps, fault.operator \in Context
  PROVE  BatchContext(Episode, fault, i)
           = RecordOf([s \in Slots |-> Reading(fault, s, i)], i)
<1> DEFINE c == Episode[i + 1]
           m == fault
           now == c.tactile
<1>1. /\ c = RecordOf([s \in Slots |-> CleanAt(s, i)], i)
      /\ \A s \in Slots : now[s] = CleanAt(s, i)
  BY EpisodeRecords
<1>2. \A s : /\ m.operator = "C1" => (Struck(m, s, i) <=> i \in AffectedIndices(m))
             /\ m.operator = "C2" =>
                  (Struck(m, s, i) <=> Active(m, i) /\ s \in Range(m.slots))
  BY DEF Struck, Availability, Fidelity, Temporal
<1>3. \A s : /\ m.operator = "C1" =>
                  New(m, s, i) = SwappedReading(m, CleanAt(Other(s), i), CleanAt(s, i))
             /\ m.operator = "C2" => New(m, s, i) = ShiftedReading(m, s, CleanAt(s, i))
  BY DEF New, Availability, Fidelity, Temporal
<1>4. CASE m.operator = "C1" /\ i \in AffectedIndices(m)
  <2> DEFINE f == [s \in Slots |-> IF s \in Slots THEN SwappedReading(m, now[Other(s)], now[s])
                                 ELSE now[s]]
  <2>1. BatchContext(Episode, m, i) = [c EXCEPT !.tactile = f]
    BY <1>4, Zenon DEF BatchContext, ReplaceSlots
  <2>2. \A s \in Slots : f[s] = Reading(m, s, i)
    <3> TAKE s \in Slots
    <3>1. now[s] = CleanAt(s, i) /\ now[Other(s)] = CleanAt(Other(s), i)
      BY <1>1, OtherSlot
    <3>2. f[s] = SwappedReading(m, now[Other(s)], now[s])
      OBVIOUS
    <3> HIDE DEF f, now
    <3> QED BY <3>1, <3>2, <1>2, <1>3, <1>4, Zenon DEF Reading
  <2>3. f = [s \in Slots |-> Reading(m, s, i)]
    <3>1. f = [s \in Slots |-> f[s]]
      OBVIOUS
    <3> HIDE DEF f
    <3> QED BY <2>2, <3>1
  <2> HIDE DEF c, f
  <2>4. [c EXCEPT !.tactile = f] = RecordOf(f, i)
    BY <1>1, Replaced
  <2> QED BY <2>1, <2>3, <2>4
<1>5. CASE m.operator = "C2" /\ Active(m, i)
  <2> DEFINE f == [s \in Slots |-> IF s \in Range(m.slots) THEN ShiftedReading(m, s, now[s])
                                 ELSE now[s]]
  <2>1. BatchContext(Episode, m, i) = [c EXCEPT !.tactile = f]
    <3>1. m.operator # "C1"
      BY <1>5
    <3> QED BY <1>5, <3>1, Zenon DEF BatchContext, ReplaceSlots
  <2>2. \A s \in Slots : f[s] = Reading(m, s, i)
    <3> TAKE s \in Slots
    <3>1. now[s] = CleanAt(s, i)
      BY <1>1
    <3>2. f[s] = IF s \in Range(m.slots) THEN ShiftedReading(m, s, now[s]) ELSE now[s]
      OBVIOUS
    <3> HIDE DEF f, now
    <3> QED BY <3>1, <3>2, <1>2, <1>3, <1>5, Zenon DEF Reading
  <2>3. f = [s \in Slots |-> Reading(m, s, i)]
    <3>1. f = [s \in Slots |-> f[s]]
      OBVIOUS
    <3> HIDE DEF f
    <3> QED BY <2>2, <3>1
  <2> HIDE DEF c, f
  <2>4. [c EXCEPT !.tactile = f] = RecordOf(f, i)
    BY <1>1, Replaced
  <2> QED BY <2>1, <2>3, <2>4
<1>6. CASE /\ ~(m.operator = "C1" /\ i \in AffectedIndices(m))
           /\ ~(m.operator = "C2" /\ Active(m, i))
  <2>1. BatchContext(Episode, m, i) = c
    BY <1>6, Zenon DEF BatchContext
  <2>2. \A s \in Slots : Reading(m, s, i) = CleanAt(s, i)
    BY <1>2, <1>6 DEF Reading, Context
  <2>3. [s \in Slots |-> Reading(m, s, i)] = [s \in Slots |-> CleanAt(s, i)]
    BY <2>2
  <2> QED BY <1>1, <2>1, <2>3, Zenon
<1> QED BY <1>4, <1>5, <1>6

\* Every operator delivers, at every step, the readings above and the clean rest.
LEMMA BatchReads ==
  ASSUME GateTyped
  PROVE  /\ DOMAIN Batch(Episode, fault) = 1 .. Len(script)
         /\ \A i \in Steps : Batch(Episode, fault)[i + 1]
                               = RecordOf([s \in Slots |-> Reading(fault, s, i)], i)
<1>1. Batch(Episode, fault) = [k \in 1 .. Len(script) |-> BatchRecord(Episode, fault, k - 1)]
  BY EpisodeRecords DEF Batch
<1>2. ASSUME NEW i \in Steps
      PROVE  Batch(Episode, fault)[i + 1]
               = RecordOf([s \in Slots |-> Reading(fault, s, i)], i)
  <2>1. i + 1 \in 1 .. Len(script) /\ (i + 1) - 1 = i
    BY EpisodeRecords DEF Steps
  <2>2. Batch(Episode, fault)[i + 1] = BatchRecord(Episode, fault, i)
    BY <1>1, <2>1
  <2>3. fault.operator \in Availability \cup Fidelity \cup Temporal \cup Context
    BY Zenon DEF GateTyped, FaultManifest, OperatorIds
  <2> QED BY <2>2, <2>3, Families, AvailabilityReads, FidelityReads, TemporalReads, ContextReads
<1> QED BY <1>1, <1>2

-----------------------------------------------------------------------------
(* What is seen of it.                                                       *)

\* Seeing a trace changes the pixels of its readings only.
LEMMA SeenRecord ==
  ASSUME NEW records, NEW k \in DOMAIN records, NEW f, NEW i, records[k] = RecordOf(f, i)
  PROVE  Seen(records)[k] = RecordOf([s \in Slots |-> Shown(f[s])], i)
<1>1. records[k].tactile = f
  BY DEF RecordOf
<1>2. Seen(records)[k]
        = [records[k] EXCEPT !.tactile = [s \in Slots |-> Shown(records[k].tactile[s])]]
  BY DEF Seen
<1>3. [s \in Slots |-> Shown(records[k].tactile[s])] = [s \in Slots |-> Shown(f[s])]
  BY <1>1
<1> QED BY <1>2, <1>3, Replaced

\* The clean trace and the faithful one.
LEMMA SeenTraces ==
  ASSUME GateTyped
  PROVE  /\ DOMAIN Clean = 1 .. Len(script)
         /\ DOMAIN Seen(Batch(Episode, fault)) = 1 .. Len(script)
         /\ \A i \in Steps :
              /\ Clean[i + 1] = RecordOf([s \in Slots |-> Shown(CleanAt(s, i))], i)
              /\ Seen(Batch(Episode, fault))[i + 1]
                   = RecordOf([s \in Slots |-> Shown(Reading(fault, s, i))], i)
<1>1. DOMAIN Clean = 1 .. Len(script) /\ DOMAIN Seen(Batch(Episode, fault)) = 1 .. Len(script)
  BY EpisodeRecords, BatchReads DEF Clean, Seen
<1>2. ASSUME NEW i \in Steps
      PROVE  /\ Clean[i + 1] = RecordOf([s \in Slots |-> Shown(CleanAt(s, i))], i)
             /\ Seen(Batch(Episode, fault))[i + 1]
                  = RecordOf([s \in Slots |-> Shown(Reading(fault, s, i))], i)
  <2>1. i + 1 \in 1 .. Len(script)
    BY EpisodeRecords DEF Steps
  <2> DEFINE c == [s \in Slots |-> CleanAt(s, i)]
             d == [s \in Slots |-> Reading(fault, s, i)]
  <2>2. Clean[i + 1] = RecordOf([s \in Slots |-> Shown(c[s])], i)
    <3> HIDE DEF c
    <3>1. Episode[i + 1] = RecordOf(c, i) /\ i + 1 \in DOMAIN Episode
      BY <2>1, EpisodeRecords DEF c
    <3> QED BY <3>1, SeenRecord DEF Clean
  <2>3. Seen(Batch(Episode, fault))[i + 1] = RecordOf([s \in Slots |-> Shown(d[s])], i)
    <3> HIDE DEF d
    <3>1. /\ Batch(Episode, fault)[i + 1] = RecordOf(d, i)
          /\ i + 1 \in DOMAIN Batch(Episode, fault)
      BY <2>1, BatchReads DEF d
    <3> QED BY <3>1, SeenRecord
  <2>4. [s \in Slots |-> Shown(c[s])] = [s \in Slots |-> Shown(CleanAt(s, i))]
    OBVIOUS
  <2>5. [s \in Slots |-> Shown(d[s])] = [s \in Slots |-> Shown(Reading(fault, s, i))]
    OBVIOUS
  <2> HIDE DEF c, d
  <2> QED BY <2>2, <2>3, <2>4, <2>5
<1> QED BY <1>1, <1>2

\* The gate passes a trace when every part of it does.
LEMMA GateParts ==
  ASSUME NEW m
  PROVE  Gate(m) = {} <=>
           /\ Len(trace) = Len(script)
           /\ OutsideCodes(m) = {} /\ WriteSetCodes(m) = {} /\ ProvenanceCodes(m) = {}
           /\ AvailabilityCodes(m) = {} /\ Inactive(m) = {} /\ OperatorCodes(m) = {}
           /\ ResumeCodes(m) = {}
<1>1. CASE Len(trace) # Len(script)
  <2>1. ValidateDelivery(m) = {"LENGTH_MISMATCH"}
    BY <1>1, SMT DEF ValidateDelivery
  <2> QED BY <1>1, <2>1 DEF Gate
<1>2. CASE Len(trace) = Len(script)
  <2> DEFINE parts == {OutsideCodes(m), WriteSetCodes(m), ProvenanceCodes(m),
                       AvailabilityCodes(m), Inactive(m), OperatorCodes(m)}
  <2>1. ValidateDelivery(m) = UNION parts
    BY <1>2 DEF ValidateDelivery
  <2>2. \A codes \in parts : codes \subseteq UNION parts
    BY Zenon
  <2>3. \A code \in UNION parts : \E codes \in parts : code \in codes
    BY Zenon
  <2>4. Gate(m) = {} <=> UNION parts = {} /\ ResumeCodes(m) = {}
    BY <2>1 DEF Gate
  <2>5. UNION parts = {} <=> \A codes \in parts : codes = {}
    <3> HIDE DEF parts
    <3> QED BY <2>2, <2>3
  <2>6. (\A codes \in parts : codes = {}) <=>
          /\ OutsideCodes(m) = {} /\ WriteSetCodes(m) = {} /\ ProvenanceCodes(m) = {}
          /\ AvailabilityCodes(m) = {} /\ Inactive(m) = {} /\ OperatorCodes(m) = {}
    BY Zenon
  <2> HIDE DEF parts
  <2> QED BY <1>2, <2>4, <2>5, <2>6, Zenon
<1> QED BY <1>1, <1>2

\* A slot that is not struck shows the clean reading.
LEMMA Unstruck ==
  ASSUME GateTyped, NEW i \in Steps, NEW s \in Slots
  PROVE  /\ ~Active(fault, i) => ~Struck(fault, s, i)
         /\ s \notin Range(fault.slots) => ~Struck(fault, s, i)
         /\ ~Struck(fault, s, i) => Shown(Reading(fault, s, i)) = Shown(CleanAt(s, i))
<1>1. fault \in FaultManifest
  BY DEF GateTyped
<1>2. i \in AffectedIndices(fault) => Active(fault, i)
  BY <1>1, AffectedInWindow DEF Active
<1>3. fault.operator = "C1" => s \in Range(fault.slots)
  BY <1>1, SwapsBoth
<1>4. fault.operator \in Availability \cup Fidelity \cup Temporal \cup {"C1", "C2"}
  BY <1>1, Zenon DEF FaultManifest, OperatorIds, Context
<1>5. Struck(fault, s, i) => Active(fault, i) /\ s \in Range(fault.slots)
  BY <1>2, <1>3, <1>4 DEF Struck, Availability, Fidelity, Temporal
<1> QED BY <1>5 DEF Reading

\* Reading a spot of the trace, and of the clean trace.
LEMMA Spotted ==
  ASSUME GateTyped, NEW i \in Steps, NEW s \in Slots
  PROVE  /\ <<i, s>>[1] = i /\ <<i, s>>[2] = s
         /\ Faulty(<<i, s>>) = trace[i + 1].tactile[s]
         /\ Healthy(<<i, s>>) = Shown(CleanAt(s, i))
         /\ Clean[i + 1].scene = i
         /\ Clean[i + 1].tactile[s] = Shown(CleanAt(s, i))
<1>1. Clean[i + 1] = RecordOf([t \in Slots |-> Shown(CleanAt(t, i))], i)
  BY SeenTraces
<1> DEFINE c == Clean[i + 1]
<1>2. c.scene = i /\ c.tactile[s] = Shown(CleanAt(s, i))
  <2> HIDE DEF c
  <2>1. c = RecordOf([t \in Slots |-> Shown(CleanAt(t, i))], i)
    BY <1>1 DEF c
  <2> QED BY <2>1 DEF RecordOf
<1>3. <<i, s>>[1] = i /\ <<i, s>>[2] = s
  OBVIOUS
<1>4. Faulty(<<i, s>>) = trace[i + 1].tactile[s] /\ Healthy(<<i, s>>) = Clean[i + 1].tactile[s]
  BY <1>3, Zenon DEF Faulty, Healthy, At
<1> QED BY <1>2, <1>3, <1>4

\* The fields of a reading.
Fields == {"payload", "valid", "delivered", "calibration", "source", "index", "hash",
           "calibrated", "phase", "faults"}

\* A clean reading, field by field.
LEMMA SpelledClean ==
  ASSUME NEW s, NEW i, NEW c, c = CleanAt(s, i)
  PROVE  /\ DOMAIN c = Fields
         /\ c.payload = Frame(s, i) /\ c.hash = Frame(s, i) /\ c.valid = "true"
         /\ c.delivered = i /\ c.source = s /\ c.index = i
         /\ c.calibrated = s /\ c.faults = {}
<1>1. PICK p : p = script[i + 1]
  OBVIOUS
<1>2. c = CleanReading(s, i, p)
  BY <1>1 DEF CleanAt
<1>3. DOMAIN c = Fields
  BY <1>2 DEF CleanReading, Fields
<1>4. c.payload = Frame(s, i) /\ c.hash = Frame(s, i) /\ c.valid = "true"
  BY <1>2 DEF CleanReading
<1>5. c.delivered = i /\ c.source = s /\ c.index = i /\ c.calibrated = s /\ c.faults = {}
  BY <1>2 DEF CleanReading
<1> QED BY <1>3, <1>4, <1>5

\* What a view shows of a reading: its pixels, and the rest as it is.
LEMMA SpelledShown ==
  ASSUME NEW x, DOMAIN x = Fields, NEW r, r = Shown(x)
  PROVE  /\ r.payload = Pixels(x.payload) /\ r.hash = Pixels(x.hash)
         /\ r.valid = x.valid /\ r.delivered = x.delivered /\ r.source = x.source
         /\ r.index = x.index /\ r.calibrated = x.calibrated /\ r.faults = x.faults
<1>1. r.payload = Pixels(x.payload) /\ r.hash = Pixels(x.hash)
  BY DEF Shown, Fields
<1>2. r.valid = x.valid /\ r.delivered = x.delivered /\ r.source = x.source
  BY DEF Shown, Fields
<1>3. r.index = x.index /\ r.calibrated = x.calibrated /\ r.faults = x.faults
  BY DEF Shown, Fields
<1> QED BY <1>1, <1>2, <1>3

\* What is shown of a clean reading.
LEMMA ShownClean ==
  ASSUME NEW s, NEW i, NEW r, r = Shown(CleanAt(s, i))
  PROVE  /\ r.payload = Pixels(Frame(s, i)) /\ r.hash = Pixels(Frame(s, i))
         /\ r.valid = "true" /\ r.delivered = i /\ r.source = s /\ r.index = i
         /\ r.calibrated = s /\ r.faults = {}
<1>1. PICK c : c = CleanAt(s, i)
  OBVIOUS
<1>2. r = Shown(c)
  BY <1>1
<1> QED BY <1>1, <1>2, SpelledClean, SpelledShown

\* What is shown of an erased reading.
LEMMA ShownAbsent ==
  ASSUME NEW m, m.operator \in Availability, NEW s, NEW i, NEW r, r = Shown(New(m, s, i))
  PROVE  /\ r.payload = Pixels(NoPayload) /\ r.hash = Pixels(NoPayload)
         /\ r.valid = (IF m.declared THEN "false" ELSE "null")
         /\ r.delivered = i /\ r.index = NoIndex /\ r.faults = {m.operator}
<1>1. New(m, s, i) = AbsentReading(m, CleanAt(s, i))
  BY DEF New, Availability, Fidelity, Temporal
<1>2. PICK c : c = CleanAt(s, i)
  OBVIOUS
<1>3. PICK x : x = AbsentReading(m, c)
  OBVIOUS
<1>4. DOMAIN c = Fields /\ c.delivered = i
  BY <1>2, SpelledClean
<1>5. DOMAIN x = Fields
  BY <1>3, <1>4 DEF AbsentReading
<1>6. /\ x.payload = NoPayload /\ x.hash = NoPayload
      /\ x.valid = IF m.declared THEN "false" ELSE "null"
  BY <1>3, <1>4 DEF AbsentReading, Fields
<1>7. x.delivered = i /\ x.index = NoIndex /\ x.faults = {m.operator}
  BY <1>3, <1>4 DEF AbsentReading, Fields
<1>8. r = Shown(x)
  BY <1>1, <1>2, <1>3
<1> QED BY <1>5, <1>6, <1>7, <1>8, SpelledShown

\* A transformed one.
LEMMA ShownMarked ==
  ASSUME NEW m, m.operator \in Fidelity, NEW s, NEW i, NEW r, r = Shown(New(m, s, i))
  PROVE  /\ r.payload = Pixels(NewPayload(m, s, i)) /\ r.hash = Pixels(NewPayload(m, s, i))
         /\ r.valid = FaultValidity(m, "true") /\ r.delivered = i
         /\ r.index = i /\ r.faults = {m.operator}
<1>1. New(m, s, i) = MarkedReading(m, CleanAt(s, i), NewPayload(m, s, i))
  BY DEF New, Availability, Fidelity, Temporal
<1>2. PICK x : x = NewPayload(m, s, i)
  OBVIOUS
<1>3. PICK c : c = CleanAt(s, i)
  OBVIOUS
<1>4. PICK y : y = MarkedReading(m, c, x)
  OBVIOUS
<1>5. /\ DOMAIN c = Fields /\ c.valid = "true" /\ c.delivered = i /\ c.index = i
      /\ c.faults = {}
  BY <1>3, SpelledClean
<1>6. DOMAIN y = Fields
  BY <1>4, <1>5 DEF MarkedReading
<1>7. y.payload = x /\ y.hash = x /\ y.valid = FaultValidity(m, "true")
  BY <1>4, <1>5 DEF MarkedReading, Fields
<1>8. y.delivered = i /\ y.index = i /\ y.faults = {m.operator}
  BY <1>4, <1>5 DEF MarkedReading, Fields
<1>9. r = Shown(y)
  BY <1>1, <1>2, <1>3, <1>4
<1> QED BY <1>2, <1>6, <1>7, <1>8, <1>9, SpelledShown

\* A clean reading delivered as another one, field by field.
LEMMA SpelledRouted ==
  ASSUME NEW m, NEW s, NEW j, NEW d, d = CleanAt(s, j), NEW c,
         NEW x, x = RoutedReading(m, d, c)
  PROVE  /\ DOMAIN x = Fields
         /\ x.payload = Frame(s, j) /\ x.hash = Frame(s, j) /\ x.source = s /\ x.index = j
         /\ x.delivered = c.delivered /\ x.valid = FaultValidity(m, c.valid)
         /\ x.faults = {m.operator}
<1>1. /\ DOMAIN d = Fields /\ d.payload = Frame(s, j) /\ d.hash = Frame(s, j)
      /\ d.source = s /\ d.index = j
  BY SpelledClean
<1>2. DOMAIN x = Fields
  BY <1>1 DEF RoutedReading
<1>3. x.payload = d.payload /\ x.hash = d.hash /\ x.source = d.source /\ x.index = d.index
  BY <1>1 DEF RoutedReading, Fields
<1>4. /\ x.delivered = c.delivered /\ x.valid = FaultValidity(m, c.valid)
      /\ x.faults = {m.operator}
  BY <1>1 DEF RoutedReading, Fields
<1> QED BY <1>1, <1>2, <1>3, <1>4

\* One of another step.
LEMMA ShownRouted ==
  ASSUME NEW m, m.operator \in Temporal, NEW s, NEW i, NEW r, r = Shown(New(m, s, i)),
         NEW j, j = SourceIndex(m, s, i)
  PROVE  /\ r.payload = Pixels(Frame(s, j)) /\ r.hash = Pixels(Frame(s, j))
         /\ r.valid = FaultValidity(m, "true") /\ r.delivered = i
         /\ r.source = s /\ r.index = j /\ r.faults = {m.operator}
<1>1. New(m, s, i) = RoutedReading(m, CleanAt(s, j), CleanAt(s, i))
  BY DEF New, Availability, Fidelity, Temporal
<1>2. PICK c, d : c = CleanAt(s, i) /\ d = CleanAt(s, j)
  OBVIOUS
<1>3. PICK x : x = RoutedReading(m, d, c)
  OBVIOUS
<1>4. c.valid = "true" /\ c.delivered = i
  BY <1>2, SpelledClean
<1>5. /\ DOMAIN x = Fields
      /\ x.payload = Frame(s, j) /\ x.hash = Frame(s, j) /\ x.source = s /\ x.index = j
      /\ x.delivered = c.delivered /\ x.valid = FaultValidity(m, c.valid)
      /\ x.faults = {m.operator}
  BY <1>2, <1>3, SpelledRouted
<1>6. r = Shown(x)
  BY <1>1, <1>2, <1>3
<1> QED BY <1>4, <1>5, <1>6, SpelledShown

\* One of the other camera.
LEMMA ShownSwapped ==
  ASSUME NEW m, m.operator = "C1", NEW s, NEW i, NEW r, r = Shown(New(m, s, i)),
         NEW o, o = Other(s)
  PROVE  /\ r.payload = Pixels(Frame(o, i)) /\ r.hash = Pixels(Frame(o, i))
         /\ r.valid = FaultValidity(m, "true") /\ r.delivered = i
         /\ r.source = o /\ r.index = i /\ r.faults = {m.operator}
<1>1. New(m, s, i) = SwappedReading(m, CleanAt(o, i), CleanAt(s, i))
  BY DEF New, Availability, Fidelity, Temporal
<1>2. PICK c, d : c = CleanAt(s, i) /\ d = CleanAt(o, i)
  OBVIOUS
<1>3. PICK x : x = RoutedReading(m, d, c)
  OBVIOUS
<1>4. PICK y : y = [x EXCEPT !.calibration = c.calibration]
  OBVIOUS
<1>5. c.valid = "true" /\ c.delivered = i
  BY <1>2, SpelledClean
<1>6. /\ DOMAIN x = Fields
      /\ x.payload = Frame(o, i) /\ x.hash = Frame(o, i) /\ x.source = o /\ x.index = i
      /\ x.delivered = c.delivered /\ x.valid = FaultValidity(m, c.valid)
      /\ x.faults = {m.operator}
  BY <1>2, <1>3, SpelledRouted
<1>7. DOMAIN y = Fields
  BY <1>4, <1>6
<1>8. /\ y.payload = x.payload /\ y.hash = x.hash /\ y.source = x.source /\ y.index = x.index
      /\ y.delivered = x.delivered /\ y.valid = x.valid /\ y.faults = x.faults
  BY <1>4, <1>6 DEF Fields
<1>9. r = Shown(y)
  BY <1>1, <1>2, <1>3, <1>4 DEF SwappedReading
<1> QED BY <1>5, <1>6, <1>7, <1>8, <1>9, SpelledShown

\* A shifted one.
LEMMA ShownShifted ==
  ASSUME NEW m, m.operator = "C2", NEW s, NEW i, NEW r, r = Shown(New(m, s, i))
  PROVE  /\ r.payload = Pixels(<<"C2", Frame(s, i), Rest(s)>>)
         /\ r.hash = Pixels(<<"C2", Frame(s, i), Rest(s)>>)
         /\ r.valid = FaultValidity(m, "true") /\ r.delivered = i
         /\ r.index = i /\ r.faults = {m.operator}
<1>1. New(m, s, i) = ShiftedReading(m, s, CleanAt(s, i))
  BY DEF New, Availability, Fidelity, Temporal
<1>2. PICK c : c = CleanAt(s, i)
  OBVIOUS
<1>3. PICK x : x = ShiftedReading(m, s, c)
  OBVIOUS
<1>4. /\ DOMAIN c = Fields /\ c.payload = Frame(s, i) /\ c.valid = "true"
      /\ c.delivered = i /\ c.index = i
  BY <1>2, SpelledClean
<1>5. DOMAIN x = Fields
  BY <1>3, <1>4 DEF ShiftedReading
<1>6. PICK p : p = <<"C2", c.payload, Rest(s)>>
  OBVIOUS
<1>7. x.payload = p /\ x.hash = p /\ x.valid = FaultValidity(m, "true")
  BY <1>3, <1>4, <1>6 DEF ShiftedReading, Fields
<1>8. x.delivered = i /\ x.index = i /\ x.faults = {m.operator}
  BY <1>3, <1>4 DEF ShiftedReading, Fields
<1>9. p = <<"C2", Frame(s, i), Rest(s)>> /\ r = Shown(x)
  BY <1>1, <1>2, <1>3, <1>4, <1>6
<1> QED BY <1>5, <1>7, <1>8, <1>9, SpelledShown

\* When nothing but the window differs.
LEMMA OutsideHolds ==
  ASSUME NEW m
  PROVE  OutsideCodes(m) = {} <=>
           /\ \A k \in DOMAIN trace : trace[k].paired = Clean[k].paired
           /\ \A i \in 0 .. Len(trace) - 1 : ~Active(m, i) =>
                trace[i + 1].tactile = Clean[i + 1].tactile
                /\ trace[i + 1].scene = Clean[i + 1].scene
<1> DEFINE A == \E k \in DOMAIN trace : trace[k].paired # Clean[k].paired
           outside == {i \in 0 .. Len(trace) - 1 : ~Active(m, i)}
           B == \E i \in outside : trace[i + 1].tactile # Clean[i + 1].tactile
                                   \/ trace[i + 1].scene # Clean[i + 1].scene
<1>1. OutsideCodes(m) = (IF A THEN {"CLEAN_REFERENCE_MISMATCH"} ELSE {})
                        \cup (IF B THEN {"OUTSIDE_WINDOW_CHANGED"} ELSE {})
  BY Zenon DEF OutsideCodes, Code
<1>2. ~A <=> \A k \in DOMAIN trace : trace[k].paired = Clean[k].paired
  BY Zenon
<1>3. ~B <=> \A i \in 0 .. Len(trace) - 1 : ~Active(m, i) =>
                trace[i + 1].tactile = Clean[i + 1].tactile
                /\ trace[i + 1].scene = Clean[i + 1].scene
  BY Zenon
<1> HIDE DEF A, B
<1>4. OutsideCodes(m) = {} <=> ~A /\ ~B
  BY <1>1
<1> QED BY <1>2, <1>3, <1>4, Zenon

\* When nothing but the slots differs.
LEMMA WriteSetHolds ==
  ASSUME NEW m
  PROVE  WriteSetCodes(m) = {} <=>
           \A i \in InTrace(m) :
             /\ trace[i + 1].scene = Clean[i + 1].scene
             /\ \A s \in Slots \ Range(m.slots) :
                  trace[i + 1].tactile[s] = Clean[i + 1].tactile[s]
<1> DEFINE A == \E i \in InTrace(m) :
                  \/ trace[i + 1].scene # Clean[i + 1].scene
                  \/ \E s \in Slots \ Range(m.slots) :
                       trace[i + 1].tactile[s] # Clean[i + 1].tactile[s]
<1>1. WriteSetCodes(m) = IF A THEN {"WRITE_SET_VIOLATION"} ELSE {}
  BY Zenon DEF WriteSetCodes, Code
<1>2. ~A <=> \A i \in InTrace(m) :
               /\ trace[i + 1].scene = Clean[i + 1].scene
               /\ \A s \in Slots \ Range(m.slots) :
                    trace[i + 1].tactile[s] = Clean[i + 1].tactile[s]
  BY Zenon
<1> HIDE DEF A
<1>3. WriteSetCodes(m) = {} <=> ~A
  BY <1>1
<1> QED BY <1>2, <1>3, Zenon

\* When the provenance of every reading of the window is in order.
LEMMA ProvenanceHolds ==
  ASSUME NEW m
  PROVE  ProvenanceCodes(m) = {} <=>
           \A spot \in Spots(m) :
             /\ Faulty(spot) # Healthy(spot) => FaultIsActive(m, spot)
             /\ FaultIsActive(m, spot) => Faulty(spot).valid = ExpectedValidity(m, spot)
             /\ ~(Faulty(spot).index > spot[1])
             /\ Faulty(spot).payload # NoPayload => Faulty(spot).payload = Faulty(spot).hash
<1> DEFINE A == \E spot \in Spots(m) : Faulty(spot) # Healthy(spot) /\ ~FaultIsActive(m, spot)
           B == \E spot \in Spots(m) : /\ FaultIsActive(m, spot)
                                       /\ Faulty(spot).valid # ExpectedValidity(m, spot)
           C == \E spot \in Spots(m) : Faulty(spot).index > spot[1]
           D == \E spot \in Spots(m) : /\ Faulty(spot).payload # NoPayload
                                       /\ Faulty(spot).payload # Faulty(spot).hash
<1>1. ProvenanceCodes(m) = (IF A THEN {"MISSING_FAULT_PROVENANCE"} ELSE {})
                           \cup (IF B THEN {"OBSERVABILITY_MISMATCH"} ELSE {})
                           \cup (IF C THEN {"FUTURE_SOURCE"} ELSE {})
                           \cup (IF D THEN {"SOURCE_PAYLOAD_MISMATCH"} ELSE {})
  BY Zenon DEF ProvenanceCodes, Code
<1>2. ~A /\ ~B /\ ~C /\ ~D <=>
        \A spot \in Spots(m) :
          /\ Faulty(spot) # Healthy(spot) => FaultIsActive(m, spot)
          /\ FaultIsActive(m, spot) => Faulty(spot).valid = ExpectedValidity(m, spot)
          /\ ~(Faulty(spot).index > spot[1])
          /\ Faulty(spot).payload # NoPayload => Faulty(spot).payload = Faulty(spot).hash
  BY Zenon
<1> HIDE DEF A, B, C, D
<1>3. ProvenanceCodes(m) = {} <=> ~A /\ ~B /\ ~C /\ ~D
  BY <1>1
<1> QED BY <1>2, <1>3, Zenon

\* When exactly what an availability fault erases is missing.
LEMMA AvailabilityHolds ==
  ASSUME NEW m
  PROVE  AvailabilityCodes(m) = {} <=>
           /\ \A spot \in Spots(m) : spot[1] \in Erased(m) =>
                /\ Faulty(spot).payload = NoPayload
                /\ Faulty(spot).index = NoIndex
                /\ Faulty(spot).hash = NoPayload
                /\ Faulty(spot).valid = IF m.declared THEN "false" ELSE "null"
           /\ m.operator \in Availability =>
                \A spot \in Spots(m) : spot[1] \notin Erased(m) => Faulty(spot) = Healthy(spot)
           /\ m.operator \notin Availability =>
                \A spot \in Spots(m) : Faulty(spot).payload # NoPayload
<1> DEFINE absent == {spot \in Spots(m) : spot[1] \in Erased(m)}
           A == \E spot \in absent : Faulty(spot).payload # NoPayload
           B == \E spot \in absent : \/ Faulty(spot).index # NoIndex
                                     \/ Faulty(spot).hash # NoPayload
           C == \E spot \in absent :
                  Faulty(spot).valid # IF m.declared THEN "false" ELSE "null"
           D == /\ m.operator \in Availability
                /\ \E spot \in Spots(m) \ absent : Faulty(spot) # Healthy(spot)
           E == /\ m.operator \notin Availability
                /\ \E spot \in Spots(m) : Faulty(spot).payload = NoPayload
<1>1. AvailabilityCodes(m) = (IF A THEN {"ABSENCE_NOT_STRUCTURAL"} ELSE {})
                             \cup (IF B THEN {"ABSENCE_SOURCE_NOT_NULL"} ELSE {})
                             \cup (IF C THEN {"OBSERVABILITY_MISMATCH"} ELSE {})
                             \cup (IF D THEN {"NATIVE_FOOTPRINT_VIOLATION"} ELSE {})
                             \cup (IF E THEN {"NON_AVAILABILITY_REMOVED_PAYLOAD"} ELSE {})
  BY Zenon DEF AvailabilityCodes, Code
<1>2. ~A /\ ~B /\ ~C <=>
        \A spot \in Spots(m) : spot[1] \in Erased(m) =>
          /\ Faulty(spot).payload = NoPayload
          /\ Faulty(spot).index = NoIndex
          /\ Faulty(spot).hash = NoPayload
          /\ Faulty(spot).valid = IF m.declared THEN "false" ELSE "null"
  BY Zenon
<1>3. ~D <=> (m.operator \in Availability =>
                \A spot \in Spots(m) : spot[1] \notin Erased(m) => Faulty(spot) = Healthy(spot))
  BY Zenon
<1>4. ~E <=> (m.operator \notin Availability =>
                \A spot \in Spots(m) : Faulty(spot).payload # NoPayload)
  BY Zenon
<1> HIDE DEF A, B, C, D, E
<1>5. AvailabilityCodes(m) = {} <=> ~A /\ ~B /\ ~C /\ ~D /\ ~E
  BY <1>1
<1> QED BY <1>2, <1>3, <1>4, <1>5, Zenon

\* T1: every reading is late by the registered lag.
LEMMA DelayHolds ==
  ASSUME NEW m
  PROVE  DelayCodes(m) = {} <=>
           \A spot \in Spots(m) : RoutedFrom(spot, spot[2], SourceIndex(m, spot[2], spot[1]))
<1> DEFINE A == \E spot \in Spots(m) :
                  ~RoutedFrom(spot, spot[2], SourceIndex(m, spot[2], spot[1]))
<1>1. DelayCodes(m) = IF A THEN {"ROUTED_SOURCE_MISMATCH"} ELSE {}
  BY Zenon DEF DelayCodes, MisroutedCodes, Code, Same
<1> QED BY <1>1, Zenon

\* T2: the reading before the window is held, and then let go.
LEMMA FreezeHolds ==
  ASSUME NEW m
  PROVE  FreezeCodes(m) = {} <=>
           /\ \A s \in Range(m.slots) :
                Cardinality({trace[i + 1].tactile[s].index : i \in Frozen(m)}) = 1
           /\ \A spot \in Frozen(m) \X Range(m.slots) :
                RoutedFrom(spot, spot[2], HeldIndex(m))
           /\ \A spot \in Spots(m) : spot[1] \notin Frozen(m) => Faulty(spot) = Healthy(spot)
<1> DEFINE A == \E s \in Range(m.slots) :
                  Cardinality({trace[i + 1].tactile[s].index : i \in Frozen(m)}) # 1
           B == \E spot \in Frozen(m) \X Range(m.slots) :
                  ~RoutedFrom(spot, spot[2], HeldIndex(m))
           C == \E spot \in Spots(m) :
                  spot[1] \notin Frozen(m) /\ Faulty(spot) # Healthy(spot)
<1>1. FreezeCodes(m) = (IF A THEN {"FREEZE_NOT_HELD"} ELSE {})
                       \cup (IF B THEN {"ROUTED_SOURCE_MISMATCH"} ELSE {})
                       \cup (IF C THEN {"NATIVE_FOOTPRINT_VIOLATION"} ELSE {})
  BY Zenon DEF FreezeCodes, MisroutedCodes, Code, Same
<1>2. ~A <=> \A s \in Range(m.slots) :
                Cardinality({trace[i + 1].tactile[s].index : i \in Frozen(m)}) = 1
  BY Zenon
<1>3. ~B <=> \A spot \in Frozen(m) \X Range(m.slots) :
                RoutedFrom(spot, spot[2], HeldIndex(m))
  BY Zenon
<1>4. ~C <=> \A spot \in Spots(m) : spot[1] \notin Frozen(m) => Faulty(spot) = Healthy(spot)
  BY Zenon
<1> HIDE DEF A, B, C
<1>5. FreezeCodes(m) = {} <=> ~A /\ ~B /\ ~C
  BY <1>1
<1> QED BY <1>2, <1>3, <1>4, <1>5, Zenon

\* The steps of the window at which every slot has a source, and their sources.
SourcesAt(m, i) == {trace[i + 1].tactile[s].index : s \in Range(m.slots)}
Concrete(m)     == {i \in InTrace(m) : NoIndex \notin SourcesAt(m, i)}

\* T3: one slot is behind the other.
LEMMA SkewHolds ==
  ASSUME NEW m
  PROVE  SkewCodes(m) = {} <=>
           /\ InTrace(m) = Concrete(m)
           /\ \A spot \in Spots(m) : spot[1] \in Concrete(m) =>
                RoutedFrom(spot, spot[2], SourceIndex(m, spot[2], spot[1]))
           /\ \E i \in Concrete(m) : Cardinality(SourcesAt(m, i)) # 1
<1> DEFINE A == InTrace(m) # Concrete(m)
           B == \E spot \in {x \in Spots(m) : x[1] \in Concrete(m)} :
                  ~RoutedFrom(spot, spot[2], SourceIndex(m, spot[2], spot[1]))
           C == \A i \in Concrete(m) : Cardinality(SourcesAt(m, i)) = 1
<1>1. SkewCodes(m) = (IF A THEN {"SOURCE_INDEX_MISMATCH"} ELSE {})
                     \cup (IF B THEN {"ROUTED_SOURCE_MISMATCH"} ELSE {})
                     \cup (IF C THEN {"NO_INTER_SENSOR_SKEW"} ELSE {})
  BY Zenon DEF SkewCodes, MisroutedCodes, Code, Same, Concrete, SourcesAt
<1>2. ~B <=> \A spot \in Spots(m) : spot[1] \in Concrete(m) =>
               RoutedFrom(spot, spot[2], SourceIndex(m, spot[2], spot[1]))
  BY Zenon
<1>3. ~C <=> \E i \in Concrete(m) : Cardinality(SourcesAt(m, i)) # 1
  BY Zenon
<1> HIDE DEF B, C
<1>4. SkewCodes(m) = {} <=> ~A /\ ~B /\ ~C
  BY <1>1
<1> QED BY <1>2, <1>3, <1>4, Zenon

Swapped(m) == {i \in AffectedIndices(m) : i < Len(trace)} \X Range(m.slots)

\* C1: the cameras are exchanged at the scheduled steps and nowhere else.
LEMMA IdentityHolds ==
  ASSUME NEW m
  PROVE  IdentityCodes(m) = {} <=>
           /\ \A spot \in Swapped(m) : RoutedFrom(spot, Other(spot[2]), spot[1])
           /\ \A spot \in Spots(m) \ Swapped(m) : Faulty(spot) = Healthy(spot)
           /\ \E spot \in Swapped(m) : Faulty(spot).source # spot[2]
<1> DEFINE A == \E spot \in Swapped(m) : ~RoutedFrom(spot, Other(spot[2]), spot[1])
           B == \E spot \in Spots(m) \ Swapped(m) : Faulty(spot) # Healthy(spot)
           C == \A spot \in Swapped(m) : Faulty(spot).source = spot[2]
<1>1. IdentityCodes(m) = (IF A THEN {"ROUTED_SOURCE_MISMATCH"} ELSE {})
                         \cup (IF B THEN {"NATIVE_FOOTPRINT_VIOLATION"} ELSE {})
                         \cup (IF C THEN {"NO_IDENTITY_MISROUTING"} ELSE {})
  BY Zenon DEF IdentityCodes, MisroutedCodes, Code, Swapped
<1>2. ~A <=> \A spot \in Swapped(m) : RoutedFrom(spot, Other(spot[2]), spot[1])
  BY Zenon
<1>3. ~B <=> \A spot \in Spots(m) \ Swapped(m) : Faulty(spot) = Healthy(spot)
  BY Zenon
<1>4. ~C <=> \E spot \in Swapped(m) : Faulty(spot).source # spot[2]
  BY Zenon
<1> HIDE DEF A, B, C
<1>5. IdentityCodes(m) = {} <=> ~A /\ ~B /\ ~C
  BY <1>1
<1> QED BY <1>2, <1>3, <1>4, <1>5, Zenon

\* The fidelity operators and C2: the pixels of the reference, and a dose.
LEMMA SignatureHolds ==
  ASSUME NEW m
  PROVE  SignatureCodes(m) = {} <=>
           /\ Matched(m) /\ Dosed(m) /\ DiagnosticCodes(m) = {}
           /\ m.operator = "C2" =>
                \E spot \in Spots(m) : Faulty(spot).calibrated # Healthy(spot).calibrated
<1> DEFINE A == ~Dosed(m) \/ (~Matched(m) /\ ~\E spot \in Pairs(m, Anywhere) : Changed(spot))
           B == ~Matched(m)
           C == /\ m.operator = "C2"
                /\ \A spot \in Spots(m) : Faulty(spot).calibrated = Healthy(spot).calibrated
<1>1. SignatureCodes(m) = (IF A THEN {"SIGNATURE_NOT_DELIVERED"} ELSE {})
                          \cup (IF B THEN {"OPERATOR_SIGNATURE_MISMATCH"} ELSE {})
                          \cup DiagnosticCodes(m)
                          \cup (IF C THEN {"CALIBRATION_PROVENANCE_UNCHANGED"} ELSE {})
  BY Zenon DEF SignatureCodes, Code
<1>2. ~C <=> (m.operator = "C2" =>
                \E spot \in Spots(m) : Faulty(spot).calibrated # Healthy(spot).calibrated)
  BY Zenon
<1>3. ~A /\ ~B <=> Matched(m) /\ Dosed(m)
  BY Zenon
<1> HIDE DEF A, B, C
<1>4. SignatureCodes(m) = {} <=> ~A /\ ~B /\ ~C /\ DiagnosticCodes(m) = {}
  BY <1>1
<1> QED BY <1>2, <1>3, <1>4, Zenon

\* A spot of the window.
LEMMA SpotOf ==
  ASSUME GateTyped, Len(trace) = Len(script), NEW m, NEW i \in Steps, Active(m, i)
  PROVE  i \in InTrace(m) /\ \A s \in Range(m.slots) : <<i, s>> \in Spots(m)
<1>1. i < Len(script)
  BY EpisodeRecords DEF Steps
<1>2. i \in InTrace(m)
  BY <1>1 DEF InTrace, Active
<1> QED BY <1>2 DEF Spots

\* A reading that is routed from a clean one shows its pixels.
LEMMA RoutedShows ==
  ASSUME GateTyped, NEW i \in Steps, NEW s \in Slots, <<i, s>> \in Spots(fault),
         ProvenanceCodes(fault) = {}, AvailabilityCodes(fault) = {},
         fault.operator \notin Availability,
         NEW j \in Steps, NEW t \in Slots, RoutedFrom(<<i, s>>, t, j)
  PROVE  Faulty(<<i, s>>).payload = Pixels(Frame(t, j))
<1>1. Faulty(<<i, s>>).payload # NoPayload
  BY AvailabilityHolds
<1>2. Faulty(<<i, s>>).payload = Faulty(<<i, s>>).hash
  BY <1>1, ProvenanceHolds
<1>3. Faulty(<<i, s>>).hash = Clean[j + 1].tactile[t].hash
  BY Zenon DEF RoutedFrom
<1>4. Clean[j + 1].tactile[t] = Shown(CleanAt(t, j))
  BY Spotted
<1>5. Clean[j + 1].tactile[t].hash = Pixels(Frame(t, j))
  BY <1>4, ShownClean
<1> QED BY <1>2, <1>3, <1>5

\* The independent pixel reference expects what the operator delivers.
LEMMA ReferenceAgrees ==
  ASSUME GateTyped, NEW i \in Steps, NEW s \in Slots \cap Range(fault.slots),
         Active(fault, i), fault.operator \in Fidelity \cup {"C2"}
  PROVE  Shown(Reading(fault, s, i)).payload = Pixels(Expected(fault, <<i, s>>))
<1> DEFINE m == fault
           frame == Episode[i + 1].tactile[s].payload
           quiet == script[i + 1] \notin {"onset", "sustained"}
<1>1. frame = Frame(s, i)
  <2>1. Episode[i + 1].tactile[s] = CleanAt(s, i)
    BY EpisodeRecords
  <2> QED BY <2>1 DEF CleanAt, CleanReading
<1>2. Expected(m, <<i, s>>) =
        CASE m.operator = "F6" -> Imprinted(frame, History(Episode, s, i))
          [] m.operator = "C2" -> <<"C2", frame, Rest(s)>>
          [] m.operator \in {"F5", "F7"} /\ quiet -> frame
          [] OTHER -> Transformed(m, s, frame, i)
  <2>1. <<i, s>>[1] = i /\ <<i, s>>[2] = s
    OBVIOUS
  <2> QED BY <2>1 DEF Expected
<1>3. PICK e : e = Expected(m, <<i, s>>)
  OBVIOUS
<1>4. PICK r : r = Shown(Reading(m, s, i))
  OBVIOUS
<1>5. PICK n : n = Shown(New(m, s, i))
  OBVIOUS
<1>6. PICK c : c = Shown(CleanAt(s, i))
  OBVIOUS
<1>7. c.payload = Pixels(frame)
  BY <1>1, <1>6, ShownClean
<1>8. r = IF Struck(m, s, i) THEN n ELSE c
  BY <1>4, <1>5, <1>6 DEF Reading
<1>9. CASE m.operator = "C2"
  <2>1. Struck(m, s, i)
    BY <1>9 DEF Struck, Availability, Fidelity, Temporal
  <2>2. n.payload = Pixels(<<"C2", Frame(s, i), Rest(s)>>)
    BY <1>5, <1>9, ShownShifted
  <2>3. e = <<"C2", frame, Rest(s)>>
    BY <1>2, <1>3, <1>9
  <2> QED BY <1>1, <1>3, <1>4, <1>8, <2>1, <2>2, <2>3
<1>10. CASE m.operator \in Fidelity
  <2>1. n.payload = Pixels(NewPayload(m, s, i))
    BY <1>5, <1>10, ShownMarked
  <2>2. Struck(m, s, i) <=> ~(m.operator \in {"F5", "F7"} /\ quiet)
    BY <1>10, Zenon DEF Struck, Availability, Fidelity, Temporal, InContact
  <2>3. m.operator # "C2"
    BY <1>10 DEF Fidelity
  <2>4. CASE m.operator \in {"F5", "F7"} /\ quiet
    <3>1. e = frame
      BY <1>2, <1>3, <2>4
    <3> QED BY <1>3, <1>4, <1>7, <1>8, <2>2, <2>4, <3>1
  <2>5. CASE ~(m.operator \in {"F5", "F7"} /\ quiet)
    <3>1. e = NewPayload(m, s, i)
      BY <1>1, <1>2, <1>3, <2>3, <2>5 DEF NewPayload
    <3> QED BY <1>3, <1>4, <1>8, <2>1, <2>2, <2>5, <3>1
  <2> QED BY <2>4, <2>5
<1> QED BY <1>9, <1>10

\* A trace that passes shows, at every step, the scene and the pixels of a
\* faithful delivery.
LEMMA PassedReads ==
  ASSUME GateTyped, Gate(fault) = {}, NEW i \in Steps, NEW s \in Slots
  PROVE  /\ trace[i + 1].scene = i
         /\ trace[i + 1].tactile[s].payload = Shown(Reading(fault, s, i)).payload
<1> DEFINE m == fault
           x == trace[i + 1].tactile[s]
           c == Shown(CleanAt(s, i))
           r == Shown(Reading(m, s, i))
<1>1. /\ Len(trace) = Len(script)
      /\ OutsideCodes(m) = {} /\ WriteSetCodes(m) = {} /\ ProvenanceCodes(m) = {}
      /\ AvailabilityCodes(m) = {} /\ OperatorCodes(m) = {}
  BY GateParts
<1>2. /\ <<i, s>>[1] = i /\ <<i, s>>[2] = s
      /\ Faulty(<<i, s>>) = x /\ Healthy(<<i, s>>) = c
      /\ Clean[i + 1].scene = i /\ Clean[i + 1].tactile[s] = c
  BY Spotted
<1>3. /\ ~Active(m, i) => ~Struck(m, s, i)
      /\ s \notin Range(m.slots) => ~Struck(m, s, i)
      /\ ~Struck(m, s, i) => r = c
  BY Unstruck
<1>4. m \in FaultManifest
  BY DEF GateTyped
<1> HIDE DEF m, x, c, r
<1>5. CASE ~Active(m, i)
  <2>1. i \in 0 .. Len(trace) - 1
    BY <1>1 DEF Steps
  <2>2. trace[i + 1].tactile = Clean[i + 1].tactile /\ trace[i + 1].scene = Clean[i + 1].scene
    BY <1>1, <1>5, <2>1, OutsideHolds
  <2> QED BY <1>2, <1>3, <1>5, <2>2 DEF m, x, r
<1>6. CASE Active(m, i)
  <2>1. i \in InTrace(m)
    BY <1>1, <1>6, SpotOf
  <2>2. trace[i + 1].scene = i
    BY <1>1, <1>2, <2>1, WriteSetHolds
  <2>3. CASE s \notin Range(m.slots)
    <3>1. x = c
      BY <1>1, <1>2, <2>1, <2>3, WriteSetHolds DEF x
    <3> QED BY <1>3, <2>2, <2>3, <3>1 DEF m, x, r
  <2>4. CASE s \in Range(m.slots)
    <3>1. <<i, s>> \in Spots(m)
      BY <1>1, <1>6, <2>4, SpotOf
    <3>2. CASE m.operator \in Availability
      <4>1. Struck(m, s, i) <=> i \in AffectedIndices(m)
        BY <2>4, <3>2, Zenon DEF Struck, Availability, Fidelity, Temporal
      <4>2. Erased(m) = AffectedIndices(m)
        BY <3>2 DEF Erased
      <4>3. CASE i \in AffectedIndices(m)
        <5>1. x.payload = NoPayload
          BY <1>1, <1>2, <3>1, <4>2, <4>3, AvailabilityHolds
        <5>2. PICK n : n = Shown(New(m, s, i))
          OBVIOUS
        <5>3. n.payload = Pixels(NoPayload)
          BY <3>2, <5>2, ShownAbsent
        <5>4. r = n
          BY <4>1, <4>3, <5>2 DEF r, m, Reading
        <5>5. Pixels(NoPayload) = NoPayload
          BY DEF Pixels, NoPayload
        <5> QED BY <2>2, <5>1, <5>3, <5>4, <5>5 DEF m, x, r
      <4>4. CASE i \notin AffectedIndices(m)
        <5>1. x = c
          BY <1>1, <1>2, <3>1, <3>2, <4>2, <4>4, AvailabilityHolds
        <5> QED BY <1>3, <2>2, <4>1, <4>4, <5>1 DEF m, x, r
      <4> QED BY <4>3, <4>4
    <3>3. CASE m.operator \in Fidelity \cup {"C2"}
      <4>1. SignatureCodes(m) = {}
        BY <1>1, <3>3 DEF OperatorCodes, Fidelity
      <4>2. x.payload = Pixels(Expected(m, <<i, s>>))
        BY <1>2, <3>1, <4>1, SignatureHolds DEF Matched
      <4>3. r.payload = Pixels(Expected(m, <<i, s>>))
        BY <1>6, <2>4, <3>3, ReferenceAgrees DEF m, r
      <4> QED BY <2>2, <4>2, <4>3 DEF m, x, r
    <3>4. CASE m.operator \in Temporal
      <4>1. PICK j : j = SourceIndex(m, s, i)
        OBVIOUS
      <4>2. j \in Steps
        <5>1. j \in 0 .. i
          BY <1>4, <1>6, <3>4, <4>1, SourceIsPast DEF Active
        <5> QED BY <5>1, EpisodeRecords DEF Steps
      <4>3. PICK n : n = Shown(New(m, s, i))
        OBVIOUS
      <4>4. n.payload = Pixels(Frame(s, j))
        BY <3>4, <4>1, <4>3, ShownRouted
      <4>5. Struck(m, s, i) <=> (m.operator = "T2" => j # i)
        BY <1>6, <2>4, <3>4, <4>1, Zenon DEF Struck, Availability, Fidelity, Temporal
      <4>6. c.payload = Pixels(Frame(s, i))
        BY ShownClean DEF c
      <4>7. r.payload = Pixels(Frame(s, j))
        <5>1. r = IF Struck(m, s, i) THEN n ELSE c
          BY <4>3 DEF r, c, m, Reading
        <5>2. ~Struck(m, s, i) => j = i
          BY <4>5
        <5> QED BY <4>4, <4>6, <5>1, <5>2
      <4>8. RoutedFrom(<<i, s>>, s, j) => x.payload = Pixels(Frame(s, j))
        <5>1. m.operator \notin Availability
          BY <3>4 DEF Temporal, Availability
        <5> QED BY <1>1, <1>2, <3>1, <4>2, <5>1, RoutedShows DEF m
      <4>9. CASE m.operator = "T1"
        <5>1. DelayCodes(m) = {}
          BY <1>1, <4>9 DEF OperatorCodes, Fidelity
        <5>2. RoutedFrom(<<i, s>>, s, j)
          BY <1>2, <3>1, <4>1, <5>1, DelayHolds
        <5> QED BY <2>2, <4>7, <4>8, <5>2 DEF m, x, r
      <4>10. CASE m.operator = "T2"
        <5>1. FreezeCodes(m) = {}
          BY <1>1, <4>10 DEF OperatorCodes, Fidelity
        <5>2. j = IF i < m.start + HoldDuration(m) THEN HeldIndex(m) ELSE i
          BY <4>1, <4>10 DEF SourceIndex
        <5>3. CASE i < m.start + HoldDuration(m)
          <6>1. <<i, s>> \in Frozen(m) \X Range(m.slots)
            BY <2>1, <2>4, <5>3 DEF Frozen
          <6>2. RoutedFrom(<<i, s>>, s, j)
            BY <1>2, <5>1, <5>2, <5>3, <6>1, FreezeHolds
          <6> QED BY <2>2, <4>7, <4>8, <6>2 DEF m, x, r
        <5>4. CASE ~(i < m.start + HoldDuration(m))
          <6>1. i \notin Frozen(m)
            BY <5>4 DEF Frozen
          <6>2. x = c
            BY <1>2, <3>1, <5>1, <6>1, FreezeHolds
          <6> QED BY <2>2, <4>6, <4>7, <5>2, <5>4, <6>2 DEF m, x, r
        <5> QED BY <5>3, <5>4
      <4>11. CASE m.operator = "T3"
        <5>1. SkewCodes(m) = {}
          BY <1>1, <4>11 DEF OperatorCodes, Fidelity
        <5>2. RoutedFrom(<<i, s>>, s, j)
          BY <1>2, <2>1, <3>1, <4>1, <5>1, SkewHolds
        <5> QED BY <2>2, <4>7, <4>8, <5>2 DEF m, x, r
      <4> QED BY <3>4, <4>9, <4>10, <4>11 DEF Temporal
    <3>5. CASE m.operator = "C1"
      <4>1. Struck(m, s, i) <=> i \in AffectedIndices(m)
        BY <3>5 DEF Struck, Availability, Fidelity, Temporal
      <4>2. IdentityCodes(m) = {}
        BY <1>1, <3>5 DEF OperatorCodes, Fidelity
      <4>3. <<i, s>> \in Swapped(m) <=> i \in AffectedIndices(m)
        BY <1>1, <2>4, EpisodeRecords DEF Swapped, Steps
      <4>4. CASE i \in AffectedIndices(m)
        <5>1. PICK o : o = Other(s)
          OBVIOUS
        <5>2. RoutedFrom(<<i, s>>, o, i)
          BY <1>2, <4>2, <4>3, <4>4, <5>1, IdentityHolds
        <5>3. m.operator \notin Availability /\ o \in Slots
          BY <3>5, <5>1, OtherSlot DEF Availability
        <5>4. x.payload = Pixels(Frame(o, i))
          BY <1>1, <1>2, <3>1, <5>2, <5>3, RoutedShows DEF m
        <5>5. PICK n : n = Shown(New(m, s, i))
          OBVIOUS
        <5>6. n.payload = Pixels(Frame(o, i))
          BY <3>5, <5>1, <5>5, ShownSwapped
        <5>7. r = n
          BY <4>1, <4>4, <5>5 DEF r, m, Reading
        <5> QED BY <2>2, <5>4, <5>6, <5>7 DEF m, x, r
      <4>5. CASE i \notin AffectedIndices(m)
        <5>1. x = c
          BY <1>2, <3>1, <4>2, <4>3, <4>5, IdentityHolds
        <5> QED BY <1>3, <2>2, <4>1, <4>5, <5>1 DEF m, x, r
      <4> QED BY <4>4, <4>5
    <3> QED BY <1>4, <3>2, <3>3, <3>4, <3>5, Zenon DEF FaultManifest, OperatorIds, Context
  <2> QED BY <2>3, <2>4
<1> QED BY <1>5, <1>6

\* The trace is the one the operators delivered.
Faithful == trace = Seen(Batch(Episode, fault))

\* What it shows at a step.
LEMMA FaithfulReads ==
  ASSUME GateTyped, Faithful
  PROVE  /\ Len(trace) = Len(script) /\ DOMAIN trace = 1 .. Len(script)
         /\ \A i \in Steps :
              /\ trace[i + 1].scene = i /\ trace[i + 1].paired = i
              /\ trace[i + 1].tactile = [s \in Slots |-> Shown(Reading(fault, s, i))]
              /\ Clean[i + 1].scene = i /\ Clean[i + 1].paired = i
              /\ Clean[i + 1].tactile = [s \in Slots |-> Shown(CleanAt(s, i))]
<1>1. DOMAIN trace = 1 .. Len(script)
  BY SeenTraces DEF Faithful
<1>2. Len(trace) = Len(script)
  <2> DEFINE n == Len(script)
  <2>1. trace = [k \in 1 .. n |-> trace[k]]
    <3>1. trace = [k \in DOMAIN trace |-> trace[k]]
      BY DEF Faithful, Seen
    <3> QED BY <1>1, <3>1
  <2>2. n \in Nat
    BY EpisodeRecords
  <2> HIDE DEF n
  <2>3. Len(trace) = n
    BY <2>1, <2>2
  <2> QED BY <2>3 DEF n
<1>3. ASSUME NEW i \in Steps
      PROVE  /\ trace[i + 1].scene = i /\ trace[i + 1].paired = i
             /\ trace[i + 1].tactile = [s \in Slots |-> Shown(Reading(fault, s, i))]
             /\ Clean[i + 1].scene = i /\ Clean[i + 1].paired = i
             /\ Clean[i + 1].tactile = [s \in Slots |-> Shown(CleanAt(s, i))]
  <2>1. PICK f : f = [s \in Slots |-> Shown(Reading(fault, s, i))]
    OBVIOUS
  <2>2. PICK g : g = [s \in Slots |-> Shown(CleanAt(s, i))]
    OBVIOUS
  <2>3. trace[i + 1] = RecordOf(f, i) /\ Clean[i + 1] = RecordOf(g, i)
    BY <2>1, <2>2, SeenTraces DEF Faithful
  <2> QED BY <2>1, <2>2, <2>3 DEF RecordOf
<1> QED BY <1>1, <1>2, <1>3

\* At a spot.
LEMMA FaithfulSpots ==
  ASSUME GateTyped, Faithful, NEW i \in Steps, NEW s \in Slots
  PROVE  /\ <<i, s>>[1] = i /\ <<i, s>>[2] = s
         /\ Faulty(<<i, s>>) = Shown(Reading(fault, s, i))
         /\ Healthy(<<i, s>>) = Shown(CleanAt(s, i))
<1>1. trace[i + 1].tactile[s] = Shown(Reading(fault, s, i))
  <2>1. trace[i + 1].tactile = [t \in Slots |-> Shown(Reading(fault, t, i))]
    BY FaithfulReads
  <2> QED BY <2>1, Zenon
<1> QED BY <1>1, Spotted, Zenon

\* Pixels never look like an absence.
LEMMA PixelsThere ==
  ASSUME NEW a, NEW b, NEW c, a # "none"
  PROVE  Pixels(<<a, b, c>>) # NoPayload
<1> DEFINE p == <<a, b, c>>
<1>1. p[1] = a /\ p[2] = b /\ p[3] = c /\ p # NoPayload
  BY DEF NoPayload
<1> HIDE DEF p
<1>2. CASE ~atRest
  BY <1>1, <1>2 DEF Pixels, p
<1>3. CASE atRest /\ a \in {"camera", "rest"}
  <2>1. Pixels(p) = Rest(b)
    BY <1>1, <1>3 DEF Pixels
  <2> QED BY <2>1 DEF Rest, NoPayload, p
<1>4. CASE atRest /\ a \in {"F1", "F3"}
  <2>1. Pixels(p) = <<a, Rest(b[2]), c>>
    BY <1>1, <1>4 DEF Pixels
  <2> QED BY <2>1 DEF NoPayload, p
<1>5. CASE atRest /\ a \notin {"camera", "rest", "F1", "F3"}
  <2>1. Pixels(p) = Rest(b[2])
    BY <1>1, <1>5 DEF Pixels
  <2> QED BY <2>1 DEF Rest, NoPayload, p
<1> QED BY <1>2, <1>3, <1>4, <1>5

\* A fidelity fault's pixels name the operator, or are the frame: F1 at its first
\* record.
LEMMA PayloadNamed ==
  ASSUME NEW m, m.operator \in Fidelity, NEW s, NEW i
  PROVE  \/ NewPayload(m, s, i) = Frame(s, i) /\ m.operator = "F1"
         \/ \E x : NewPayload(m, s, i) = <<m.operator, Frame(s, i), x>>
<1>1. CASE m.operator = "F6"
  BY <1>1 DEF NewPayload, Imprinted
<1>2. CASE m.operator = "F1"
  BY <1>2 DEF NewPayload, Transformed, Drifted
<1>3. CASE m.operator \in {"F2", "F4"}
  BY <1>3 DEF NewPayload, Transformed
<1>4. CASE m.operator \in {"F3", "F5", "F7"}
  BY <1>4 DEF NewPayload, Transformed
<1> QED BY <1>1, <1>2, <1>3, <1>4 DEF Fidelity

\* A delivered reading has its own hash and its step; unless it is erased it has
\* pixels, and it carries the fault exactly where it was struck.
LEMMA ReadingHolds ==
  ASSUME GateTyped, NEW i \in Steps, NEW s \in Slots,
         NEW r, r = Shown(Reading(fault, s, i))
  PROVE  /\ r.hash = r.payload /\ r.delivered = i
         /\ fault.operator \notin Availability => r.payload # NoPayload
         /\ Struck(fault, s, i) => r.faults = {fault.operator}
         /\ ~Struck(fault, s, i) => r = Shown(CleanAt(s, i)) /\ r.faults = {}
         /\ Struck(fault, s, i) /\ fault.operator \in Availability =>
              /\ r.payload = NoPayload /\ r.index = NoIndex
              /\ r.valid = IF fault.declared THEN "false" ELSE "null"
         /\ Struck(fault, s, i) /\ fault.operator \notin Availability =>
              r.valid = FaultValidity(fault, "true")
         /\ r.index \in Int /\ r.index =< i
<1> DEFINE m == fault
<1>1. PICK n : n = Shown(New(m, s, i))
  OBVIOUS
<1>2. PICK c : c = Shown(CleanAt(s, i))
  OBVIOUS
<1>3. r = IF Struck(m, s, i) THEN n ELSE c
  BY <1>1, <1>2 DEF Reading
<1>4. /\ c.payload = Pixels(Frame(s, i)) /\ c.hash = Pixels(Frame(s, i))
      /\ c.delivered = i /\ c.index = i /\ c.faults = {}
  BY <1>2, ShownClean
<1>5. \A t, j : Pixels(Frame(t, j)) # NoPayload
  BY PixelsThere DEF Frame
<1>6. i \in Nat /\ m \in FaultManifest
  BY EpisodeRecords DEF Steps, GateTyped
<1>7. CASE ~Struck(m, s, i)
  BY <1>2, <1>3, <1>4, <1>5, <1>6, <1>7
<1>8. CASE Struck(m, s, i)
  <2>0. r = n
    BY <1>3, <1>8
  <2>1. CASE m.operator \in Availability
    <3>1. Pixels(NoPayload) = NoPayload
      BY DEF Pixels, NoPayload
    <3>2. /\ n.payload = Pixels(NoPayload) /\ n.hash = Pixels(NoPayload)
          /\ n.valid = (IF m.declared THEN "false" ELSE "null")
          /\ n.delivered = i /\ n.index = NoIndex /\ n.faults = {m.operator}
      BY <1>1, <2>1, ShownAbsent
    <3>3. NoIndex \in Int /\ NoIndex =< i
      BY <1>6 DEF NoIndex
    <3> QED BY <1>8, <2>0, <2>1, <3>1, <3>2, <3>3
  <2>2. CASE m.operator \in Fidelity
    <3>1. /\ n.payload = Pixels(NewPayload(m, s, i)) /\ n.hash = Pixels(NewPayload(m, s, i))
          /\ n.valid = FaultValidity(m, "true") /\ n.delivered = i
          /\ n.index = i /\ n.faults = {m.operator}
      BY <1>1, <2>2, ShownMarked
    <3>2. Pixels(NewPayload(m, s, i)) # NoPayload
      <4>1. CASE NewPayload(m, s, i) = Frame(s, i)
        BY <1>5, <4>1
      <4>2. CASE \E x : NewPayload(m, s, i) = <<m.operator, Frame(s, i), x>>
        <5>1. PICK x : NewPayload(m, s, i) = <<m.operator, Frame(s, i), x>>
          BY <4>2
        <5>2. m.operator # "none"
          BY <2>2 DEF Fidelity
        <5> QED BY <5>1, <5>2, PixelsThere
      <4> QED BY <2>2, <4>1, <4>2, PayloadNamed
    <3>3. m.operator \notin Availability
      BY <2>2 DEF Fidelity, Availability
    <3> QED BY <1>6, <1>8, <2>0, <3>1, <3>2, <3>3
  <2>3. CASE m.operator \in Temporal
    <3>1. PICK j : j = SourceIndex(m, s, i)
      OBVIOUS
    <3>2. /\ n.payload = Pixels(Frame(s, j)) /\ n.hash = Pixels(Frame(s, j))
          /\ n.valid = FaultValidity(m, "true") /\ n.delivered = i
          /\ n.index = j /\ n.faults = {m.operator}
      BY <1>1, <2>3, <3>1, ShownRouted
    <3>3. m.operator \notin Availability
      BY <2>3 DEF Temporal, Availability
    <3>4. Active(m, i)
      BY <1>8, Unstruck
    <3>5. j \in 0 .. i
      BY <1>6, <2>3, <3>1, <3>4, SourceIsPast DEF Active
    <3> QED BY <1>5, <1>6, <1>8, <2>0, <3>2, <3>3, <3>5
  <2>4. CASE m.operator = "C1"
    <3>1. PICK o : o = Other(s)
      OBVIOUS
    <3>2. /\ n.payload = Pixels(Frame(o, i)) /\ n.hash = Pixels(Frame(o, i))
          /\ n.valid = FaultValidity(m, "true") /\ n.delivered = i
          /\ n.index = i /\ n.faults = {m.operator}
      BY <1>1, <2>4, <3>1, ShownSwapped
    <3>3. m.operator \notin Availability
      BY <2>4 DEF Availability
    <3> QED BY <1>5, <1>6, <1>8, <2>0, <3>2, <3>3
  <2>5. CASE m.operator = "C2"
    <3>1. PICK p : p = <<"C2", Frame(s, i), Rest(s)>>
      OBVIOUS
    <3>2. /\ n.payload = Pixels(p) /\ n.hash = Pixels(p)
          /\ n.valid = FaultValidity(m, "true") /\ n.delivered = i
          /\ n.index = i /\ n.faults = {m.operator}
      BY <1>1, <2>5, <3>1, ShownShifted
    <3>3. m.operator \notin Availability
      BY <2>5 DEF Availability
    <3>4. Pixels(p) # NoPayload
      BY <3>1, PixelsThere
    <3> QED BY <1>6, <1>8, <2>0, <3>2, <3>3, <3>4
  <2> QED BY <1>6, <2>1, <2>2, <2>3, <2>4, <2>5, Zenon DEF FaultManifest, OperatorIds, Context
<1> QED BY <1>7, <1>8

\* Every record delivered passes the record checks of an export.
LEMMA FaithfulExports ==
  ASSUME GateTyped, Faithful
  PROVE  TraceExports
<1> SUFFICES ASSUME NEW k \in DOMAIN trace
             PROVE  RecordExports(Clean[k], k, TRUE) /\ RecordExports(trace[k], k, FALSE)
  BY DEF TraceExports
<1> DEFINE i == k - 1
<1>1. i \in Steps /\ i + 1 = k
  BY FaithfulReads, EpisodeRecords DEF Steps
<1> HIDE DEF i
<1> SUFFICES ASSUME NEW s \in Slots
             PROVE  /\ Clean[k].tactile[s].delivered = i /\ Clean[k].tactile[s].faults = {}
                    /\ Clean[k].tactile[s].hash = Clean[k].tactile[s].payload
                    /\ trace[k].tactile[s].delivered = i
                    /\ trace[k].tactile[s].hash = trace[k].tactile[s].payload
  BY DEF RecordExports, i
<1>2. /\ trace[k].tactile[s] = Shown(Reading(fault, s, i))
      /\ Clean[k].tactile[s] = Shown(CleanAt(s, i))
  <2>1. /\ trace[i + 1].tactile = [t \in Slots |-> Shown(Reading(fault, t, i))]
        /\ Clean[i + 1].tactile = [t \in Slots |-> Shown(CleanAt(t, i))]
    BY <1>1, FaithfulReads
  <2> QED BY <1>1, <2>1, Zenon
<1>3. PICK c : c = Shown(CleanAt(s, i))
  OBVIOUS
<1>4. c.delivered = i /\ c.faults = {} /\ c.hash = c.payload
  BY <1>3, ShownClean
<1>5. PICK r : r = Shown(Reading(fault, s, i))
  OBVIOUS
<1>6. r.delivered = i /\ r.hash = r.payload
  BY <1>1, <1>5, ReadingHolds
<1> QED BY <1>2, <1>3, <1>4, <1>5, <1>6

\* What is delivered and seen depends on the manifest, the script and the frames,
\* not on the trace.
LEMMA SeenStays ==
  ASSUME fault' = fault, script' = script, atRest' = atRest
  PROVE  /\ Seen(Batch(Episode, fault))' = Seen(Batch(Episode, fault))
         /\ Clean' = Clean
<1>1. Episode' = Episode
  BY DEF Episode
<1>2. ASSUME NEW r PROVE Shown(r)' = Shown(r)
  BY DEF Shown, Pixels
<1>3. ASSUME NEW records PROVE Seen(records)' = Seen(records)
  BY <1>2 DEF Seen
<1>4. PICK b : b = Batch(Episode, fault)
  OBVIOUS
<1>5. Batch(Episode, fault)' = b
  BY <1>1, <1>4 DEF Batch
<1> QED BY <1>1, <1>3, <1>4, <1>5 DEF Clean
\* A trace the gate passes shows the fault.
LEMMA PassedShows ==
  ASSUME GateTyped, Gate(fault) = {}
  PROVE  LET good == Seen(Batch(Episode, fault))
         IN /\ Len(trace) = Len(good)
            /\ \A k \in DOMAIN good :
                 /\ trace[k].scene = good[k].scene
                 /\ \A s \in Slots :
                      trace[k].tactile[s].payload = good[k].tactile[s].payload
<1> DEFINE good == Seen(Batch(Episode, fault))
<1>1. Len(good) = Len(script) /\ DOMAIN good = 1 .. Len(script)
  <2>1. DOMAIN good = 1 .. Len(script) /\ Len(script) \in Nat
    BY SeenTraces, EpisodeRecords
  <2>2. good = [k \in DOMAIN good |-> good[k]]
    BY DEF Seen
  <2> HIDE DEF good
  <2> QED BY <2>1, <2>2
<1>2. Len(trace) = Len(script)
  BY GateParts
<1>3. ASSUME NEW k \in DOMAIN good, NEW s \in Slots
      PROVE  /\ trace[k].scene = good[k].scene
             /\ trace[k].tactile[s].payload = good[k].tactile[s].payload
  <2>1. PICK i \in Steps : i + 1 = k
    <3>1. k - 1 \in Steps /\ (k - 1) + 1 = k
      BY <1>1, EpisodeRecords DEF Steps
    <3> QED BY <3>1
  <2>2. PICK f : f = [t \in Slots |-> Shown(Reading(fault, t, i))]
    OBVIOUS
  <2>3. good[k] = RecordOf(f, i)
    BY <2>1, <2>2, SeenTraces
  <2>4. good[k].scene = i /\ good[k].tactile = f
    <3> HIDE DEF good
    <3> QED BY <2>3 DEF RecordOf
  <2>5. good[k].tactile[s] = Shown(Reading(fault, s, i))
    BY <2>2, <2>4, Zenon
  <2>6. /\ trace[k].scene = i
        /\ trace[k].tactile[s].payload = Shown(Reading(fault, s, i)).payload
    BY <2>1, PassedReads
  <2> QED BY <2>4, <2>5, <2>6
<1> HIDE DEF good
<1>4. ASSUME NEW k \in DOMAIN good PROVE trace[k].scene = good[k].scene
  BY <1>3 DEF Slots
<1>5. /\ Len(trace) = Len(good)
      /\ \A k \in DOMAIN good :
           /\ trace[k].scene = good[k].scene
           /\ \A s \in Slots : trace[k].tactile[s].payload = good[k].tactile[s].payload
  BY <1>1, <1>2, <1>3, <1>4
<1> QED BY <1>5 DEF good

-----------------------------------------------------------------------------
(* The schedules are not empty and have a last record.                       *)

\* An exact quotient is not rounded.
LEMMA RoundExact ==
  ASSUME NEW d \in Nat \ {0}, NEW b \in Nat
  PROVE  Round(d * b, d) = b
<1> DEFINE n == d * b
           q == n \div d
           r == n % d
<1>1. n \in Nat
  OBVIOUS
<1>2. n = d * b
  OBVIOUS
<1> HIDE DEF n
<1>3. q \in Int /\ r \in 0 .. d - 1 /\ n = d * q + r
  BY <1>1
<1>4. Round(n, d) = IF 2 * r < d \/ (2 * r = d /\ q % 2 = 0) THEN q ELSE q + 1
  BY DEF Round
<1> HIDE DEF q, r
<1>5. q = b
  <2>1. CASE q =< b - 1
    <3>1. d * q =< d * (b - 1) /\ d * (b - 1) = d * b - d
      BY <1>3, <2>1
    <3>2. d * b \in Int /\ d * q \in Int
      BY <1>3
    <3> QED BY <1>2, <1>3, <3>1, <3>2
  <2>2. CASE q >= b + 1
    <3>1. d * q >= d * (b + 1) /\ d * (b + 1) = d * b + d
      BY <1>3, <2>2
    <3>2. d * b \in Int /\ d * q \in Int
      BY <1>3
    <3> QED BY <1>2, <1>3, <3>1, <3>2
  <2> QED BY <1>3, <2>1, <2>2
<1>6. r = 0
  <2>1. d * b \in Int
    OBVIOUS
  <2> QED BY <1>2, <1>3, <1>5, <2>1
<1> QED BY <1>3, <1>4, <1>5, <1>6 DEF n

\* The last record a schedule affects.
LEMMA LastAffected ==
  ASSUME NEW m \in FaultManifest, m.operator \in {"A1", "A2", "C1"}
  PROVE  \E i \in AffectedIndices(m) : \A j \in AffectedIndices(m) : i >= j
<1> DEFINE length == WindowLength(m)
           count  == Count(m)
<1>1. /\ m.start \in Nat /\ m.stop \in Nat /\ m.supplied \in Seq(Nat)
      /\ m.operator = "A2" /\ m.supplied # <<>> =>
           Increasing(m.supplied) /\ Len(m.supplied) = count
  BY DEF FaultManifest, Registered, ParametersOK
<1>2. length \in Nat \ {0} /\ length = m.stop - m.start /\ count \in 1 .. length
  BY CountInWindow
<1>3. \A j \in AffectedIndices(m) : j \in Nat /\ j =< m.stop - 1
  BY <1>1, AffectedInWindow DEF Window
<1> HIDE DEF length, count
<1>4. CASE m.operator \in {"A1", "C1"}
  <2>1. AffectedIndices(m) = m.start .. m.start + count - 1
    BY <1>4 DEF AffectedIndices, count
  <2>2. m.start + count - 1 \in AffectedIndices(m)
    BY <1>1, <1>2, <2>1
  <2>3. \A j \in AffectedIndices(m) : m.start + count - 1 >= j
    BY <1>1, <1>2, <2>1
  <2> QED BY <2>2, <2>3
<1>5. CASE m.operator = "A2"
  <2> DEFINE offsets == ErasedOffsets(m)
  <2>1. AffectedIndices(m) = {m.start + offsets[k] : k \in DOMAIN offsets}
    BY <1>5 DEF AffectedIndices
  <2>2. CASE m.supplied # <<>>
    <3>1. offsets = m.supplied
      BY <2>2 DEF ErasedOffsets
    <3> HIDE DEF offsets
    <3>2. DOMAIN offsets = 1 .. count /\ \A k \in 1 .. count : offsets[k] \in Nat
      BY <1>1, <1>5, <2>2, <3>1
    <3>3. \A k \in 1 .. count : offsets[k] =< offsets[count]
      <4> SUFFICES ASSUME NEW k \in 1 .. count, k # count
                   PROVE  offsets[k] =< offsets[count]
        BY <1>2, <3>2
      <4>1. k < count /\ k \in DOMAIN offsets /\ count \in DOMAIN offsets
        BY <1>2, <3>2
      <4>2. Increasing(offsets)
        BY <1>1, <1>5, <2>2, <3>1
      <4>3. offsets[k] < offsets[count]
        BY <4>1, <4>2 DEF Increasing
      <4> QED BY <3>2, <4>1, <4>3
    <3>4. m.start + offsets[count] \in AffectedIndices(m)
      BY <1>2, <2>1, <3>2
    <3>5. \A j \in AffectedIndices(m) : m.start + offsets[count] >= j
      BY <1>1, <1>2, <2>1, <3>2, <3>3
    <3> QED BY <3>4, <3>5
  <2>3. CASE m.supplied = <<>> /\ count = 1
    <3>1. offsets = <<0>>
      BY <2>3 DEF ErasedOffsets, SpreadOffsets, length, count
    <3> HIDE DEF offsets
    <3>2. DOMAIN offsets = {1} /\ offsets[1] = 0
      BY <3>1
    <3>3. m.start \in AffectedIndices(m)
      <4>1. m.start + offsets[1] \in AffectedIndices(m)
        BY <2>1, <3>2
      <4> QED BY <1>1, <3>2, <4>1
    <3>4. \A j \in AffectedIndices(m) : j = m.start
      <4>1. \A j \in AffectedIndices(m) : j = m.start + offsets[1]
        BY <2>1, <3>2
      <4> QED BY <1>1, <3>2, <4>1
    <3> QED BY <1>1, <3>3, <3>4
  <2>4. CASE m.supplied = <<>> /\ count # 1
    <3>1. offsets = [p \in 1 .. count |-> Round((p - 1) * (length - 1), count - 1)]
      BY <2>4 DEF ErasedOffsets, SpreadOffsets, length, count
    <3> HIDE DEF offsets
    <3>2. /\ offsets[count] = Round((count - 1) * (length - 1), count - 1)
          /\ count \in DOMAIN offsets
      BY <1>2, <3>1
    <3>3. count - 1 \in Nat \ {0} /\ length - 1 \in Nat
      BY <1>2, <2>4
    <3>4. offsets[count] = length - 1
      BY <3>2, <3>3, RoundExact
    <3>5. m.stop - 1 \in AffectedIndices(m)
      <4>1. m.start + offsets[count] \in AffectedIndices(m)
        BY <2>1, <3>2
      <4>2. m.start + (length - 1) = m.stop - 1
        BY <1>1, <1>2
      <4> QED BY <3>4, <4>1, <4>2
    <3> QED BY <1>3, <3>5
  <2> QED BY <2>2, <2>3, <2>4
<1> QED BY <1>4, <1>5

\* The greatest of a set of integers that has one.
LEMMA MaxIs ==
  ASSUME NEW S, S \subseteq Int, NEW x \in S, \A y \in S : x >= y
  PROVE  Max(S) = x
<1>1. ASSUME NEW z \in S, \A y \in S : z >= y PROVE z = x
  <2>1. z >= x /\ x >= z /\ z \in Int /\ x \in Int
    BY <1>1
  <2> QED BY <2>1
<1>2. Max(S) \in S /\ \A y \in S : Max(S) >= y
  BY DEF Max
<1> QED BY <1>1, <1>2

\* Where a freeze holds.
LEMMA Held ==
  ASSUME NEW m \in FaultManifest
  PROVE  /\ HeldIndex(m) \in Nat /\ HeldIndex(m) =< m.start
         /\ HoldDuration(m) \in 1 .. WindowLength(m)
<1>1. m.level \in 1 .. 5 /\ m.start \in Nat
  BY DEF FaultManifest, Registered
<1>2. HeldIndex(m) \in 0 .. m.start
  BY <1>1, MaxOfTwo DEF HeldIndex
<1>3. Lags.T2[m.level] \in Nat \ {0}
  BY <1>1 DEF Lags
<1>4. HoldDuration(m) \in 1 .. WindowLength(m)
  BY <1>3, CountInWindow, MinOfTwo DEF HoldDuration
<1> QED BY <1>1, <1>2, <1>4

-----------------------------------------------------------------------------
(* A faithful trace: the gate accepts it when the fault shows.               *)

\* A spot is a step of the window and a slot of the manifest.
LEMMA SpotSplit ==
  ASSUME GateTyped, Faithful, NEW spot \in Spots(fault)
  PROVE  \E i \in Steps, s \in Slots :
           /\ spot = <<i, s>> /\ s \in Range(fault.slots)
           /\ Active(fault, i) /\ i \in InTrace(fault)
<1>1. PICK i \in InTrace(fault), s \in Range(fault.slots) : spot = <<i, s>>
  BY DEF Spots
<1>2. s \in Slots
  BY SlotsListed DEF GateTyped
<1>3. Active(fault, i) /\ i < Len(script)
  BY FaithfulReads DEF InTrace, Active
<1>4. i \in Nat
  BY <1>3 DEF GateTyped, FaultManifest, Active, Window
<1>5. i \in Steps
  BY <1>3, <1>4, EpisodeRecords DEF Steps
<1> QED BY <1>1, <1>2, <1>3, <1>5

\* The steps of the window that the trace has.
LEMMA InWindow ==
  ASSUME GateTyped, Faithful
  PROVE  /\ \A i : i \in InTrace(fault) <=> i \in Steps /\ Active(fault, i)
         /\ Steps \subseteq Nat
<1>1. \A i : Active(fault, i) => i \in Nat
  BY DEF GateTyped, FaultManifest, Active, Window
<1>2. Len(trace) = Len(script) /\ Len(script) \in Nat
  BY FaithfulReads, EpisodeRecords
<1> QED BY <1>1, <1>2 DEF InTrace, Active, Steps

\* Nothing outside the window or the slots of the manifest changes.
LEMMA FaithfulOutside ==
  ASSUME GateTyped, Faithful
  PROVE  OutsideCodes(fault) = {} /\ WriteSetCodes(fault) = {}
<1> DEFINE m == fault
<1>1. ASSUME NEW i \in Steps
      PROVE  /\ trace[i + 1].paired = Clean[i + 1].paired
             /\ trace[i + 1].scene = Clean[i + 1].scene
             /\ \A s \in Slots : s \notin Range(m.slots) =>
                  trace[i + 1].tactile[s] = Clean[i + 1].tactile[s]
             /\ ~Active(m, i) => trace[i + 1].tactile = Clean[i + 1].tactile
  <2>1. PICK f : f = [s \in Slots |-> Shown(Reading(m, s, i))]
    OBVIOUS
  <2>2. PICK g : g = [s \in Slots |-> Shown(CleanAt(s, i))]
    OBVIOUS
  <2>3. /\ trace[i + 1].tactile = f /\ trace[i + 1].scene = i /\ trace[i + 1].paired = i
        /\ Clean[i + 1].tactile = g /\ Clean[i + 1].scene = i /\ Clean[i + 1].paired = i
    BY <2>1, <2>2, FaithfulReads
  <2>4. ASSUME NEW s \in Slots
        PROVE  ~Active(m, i) \/ s \notin Range(m.slots) => f[s] = g[s]
    <3>1. f[s] = Shown(Reading(m, s, i)) /\ g[s] = Shown(CleanAt(s, i))
      BY <2>1, <2>2, Zenon
    <3> QED BY <3>1, Unstruck, Zenon
  <2>5. ~Active(m, i) => f = g
    <3>1. f = [s \in Slots |-> f[s]] /\ g = [s \in Slots |-> g[s]]
      BY <2>1, <2>2
    <3> QED BY <2>4, <3>1
  <2> QED BY <2>3, <2>4, <2>5
<1>2. OutsideCodes(m) = {}
  <2>1. \A k \in DOMAIN trace : trace[k].paired = Clean[k].paired
    <3> SUFFICES ASSUME NEW k \in DOMAIN trace PROVE trace[k].paired = Clean[k].paired
      OBVIOUS
    <3>1. k - 1 \in Steps /\ (k - 1) + 1 = k
      BY FaithfulReads, EpisodeRecords DEF Steps
    <3> QED BY <1>1, <3>1
  <2>2. \A i \in 0 .. Len(trace) - 1 : ~Active(m, i) =>
          trace[i + 1].tactile = Clean[i + 1].tactile
          /\ trace[i + 1].scene = Clean[i + 1].scene
    BY <1>1, FaithfulReads DEF Steps
  <2> QED BY <2>1, <2>2, OutsideHolds
<1>3. WriteSetCodes(m) = {}
  BY <1>1, InWindow, WriteSetHolds
<1> QED BY <1>2, <1>3

\* Every changed reading is marked, with the validity the manifest declares, and
\* absences are where the schedule puts them.
LEMMA FaithfulMarks ==
  ASSUME GateTyped, Faithful
  PROVE  ProvenanceCodes(fault) = {} /\ AvailabilityCodes(fault) = {}
<1> DEFINE m == fault
<1>1. ASSUME NEW spot \in Spots(m)
      PROVE  /\ Faulty(spot) # Healthy(spot) => FaultIsActive(m, spot)
             /\ FaultIsActive(m, spot) => Faulty(spot).valid = ExpectedValidity(m, spot)
             /\ ~(Faulty(spot).index > spot[1])
             /\ Faulty(spot).payload # NoPayload => Faulty(spot).payload = Faulty(spot).hash
             /\ spot[1] \in Erased(m) =>
                  /\ Faulty(spot).payload = NoPayload
                  /\ Faulty(spot).index = NoIndex
                  /\ Faulty(spot).hash = NoPayload
                  /\ Faulty(spot).valid = IF m.declared THEN "false" ELSE "null"
             /\ m.operator \in Availability =>
                  (spot[1] \notin Erased(m) => Faulty(spot) = Healthy(spot))
             /\ m.operator \notin Availability => Faulty(spot).payload # NoPayload
  <2>1. PICK i \in Steps, s \in Slots :
          spot = <<i, s>> /\ s \in Range(m.slots) /\ Active(m, i) /\ i \in InTrace(m)
    BY SpotSplit
  <2>2. PICK r : r = Shown(Reading(m, s, i))
    OBVIOUS
  <2>3. PICK c : c = Shown(CleanAt(s, i))
    OBVIOUS
  <2>4. spot[1] = i /\ Faulty(spot) = r /\ Healthy(spot) = c
    BY <2>1, <2>2, <2>3, FaithfulSpots
  <2>5. c.valid = "true" /\ c.faults = {}
    BY <2>3, ShownClean
  <2>6. /\ r.hash = r.payload /\ r.index =< i
        /\ m.operator \notin Availability => r.payload # NoPayload
        /\ Struck(m, s, i) => r.faults = {m.operator}
        /\ ~Struck(m, s, i) => r = c
        /\ Struck(m, s, i) /\ m.operator \in Availability =>
              /\ r.payload = NoPayload /\ r.index = NoIndex
              /\ r.valid = IF m.declared THEN "false" ELSE "null"
        /\ Struck(m, s, i) /\ m.operator \notin Availability =>
              r.valid = FaultValidity(m, "true")
    BY <2>2, <2>3, ReadingHolds
  <2>7. r.index \in Int /\ i \in Int
    <3>1. i \in Nat
      BY InWindow
    <3> QED BY <2>2, <3>1, ReadingHolds
  <2>8. m.operator \in r.faults <=> Struck(m, s, i)
    BY <2>5, <2>6
  <2>9. m.operator \in Availability => (Struck(m, s, i) <=> i \in Erased(m))
    BY <2>1, Zenon DEF Erased, Struck, Availability, Fidelity, Temporal
  <2>10. m.operator \notin Availability => Erased(m) = {}
    BY DEF Erased
  <2>11. Struck(m, s, i) => r.valid = IF m.declared THEN "false"
                                      ELSE IF r.payload # NoPayload THEN c.valid ELSE "null"
    BY <2>5, <2>6 DEF FaultValidity
  <2>12. FaultIsActive(m, spot) <=> Struck(m, s, i)
    BY <2>4, <2>8 DEF FaultIsActive
  <2>13. FaultIsActive(m, spot) => Faulty(spot).valid = ExpectedValidity(m, spot)
    BY <2>4, <2>11, <2>12 DEF ExpectedValidity
  <2> QED BY <2>4, <2>6, <2>7, <2>9, <2>10, <2>12, <2>13
<1>2. ProvenanceCodes(m) = {}
  BY <1>1, ProvenanceHolds
<1>3. AvailabilityCodes(m) = {}
  BY <1>1, AvailabilityHolds
<1> QED BY <1>2, <1>3

\* The operator is active when it struck some reading of the trace.
LEMMA FaithfulActive ==
  ASSUME GateTyped, Faithful
  PROVE  Inactive(fault) = {} <=> \E i \in InTrace(fault), s \in Slots : Struck(fault, s, i)
<1> DEFINE m == fault
<1>1. Inactive(m) = {} <=> \E i \in InTrace(m) :
         ~(trace[i + 1].tactile = Clean[i + 1].tactile /\ trace[i + 1].scene = Clean[i + 1].scene)
  BY Zenon DEF Inactive, Code
<1>2. ASSUME NEW i \in InTrace(m)
      PROVE  (trace[i + 1].tactile = Clean[i + 1].tactile
              /\ trace[i + 1].scene = Clean[i + 1].scene)
             <=> \A s \in Slots : ~Struck(m, s, i)
  <2>0. i \in Steps
    BY InWindow
  <2>1. PICK f : f = [s \in Slots |-> Shown(Reading(m, s, i))]
    OBVIOUS
  <2>2. PICK g : g = [s \in Slots |-> Shown(CleanAt(s, i))]
    OBVIOUS
  <2>3. /\ trace[i + 1].tactile = f /\ trace[i + 1].scene = i
        /\ Clean[i + 1].tactile = g /\ Clean[i + 1].scene = i
    BY <2>0, <2>1, <2>2, FaithfulReads
  <2>4. ASSUME NEW s \in Slots PROVE f[s] = g[s] <=> ~Struck(m, s, i)
    <3>1. f[s] = Shown(Reading(m, s, i)) /\ g[s] = Shown(CleanAt(s, i))
      BY <2>1, <2>2, Zenon
    <3>2. PICK r : r = Shown(Reading(m, s, i))
      OBVIOUS
    <3>3. PICK c : c = Shown(CleanAt(s, i))
      OBVIOUS
    <3>4. c.faults = {}
      BY <3>3, ShownClean
    <3>5. (Struck(m, s, i) => r.faults = {m.operator}) /\ (~Struck(m, s, i) => r = c)
      BY <2>0, <3>2, <3>3, ReadingHolds
    <3> QED BY <3>1, <3>2, <3>3, <3>4, <3>5
  <2>5. f = g <=> \A s \in Slots : f[s] = g[s]
    <3>1. f = [s \in Slots |-> f[s]] /\ g = [s \in Slots |-> g[s]]
      BY <2>1, <2>2
    <3> QED BY <3>1
  <2> QED BY <2>3, <2>4, <2>5
<1> QED BY <1>1, <1>2, Zenon

\* So the gate passes a faithful trace when the operator struck, its own checks
\* pass, and a record follows an A2's last erasure.
LEMMA FaithfulGate ==
  ASSUME GateTyped, Faithful
  PROVE  Gate(fault) = {} <=>
           /\ \E i \in InTrace(fault), s \in Slots : Struck(fault, s, i)
           /\ OperatorCodes(fault) = {} /\ ResumeCodes(fault) = {}
BY GateParts, FaithfulReads, FaithfulOutside, FaithfulMarks, FaithfulActive

\* The steps a manifest asks for that the episode has.
Inside(m) ==
  {i \in IF m.operator \in {"A1", "A2", "C1"} THEN AffectedIndices(m) ELSE Window(m) :
     i < Len(script)}

\* What exposes each operator.
LEMMA ExposedWhen ==
  ASSUME NEW m
  PROVE  /\ m.operator \in {"A1", "C1", "C2", "F1", "F2", "F3", "T1"} =>
              (Exposed(m) <=> Inside(m) # {})
         /\ m.operator = "A2" =>
              (Exposed(m) <=> /\ Inside(m) # {}
                              /\ \E i \in 0 .. Len(script) - 1 :
                                   \A j \in AffectedIndices(m) : j < i)
         /\ m.operator = "T2" =>
              (Exposed(m) <=> \E i \in Inside(m) : /\ HeldIndex(m) # i
                                                   /\ i < m.start + HoldDuration(m))
         /\ m.operator = "T3" =>
              (Exposed(m) <=> /\ Inside(m) # {} /\ Cardinality(Range(m.slots)) = 2
                              /\ Max(Inside(m)) > 0)
         /\ m.operator \in {"F4", "F5", "F7"} =>
              (Exposed(m) <=> ~atRest /\ \E i \in Inside(m) : script[i + 1] \in Touching)
         /\ m.operator = "F6" =>
              (Exposed(m) <=>
                 ~atRest /\ \E i \in Inside(m) : /\ script[i + 1] = "release"
                                                 /\ \E k \in 1 .. i : script[k] \in Touching)
<1> DEFINE A == \E i \in 0 .. Len(script) - 1 : \A j \in AffectedIndices(m) : j < i
           B == Cardinality(Range(m.slots)) = 2 /\ Max(Inside(m)) > 0
           C == \E i \in Inside(m) : HeldIndex(m) # i /\ i < m.start + HoldDuration(m)
           D == (\E i \in Inside(m) : script[i + 1] \in Touching) /\ ~atRest
           E == ~atRest /\ \E i \in Inside(m) : /\ script[i + 1] = "release"
                                                /\ \E k \in 1 .. i : script[k] \in Touching
<1>1. Exposed(m) <=>
        /\ Inside(m) # {}
        /\ CASE m.operator = "A2" -> A
             [] m.operator = "T3" -> B
             [] m.operator = "T2" -> C
             [] m.operator \in {"F4", "F5", "F7"} -> D
             [] m.operator = "F6" -> E
             [] OTHER -> TRUE
  BY DEF Exposed, Inside
<1>2. (C => Inside(m) # {}) /\ (D => Inside(m) # {}) /\ (E => Inside(m) # {})
  BY Zenon
<1> HIDE DEF A, B, C, D, E
<1>3. /\ m.operator \in {"A1", "C1", "C2", "F1", "F2", "F3", "T1"} =>
           (Exposed(m) <=> Inside(m) # {})
      /\ m.operator = "A2" => (Exposed(m) <=> Inside(m) # {} /\ A)
      /\ m.operator = "T2" => (Exposed(m) <=> C)
      /\ m.operator = "T3" => (Exposed(m) <=> Inside(m) # {} /\ B)
      /\ m.operator \in {"F4", "F5", "F7"} => (Exposed(m) <=> D)
      /\ m.operator = "F6" => (Exposed(m) <=> E)
  BY <1>1, <1>2
<1> QED BY <1>3, Zenon DEF A, B, C, D, E

\* A2 needs a record after its last erasure.
LEMMA ResumeHolds ==
  ASSUME GateTyped
  PROVE  ResumeCodes(fault) = {} <=>
           (fault.operator = "A2" =>
              \E i \in 0 .. Len(script) - 1 : \A j \in AffectedIndices(fault) : j < i)
<1> DEFINE S == AffectedIndices(fault)
<1>1. ResumeCodes(fault) = {} <=> ~(fault.operator = "A2" /\ Max(S) >= Len(script) - 1)
  BY Zenon DEF ResumeCodes, Code
<1>2. CASE fault.operator = "A2"
  <2>1. PICK last \in S : \A j \in S : last >= j
    BY <1>2, LastAffected DEF GateTyped
  <2>2. S \subseteq Nat
    BY AffectedInWindow DEF GateTyped, FaultManifest, Window
  <2>3. Max(S) = last
    BY <2>1, <2>2, MaxIs
  <2>4. Len(script) \in Nat
    BY EpisodeRecords
  <2> HIDE DEF S
  <2>5. last >= Len(script) - 1 => ~\E i \in 0 .. Len(script) - 1 : \A j \in S : j < i
    BY <2>1, <2>2, <2>4
  <2>6. ~(last >= Len(script) - 1) =>
          \E i \in 0 .. Len(script) - 1 : \A j \in S : j < i
    <3> SUFFICES ASSUME ~(last >= Len(script) - 1)
                 PROVE  \E i \in 0 .. Len(script) - 1 : \A j \in S : j < i
      OBVIOUS
    <3>1. last \in Nat /\ Len(script) - 1 \in 0 .. Len(script) - 1
      BY <2>1, <2>2, <2>4
    <3>2. \A j \in S : j < Len(script) - 1
      BY <2>1, <2>2, <2>4, <3>1
    <3> QED BY <3>1, <3>2
  <2> QED BY <1>1, <1>2, <2>3, <2>5, <2>6 DEF S
<1>3. CASE fault.operator # "A2"
  BY <1>1, <1>3
<1> QED BY <1>2, <1>3

\* The steps asked for are in the window, and the manifest names a slot.
LEMMA InsideWindow ==
  ASSUME GateTyped, Faithful
  PROVE  /\ Inside(fault) \subseteq InTrace(fault)
         /\ fault.operator \in {"A1", "A2", "C1"} =>
              \A i : i \in Inside(fault) <=> i \in InTrace(fault) /\ i \in AffectedIndices(fault)
         /\ fault.operator \notin {"A1", "A2", "C1"} => Inside(fault) = InTrace(fault)
         /\ DelayedSlot(fault) \in Range(fault.slots)
         /\ Range(fault.slots) \subseteq Slots
<1>1. AffectedIndices(fault) \subseteq Window(fault)
  BY AffectedInWindow DEF GateTyped
<1>2. Len(trace) = Len(script)
  BY FaithfulReads
<1> QED BY <1>1, <1>2, SlotsListed DEF Inside, InTrace, GateTyped

\* Availability.
LEMMA AvailabilityPasses ==
  ASSUME GateTyped, Faithful, fault.operator \in Availability
  PROVE  Gate(fault) = {} <=> Exposed(fault)
<1> DEFINE m == fault
<1>1. OperatorCodes(m) = {}
  BY DEF OperatorCodes, Availability, Fidelity
<1>2. \A i, s : Struck(m, s, i) <=> i \in AffectedIndices(m) /\ s \in Range(m.slots)
  BY Zenon DEF Struck, Availability, Fidelity, Temporal
<1>3. m.operator \in {"A1", "A2"}
  BY DEF Availability
<1>4. (\E i \in InTrace(m), s \in Slots : Struck(m, s, i)) <=> Inside(m) # {}
  BY <1>2, <1>3, InsideWindow
<1> QED BY <1>1, <1>3, <1>4, FaithfulGate, ResumeHolds, ExposedWhen

\* When a faithful reading is routed from a clean one.
LEMMA RoutedWhen ==
  ASSUME GateTyped, Faithful, NEW i \in Steps, NEW s \in Slots,
         NEW j \in Steps, NEW t \in Slots, NEW r, r = Shown(Reading(fault, s, i))
  PROVE  RoutedFrom(<<i, s>>, t, j) <=>
           r.index = j /\ r.hash = Pixels(Frame(t, j)) /\ r.source = t
<1>1. Faulty(<<i, s>>) = r
  BY FaithfulSpots
<1>2. PICK c : c = Shown(CleanAt(t, j))
  OBVIOUS
<1>3. Clean[j + 1].tactile[t] = c
  BY <1>2, Spotted
<1>4. c.hash = Pixels(Frame(t, j)) /\ c.source = t
  BY <1>2, ShownClean
<1>5. RoutedFrom(<<i, s>>, t, j) <=>
        r.index = j /\ r.hash = c.hash /\ r.source = c.source
  BY <1>1, <1>3, Zenon DEF RoutedFrom
<1> QED BY <1>4, <1>5

\* The exchange of the cameras.
LEMMA IdentityPasses ==
  ASSUME GateTyped, Faithful, fault.operator = "C1"
  PROVE  Gate(fault) = {} <=> Exposed(fault)
<1> DEFINE m == fault
<1>1. \A i, s : Struck(m, s, i) <=> i \in AffectedIndices(m)
  BY DEF Struck, Availability, Fidelity, Temporal
<1>2. OperatorCodes(m) = IdentityCodes(m)
  BY DEF OperatorCodes, Fidelity
<1>3. ASSUME NEW spot \in Spots(m)
      PROVE  /\ spot \in Swapped(m) <=> spot[1] \in AffectedIndices(m)
             /\ spot \in Swapped(m) => /\ RoutedFrom(spot, Other(spot[2]), spot[1])
                                       /\ Faulty(spot).source # spot[2]
             /\ spot \notin Swapped(m) => Faulty(spot) = Healthy(spot)
  <2>1. PICK i \in Steps, s \in Slots :
          spot = <<i, s>> /\ s \in Range(m.slots) /\ Active(m, i) /\ i \in InTrace(m)
    BY SpotSplit
  <2>2. PICK r : r = Shown(Reading(m, s, i))
    OBVIOUS
  <2>3. spot[1] = i /\ spot[2] = s /\ Faulty(spot) = r
    BY <2>1, <2>2, FaithfulSpots
  <2>4. spot \in Swapped(m) <=> i \in AffectedIndices(m)
    BY <2>1 DEF Swapped, InTrace
  <2>5. CASE i \in AffectedIndices(m)
    <3>1. PICK o : o = Other(s)
      OBVIOUS
    <3>2. o \in Slots /\ o # s
      BY <3>1, OtherSlot
    <3>3. r = Shown(New(m, s, i))
      BY <1>1, <2>2, <2>5 DEF Reading
    <3>4. r.hash = Pixels(Frame(o, i)) /\ r.source = o /\ r.index = i
      BY <3>1, <3>3, ShownSwapped
    <3>5. RoutedFrom(<<i, s>>, o, i)
      BY <2>2, <3>2, <3>4, RoutedWhen
    <3> QED BY <2>1, <2>3, <2>4, <2>5, <3>1, <3>2, <3>4, <3>5
  <2>6. CASE i \notin AffectedIndices(m)
    <3>1. Faulty(<<i, s>>) = Healthy(<<i, s>>)
      BY <1>1, <2>6, Unstruck, FaithfulSpots
    <3> QED BY <2>1, <2>3, <2>4, <2>6, <3>1
  <2> QED BY <2>5, <2>6
<1>4. Swapped(m) \subseteq Spots(m)
  <2>1. AffectedIndices(m) \subseteq Window(m)
    BY AffectedInWindow DEF GateTyped
  <2> QED BY <2>1 DEF Swapped, Spots, InTrace
<1>5. Swapped(m) # {} <=> Inside(m) # {}
  <2>1. Inside(m) = {i \in AffectedIndices(m) : i < Len(trace)}
    BY FaithfulReads DEF Inside
  <2>2. Swapped(m) = Inside(m) \X Range(m.slots)
    BY <2>1 DEF Swapped
  <2>3. PICK s \in Range(m.slots) : TRUE
    BY InsideWindow
  <2>4. \A i \in Inside(m) : <<i, s>> \in Swapped(m)
    BY <2>2, <2>3
  <2> QED BY <2>2, <2>4
<1>6. IdentityCodes(m) = {} <=> Swapped(m) # {}
  BY <1>3, <1>4, IdentityHolds
<1>7. (\E i \in InTrace(m), s \in Slots : Struck(m, s, i)) <=> Inside(m) # {}
  BY <1>1, InsideWindow
<1> QED BY <1>2, <1>5, <1>6, <1>7, FaithfulGate, ResumeHolds, ExposedWhen

\* A temporal fault shows the source its schedule names, whether the reading was
\* replaced or is its own source.
LEMMA SourceShown ==
  ASSUME GateTyped, Faithful, fault.operator \in Temporal, NEW spot \in Spots(fault),
         NEW j, j = SourceIndex(fault, spot[2], spot[1])
  PROVE  /\ RoutedFrom(spot, spot[2], j) /\ Faulty(spot).index = j
         /\ j \in Nat /\ Active(fault, spot[1]) /\ spot[1] \in InTrace(fault)
         /\ Faulty(spot) = trace[spot[1] + 1].tactile[spot[2]]
         /\ j = spot[1] => (fault.operator = "T2" => Faulty(spot) = Healthy(spot))
<1> DEFINE m == fault
<1>1. PICK i \in Steps, s \in Slots :
        spot = <<i, s>> /\ s \in Range(m.slots) /\ Active(m, i) /\ i \in InTrace(m)
  BY SpotSplit
<1>2. PICK r : r = Shown(Reading(m, s, i))
  OBVIOUS
<1>3. spot[1] = i /\ spot[2] = s /\ Faulty(spot) = r
  BY <1>1, <1>2, FaithfulSpots
<1>4. j \in Nat /\ j \in Steps
  <2>1. j \in 0 .. i
    BY <1>1, <1>3, SourceIsPast DEF GateTyped, Active
  <2> QED BY <2>1, EpisodeRecords DEF Steps
<1>5. Struck(m, s, i) <=> (m.operator = "T2" => j # i)
  BY <1>1, <1>3, Zenon DEF Struck, Availability, Fidelity, Temporal, Families
<1>6. r.hash = Pixels(Frame(s, j)) /\ r.source = s /\ r.index = j
  <2>1. CASE Struck(m, s, i)
    <3>1. r = Shown(New(m, s, i))
      BY <1>2, <2>1 DEF Reading
    <3> QED BY <1>3, <3>1, ShownRouted
  <2>2. CASE ~Struck(m, s, i)
    <3>1. r = Shown(CleanAt(s, i))
      BY <1>2, <2>2 DEF Reading
    <3> QED BY <1>5, <2>2, <3>1, ShownClean
  <2> QED BY <2>1, <2>2
<1>7. RoutedFrom(<<i, s>>, s, j)
  BY <1>2, <1>4, <1>6, RoutedWhen
<1>8. Faulty(<<i, s>>) = trace[i + 1].tactile[s]
  BY Spotted
<1>9. ~Struck(m, s, i) => Faulty(<<i, s>>) = Healthy(<<i, s>>)
  BY Unstruck, FaithfulSpots
<1> QED BY <1>1, <1>3, <1>4, <1>5, <1>6, <1>7, <1>8, <1>9

\* When a temporal fault strikes.
LEMMA TemporalStrikes ==
  ASSUME NEW m, m.operator \in Temporal
  PROVE  \A i, s : Struck(m, s, i) <=>
           /\ Active(m, i) /\ s \in Range(m.slots)
           /\ m.operator = "T2" => SourceIndex(m, s, i) # i
<1>1. m.operator \notin Availability /\ m.operator \notin Fidelity
      /\ m.operator # "C1" /\ m.operator # "C2"
  BY DEF Temporal, Availability, Fidelity
<1> QED BY <1>1, Zenon DEF Struck

\* The delay.
LEMMA DelayPasses ==
  ASSUME GateTyped, Faithful, fault.operator = "T1"
  PROVE  Gate(fault) = {} <=> Exposed(fault)
<1> DEFINE m == fault
<1>1. m.operator \in Temporal
  BY DEF Temporal
<1>2. OperatorCodes(m) = DelayCodes(m)
  BY DEF OperatorCodes, Fidelity
<1>3. DelayCodes(m) = {}
  BY <1>1, SourceShown, DelayHolds
<1>4. (\E i \in InTrace(m), s \in Slots : Struck(m, s, i)) <=> Inside(m) # {}
  BY <1>1, TemporalStrikes, InsideWindow, InWindow
<1> QED BY <1>2, <1>3, <1>4, FaithfulGate, ResumeHolds, ExposedWhen

\* The freeze.
LEMMA FreezePasses ==
  ASSUME GateTyped, Faithful, fault.operator = "T2"
  PROVE  Gate(fault) = {} <=> Exposed(fault)
<1> DEFINE m == fault
           held == HeldIndex(m)
           until == m.start + HoldDuration(m)
<1>1. m.operator \in Temporal
  BY DEF Temporal
<1>2. OperatorCodes(m) = FreezeCodes(m)
  BY DEF OperatorCodes, Fidelity
<1>3. \A s, i : SourceIndex(m, s, i) = IF i < until THEN held ELSE i
  BY DEF SourceIndex
<1>4. Inside(m) = InTrace(m)
  BY InsideWindow
<1>5. (\E i \in InTrace(m), s \in Slots : Struck(m, s, i)) <=> Exposed(m)
  <2>1. Exposed(m) <=> \E i \in Inside(m) : held # i /\ i < until
    BY ExposedWhen
  <2>2. \A i \in InTrace(m), s \in Range(m.slots) :
          Struck(m, s, i) <=> held # i /\ i < until
    BY <1>1, <1>3, TemporalStrikes, InWindow
  <2>3. \A i, s : Struck(m, s, i) => s \in Range(m.slots)
    BY <1>1, TemporalStrikes
  <2> HIDE DEF held, until
  <2> QED BY <1>4, <2>1, <2>2, <2>3, InsideWindow
<1>6. Exposed(m) => Frozen(m) # {}
  BY <1>4, ExposedWhen DEF Frozen
<1>7. ASSUME Frozen(m) # {} PROVE FreezeCodes(m) = {}
  <2>1. ASSUME NEW i \in Frozen(m), NEW s \in Range(m.slots)
        PROVE  RoutedFrom(<<i, s>>, s, held) /\ trace[i + 1].tactile[s].index = held
    <3>1. <<i, s>> \in Spots(m) /\ <<i, s>>[1] = i /\ <<i, s>>[2] = s
      BY DEF Frozen, Spots
    <3>2. SourceIndex(m, s, i) = held
      BY <1>3 DEF Frozen
    <3>3. PICK spot : spot = <<i, s>>
      OBVIOUS
    <3>4. /\ RoutedFrom(spot, spot[2], held) /\ Faulty(spot).index = held
          /\ Faulty(spot) = trace[spot[1] + 1].tactile[spot[2]]
      BY <1>1, <3>1, <3>2, <3>3, SourceShown
    <3> QED BY <3>1, <3>3, <3>4
  <2>2. ASSUME NEW s \in Range(m.slots)
        PROVE  Cardinality({trace[i + 1].tactile[s].index : i \in Frozen(m)}) = 1
    <3>1. {trace[i + 1].tactile[s].index : i \in Frozen(m)} = {held}
      BY <1>7, <2>1
    <3> QED BY <3>1, FS_Singleton
  <2>3. \A spot \in Frozen(m) \X Range(m.slots) : RoutedFrom(spot, spot[2], held)
    <3> SUFFICES ASSUME NEW i \in Frozen(m), NEW s \in Range(m.slots)
                 PROVE  RoutedFrom(<<i, s>>, <<i, s>>[2], held)
      OBVIOUS
    <3>1. <<i, s>>[2] = s
      OBVIOUS
    <3> QED BY <2>1, <3>1
  <2>4. \A spot \in Spots(m) : spot[1] \notin Frozen(m) => Faulty(spot) = Healthy(spot)
    <3> SUFFICES ASSUME NEW spot \in Spots(m), spot[1] \notin Frozen(m)
                 PROVE  Faulty(spot) = Healthy(spot)
      OBVIOUS
    <3>1. PICK j : j = SourceIndex(m, spot[2], spot[1])
      OBVIOUS
    <3>2. spot[1] \in InTrace(m)
      BY <1>1, <3>1, SourceShown
    <3>3. j = spot[1]
      BY <1>3, <3>1, <3>2 DEF Frozen
    <3> QED BY <1>1, <3>1, <3>3, SourceShown
  <2> QED BY <2>2, <2>3, <2>4, FreezeHolds
<1> QED BY <1>2, <1>5, <1>6, <1>7, FaithfulGate, ResumeHolds

\* A pair has two elements.
LEMMA PairHasTwo ==
  ASSUME NEW a, NEW b, a # b
  PROVE  Cardinality({a, b}) = 2
<1>1. IsFiniteSet({a}) /\ Cardinality({a}) = 1
  BY FS_Singleton
<1>2. Cardinality({a} \cup {b}) = Cardinality({a}) + 1
  BY <1>1, FS_AddElement
<1>3. {a} \cup {b} = {a, b}
  OBVIOUS
<1> QED BY <1>1, <1>2, <1>3

\* The skew.
LEMMA SkewPasses ==
  ASSUME GateTyped, Faithful, fault.operator = "T3"
  PROVE  Gate(fault) = {} <=> Exposed(fault)
<1> DEFINE m == fault
           lag == Lags.T3[m.level]
           late == DelayedSlot(m)
           S == Range(m.slots)
<1>1. m.operator \in Temporal
  BY DEF Temporal
<1>2. OperatorCodes(m) = SkewCodes(m)
  BY DEF OperatorCodes, Fidelity
<1>3. lag \in Nat \ {0}
  <2>1. m.level \in 1 .. 5
    BY DEF GateTyped, FaultManifest
  <2> QED BY <2>1 DEF Lags
<1>4. Inside(m) = InTrace(m) /\ late \in S /\ S \subseteq Slots /\ InTrace(m) \subseteq Nat
  BY InsideWindow, InWindow
<1>5. ASSUME NEW i \in InTrace(m), NEW s \in S
      PROVE  /\ trace[i + 1].tactile[s].index
                  = IF s = late THEN (IF 0 >= i - lag THEN 0 ELSE i - lag) ELSE i
             /\ trace[i + 1].tactile[s].index \in Nat
  <2>1. <<i, s>> \in Spots(m) /\ <<i, s>>[1] = i /\ <<i, s>>[2] = s
    BY DEF Spots
  <2>2. PICK j : j = SourceIndex(m, s, i)
    OBVIOUS
  <2>3. PICK spot : spot = <<i, s>>
    OBVIOUS
  <2>4. Faulty(spot).index = j /\ j \in Nat /\ Faulty(spot) = trace[spot[1] + 1].tactile[spot[2]]
    BY <1>1, <2>1, <2>2, <2>3, SourceShown
  <2>5. j = IF s = late THEN Max({0, i - lag}) ELSE i
    BY <2>2 DEF SourceIndex
  <2>6. Max({0, i - lag}) = IF 0 >= i - lag THEN 0 ELSE i - lag
    BY <1>3, <1>4, MaxOfTwo
  <2> QED BY <2>1, <2>3, <2>4, <2>5, <2>6
<1>6. InTrace(m) = Concrete(m)
  BY <1>5 DEF Concrete, SourcesAt, NoIndex
<1>7. \A spot \in Spots(m) : RoutedFrom(spot, spot[2], SourceIndex(m, spot[2], spot[1]))
  BY <1>1, SourceShown
<1>8. (\E i \in InTrace(m), s \in Slots : Struck(m, s, i)) <=> InTrace(m) # {}
  BY <1>1, <1>4, TemporalStrikes, InWindow
<1>9. ASSUME NEW i \in InTrace(m)
      PROVE  Cardinality(SourcesAt(m, i)) # 1 <=> Cardinality(S) = 2 /\ i > 0
  <2> DEFINE early == IF 0 >= i - lag THEN 0 ELSE i - lag
  <2>1. i \in Nat /\ early \in Nat /\ (early = i <=> i = 0)
    BY <1>3, <1>4
  <2>2. CASE S = Slots
    <3>1. Cardinality(S) = 2
      <4>1. S = {"left", "right"} /\ "left" # "right"
        BY <2>2 DEF Slots
      <4> HIDE DEF S
      <4> QED BY <4>1, PairHasTwo
    <3>2. PICK other \in Slots : other # late
      BY DEF Slots
    <3>3. Slots = {late, other}
      BY <1>4, <3>2 DEF Slots
    <3>4. SourcesAt(m, i) = {early, i}
      BY <1>5, <2>2, <3>2, <3>3 DEF SourcesAt
    <3> HIDE DEF early
    <3>5. CASE i = 0
      <4>1. SourcesAt(m, i) = {i}
        BY <2>1, <3>4, <3>5
      <4> QED BY <2>1, <3>5, <4>1, FS_Singleton
    <3>6. CASE i # 0
      <4>1. PICK e : e = early
        OBVIOUS
      <4>2. e # i /\ SourcesAt(m, i) = {e, i}
        BY <2>1, <3>4, <3>6, <4>1
      <4>3. Cardinality({e, i}) = 2
        BY <4>2, PairHasTwo
      <4>4. Cardinality(SourcesAt(m, i)) = 2
        BY <4>2, <4>3
      <4> QED BY <2>1, <3>1, <3>6, <4>4
    <3> QED BY <3>5, <3>6
  <2>3. CASE S # Slots
    <3>1. S = {late}
      BY <1>4, <2>3 DEF Slots
    <3>2. Cardinality(S) = 1
      BY <3>1, FS_Singleton
    <3>3. SourcesAt(m, i) = {early}
      BY <1>5, <3>1 DEF SourcesAt
    <3>4. Cardinality(SourcesAt(m, i)) = 1
      BY <3>3, FS_Singleton
    <3> QED BY <3>2, <3>4
  <2> QED BY <2>2, <2>3
<1>10. InTrace(m) # {} => (Max(InTrace(m)) > 0 <=> \E i \in InTrace(m) : i > 0)
  <2> SUFFICES ASSUME InTrace(m) # {}
               PROVE  Max(InTrace(m)) > 0 <=> \E i \in InTrace(m) : i > 0
    OBVIOUS
  <2>1. m.start \in Nat /\ m.stop \in Nat /\ Len(script) \in Nat /\ Len(trace) = Len(script)
    BY EpisodeRecords, FaithfulReads DEF GateTyped, FaultManifest
  <2>2. \A i : i \in InTrace(m) <=> i \in Nat /\ m.start =< i /\ i < m.stop /\ i < Len(script)
    BY <2>1 DEF InTrace, Window
  <2> DEFINE last == IF m.stop =< Len(script) THEN m.stop - 1 ELSE Len(script) - 1
  <2>3. last \in InTrace(m) /\ \A i \in InTrace(m) : last >= i
    BY <2>1, <2>2
  <2> HIDE DEF last
  <2>4. Max(InTrace(m)) = last
    BY <1>4, <2>3, MaxIs
  <2> QED BY <1>4, <2>3, <2>4
<1>11. SkewCodes(m) = {} <=> \E i \in InTrace(m) : Cardinality(S) = 2 /\ i > 0
  BY <1>6, <1>7, <1>9, SkewHolds
<1>12. Exposed(m) <=> /\ InTrace(m) # {} /\ Cardinality(S) = 2 /\ Max(InTrace(m)) > 0
  BY <1>4, ExposedWhen
<1> HIDE DEF S
<1> QED BY <1>2, <1>8, <1>10, <1>11, <1>12, FaithfulGate, ResumeHolds

\* When a fidelity fault, or C2, strikes.
LEMMA TransformStrikes ==
  ASSUME NEW m, m.operator \in Fidelity \cup {"C2"}
  PROVE  \A i, s : Struck(m, s, i) <=>
           /\ Active(m, i) /\ s \in Range(m.slots)
           /\ m.operator \in {"F5", "F7"} => script[i + 1] \in Touching
<1>1. CASE m.operator \in Fidelity
  <2>1. m.operator \notin Availability /\ m.operator \notin Temporal
        /\ m.operator # "C1" /\ m.operator # "C2"
    BY <1>1 DEF Temporal, Availability, Fidelity
  <2> QED BY <1>1, <2>1, Zenon DEF Struck, InContact, Touching
<1>2. CASE m.operator = "C2"
  BY <1>2 DEF Struck, Temporal, Availability, Fidelity
<1> QED BY <1>1, <1>2

\* C2 leaves its mark in the calibration.
LEMMA ShiftedShows ==
  ASSUME NEW m, m.operator = "C2", NEW s, NEW i, NEW r, r = Shown(New(m, s, i))
  PROVE  r.calibrated = "shifted"
<1>1. New(m, s, i) = ShiftedReading(m, s, CleanAt(s, i))
  BY DEF New, Availability, Fidelity, Temporal
<1>2. PICK c : c = CleanAt(s, i)
  OBVIOUS
<1>3. PICK x : x = ShiftedReading(m, s, c)
  OBVIOUS
<1>4. DOMAIN c = Fields
  BY <1>2, SpelledClean
<1>5. DOMAIN x = Fields /\ x.calibrated = "shifted"
  BY <1>3, <1>4 DEF ShiftedReading, Fields
<1>6. r = Shown(x)
  BY <1>1, <1>2, <1>3
<1> QED BY <1>5, <1>6, SpelledShown

\* A faithful fidelity fault or C2 matches the reference, so its dose decides.
LEMMA SignatureGate ==
  ASSUME GateTyped, Faithful, fault.operator \in Fidelity \cup {"C2"}
  PROVE  Gate(fault) = {} <=>
           /\ \E i \in InTrace(fault), s \in Slots : Struck(fault, s, i)
           /\ Dosed(fault) /\ DiagnosticCodes(fault) = {}
<1> DEFINE m == fault
<1>1. OperatorCodes(m) = SignatureCodes(m)
  BY DEF OperatorCodes, Fidelity
<1>2. Matched(m)
  <2> SUFFICES ASSUME NEW spot \in Spots(m)
               PROVE  Faulty(spot).payload = Pixels(Expected(m, spot))
    BY DEF Matched
  <2>1. PICK i \in Steps, s \in Slots :
          spot = <<i, s>> /\ s \in Range(m.slots) /\ Active(m, i) /\ i \in InTrace(m)
    BY SpotSplit
  <2>2. Faulty(<<i, s>>) = Shown(Reading(m, s, i))
    BY FaithfulSpots
  <2>3. Shown(Reading(m, s, i)).payload = Pixels(Expected(m, <<i, s>>))
    BY <2>1, ReferenceAgrees
  <2> QED BY <2>1, <2>2, <2>3
<1>3. m.operator = "C2" /\ (\E i \in InTrace(m), s \in Slots : Struck(m, s, i)) =>
        \E spot \in Spots(m) : Faulty(spot).calibrated # Healthy(spot).calibrated
  <2> SUFFICES ASSUME m.operator = "C2",
                      NEW i \in InTrace(m), NEW s \in Slots, Struck(m, s, i)
               PROVE  \E spot \in Spots(m) : Faulty(spot).calibrated # Healthy(spot).calibrated
    OBVIOUS
  <2>1. i \in Steps /\ s \in Range(m.slots)
    BY InWindow, TransformStrikes
  <2>2. <<i, s>> \in Spots(m)
    BY <2>1 DEF Spots
  <2>3. PICK r : r = Shown(New(m, s, i))
    OBVIOUS
  <2>4. PICK c : c = Shown(CleanAt(s, i))
    OBVIOUS
  <2>5. Faulty(<<i, s>>) = r /\ Healthy(<<i, s>>) = c
    BY <2>1, <2>3, <2>4, FaithfulSpots DEF Reading
  <2>6. r.calibrated = "shifted" /\ c.calibrated = s
    <3>1. r.calibrated = "shifted"
      BY <2>3, ShiftedShows
    <3>2. c.calibrated = s
      BY <2>4, ShownClean
    <3> QED BY <3>1, <3>2
  <2>7. s # "shifted"
    BY DEF Slots
  <2> QED BY <2>2, <2>5, <2>6, <2>7
<1>4. ResumeCodes(m) = {}
  BY ResumeHolds DEF Fidelity
<1> QED BY <1>1, <1>2, <1>3, <1>4, FaithfulGate, SignatureHolds

\* What is on the pixels of a frame and of a transformed one.
LEMMA PixelsOf ==
  ASSUME NEW s, NEW i, NEW op \in Fidelity, NEW x
  PROVE  /\ Pixels(Frame(s, i)) = IF atRest THEN Rest(s) ELSE Frame(s, i)
         /\ Pixels(<<op, Frame(s, i), x>>)
              = IF ~atRest THEN <<op, Frame(s, i), x>>
                ELSE IF op \in {"F1", "F3"} THEN <<op, Rest(s), x>> ELSE Rest(s)
<1> DEFINE f == Frame(s, i)
           p == <<op, f, x>>
<1>1. f[1] = "camera" /\ f[2] = s /\ f # NoPayload
  BY DEF Frame, NoPayload
<1>2. p[1] = op /\ p[2] = f /\ p[3] = x /\ p # NoPayload
  BY DEF Fidelity, NoPayload
<1> HIDE DEF f, p
<1>3. Pixels(f) = IF atRest THEN Rest(s) ELSE f
  BY <1>1 DEF Pixels
<1>4. op \notin {"camera", "rest"}
  BY DEF Fidelity
<1>5. Pixels(p) = IF ~atRest THEN p
                  ELSE IF op \in {"F1", "F3"} THEN <<op, Rest(s), x>> ELSE Rest(s)
  BY <1>1, <1>2, <1>4 DEF Pixels
<1> QED BY <1>3, <1>5 DEF f, p

\* When a fidelity fault changes pixels.
LEMMA ChangedWhen ==
  ASSUME GateTyped, Faithful, fault.operator \in Fidelity \ {"F1"}, NEW spot \in Spots(fault)
  PROVE  Changed(spot) <=> /\ Struck(fault, spot[2], spot[1])
                           /\ atRest => fault.operator = "F3"
<1> DEFINE m == fault
<1>1. PICK i \in Steps, s \in Slots :
        spot = <<i, s>> /\ s \in Range(m.slots) /\ Active(m, i) /\ i \in InTrace(m)
  BY SpotSplit
<1>2. PICK r : r = Shown(Reading(m, s, i))
  OBVIOUS
<1>3. PICK c : c = Shown(CleanAt(s, i))
  OBVIOUS
<1>4. spot[1] = i /\ spot[2] = s /\ Faulty(spot) = r /\ Healthy(spot) = c
  BY <1>1, <1>2, <1>3, FaithfulSpots
<1>5. Changed(spot) <=> r.payload # c.payload
  BY <1>4 DEF Changed
<1>6. c.payload = IF atRest THEN Rest(s) ELSE Frame(s, i)
  <2>1. c.payload = Pixels(Frame(s, i))
    BY <1>3, ShownClean
  <2>2. Pixels(Frame(s, i)) = IF atRest THEN Rest(s) ELSE Frame(s, i)
    BY PixelsOf
  <2> QED BY <2>1, <2>2
<1>7. CASE Struck(m, s, i)
  <2>1. r = Shown(New(m, s, i))
    BY <1>2, <1>7 DEF Reading
  <2>2. r.payload = Pixels(NewPayload(m, s, i))
    BY <2>1, ShownMarked
  <2>3. PICK x : NewPayload(m, s, i) = <<m.operator, Frame(s, i), x>>
    BY PayloadNamed
  <2>4. r.payload = IF ~atRest THEN <<m.operator, Frame(s, i), x>>
                    ELSE IF m.operator \in {"F1", "F3"} THEN <<m.operator, Rest(s), x>>
                    ELSE Rest(s)
    BY <2>2, <2>3, PixelsOf
  <2>5. <<m.operator, Frame(s, i), x>> # Frame(s, i) /\ <<m.operator, Rest(s), x>> # Rest(s)
    BY DEF Frame, Rest, Fidelity
  <2> QED BY <1>4, <1>5, <1>6, <1>7, <2>4, <2>5
<1>8. CASE ~Struck(m, s, i)
  <2>1. r = c
    BY <1>2, <1>3, <1>8 DEF Reading
  <2> QED BY <1>4, <1>5, <1>8, <2>1
<1> QED BY <1>7, <1>8

\* The pairs of a phase are the spots of the phase: a fidelity fault keeps pixels.
LEMMA PairsAre ==
  ASSUME GateTyped, Faithful, fault.operator \in Fidelity, NEW phases
  PROVE  /\ \A i \in InTrace(fault), s \in Range(fault.slots) :
              script[i + 1] \in phases => <<i, s>> \in Pairs(fault, phases)
         /\ \A spot \in Pairs(fault, phases) :
              \E i \in InTrace(fault), s \in Range(fault.slots) :
                spot = <<i, s>> /\ spot[1] = i /\ spot[2] = s /\ script[i + 1] \in phases
         /\ Pairs(fault, phases) \subseteq Spots(fault)
<1> DEFINE m == fault
<1>1. \A spot \in Spots(m) : Faulty(spot).payload # NoPayload
  <2>1. m.operator \notin Availability
    BY DEF Fidelity, Availability
  <2> QED BY <2>1, FaithfulMarks, AvailabilityHolds
<1>2. \A i \in InTrace(m), s \in Range(m.slots) :
        <<i, s>> \in Spots(m) /\ <<i, s>>[1] = i /\ <<i, s>>[2] = s
  BY DEF Spots
<1>3. \A spot \in Spots(m) : \E i \in InTrace(m), s \in Range(m.slots) : spot = <<i, s>>
  BY DEF Spots
<1> QED BY <1>1, <1>2, <1>3 DEF Pairs

\* The operators that any record of the window exposes.
LEMMA PlainPasses ==
  ASSUME GateTyped, Faithful, fault.operator \in {"F1", "F2", "F3", "C2"}
  PROVE  Gate(fault) = {} <=> Exposed(fault)
<1> DEFINE m == fault
<1>1. m.operator \in Fidelity \cup {"C2"} /\ m.operator \notin {"A1", "A2", "C1", "F5", "F7"}
  BY DEF Fidelity
<1>2. Inside(m) = InTrace(m)
  BY <1>1, InsideWindow
<1>3. \A i \in InTrace(m), s \in Range(m.slots) : Struck(m, s, i)
  BY <1>1, TransformStrikes, InWindow
<1>4. (\E i \in InTrace(m), s \in Slots : Struck(m, s, i)) <=> InTrace(m) # {}
  BY <1>3, InsideWindow
<1>5. DiagnosticCodes(m) = {}
  BY <1>1 DEF DiagnosticCodes
<1>6. InTrace(m) # {} => Dosed(m)
  <2> SUFFICES ASSUME NEW i \in InTrace(m) PROVE Dosed(m)
    OBVIOUS
  <2>0. PICK s \in Range(m.slots) : TRUE
    BY InsideWindow
  <2>1. script[i + 1] \in Anywhere
    <3>1. i + 1 \in DOMAIN script
      BY InWindow, EpisodeRecords DEF Steps, GateTyped
    <3> QED BY <3>1 DEF GateTyped
  <2>2. CASE m.operator = "F1"
    <3>1. <<i, s>> \in Pairs(m, Anywhere)
      BY <2>1, <2>2, PairsAre DEF Fidelity
    <3> QED BY <2>2, <3>1 DEF Dosed
  <2>3. CASE m.operator = "F2"
    <3>1. m.operator \in Fidelity \ {"F1"}
      BY <2>3 DEF Fidelity
    <3>2. ASSUME ~atRest, NEW spot \in Pairs(m, Touching) PROVE Changed(spot)
      <4>1. Struck(m, spot[2], spot[1])
        BY <1>3, <3>1, PairsAre
      <4>2. spot \in Spots(m)
        BY <3>1, PairsAre
      <4> QED BY <3>1, <3>2, <4>1, <4>2, ChangedWhen
    <3> QED BY <2>3, <3>2 DEF Dosed
  <2>4. CASE m.operator = "F3"
    <3>1. m.operator \in Fidelity \ {"F1"}
      BY <2>4 DEF Fidelity
    <3>2. <<i, s>> \in Pairs(m, Anywhere) /\ <<i, s>> \in Spots(m)
      BY <2>1, <3>1, PairsAre
    <3>3. PICK spot : spot = <<i, s>>
      OBVIOUS
    <3>4. spot[1] = i /\ spot[2] = s
      BY <3>3
    <3>5. Changed(spot)
      BY <1>3, <2>4, <3>1, <3>2, <3>3, <3>4, ChangedWhen
    <3> QED BY <2>4, <3>2, <3>3, <3>5 DEF Dosed
  <2>5. CASE m.operator = "C2"
    BY <2>5 DEF Dosed
  <2> QED BY <2>2, <2>3, <2>4, <2>5
<1> QED BY <1>1, <1>2, <1>4, <1>5, <1>6, SignatureGate, ExposedWhen

\* The operators that shape a contact.
LEMMA ContactPasses ==
  ASSUME GateTyped, Faithful, fault.operator \in {"F4", "F5", "F7"}
  PROVE  Gate(fault) = {} <=> Exposed(fault)
<1> DEFINE m == fault
           P == Pairs(m, Touching)
           touched == \E i \in InTrace(m) : script[i + 1] \in Touching
<1>1. m.operator \in Fidelity \ {"F1"} /\ m.operator \notin {"A1", "A2", "C1", "F3"}
  BY DEF Fidelity
<1>2. Inside(m) = InTrace(m)
  BY <1>1, InsideWindow
<1>3. Exposed(m) <=> ~atRest /\ touched
  BY <1>2, ExposedWhen
<1>4. P # {} <=> touched
  BY <1>1, InsideWindow, PairsAre
<1>5. \A spot \in P : Struck(m, spot[2], spot[1])
  BY <1>1, TransformStrikes, InWindow, PairsAre
<1>6. (\E spot \in P : Changed(spot)) <=> ~atRest /\ touched
  <2>1. \A spot \in P : Changed(spot) <=> ~atRest
    BY <1>1, <1>5, PairsAre, ChangedWhen
  <2> QED BY <1>4, <2>1
<1>7. touched => \E i \in InTrace(m), s \in Slots : Struck(m, s, i)
  BY <1>1, TransformStrikes, InWindow, InsideWindow
<1>8. CASE m.operator = "F4"
  <2>1. DiagnosticCodes(m) = {} /\ (Dosed(m) <=> \E spot \in P : Changed(spot))
    BY <1>8 DEF DiagnosticCodes, Dosed
  <2> QED BY <1>1, <1>3, <1>6, <1>7, <2>1, SignatureGate
<1>9. CASE m.operator = "F5"
  <2>1. Dosed(m) <=> P # {}
    BY <1>9 DEF Dosed
  <2>2. DiagnosticCodes(m) = {} <=> P # {} /\ \E spot \in P : Changed(spot)
    <3> DEFINE A == P = {}
               B == ~\E spot \in P : Changed(spot)
    <3>1. DiagnosticCodes(m)
            = (IF A THEN {"NO_CONTACT_SAMPLE"} ELSE {})
              \cup (IF A THEN {"F5_SOURCE_MAP_FOLD"} ELSE {})
              \cup (IF B THEN {"F5_NO_VISIBLE_WARP_EFFECT"} ELSE {})
      BY <1>9 DEF DiagnosticCodes, Code
    <3>2. ~A /\ ~B <=> P # {} /\ \E spot \in P : Changed(spot)
      BY Zenon
    <3> HIDE DEF A, B
    <3>3. DiagnosticCodes(m) = {} <=> ~A /\ ~B
      BY <3>1
    <3> QED BY <3>2, <3>3, Zenon
  <2> QED BY <1>1, <1>3, <1>4, <1>6, <1>7, <2>1, <2>2, SignatureGate
<1>10. CASE m.operator = "F7"
  <2>1. Dosed(m) <=> \E spot \in P : Changed(spot)
    BY <1>10 DEF Dosed
  <2>2. DiagnosticCodes(m) = {} <=> P # {} /\ ~atRest
    <3> DEFINE A == P = {}
               B == atRest \/ P = {}
    <3>1. DiagnosticCodes(m)
            = (IF A THEN {"NO_CONTACT_SAMPLE"} ELSE {})
              \cup (IF B THEN {"F7_NO_DETAIL_SAMPLE"} ELSE {})
      BY <1>10 DEF DiagnosticCodes, Code
    <3>2. ~A /\ ~B <=> P # {} /\ ~atRest
      BY Zenon
    <3> HIDE DEF A, B
    <3>3. DiagnosticCodes(m) = {} <=> ~A /\ ~B
      BY <3>1
    <3> QED BY <3>2, <3>3, Zenon
  <2> QED BY <1>1, <1>3, <1>4, <1>6, <1>7, <2>1, <2>2, SignatureGate
<1> QED BY <1>8, <1>9, <1>10

\* The imprint.
LEMMA ImprintPasses ==
  ASSUME GateTyped, Faithful, fault.operator = "F6"
  PROVE  Gate(fault) = {} <=> Exposed(fault)
<1> DEFINE m == fault
           P == Pairs(m, {"release"})
           after(i) == \E k \in 1 .. i : script[k] \in Touching
<1>1. m.operator \in Fidelity \ {"F1"} /\ m.operator \notin {"A1", "A2", "C1", "F3", "F5", "F7"}
  BY DEF Fidelity
<1>2. Inside(m) = InTrace(m)
  BY <1>1, InsideWindow
<1>3. Exposed(m) <=> ~atRest /\ \E i \in InTrace(m) : script[i + 1] = "release" /\ after(i)
  BY <1>2, ExposedWhen
<1>4. \A i \in InTrace(m), s \in Range(m.slots) : Struck(m, s, i)
  BY <1>1, TransformStrikes, InWindow
<1>5. \A spot \in P : Changed(spot) <=> ~atRest
  BY <1>1, <1>4, PairsAre, ChangedWhen
<1>6. Dosed(m) <=> \E spot \in P : Lingers(spot)
  BY DEF Dosed
<1>7. \A spot \in P : Lingers(spot) <=> ~atRest /\ after(spot[1])
  BY <1>5, Zenon DEF Lingers
<1> HIDE DEF after
<1>8. Dosed(m) <=> Exposed(m)
  <2>1. ASSUME NEW spot \in P
        PROVE  spot[1] \in InTrace(m) /\ script[spot[1] + 1] = "release"
    BY <1>1, PairsAre
  <2>2. ASSUME NEW i \in InTrace(m), script[i + 1] = "release"
        PROVE  \E spot \in P : spot[1] = i
    <3>1. PICK s \in Range(m.slots) : TRUE
      BY InsideWindow
    <3>2. <<i, s>> \in P /\ <<i, s>>[1] = i
      BY <1>1, <2>2, PairsAre
    <3> QED BY <3>2
  <2> HIDE DEF P
  <2> QED BY <1>3, <1>6, <1>7, <2>1, <2>2
<1>9. Dosed(m) => P # {}
  BY <1>6, Zenon
<1>10. DiagnosticCodes(m) = {} <=> P # {}
  <2>1. DiagnosticCodes(m) = Code("NO_RELEASE_SAMPLE", P = {})
    BY DEF DiagnosticCodes
  <2> HIDE DEF P
  <2> QED BY <2>1 DEF Code
<1>11. Exposed(m) => \E i \in InTrace(m), s \in Slots : Struck(m, s, i)
  BY <1>3, <1>4, InsideWindow
<1> QED BY <1>1, <1>8, <1>9, <1>10, <1>11, SignatureGate

\* The gate passes a faithful trace exactly when the episode exposes the fault.
LEMMA FaithfulPasses ==
  ASSUME GateTyped, Faithful
  PROVE  Gate(fault) = {} <=> Exposed(fault)
<1>1. fault.operator \in OperatorIds
  BY DEF GateTyped, FaultManifest
<1>2. \/ fault.operator \in Availability
      \/ fault.operator \in {"F1", "F2", "F3", "C2"}
      \/ fault.operator \in {"F4", "F5", "F7"}
      \/ fault.operator \in {"F6", "T1", "T2", "T3", "C1"}
  BY <1>1 DEF OperatorIds, Availability, Fidelity, Temporal, Context
<1> QED BY <1>2, AvailabilityPasses, PlainPasses, ContactPasses, ImprintPasses,
           DelayPasses, FreezePasses, SkewPasses, IdentityPasses

\* What exposes a fault does not depend on the trace.
LEMMA ExposedStays ==
  ASSUME fault' = fault, script' = script, atRest' = atRest
  PROVE  Exposed(fault)' <=> Exposed(fault)
BY Zenon DEF Exposed

-----------------------------------------------------------------------------
(* The gate's invariant: a trace nothing altered is the faithful one, the     *)
(* validation passes that one exactly when the episode exposes the fault, and *)
(* whatever passed shows the fault.                                           *)

GateInv ==
  /\ GateTyped /\ defects \in Nat
  /\ defects = 0 => Faithful
  /\ FaithfulPassesWhenExposed
  /\ PassedShowsTheFault

\* It holds at first.
LEMMA GateInitInv == GateInit => GateInv
<1> SUFFICES ASSUME GateInit PROVE GateInv
  OBVIOUS
<1>1. GateTyped
  BY GateAssumption DEF GateInit, GateTyped
<1>2. defects = 0 /\ Faithful
  BY DEF GateInit, Faithful
<1>3. report = Unvalidated /\ report # {}
  BY DEF GateInit, Unvalidated
<1> QED BY <1>1, <1>2, <1>3
        DEF GateInv, PassedShowsTheFault, FaithfulPassesWhenExposed, Passed

\* A step that leaves the trace as it is keeps the invariant, when its report is the
\* old one or the gate's.
LEMMA ReportKeepsInv ==
  ASSUME GateInv, UNCHANGED <<fault, script, atRest, trace, defects>>,
         report' = report \/ report' = Gate(fault)
  PROVE  GateInv'
<1> USE DEF GateInv
<1>1. GateTyped' /\ (defects \in Nat)'
  BY DEF GateTyped
<1>2. PICK good : good = Seen(Batch(Episode, fault))
  OBVIOUS
<1>3. Seen(Batch(Episode, fault))' = good
  BY <1>2, SeenStays
<1>4. (defects = 0 => Faithful)'
  BY <1>2, <1>3 DEF Faithful
<1>5. FaithfulPassesWhenExposed'
  <2> SUFFICES ASSUME defects = 0, report' # Unvalidated
               PROVE  report' = {} <=> Exposed(fault)
    BY ExposedStays DEF FaithfulPassesWhenExposed, Passed
  <2>1. Gate(fault) = {} <=> Exposed(fault)
    BY FaithfulPasses
  <2>2. CASE report' = report
    BY <2>2 DEF FaithfulPassesWhenExposed, Passed
  <2> QED BY <2>1, <2>2
<1>6. PassedShowsTheFault'
  <2>1. CASE report' = {}
    <3>1. /\ Len(trace) = Len(good)
          /\ \A k \in DOMAIN good :
               /\ trace[k].scene = good[k].scene
               /\ \A s \in Slots : trace[k].tactile[s].payload = good[k].tactile[s].payload
      <4>1. CASE report = {}
        BY <1>2, <4>1 DEF PassedShowsTheFault, Passed
      <4>2. CASE Gate(fault) = {}
        BY <1>2, <4>2, PassedShows
      <4> QED BY <2>1, <4>1, <4>2
    <3> QED BY <1>3, <3>1 DEF PassedShowsTheFault
  <2>2. CASE report' # {}
    BY <2>2 DEF PassedShowsTheFault, Passed
  <2> QED BY <2>1, <2>2
<1> QED BY <1>1, <1>4, <1>5, <1>6

\* Every step keeps it.
LEMMA GateNextInv == GateInv /\ [GateNext]_gateVars => GateInv'
<1> SUFFICES ASSUME GateInv, [GateNext]_gateVars PROVE GateInv'
  OBVIOUS
<1>1. CASE Defect
  <2> USE DEF GateInv
  <2>1. /\ fault' = fault /\ script' = script /\ atRest' = atRest
        /\ report = Unvalidated /\ report' = report /\ defects' = defects + 1
    BY <1>1, Zenon DEF Defect
  <2>2. GateTyped'
    BY <2>1 DEF GateTyped
  <2>3. defects' \in Nat /\ defects' # 0
    BY <2>1
  <2>4. report' # {}
    BY <2>1 DEF Unvalidated
  <2> QED BY <2>2, <2>3, <2>4
          DEF PassedShowsTheFault, FaithfulPassesWhenExposed, Passed
<1>2. CASE Validate
  BY <1>2, ReportKeepsInv, Zenon DEF Validate
<1>3. CASE UNCHANGED gateVars
  BY <1>3, ReportKeepsInv, Zenon DEF gateVars
<1> QED BY <1>1, <1>2, <1>3 DEF GateNext

\* The invariant of the gate: a trace nothing altered is the faithful one, it passes
\* exactly when the episode exposes the fault, and what passed shows the fault.
THEOREM GateInvariant == GateSpec => []GateInv
<1>1. GateInit => GateInv
  BY GateInitInv
<1>2. GateInv /\ [GateNext]_gateVars => GateInv'
  BY GateNextInv
<1> QED BY <1>1, <1>2, PTL DEF GateSpec

\* A delivery of the operators passes the validation exactly when the episode exposes
\* the fault: operators and validators, written apart, agree.
THEOREM FaithfulDeliveryPasses == GateSpec => []FaithfulPassesWhenExposed
<1>1. GateInv => FaithfulPassesWhenExposed
  BY DEF GateInv
<1> QED BY <1>1, GateInvariant, PTL

\* Whatever was altered, a trace the validation passes showed the policy what the
\* operator prescribes: its pixels or absence, its vision and proprioception.
THEOREM PassedTraceShowsTheFault == GateSpec => []PassedShowsTheFault
<1>1. GateInv => PassedShowsTheFault
  BY DEF GateInv
<1> QED BY <1>1, GateInvariant, PTL

\* Whatever the operators deliver, every record of it passes the record checks of
\* an export.
THEOREM DeliveredRecordsPassTheExport == GateSpec => []DeliveredRecordsExport
<1>1. GateInv => DeliveredRecordsExport
  BY FaithfulExports DEF GateInv, DeliveredRecordsExport
<1> QED BY <1>1, GateInvariant, PTL
=============================================================================
