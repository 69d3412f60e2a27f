--------------------------- MODULE FaultOperators ---------------------------
(***************************************************************************)
(* The registered tactile faults as pure functions: the fault manifest and *)
(* its materialised parameters (manifests.py, operator_parameters.py) and  *)
(* the batch operators (operators/), which map a whole clean trace to a    *)
(* delivered one.                                                          *)
(*                                                                         *)
(* A trace is a sequence; the record of step i stands at position i + 1.   *)
(* Pixels are terms: a frame of a camera, or an operator applied to a      *)
(* frame and to what else its result depends on.                           *)
(***************************************************************************)
EXTENDS Integers, SequencesExt, FiniteSetsExt

Slots == {"left", "right"}

Availability == {"A1", "A2"}
Fidelity     == {"F1", "F2", "F3", "F4", "F5", "F6", "F7"}
Temporal     == {"T1", "T2", "T3"}
Context      == {"C1", "C2"}
OperatorIds  == Availability \cup Fidelity \cup Temporal \cup Context

\* The operators that measure pixels against a rest reference.
RestReferenced == {"F1", "F2", "F3", "F4", "F6", "C2"}

-----------------------------------------------------------------------------
(* Doses and schedules.                                                    *)

Percent == <<5, 10, 20, 40, 80>>
Lags    == [T1 |-> <<1, 2, 4, 8, 16>>, T2 |-> <<2, 4, 8, 16, 32>>,
            T3 |-> <<1, 2, 3, 4, 5>>]

\* Python's round(n / d): half to even.
Round(n, d) ==
  LET q == n \div d
      r == 2 * (n % d)
  IN IF r < d \/ (r = d /\ q % 2 = 0) THEN q ELSE q + 1

Window(m) == m.start .. m.stop - 1
Active(m, i) == i \in Window(m)
WindowLength(m) == m.stop - m.start

\* How many records of the window A1, A2 and C1 affect.
Count(m) ==
  Max({1, Min({WindowLength(m), Round(WindowLength(m) * Percent[m.level], 100)})})

\* Mutant of SpreadOffsets: the last offset is the length of the window.
SpreadOffsetsPastEnd(length, count) ==
  IF count = 1 THEN <<0>>
  ELSE [p \in 1 .. count |-> Round((p - 1) * length, count - 1)]

\* Offsets spread evenly from the first to the last record of the window.
SpreadOffsets(length, count) ==
  IF count = 1 THEN <<0>>
  ELSE [p \in 1 .. count |-> Round((p - 1) * (length - 1), count - 1)]

ErasedOffsets(m) ==
  IF m.supplied # <<>> THEN m.supplied
  ELSE SpreadOffsets(WindowLength(m), Count(m))

HeldIndex(m)    == Max({0, m.start - 1})
HoldDuration(m) == Min({WindowLength(m), Lags.T2[m.level]})
DelayedSlot(m)  == m.slots[Len(m.slots)]

\* The index whose record slot s delivers at step i of a temporal window.
SourceIndex(m, s, i) ==
  CASE m.operator = "T1" -> i - Lags.T1[m.level]
    [] m.operator = "T2" -> IF i < m.start + HoldDuration(m) THEN HeldIndex(m) ELSE i
    [] m.operator = "T3" -> IF s = DelayedSlot(m)
                            THEN Max({0, i - Lags.T3[m.level]}) ELSE i

\* The scheduled step indices of A1, A2 and C1, inside or past the trace.
AffectedIndices(m) ==
  CASE m.operator \in {"A1", "C1"} -> m.start .. m.start + Count(m) - 1
    [] m.operator = "A2" -> {m.start + ErasedOffsets(m)[k] : k \in DOMAIN ErasedOffsets(m)}
    [] OTHER -> {}

Increasing(seq) == \A a, b \in DOMAIN seq : a < b => seq[a] < seq[b]

\* The parameters can be materialised, and those supplied are those materialised.
ParametersOK(m) ==
  /\ m.operator = "T1" => m.start >= Lags.T1[m.level]
  /\ IF m.operator = "A2"
     THEN m.supplied # <<>> => /\ Len(m.supplied) = Count(m)
                               /\ Increasing(m.supplied)
                               /\ Range(m.supplied) \subseteq 0 .. WindowLength(m) - 1
     ELSE m.supplied = <<>>

\* What the constructor of FaultManifest accepts.
Registered(m) ==
  /\ 0 =< m.start /\ m.start < m.stop
  /\ m.slots # <<>> /\ IsInjective(m.slots)
  /\ m.operator = "C1" => Len(m.slots) = 2
  /\ ParametersOK(m)

\* The manifests there are: fields of the declared types that the constructor accepts.
FaultManifest ==
  {m \in [operator : OperatorIds, level : 1 .. 5, start : Nat, stop : Nat,
          slots : Seq(Slots), declared : BOOLEAN, supplied : Seq(Nat)] : Registered(m)}

\* reparameterized(): a supplied erasure schedule survives only when neither the
\* severity nor the window changes.
Reparameterized(m, level, stop) ==
  [m EXCEPT !.level = level, !.stop = stop,
            !.supplied = IF level = m.level /\ stop = m.stop /\ m.operator = "A2"
                         THEN ErasedOffsets(m) ELSE <<>>]

\* What of the parameters does not depend on the registered schedules.
StaticParameters(m) ==
  <<m.operator, m.level,
    IF m.operator = "T2" THEN <<HoldDuration(m), HeldIndex(m)>> ELSE <<>>,
    IF m.operator = "T3" THEN DelayedSlot(m) ELSE "none">>

-----------------------------------------------------------------------------
(* Records.  `valid` is declared_validity, `source` the physical camera,   *)
(* `index` the source index (and the source time, which goes with it),     *)
(* `hash` the payload hash of the provenance, `paired` the clean record    *)
(* that clean_record_sha256 names, `scene` vision and proprioception.      *)

NoPayload == <<"none", "none", 0>>
NoIndex   == -1

Frame(s, i) == <<"camera", s, i>>
Rest(s)     == <<"rest", s, 0>>

CleanReading(s, i, phase) ==
  [payload |-> Frame(s, i), valid |-> "true", delivered |-> i,
   calibration |-> s, source |-> s, index |-> i, hash |-> Frame(s, i),
   calibrated |-> s, phase |-> phase, faults |-> {}]

CleanRecord(i, phase) ==
  [tactile |-> [s \in Slots |-> CleanReading(s, i, phase)],
   scene |-> i, paired |-> i]

\* replace_delivery: only the named slots change.
ReplaceSlots(record, slots, new(_)) ==
  [record EXCEPT !.tactile = [s \in Slots |-> IF s \in slots THEN new(s) ELSE @[s]]]

FaultValidity(m, valid) == IF m.declared THEN "false" ELSE valid

\* sensor.without_payload and the provenance _absence gives it.
AbsentReading(m, reading) ==
  [reading EXCEPT !.payload = NoPayload, !.hash = NoPayload, !.index = NoIndex,
                  !.valid = IF m.declared THEN "false" ELSE "null",
                  !.faults = {m.operator}]

\* Mutant of RoutedReading: the source record is delivered whole.
RoutedReadingWhole(m, source, target) ==
  [source EXCEPT !.valid = FaultValidity(m, target.valid), !.faults = {m.operator}]

\* _route_source: everything of the source record but the delivery metadata.
RoutedReading(m, source, target) ==
  [source EXCEPT !.delivered = target.delivered,
                 !.valid = FaultValidity(m, target.valid),
                 !.faults = {m.operator}]

\* A transformed payload with its own hash (mark_provenance).
MarkedReading(m, reading, payload) ==
  [reading EXCEPT !.payload = payload, !.hash = payload,
                  !.valid = FaultValidity(m, @), !.faults = @ \cup {m.operator}]

\* C1: the other camera's frame under this slot's frame and calibration names.
SwappedReading(m, source, target) ==
  [RoutedReading(m, source, target) EXCEPT !.calibration = target.calibration]

\* C2: shifted pixels, and both calibration entries say so.
ShiftedReading(m, s, reading) ==
  LET payload == <<"C2", reading.payload, Rest(s)>>
  IN [reading EXCEPT !.payload = payload, !.hash = payload,
                     !.valid = FaultValidity(m, @), !.faults = {m.operator},
                     !.calibration = "shifted", !.calibrated = "shifted"]

InContact(phase) == phase \in {"onset", "sustained"}

\* F1: a linear ramp from gain one at the first record of the window.
Drifted(m, payload, i) ==
  IF i = m.start THEN payload
  ELSE <<"F1", payload, <<i - m.start, Max({1, WindowLength(m) - 1})>>>>

\* The stateless fidelity transforms.
Transformed(m, s, payload, i) ==
  CASE m.operator = "F1" -> Drifted(m, payload, i)
    [] m.operator \in {"F2", "F4"} -> <<m.operator, payload, Rest(s)>>
    [] m.operator \in {"F3", "F5", "F7"} -> <<m.operator, payload, m.level>>

\* F6 mixes the frame with the frames its exponential history was built from.
Imprinted(payload, history) == <<"F6", payload, history>>

-----------------------------------------------------------------------------
(* The batch operators: the record delivered at step i of a clean trace.   *)

History(clean, s, i) == [k \in 1 .. i + 1 |-> clean[k].tactile[s].payload]

BatchAvailability(clean, m, i) ==
  IF i \notin AffectedIndices(m) THEN clean[i + 1]
  ELSE ReplaceSlots(clean[i + 1], Range(m.slots),
                    LAMBDA s : AbsentReading(m, clean[i + 1].tactile[s]))

BatchFidelity(clean, m, i) ==
  LET now    == clean[i + 1].tactile
      struck == {s \in Range(m.slots) :
                   m.operator \in {"F5", "F7"} => InContact(now[s].phase)}
      payload(s) == IF m.operator = "F6"
                    THEN Imprinted(now[s].payload, History(clean, s, i))
                    ELSE Transformed(m, s, now[s].payload, i)
  IN IF ~Active(m, i) THEN clean[i + 1]
     ELSE ReplaceSlots(clean[i + 1], struck,
                       LAMBDA s : MarkedReading(m, now[s], payload(s)))

BatchTemporal(clean, m, i) ==
  LET routed == {s \in Range(m.slots) :
                   m.operator = "T2" => SourceIndex(m, s, i) # i}
  IN IF ~Active(m, i) THEN clean[i + 1]
     ELSE ReplaceSlots(clean[i + 1], routed,
                       LAMBDA s : RoutedReading(m,
                                    clean[SourceIndex(m, s, i) + 1].tactile[s],
                                    clean[i + 1].tactile[s]))

Other(s) == CHOOSE t \in Slots : t # s

BatchContext(clean, m, i) ==
  LET now == clean[i + 1].tactile
  IN CASE m.operator = "C1" /\ i \in AffectedIndices(m) ->
            ReplaceSlots(clean[i + 1], Slots,
                         LAMBDA s : SwappedReading(m, now[Other(s)], now[s]))
       [] m.operator = "C2" /\ Active(m, i) ->
            ReplaceSlots(clean[i + 1], Range(m.slots),
                         LAMBDA s : ShiftedReading(m, s, now[s]))
       [] OTHER -> clean[i + 1]

BatchRecord(clean, m, i) ==
  CASE m.operator \in Availability -> BatchAvailability(clean, m, i)
    [] m.operator \in Fidelity     -> BatchFidelity(clean, m, i)
    [] m.operator \in Temporal     -> BatchTemporal(clean, m, i)
    [] m.operator \in Context      -> BatchContext(clean, m, i)

\* operator.apply(clean_records, manifest)
Batch(clean, m) == [k \in 1 .. Len(clean) |-> BatchRecord(clean, m, k - 1)]
=============================================================================
