---------------------------- MODULE DeliveryGate ----------------------------
(***************************************************************************)
(* The validation of a delivered trace against its clean trace and its     *)
(* manifest: validators.py, operator_validators.py, signature_validators.py *)
(* and the independent pixel reference of reference_signatures.py, as      *)
(* runtime.apply_fault and OnlineFaultSession.finalize run them.           *)
(*                                                                         *)
(* The trace a validation sees is the one the operators delivered, or one  *)
(* that some defect of an operator, a session or a stored artifact altered. *)
(* A record's hashes are the record, so a stale hash cannot arise.         *)
(***************************************************************************)
EXTENDS FaultOperators

CONSTANTS
  GateManifests, \* the manifests to validate deliveries of
  Scripts,        \* the contact phases of an episode, one sequence each
  MaxDefects      \* bound on the alterations of a trace

Anywhere == {"free", "onset", "sustained", "release"}
Touching == {"onset", "sustained"}

ASSUME GateAssumption ==
  /\ MaxDefects \in Nat
  /\ Scripts \subseteq Seq(Anywhere)
  /\ GateManifests \subseteq FaultManifest

VARIABLES
  fault,       \* the manifest
  script,
  atRest,      \* every tactile frame of the episode is the uniform rest frame
  trace,       \* the delivered trace
  defects,     \* how many alterations were made
  report       \* the failure codes of the validation, or {"unvalidated"}

gateVars == <<fault, script, atRest, trace, defects, report>>

Unvalidated == {"unvalidated"}

-----------------------------------------------------------------------------
(* What is on the pixels. Frames differ from each other and from the rest   *)
(* frame, and every transform changes them, unless the episode is at rest:  *)
(* then only F1 and F3, which do not measure against the rest frame, do.    *)

Pixels(p) ==
  IF p = NoPayload \/ ~atRest THEN p
  ELSE CASE p[1] \in {"camera", "rest"} -> Rest(p[2])
         [] p[1] \in {"F1", "F3"}       -> <<p[1], Rest(p[2][2]), p[3]>>
         [] OTHER                       -> Rest(p[2][2])

Shown(reading) == [reading EXCEPT !.payload = Pixels(@), !.hash = Pixels(@)]

Seen(records) ==
  [k \in DOMAIN records |->
     [records[k] EXCEPT !.tactile = [s \in Slots |-> Shown(@[s])]]]

Episode == [k \in DOMAIN script |-> CleanRecord(k - 1, script[k])]
Clean   == Seen(Episode)

InTrace(m) == {i \in Window(m) : i < Len(trace)}
Spots(m)   == InTrace(m) \X Range(m.slots)

At(records, spot) == records[spot[1] + 1].tactile[spot[2]]
Faulty(spot)    == At(trace, spot)
Healthy(spot)   == At(Clean, spot)

\* The code, when the condition that reports it holds.
Code(name, condition) == IF condition THEN {name} ELSE {}

-----------------------------------------------------------------------------
(* validate_delivery, record by record.                                    *)

OutsideCodes(m) ==
  LET outside == {i \in 0 .. Len(trace) - 1 : ~Active(m, i)}
  IN Code("CLEAN_REFERENCE_MISMATCH",
          \E k \in DOMAIN trace : trace[k].paired # Clean[k].paired)
     \cup Code("OUTSIDE_WINDOW_CHANGED",
               \E i \in outside : trace[i + 1].tactile # Clean[i + 1].tactile
                                  \/ trace[i + 1].scene # Clean[i + 1].scene)

WriteSetCodes(m) ==
  Code("WRITE_SET_VIOLATION",
       \E i \in InTrace(m) :
         \/ trace[i + 1].scene # Clean[i + 1].scene
         \/ \E s \in Slots \ Range(m.slots) :
              trace[i + 1].tactile[s] # Clean[i + 1].tactile[s])

FaultIsActive(m, spot) == m.operator \in Faulty(spot).faults

ExpectedValidity(m, spot) ==
  IF m.declared THEN "false"
  ELSE IF Faulty(spot).payload # NoPayload THEN Healthy(spot).valid ELSE "null"

ProvenanceCodes(m) ==
  Code("MISSING_FAULT_PROVENANCE",
       \E spot \in Spots(m) : Faulty(spot) # Healthy(spot) /\ ~FaultIsActive(m, spot))
  \cup Code("OBSERVABILITY_MISMATCH",
            \E spot \in Spots(m) : /\ FaultIsActive(m, spot)
                                   /\ Faulty(spot).valid # ExpectedValidity(m, spot))
  \cup Code("FUTURE_SOURCE", \E spot \in Spots(m) : Faulty(spot).index > spot[1])
  \cup Code("SOURCE_PAYLOAD_MISMATCH",
            \E spot \in Spots(m) : /\ Faulty(spot).payload # NoPayload
                                   /\ Faulty(spot).payload # Faulty(spot).hash)

\* _availability_indices
Erased(m) == IF m.operator \in Availability THEN AffectedIndices(m) ELSE {}

AvailabilityCodes(m) ==
  LET absent == {spot \in Spots(m) : spot[1] \in Erased(m)}
  IN Code("ABSENCE_NOT_STRUCTURAL", \E spot \in absent : Faulty(spot).payload # NoPayload)
     \cup Code("ABSENCE_SOURCE_NOT_NULL",
               \E spot \in absent : \/ Faulty(spot).index # NoIndex
                                    \/ Faulty(spot).hash # NoPayload)
     \cup Code("OBSERVABILITY_MISMATCH",
               \E spot \in absent :
                 Faulty(spot).valid # IF m.declared THEN "false" ELSE "null")
     \cup Code("NATIVE_FOOTPRINT_VIOLATION",
               /\ m.operator \in Availability
               /\ \E spot \in Spots(m) \ absent : Faulty(spot) # Healthy(spot))
     \cup Code("NON_AVAILABILITY_REMOVED_PAYLOAD",
               /\ m.operator \notin Availability
               /\ \E spot \in Spots(m) : Faulty(spot).payload = NoPayload)

Inactive(m) ==
  Code("INACTIVE_OPERATOR",
       \A i \in InTrace(m) : /\ trace[i + 1].tactile = Clean[i + 1].tactile
                             /\ trace[i + 1].scene = Clean[i + 1].scene)

-----------------------------------------------------------------------------
(* The temporal and identity predicates (operator_validators.py).          *)

\* _validate_routed_source: the provenance is that of the expected clean record.
RoutedFrom(spot, slot, i) ==
  LET expected == Clean[i + 1].tactile[slot]
  IN /\ Faulty(spot).index = i
     /\ Faulty(spot).hash = expected.hash
     /\ Faulty(spot).source = expected.source

MisroutedCodes(spots, slot(_), index(_)) ==
  Code("ROUTED_SOURCE_MISMATCH",
       \E spot \in spots : ~RoutedFrom(spot, slot(spot), index(spot)))

Same(spot) == spot[2]

DelayCodes(m) ==
  MisroutedCodes(Spots(m), Same, LAMBDA spot : SourceIndex(m, spot[2], spot[1]))

\* Mutant of Frozen: the hold is checked over the whole window.
FrozenWindow(m) == {i \in InTrace(m) : TRUE}

Frozen(m) == {i \in InTrace(m) : i < m.start + HoldDuration(m)}

FreezeCodes(m) ==
  Code("FREEZE_NOT_HELD",
       \E s \in Range(m.slots) :
         Cardinality({trace[i + 1].tactile[s].index : i \in Frozen(m)}) # 1)
  \cup MisroutedCodes(Frozen(m) \X Range(m.slots), Same, LAMBDA spot : HeldIndex(m))
  \cup Code("NATIVE_FOOTPRINT_VIOLATION",
            \E spot \in Spots(m) : spot[1] \notin Frozen(m) /\ Faulty(spot) # Healthy(spot))

SkewCodes(m) ==
  LET index(i) == {trace[i + 1].tactile[s].index : s \in Range(m.slots)}
      concrete == {i \in InTrace(m) : NoIndex \notin index(i)}
  IN Code("SOURCE_INDEX_MISMATCH", InTrace(m) # concrete)
     \cup MisroutedCodes({spot \in Spots(m) : spot[1] \in concrete}, Same,
                         LAMBDA spot : SourceIndex(m, spot[2], spot[1]))
     \cup Code("NO_INTER_SENSOR_SKEW",
               \A i \in concrete : Cardinality(index(i)) = 1)

IdentityCodes(m) ==
  LET scheduled == {i \in AffectedIndices(m) : i < Len(trace)}
      swapped   == scheduled \X Range(m.slots)
  IN MisroutedCodes(swapped, LAMBDA spot : Other(spot[2]), LAMBDA spot : spot[1])
     \cup Code("NATIVE_FOOTPRINT_VIOLATION",
               \E spot \in Spots(m) \ swapped : Faulty(spot) # Healthy(spot))
     \cup Code("NO_IDENTITY_MISROUTING",
               \A spot \in swapped : Faulty(spot).source = spot[2])

-----------------------------------------------------------------------------
(* The pixel signatures (signature_validators.py, reference_signatures.py). *)

\* expected_pixel_payloads, the independent reference path.
Expected(m, spot) ==
  LET i     == spot[1]
      s     == spot[2]
      frame == Episode[i + 1].tactile[s].payload
      quiet == script[i + 1] \notin {"onset", "sustained"}
  IN CASE m.operator = "F6" -> Imprinted(frame, History(Episode, s, i))
       [] m.operator = "C2" -> <<"C2", frame, Rest(s)>>
       [] m.operator \in {"F5", "F7"} /\ quiet -> frame
       [] OTHER -> Transformed(m, s, frame, i)

Matched(m) == \A spot \in Spots(m) : Faulty(spot).payload = Pixels(Expected(m, spot))

\* _payload_pairs: the readings of the window, of the given phases, with pixels.
Pairs(m, phases) ==
  {spot \in Spots(m) : script[spot[1] + 1] \in phases /\ Faulty(spot).payload # NoPayload}

Changed(spot) == Faulty(spot).payload # Healthy(spot).payload

\* The residual after a release exceeds the clean one: an earlier frame of the
\* slot was in contact, and weighs more than the present one.
Lingers(spot) ==
  Changed(spot) /\ \E k \in 1 .. spot[1] : script[k] \in Touching

\* achieved_dose > 0, for deliveries that match the reference; F1 measures the
\* retained gain, F2 one minus the retained residual of the contact frames.
Dosed(m) ==
  CASE m.operator = "F1" -> Pairs(m, Anywhere) # {}
    [] m.operator = "F2" -> IF atRest \/ Pairs(m, Touching) = {} THEN TRUE
                            ELSE \E spot \in Pairs(m, Touching) : Changed(spot)
    [] m.operator = "F3" -> \E spot \in Pairs(m, Anywhere) : Changed(spot)
    [] m.operator = "F5" -> Pairs(m, Touching) # {}
    [] m.operator = "F6" -> \E spot \in Pairs(m, {"release"}) : Lingers(spot)
    [] m.operator \in {"F4", "F7"} -> \E spot \in Pairs(m, Touching) : Changed(spot)
    [] m.operator = "C2" -> TRUE

DiagnosticCodes(m) ==
  CASE m.operator = "F5" ->
         Code("NO_CONTACT_SAMPLE", Pairs(m, Touching) = {})
         \cup Code("F5_SOURCE_MAP_FOLD", Pairs(m, Touching) = {})
         \cup Code("F5_NO_VISIBLE_WARP_EFFECT", ~\E spot \in Pairs(m, Touching) : Changed(spot))
    [] m.operator = "F6" -> Code("NO_RELEASE_SAMPLE", Pairs(m, {"release"}) = {})
    [] m.operator = "F7" ->
         Code("NO_CONTACT_SAMPLE", Pairs(m, Touching) = {})
         \cup Code("F7_NO_DETAIL_SAMPLE", atRest \/ Pairs(m, Touching) = {})
    [] OTHER -> {}

\* Mutant of SignatureCodes: only the dose is looked at.
SignatureCodesOfDose(m) ==
  Code("SIGNATURE_NOT_DELIVERED", ~Dosed(m)) \cup DiagnosticCodes(m)

SignatureCodes(m) ==
  Code("SIGNATURE_NOT_DELIVERED",
       ~Dosed(m) \/ (~Matched(m) /\ ~\E spot \in Pairs(m, Anywhere) : Changed(spot)))
  \cup Code("OPERATOR_SIGNATURE_MISMATCH", ~Matched(m))
  \cup DiagnosticCodes(m)
  \cup Code("CALIBRATION_PROVENANCE_UNCHANGED",
            /\ m.operator = "C2"
            /\ \A spot \in Spots(m) : Faulty(spot).calibrated = Healthy(spot).calibrated)

OperatorCodes(m) ==
  CASE m.operator \in Fidelity \cup {"C2"} -> SignatureCodes(m)
    [] m.operator = "T1" -> DelayCodes(m)
    [] m.operator = "T2" -> FreezeCodes(m)
    [] m.operator = "T3" -> SkewCodes(m)
    [] m.operator = "C1" -> IdentityCodes(m)
    [] OTHER -> {}

\* Both callers refuse an A2 whose last erasure no clean record follows.
ResumeCodes(m) ==
  Code("A2_RESUME_MISSING",
       m.operator = "A2" /\ Max(AffectedIndices(m)) >= Len(script) - 1)

\* validate_delivery, which an export runs again on the stored trace.
ValidateDelivery(m) ==
  IF Len(trace) # Len(script) THEN {"LENGTH_MISMATCH"}
  ELSE UNION {OutsideCodes(m), WriteSetCodes(m), ProvenanceCodes(m), AvailabilityCodes(m),
              Inactive(m), OperatorCodes(m)}

Gate(m) == ValidateDelivery(m) \cup ResumeCodes(m)

\* The record checks of an export: dense delivery indices, no fault on a clean
\* record, and a payload hash exactly where there is a payload.
RecordExports(record, k, isClean) ==
  \A s \in Slots : LET reading == record.tactile[s]
                  IN /\ reading.delivered = k - 1
                     /\ isClean => reading.faults = {}
                     /\ reading.hash = reading.payload

TraceExports ==
  \A k \in DOMAIN trace :
    RecordExports(Clean[k], k, TRUE) /\ RecordExports(trace[k], k, FALSE)

\* _validate_evidence_semantics: the report must be that of a second validation.
Exports == TraceExports /\ ValidateDelivery(fault) = report

-----------------------------------------------------------------------------
(* Deliveries, good and bad.                                               *)

GateInit ==
  /\ fault \in GateManifests /\ script \in Scripts /\ atRest \in BOOLEAN
  /\ trace = Seen(Batch(Episode, fault))
  /\ defects = 0 /\ report = Unvalidated

\* What an operator, a session or a stored trace may have got wrong at a reading:
\* the fault not applied, an absence, another step's or the other camera's
\* reading, pixels that are not those of the hash, a lost or wrong mark.
WrongReadings(reading, i, s) ==
  {Clean[i + 1].tactile[s], AbsentReading(fault, reading),
   [reading EXCEPT !.payload = <<"zeros", s, 0>>],
   [reading EXCEPT !.payload = <<"zeros", s, 0>>, !.hash = <<"zeros", s, 0>>],
   [reading EXCEPT !.faults = {}],
   [reading EXCEPT !.valid = IF @ = "false" THEN "true" ELSE "false"]}
  \cup {RoutedReading(fault, Clean[k].tactile[t], reading) :
          k \in DOMAIN Clean, t \in Slots}

AlterReading(i, s) ==
  \E reading \in WrongReadings(trace[i + 1].tactile[s], i, s) :
    trace' = [trace EXCEPT ![i + 1].tactile[s] = reading]

AlterScene(i) ==
  \E j \in 0 .. Len(script) - 1 : trace' = [trace EXCEPT ![i + 1].scene = j]

LoseLast == trace' = Front(trace)

Defect ==
  /\ report = Unvalidated /\ defects < MaxDefects /\ Len(trace) = Len(script)
  /\ \/ \E i \in 0 .. Len(script) - 1, s \in Slots : AlterReading(i, s)
     \/ \E i \in 0 .. Len(script) - 1 : AlterScene(i)
     \/ LoseLast
  /\ trace' # trace
  /\ defects' = defects + 1
  /\ UNCHANGED <<fault, script, atRest, report>>

Validate ==
  /\ report = Unvalidated
  /\ report' = Gate(fault)
  /\ UNCHANGED <<fault, script, atRest, trace, defects>>

GateNext == Defect \/ Validate

GateSpec == GateInit /\ [][GateNext]_gateVars

-----------------------------------------------------------------------------
(* Properties.                                                             *)

Passed == report = {}

\* What the episode must show for the operator's effect to be measurable: some
\* record of the schedule, a later clean record for A2, contact for the contact
\* shapes, a release after contact for the imprint, a real skew or hold for T3, T2.
Exposed(m) ==
  LET scheduled == IF m.operator \in {"A1", "A2", "C1"} THEN AffectedIndices(m) ELSE Window(m)
      inside == {i \in scheduled : i < Len(script)}
      touched == \E i \in inside : script[i + 1] \in Touching
  IN /\ inside # {}
     /\ CASE m.operator = "A2" -> \E i \in 0 .. Len(script) - 1 :
                                    \A j \in AffectedIndices(m) : j < i
          [] m.operator = "T3" -> Cardinality(Range(m.slots)) = 2 /\ Max(inside) > 0
          [] m.operator = "T2" -> \E i \in inside :
                                    HeldIndex(m) # i /\ i < m.start + HoldDuration(m)
          [] m.operator \in {"F4", "F5", "F7"} -> touched /\ ~atRest
          [] m.operator = "F6" ->
               ~atRest /\ \E i \in inside : /\ script[i + 1] = "release"
                                            /\ \E k \in 1 .. i : script[k] \in Touching
          [] OTHER -> TRUE

\* A delivery of the operators passes exactly when the episode exposes the fault:
\* operators and validators are written apart, and nothing that one of them does
\* is refused by the other (validators.py:87 against operators/).
FaithfulPassesWhenExposed ==
  defects = 0 /\ report # Unvalidated => (Passed <=> Exposed(fault))

\* Whatever was altered, a trace that passes showed the policy what the operator
\* prescribes: the same pixels or absence at every record and the same vision
\* and proprioception (operator_validators.py:320).
PassedShowsTheFault ==
  Passed =>
    LET good == Seen(Batch(Episode, fault))
    IN /\ Len(trace) = Len(good)
       /\ \A k \in DOMAIN good :
            /\ trace[k].scene = good[k].scene
            /\ \A s \in Slots : trace[k].tactile[s].payload = good[k].tactile[s].payload

\* Whatever the operators deliver, every record of it passes the record checks of
\* an export (artifact_semantics.py:67), faulty steps included.
DeliveredRecordsExport == defects = 0 => TraceExports

\* "The production executor exports each trace, strictly reloads it"
\* (docs/benchmark_workflow.md:364), a trace whose delivery is invalid included.
FinalizedTraceExports == report # Unvalidated /\ defects = 0 => Exports

\* "operator changed metadata but delivered no observable tactile signature"
\* (operator_validators.py:97) is a failure: a fidelity fault that passes changed
\* some pixel.
PassedChangedPixels ==
  Passed /\ fault.operator \in Fidelity =>
    \E k \in DOMAIN trace, s \in Slots :
      trace[k].tactile[s].payload # Clean[k].tactile[s].payload
=============================================================================
