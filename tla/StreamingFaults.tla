-------------------------- MODULE StreamingFaults --------------------------
(***************************************************************************)
(* The streaming fault session (streaming/): it delivers one record for    *)
(* each clean record it is given, keeps the sources a temporal fault still *)
(* needs and the histories of F6, and never looks back at the trace.       *)
(***************************************************************************)
EXTENDS FaultOperators

CONSTANTS
  MaxLength,   \* bound on the length of an episode
  Manifests,   \* the manifests a session may be opened for
  Phases       \* the contact phases a record may carry

ASSUME StreamingAssumption == MaxLength \in Nat /\ Manifests \subseteq FaultManifest

VARIABLES
  manifest,
  clean,       \* the records given to deliver_one, in order
  delivered,   \* the records it returned
  sources,     \* _source_records
  histories    \* _histories, as the frames that went into each

vars == <<manifest, clean, delivered, sources, histories>>

ProcessedCount == Len(delivered)

Init ==
  /\ manifest \in Manifests
  /\ clean = <<>> /\ delivered = <<>> /\ sources = <<>>
  /\ histories = [s \in Slots |-> <<>>]

-----------------------------------------------------------------------------
(* streaming/temporal.py                                                   *)

\* Mutant of MaximumSourceAge: the age at the first delivery, not the largest.
MaximumSourceAgeAtStart(m) ==
  IF m.operator \in Temporal
  THEN Max({m.start - SourceIndex(m, s, m.start) : s \in Range(m.slots)})
  ELSE 0

\* The oldest source any delivery of the window asks for, in frames.
MaximumSourceAge(m) ==
  IF m.operator \in Temporal
  THEN Max({i - SourceIndex(m, s, i) : i \in Window(m), s \in Range(m.slots)})
  ELSE 0

RequiredAge(m) == MaximumSourceAge(m)

\* The slots of the current record that get the reading of a source record.
RoutedSlots(m, i) ==
  {s \in Range(m.slots) :
     Active(m, i) /\ ~(m.operator = "T2" /\ SourceIndex(m, s, i) = i)}

\* _lookup_source finds what it is asked for.
SourcesKept(m, i, kept) ==
  \A s \in RoutedSlots(m, i) : SourceIndex(m, s, i) \in kept

ApplyTemporal(record, m, i, kept) ==
  IF ~Active(m, i) THEN record
  ELSE ReplaceSlots(record, RoutedSlots(m, i),
                    LAMBDA s : RoutedReading(m, kept[SourceIndex(m, s, i)].tactile[s],
                                             record.tactile[s]))

\* deliver_one inserts the record before it applies the operator ...
Inserted(record, i) ==
  IF manifest.operator \in Temporal
  THEN [j \in DOMAIN sources \cup {i} |-> IF j = i THEN record ELSE sources[j]]
  ELSE sources

\* Mutant of Trimmed: as many records as the window is long are kept.
TrimmedByWindow(kept, i) ==
  LET needed == {j \in DOMAIN kept : j >= i - WindowLength(manifest)}
  IN [j \in needed |-> kept[j]]

\* ... and _trim_source_cache drops what is older than the registered age.
Trimmed(kept, i) ==
  LET needed == {j \in DOMAIN kept : j >= i - RequiredAge(manifest)}
  IN [j \in needed |-> kept[j]]

-----------------------------------------------------------------------------
(* streaming/fidelity.py                                                   *)

\* F6 accumulates its residual history at every record, inside and outside.
Accumulated(record, i) ==
  [s \in Slots |->
     IF manifest.operator = "F6" /\ s \in Range(manifest.slots)
     THEN Append(histories[s], record.tactile[s].payload) ELSE histories[s]]

ApplyFidelity(record, m, i, history) ==
  LET transformed == {s \in Range(m.slots) :
        m.operator \in {"F5", "F7"} => InContact(record.tactile[s].phase)}
      payload(s) == IF m.operator = "F6"
                    THEN Imprinted(record.tactile[s].payload, history[s])
                    ELSE Transformed(m, s, record.tactile[s].payload, i)
  IN IF ~Active(m, i) THEN record
     ELSE ReplaceSlots(record, transformed,
                       LAMBDA s : MarkedReading(m, record.tactile[s], payload(s)))

-----------------------------------------------------------------------------
(* streaming/availability_context.py                                       *)

ApplyAvailability(record, m, i) ==
  IF i \in AffectedIndices(m)
  THEN ReplaceSlots(record, Range(m.slots),
                    LAMBDA s : AbsentReading(m, record.tactile[s]))
  ELSE record

\* _apply_c1 reads both slots from the clean record.
Misrouted(record, m) ==
  ReplaceSlots(record, Slots,
    LAMBDA s : SwappedReading(m, record.tactile[Other(s)], record.tactile[s]))

ApplyContext(record, m, i) ==
  CASE m.operator = "C1" /\ i \in AffectedIndices(m) -> Misrouted(record, m)
    [] m.operator = "C2" /\ Active(m, i) ->
         ReplaceSlots(record, Range(m.slots),
                      LAMBDA s : ShiftedReading(m, s, record.tactile[s]))
    [] OTHER -> record

-----------------------------------------------------------------------------
(* deliver_one, one action for each family it dispatches to.               *)

Deliver(record, output, kept, history) ==
  /\ clean' = Append(clean, record)
  /\ delivered' = Append(delivered, output)
  /\ sources' = Trimmed(kept, ProcessedCount)
  /\ histories' = history
  /\ UNCHANGED manifest

\* A source that is not kept raises: the clean record is in the trace, no
\* delivered one follows it, and the records after it are refused.
DeliverTemporal(record) ==
  LET i    == ProcessedCount
      kept == Inserted(record, i)
  IN /\ manifest.operator \in Temporal
     /\ IF SourcesKept(manifest, i, DOMAIN kept)
        THEN Deliver(record, ApplyTemporal(record, manifest, i, kept), kept, histories)
        ELSE /\ clean' = Append(clean, record) /\ sources' = kept
             /\ UNCHANGED <<manifest, delivered, histories>>

DeliverFidelity(record) ==
  LET i == ProcessedCount
      history == Accumulated(record, i)
  IN /\ manifest.operator \in Fidelity
     /\ Deliver(record, ApplyFidelity(record, manifest, i, history), sources, history)

DeliverAvailability(record) ==
  /\ manifest.operator \in Availability
  /\ Deliver(record, ApplyAvailability(record, manifest, ProcessedCount),
             sources, histories)

DeliverContext(record) ==
  /\ manifest.operator \in Context
  /\ Deliver(record, ApplyContext(record, manifest, ProcessedCount), sources, histories)

Next ==
  /\ ProcessedCount < MaxLength
  /\ Len(clean) = ProcessedCount
  /\ \E phase \in Phases :
       LET record == CleanRecord(ProcessedCount, phase)
       IN \/ DeliverTemporal(record)     \/ DeliverFidelity(record)
          \/ DeliverAvailability(record) \/ DeliverContext(record)

Spec == Init /\ [][Next]_vars

-----------------------------------------------------------------------------
(* Properties.                                                             *)

\* What was delivered so far is the batch operator applied to the clean trace so
\* far: no source is ever missing from the trimmed cache, and the batch operator
\* uses nothing of the future (streaming/session.py against operators/).
StreamingMatchesBatch == delivered = Batch(clean, manifest)

\* The cache holds a bounded suffix of the trace, whatever its length: no more
\* than the oldest registered source and what came after it.
CacheBounded == Cardinality(DOMAIN sources) =< MaximumSourceAge(manifest) + 1

\* A fault touches what its manifest names and nothing else: outside the window
\* and the slots every reading is the clean one, vision and proprioception are
\* never touched, and no reading comes from a later step than its own.
FootprintRespected ==
  \A k \in 1 .. Len(delivered) :
    LET record == delivered[k]
    IN /\ record.scene = clean[k].scene /\ record.paired = clean[k].paired
       /\ \A s \in Slots :
            /\ record.tactile[s].index =< k - 1
            /\ record.tactile[s].delivered = k - 1
            /\ s \notin Range(manifest.slots) \/ k =< manifest.start \/ k > manifest.stop
                 => record.tactile[s] = clean[k].tactile[s]
=============================================================================
