------------------------ MODULE ClosedLoopTrialProofs ------------------------
(***************************************************************************)
(* Proofs about the closed-loop trial and what is built on it, for every   *)
(* horizon, chunk length, threshold, set of indentations and minimum: the  *)
(* chain IsaacBackend, Policies, ClosedLoopTrial, PolicyQualification and  *)
(* RestCalibration, whose specification is the whole of it.                *)
(*                                                                         *)
(* The inductive invariant has a part per module.  The backend's says that *)
(* its tracker's contact is the one read off the whole sequence of records *)
(* and holds under any calls at all (BackendMove).  The trial's says, for  *)
(* every place of the runner, what the policy expects, how far the batch   *)
(* is, and that the chunks of an N0 plan start at multiples of the chunk   *)
(* length, which is what makes a refused commit a matter of the budget.    *)
(* The qualification's says which calls were made and that an absence      *)
(* trial touches nothing; the calibration's, of what stretch of records a  *)
(* reference was made and that no stretch is longer.                       *)
(***************************************************************************)
EXTENDS RestCalibration, WellFoundedInduction, TLAPS

-----------------------------------------------------------------------------
(* The backend: its records are those of the simulator.                  *)

Signals  == {"running", "success", "task_failure", "early_stop", "timeout"}
Contacts == {"free", "onset", "sustained", "release"}
Records  == [step : Nat, native : Nat, depths : DepthFrames,
             phases : [Slots -> Contacts]]
Backends == [attempted : BOOLEAN, context : BOOLEAN, cached : BOOLEAN,
             delivered : BOOLEAN, closed : BOOLEAN, terminal : BOOLEAN,
             step : Nat, count : Nat, native : Int, touching : [Slots -> BOOLEAN]]
Rows     == [step : Nat, native : Nat, signal : Signals]

BackendTyped ==
  /\ backend \in Backends
  /\ simulator \in [native : Nat, released : Nat]
  /\ rows \in Nat
  /\ transitions \in Seq(Rows)
  /\ records \in Seq(Records)

\* What the fields say of the records accepted so far: none before the reset,
\* and after it the tracker's contact is the one of the whole sequence.
Unreset ==
  /\ ~backend.delivered /\ ~backend.terminal
  /\ backend.step = 0 /\ backend.count = 0
  /\ backend.touching = [s \in Slots |-> FALSE] /\ records = <<>>

Tracked ==
  /\ backend.delivered => backend.cached
  /\ rows > 0 => backend.delivered
  /\ ~backend.cached => Unreset
  /\ backend.cached =>
       /\ backend.attempted /\ backend.context
       /\ Len(records) = backend.step + 1
       /\ backend.native = records[Len(records)].native
       /\ \A s \in Slots : backend.touching[s] <=> InContact(s, Len(records))

BackendInv == BackendTyped /\ Tracked /\ RecordsFollowTheSimulator

\* Whatever any caller may do to the backend in one step.
BackendMove ==
  \/ ResetReturns \/ ResetFails \/ ObserveReturns
  \/ \E n \in Nat : ExecuteBegins(n)
  \/ RowReturns \/ RowRaises \/ BackendCloses
  \/ BackendInit' \/ UNCHANGED backendVars

-----------------------------------------------------------------------------
\* A new record changes no contact before it.
LEMMA ContactKept ==
  ASSUME BackendTyped, NEW r \in Records, records' = Append(records, r),
         NEW s \in Slots, NEW n \in 0..Len(records)
  PROVE  InContact(s, n)' <=> InContact(s, n)
<1>1. \A i \in 1..n : records'[i] = records[i]
  BY DEF BackendTyped
<1>2. \A i \in 1..n : \A j \in i..n : j \in 1..n
  OBVIOUS
<1> QED BY <1>1, <1>2 DEF InContact

\* Contact at the new record is what the tracker makes of the contact before.
LEMMA ContactNext ==
  ASSUME BackendTyped, NEW r \in Records, records' = Append(records, r),
         NEW s \in Slots, NEW n \in Nat, n = Len(records)
  PROVE  InContact(s, n + 1)' <=> Touching(r.depths[s], InContact(s, n))
<1> DEFINE d == r.depths[s]
<1>1. d \in Nat /\ OnThreshold \in Nat /\ OffThreshold \in Nat
      /\ OffThreshold < OnThreshold
  BY BackendAssumption DEF Records, Slots
<1>2. /\ \A i \in 1..n : records'[i] = records[i]
      /\ records'[n + 1].depths[s] = d
  BY DEF BackendTyped
<1>3. ASSUME InContact(s, n + 1)' PROVE Touching(d, InContact(s, n))
  <2>1. PICK i \in 1..(n + 1) :
          /\ records'[i].depths[s] >= OnThreshold
          /\ \A j \in i..(n + 1) : records'[j].depths[s] > OffThreshold
    BY <1>3 DEF InContact
  <2>2. d > OffThreshold
    BY <1>2, <2>1
  <2>3. CASE i = n + 1
    BY <1>1, <1>2, <2>1, <2>2, <2>3 DEF Touching
  <2>4. CASE i \in 1..n
    <3>1. \A j \in i..n : j \in 1..n /\ j \in i..(n + 1)
      BY <2>4
    <3>2. InContact(s, n)
      BY <1>2, <2>1, <2>4, <3>1 DEF InContact
    <3> QED BY <2>2, <3>2 DEF Touching
  <2> QED BY <2>1, <2>3, <2>4
<1>4. ASSUME Touching(d, InContact(s, n)) PROVE InContact(s, n + 1)'
  <2>1. CASE d >= OnThreshold
    <3>1. \A j \in (n + 1)..(n + 1) : j = n + 1
      OBVIOUS
    <3> HIDE DEF d
    <3>2. records'[n + 1].depths[s] >= OnThreshold /\ d > OffThreshold
      BY <1>1, <1>2, <2>1
    <3>3. \A j \in (n + 1)..(n + 1) : records'[j].depths[s] > OffThreshold
      BY <1>2, <3>1, <3>2
    <3>4. n + 1 \in 1..(n + 1)
      OBVIOUS
    <3> QED BY <3>2, <3>3, <3>4 DEF InContact
  <2>2. CASE ~(d >= OnThreshold)
    <3>1. InContact(s, n) /\ d > OffThreshold
      BY <1>4, <2>2 DEF Touching
    <3>2. PICK i \in 1..n :
            /\ records[i].depths[s] >= OnThreshold
            /\ \A j \in i..n : records[j].depths[s] > OffThreshold
      BY <3>1 DEF InContact
    <3>3. \A j \in i..(n + 1) : j = n + 1 \/ (j \in i..n /\ j \in 1..n)
      BY <3>2
    <3> HIDE DEF d
    <3>4. /\ records'[i].depths[s] >= OnThreshold
          /\ \A j \in i..(n + 1) : records'[j].depths[s] > OffThreshold
      BY <1>2, <3>1, <3>2, <3>3
    <3>5. i \in 1..(n + 1)
      OBVIOUS
    <3> QED BY <3>4, <3>5 DEF InContact
  <2> QED BY <2>1, <2>2
<1> QED BY <1>3, <1>4

\* The phases the tracker gives the new record are the ones of the sequence.
LEMMA PhaseNext ==
  ASSUME BackendTyped, NEW r \in Records, records' = Append(records, r),
         NEW s \in Slots, NEW n \in Nat, n = Len(records), n > 0,
         backend.touching[s] <=> InContact(s, n)
  PROVE  Phase(r.depths[s], backend.touching[s]) = Reference(s, n + 1)'
<1>1. InContact(s, n)' <=> InContact(s, n)
  BY ContactKept
<1>2. InContact(s, n + 1)' <=> Touching(r.depths[s], InContact(s, n))
  BY ContactNext
<1>3. n + 1 > 1 /\ (n + 1) - 1 = n
  OBVIOUS
<1>4. Touching(r.depths[s], backend.touching[s])
      <=> Touching(r.depths[s], InContact(s, n))
  BY DEF Touching
<1>5. InContact(s, (n + 1) - 1)' <=> InContact(s, n)
  BY <1>1, <1>3
<1> DEFINE before == InContact(s, n)
           after  == Touching(r.depths[s], InContact(s, n))
           named  == CASE  before /\  after -> "sustained"
                       []  before /\ ~after -> "release"
                       [] ~before /\  after -> "onset"
                       [] OTHER -> "free"
<1>6. Phase(r.depths[s], backend.touching[s]) = named
  BY <1>4 DEF Phase
<1>7. Reference(s, n + 1)' = named
  <2>1. InContact(s, n + 1)' <=> after
    BY <1>2
  <2>2. (n + 1 > 1 /\ InContact(s, (n + 1) - 1)') <=> before
    BY <1>3, <1>5
  <2> HIDE DEF before, after
  <2> QED BY <2>1, <2>2 DEF Reference
<1> QED BY <1>6, <1>7

\* At the first record the contact before is none.
LEMMA PhaseFirst ==
  ASSUME NEW r \in Records, records' = <<r>>, NEW s \in Slots, NEW n, n = 1
  PROVE  /\ Phase(r.depths[s], FALSE) = Reference(s, n)'
         /\ Touching(r.depths[s], FALSE) <=> InContact(s, n)'
<1>1. /\ r.depths[s] \in Nat /\ OnThreshold \in Nat /\ OffThreshold \in Nat
      /\ OffThreshold < OnThreshold
  BY BackendAssumption DEF Records, Slots
<1>2. 1..n = {1} /\ n..n = {1} /\ records'[1] = r
  OBVIOUS
<1>3. InContact(s, n)' <=> r.depths[s] >= OnThreshold /\ r.depths[s] > OffThreshold
  BY <1>2 DEF InContact
<1>4. Touching(r.depths[s], FALSE) <=> InContact(s, n)'
  BY <1>1, <1>3 DEF Touching
<1> DEFINE after == Touching(r.depths[s], FALSE)
           named == IF after THEN "onset" ELSE "free"
<1>5. Phase(r.depths[s], FALSE) = named
  BY DEF Phase
<1>6. Reference(s, n)' = named
  <2>1. ~(n > 1 /\ InContact(s, n - 1)')
    OBVIOUS
  <2>2. InContact(s, n)' <=> after
    BY <1>4
  <2> HIDE DEF after
  <2> QED BY <2>1, <2>2 DEF Reference
<1> QED BY <1>4, <1>5, <1>6

\* Nor does it change a phase.
LEMMA ReferenceKept ==
  ASSUME BackendTyped, NEW r \in Records, records' = Append(records, r),
         NEW s \in Slots, NEW n \in 1..Len(records)
  PROVE  Reference(s, n)' = Reference(s, n)
<1>1. InContact(s, n)' <=> InContact(s, n)
  BY ContactKept DEF BackendTyped
<1>2. InContact(s, n - 1)' <=> InContact(s, n - 1)
  <2>1. n - 1 \in 0..Len(records)
    OBVIOUS
  <2> QED BY <2>1, ContactKept
<1> QED BY <1>1, <1>2 DEF Reference

-----------------------------------------------------------------------------
(* Every move of the backend keeps its invariant.                          *)

\* A new backend has no record.
LEMMA BackendStarts == BackendInit => BackendInv
<1> SUFFICES ASSUME BackendInit PROVE BackendInv
  OBVIOUS
<1>1. BackendTyped
  BY DEF BackendInit, BackendTyped, NewBackend, NewSimulator, Backends, NoStep
<1>2. Tracked
  BY DEF BackendInit, Tracked, Unreset, NewBackend
<1>3. RecordsFollowTheSimulator
  BY DEF BackendInit, RecordsFollowTheSimulator
<1> QED BY <1>1, <1>2, <1>3 DEF BackendInv

\* A converted frame is a record.
LEMMA ConvertedIsRecord ==
  ASSUME BackendTyped, NEW step \in Nat, NEW native \in Nat, NEW depths \in DepthFrames
  PROVE  /\ Converted(step, native, depths) \in Records
         /\ TouchingAfter(depths) \in [Slots -> BOOLEAN]
<1>1. \A s \in Slots : depths[s] \in Nat
  BY BackendAssumption DEF Slots
<1>2. \A s \in Slots : Phase(depths[s], backend.touching[s]) \in Contacts
  BY DEF Phase, Contacts
<1>3. \A s \in Slots : Touching(depths[s], backend.touching[s]) \in BOOLEAN
  <2>1. \A d \in Nat : (d > OffThreshold) \in BOOLEAN /\ (d >= OnThreshold) \in BOOLEAN
    BY BackendAssumption
  <2> QED BY <1>1, <2>1 DEF Touching
<1> QED BY <1>2, <1>3 DEF Converted, TouchingAfter, Records

\* The first record carries the phases of a sequence of one.
LEMMA ResetReturnsInv == ASSUME BackendInv, ResetReturns PROVE BackendInv'
<1>1. PICK depths \in DepthFrames, native \in InitialSteps :
        /\ simulator' = [simulator EXCEPT !.native = native]
        /\ records' = <<Converted(0, native, depths)>>
        /\ backend' = [backend EXCEPT
             !.attempted = TRUE, !.context = TRUE, !.cached = TRUE,
             !.native = native, !.touching = TouchingAfter(depths)]
  BY DEF ResetReturns
<1> DEFINE r == Converted(0, native, depths)
<1>2. native \in Nat /\ BackendTyped /\ Tracked
  BY BackendAssumption DEF BackendInv
<1>3. r \in Records /\ TouchingAfter(depths) \in [Slots -> BOOLEAN]
  BY <1>2, ConvertedIsRecord
<1>4. ~backend.attempted /\ rows' = rows /\ transitions' = transitions
  BY DEF ResetReturns
<1>5. Unreset
  BY <1>2, <1>4 DEF Tracked
<1>6. /\ r.step = 0 /\ r.native = native /\ r.depths = depths
      /\ \A s \in Slots : r.phases[s] = Phase(depths[s], FALSE)
      /\ \A s \in Slots : TouchingAfter(depths)[s] = Touching(depths[s], FALSE)
  BY <1>5 DEF Unreset, Converted, TouchingAfter
<1>7. BackendTyped'
  <2>1. records' \in Seq(Records)
    BY <1>1, <1>3
  <2>2. backend' = [attempted |-> TRUE, context |-> TRUE, cached |-> TRUE,
                    delivered |-> backend.delivered, closed |-> backend.closed,
                    terminal |-> backend.terminal, step |-> backend.step,
                    count |-> backend.count, native |-> native,
                    touching |-> TouchingAfter(depths)]
    BY <1>1, <1>2 DEF BackendTyped, Backends
  <2>3. backend' \in Backends
    BY <1>2, <1>3, <2>2 DEF BackendTyped, Backends
  <2>4. simulator' \in [native : Nat, released : Nat]
    BY <1>1, <1>2 DEF BackendTyped
  <2> QED BY <1>2, <1>4, <2>1, <2>3, <2>4 DEF BackendTyped
<1>8. /\ backend'.delivered = FALSE /\ backend'.step = 0 /\ rows' = 0 /\ backend'.cached
      /\ backend'.attempted /\ backend'.context /\ backend'.native = native
      /\ backend'.touching = TouchingAfter(depths)
  <2>1. rows = 0
    BY <1>2, <1>5 DEF Tracked, Unreset, BackendTyped
  <2> QED BY <1>1, <1>2, <1>4, <1>5, <2>1 DEF BackendTyped, Backends, Unreset
<1> HIDE DEF r
<1>9. records' = <<r>> /\ Len(records') = 1 /\ records'[1] = r /\ DOMAIN records' = {1}
  BY <1>1 DEF r
<1>10. \A s \in Slots, n \in {1} :
         /\ Phase(depths[s], FALSE) = Reference(s, n)'
         /\ Touching(depths[s], FALSE) <=> InContact(s, n)'
  <2> SUFFICES ASSUME NEW s \in Slots, NEW n \in {1}
               PROVE  /\ Phase(depths[s], FALSE) = Reference(s, n)'
                      /\ Touching(depths[s], FALSE) <=> InContact(s, n)'
    OBVIOUS
  <2>1. n = 1 /\ depths = r.depths
    BY <1>6
  <2>2. /\ Phase(r.depths[s], FALSE) = Reference(s, n)'
        /\ Touching(r.depths[s], FALSE) <=> InContact(s, n)'
    BY <1>3, <1>9, <2>1, PhaseFirst
  <2> QED BY <2>1, <2>2
<1>11. Tracked'
  <2>1. \A s \in Slots : backend'.touching[s] <=> InContact(s, Len(records))'
    <3> SUFFICES ASSUME NEW s \in Slots
                 PROVE  backend'.touching[s] <=> InContact(s, Len(records))'
      OBVIOUS
    <3>1. PICK n \in {1} : n = Len(records')
      BY <1>9
    <3>2. Touching(depths[s], FALSE) <=> InContact(s, n)'
      BY <1>10
    <3>3. InContact(s, n)' <=> InContact(s, Len(records))'
      BY <3>1 DEF InContact
    <3> QED BY <1>6, <1>8, <3>2, <3>3
  <2>2. records'[Len(records')].native = native
    BY <1>6, <1>9
  <2> QED BY <1>8, <1>9, <2>1, <2>2 DEF Tracked
<1>12. RecordsFollowTheSimulator'
  <2> SUFFICES ASSUME NEW n \in DOMAIN records'
               PROVE  /\ records'[n].step = n - 1
                      /\ records'[n].native = records'[1].native + (n - 1) * PhysicsSteps
                      /\ \A s \in Slots : records'[n].phases[s] = Reference(s, n)'
    BY DEF RecordsFollowTheSimulator
  <2>1. n = 1
    BY <1>9
  <2>2. r.native = r.native + (n - 1) * PhysicsSteps
    BY <1>2, <1>6, <2>1, BackendAssumption
  <2>3. \A s \in Slots : Phase(depths[s], FALSE) = Reference(s, n)'
    BY <1>10, <2>1
  <2>4. \A s \in Slots : records'[n].phases[s] = Reference(s, n)'
    BY <1>6, <1>9, <2>1, <2>3
  <2> QED BY <1>6, <1>9, <2>1, <2>2, <2>4
<1> QED BY <1>7, <1>11, <1>12 DEF BackendInv

\* Where no record changes, only the types and the fields need a look.
LEMMA SameRecords ==
  ASSUME BackendInv, BackendTyped', records' = records,
         rows' > 0 => backend'.delivered,
         ~backend'.cached => Unreset',
         backend'.delivered => backend'.cached,
         backend'.cached => /\ backend.cached /\ backend'.attempted /\ backend'.context
                            /\ backend'.step = backend.step
                            /\ backend'.native = backend.native
                            /\ backend'.touching = backend.touching
  PROVE  BackendInv'
<1>1. \A s, n : InContact(s, n)' <=> InContact(s, n)
  BY DEF InContact
<1>2. \A s, n : Reference(s, n)' = Reference(s, n)
  BY <1>1 DEF Reference
<1>3. RecordsFollowTheSimulator'
  BY <1>2 DEF BackendInv, RecordsFollowTheSimulator
<1>4. Tracked'
  BY <1>1 DEF BackendInv, Tracked
<1> QED BY <1>3, <1>4 DEF BackendInv

\* A reset that fails leaves no record.
LEMMA ResetFailsInv == ASSUME BackendInv, ResetFails PROVE BackendInv'
<1>1. PICK converting \in BOOLEAN :
        backend' = [backend EXCEPT !.attempted = TRUE, !.context = converting]
  BY DEF ResetFails
<1>2. BackendTyped /\ Tracked /\ ~backend.attempted
      /\ UNCHANGED <<simulator, rows, transitions, records>>
  BY DEF BackendInv, ResetFails
<1>3. BackendTyped'
  BY <1>1, <1>2 DEF BackendTyped, Backends
<1>4. ~backend.cached /\ Unreset /\ rows = 0
  BY <1>2 DEF Tracked, Unreset, BackendTyped
<1>5. /\ backend'.cached = backend.cached /\ backend'.delivered = backend.delivered
      /\ Unreset'
  BY <1>1, <1>2, <1>4 DEF BackendTyped, Backends, Unreset
<1>6. ~backend'.cached /\ ~backend'.delivered /\ ~(rows' > 0)
  BY <1>2, <1>4, <1>5 DEF Unreset
<1> QED BY <1>2, <1>3, <1>5, <1>6, SameRecords

\* Observing marks the first record as delivered.
LEMMA ObserveReturnsInv == ASSUME BackendInv, ObserveReturns PROVE BackendInv'
<1>1. /\ BackendTyped /\ Tracked /\ backend.cached
      /\ backend' = [backend EXCEPT !.delivered = TRUE]
      /\ UNCHANGED <<simulator, rows, transitions, records>>
  BY DEF BackendInv, ObserveReturns
<1>2. BackendTyped'
  BY <1>1 DEF BackendTyped, Backends
<1>3. /\ backend'.cached = backend.cached /\ backend'.delivered
      /\ backend'.attempted = backend.attempted /\ backend'.context = backend.context
      /\ backend'.step = backend.step /\ backend'.native = backend.native
      /\ backend'.touching = backend.touching
  BY <1>1 DEF BackendTyped, Backends
<1>4. backend.attempted /\ backend.context
  BY <1>1 DEF Tracked
<1> QED BY <1>1, <1>2, <1>3, <1>4, SameRecords

\* A batch begins only on a delivered record.
LEMMA ExecuteBeginsInv ==
  ASSUME BackendInv, NEW n \in Nat, ExecuteBegins(n) PROVE BackendInv'
<1>1. /\ BackendTyped /\ Tracked /\ backend.delivered
      /\ rows' = n /\ transitions' = <<>> /\ UNCHANGED <<backend, simulator, records>>
  BY DEF BackendInv, ExecuteBegins, MayExecute
<1>2. BackendTyped'
  BY <1>1 DEF BackendTyped
<1>3. backend.cached /\ backend.attempted /\ backend.context
  BY <1>1 DEF Tracked
<1> QED BY <1>1, <1>2, <1>3, SameRecords

\* A row that raises leaves the records and the contact as they were.
LEMMA RowRaisesInv == ASSUME BackendInv, RowRaises PROVE BackendInv'
<1>1. PICK moved \in Advances, counted \in {0, 1} :
        /\ simulator' = [simulator EXCEPT !.native = @ + moved]
        /\ backend' = [backend EXCEPT !.count = @ + counted]
  BY DEF RowRaises
<1>2. /\ BackendTyped /\ Tracked /\ rows > 0
      /\ rows' = 0 /\ transitions' = <<>> /\ records' = records /\ moved \in Nat
  BY BackendAssumption DEF BackendInv, RowRaises, Advances
<1>3. BackendTyped'
  <2>1. backend \in Backends /\ simulator \in [native : Nat, released : Nat]
    BY <1>2 DEF BackendTyped
  <2>2. backend.count + counted \in Nat /\ simulator.native + moved \in Nat
    BY <1>2, <2>1 DEF Backends
  <2>3. backend' = [backend EXCEPT !.count = backend.count + counted]
    BY <1>1
  <2>4. backend' \in Backends
    BY <2>1, <2>2, <2>3 DEF Backends
  <2>5. simulator' \in [native : Nat, released : Nat]
    BY <1>1, <2>1, <2>2
  <2> QED BY <1>2, <2>4, <2>5 DEF BackendTyped
<1>4. /\ backend'.cached = backend.cached /\ backend'.delivered = backend.delivered
      /\ backend'.attempted = backend.attempted /\ backend'.context = backend.context
      /\ backend'.step = backend.step /\ backend'.native = backend.native
      /\ backend'.touching = backend.touching
  BY <1>1, <1>2 DEF BackendTyped, Backends
<1>5. backend.cached /\ backend.attempted /\ backend.context
  BY <1>2 DEF Tracked
<1> QED BY <1>2, <1>3, <1>4, <1>5, SameRecords

\* Closing moves the closed flag and the release count.
LEMMA BackendClosesInv == ASSUME BackendInv, BackendCloses PROVE BackendInv'
<1>1. /\ BackendTyped /\ Tracked
      /\ UNCHANGED <<rows, transitions, records>>
      /\ \/ UNCHANGED <<backend, simulator>>
         \/ /\ backend' = [backend EXCEPT !.closed = TRUE]
            /\ simulator' = [simulator EXCEPT !.released = @ + 1]
  BY DEF BackendInv, BackendCloses
<1>2. BackendTyped'
  <2>1. backend \in Backends /\ simulator \in [native : Nat, released : Nat]
    BY <1>1 DEF BackendTyped
  <2>2. backend' \in Backends
    BY <1>1, <2>1 DEF Backends
  <2>3. simulator' \in [native : Nat, released : Nat]
    BY <1>1, <2>1
  <2> QED BY <1>1, <2>2, <2>3 DEF BackendTyped
<1>3. /\ backend'.cached = backend.cached /\ backend'.delivered = backend.delivered
      /\ backend'.attempted = backend.attempted /\ backend'.context = backend.context
      /\ backend'.step = backend.step /\ backend'.native = backend.native
      /\ backend'.touching = backend.touching /\ backend'.terminal = backend.terminal
      /\ backend'.count = backend.count
  BY <1>1 DEF BackendTyped, Backends
<1>4. /\ ~backend'.cached => Unreset'
      /\ rows' > 0 => backend'.delivered
      /\ backend'.delivered => backend'.cached
      /\ backend'.cached => backend.cached /\ backend'.attempted /\ backend'.context
  BY <1>1, <1>3 DEF Tracked, Unreset
<1> QED BY <1>1, <1>2, <1>3, <1>4, SameRecords

\* What a row that returns does: one transition, one record, and, as long as the
\* signal is running, a count below the horizon.
LEMMA RowShape ==
  ASSUME BackendTyped, RowReturns
  PROVE  \E native \in Nat, depths \in DepthFrames, sig \in Signals :
           LET step == backend.step + 1
           IN  /\ native = backend.native + PhysicsSteps
               /\ simulator' = [simulator EXCEPT !.native = native]
               /\ backend' = [attempted |-> backend.attempted, context |-> backend.context,
                              cached |-> backend.cached, delivered |-> backend.delivered,
                              closed |-> backend.closed, terminal |-> sig # "running",
                              step |-> step, count |-> backend.count + 1,
                              native |-> native, touching |-> TouchingAfter(depths)]
               /\ transitions' = Append(transitions,
                    [step |-> step, native |-> native, signal |-> sig])
               /\ records' = Append(records, Converted(step, native, depths))
               /\ rows' = IF sig = "running" THEN rows - 1 ELSE 0
               /\ sig = "running" => backend.count + 1 < Horizon
<1>1. PICK moved \in Advances, depths \in DepthFrames,
           success, failure \in BOOLEAN,
           stop \in IF EarlyStopCapable THEN BOOLEAN ELSE {FALSE} :
        LET native == simulator.native + moved
            step   == backend.step + 1
            count  == backend.count + 1
            given  == Signal(success, failure, stop, count >= Horizon)
            record == Converted(step, native, depths)
        IN  /\ Continuous(native)
            /\ simulator' = [simulator EXCEPT !.native = native]
            /\ backend' = [backend EXCEPT
                 !.step = step, !.count = count, !.native = native,
                 !.touching = TouchingAfter(depths),
                 !.terminal = given # "running"]
            /\ transitions' = Append(transitions,
                 [step |-> step, native |-> native, signal |-> given])
            /\ records' = Append(records, record)
            /\ rows' = IF given = "running" THEN rows - 1 ELSE 0
  BY Zenon DEF RowReturns
<1> DEFINE sig == Signal(success, failure, stop, backend.count + 1 >= Horizon)
           native == simulator.native + moved
<1>2. sig \in Signals /\ (sig = "running" => ~(backend.count + 1 >= Horizon))
  BY DEF Signal, Signals
<1>3. /\ backend \in Backends /\ backend.count \in Nat /\ native \in Nat
      /\ Horizon \in Nat
  <2>1. backend \in Backends /\ simulator.native \in Nat
    BY DEF BackendTyped
  <2>2. moved \in Nat
    BY BackendAssumption DEF Advances
  <2> QED BY <2>1, <2>2, BackendAssumption DEF Backends
<1> HIDE DEF sig, native
<1>4. backend' = [attempted |-> backend.attempted, context |-> backend.context,
                  cached |-> backend.cached, delivered |-> backend.delivered,
                  closed |-> backend.closed, terminal |-> sig # "running",
                  step |-> backend.step + 1, count |-> backend.count + 1,
                  native |-> native, touching |-> TouchingAfter(depths)]
  BY <1>1, <1>3 DEF Backends, sig, native
<1>5. sig = "running" => backend.count + 1 < Horizon
  BY <1>2, <1>3
<1> QED BY <1>1, <1>2, <1>3, <1>4, <1>5 DEF sig, native, Continuous

\* A row appends one record: a step and an action later, with the phases the
\* tracker gives it.
LEMMA RowReturnsInv == ASSUME BackendInv, RowReturns PROVE BackendInv'
<1>1. /\ BackendTyped /\ Tracked /\ RecordsFollowTheSimulator /\ rows > 0
      /\ backend.delivered /\ backend.cached
  BY DEF BackendInv, RowReturns, Tracked
<1>2. PICK native \in Nat, depths \in DepthFrames, sig \in Signals :
        LET step == backend.step + 1
        IN  /\ native = backend.native + PhysicsSteps
            /\ simulator' = [simulator EXCEPT !.native = native]
            /\ backend' = [attempted |-> backend.attempted, context |-> backend.context,
                           cached |-> backend.cached, delivered |-> backend.delivered,
                           closed |-> backend.closed, terminal |-> sig # "running",
                           step |-> step, count |-> backend.count + 1,
                           native |-> native, touching |-> TouchingAfter(depths)]
            /\ transitions' = Append(transitions,
                 [step |-> step, native |-> native, signal |-> sig])
            /\ records' = Append(records, Converted(step, native, depths))
            /\ rows' = IF sig = "running" THEN rows - 1 ELSE 0
            /\ sig = "running" => backend.count + 1 < Horizon
  BY <1>1, RowShape
<1> DEFINE step == backend.step + 1
           r == Converted(step, native, depths)
<1>3. /\ backend \in Backends /\ simulator \in [native : Nat, released : Nat]
      /\ rows \in Nat /\ transitions \in Seq(Rows) /\ records \in Seq(Records)
      /\ step \in Nat /\ backend.count + 1 \in Nat
  <2>1. /\ backend \in Backends /\ simulator \in [native : Nat, released : Nat]
        /\ rows \in Nat /\ transitions \in Seq(Rows) /\ records \in Seq(Records)
    BY <1>1 DEF BackendTyped
  <2>2. backend.step \in Nat /\ backend.count \in Nat
    BY <2>1 DEF Backends
  <2> QED BY <2>1, <2>2
<1>4. r \in Records /\ TouchingAfter(depths) \in [Slots -> BOOLEAN]
  BY <1>1, <1>3, ConvertedIsRecord
<1>5. backend' = [attempted |-> backend.attempted, context |-> backend.context,
                  cached |-> backend.cached, delivered |-> backend.delivered,
                  closed |-> backend.closed, terminal |-> sig # "running",
                  step |-> step, count |-> backend.count + 1, native |-> native,
                  touching |-> TouchingAfter(depths)]
  BY <1>2
<1>6. /\ r.step = step /\ r.native = native /\ r.depths = depths
      /\ \A s \in Slots : r.phases[s] = Phase(depths[s], backend.touching[s])
      /\ \A s \in Slots : TouchingAfter(depths)[s] = Touching(depths[s], backend.touching[s])
  BY DEF Converted, TouchingAfter
<1>7. /\ simulator' = [simulator EXCEPT !.native = native]
      /\ transitions' = Append(transitions, [step |-> step, native |-> native, signal |-> sig])
      /\ records' = Append(records, r)
      /\ rows' = IF sig = "running" THEN rows - 1 ELSE 0
      /\ native = backend.native + PhysicsSteps
  BY <1>2
<1> HIDE DEF r, step
<1>8. BackendTyped'
  <2>1. backend' \in Backends
    BY <1>3, <1>4, <1>5 DEF Backends
  <2>2. simulator' \in [native : Nat, released : Nat] /\ rows' \in Nat
    <3>1. rows - 1 \in Nat
      BY <1>1, <1>3
    <3> QED BY <1>3, <1>7, <3>1
  <2>3. transitions' \in Seq(Rows)
    BY <1>3, <1>7 DEF Rows
  <2>4. records' \in Seq(Records)
    BY <1>3, <1>4, <1>7
  <2> QED BY <2>1, <2>2, <2>3, <2>4 DEF BackendTyped
<1>9. PICK n \in Nat : n = Len(records)
  BY <1>3
<1>10. /\ n \in Nat /\ n > 0 /\ n = step /\ Len(records') = n + 1
      /\ records'[n + 1] = r /\ DOMAIN records' = 1..(n + 1)
      /\ \A i \in 1..n : records'[i] = records[i]
  <2>1. n = step
    BY <1>1, <1>9 DEF Tracked, step
  <2>2. backend.step \in Nat
    BY <1>3 DEF Backends
  <2>3. n > 0
    BY <2>1, <2>2 DEF step
  <2>4. /\ Len(records') = n + 1 /\ records'[n + 1] = r /\ DOMAIN records' = 1..(n + 1)
        /\ \A i \in 1..n : records'[i] = records[i]
    <3>1. PICK x : x = r
      OBVIOUS
    <3>2. records \in Seq(Records) /\ x \in Records /\ records' = Append(records, x)
      BY <1>3, <1>4, <1>7, <3>1
    <3> QED BY <1>9, <3>1, <3>2
  <2> QED BY <1>9, <2>1, <2>3, <2>4
<1>11. \A s \in Slots : backend.touching[s] <=> InContact(s, n)
  BY <1>1, <1>9 DEF Tracked
<1>12. Tracked'
  <2>1. \A s \in Slots : backend'.touching[s] <=> InContact(s, Len(records))'
    <3> SUFFICES ASSUME NEW s \in Slots
                 PROVE  backend'.touching[s] <=> InContact(s, Len(records))'
      OBVIOUS
    <3>1. InContact(s, n + 1)' <=> Touching(r.depths[s], InContact(s, n))
      BY <1>1, <1>4, <1>7, <1>9, <1>10, ContactNext
    <3>2. InContact(s, Len(records))' <=> InContact(s, n + 1)'
      BY <1>9, <1>10 DEF InContact
    <3>3. Touching(depths[s], backend.touching[s]) <=> Touching(r.depths[s], InContact(s, n))
      BY <1>6, <1>11 DEF Touching
    <3>4. backend'.touching[s] = Touching(depths[s], backend.touching[s])
      BY <1>5, <1>6
    <3> QED BY <3>1, <3>2, <3>3, <3>4
  <2>2. records'[Len(records')].native = native
    BY <1>6, <1>9, <1>10
  <2> QED BY <1>1, <1>5, <1>9, <1>10, <2>1, <2>2 DEF Tracked
<1>13. RecordsFollowTheSimulator'
  <2> SUFFICES ASSUME NEW m \in 1..(n + 1)
               PROVE  /\ records'[m].step = m - 1
                      /\ records'[m].native = records'[1].native + (m - 1) * PhysicsSteps
                      /\ \A s \in Slots : records'[m].phases[s] = Reference(s, m)'
    BY <1>9, <1>10 DEF RecordsFollowTheSimulator
  <2>1. 1 \in 1..n /\ 1 \in DOMAIN records /\ n \in DOMAIN records
    <3>1. DOMAIN records = 1..n
      BY <1>3, <1>9
    <3> QED BY <1>10, <3>1
  <2>2. CASE m \in 1..n
    <3>1. m \in DOMAIN records
      BY <1>3, <1>9, <2>2
    <3>2. \A s \in Slots : Reference(s, m)' = Reference(s, m)
      BY <1>1, <1>4, <1>7, <2>2, <1>9, ReferenceKept
    <3> QED BY <1>1, <1>9, <1>10, <2>1, <2>2, <3>1, <3>2 DEF RecordsFollowTheSimulator
  <2>3. CASE m = n + 1
    <3>1. records[n].native = records[1].native + (n - 1) * PhysicsSteps
      BY <1>1, <2>1 DEF RecordsFollowTheSimulator
    <3>2. native = records[n].native + PhysicsSteps
      BY <1>1, <1>7, <1>9 DEF Tracked
    <3>3. records[1].native \in Nat /\ PhysicsSteps \in Nat
      <4>1. records[1] \in Records
        BY <1>3, <2>1
      <4> QED BY <4>1, BackendAssumption DEF Records
    <3>4. records[1].native + (n - 1) * PhysicsSteps + PhysicsSteps
            = records[1].native + ((n + 1) - 1) * PhysicsSteps
      BY <1>9, <1>10, <3>3
    <3>5. native = records[1].native + (m - 1) * PhysicsSteps
      BY <2>3, <3>1, <3>2, <3>4
    <3>6. \A s \in Slots : records'[m].phases[s] = Reference(s, m)'
      <4> SUFFICES ASSUME NEW s \in Slots PROVE r.phases[s] = Reference(s, m)'
        BY <1>9, <1>10, <2>3
      <4>1. Phase(r.depths[s], backend.touching[s]) = Reference(s, n + 1)'
        BY <1>1, <1>4, <1>7, <1>9, <1>10, <1>11, PhaseNext
      <4>2. Reference(s, n + 1)' = Reference(s, m)'
        BY <2>3 DEF Reference, InContact
      <4> QED BY <1>6, <4>1, <4>2
    <3> QED BY <1>6, <1>9, <1>10, <2>1, <2>3, <3>5, <3>6
  <2> QED BY <2>2, <2>3, <1>9, <1>10
<1> QED BY <1>8, <1>12, <1>13 DEF BackendInv

\* So the invariant holds whoever calls the backend, in whatever order.
LEMMA BackendKept == ASSUME BackendInv, BackendMove PROVE BackendInv'
<1>1. CASE UNCHANGED backendVars
  <2>1. BackendTyped'
    BY <1>1 DEF BackendInv, BackendTyped, backendVars
  <2> QED BY <1>1, <2>1, SameRecords DEF BackendInv, Tracked, Unreset, backendVars
<1>2. CASE BackendInit'
  <2>1. BackendInit' => BackendInv'
    BY BackendStarts, PTL
  <2> QED BY <1>2, <2>1
<1> QED BY <1>1, <1>2, ResetReturnsInv, ResetFailsInv, ObserveReturnsInv, ExecuteBeginsInv,
           RowReturnsInv, RowRaisesInv, BackendClosesInv DEF BackendMove

PolicyRecords ==
  [kind : Kinds, state : {"new", "ready", "awaiting_commit", "aborted", "closed"},
   plan : [source : Nat, len : Nat],
   client : {"none", "ready", "awaiting_execution", "reset_required",
             "indeterminate", "closed"},
   next : Nat, closed : BOOLEAN]

PolicyTyped ==
  /\ policy \in PolicyRecords
  /\ policy.kind # "n0" => policy.client = "none"

Observations == [step : Nat, present : BOOLEAN]
Executions   == [plan : [source : Nat, len : Nat], count : Nat, present : BOOLEAN,
                 signal : Signals]

\* An observation the policy can read, at the step it expects.
Expected(o) ==
  /\ Readable(o)
  /\ policy.kind = "n0" => o.step = policy.next

\* The policy between two cycles, and between an inference and its commit.
AtRest ==
  /\ policy.state = "ready" /\ policy.plan = NoPlan /\ ~policy.closed
  /\ policy.kind = "n0" => policy.client = "ready"

Planned ==
  /\ policy.plan.len = PlanLen(policy.kind) /\ ~policy.closed
  /\ policy.state = IF policy.kind = "n0" THEN "ready" ELSE "awaiting_commit"
  /\ policy.kind = "n0" => policy.client = "awaiting_execution"

\* Nothing is pending and no server is leased.
LetGo ==
  policy.closed /\ policy.plan = NoPlan /\ policy.client \in {"none", "closed"}

-----------------------------------------------------------------------------
(* What the policies do with a call, whichever policy it is.               *)

\* A plan has at least one action.
LEMMA PlanLenType == ASSUME NEW kind \in Kinds PROVE PlanLen(kind) \in Nat \ {0}
BY ChunkAssumption DEF PlanLen

\* A reset leaves the policy at rest and waiting for step 0.
LEMMA ResetsPolicy ==
  ASSUME PolicyTyped, ~policy.closed, PolicyResets
  PROVE  /\ PolicyTyped' /\ policy'.kind = policy.kind /\ AtRest'
         /\ policy.kind = "n0" => policy'.next = 0
<1>1. CASE ACTReset
  <2>1. policy' = [policy EXCEPT !.state = "ready", !.plan = NoPlan] /\ policy.kind # "n0"
    BY <1>1 DEF ACTReset, ACTKinds
  <2> QED BY <2>1 DEF PolicyTyped, PolicyRecords, NoPlan, AtRest
<1>2. CASE N0Reset
  <2>1. policy' = [kind |-> policy.kind, state |-> "ready", plan |-> NoPlan,
                   client |-> "ready", next |-> 0, closed |-> policy.closed]
        /\ policy.kind = "n0"
    BY <1>2 DEF N0Reset, PolicyTyped, PolicyRecords
  <2> QED BY <2>1 DEF PolicyTyped, PolicyRecords, NoPlan, AtRest
<1> QED BY <1>1, <1>2 DEF PolicyResets

\* A reset that fails moves at most the client.
LEMMA ResetFailsPolicy ==
  ASSUME PolicyTyped, PolicyResetFails
  PROVE  PolicyTyped' /\ policy'.kind = policy.kind
<1>1. CASE ACTResetFails
  BY <1>1 DEF ACTResetFails, PolicyTyped
<1>2. CASE N0ResetFails
  <2>1. PICK client \in {"none", "ready", "awaiting_execution", "reset_required",
                         "indeterminate", "closed"} :
          policy' = [policy EXCEPT !.client = client]
    BY <1>2 DEF N0ResetFails, AfterFailedReset, PolicyTyped, PolicyRecords
  <2>2. policy.kind = "n0"
    BY <1>2 DEF N0ResetFails
  <2> QED BY <2>1, <2>2 DEF PolicyTyped, PolicyRecords
<1> QED BY <1>1, <1>2 DEF PolicyResetFails

\* An inference makes a plan of the policy's own length for the observation.
LEMMA InfersPolicy ==
  ASSUME PolicyTyped, NEW o \in Observations, AtRest, PolicyInfers(o)
  PROVE  /\ PolicyTyped' /\ policy'.kind = policy.kind /\ Planned'
         /\ policy'.plan.source = o.step /\ policy'.next = policy.next
<1>0. ChunkLen \in Nat /\ policy.kind \in Kinds
  BY ChunkAssumption DEF PolicyTyped, PolicyRecords
<1>1. CASE ACTInfer(o)
  <2>1. policy' = [policy EXCEPT !.state = "awaiting_commit",
                     !.plan = [source |-> o.step, len |-> 1]]
        /\ policy.kind # "n0"
    BY <1>1 DEF ACTInfer, ACTKinds
  <2> QED BY <1>0, <2>1 DEF PolicyTyped, PolicyRecords, Planned, PlanLen, Observations,
                            AtRest
<1>2. CASE N0Infer(o)
  <2>1. policy' = [policy EXCEPT !.client = "awaiting_execution",
                     !.plan = [source |-> o.step, len |-> ChunkLen]]
        /\ policy.kind = "n0"
    BY <1>2 DEF N0Infer
  <2> QED BY <1>0, <2>1 DEF PolicyTyped, PolicyRecords, Planned, PlanLen, Observations,
                            AtRest
<1> QED BY <1>1, <1>2 DEF PolicyInfers

\* A failing inference keeps the policy a policy.
LEMMA InferFailsPolicy ==
  ASSUME PolicyTyped, NEW o, PolicyInferFails(o)
  PROVE  PolicyTyped' /\ policy'.kind = policy.kind
<1>1. CASE ACTInferFails(o)
  BY <1>1 DEF ACTInferFails, PolicyTyped, PolicyRecords
<1>2. CASE N0InferFails(o)
  <2>1. PICK client \in {"ready", "reset_required", "awaiting_execution"} :
          policy' = [policy EXCEPT !.client = client]
    BY <1>2 DEF N0InferFails
  <2>2. policy.kind = "n0"
    BY <1>2 DEF N0InferFails
  <2> QED BY <2>1, <2>2 DEF PolicyTyped, PolicyRecords
<1> QED BY <1>1, <1>2 DEF PolicyInferFails

\* At rest a policy refuses only what it cannot read or does not expect.
LEMMA RefusesNoExpected ==
  ASSUME PolicyTyped, NEW o, AtRest, Expected(o)
  PROVE  ~PolicyRefuses(o)
BY DEF PolicyRefuses, ACTInferRefused, N0InferRefused, N0InferOK, AtRest, Expected

\* A commit leaves a policy that goes on at rest; an N0 client then expects the
\* step after the whole chunk.
LEMMA CommitsPolicy ==
  ASSUME PolicyTyped, NEW e \in Executions, Planned, e.plan = policy.plan, PolicyCommits(e)
  PROVE  /\ PolicyTyped' /\ policy'.kind = policy.kind
         /\ e.signal = "running" =>
              /\ AtRest'
              /\ policy.kind = "n0" =>
                   e.count = ChunkLen /\ policy'.next = policy.plan.source + ChunkLen
<1>0. ChunkLen \in Nat /\ policy.plan.source \in Nat
      /\ policy.plan.source + ChunkLen \in Nat
  <2>1. ChunkLen \in Nat /\ policy.plan.source \in Nat
    BY ChunkAssumption DEF PolicyTyped, PolicyRecords
  <2> QED BY <2>1
<1>1. CASE ACTCommit(e)
  <2>1. policy' = [policy EXCEPT !.state = "ready", !.plan = NoPlan] /\ policy.kind # "n0"
    BY <1>1 DEF ACTCommit, ACTKinds
  <2> QED BY <2>1 DEF PolicyTyped, PolicyRecords, Planned, AtRest, NoPlan
<1>2. CASE N0Commit(e)
  <2>1. policy.kind = "n0" /\ (e.signal = "running" => e.count = ChunkLen)
    BY <1>2 DEF N0Commit, N0CommitOK
  <2>2. CASE e.signal # "running"
    <3>1. policy' = [policy EXCEPT !.plan = NoPlan, !.client = "reset_required", !.next = 0]
      BY <1>2, <2>2 DEF N0Commit
    <3>2. policy' = [kind |-> policy.kind, state |-> policy.state, plan |-> NoPlan,
                     client |-> "reset_required", next |-> 0, closed |-> policy.closed]
      BY <3>1 DEF PolicyTyped, PolicyRecords
    <3> QED BY <2>1, <2>2, <3>2 DEF PolicyTyped, PolicyRecords, NoPlan
  <2>3. CASE e.signal = "running"
    <3>1. policy' = [policy EXCEPT !.plan = NoPlan, !.client = "ready",
                       !.next = policy.plan.source + ChunkLen]
      BY <1>2, <2>3 DEF N0Commit
    <3>2. policy' = [kind |-> policy.kind, state |-> policy.state, plan |-> NoPlan,
                     client |-> "ready", next |-> policy.plan.source + ChunkLen,
                     closed |-> policy.closed]
      BY <3>1 DEF PolicyTyped, PolicyRecords
    <3> QED BY <1>0, <2>1, <2>3, <3>2 DEF PolicyTyped, PolicyRecords, NoPlan, AtRest, Planned
  <2> QED BY <2>2, <2>3
<1> QED BY <1>1, <1>2 DEF PolicyCommits

\* A planned policy refuses a batch of its plan only when it is N0 and the batch
\* is running and not the whole chunk, or cannot be read.
LEMMA RefusedCommit ==
  ASSUME PolicyTyped, NEW e, Planned, e.plan = policy.plan, e.present,
         PolicyCommitRefused(e)
  PROVE  /\ PolicyTyped' /\ policy' = policy
         /\ policy.kind = "n0" /\ e.signal = "running" /\ e.count # ChunkLen
<1>1. policy' = policy
  BY DEF PolicyCommitRefused, ACTCommitRefused, N0CommitRefused
<1>2. ~ACTCommitRefused(e)
  BY DEF ACTCommitRefused, ACTCommitOK, ACTKinds, Planned
<1>3. policy.kind = "n0" /\ ~N0CommitOK(e)
  BY <1>2 DEF PolicyCommitRefused, N0CommitRefused
<1>4. policy.plan # NoPlan
  <2>1. policy.plan.len # 0
    BY PlanLenType DEF Planned, PolicyTyped, PolicyRecords
  <2> QED BY <2>1 DEF NoPlan
<1>5. e.signal = "running" /\ e.count # ChunkLen
  BY <1>3, <1>4 DEF N0CommitOK
<1> QED BY <1>1, <1>3, <1>5 DEF PolicyTyped

\* A failing commit moves at most the client.
LEMMA CommitFailsPolicy ==
  ASSUME PolicyTyped, NEW e, N0CommitFails(e)
  PROVE  PolicyTyped' /\ policy'.kind = policy.kind
<1>1. PICK client \in {"awaiting_execution", "reset_required", "indeterminate"} :
        policy' = [policy EXCEPT !.client = client]
  BY DEF N0CommitFails
<1>2. policy.kind = "n0"
  BY DEF N0CommitFails
<1> QED BY <1>1, <1>2 DEF PolicyTyped, PolicyRecords

\* An abort keeps the policy a policy.
LEMMA AbortsPolicy ==
  ASSUME PolicyTyped, PolicyAborts PROVE PolicyTyped' /\ policy'.kind = policy.kind
<1>1. CASE ACTAbort
  BY <1>1 DEF ACTAbort, PolicyTyped, PolicyRecords, NoPlan
<1>2. CASE N0Abort
  <2>1. PICK client \in {"none", "reset_required", "indeterminate", "closed"} :
          policy' = [policy EXCEPT !.state = "new", !.plan = NoPlan, !.client = client]
    BY <1>2 DEF N0Abort, NothingToAbort
  <2>2. policy.kind = "n0"
    BY <1>2 DEF N0Abort
  <2>3. policy' = [kind |-> policy.kind, state |-> "new", plan |-> NoPlan,
                   client |-> client, next |-> policy.next, closed |-> policy.closed]
    BY <2>1 DEF PolicyTyped, PolicyRecords
  <2> QED BY <2>2, <2>3 DEF PolicyTyped, PolicyRecords, NoPlan
<1>3. CASE N0AbortFails
  BY <1>3 DEF N0AbortFails, PolicyTyped, PolicyRecords
<1> QED BY <1>1, <1>2, <1>3 DEF PolicyAborts

\* A closed policy has let go of everything.
LEMMA ClosesPolicy ==
  ASSUME PolicyTyped, PolicyCloses
  PROVE  /\ PolicyTyped' /\ policy'.kind = policy.kind /\ LetGo'
         /\ policy.client = "none" => policy'.client = "none"
<1>1. CASE ACTClose
  <2>1. policy' = [policy EXCEPT !.state = "closed", !.plan = NoPlan, !.closed = TRUE]
        /\ policy.kind # "n0"
    BY <1>1 DEF ACTClose, ACTKinds
  <2>2. policy' = [kind |-> policy.kind, state |-> "closed", plan |-> NoPlan,
                   client |-> policy.client, next |-> policy.next, closed |-> TRUE]
    BY <2>1 DEF PolicyTyped, PolicyRecords
  <2>3. policy.kind # "n0" /\ policy.kind \in Kinds /\ policy.next \in Nat
        /\ policy.client \in {"none", "ready", "awaiting_execution", "reset_required",
                             "indeterminate", "closed"}
        /\ (policy.kind # "n0" => policy.client = "none")
    BY <2>1 DEF PolicyTyped, PolicyRecords
  <2>4. PolicyTyped'
    BY <2>2, <2>3 DEF PolicyTyped, PolicyRecords, NoPlan
  <2> QED BY <2>2, <2>3, <2>4 DEF LetGo
<1>2. CASE N0Close
  <2>1. policy' = [policy EXCEPT !.state = "new", !.plan = NoPlan,
                     !.client = IF @ = "none" THEN @ ELSE "closed", !.closed = TRUE]
        /\ policy.kind = "n0"
    BY <1>2 DEF N0Close
  <2>2. policy' = [kind |-> policy.kind, state |-> "new", plan |-> NoPlan,
                   client |-> IF policy.client = "none" THEN "none" ELSE "closed",
                   next |-> policy.next, closed |-> TRUE]
    BY <2>1 DEF PolicyTyped, PolicyRecords
  <2>3. policy.kind = "n0" /\ policy.kind \in Kinds /\ policy.next \in Nat
        /\ policy.client \in {"none", "ready", "awaiting_execution", "reset_required",
                             "indeterminate", "closed"}
        /\ (policy.kind # "n0" => policy.client = "none")
    BY <2>1 DEF PolicyTyped, PolicyRecords
  <2>4. PolicyTyped'
    BY <2>2, <2>3 DEF PolicyTyped, PolicyRecords, NoPlan
  <2> QED BY <2>2, <2>3, <2>4 DEF LetGo
<1> QED BY <1>1, <1>2 DEF PolicyCloses

-----------------------------------------------------------------------------
(* The runner: what holds where.                                         *)

Before == {"idle", "preflight", "reset"}
Cycle  == {"loop", "execute", "rows", "deliver"}
Within == {"policy_reset", "observe"} \cup Cycle
Ending == {"abort", "close"}
Over   == {"done", "open_policy"}

TrialTyped ==
  /\ caller \in {"runner", "anyone"}
  /\ spec \in [maxObs : Nat \ {0}, maxCycles : Nat, absence : BOOLEAN]
  /\ observed \in Nat /\ cycles \in Nat /\ entries \in Nat
  /\ current \in Observations
  /\ signal \in Signals
  /\ outcome \in Signals \cup {"none", "crash", "raised", "unsupported_contract"}
  /\ failed \in BOOLEAN
  /\ PolicyTyped

Untroubled == outcome = "none" /\ ~failed /\ signal = "running"

\* The policy expects the observation in hand.
OnStep == policy.kind = "n0" => policy.next = current.step

\* One record, observed by nobody yet.
FirstRecord ==
  /\ backend.cached /\ Len(records) = 1 /\ observed = 0
  /\ backend.count = 0 /\ ~backend.delivered /\ ~backend.terminal
  /\ current.step = 0 /\ rows = 0

\* Chunks start at multiples of the chunk length.
OnChunk == policy.kind = "n0" => \E q \in Nat : observed = q * ChunkLen + 1

Cycling ==
  /\ backend.delivered /\ backend.count = backend.step
  /\ current.step = observed - 1
  /\ 1 =< observed /\ observed =< spec.maxObs
  /\ OnChunk

\* Between two batches every record was observed.
Settled == Len(records) = observed /\ ~backend.terminal /\ rows = 0

\* As many actions as the plan has and the budget leaves.
CutRight ==
  /\ cut \in Nat /\ 1 =< cut /\ cut =< PlanLen(policy.kind)
  /\ observed + cut =< spec.maxObs
  /\ cut < PlanLen(policy.kind) => observed + cut = spec.maxObs

\* The rows of the batch so far are the records that follow the observed ones.
Batch ==
  /\ Len(records) = observed + Len(transitions)
  /\ \A i \in DOMAIN transitions :
       /\ transitions[i].step = observed + i - 1
       /\ i < Len(transitions) => transitions[i].signal = "running"

Rowing ==
  /\ rows > 0 /\ Len(transitions) + rows = cut /\ ~backend.terminal
  /\ \A i \in DOMAIN transitions : transitions[i].signal = "running"

\* A batch that still runs is the whole cut, below the horizon.
Complete ==
  /\ rows = 0 /\ Len(transitions) > 0 /\ Len(transitions) =< cut
  /\ transitions[Len(transitions)].signal = "running" =>
       Len(transitions) = cut /\ backend.count < Horizon /\ ~backend.terminal

Anyone == caller = "anyone" => pc = "free" /\ outcome = "none" /\ ~failed

\* Where the runner is says what it has done to its components.
Anywhere ==
  /\ pc \in Before \cup Within \cup Ending \cup Over
  /\ observed =< Len(records)
  /\ current.present \/ spec.absence
  /\ IF pc \in Over THEN simulator.released = 1
     ELSE simulator.released = 0 /\ ~backend.closed
  /\ pc \in Before \cup Within => Untroubled
  /\ pc \in Before => BackendInit /\ observed = 0 /\ current.step = 0
  /\ pc \in {"preflight", "reset", "policy_reset"} => policy = NewPolicy(policy.kind)
  /\ pc \in {"reset"} \cup Within => ~spec.absence
  /\ pc = "done" => LetGo

InTrial ==
  /\ pc \in {"policy_reset", "observe"} => FirstRecord
  /\ pc \in {"observe", "loop"} => AtRest /\ OnStep
  /\ pc \in Cycle => Cycling
  /\ pc \in {"loop", "execute"} => Settled
  /\ pc \in {"execute", "rows", "deliver"} =>
       Planned /\ policy.plan.source = current.step /\ observed < spec.maxObs
  /\ pc \in {"rows", "deliver"} => CutRight /\ Batch
  /\ pc = "rows" => Rowing
  /\ pc = "deliver" => Complete

Phases == Anyone /\ (caller = "runner" => Anywhere /\ InTrial)

TrialInv == TrialTyped /\ Phases /\ CrashHasCause

-----------------------------------------------------------------------------
\* A number between two multiples is none.
LEMMA ModOff ==
  ASSUME NEW C \in Nat \ {0}, NEW q \in Nat, NEW c \in 1..(C - 1)
  PROVE  (q * C + c) % C # 0
<1> SUFFICES ASSUME (q * C + c) % C = 0 PROVE FALSE
  OBVIOUS
<1> DEFINE n == q * C + c
<1>1. n \in Nat /\ n % C = 0
  OBVIOUS
<1>2. PICK k \in Int : n = C * k
  <2> HIDE DEF n
  <2>1. n = C * (n \div C) + (n % C)
    BY <1>1
  <2>2. n \div C \in Int
    BY <1>1
  <2> QED BY <1>1, <2>1, <2>2
<1>3. c = C * (k - q)
  BY <1>2
<1>4. CASE k - q <= 0
  <2>1. C * (k - q) <= 0
    BY <1>4
  <2> QED BY <1>3, <2>1
<1>5. CASE k - q >= 1
  <2>1. C * (k - q) >= C
    BY <1>5
  <2> QED BY <1>3, <2>1
<1> QED BY <1>4, <1>5

\* On its way to the end the trial says nothing of its components but that the
\* simulator is not released yet.
LEMMA EndingPhases ==
  ASSUME caller' = "runner", pc' \in Ending, observed' =< Len(records'),
         current'.present \/ spec'.absence,
         simulator'.released = 0, ~backend'.closed
  PROVE  Phases'
<1>1. Anyone'
  BY DEF Anyone
<1>2. Anywhere'
  BY DEF Anywhere, Ending, Over, Before, Within, Cycle
<1>3. InTrial'
  BY DEF InTrial, Ending, Cycle
<1> QED BY <1>1, <1>2, <1>3 DEF Phases

\* The operator is held against the policy before anything is touched.
LEMMA PreflightStep ==
  ASSUME BackendInv, TrialInv, Preflight PROVE BackendMove /\ TrialInv'
<1>1. /\ TrialTyped /\ Phases /\ caller = "runner" /\ pc = "preflight"
      /\ UNCHANGED <<backendVars, policy, caller, spec, observed, cycles, current,
                     signal, cut, failed, entries>>
  BY DEF TrialInv, Preflight, At
<1>2. Anywhere /\ Untroubled /\ BackendInit /\ observed = 0 /\ current.step = 0
      /\ policy = NewPolicy(policy.kind)
  BY <1>1 DEF Phases, Anywhere, Before
<1>3. BackendMove
  BY <1>1 DEF BackendMove, backendVars
<1>4. TrialTyped' /\ outcome' # "crash"
  BY <1>1, <1>2 DEF Preflight, TrialTyped, PolicyTyped, Untroubled
<1>5. Phases'
  <2>1. CASE pc' = "close"
    <3>1. /\ observed' =< Len(records') /\ (current'.present \/ spec'.absence)
          /\ simulator'.released = 0 /\ ~backend'.closed
      BY <1>1, <1>2 DEF Anywhere, Over, backendVars
    <3> QED BY <1>1, <2>1, <3>1, EndingPhases DEF Ending
  <2>2. CASE pc' = "reset" /\ ~spec.absence /\ UNCHANGED outcome
    <3>1. Anyone' /\ InTrial'
      BY <1>1, <2>2 DEF Anyone, InTrial, Cycle
    <3>2. Anywhere'
      BY <1>1, <1>2, <2>2 DEF Anywhere, Before, Within, Cycle, Ending, Over, Untroubled,
                              BackendInit, backendVars
    <3> QED BY <3>1, <3>2 DEF Phases
  <2> QED BY <2>1, <2>2 DEF Preflight, Goto
<1> QED BY <1>3, <1>4, <1>5 DEF TrialInv, CrashHasCause

\* The reset is the first call the backend gets, so it is not refused.
LEMMA ResetBackendStep ==
  ASSUME BackendInv, TrialInv, ResetBackend PROVE BackendMove /\ TrialInv'
<1>1. /\ TrialTyped /\ Phases /\ caller = "runner" /\ pc = "reset"
      /\ UNCHANGED <<policy, caller, spec, observed, cycles, current, signal, cut, entries>>
  BY DEF TrialInv, ResetBackend, At
<1>2. Anywhere /\ Untroubled /\ BackendInit /\ observed = 0 /\ current.step = 0
      /\ policy = NewPolicy(policy.kind) /\ ~spec.absence
  BY <1>1 DEF Phases, Anywhere, Before
<1>3. ~backend.attempted /\ ~backend.closed /\ ~ResetRefused(TRUE)
  BY <1>2 DEF BackendInit, NewBackend, ResetRefused
<1>4. CASE ResetReturns /\ Goto("policy_reset") /\ UNCHANGED <<outcome, failed>>
  <2>1. PICK depths \in DepthFrames, native \in InitialSteps :
          /\ simulator' = [simulator EXCEPT !.native = native]
          /\ records' = <<Converted(0, native, depths)>>
          /\ backend' = [backend EXCEPT
               !.attempted = TRUE, !.context = TRUE, !.cached = TRUE,
               !.native = native, !.touching = TouchingAfter(depths)]
    BY <1>4 DEF ResetReturns
  <2>2. Len(records') = 1 /\ rows' = 0
    BY <1>2, <1>4, <2>1 DEF ResetReturns, BackendInit
  <2>3. /\ backend'.cached /\ backend'.count = 0 /\ ~backend'.delivered
        /\ ~backend'.terminal /\ ~backend'.closed
    BY <1>2, <2>1 DEF BackendInit, NewBackend
  <2>4. simulator'.released = 0
    BY <1>2, <2>1 DEF BackendInit, NewSimulator
  <2>5. TrialTyped' /\ outcome' # "crash" /\ BackendMove
    BY <1>1, <1>2, <1>4 DEF TrialTyped, PolicyTyped, Untroubled, BackendMove
  <2>6. Anyone' /\ Anywhere'
    BY <1>1, <1>2, <1>4, <2>2, <2>3, <2>4 DEF Anyone, Anywhere, Goto, Before, Within, Cycle,
       Ending, Over, Untroubled
  <2>7. InTrial'
    BY <1>1, <1>2, <1>4, <2>2, <2>3 DEF InTrial, Goto, Cycle, FirstRecord
  <2> QED BY <2>5, <2>6, <2>7 DEF TrialInv, Phases, CrashHasCause
<1>5. CASE ResetFails /\ Goto("close") /\ outcome' = "crash"
           /\ failed' = (failed \/ ~backend.attempted)
  <2>1. /\ simulator' = simulator /\ records' = records
        /\ ~backend'.closed
    BY <1>2, <1>5 DEF ResetFails, BackendInit, NewBackend
  <2>2. simulator'.released = 0 /\ observed' =< Len(records') /\ failed'
        /\ (current'.present \/ spec'.absence)
    BY <1>1, <1>2, <1>3, <1>5, <2>1 DEF Anywhere, Over
  <2>3. Phases'
    BY <1>1, <1>5, <2>1, <2>2, EndingPhases DEF Goto, Ending
  <2>4. TrialTyped' /\ BackendMove
    BY <1>1, <1>5, <2>2 DEF TrialTyped, PolicyTyped, BackendMove
  <2> QED BY <2>2, <2>3, <2>4 DEF TrialInv, CrashHasCause
<1> QED BY <1>3, <1>4, <1>5 DEF ResetBackend

\* A new policy accepts its reset.
LEMMA ResetPolicyStep ==
  ASSUME BackendInv, TrialInv, ResetPolicy PROVE BackendMove /\ TrialInv'
<1>1. /\ TrialTyped /\ Phases /\ caller = "runner" /\ pc = "policy_reset"
      /\ UNCHANGED <<backendVars, caller, spec, observed, cycles, current, signal,
                     cut, entries>>
  BY DEF TrialInv, ResetPolicy, At
<1>2. Anywhere /\ Untroubled /\ FirstRecord /\ PolicyTyped /\ ~policy.closed
      /\ policy = NewPolicy(policy.kind) /\ ~spec.absence
  <2>1. Anywhere /\ Untroubled /\ FirstRecord /\ PolicyTyped /\ ~spec.absence
        /\ policy = NewPolicy(policy.kind)
    BY <1>1 DEF Phases, Anywhere, InTrial, Within, TrialTyped
  <2> QED BY <2>1 DEF NewPolicy
<1>3. BackendMove
  BY <1>1 DEF BackendMove, backendVars
<1>4. CASE PolicyResets /\ Goto("observe") /\ UNCHANGED <<outcome, failed>>
  <2>1. PolicyTyped' /\ policy'.kind = policy.kind /\ AtRest'
        /\ (policy.kind = "n0" => policy'.next = 0)
    BY <1>2, <1>4, ResetsPolicy
  <2>2. TrialTyped' /\ outcome' # "crash"
    BY <1>1, <1>2, <1>4, <2>1 DEF TrialTyped, Untroubled
  <2>3. Anyone' /\ Anywhere'
    BY <1>1, <1>2, <1>4 DEF Anyone, Anywhere, Goto, Before, Within, Cycle,
       Ending, Over, Untroubled, backendVars
  <2>4. InTrial'
    BY <1>1, <1>2, <1>4, <2>1 DEF InTrial, Goto, Cycle, FirstRecord, OnStep, backendVars
  <2> QED BY <1>3, <2>2, <2>3, <2>4 DEF TrialInv, Phases, CrashHasCause
<1>5. CASE PolicyResetFails /\ Crash /\ failed' = TRUE
  <2>1. PolicyTyped' /\ policy'.kind = policy.kind
    BY <1>2, <1>5, ResetFailsPolicy
  <2>2. simulator'.released = 0 /\ observed' =< Len(records') /\ ~backend'.closed
        /\ (current'.present \/ spec'.absence)
    BY <1>1, <1>2 DEF Anywhere, Over, backendVars
  <2>3. Phases'
    BY <1>1, <1>5, <2>2, EndingPhases DEF Crash, Ending
  <2>4. TrialTyped'
    BY <1>1, <1>5, <2>1 DEF TrialTyped, Crash
  <2> QED BY <1>3, <1>5, <2>3, <2>4 DEF TrialInv, CrashHasCause
<1> QED BY <1>4, <1>5 DEF ResetPolicy

\* A crash for which a component or the budget is to blame ends the trial.
LEMMA CrashStep ==
  ASSUME TrialTyped', caller' = "runner", pc' \in Ending, observed' =< Len(records'),
         current'.present \/ spec'.absence,
         simulator'.released = 0, ~backend'.closed,
         failed' \/ outcome' # "crash" \/ (policy'.kind = "n0" /\ Unaligned')
  PROVE  TrialInv'
BY EndingPhases DEF TrialInv, CrashHasCause

\* The first observation is there and nobody had it.
LEMMA ObserveStep ==
  ASSUME BackendInv, TrialInv, Observe PROVE BackendMove /\ TrialInv'
<1>1. /\ TrialTyped /\ Phases /\ caller = "runner" /\ pc = "observe"
      /\ UNCHANGED <<policy, caller, spec, cycles, signal, cut, failed, entries>>
  BY DEF TrialInv, Observe, At
<1>2. Anywhere /\ Untroubled /\ FirstRecord /\ AtRest /\ OnStep /\ ~spec.absence
  BY <1>1 DEF Phases, Anywhere, InTrial, Within
<1>3. backend.context /\ ~ObserveRefused /\ Len(records) = backend.step + 1
      /\ backend \in Backends
  BY <1>2 DEF FirstRecord, BackendInv, BackendTyped, Tracked, ObserveRefused
<1>4. /\ ObserveReturns /\ pc' = "loop" /\ observed' = 1
      /\ current' \in Delivered(0) /\ UNCHANGED outcome
  BY <1>3 DEF Observe, Goto
<1>5. current' = [step |-> 0, present |-> TRUE]
  BY <1>2, <1>4 DEF Delivered, Present
<1>6. /\ backend' = [backend EXCEPT !.delivered = TRUE]
      /\ UNCHANGED <<simulator, rows, transitions, records>>
  BY <1>4 DEF ObserveReturns
<1>7. /\ backend'.delivered /\ backend'.step = 0 /\ backend'.count = 0
      /\ backend'.terminal = backend.terminal /\ backend'.closed = backend.closed
  BY <1>2, <1>3, <1>6 DEF FirstRecord, Backends
<1>8. TrialTyped' /\ outcome' # "crash" /\ BackendMove
  BY <1>1, <1>2, <1>4, <1>5 DEF TrialTyped, PolicyTyped, Untroubled, BackendMove, Observations
<1>9. Anyone' /\ Anywhere'
  <2>1. Anyone'
    BY <1>1, <1>4 DEF Anyone
  <2>2. /\ pc' \in Within /\ pc' \notin Before \cup Over
        /\ pc' \notin {"preflight", "reset", "policy_reset", "done"}
    BY <1>4 DEF Before, Within, Cycle, Over
  <2>3. simulator.released = 0 /\ ~backend.closed
    BY <1>1, <1>2 DEF Anywhere, Within, Cycle, Over
  <2>4. Untroubled'
    BY <1>1, <1>2, <1>4 DEF Untroubled
  <2>5. observed' =< Len(records')
    <3>1. Len(records) = 1
      BY <1>2 DEF FirstRecord
    <3> QED BY <1>4, <1>6, <3>1
  <2>6. ~spec'.absence /\ simulator'.released = 0 /\ ~backend'.closed
    BY <1>1, <1>2, <1>6, <1>7, <2>3
  <2> QED BY <1>5, <2>1, <2>2, <2>4, <2>5, <2>6 DEF Anywhere
<1>10. Cycling'
  <2>1. spec.maxObs \in Nat /\ 1 = 0 * ChunkLen + 1 /\ 1 =< spec.maxObs
    BY <1>1, ChunkAssumption DEF TrialTyped
  <2> QED BY <1>1, <1>4, <1>5, <1>7, <2>1 DEF Cycling, OnChunk
<1>11. InTrial'
  BY <1>1, <1>2, <1>4, <1>5, <1>6, <1>7, <1>10 DEF InTrial, Cycle, FirstRecord, AtRest,
     OnStep, Settled
<1> QED BY <1>8, <1>9, <1>11 DEF TrialInv, Phases, CrashHasCause

\* The clock ends the trial between two cycles.
LEMMA BudgetEndsStep ==
  ASSUME BackendInv, TrialInv, BudgetEnds PROVE BackendMove /\ TrialInv'
<1>1. /\ TrialTyped /\ Phases /\ caller = "runner" /\ pc = "loop"
      /\ pc' = "close" /\ outcome' = "timeout" /\ signal' = "timeout"
      /\ UNCHANGED <<backendVars, policy, caller, spec, observed, cycles, current,
                     cut, failed, entries>>
  BY DEF TrialInv, BudgetEnds, At, Goto
<1>2. Anywhere
  BY <1>1 DEF Phases
<1>3. TrialTyped' /\ BackendMove
  BY <1>1 DEF TrialTyped, PolicyTyped, BackendMove, Signals
<1>4. /\ observed' =< Len(records') /\ (current'.present \/ spec'.absence)
      /\ simulator'.released = 0 /\ ~backend'.closed
  BY <1>1, <1>2 DEF Anywhere, Over, backendVars
<1> QED BY <1>1, <1>3, <1>4, CrashStep DEF Ending

\* The policy is given the observation it expects, so an inference that crashes
\* failed by itself.
LEMMA InferStep ==
  ASSUME BackendInv, TrialInv, Infer PROVE BackendMove /\ TrialInv'
<1>1. /\ TrialTyped /\ Phases /\ caller = "runner" /\ pc = "loop"
      /\ observed < spec.maxObs /\ current \in Observations
      /\ UNCHANGED <<backendVars, caller, spec, observed, cycles, current, signal,
                     cut, entries>>
  BY DEF TrialInv, Infer, At, TrialTyped
<1>2. /\ Anywhere /\ Untroubled /\ AtRest /\ OnStep /\ Cycling /\ Settled
      /\ ~spec.absence /\ PolicyTyped
  BY <1>1 DEF Phases, Anywhere, InTrial, Within, Cycle, TrialTyped
<1>3. BackendMove
  BY <1>1 DEF BackendMove, backendVars
<1>4. Expected(current)
  BY <1>2 DEF Expected, OnStep, Anywhere, Readable
<1>5. ~PolicyRefuses(current)
  BY <1>2, <1>4, RefusesNoExpected
<1>6. CASE PolicyInfers(current) /\ Goto("execute") /\ UNCHANGED <<outcome, failed>>
  <2>1. PolicyTyped' /\ policy'.kind = policy.kind /\ Planned'
        /\ policy'.plan.source = current.step
    BY <1>1, <1>2, <1>6, InfersPolicy
  <2>2. TrialTyped' /\ outcome' # "crash"
    BY <1>1, <1>2, <1>6, <2>1 DEF TrialTyped, Untroubled
  <2>3. Anyone' /\ Anywhere'
    BY <1>1, <1>2, <1>6 DEF Anyone, Anywhere, Goto, Before, Within, Cycle,
       Ending, Over, Untroubled, backendVars
  <2>4. InTrial'
    BY <1>1, <1>2, <1>6, <2>1 DEF InTrial, Goto, Cycle, Cycling, OnChunk, Settled,
       backendVars
  <2> QED BY <1>3, <2>2, <2>3, <2>4 DEF TrialInv, Phases, CrashHasCause
<1>7. CASE PolicyInferFails(current) /\ Crash /\ failed' = TRUE
  <2>1. PolicyTyped' /\ policy'.kind = policy.kind
    BY <1>2, <1>7, InferFailsPolicy
  <2>2. TrialTyped'
    BY <1>1, <1>7, <2>1 DEF TrialTyped, Crash
  <2>3. /\ observed' =< Len(records') /\ (current'.present \/ spec'.absence)
        /\ simulator'.released = 0 /\ ~backend'.closed
    BY <1>1, <1>2 DEF Anywhere, Over, backendVars
  <2> QED BY <1>1, <1>3, <1>7, <2>2, <2>3, CrashStep DEF Ending, Crash
<1> QED BY <1>5, <1>6, <1>7 DEF Infer

\* The cut leaves room for every action of it.
LEMMA RequestedCuts ==
  ASSUME TrialTyped, Planned, observed < spec.maxObs
  PROVE  /\ Requested \in Nat /\ 1 =< Requested /\ Requested =< PlanLen(policy.kind)
         /\ observed + Requested =< spec.maxObs
         /\ Requested < PlanLen(policy.kind) => observed + Requested = spec.maxObs
<1>1. PlanLen(policy.kind) \in Nat \ {0} /\ observed \in Nat /\ spec.maxObs \in Nat
      /\ policy.plan.len = PlanLen(policy.kind)
  BY PlanLenType DEF TrialTyped, PolicyTyped, PolicyRecords, Planned
<1> QED BY <1>1 DEF Requested, ExecSteps, Smaller

\* Executing is allowed: the backend delivered and is neither closed nor done.
LEMMA ExecuteStep ==
  ASSUME BackendInv, TrialInv, Execute PROVE BackendMove /\ TrialInv'
<1>1. /\ TrialTyped /\ Phases /\ caller = "runner" /\ pc = "execute"
      /\ cycles' = cycles + 1 /\ cut' = Requested
      /\ UNCHANGED <<policy, caller, spec, observed, current, signal, failed, entries>>
  BY DEF TrialInv, Execute, At
<1>2. /\ Anywhere /\ Untroubled /\ Cycling /\ Settled /\ Planned
      /\ policy.plan.source = current.step /\ observed < spec.maxObs
      /\ ~backend.closed /\ ~spec.absence
  BY <1>1 DEF Phases, Anywhere, InTrial, Within, Cycle, Over
<1>3. MayExecute /\ ~ExecuteRefused
  BY <1>2 DEF MayExecute, ExecuteRefused, Cycling, Settled, BackendInv, Tracked
<1>4. ExecuteBegins(Requested) /\ pc' = "rows" /\ UNCHANGED outcome
  BY <1>3 DEF Execute, Goto
<1>5. /\ Requested \in Nat /\ 1 =< Requested /\ Requested =< PlanLen(policy.kind)
      /\ observed + Requested =< spec.maxObs
      /\ Requested < PlanLen(policy.kind) => observed + Requested = spec.maxObs
  BY <1>1, <1>2, RequestedCuts
<1>6. /\ rows' = Requested /\ transitions' = <<>>
      /\ UNCHANGED <<backend, simulator, records>>
  BY <1>4 DEF ExecuteBegins
<1>7. TrialTyped' /\ outcome' # "crash" /\ BackendMove
  BY <1>1, <1>2, <1>4, <1>5 DEF TrialTyped, PolicyTyped, Untroubled, BackendMove
<1>8. Anyone' /\ Anywhere'
  BY <1>1, <1>2, <1>4, <1>6 DEF Anyone, Anywhere, Before, Within, Cycle, Ending, Over,
     Untroubled
<1>9. InTrial'
  <2>1. Cycling' /\ Planned' /\ policy'.plan.source = current'.step /\ observed' < spec'.maxObs
    BY <1>1, <1>2, <1>6 DEF Cycling, OnChunk, Planned
  <2>2. CutRight'
    BY <1>1, <1>5 DEF CutRight
  <2>3. Batch' /\ Rowing'
    BY <1>1, <1>2, <1>5, <1>6 DEF Batch, Rowing, Settled, TrialTyped
  <2> QED BY <1>4, <2>1, <2>2, <2>3 DEF InTrial, Cycle
<1> QED BY <1>7, <1>8, <1>9 DEF TrialInv, Phases, CrashHasCause

\* A row adds the record and the transition of the next step.
LEMMA RunRowStep ==
  ASSUME BackendInv, TrialInv, RunRow PROVE BackendMove /\ TrialInv'
<1>1. /\ TrialTyped /\ Phases /\ caller = "runner" /\ pc = "rows"
      /\ UNCHANGED <<policy, caller, spec, observed, cycles, current, signal, cut,
                     entries>>
  BY DEF TrialInv, RunRow, At
<1>2. /\ Anywhere /\ Untroubled /\ Cycling /\ Planned /\ CutRight /\ Batch /\ Rowing
      /\ policy.plan.source = current.step /\ observed < spec.maxObs
      /\ simulator.released = 0 /\ ~backend.closed /\ ~spec.absence
  BY <1>1 DEF Phases, Anywhere, InTrial, Within, Cycle, Over
<1>3. /\ BackendTyped /\ Tracked /\ backend \in Backends
      /\ simulator \in [native : Nat, released : Nat]
      /\ rows \in Nat /\ observed \in Nat /\ transitions \in Seq(Rows) /\ records \in Seq(Records)
  BY <1>1 DEF BackendInv, BackendTyped, TrialTyped
<1>4. CASE RowReturns /\ Goto(IF rows' = 0 THEN "deliver" ELSE "rows")
           /\ UNCHANGED <<outcome, failed>>
  <2>1. PICK native \in Nat, depths \in DepthFrames, sig \in Signals :
          LET step == backend.step + 1
          IN  /\ native = backend.native + PhysicsSteps
              /\ simulator' = [simulator EXCEPT !.native = native]
              /\ backend' = [attempted |-> backend.attempted, context |-> backend.context,
                             cached |-> backend.cached, delivered |-> backend.delivered,
                             closed |-> backend.closed, terminal |-> sig # "running",
                             step |-> step, count |-> backend.count + 1,
                             native |-> native, touching |-> TouchingAfter(depths)]
              /\ transitions' = Append(transitions,
                   [step |-> step, native |-> native, signal |-> sig])
              /\ records' = Append(records, Converted(step, native, depths))
              /\ rows' = IF sig = "running" THEN rows - 1 ELSE 0
              /\ sig = "running" => backend.count + 1 < Horizon
    BY <1>3, <1>4, RowShape
  <2>2. PICK n \in Nat : n = Len(transitions)
    BY <1>3
  <2>3. /\ Len(transitions') = n + 1 /\ Len(records') = Len(records) + 1
        /\ DOMAIN transitions' = 1..(n + 1) /\ DOMAIN transitions = 1..n
        /\ \A i \in 1..n : transitions'[i] = transitions[i]
        /\ transitions'[n + 1].step = backend.step + 1
        /\ transitions'[n + 1].signal = sig
    BY <1>3, <2>1, <2>2
  <2>4. /\ backend'.delivered = backend.delivered /\ backend'.closed = backend.closed
        /\ backend'.terminal = (sig # "running") /\ backend'.step = backend.step + 1
        /\ backend'.count = backend.count + 1
        /\ simulator'.released = 0
    BY <1>2, <1>3, <2>1
  <2>5. backend.step + 1 = observed + n /\ Len(records) = observed + n
        /\ backend.step \in Nat /\ backend.count \in Nat /\ backend.count = backend.step
    BY <1>2, <1>3, <2>2 DEF Tracked, Batch, Cycling, Backends
  <2>6. TrialTyped' /\ outcome' # "crash" /\ BackendMove
    BY <1>1, <1>2, <1>4 DEF TrialTyped, PolicyTyped, Untroubled, BackendMove
  <2>7. pc' \in {"rows", "deliver"} /\ (pc' = "deliver" <=> rows' = 0)
    BY <1>4 DEF Goto
  <2>8. Anyone' /\ Anywhere'
    <3>1. observed =< Len(records')
      BY <1>3, <2>3, <2>5
    <3> QED BY <1>1, <1>2, <1>4, <2>4, <2>7, <3>1 DEF Anyone, Anywhere, Before, Within, Cycle,
               Ending, Over, Untroubled
  <2>9. Cycling' /\ Planned' /\ CutRight' /\ policy'.plan.source = current'.step
        /\ observed' < spec'.maxObs
    BY <1>1, <1>2, <2>4, <2>5 DEF Cycling, OnChunk, Planned, CutRight
  <2>10. \A i \in 1..n : transitions'[i].signal = "running"
    BY <1>2, <2>3 DEF Rowing
  <2>11. Batch'
    <3>1. \A i \in 1..n : transitions'[i].step = observed + i - 1
      BY <1>2, <2>3 DEF Batch
    <3>2. transitions'[n + 1].step = observed + (n + 1) - 1
      BY <1>3, <2>3, <2>5
    <3>3. \A i \in 1..(n + 1) : i = n + 1 \/ i \in 1..n
      OBVIOUS
    <3>4. \A i \in DOMAIN transitions' :
            /\ transitions'[i].step = observed' + i - 1
            /\ i < Len(transitions') => transitions'[i].signal = "running"
      BY <1>1, <2>3, <2>10, <3>1, <3>2, <3>3
    <3>5. Len(records') = observed' + Len(transitions')
      BY <1>1, <1>3, <2>3, <2>5
    <3> QED BY <3>4, <3>5 DEF Batch
  <2>12. /\ n + rows = cut' /\ cut' \in Nat /\ rows > 0 /\ rows \in Nat
         /\ Len(transitions') = n + 1
    BY <1>1, <1>2, <1>3, <2>2, <2>3 DEF Rowing, CutRight
  <2>13. pc' = "rows" => Rowing'
    <3> SUFFICES ASSUME pc' = "rows" PROVE Rowing'
      OBVIOUS
    <3>1. sig = "running" /\ rows' = rows - 1 /\ rows' # 0
      BY <2>1, <2>7
    <3>2. \A i \in 1..(n + 1) : i = n + 1 \/ i \in 1..n
      OBVIOUS
    <3>3. \A i \in DOMAIN transitions' : transitions'[i].signal = "running"
      BY <2>3, <2>10, <3>1, <3>2
    <3>4. rows' > 0 /\ Len(transitions') + rows' = cut'
      BY <2>12, <3>1
    <3> QED BY <2>4, <3>1, <3>3, <3>4 DEF Rowing
  <2>14. pc' = "deliver" => Complete'
    <3> SUFFICES ASSUME pc' = "deliver" PROVE Complete'
      OBVIOUS
    <3>0. rows' = IF sig = "running" THEN rows - 1 ELSE 0
      BY <2>1
    <3>1. rows' = 0 /\ Len(transitions') > 0 /\ Len(transitions') =< cut'
      BY <2>7, <2>12, <3>0
    <3>2. ASSUME sig = "running"
          PROVE  Len(transitions') = cut' /\ backend'.count < Horizon /\ ~backend'.terminal
      <4>1. rows - 1 = 0
        BY <2>7, <3>0, <3>2
      <4>2. Len(transitions') = cut'
        BY <2>12, <4>1
      <4>3. backend'.count < Horizon
        BY <2>1, <2>4, <3>2
      <4>4. ~backend'.terminal
        BY <2>4, <3>2
      <4> QED BY <4>2, <4>3, <4>4
    <3> QED BY <2>3, <3>1, <3>2 DEF Complete
  <2>15. InTrial'
    BY <2>7, <2>9, <2>11, <2>13, <2>14 DEF InTrial, Cycle
  <2> QED BY <2>6, <2>8, <2>15 DEF TrialInv, Phases, CrashHasCause
<1>5. CASE RowRaises /\ Crash /\ failed' = TRUE
  <2>1. PICK moved \in Advances, counted \in {0, 1} :
          /\ simulator' = [simulator EXCEPT !.native = @ + moved]
          /\ backend' = [backend EXCEPT !.count = @ + counted]
    BY <1>5 DEF RowRaises
  <2>2. /\ simulator'.released = 0 /\ ~backend'.closed /\ records' = records
    BY <1>2, <1>3, <1>5, <2>1 DEF Backends, RowRaises
  <2>3. observed' =< Len(records') /\ (current'.present \/ spec'.absence)
    BY <1>1, <1>2, <2>2 DEF Anywhere
  <2>4. TrialTyped' /\ BackendMove
    BY <1>1, <1>5 DEF TrialTyped, PolicyTyped, BackendMove, Crash
  <2> QED BY <1>1, <1>5, <2>2, <2>3, <2>4, CrashStep DEF Ending, Crash
<1> QED BY <1>4, <1>5 DEF RunRow

\* The batch of a row loop that ended is one the runner accepts.
LEMMA BatchAccepted ==
  ASSUME BackendTyped, Batch, Complete, CutRight PROVE BatchOK
<1>1. Len(transitions) \in Nat /\ cut \in Nat
  BY DEF BackendTyped, CutRight
<1>2. Last(transitions) = transitions[Len(transitions)]
  BY DEF Last
<1> QED BY <1>1, <1>2 DEF BatchOK, Batch, Complete

\* A cut chunk below the horizon means the budget is not a whole number of chunks.
LEMMA CutChunkUnaligned ==
  ASSUME BackendInv, TrialTyped, Cycling, CutRight, Batch, Complete,
         policy.kind = "n0", Len(transitions) # ChunkLen,
         transitions[Len(transitions)].signal = "running"
  PROVE  Unaligned
<1>1. /\ ChunkLen \in Nat \ {0} /\ Horizon \in Nat /\ observed \in Nat /\ cut \in Nat
      /\ spec.maxObs \in Nat /\ backend.step \in Nat /\ Len(transitions) \in Nat
  BY ChunkAssumption, BackendAssumption DEF TrialTyped, CutRight, BackendInv, BackendTyped,
     Backends
<1>2. PlanLen(policy.kind) = ChunkLen
  BY DEF PlanLen
<1>3. cut = Len(transitions) /\ cut < ChunkLen /\ observed + cut = spec.maxObs /\ 1 =< cut
  BY <1>1, <1>2 DEF Complete, CutRight
<1>4. PICK q \in Nat : observed = q * ChunkLen + 1
  BY DEF Cycling, OnChunk
<1>5. spec.maxObs - 1 = q * ChunkLen + cut
  <2>1. q * ChunkLen \in Nat
    BY <1>1
  <2> QED BY <1>1, <1>3, <1>4, <2>1
<1>6. (spec.maxObs - 1) % ChunkLen # 0
  <2>1. cut \in 1..(ChunkLen - 1)
    BY <1>1, <1>3
  <2>2. (q * ChunkLen + cut) % ChunkLen # 0
    BY <1>1, <2>1, ModOff
  <2> QED BY <1>5, <2>2
<1>7. backend.step < Horizon /\ backend.step + 1 = observed + cut
  BY <1>1, <1>3 DEF Complete, Cycling, Batch, BackendInv, Tracked
<1>8. spec.maxObs =< Horizon
  BY <1>1, <1>3, <1>7
<1> QED BY <1>6, <1>8 DEF Unaligned

\* An accepted batch is delivered whole; its commit brings the policy back to
\* rest, unless the budget cut a chunk or the commit itself fails.
LEMMA CommitStep ==
  ASSUME BackendInv, TrialInv, Commit PROVE BackendMove /\ TrialInv'
<1>1. /\ TrialTyped /\ Phases /\ caller = "runner" /\ pc = "deliver"
      /\ UNCHANGED <<backendVars, caller, spec, cycles, cut>>
  BY DEF TrialInv, Commit, At
<1>2. /\ Anywhere /\ Untroubled /\ Cycling /\ Planned /\ CutRight /\ Batch /\ Complete
      /\ policy.plan.source = current.step /\ simulator.released = 0 /\ ~backend.closed
      /\ ~spec.absence /\ PolicyTyped
  BY <1>1 DEF Phases, Anywhere, InTrial, Within, Cycle, Over, TrialTyped
<1>3. /\ BackendTyped /\ transitions \in Seq(Rows) /\ records \in Seq(Records)
      /\ observed \in Nat /\ entries \in Nat /\ cut \in Nat /\ spec.maxObs \in Nat
  BY <1>1, <1>2 DEF BackendInv, BackendTyped, TrialTyped, CutRight
<1>4. BackendMove
  BY <1>1 DEF BackendMove, backendVars
<1>5. Validated
  BY <1>2, <1>3, BatchAccepted DEF Commit
<1>6. PICK n \in Nat : n = Len(transitions) /\ n > 0
  BY <1>2, <1>3 DEF Complete
<1>7. PICK next \in Delivered(observed + Len(transitions) - 1) :
        LET execution == [plan |-> policy.plan, count |-> Len(transitions),
                          present |-> next.present, signal |-> signal']
        IN  /\ current' = next
            /\ \/ /\ PolicyCommits(execution)
                  /\ Goto(IF signal' = "running" THEN "loop" ELSE "close")
                  /\ outcome' = IF signal' = "running" THEN outcome ELSE signal'
                  /\ UNCHANGED failed
               \/ PolicyCommitRefused(execution) /\ Crash /\ UNCHANGED failed
               \/ N0CommitFails(execution) /\ Crash /\ failed' = TRUE
  BY <1>5 DEF Validated
<1>8. current' = [step |-> observed + n - 1, present |-> TRUE]
  BY <1>2, <1>6, <1>7 DEF Delivered, Present
<1>9. /\ observed' = observed + n /\ entries' = entries + 1
      /\ signal' = transitions[n].signal /\ signal' \in Signals
  <2>1. transitions[n] \in Rows
    BY <1>3, <1>6
  <2> QED BY <1>5, <1>6, <2>1 DEF Validated, Last, Rows
<1>10. observed' = Len(records') /\ simulator'.released = 0 /\ ~backend'.closed
       /\ current'.present /\ current' \in Observations /\ observed' \in Nat
       /\ records' = records
  BY <1>1, <1>2, <1>3, <1>6, <1>8, <1>9 DEF Batch, backendVars, Observations
<1> DEFINE e == [plan |-> policy.plan, count |-> n, present |-> TRUE, signal |-> signal']
<1>11. e \in Executions /\ e.plan = policy.plan /\ e.count = n /\ e.present
       /\ e.signal = signal'
  BY <1>2, <1>9 DEF Executions, PolicyTyped, PolicyRecords
<1>12. \/ /\ PolicyCommits(e)
          /\ pc' = IF signal' = "running" THEN "loop" ELSE "close"
          /\ outcome' = IF signal' = "running" THEN outcome ELSE signal'
          /\ failed' = failed
       \/ PolicyCommitRefused(e) /\ Crash /\ failed' = failed
       \/ N0CommitFails(e) /\ Crash /\ failed' = TRUE
  BY <1>6, <1>7, <1>8 DEF Goto
<1> HIDE DEF e
<1>13. CASE /\ PolicyCommits(e)
            /\ pc' = IF signal' = "running" THEN "loop" ELSE "close"
            /\ outcome' = IF signal' = "running" THEN outcome ELSE signal'
            /\ failed' = failed
  <2>1. /\ PolicyTyped' /\ policy'.kind = policy.kind
        /\ e.signal = "running" =>
             /\ AtRest'
             /\ policy.kind = "n0" =>
                  e.count = ChunkLen /\ policy'.next = policy.plan.source + ChunkLen
    BY <1>2, <1>11, <1>13, CommitsPolicy
  <2>2. TrialTyped' /\ outcome' # "crash"
    BY <1>1, <1>2, <1>3, <1>9, <1>10, <1>13, <2>1 DEF TrialTyped, Untroubled, Signals
  <2>3. CASE signal' # "running"
    <3>1. pc' = "close" /\ observed' =< Len(records')
      BY <1>10, <1>13, <2>3
    <3> QED BY <1>1, <1>4, <1>10, <2>2, <3>1, CrashStep DEF Ending
  <2>4. CASE signal' = "running"
    <3>1. pc' = "loop" /\ outcome' = outcome /\ AtRest'
      BY <1>11, <1>13, <2>1, <2>4
    <3>2. observed' =< Len(records')
      BY <1>10
    <3>3. Anyone' /\ Anywhere'
      BY <1>1, <1>2, <1>10, <1>13, <2>4, <3>1, <3>2 DEF Anyone, Anywhere, Before, Within, Cycle,
         Ending, Over, Untroubled
    <3>4. backend' = backend /\ rows' = 0 /\ ~backend'.terminal /\ backend'.delivered
          /\ backend'.count = backend'.step
      BY <1>1, <1>2, <1>6, <1>9, <2>4 DEF backendVars, Complete, Cycling
    <3>5. observed + n =< spec.maxObs
      BY <1>2, <1>3, <1>6 DEF Complete, CutRight
    <3>6. policy.kind = "n0" => n = ChunkLen /\ policy'.next = current.step + n
      BY <1>2, <1>11, <2>1, <2>4
    <3>7. OnChunk'
      <4> SUFFICES ASSUME policy.kind = "n0" PROVE \E q \in Nat : observed' = q * ChunkLen + 1
        BY <2>1 DEF OnChunk
      <4>1. PICK q \in Nat : observed = q * ChunkLen + 1
        BY <1>2 DEF Cycling, OnChunk
      <4>2. ChunkLen \in Nat
        BY ChunkAssumption
      <4>3. observed + ChunkLen = (q + 1) * ChunkLen + 1
        BY <4>1, <4>2
      <4> QED BY <1>9, <3>6, <4>3
    <3>8. Cycling'
      BY <1>1, <1>2, <1>3, <1>6, <1>8, <1>9, <3>4, <3>5, <3>7 DEF Cycling
    <3>9. Settled' /\ OnStep'
      BY <1>2, <1>3, <1>6, <1>8, <1>10, <2>1, <3>4, <3>6 DEF Settled, OnStep, Cycling
    <3>10. InTrial'
      BY <3>1, <3>8, <3>9 DEF InTrial, Cycle
    <3> QED BY <1>4, <2>2, <3>3, <3>10 DEF TrialInv, Phases, CrashHasCause
  <2> QED BY <2>3, <2>4
<1>14. CASE PolicyCommitRefused(e) /\ Crash /\ failed' = failed
  <2>1. /\ PolicyTyped' /\ policy' = policy
        /\ policy.kind = "n0" /\ e.signal = "running" /\ e.count # ChunkLen
    BY <1>2, <1>11, <1>14, RefusedCommit
  <2>2. Unaligned
    BY <1>1, <1>2, <1>6, <1>9, <1>11, <2>1, CutChunkUnaligned
  <2>3. Unaligned' /\ policy'.kind = "n0"
    BY <1>1, <2>1, <2>2 DEF Unaligned
  <2>4. TrialTyped'
    BY <1>1, <1>3, <1>9, <1>10, <1>14, <2>1 DEF TrialTyped, Crash
  <2>5. observed' =< Len(records') /\ pc' = "abort"
    BY <1>10, <1>14 DEF Crash
  <2> QED BY <1>1, <1>4, <1>10, <2>3, <2>4, <2>5, CrashStep DEF Ending
<1>15. CASE N0CommitFails(e) /\ Crash /\ failed' = TRUE
  <2>1. PolicyTyped' /\ policy'.kind = policy.kind
    BY <1>2, <1>15, CommitFailsPolicy
  <2>2. TrialTyped'
    BY <1>1, <1>3, <1>9, <1>10, <1>15, <2>1 DEF TrialTyped, Crash
  <2>3. observed' =< Len(records') /\ pc' = "abort" /\ failed'
    BY <1>10, <1>15 DEF Crash
  <2> QED BY <1>1, <1>4, <1>10, <2>2, <2>3, CrashStep DEF Ending
<1> QED BY <1>12, <1>13, <1>14, <1>15

\* The policy is aborted; the outcome stays.
LEMMA AbortPolicyStep ==
  ASSUME BackendInv, TrialInv, AbortPolicy PROVE BackendMove /\ TrialInv'
<1>1. /\ TrialTyped /\ Phases /\ caller = "runner" /\ pc = "abort" /\ pc' = "close"
      /\ PolicyAborts
      /\ UNCHANGED <<backendVars, caller, spec, observed, cycles, current, signal, cut,
                     outcome, failed, entries>>
  BY DEF TrialInv, AbortPolicy, At, Goto
<1>2. Anywhere
  BY <1>1 DEF Phases
<1>3. PolicyTyped' /\ policy'.kind = policy.kind
  BY <1>1, AbortsPolicy DEF TrialTyped
<1>4. TrialTyped' /\ BackendMove
  BY <1>1, <1>3 DEF TrialTyped, BackendMove, backendVars
<1>5. /\ observed' =< Len(records') /\ (current'.present \/ spec'.absence)
      /\ simulator'.released = 0 /\ ~backend'.closed
  BY <1>1, <1>2 DEF Anywhere, Over, backendVars
<1>6. failed' \/ outcome' # "crash" \/ (policy'.kind = "n0" /\ Unaligned')
  BY <1>1, <1>3 DEF TrialInv, CrashHasCause, Unaligned
<1> QED BY <1>1, <1>4, <1>5, <1>6, CrashStep DEF Ending

\* Closing releases the simulator, whether the policy lets itself be closed or not.
LEMMA CloseStep ==
  ASSUME BackendInv, TrialInv, Close PROVE BackendMove /\ TrialInv'
<1>1. /\ TrialTyped /\ Phases /\ caller = "runner" /\ pc = "close" /\ BackendCloses
      /\ UNCHANGED <<caller, spec, observed, cycles, current, signal, cut, entries>>
  BY DEF TrialInv, Close, At
<1>2. Anywhere /\ simulator.released = 0 /\ ~backend.closed /\ PolicyTyped
      /\ simulator \in [native : Nat, released : Nat]
  BY <1>1 DEF Phases, Anywhere, Ending, Over, TrialTyped, BackendInv, BackendTyped
<1>3. simulator'.released = 1 /\ records' = records /\ BackendMove
  BY <1>1, <1>2 DEF BackendCloses, BackendMove
<1>4. observed' =< Len(records') /\ (current'.present \/ spec'.absence)
  BY <1>1, <1>2, <1>3 DEF Anywhere
<1>5. /\ PolicyTyped' /\ policy'.kind = policy.kind /\ pc' \in Over
      /\ pc' = "done" => LetGo'
      /\ \/ UNCHANGED <<outcome, failed>>
         \/ outcome' = AfterFailedClose /\ failed' = TRUE
  <2>1. CASE PolicyCloses /\ pc' = "done"
    <3>1. PolicyTyped' /\ policy'.kind = policy.kind /\ LetGo'
      BY <1>2, <2>1, ClosesPolicy
    <3> QED BY <2>1, <3>1 DEF Close, Over
  <2>2. CASE UNCHANGED policy /\ pc' = "open_policy"
    BY <1>2, <2>2 DEF Close, Over, PolicyTyped
  <2> QED BY <2>1, <2>2 DEF Close, Goto
<1>6. TrialTyped'
  BY <1>1, <1>5 DEF TrialTyped, AfterFailedClose
<1>7. CrashHasCause'
  BY <1>1, <1>5 DEF TrialInv, CrashHasCause, Unaligned
<1>8. Anyone' /\ Anywhere' /\ InTrial'
  BY <1>1, <1>3, <1>4, <1>5 DEF Anyone, Anywhere, InTrial, Before, Within, Cycle, Ending, Over
<1> QED BY <1>3, <1>6, <1>7, <1>8 DEF TrialInv, Phases

\* Whoever else calls the backend moves nothing of a trial.
LEMMA CallBackendStep ==
  ASSUME BackendInv, TrialInv, CallBackend PROVE BackendMove /\ TrialInv'
<1>1. caller = "anyone" /\ UNCHANGED <<policy, trialVars>>
  BY DEF CallBackend
<1>2. BackendMove
  <2>1. CASE \E n \in 1..ChunkLen : ExecuteBegins(n)
    BY <2>1, ChunkAssumption DEF BackendMove
  <2>2. CASE (\E matches \in BOOLEAN : ResetRefused(matches))
             \/ ObserveRefused \/ ExecuteRefused
    BY <2>2 DEF BackendMove, ResetRefused, ObserveRefused, ExecuteRefused
  <2>3. CASE ResetReturns \/ ResetFails \/ ObserveReturns \/ BackendCloses
             \/ RowReturns \/ RowRaises
    BY <2>3 DEF BackendMove
  <2> QED BY <2>1, <2>2, <2>3 DEF CallBackend
<1>3. TrialTyped' /\ CrashHasCause'
  BY <1>1 DEF TrialInv, TrialTyped, PolicyTyped, CrashHasCause, Unaligned, trialVars
<1>4. Phases'
  BY <1>1 DEF TrialInv, Phases, Anyone, trialVars
<1> QED BY <1>2, <1>3, <1>4 DEF TrialInv

\* Every step of a trial is one the backend may take and keeps the invariant.
LEMMA TrialStepKept ==
  ASSUME BackendInv, TrialInv, Next PROVE BackendInv' /\ TrialInv'
<1>1. BackendMove /\ TrialInv'
  BY PreflightStep, ResetBackendStep, ResetPolicyStep, ObserveStep, BudgetEndsStep, InferStep,
     ExecuteStep, RunRowStep, CommitStep, AbortPolicyStep, CloseStep, CallBackendStep DEF Next
<1> QED BY <1>1, BackendKept

-----------------------------------------------------------------------------
(* The qualification of a policy.                                        *)

Stages == {"off", "sources", "protocol", "absence", "trial", "qualified", "refused"}

CallNames == {"reset", "infer", "commit", "prepare_commit", "finalize_commit"}

Qualifications ==
  [stage : Stages, kind : {"strict_act", "n0"},
   identity : [tactile : BOOLEAN, absence : BOOLEAN], drift : SUBSET SourceSets,
   calls : Seq(CallNames), prepared : {0, 1}, committed : Nat,
   left : SUBSET {"A1", "A2"}, effects : {FALSE}]

NotDrifted(q) == Reviewed(q.kind) \cap q.drift = {}
AllCalled(q)  == q.calls = Calls(q.kind)

\* The calls made so far are the first ones of the protocol, and not all.
Begun(q) ==
  /\ Len(q.calls) < Len(Calls(q.kind))
  /\ \A i \in DOMAIN q.calls : q.calls[i] = Calls(q.kind)[i]

\* What a stage says of the stages before it.
QualPhases ==
  /\ Stage("off") => pc # "idle"
  /\ ~Stage("off") =>
       caller = "runner" /\ spec = AbsenceSpec /\ policy.kind = qualification.kind
  /\ qualification.stage \in {"sources", "protocol"} =>
       pc = "idle" /\ Begun(qualification)
  /\ qualification.stage \in {"protocol", "absence", "trial"} => NotDrifted(qualification)
  /\ qualification.stage \in {"absence", "trial"} => AllCalled(qualification)
  /\ qualification.stage \in {"absence", "qualified", "refused"} => pc \in {"idle"} \cup Over

\* An absence trial touches neither the backend nor the policy's server, and
\* ends refused even when a teardown fails.
Untouching ==
  Stage("trial") =>
    /\ qualification.identity = Capable
    /\ pc \in {"preflight", "close"} \cup Over
    /\ ~backend.attempted /\ policy.client = "none"
    /\ pc # "preflight" => outcome = "unsupported_contract"

QualInv ==
  /\ qualification \in Qualifications
  /\ QualPhases /\ Untouching /\ QualificationDecides

-----------------------------------------------------------------------------
\* A protocol has three or four calls.
LEMMA CallsType ==
  ASSUME NEW kind \in {"strict_act", "n0"}
  PROVE  Calls(kind) \in Seq(CallNames) /\ Len(Calls(kind)) > 0
<1>1. ACTCalls \in Seq(CallNames) /\ Len(ACTCalls) > 0
  BY DEF ACTCalls, CallNames
<1>2. N0Calls \in Seq(CallNames) /\ Len(N0Calls) > 0
  BY DEF N0Calls, CallNames
<1> QED BY <1>1, <1>2 DEF Calls

\* One more call is the next one of the protocol; with the last one it is whole.
LEMMA CalledFields ==
  ASSUME qualification \in Qualifications, Begun(qualification), NEW q, q = Called
  PROVE  /\ q \in Qualifications
         /\ q.kind = qualification.kind /\ q.identity = qualification.identity
         /\ q.drift = qualification.drift
         /\ q.prepared = qualification.prepared /\ q.committed = qualification.committed
         /\ q.stage \in {"protocol", "absence"}
         /\ q.stage = "protocol" => Begun(q)
         /\ q.stage = "absence" => AllCalled(q)
<1> DEFINE all   == Calls(qualification.kind)
           done  == qualification.calls
           calls == Append(done, NextCall)
           stage == IF calls = all THEN "absence" ELSE "protocol"
<1>1. all \in Seq(CallNames) /\ done \in Seq(CallNames)
  BY CallsType DEF Qualifications
<1>2. PICK n \in Nat : n = Len(done)
  BY <1>1
<1>3. /\ n < Len(all) /\ NextCall = all[n + 1]
      /\ \A i \in 1..n : done[i] = all[i]
  BY <1>1, <1>2 DEF Begun, NextCall
<1>4. NextCall \in CallNames
  BY <1>1, <1>2, <1>3
<1>5. q = [qualification EXCEPT !.calls = calls, !.stage = stage]
  BY DEF Called
<1>6. /\ calls \in Seq(CallNames) /\ Len(calls) = n + 1 /\ DOMAIN calls = 1..(n + 1)
      /\ \A i \in 1..(n + 1) : calls[i] = all[i]
  <2>1. /\ calls \in Seq(CallNames) /\ Len(calls) = n + 1 /\ DOMAIN calls = 1..(n + 1)
        /\ calls[n + 1] = all[n + 1]
        /\ \A i \in 1..n : calls[i] = done[i]
    BY <1>1, <1>2, <1>3, <1>4
  <2>2. \A i \in 1..(n + 1) : i = n + 1 \/ i \in 1..n
    OBVIOUS
  <2> QED BY <1>3, <2>1, <2>2
<1> HIDE DEF all, done, calls
<1>7. stage = "protocol" => n + 1 < Len(all)
  <2> SUFFICES ASSUME ~(n + 1 < Len(all)) PROVE calls = all
    OBVIOUS
  <2>1. Len(all) = n + 1
    BY <1>1, <1>3
  <2> QED BY <1>1, <1>6, <2>1
<1>8. /\ q \in Qualifications /\ q.calls = calls /\ q.stage = stage
      /\ q.kind = qualification.kind /\ q.identity = qualification.identity
      /\ q.drift = qualification.drift
      /\ q.prepared = qualification.prepared /\ q.committed = qualification.committed
  BY <1>5, <1>6 DEF Qualifications, Stages
<1>9. q.stage = "protocol" => Begun(q)
  BY <1>6, <1>7, <1>8 DEF Begun, all
<1>10. q.stage = "absence" => AllCalled(q)
  BY <1>8 DEF AllCalled, all
<1> QED BY <1>8, <1>9, <1>10

\* Where the trial does not move, its invariant stays.
LEMMA SameTrial ==
  ASSUME BackendInv, TrialInv, UNCHANGED vars PROVE BackendInv' /\ TrialInv'
<1>1. UNCHANGED backendVars /\ UNCHANGED <<policy, trialVars>>
  BY DEF vars
<1>2. BackendInv'
  BY <1>1, BackendKept DEF BackendMove
<1>3. TrialTyped' /\ CrashHasCause'
  BY <1>1 DEF TrialInv, TrialTyped, PolicyTyped, CrashHasCause, Unaligned, trialVars
<1>4. Anyone' /\ (Anywhere <=> Anywhere')
  BY <1>1 DEF TrialInv, Phases, Anyone, Anywhere, Untroubled, LetGo, BackendInit, trialVars,
     backendVars
<1>5. InTrial <=> InTrial'
  <2>1. /\ FirstRecord <=> FirstRecord'
        /\ AtRest /\ OnStep <=> AtRest' /\ OnStep'
        /\ Cycling <=> Cycling'
        /\ Settled <=> Settled'
        /\ Planned <=> Planned'
        /\ CutRight <=> CutRight'
        /\ Batch <=> Batch'
        /\ Rowing <=> Rowing'
        /\ Complete <=> Complete'
    BY <1>1 DEF FirstRecord, AtRest, OnStep, Cycling, OnChunk, Settled, Planned, CutRight,
       Batch, Rowing, Complete, trialVars, backendVars
  <2> QED BY <1>1, <2>1 DEF InTrial, trialVars
<1>6. Phases'
  BY <1>1, <1>4, <1>5 DEF TrialInv, Phases, trialVars
<1> QED BY <1>2, <1>3, <1>6 DEF TrialInv

\* While the protocol runs, the trial has not begun and may hold any policy.
LEMMA PolicyWhileIdle ==
  ASSUME BackendInv, TrialInv, pc = "idle", caller = "runner", PolicyTyped',
         policy'.kind = policy.kind, UNCHANGED <<backendVars, trialVars>>
  PROVE  BackendInv' /\ TrialInv'
<1>1. BackendInv'
  BY BackendKept DEF BackendMove
<1>2. /\ pc' = "idle" /\ caller' = "runner" /\ observed' = observed /\ spec' = spec
      /\ current' = current /\ UNCHANGED <<outcome, failed, signal>>
      /\ UNCHANGED <<backend, simulator, rows, transitions, records>>
  BY DEF trialVars, backendVars
<1>3. TrialTyped' /\ CrashHasCause'
  BY <1>2 DEF TrialInv, TrialTyped, CrashHasCause, Unaligned, trialVars
<1>4. Anywhere
  BY DEF TrialInv, Phases
<1>5. Anyone' /\ Anywhere' /\ InTrial'
  BY <1>2, <1>4 DEF Anyone, Anywhere, InTrial, Before, Within, Cycle, Ending, Over, Untroubled,
     BackendInit
<1> QED BY <1>1, <1>3, <1>5 DEF TrialInv, Phases

\* A fresh trial is one at its preflight.
LEMMA FreshTrial ==
  ASSUME BackendInv, TrialInv, StartAbsence, QualInv, qualification.identity = Capable
  PROVE  BackendInv' /\ TrialInv'
<1>1. /\ BackendInit' /\ policy' = NewPolicy(qualification.kind)
      /\ pc' = "preflight" /\ outcome' = "none"
      /\ observed' = 0 /\ cycles' = 0 /\ signal' = "running" /\ cut' = 0 /\ entries' = 0
      /\ current' = [step |-> 0, present |-> TRUE]
      /\ failed' = FALSE /\ UNCHANGED <<caller, spec>>
  BY DEF StartAbsence, BackendInit
<1>2. caller = "runner" /\ qualification.kind \in {"strict_act", "n0"}
  BY DEF StartAbsence, Stage, QualInv, QualPhases, Qualifications
<1>3. BackendInv'
  BY <1>1, BackendKept DEF BackendMove
<1>4. PolicyTyped'
  BY <1>1, <1>2 DEF PolicyTyped, PolicyRecords, NewPolicy, NoPlan, Kinds
<1>5. TrialTyped' /\ CrashHasCause'
  BY <1>1, <1>2, <1>4 DEF TrialInv, TrialTyped, CrashHasCause, Observations, Signals
<1>6. /\ records' = <<>> /\ simulator'.released = 0 /\ ~backend'.closed
      /\ policy' = NewPolicy(policy'.kind)
  BY <1>1 DEF BackendInit, NewBackend, NewSimulator, NewPolicy
<1>7. Anyone' /\ Anywhere' /\ InTrial'
  BY <1>1, <1>2, <1>6 DEF Anyone, Anywhere, InTrial, Before, Within, Cycle, Ending, Over,
     Untroubled
<1> QED BY <1>3, <1>5, <1>7 DEF TrialInv, Phases

-----------------------------------------------------------------------------
(* Every step of a qualification.                                          *)

\* Reviewed sources that drifted refuse it.
LEMMA CollectSourcesStep ==
  ASSUME BackendInv, TrialInv, QualInv, CollectSources
  PROVE  BackendInv' /\ TrialInv' /\ QualInv'
<1>1. BackendInv' /\ TrialInv'
  BY SameTrial DEF CollectSources
<1>2. /\ Stage("sources") /\ pc = "idle" /\ caller = "runner" /\ spec = AbsenceSpec
      /\ policy.kind = qualification.kind
      /\ Begun(qualification) /\ qualification \in Qualifications
      /\ UNCHANGED <<pc, caller, spec, policy, failed>>
  BY DEF CollectSources, Stage, QualInv, QualPhases, vars, trialVars
<1>3. ~failed
  BY <1>2 DEF TrialInv, Phases, Anywhere, Before, Untroubled
<1>4. PICK stage \in {"protocol", "refused"} :
        /\ qualification' = [qualification EXCEPT !.stage = stage]
        /\ stage = IF NotDrifted(qualification) THEN "protocol" ELSE "refused"
  BY DEF CollectSources, NotDrifted
<1>5. /\ qualification' \in Qualifications /\ qualification'.stage = stage
      /\ qualification'.kind = qualification.kind
      /\ NotDrifted(qualification') <=> NotDrifted(qualification)
      /\ Begun(qualification')
  BY <1>2, <1>4 DEF Qualifications, Stages, NotDrifted, Begun
<1>6. QualPhases' /\ Untouching'
  BY <1>2, <1>4, <1>5 DEF QualPhases, Untouching, Stage, AbsenceSpec
<1>7. QualificationDecides'
  BY <1>4, <1>5 DEF QualificationDecides, NotDrifted
<1> QED BY <1>1, <1>5, <1>6, <1>7 DEF QualInv

\* The protocol's calls move the policy and nothing else of the trial.
LEMMA ACTProtocolStep ==
  ASSUME BackendInv, TrialInv, QualInv, ACTProtocol
  PROVE  BackendInv' /\ TrialInv' /\ QualInv'
<1>1. /\ Stage("protocol") /\ pc = "idle" /\ caller = "runner" /\ spec = AbsenceSpec
      /\ policy.kind = qualification.kind
      /\ Begun(qualification) /\ qualification \in Qualifications
      /\ NotDrifted(qualification) /\ PolicyTyped
      /\ UNCHANGED <<backendVars, trialVars>> /\ UNCHANGED <<pc, caller, spec, failed>>
      /\ qualification.kind = "strict_act"
  BY DEF ACTProtocol, Stage, QualInv, QualPhases, TrialInv, TrialTyped, trialVars
<1>2. ~failed
  BY <1>1 DEF TrialInv, Phases, Anywhere, Before, Untroubled
<1>3. PolicyTyped' /\ policy'.kind = policy.kind
  <2>1. CASE UNCHANGED policy
    BY <1>1, <2>1 DEF PolicyTyped
  <2>2. CASE ACTReset
    BY <1>1, <2>2 DEF ACTReset, PolicyTyped, PolicyRecords, NoPlan
  <2>3. CASE \E o \in Observations : ACTInfer(o)
    <3>1. PICK o \in Observations : ACTInfer(o)
      BY <2>3
    <3>2. /\ policy.kind # "n0" /\ policy \in PolicyRecords /\ o.step \in Nat
          /\ policy' = [policy EXCEPT !.state = "awaiting_commit",
                          !.plan = [source |-> o.step, len |-> 1]]
      BY <1>1, <3>1 DEF ACTInfer, ACTKinds, PolicyTyped, Observations
    <3> QED BY <1>1, <3>2 DEF PolicyTyped, PolicyRecords
  <2>4. CASE \E e : ACTCommit(e)
    <3>1. /\ policy.kind # "n0" /\ policy \in PolicyRecords
          /\ policy' = [policy EXCEPT !.state = "ready", !.plan = NoPlan]
      BY <1>1, <2>4 DEF ACTCommit, ACTKinds, PolicyTyped
    <3> QED BY <1>1, <3>1 DEF PolicyTyped, PolicyRecords, NoPlan
  <2>5. [step |-> 0, present |-> TRUE] \in Observations
    BY DEF Observations
  <2> QED BY <2>1, <2>2, <2>3, <2>4, <2>5 DEF ACTProtocol
<1>4. BackendInv' /\ TrialInv'
  BY <1>1, <1>3, PolicyWhileIdle
<1>5. CASE qualification' = [qualification EXCEPT !.stage = "refused"]
           /\ qualification.identity # Capable
  <2>1. /\ qualification' \in Qualifications /\ qualification'.stage = "refused"
        /\ qualification'.kind = qualification.kind
        /\ qualification'.identity = qualification.identity
    BY <1>1, <1>5 DEF Qualifications, Stages
  <2>2. QualPhases' /\ Untouching' /\ QualificationDecides'
    BY <1>1, <1>3, <1>5, <2>1 DEF QualPhases, Untouching, QualificationDecides, Stage,
       AbsenceSpec
  <2> QED BY <1>4, <2>1, <2>2 DEF QualInv
<1>6. CASE qualification' = Called
  <2>1. /\ qualification' \in Qualifications
        /\ qualification'.kind = qualification.kind
        /\ qualification'.drift = qualification.drift
        /\ qualification'.stage \in {"protocol", "absence"}
        /\ qualification'.stage = "protocol" => Begun(qualification')
        /\ qualification'.stage = "absence" => AllCalled(qualification')
    BY <1>1, <1>6, CalledFields
  <2>2. NotDrifted(qualification')
    BY <1>1, <2>1 DEF NotDrifted
  <2>3. QualPhases'
    BY <1>1, <1>2, <1>3, <2>1, <2>2 DEF QualPhases, Stage, AbsenceSpec
  <2>4. Untouching' /\ QualificationDecides'
    BY <2>1 DEF Untouching, QualificationDecides, Stage
  <2> QED BY <1>4, <2>1, <2>3, <2>4 DEF QualInv
<1> QED BY <1>5, <1>6 DEF ACTProtocol

\* A gateway that raises refuses it with calls missing.
LEMMA N0ProtocolStep ==
  ASSUME BackendInv, TrialInv, QualInv, N0Protocol
  PROVE  BackendInv' /\ TrialInv' /\ QualInv'
<1>1. /\ Stage("protocol") /\ pc = "idle" /\ caller = "runner" /\ spec = AbsenceSpec
      /\ policy.kind = qualification.kind
      /\ Begun(qualification) /\ qualification \in Qualifications
      /\ NotDrifted(qualification) /\ UNCHANGED vars
      /\ UNCHANGED <<pc, caller, spec, failed, policy>>
  BY DEF N0Protocol, Stage, QualInv, QualPhases, vars, trialVars
<1>2. ~failed
  BY <1>1 DEF TrialInv, Phases, Anywhere, Before, Untroubled
<1>3. BackendInv' /\ TrialInv'
  BY <1>1, SameTrial
<1>4. CASE qualification' = [qualification EXCEPT !.stage = "refused"]
  <2>1. /\ qualification' \in Qualifications /\ qualification'.stage = "refused"
        /\ qualification'.kind = qualification.kind
        /\ qualification'.calls = qualification.calls
    BY <1>1, <1>4 DEF Qualifications, Stages
  <2>2. qualification.calls # Calls(qualification.kind)
    <3>1. Len(qualification.calls) \in Nat /\ Len(Calls(qualification.kind)) \in Nat
      BY <1>1, CallsType DEF Qualifications
    <3> QED BY <1>1, <3>1 DEF Begun
  <2>3. QualPhases' /\ Untouching' /\ QualificationDecides'
    BY <1>1, <2>1, <2>2 DEF QualPhases, Untouching, QualificationDecides, Stage, AbsenceSpec
  <2> QED BY <1>3, <2>1, <2>3 DEF QualInv
<1>5. CASE \E c, p \in {0, 1} :
             qualification' = [Called EXCEPT !.committed = @ + c,
               !.prepared = IF NextCall = "prepare_commit" THEN p ELSE @]
  <2>1. PICK c, p \in {0, 1} :
          qualification' = [Called EXCEPT !.committed = @ + c,
            !.prepared = IF NextCall = "prepare_commit" THEN p ELSE @]
    BY <1>5
  <2>2. PICK q : q = Called
    OBVIOUS
  <2>3. /\ q \in Qualifications /\ q.kind = qualification.kind /\ q.drift = qualification.drift
        /\ q.stage \in {"protocol", "absence"}
        /\ q.stage = "protocol" => Begun(q)
        /\ q.stage = "absence" => AllCalled(q)
    BY <1>1, <2>2, CalledFields
  <2>4. PICK prepared \in {0, 1}, committed \in Nat :
          qualification' = [q EXCEPT !.committed = committed, !.prepared = prepared]
    <3>1. q.committed + c \in Nat /\ q.prepared \in {0, 1}
      BY <2>3 DEF Qualifications
    <3> QED BY <2>1, <2>2, <3>1
  <2>5. /\ qualification' \in Qualifications /\ qualification'.kind = q.kind
        /\ qualification'.drift = q.drift /\ qualification'.stage = q.stage
        /\ qualification'.calls = q.calls
    BY <2>3, <2>4 DEF Qualifications
  <2>6. /\ NotDrifted(qualification')
        /\ qualification'.stage = "protocol" => Begun(qualification')
        /\ qualification'.stage = "absence" => AllCalled(qualification')
    BY <1>1, <2>3, <2>5 DEF NotDrifted, Begun, AllCalled
  <2>7. QualPhases'
    BY <1>1, <1>2, <2>3, <2>5, <2>6 DEF QualPhases, Stage, AbsenceSpec
  <2>8. Untouching' /\ QualificationDecides'
    BY <2>3, <2>5 DEF Untouching, QualificationDecides, Stage
  <2> QED BY <1>3, <2>5, <2>7, <2>8 DEF QualInv
<1>6. \/ qualification' = [qualification EXCEPT !.stage = "refused"]
      \/ \E c, p \in {0, 1} :
           qualification' = [Called EXCEPT !.committed = @ + c,
             !.prepared = IF NextCall = "prepare_commit" THEN p ELSE @]
  BY DEF N0Protocol
<1> QED BY <1>4, <1>5, <1>6

\* An absence trial of a capable policy starts afresh; another is refused.
LEMMA StartAbsenceStep ==
  ASSUME BackendInv, TrialInv, QualInv, StartAbsence
  PROVE  BackendInv' /\ TrialInv' /\ QualInv'
<1>1. /\ Stage("absence") /\ caller = "runner" /\ spec = AbsenceSpec
      /\ policy.kind = qualification.kind /\ qualification \in Qualifications
      /\ NotDrifted(qualification) /\ AllCalled(qualification)
      /\ pc \in {"idle"} \cup Over
  BY DEF StartAbsence, Stage, QualInv, QualPhases
<1>2. CASE qualification.identity = Capable
  <2>1. BackendInv' /\ TrialInv'
    BY <1>2, FreshTrial
  <2>2. /\ UNCHANGED <<caller, spec>> /\ pc' = "preflight" /\ ~backend'.attempted
        /\ policy'.kind = qualification.kind /\ policy'.client = "none"
    <3>1. /\ UNCHANGED <<caller, spec>> /\ pc' = "preflight"
          /\ backend' = NewBackend /\ policy' = NewPolicy(qualification.kind)
      BY <1>2 DEF StartAbsence
    <3> QED BY <3>1 DEF NewBackend, NewPolicy
  <2>3. PICK operator \in qualification.left :
          qualification' = [qualification EXCEPT !.stage = "trial", !.left = @ \ {operator}]
    BY <1>2 DEF StartAbsence
  <2>4. /\ qualification' \in Qualifications /\ qualification'.stage = "trial"
        /\ qualification'.kind = qualification.kind
        /\ qualification'.identity = qualification.identity
        /\ qualification'.drift = qualification.drift
        /\ qualification'.calls = qualification.calls
    BY <1>1, <2>3 DEF Qualifications, Stages
  <2>5. QualPhases'
    BY <1>1, <2>2, <2>4 DEF QualPhases, Stage, NotDrifted, AllCalled, AbsenceSpec
  <2>6. Untouching' /\ QualificationDecides'
    BY <1>2, <2>2, <2>4 DEF Untouching, QualificationDecides, Stage, Over
  <2> QED BY <2>1, <2>4, <2>5, <2>6 DEF QualInv
<1>3. CASE qualification.identity # Capable
  <2>1. qualification' = [qualification EXCEPT !.stage = "refused"] /\ UNCHANGED vars
    BY <1>3 DEF StartAbsence
  <2>2. /\ qualification' \in Qualifications /\ qualification'.stage = "refused"
        /\ qualification'.kind = qualification.kind
        /\ qualification'.identity = qualification.identity
    BY <1>1, <2>1 DEF Qualifications, Stages
  <2>3. QualPhases' /\ Untouching' /\ QualificationDecides'
    BY <1>1, <1>3, <2>1, <2>2 DEF QualPhases, Untouching, QualificationDecides, Stage,
       AbsenceSpec, vars, trialVars
  <2> QED BY <2>1, <2>2, <2>3, SameTrial DEF QualInv
<1> QED BY <1>2, <1>3

\* The verdict on an absence trial.
LEMMA JudgeAbsenceStep ==
  ASSUME BackendInv, TrialInv, QualInv, JudgeAbsence
  PROVE  BackendInv' /\ TrialInv' /\ QualInv'
<1>1. /\ Stage("trial") /\ caller = "runner" /\ spec = AbsenceSpec
      /\ policy.kind = qualification.kind /\ qualification \in Qualifications
      /\ NotDrifted(qualification) /\ AllCalled(qualification)
      /\ qualification.identity = Capable /\ pc \in Over
      /\ ~backend.attempted /\ policy.client = "none"
      /\ outcome = "unsupported_contract"
  BY DEF JudgeAbsence, Stage, QualInv, QualPhases, Untouching, Over
<1>2. /\ UNCHANGED vars /\ UNCHANGED <<caller, spec, pc, policy>>
  BY DEF JudgeAbsence, vars, trialVars
<1>3. PICK stage \in {"refused", "absence", "qualified"} :
        /\ qualification' = [qualification EXCEPT !.stage = stage]
        /\ stage = IF qualification.left # {} THEN "absence"
                   ELSE IF Qualified THEN "qualified" ELSE "refused"
  <2>1. ~qualification.effects
    BY <1>1 DEF Qualifications
  <2> QED BY <1>1, <2>1 DEF JudgeAbsence
<1>4. /\ qualification' \in Qualifications /\ qualification'.stage = stage
      /\ qualification'.kind = qualification.kind
      /\ qualification'.identity = qualification.identity
      /\ qualification'.drift = qualification.drift
      /\ qualification'.calls = qualification.calls
      /\ qualification'.prepared = qualification.prepared
      /\ qualification'.committed = qualification.committed
  BY <1>1, <1>3 DEF Qualifications, Stages
<1>5. QualPhases' /\ Untouching'
  BY <1>1, <1>2, <1>3, <1>4 DEF QualPhases, Untouching, Stage, NotDrifted, AllCalled, AbsenceSpec
<1>6. QualificationDecides'
  BY <1>1, <1>2, <1>3, <1>4 DEF QualificationDecides, Qualified, NotDrifted, AllCalled,
     Qualifications
<1> QED BY <1>2, <1>4, <1>5, <1>6, SameTrial DEF QualInv

\* A run of its own is never qualified.
LEMMA OwnTrialStep ==
  ASSUME BackendInv, TrialInv, QualInv, TrialStep, Stage("off")
  PROVE  BackendInv' /\ TrialInv' /\ QualInv'
<1>1. Next /\ pc # "idle" /\ qualification \in Qualifications /\ qualification.stage = "off"
  BY DEF TrialStep, QualInv, QualPhases, Stage
<1>2. qualification' \in Qualifications /\ qualification'.stage = "off"
  BY <1>1 DEF TrialStep, Qualifications, Stages, Stage
<1>3. pc' # "idle"
  BY <1>1 DEF Next, Preflight, ResetBackend, ResetPolicy, Observe, BudgetEnds, Infer, Execute,
     RunRow, Commit, Validated, AbortPolicy, Close, CallBackend, Goto, Crash, trialVars
<1>4. QualPhases' /\ Untouching' /\ QualificationDecides'
  BY <1>2, <1>3 DEF QualPhases, Untouching, QualificationDecides, Stage
<1> QED BY <1>1, <1>2, <1>4, TrialStepKept DEF QualInv

\* An absence trial is refused at its preflight and closed.
LEMMA AbsenceTrialStep ==
  ASSUME BackendInv, TrialInv, QualInv, TrialStep, Stage("trial")
  PROVE  BackendInv' /\ TrialInv' /\ QualInv'
<1>1. /\ Next /\ caller = "runner" /\ spec = AbsenceSpec
      /\ policy.kind = qualification.kind /\ qualification \in Qualifications
      /\ NotDrifted(qualification) /\ AllCalled(qualification)
      /\ qualification.stage = "trial" /\ qualification.identity = Capable
      /\ pc \in {"preflight", "close"} \cup Over
      /\ ~backend.attempted /\ policy.client = "none"
      /\ pc # "preflight" => outcome = "unsupported_contract"
  BY DEF TrialStep, Stage, QualInv, QualPhases, Untouching
<1>2. BackendInv' /\ TrialInv'
  BY <1>1, TrialStepKept
<1>3. /\ (pc = "preflight" /\ Preflight) \/ (pc = "close" /\ Close)
  BY <1>1 DEF Next, Preflight, ResetBackend, ResetPolicy, Observe, BudgetEnds, Infer, Execute,
     RunRow, Commit, AbortPolicy, Close, CallBackend, At, Over
<1>4. /\ qualification' \in Qualifications /\ qualification'.stage = "trial"
      /\ qualification'.kind = qualification.kind
      /\ qualification'.identity = qualification.identity
      /\ qualification'.drift = qualification.drift
      /\ qualification'.calls = qualification.calls
  BY <1>1, <1>3 DEF TrialStep, Qualifications, Stages, Stage
<1>5. /\ spec.absence /\ ConsumesTactile(policy.kind) /\ ~SupportsAbsence(policy.kind)
  BY <1>1 DEF AbsenceSpec, ConsumesTactile, SupportsAbsence, Qualifications
<1>6. /\ UNCHANGED <<caller, spec>> /\ ~backend'.attempted /\ policy'.client = "none"
      /\ policy'.kind = policy.kind
      /\ pc' \in {"close"} \cup Over
      /\ outcome' = "unsupported_contract"
  <2>1. CASE pc = "preflight" /\ Preflight
    BY <1>1, <1>5, <2>1 DEF Preflight, Goto, backendVars, Over
  <2>2. CASE pc = "close" /\ Close
    <3>1. /\ UNCHANGED <<caller, spec>> /\ BackendCloses
          /\ UNCHANGED policy \/ PolicyCloses
          /\ pc' \in Over /\ outcome' \in {outcome, AfterFailedClose}
      BY <2>2 DEF Close, Goto, Over
    <3>2. backend'.attempted = backend.attempted
      BY <3>1, <1>2 DEF BackendCloses, BackendInv, BackendTyped, Backends
    <3>3. policy'.kind = policy.kind /\ policy'.client = "none"
      BY <1>1, <3>1, ClosesPolicy DEF TrialInv, TrialTyped
    <3> QED BY <1>1, <2>2, <3>1, <3>2, <3>3 DEF Over, AfterFailedClose
  <2> QED BY <1>3, <2>1, <2>2
<1>7. QualPhases' /\ Untouching' /\ QualificationDecides'
  BY <1>1, <1>4, <1>6 DEF QualPhases, Untouching, QualificationDecides, Stage, NotDrifted,
     AllCalled, AbsenceSpec
<1> QED BY <1>2, <1>4, <1>7 DEF QualInv

\* Every step of a qualification keeps the three invariants.
LEMMA QualificationStepKept ==
  ASSUME BackendInv, TrialInv, QualInv, QualificationNext
  PROVE  BackendInv' /\ TrialInv' /\ QualInv'
BY CollectSourcesStep, ACTProtocolStep, N0ProtocolStep, StartAbsenceStep, JudgeAbsenceStep,
   OwnTrialStep, AbsenceTrialStep DEF QualificationNext, TrialStep

-----------------------------------------------------------------------------
(* The calibration of a rest reference.                                  *)

CalibrationStages ==
  {"none", "written", "loaded", "unloadable", "used", "mismatch", "refused"}

CalibrationTyped ==
  /\ registry \in [Parts -> {"recorded", "revised"}]
  /\ calibration \in [stage : CalibrationStages, minimum : Nat, start : Nat,
                      stop : Nat, selected : Nat]

\* Positions from start up to, not including, stop are free records.
FreeStretch(start, stop) ==
  /\ 1 =< start /\ start =< stop /\ stop =< observed + 1
  /\ \A n \in start..(stop - 1) : FreeAt(n)

NoneAsLong(len) == \A run \in FreeRuns : run[2] - run[1] =< len

\* What a reference was made of, and why none was made.
Chosen ==
  /\ CleanSource /\ CyclesExplained
  /\ 1 =< calibration.minimum /\ calibration.minimum =< calibration.stop - calibration.start
  /\ FreeStretch(calibration.start, calibration.stop)
  /\ calibration.selected = Middle(calibration.start, calibration.stop)

NothingLongEnough ==
  ArtifactLoads /\ CleanSource /\ calibration.minimum >= 1 =>
    NoneAsLong(calibration.minimum - 1)

CalibrationInv ==
  /\ CalibrationTyped
  /\ calibration.stage # "none" => TrialOver
  /\ Accepted => Chosen
  /\ calibration.stage = "refused" => NothingLongEnough

-----------------------------------------------------------------------------
\* A set of natural numbers has a least element.
LEMMA LeastElement ==
  ASSUME NEW B, B \subseteq Nat, B # {} PROVE \E m \in B : \A n \in B : m =< n
<1>1. PICK m \in B : \A n \in B : ~(<<n, m>> \in OpToRel(<, Nat))
  BY NatLessThanWellFounded, WFMin, Zenon
<1>2. \A n \in B : n \in Nat /\ ~(n < m)
  BY <1>1 DEF OpToRel
<1> QED BY <1>2

\* There is a longest free run, and a first one among the longest.
LEMMA LongestExists ==
  ASSUME observed \in Nat, FreeRuns # {}
  PROVE  \E run \in FreeRuns : \A other \in FreeRuns :
           \/ other[2] - other[1] < run[2] - run[1]
           \/ other[2] - other[1] = run[2] - run[1] /\ run[1] =< other[1]
<1>1. \A run \in FreeRuns : /\ run[1] \in 1..observed /\ run[2] \in 2..(observed + 1)
                            /\ run[1] < run[2]
  BY DEF FreeRuns
<1> DEFINE Lacks == {observed + 1 - (run[2] - run[1]) : run \in FreeRuns}
<1>2. Lacks \subseteq Nat /\ Lacks # {}
  BY <1>1
<1>3. PICK least \in Lacks : \A n \in Lacks : least =< n
  BY <1>2, LeastElement
<1>4. PICK long \in FreeRuns : least = observed + 1 - (long[2] - long[1])
  BY <1>3
<1>5. \A run \in FreeRuns : run[2] - run[1] =< long[2] - long[1]
  <2> TAKE run \in FreeRuns
  <2>1. least =< observed + 1 - (run[2] - run[1])
    BY <1>3
  <2> QED BY <1>1, <1>4, <2>1
<1> HIDE DEF Lacks
<1> DEFINE Longest == {run \in FreeRuns : run[2] - run[1] = long[2] - long[1]}
           Starts  == {run[1] : run \in Longest}
<1>6. Starts \subseteq Nat /\ Starts # {}
  BY <1>1, <1>4
<1>7. PICK first \in Starts : \A n \in Starts : first =< n
  BY <1>6, LeastElement
<1>8. PICK run \in Longest : first = run[1]
  BY <1>7
<1>9. \A other \in FreeRuns :
           \/ other[2] - other[1] < run[2] - run[1]
           \/ other[2] - other[1] = run[2] - run[1] /\ run[1] =< other[1]
  <2> TAKE other \in FreeRuns
  <2>1. other[2] - other[1] =< run[2] - run[1]
    BY <1>5, <1>8
  <2>2. ASSUME other[2] - other[1] = run[2] - run[1] PROVE run[1] =< other[1]
    <3>1. other \in Longest
      BY <1>8, <2>2
    <3> QED BY <1>7, <1>8, <3>1
  <2>3. other[1] \in Int /\ other[2] \in Int /\ run[1] \in Int /\ run[2] \in Int
    BY <1>1, <1>8
  <2> QED BY <2>1, <2>2, <2>3
<1> QED BY <1>8, <1>9

\* What the search returns: a stretch of free records, and none is longer.
LEMMA LongestFree ==
  ASSUME observed \in Nat, NEW start, start = LongestFreeRun[1],
         NEW stop, stop = LongestFreeRun[2]
  PROVE  /\ start \in Nat /\ stop \in Nat
         /\ FreeStretch(start, stop) /\ NoneAsLong(stop - start)
<1>1. CASE FreeRuns = {}
  <2>1. start = 1 /\ stop = 1
    BY <1>1 DEF LongestFreeRun
  <2> QED BY <1>1, <2>1 DEF FreeStretch, NoneAsLong
<1>2. CASE FreeRuns # {}
  <2>1. PICK run : run = LongestFreeRun
    OBVIOUS
  <2>2. /\ run \in FreeRuns
        /\ \A other \in FreeRuns :
             \/ other[2] - other[1] < run[2] - run[1]
             \/ other[2] - other[1] = run[2] - run[1] /\ run[1] =< other[1]
    BY <1>2, <2>1, LongestExists DEF LongestFreeRun
  <2>3. \A other \in FreeRuns : /\ other[1] \in 1..observed /\ other[2] \in 2..(observed + 1)
                                /\ other[1] < other[2]
                                /\ \A n \in other[1]..(other[2] - 1) : FreeAt(n)
    BY DEF FreeRuns
  <2>4. FreeStretch(start, stop) /\ start \in Nat /\ stop \in Nat
    BY <2>1, <2>2, <2>3 DEF FreeStretch
  <2>5. NoneAsLong(stop - start)
    <3>1. \A other \in FreeRuns : other[2] - other[1] =< run[2] - run[1]
      BY <2>2, <2>3
    <3> QED BY <2>1, <3>1 DEF NoneAsLong
  <2> QED BY <2>4, <2>5
<1> QED BY <1>1, <1>2

\* The middle of a stretch lies in it, with half of what the minimum asks for on
\* either side.
LEMMA MiddleInside ==
  ASSUME NEW start \in Nat, NEW stop \in Nat, NEW minimum \in Nat,
         1 =< minimum, minimum =< stop - start
  PROVE  /\ Middle(start, stop) \in Nat
         /\ start =< Middle(start, stop) - (minimum - 1) \div 2
         /\ Middle(start, stop) + (minimum - 1) \div 2 =< stop - 1
BY DEF Middle

\* A record is called free exactly when neither contact nor its end is there.
LEMMA FreeIsUntouched ==
  ASSUME BackendInv, observed \in Nat, observed =< Len(records), NEW n \in 1..observed
  PROVE  /\ Delivery[n] = records[n]
         /\ FreeAt(n) <=> Untouched(n)
         /\ Untouched(n) => \A s \in Slots : records[n].depths[s] < OnThreshold
<1>1. records \in Seq(Records) /\ n \in DOMAIN records
  BY DEF BackendInv, BackendTyped
<1>2. Delivery[n] = records[n]
  BY <1>1 DEF Delivery
<1>3. \A s \in Slots : records[n].phases[s] = Reference(s, n)
  BY <1>1 DEF BackendInv, RecordsFollowTheSimulator
<1>4. \A s \in Slots : records[n].phases[s] = "free" <=>
        ~InContact(s, n) /\ (n > 1 => ~InContact(s, n - 1))
  BY <1>3 DEF Reference
<1>5. FreeAt(n) <=> Untouched(n)
  BY <1>2, <1>4 DEF FreeAt, Untouched
<1>6. ASSUME NEW s \in Slots, ~(records[n].depths[s] < OnThreshold) PROVE InContact(s, n)
  <2>1. PICK r \in Records : r = records[n]
    BY <1>1
  <2>2. records[n].depths[s] \in Nat
    BY <2>1, BackendAssumption DEF Records, Slots
  <2>3. /\ records[n].depths[s] >= OnThreshold
        /\ \A j \in n..n : records[j].depths[s] > OffThreshold
    BY <1>6, <2>2, BackendAssumption
  <2> QED BY <2>3 DEF InContact
<1> QED BY <1>2, <1>5, <1>6 DEF Untouched

-----------------------------------------------------------------------------
\* When the trial is over nothing of it moves any more.
LEMMA TrialStays == ASSUME TrialOver PROVE ~QualificationNext
<1>1. caller = "runner" /\ qualification.stage = "off" /\ pc \in Over
  BY DEF TrialOver, Stage, Over
<1>2. ~Next
  BY <1>1 DEF Next, Preflight, ResetBackend, ResetPolicy, Observe, BudgetEnds, Infer, Execute,
     RunRow, Commit, AbortPolicy, Close, CallBackend, At, Over
<1> QED BY <1>1, <1>2 DEF QualificationNext, CollectSources, ACTProtocol, N0Protocol,
        StartAbsence, JudgeAbsence, TrialStep, Stage

\* The steps of a delivery are dense.
LEMMA CleanRecordsHold ==
  ASSUME BackendInv, observed \in Nat, observed =< Len(records) PROVE CleanRecords
<1>1. DOMAIN Delivery = 1..observed /\ records \in Seq(Records)
      /\ \A n \in 1..observed : Delivery[n] = records[n] /\ n \in DOMAIN records
  BY DEF Delivery, BackendInv, BackendTyped
<1> QED BY <1>1 DEF CleanRecords, BackendInv, RecordsFollowTheSimulator

\* A reference is made of the middle of the longest free stretch, or refused.
LEMMA CalibrateStep ==
  ASSUME BackendInv, TrialInv, CalibrationInv, NEW minimum \in Nat, Calibrate(minimum)
  PROVE  CalibrationInv'
<1>1. /\ TrialOver /\ CalibrationTyped /\ observed \in Nat /\ observed =< Len(records)
      /\ UNCHANGED <<qualVars, registry>>
  BY DEF Calibrate, CalibrationInv, TrialInv, TrialTyped, Phases, Anywhere, TrialOver
<1>2. PICK start : start = LongestFreeRun[1]
  OBVIOUS
<1>3. PICK stop : stop = LongestFreeRun[2]
  OBVIOUS
<1>4. start \in Nat /\ stop \in Nat /\ FreeStretch(start, stop) /\ NoneAsLong(stop - start)
  BY <1>1, <1>2, <1>3, LongestFree
<1>5. CleanRecords
  BY <1>1, CleanRecordsHold
<1>6. PICK accepted \in BOOLEAN :
        /\ accepted <=> /\ ArtifactLoads /\ CleanSource
                        /\ minimum >= 1 /\ stop - start >= minimum
        /\ calibration' = IF accepted
             THEN [stage |-> "written", minimum |-> minimum, start |-> start,
                   stop |-> stop, selected |-> Middle(start, stop)]
             ELSE [NoCalibration EXCEPT !.stage = "refused", !.minimum = minimum]
  BY <1>2, <1>3, <1>5 DEF Calibrate
<1>7. UNCHANGED <<observed, records, spec, policy, entries, cycles, caller, pc, qualification>>
  BY <1>1 DEF qualVars, vars, trialVars, backendVars
<1>8. /\ TrialOver' /\ (CleanSource' <=> CleanSource) /\ (CyclesExplained' <=> CyclesExplained)
      /\ (ArtifactLoads' <=> ArtifactLoads)
  BY <1>1, <1>7 DEF TrialOver, Stage, CleanSource, CyclesExplained, ArtifactLoads,
     SourceUnrevised, Unrevised
<1>9. /\ FreeStretch(start, stop)'
      /\ \A len : NoneAsLong(len) => NoneAsLong(len)'
  BY <1>4, <1>7 DEF FreeStretch, NoneAsLong, FreeRuns, FreeAt, Delivery
<1>10. CASE accepted
  <2>1. Middle(start, stop) \in Nat
    BY <1>4, <1>6, <1>10, MiddleInside
  <2>2. /\ calibration'.stage = "written" /\ calibration'.minimum = minimum
        /\ calibration'.start = start /\ calibration'.stop = stop
        /\ calibration'.selected = Middle(start, stop)
        /\ CalibrationTyped'
    BY <1>1, <1>4, <1>6, <1>10, <2>1 DEF CalibrationTyped, CalibrationStages
  <2>3. Chosen'
    <3>1. FreeStretch(start, stop)' = FreeStretch(calibration.start, calibration.stop)'
      BY <2>2 DEF FreeStretch, FreeAt, Delivery
    <3> QED BY <1>4, <1>6, <1>8, <1>9, <1>10, <2>2, <3>1 DEF Chosen, ArtifactLoads, Middle
  <2> QED BY <1>8, <2>2, <2>3 DEF CalibrationInv
<1>11. CASE ~accepted
  <2>1. /\ calibration' = [stage |-> "refused", minimum |-> minimum, start |-> 0, stop |-> 0,
                           selected |-> 0]
    BY <1>6, <1>11 DEF NoCalibration
  <2>2. CalibrationTyped' /\ ~Accepted'
    BY <1>1, <2>1 DEF CalibrationTyped, CalibrationStages, Accepted
  <2>3. NothingLongEnough'
    <3>1. SUFFICES ASSUME ArtifactLoads, CleanSource, minimum >= 1
                   PROVE  NoneAsLong(minimum - 1)'
      BY <1>8, <2>1 DEF NothingLongEnough, NoneAsLong, FreeRuns, FreeAt, Delivery
    <3>2. stop - start < minimum
      BY <1>4, <1>6, <1>11, <3>1
    <3>3. NoneAsLong(minimum - 1)
      <4>1. ASSUME NEW run \in FreeRuns PROVE run[2] - run[1] =< minimum - 1
        <5>1. run[1] \in Int /\ run[2] \in Int /\ run[2] - run[1] =< stop - start
          BY <1>1, <1>4, <4>1 DEF NoneAsLong, FreeRuns
        <5> QED BY <1>4, <3>2, <5>1
      <4> QED BY <4>1 DEF NoneAsLong
    <3> QED BY <1>9, <3>3
  <2> QED BY <1>8, <2>2, <2>3 DEF CalibrationInv
<1> QED BY <1>10, <1>11

\* Loading, using and upgrading move a reference along and change nothing it says.
LEMMA LaterStep ==
  ASSUME CalibrationInv, UNCHANGED qualVars, TrialOver,
         CalibrationTyped', Accepted' <=> Accepted,
         calibration'.stage = "refused" => calibration.stage = "refused",
         \A field \in {"minimum", "start", "stop", "selected"} :
           calibration'[field] = calibration[field],
         SourceUnrevised' => SourceUnrevised
  PROVE  CalibrationInv'
<1>1. UNCHANGED <<observed, records, spec, policy, entries, cycles, caller, pc, qualification>>
  BY DEF qualVars, vars, trialVars, backendVars
<1>2. /\ calibration'.minimum = calibration.minimum /\ calibration'.start = calibration.start
      /\ calibration'.stop = calibration.stop /\ calibration'.selected = calibration.selected
  OBVIOUS
<1>3. TrialOver'
  BY <1>1 DEF CalibrationInv, TrialOver, Stage
<1>4. Chosen => Chosen'
  BY <1>1, <1>2 DEF Chosen, CleanSource, CyclesExplained, FreeStretch, FreeAt, Delivery
<1>5. NothingLongEnough => NothingLongEnough'
  <2>1. ArtifactLoads' => ArtifactLoads
    BY <1>1 DEF ArtifactLoads, CyclesExplained
  <2>2. CleanSource' => CleanSource
    BY <1>1 DEF CleanSource
  <2>3. FreeRuns' = FreeRuns
    BY <1>1 DEF FreeRuns, FreeAt, Delivery
  <2>4. \A len : NoneAsLong(len) => NoneAsLong(len)'
    BY <2>3 DEF NoneAsLong
  <2> QED BY <1>2, <2>1, <2>2, <2>4, Zenon DEF NothingLongEnough
<1> QED BY <1>3, <1>4, <1>5 DEF CalibrationInv

\* The inductive invariant of the trial, its qualification and its calibration.
IInv == BackendInv /\ TrialInv /\ QualInv /\ CalibrationInv

\* Where nothing of the qualification moves, it stays.
LEMMA SameQualification ==
  ASSUME BackendInv, TrialInv, QualInv, UNCHANGED qualVars
  PROVE  BackendInv' /\ TrialInv' /\ QualInv'
<1>1. /\ UNCHANGED vars /\ UNCHANGED qualification
      /\ UNCHANGED <<caller, spec, pc, outcome, failed, policy, backend>>
  BY DEF qualVars, vars, trialVars, backendVars
<1>2. QualInv'
  BY <1>1 DEF QualInv, QualPhases, Untouching, QualificationDecides, Stage, NotDrifted, Begun,
     AllCalled, AbsenceSpec
<1> QED BY <1>1, <1>2, SameTrial

\* Every calibration step keeps it.
LEMMA StepKept ==
  ASSUME IInv, CalibrationNext PROVE IInv'
<1>1. CASE QualificationNext /\ UNCHANGED <<registry, calibration>>
  <2>1. BackendInv' /\ TrialInv' /\ QualInv'
    BY <1>1, QualificationStepKept DEF IInv
  <2>2. calibration.stage = "none" /\ CalibrationTyped
    BY <1>1, TrialStays DEF IInv, CalibrationInv
  <2>3. CalibrationInv'
    BY <1>1, <2>2 DEF CalibrationInv, CalibrationTyped, Accepted
  <2> QED BY <2>1, <2>3 DEF IInv
<1>2. ASSUME UNCHANGED qualVars PROVE BackendInv' /\ TrialInv' /\ QualInv'
  BY <1>2, SameQualification DEF IInv
<1>3. ASSUME NEW minimum \in Minimums, Calibrate(minimum) PROVE IInv'
  <2>1. UNCHANGED qualVars /\ minimum \in Nat
    BY <1>3, MinimumsAssumption DEF Calibrate
  <2> QED BY <1>2, <1>3, <2>1, CalibrateStep DEF IInv
<1>4. ASSUME NEW part \in Parts, ReviseRegistry(part) PROVE IInv'
  <2>1. /\ UNCHANGED qualVars /\ TrialOver /\ CalibrationInv
        /\ calibration' = calibration
        /\ registry' = [registry EXCEPT ![part] = "revised"]
    BY <1>4 DEF ReviseRegistry, IInv
  <2>2. CalibrationTyped'
    BY <2>1 DEF CalibrationInv, CalibrationTyped
  <2>3. ~SourceUnrevised'
    BY <1>4, <2>1 DEF CalibrationInv, CalibrationTyped, SourceUnrevised, Unrevised
  <2>4. CalibrationInv'
    BY <2>1, <2>2, <2>3, LaterStep DEF Accepted
  <2> QED BY <1>2, <2>1, <2>4 DEF IInv
<1>5. ASSUME UNCHANGED qualVars, UNCHANGED registry, Accepted,
             NEW stage \in CalibrationStages \ {"none", "refused"},
             calibration' = [calibration EXCEPT !.stage = stage]
      PROVE  IInv'
  <2>1. CalibrationInv /\ CalibrationTyped
    BY DEF IInv, CalibrationInv
  <2>2. /\ CalibrationTyped' /\ calibration'.stage = stage
        /\ \A field \in {"minimum", "start", "stop", "selected"} :
             calibration'[field] = calibration[field]
    BY <1>5, <2>1 DEF CalibrationTyped
  <2>3. TrialOver /\ Accepted'
    BY <1>5, <2>1, <2>2 DEF CalibrationInv, Accepted
  <2>4. SourceUnrevised' <=> SourceUnrevised
    BY <1>5 DEF SourceUnrevised, Unrevised
  <2>5. CalibrationInv'
    BY <1>5, <2>1, <2>2, <2>3, <2>4, LaterStep
  <2> QED BY <1>2, <1>5, <2>5 DEF IInv
<1>6. CASE LoadArtifact
  <2>1. PICK stage \in {"loaded", "unloadable"} :
          calibration' = [calibration EXCEPT !.stage = stage]
    BY <1>6 DEF LoadArtifact
  <2>2. Accepted /\ UNCHANGED <<qualVars, registry>>
    BY <1>6 DEF LoadArtifact, Accepted
  <2> QED BY <1>5, <2>1, <2>2 DEF CalibrationStages
<1>7. CASE UseReference
  <2>1. PICK stage \in {"used", "mismatch"} :
          calibration' = [calibration EXCEPT !.stage = stage]
    BY <1>7 DEF UseReference
  <2>2. Accepted /\ UNCHANGED <<qualVars, registry>>
    BY <1>7 DEF UseReference, Accepted
  <2> QED BY <1>5, <2>1, <2>2 DEF CalibrationStages
<1> QED BY <1>1, <1>3, <1>4, <1>6, <1>7 DEF CalibrationNext

\* The trial starts with it, whichever run it is.
LEMMA InitHolds == ASSUME CalibrationInit PROVE IInv
<1>1. BackendInit /\ BackendInv
  BY BackendStarts DEF CalibrationInit, QualificationInit, Init
<1>2. CalibrationInv
  BY DEF CalibrationInit, CalibrationInv, CalibrationTyped, NoCalibration, CalibrationStages,
     Accepted
<1>3. /\ observed = 0 /\ cycles = 0 /\ signal = "running" /\ cut = 0 /\ entries = 0
      /\ current = [step |-> 0, present |-> TRUE] /\ outcome = "none" /\ failed = FALSE
  BY DEF CalibrationInit, QualificationInit, Init
<1>4. PICK k0 \in Kinds : policy = NewPolicy(k0)
  BY DEF CalibrationInit, QualificationInit, Init, PolicyInit, Kinds
<1>5. PolicyTyped /\ policy = NewPolicy(policy.kind)
  BY <1>4 DEF PolicyTyped, PolicyRecords, NewPolicy, NoPlan
<1>6. caller \in {"runner", "anyone"} /\ spec \in [maxObs : Nat \ {0}, maxCycles : Nat,
                                                  absence : BOOLEAN]
  <2>1. Horizon \in Nat
    BY BackendAssumption
  <2>2. /\ caller \in {"runner", "anyone"}
        /\ \/ \E k \in Kinds : spec \in Specs(k)
           \/ spec = [maxObs |-> Horizon + 1, maxCycles |-> 1, absence |-> FALSE]
           \/ spec = AbsenceSpec
    <3>1. CASE Init
      BY <3>1, Zenon DEF Init
    <3>2. CASE ~Init
      BY <3>2, Zenon DEF CalibrationInit, QualificationInit
    <3> QED BY <3>1, <3>2
  <2>3. ASSUME NEW k \in Kinds, spec \in Specs(k)
        PROVE  spec \in [maxObs : Nat \ {0}, maxCycles : Nat, absence : BOOLEAN]
    <3>1. /\ 2..(Horizon + 1) \subseteq Nat \ {0} /\ 1..(Horizon + 1) \subseteq Nat
      BY <2>1
    <3>2. spec \in [maxObs : 2..(Horizon + 1), maxCycles : 1..(Horizon + 1), absence : BOOLEAN]
      BY <2>3 DEF Specs
    <3> QED BY <3>1, <3>2
  <2>4. \A m \in {1, 2}, a \in BOOLEAN :
          [maxObs |-> Horizon + 1, maxCycles |-> m, absence |-> a]
            \in [maxObs : Nat \ {0}, maxCycles : Nat, absence : BOOLEAN]
    BY <2>1
  <2>5. AbsenceSpec \in [maxObs : Nat \ {0}, maxCycles : Nat, absence : BOOLEAN]
    BY <2>4 DEF AbsenceSpec
  <2> QED BY <2>2, <2>3, <2>4, <2>5
<1>7. TrialTyped /\ CrashHasCause
  BY <1>3, <1>5, <1>6 DEF TrialTyped, CrashHasCause, Observations, Signals
<1>8. Anyone /\ (caller = "runner" => pc \in {"idle", "preflight"})
  BY DEF CalibrationInit, QualificationInit, Init, Anyone
<1>9. /\ records = <<>> /\ simulator.released = 0 /\ ~backend.closed
  BY <1>1 DEF BackendInit, NewBackend, NewSimulator
<1>10. caller = "runner" => Anywhere /\ InTrial
  BY <1>1, <1>3, <1>5, <1>8, <1>9 DEF Anywhere, InTrial, Before, Within, Cycle, Ending, Over,
     Untroubled
<1>11. QualInv
  <2>1. CASE Init /\ qualification = Off
    <3>1. qualification \in Qualifications
      BY <2>1 DEF Off, Qualifications, Stages, Capable
    <3>2. qualification.stage = "off" /\ pc # "idle"
      BY <2>1 DEF Off, Init
    <3> QED BY <3>1, <3>2 DEF QualInv, QualPhases, Untouching, QualificationDecides, Stage
  <2>2. CASE ~(Init /\ qualification = Off)
    <3>1. /\ caller = "runner" /\ pc = "idle" /\ spec = AbsenceSpec
      BY <2>2 DEF CalibrationInit, QualificationInit
    <3>2. PICK kind \in {"strict_act", "n0"}, identity \in [tactile : BOOLEAN, absence : BOOLEAN],
               drift \in SUBSET SourceSets :
            /\ policy = NewPolicy(kind)
            /\ qualification = [Off EXCEPT !.stage = "sources", !.kind = kind,
                                  !.identity = identity, !.drift = drift, !.left = {"A1", "A2"}]
      BY <2>2 DEF CalibrationInit, QualificationInit, PolicyInit
    <3>3. qualification = [stage |-> "sources", kind |-> kind, identity |-> identity,
                           drift |-> drift, calls |-> <<>>, prepared |-> 0, committed |-> 0,
                           left |-> {"A1", "A2"}, effects |-> FALSE]
      BY <3>2 DEF Off
    <3>4. /\ qualification \in Qualifications /\ qualification.kind = kind
          /\ qualification.stage = "sources" /\ qualification.calls = <<>>
      BY <3>3 DEF Qualifications, Stages
    <3>5. Begun(qualification) /\ policy.kind = kind
      BY <3>2, <3>4, CallsType DEF Begun, NewPolicy
    <3> QED BY <3>1, <3>4, <3>5 DEF QualInv, QualPhases, Untouching, QualificationDecides, Stage
  <2> QED BY <2>1, <2>2
<1> QED BY <1>1, <1>2, <1>7, <1>8, <1>10, <1>11 DEF IInv, TrialInv, Phases

\* The inductive invariant holds throughout.
THEOREM TrialInvariant == CalibrationSpec => []IInv
<1>1. CalibrationInit => IInv
  BY InitHolds
<1>2. IInv /\ [CalibrationNext]_calibrationVars => IInv'
  <2>1. ASSUME IInv, UNCHANGED calibrationVars PROVE IInv'
    <3>1. /\ UNCHANGED <<qualVars, registry, calibration>> /\ CalibrationInv
          /\ BackendInv' /\ TrialInv' /\ QualInv'
      BY <2>1, SameQualification DEF calibrationVars, IInv
    <3>2. CASE TrialOver
      <4>1. SourceUnrevised' => SourceUnrevised
        BY <3>1 DEF SourceUnrevised, Unrevised
      <4>2. CalibrationTyped'
        BY <3>1 DEF CalibrationInv, CalibrationTyped
      <4> QED BY <3>1, <3>2, <4>1, <4>2, LaterStep DEF Accepted, IInv
    <3>3. CASE ~TrialOver
      BY <3>1, <3>3 DEF CalibrationInv, CalibrationTyped, Accepted, IInv
    <3> QED BY <3>2, <3>3
  <2> QED BY <2>1, StepKept
<1> QED BY <1>1, <1>2, PTL DEF CalibrationSpec

-----------------------------------------------------------------------------
\* A reference is accepted or refused as its stretch deserves.
LEMMA ReferenceDecided == ASSUME IInv PROVE RestReferenceDecides
<1>1. /\ BackendInv /\ observed \in Nat /\ CalibrationInv /\ CalibrationTyped
      /\ calibration.stage # "none" => TrialOver /\ observed =< Len(records)
  BY DEF IInv, TrialInv, TrialTyped, CalibrationInv, TrialOver, Phases, Anywhere
<1>2. calibration.minimum \in Nat /\ calibration.start \in Nat /\ calibration.stop \in Nat
  BY <1>1 DEF CalibrationTyped
<1>3. calibration.stage # "none" =>
        \A n \in 1..observed : /\ FreeAt(n) <=> Untouched(n)
                               /\ Untouched(n) => \A s \in Slots :
                                                    records[n].depths[s] < OnThreshold
  BY <1>1, FreeIsUntouched
<1>4. ASSUME Accepted, NEW n \in (calibration.selected - Around)..(calibration.selected + Around)
      PROVE  /\ n \in 1..observed /\ Untouched(n)
             /\ \A s \in Slots : records[n].depths[s] < OnThreshold
  <2>1. Chosen /\ calibration.stage # "none"
    BY <1>1, <1>4 DEF CalibrationInv, Accepted
  <2>2. /\ calibration.selected \in Nat
        /\ calibration.start =< calibration.selected - Around
        /\ calibration.selected + Around =< calibration.stop - 1
    BY <1>2, <2>1, MiddleInside DEF Chosen, Around
  <2>3. Around \in Int
    BY <1>2 DEF Around
  <2>4. n \in calibration.start..(calibration.stop - 1)
    BY <1>2, <1>4, <2>2, <2>3
  <2>5. n \in 1..observed /\ FreeAt(n)
    BY <1>1, <1>2, <2>1, <2>4 DEF Chosen, FreeStretch
  <2> QED BY <1>3, <2>1, <2>5
<1>5. ASSUME calibration.stage = "refused", CleanSource, observed > 0, CyclesExplained,
             SourceUnrevised, calibration.minimum >= 1,
             NEW first \in 1..(observed - calibration.minimum + 1),
             \A n \in first..(first + calibration.minimum - 1) : Untouched(n)
      PROVE  FALSE
  <2>1. NoneAsLong(calibration.minimum - 1)
    BY <1>1, <1>5 DEF CalibrationInv, NothingLongEnough, ArtifactLoads
  <2> DEFINE beyond == first + calibration.minimum
             run == <<first, beyond>>
  <2>2. /\ first \in 1..observed /\ beyond \in 2..(observed + 1) /\ first < beyond
        /\ \A n \in first..(beyond - 1) : n \in 1..observed
    BY <1>1, <1>2, <1>5
  <2>3. \A n \in first..(beyond - 1) : FreeAt(n)
    <3>1. \A n \in first..(beyond - 1) : Untouched(n)
      BY <1>2, <1>5
    <3>2. \A n \in 1..observed : Untouched(n) => FreeAt(n)
      BY <1>3, <1>5
    <3> HIDE DEF beyond
    <3> QED BY <2>2, <3>1, <3>2
  <2>4. run[1] = first /\ run[2] = beyond /\ run \in (1..observed) \X (2..observed + 1)
    BY <2>2
  <2>5. run \in FreeRuns
    BY <2>2, <2>3, <2>4 DEF FreeRuns
  <2>6. beyond - first =< calibration.minimum - 1
    BY <2>1, <2>4, <2>5 DEF NoneAsLong
  <2> QED BY <1>2, <1>5, <2>6
<1>6. Accepted => CleanSource /\ CyclesExplained
  BY <1>1 DEF CalibrationInv, Chosen
<1> QED BY <1>4, <1>5, <1>6 DEF RestReferenceDecides

\* The phases of the accepted records are those of their indentations, and the
\* steps and native steps of a trial are dense (DepthPhaseTracker, execute_row).
THEOREM RecordsFollowSimulator == CalibrationSpec => []RecordsFollowTheSimulator
<1>1. IInv => RecordsFollowTheSimulator
  BY DEF IInv, BackendInv
<1> QED BY <1>1, TrialInvariant, PTL

\* The runner's calls are ones its components accept.
THEOREM CrashesHaveCauses == CalibrationSpec => []CrashHasCause
<1>1. IInv => CrashHasCause
  BY DEF IInv, TrialInv
<1> QED BY <1>1, TrialInvariant, PTL

\* Between two cycles nothing is pending and the counts agree.
THEOREM CycleBoundaries == CalibrationSpec => []CycleBoundary
<1>1. IInv => CycleBoundary
  BY DEF IInv, TrialInv, Phases, InTrial, CycleBoundary, At, Cycle, AtRest, OnStep, Cycling,
     Settled
<1> QED BY <1>1, TrialInvariant, PTL

\* After the trial nothing is held.
THEOREM NothingIsHeld == CalibrationSpec => []NothingHeld
<1>1. ASSUME IInv PROVE NothingHeld
  <2>1. pc \in Over => caller = "runner" /\ Anywhere
    BY <1>1 DEF IInv, TrialInv, Phases, Anyone, Over, TrialTyped
  <2> QED BY <2>1 DEF NothingHeld, Anywhere, LetGo, Over, At
<1> QED BY <1>1, TrialInvariant, PTL

\* A receipt is given exactly when it is earned.
THEOREM ReceiptsAreEarned == CalibrationSpec => []QualificationDecides
<1>1. IInv => QualificationDecides
  BY DEF IInv, QualInv
<1> QED BY <1>1, TrialInvariant, PTL

\* A rest reference is accepted exactly when the trial holds one.
THEOREM ReferencesDecided == CalibrationSpec => []RestReferenceDecides
<1>1. IInv => RestReferenceDecides
  BY ReferenceDecided
<1> QED BY <1>1, TrialInvariant, PTL
=============================================================================
